---------------------------- MODULE CommandLine -----------------------------
(***************************************************************************)
(* The shell's command language, from a line to a command's arguments: the *)
(* string functions of kernel/src/shell.rs and env::expand.  No state; a   *)
(* result of type Option is a sequence of length zero or one.              *)
(***************************************************************************)
EXTENDS Text

\* The quote a scan is in after c: both scanners open and close quotes alike.
NextQuote(q, c) ==
  IF q = "" /\ c \in Quotes THEN c ELSE IF q = c THEN "" ELSE q

-----------------------------------------------------------------------------
(* split_commands                                                          *)

\* Mutant: separators count inside quotes too.
CutsAnywhere(s, st, i) ==
  IF s[i] = ";" THEN 1
  ELSE IF s[i] = "&" /\ i < Len(s) /\ s[i + 1] = "&" THEN 2 ELSE 0

\* The length of the separator at i; none inside quotes.
CutLength(s, st, i) ==
  IF st.quote # "" THEN 0
  ELSE IF s[i] = ";" THEN 1
  ELSE IF s[i] = "&" /\ i < Len(s) /\ s[i + 1] = "&" THEN 2 ELSE 0

split_commands(s) ==
  LET Step(st, i) ==
        LET n == CutLength(s, st, i)
        IN  IF st.skip THEN [st EXCEPT !.skip = FALSE]
            ELSE IF n > 0 THEN [st EXCEPT !.out = Append(@, <<>>), !.skip = n = 2]
            ELSE [st EXCEPT !.out[Len(st.out)] = Append(@, s[i]),
                            !.quote = NextQuote(st.quote, s[i])]
  IN  FoldLeftDomain(Step, [out |-> << <<>> >>, quote |-> "", skip |-> FALSE], s).out

-----------------------------------------------------------------------------
(* env::expand                                                             *)

\* An unset variable is empty.
Value(env, key) == IF key \in DOMAIN env THEN env[key] ELSE <<>>

\* Inside a name the scan is in mode "bare" or "brace", after a "$" in mode
\* "dollar".  A bare name ends before the first character that is not of it,
\* and a "$" before anything else stands for itself.
expand(s, env) ==
  LET Named(st) == [out |-> st.out \o Value(env, st.key), mode |-> "text", key |-> <<>>]
      Ended(st) == CASE st.mode = "dollar" -> [st EXCEPT !.out = Append(@, "$"), !.mode = "text"]
                     [] st.mode \in {"bare", "brace"} -> Named(st)
                     [] OTHER -> st
      Step(st0, c) ==
        LET st == IF (st0.mode = "bare" /\ ~IsWord(c))
                     \/ (st0.mode = "dollar" /\ c # "{" /\ ~IsWord(c))
                  THEN Ended(st0) ELSE st0
        IN  CASE st.mode = "brace" /\ c = "}"     -> Named(st)
              [] st.mode = "brace" /\ c # "}"     -> [st EXCEPT !.key = Append(@, c)]
              [] st.mode = "bare"                 -> [st EXCEPT !.key = Append(@, c)]
              [] st.mode = "dollar" /\ c = "{"    -> [st EXCEPT !.mode = "brace"]
              [] st.mode = "dollar" /\ c # "{"    -> [st EXCEPT !.mode = "bare", !.key = <<c>>]
              [] st.mode = "text" /\ c = "$"      -> [st EXCEPT !.mode = "dollar"]
              [] st.mode = "text" /\ c # "$"      -> [st EXCEPT !.out = Append(@, c)]
  IN  Ended(FoldLeft(Step, [out |-> <<>>, mode |-> "text", key |-> <<>>], s)).out

-----------------------------------------------------------------------------
(* A command and its argument                                              *)

tilde_expand(s) == IF s # <<>> /\ s[1] = "~" THEN <<"/">> \o Tail(s) ELSE s

FirstBlank(s) == SelectInSeq(s, LAMBDA c : c = " ")

\* name_eq looks at the text before the first blank.
NameOf(cmd) == IF FirstBlank(cmd) = 0 THEN cmd ELSE SubSeq(cmd, 1, FirstBlank(cmd) - 1)

Unquote(s) ==
  IF Len(s) >= 2 /\ s[1] \in Quotes /\ Last(s) = s[1] THEN SubSeq(s, 2, Len(s) - 1) ELSE s

\* The rest of the line, without the quotes around it.
cmd_arg(cmd) ==
  LET rest == IF FirstBlank(cmd) = 0 THEN <<>>
              ELSE Trim(SubSeq(cmd, FirstBlank(cmd) + 1, Len(cmd)))
  IN  IF rest = <<>> THEN <<>> ELSE <<tilde_expand(Unquote(rest))>>

-----------------------------------------------------------------------------
(* tokenize_quoted and parse_args                                          *)

\* A quote that opens or closes is dropped; an empty token too.
tokenize_quoted(s) ==
  LET Step(st, c) ==
        LET q == NextQuote(st.quote, c)
        IN  IF q # st.quote THEN [st EXCEPT !.quote = q]
            ELSE IF q = "" /\ c = " " THEN [st EXCEPT !.out = Append(@, <<>>)]
            ELSE [st EXCEPT !.out[Len(st.out)] = Append(@, c)]
  IN  NonEmpty(FoldLeft(Step, [out |-> << <<>> >>, quote |-> ""], s).out)

StartsWithDigit(s) == s # <<>> /\ IsDigit(s[1])

\* Mutant: the value is not stepped over.
OptionsNoSkip(p, opts, next) ==
  LET D == {j \in 2..Len(opts) : IsDigit(opts[j])}
      k == IF D = {} THEN Len(opts) ELSE Min(D) - 1
      val == IF D # {} THEN SubSeq(opts, k + 1, Len(opts)) ELSE next
      more == [p EXCEPT !.flags = @ \o SubSeq(opts, 1, k - 1)]
  IN  IF D # {} \/ StartsWithDigit(next)
        THEN [more EXCEPT !.flag_vals = Append(@, <<opts[k], val>>)]
        ELSE [more EXCEPT !.flags = Append(@, opts[k])]

\* One token of options, next being the token after it: letters up to a
\* digit, which starts the value of the letter before it; the last letter
\* takes the next token if that starts with a digit.
Options(p, opts, next) ==
  LET D == {j \in 2..Len(opts) : IsDigit(opts[j])}
      k == IF D = {} THEN Len(opts) ELSE Min(D) - 1
      val == IF D # {} THEN SubSeq(opts, k + 1, Len(opts)) ELSE next
      more == [p EXCEPT !.flags = @ \o SubSeq(opts, 1, k - 1)]
  IN  IF D # {} \/ StartsWithDigit(next)
        THEN [more EXCEPT !.flag_vals = Append(@, <<opts[k], val>>), !.skip = D = {}]
        ELSE [more EXCEPT !.flags = Append(@, opts[k])]

parse_args(s) ==
  LET toks == tokenize_quoted(s)
      Step(p, i) ==
        LET t == toks[i]
            next == IF i < Len(toks) THEN toks[i + 1] ELSE <<>>
        IN  IF p.skip THEN [p EXCEPT !.skip = FALSE]
            ELSE IF p.stop \/ t[1] # "-" \/ t = <<"-">>
              THEN [p EXCEPT !.positional = Append(@, tilde_expand(t))]
            ELSE IF t = <<"-", "-">> THEN [p EXCEPT !.stop = TRUE]
            ELSE Options(p, Tail(t), next)
  IN  FoldLeftDomain(Step, [flags |-> <<>>, flag_vals |-> <<>>, positional |-> <<>>,
                            stop |-> FALSE, skip |-> FALSE], toks)

\* ParsedArgs::has_flag and flag_val
has_flag(p, c) == c \in Range(p.flags) \/ \E i \in DOMAIN p.flag_vals : p.flag_vals[i][1] = c
flag_val(p, c) ==
  LET i == SelectInSeq(p.flag_vals, LAMBDA fv : fv[1] = c)
  IN  IF i = 0 THEN <<>> ELSE <<p.flag_vals[i][2]>>

-----------------------------------------------------------------------------
(* Suggestions and completion                                              *)

\* edit_distance keeps one row of the table; prev is the entry up and left.
edit_distance(a, b) ==
  LET Cell(c, st, j) ==
        [row  |-> [st.row EXCEPT ![j] =
                     IF c = b[j] THEN st.prev
                     ELSE 1 + Min({st.prev, st.row[j], st.row[j - 1]})],
         prev |-> st.row[j]]
      NextRow(row, c) ==
        FoldLeftDomain(LAMBDA st, j : Cell(c, st, j),
                       [row |-> [row EXCEPT ![0] = @ + 1], prev |-> row[0]], b).row
  IN  FoldLeft(NextRow, [j \in 0..Len(b) |-> j], a)[Len(b)]

\* The distance by its recurrence.
Levenshtein(a, b) ==
  LET d[p \in (0..Len(a)) \X (0..Len(b))] ==
        IF p[1] = 0 \/ p[2] = 0 THEN p[1] + p[2]
        ELSE Min({d[<<p[1] - 1, p[2]>>] + 1, d[<<p[1], p[2] - 1>>] + 1,
                  d[<<p[1] - 1, p[2] - 1>>] + (IF a[p[1]] = b[p[2]] THEN 0 ELSE 1)})
  IN  d[<<Len(a), Len(b)>>]

\* The command that an unknown one is taken for: the first one it abbreviates,
\* or the first of the nearest if that is at most two edits away.
Suggestion(cmd, names) ==
  LET p == SelectInSeq(names, LAMBDA n : IsPrefix(cmd, n))
      D == [i \in DOMAIN names |-> edit_distance(cmd, names[i])]
      best == Min(Range(D))
  IN  IF p # 0 THEN <<names[p]>>
      ELSE IF best <= 2 THEN <<names[Min({i \in DOMAIN D : D[i] = best})]>> ELSE <<>>

\* Each further candidate shortens what they have in common.
longest_common_prefix(cs) ==
  IF cs = <<>> THEN 0
  ELSE FoldLeft(LAMBDA n, c :
                  LET m == Min({n, Len(c)})
                      D == {i \in 1..m : cs[1][i] # c[i]}
                  IN  IF D = {} THEN m ELSE Min(D) - 1,
                Len(cs[1]), Tail(cs))
=============================================================================
