--------------------------- MODULE ShellCommands ----------------------------
(***************************************************************************)
(* The shell at work on the file system: dispatch and dispatch_one of      *)
(* kernel/src/shell.rs run a line typed by the user; the commands of       *)
(* kernel/src/cmd/fs.rs and ui.rs read the tree of Ramfs, change CWD,      *)
(* PREV_CWD and the variables of kernel/src/env.rs, and print.             *)
(*                                                                         *)
(* A line is run under the SHELL lock, between two interrupts or across    *)
(* them, and no handler touches any of this: a line is one step.  Output   *)
(* is a sequence of items [tag, text]; colours, wording and columns are    *)
(* left out.                                                               *)
(***************************************************************************)
EXTENDS Ramfs, CommandLine

CONSTANTS
  Commands,  \* COMMANDS: a sequence of [name, run]
  Lines,     \* lines the user may enter
  Texts,     \* lines to be entered into a shell without a file system
  Paths,     \* paths the user may give a command
  Partials   \* lines on which the user may press Tab

VARIABLES
  sh,        \* [cwd, prev, env, out]; cwd and prev as normalized paths
  line       \* the last line entered

vars == <<fsvars, sh, line>>

PWD == <<"P", "W", "D">>
HOME == <<"H", "O", "M", "E">>
SHELL == <<"S", "H", "E", "L", "L">>
Slash == <<"/">>

Init ==
  /\ FsInit
  /\ sh = [cwd |-> <<>>, prev |-> <<>>, out |-> <<>>,
           env |-> [k \in {PWD, HOME, SHELL} |-> IF k = SHELL THEN <<"s", "h">> ELSE Slash]]
  /\ line = <<>>

-----------------------------------------------------------------------------
(* Paths                                                                   *)

Components(s) == NonEmpty(SplitAt(s, "/"))
PathText(p) ==
  IF p = <<>> THEN Slash ELSE FlattenSeq([i \in DOMAIN p |-> Slash \o p[i]])

\* Mutant: ".." drops a component from the front.
NormalizeFront(path) ==
  FoldLeft(LAMBDA out, c : CASE c = <<".">>      -> out
                             [] c = <<".", ".">> -> IF out = <<>> THEN out ELSE Tail(out)
                             [] OTHER            -> Append(out, c),
           <<>>, path)

\* normalize: "." goes, ".." takes the component before it along, if any.
normalize(path) ==
  FoldLeft(LAMBDA out, c : CASE c = <<".">>      -> out
                             [] c = <<".", ".">> -> IF out = <<>> THEN out ELSE Front(out)
                             [] OTHER            -> Append(out, c),
           <<>>, path)

\* resolve: relative to CWD unless the text starts with "/".
resolve(st, s) ==
  IF s # <<>> /\ s[1] = "/" THEN Components(s) ELSE st.cwd \o Components(s)

Target(st, s) == normalize(resolve(st, s))

\* The content of a file.
read_file_str(path) == IF IsFile(path) THEN <<tree[lookup(path)].data>> ELSE <<>>

-----------------------------------------------------------------------------
(* Commands: functions from the shell's state and an argument.             *)

Say(st, tag, text) == [st EXCEPT !.out = Append(@, [tag |-> tag, text |-> text])]
SayAll(st, texts) == FoldLeft(LAMBDA s, t : Say(s, "line", t), st, texts)
Fail(st, tag) == Say(st, tag, <<>>)
print_file(st, path) == SayAll(st, LinesOf(tree[lookup(path)].data))

\* env::set
SetVar(env, k, v) == [x \in DOMAIN env \cup {k} |-> IF x = k THEN v ELSE env[x]]

\* cwd_set and env::set("PWD", ..), in either order.
GoTo(st, path) ==
  [st EXCEPT !.cwd = path, !.prev = st.cwd, !.env = SetVar(@, PWD, PathText(path))]

\* Mutant: the kind of the node is not looked at.
Enterable(path) == path = <<>> \/ lookup(path) # None

\* The root, or a directory that lookup finds.
CanEnter(path) == path = <<>> \/ IsDir(path)

\* An error message leaves everything as it is.
cmd_cd(st, arg) ==
  CASE arg = <<>>       -> GoTo(st, <<>>)
    [] arg = << <<"-">> >> -> GoTo(st, st.prev)
    [] OTHER            -> LET p == Target(st, arg[1])
                           IN  IF CanEnter(p) THEN GoTo(st, p) ELSE Fail(st, "cd")

\* The root is listed through with_root, since lookup does not return it; the
\* names are sorted.
cmd_ls(st, arg) ==
  LET p == IF arg = <<>> THEN st.cwd ELSE Target(st, arg[1])
      d == IF p = <<>> THEN Root ELSE lookup(p)
      Item(n) == IF IsDir(Append(p, n)) THEN n \o Slash ELSE n
      names == SortSeq(readdir(d), Before)
  IN  CASE p = <<>> /\ ~mounted -> Fail(st, "ls")
        [] p # <<>> /\ d = None -> Fail(st, "ls")
        [] IsFile(p)            -> Say(st, "line", Last(p))
        [] OTHER                -> IF names = <<>> THEN Fail(st, "empty")
                                   ELSE SayAll(st, [i \in DOMAIN names |-> Item(names[i])])

cmd_cat(st, arg) ==
  LET p == Target(st, arg[1])
  IN  CASE arg = <<>>        -> Fail(st, "usage")
        [] arg # <<>> /\ IsFile(p) -> print_file(st, p)
        [] OTHER             -> Fail(st, "cat")

cmd_stat(st, arg) ==
  LET p == Target(st, arg[1])
  IN  CASE arg = <<>>        -> Fail(st, "usage")
        [] arg # <<>> /\ lookup(p) # None ->
             Say(Say(st, tree[lookup(p)].kind, PathText(p)), "size", Decimal[Size(lookup(p))])
        [] OTHER             -> Fail(st, "stat")

cmd_pwd(st, arg) == Say(st, "line", PathText(st.cwd))

cmd_echo(st, arg) ==
  LET p == parse_args(IF arg = <<>> THEN <<>> ELSE arg[1])
  IN  Say(st, IF has_flag(p, "n") THEN "text" ELSE "line", JoinBlank(p.positional))

\* What grep, head, tail and wc print of a file's content.
Grep(content, p, pattern) ==
  LET Fold(s) == IF has_flag(p, "i") THEN ToLower(s) ELSE s
      all == LinesOf(content)
      hits == SelectSeq([i \in DOMAIN all |-> i],
                        LAMBDA i : HasPart(Fold(all[i]), Fold(pattern)))
  IN  IF has_flag(p, "c") THEN <<Decimal[Len(hits)]>>
      ELSE [j \in DOMAIN hits |->
              IF has_flag(p, "n") THEN Decimal[hits[j]] \o <<":">> \o all[hits[j]]
              ELSE all[hits[j]]]

\* `-n' with a number, else ten lines.
Count(p) ==
  LET v == flag_val(p, "n")
  IN  IF v = <<>> THEN 10 ELSE IF IsNumber(v[1]) THEN Number(v[1]) ELSE 10

HeadLines(content, n) == SubSeq(LinesOf(content), 1, Min({n, Len(LinesOf(content))}))

\* The start saturates at the first line.
TailLines(content, n) ==
  LET all == LinesOf(content)
  IN  SubSeq(all, (IF n > Len(all) THEN 0 ELSE Len(all) - n) + 1, Len(all))

WordsOf(s) == FlattenSeq([i \in DOMAIN LinesOf(s) |-> NonEmpty(SplitAt(LinesOf(s)[i], " "))])

Wc(content, p) ==
  LET all == p.flags = <<>> /\ p.flag_vals = <<>>
      n == <<Len(LinesOf(content)), Len(WordsOf(content)), Len(content)>>
  IN  FlattenSeq([i \in 1..3 |-> IF all \/ has_flag(p, <<"l", "w", "c">>[i])
                                 THEN <<Decimal[n[i]]>> ELSE <<>>])

\* The commands that read one file, the at-th positional argument; for grep
\* the pattern comes first.
FileCommand(st, arg, run) ==
  LET p == parse_args(arg[1])
      at == IF run = "grep" THEN 2 ELSE 1
      path == Target(st, p.positional[at])
      content == read_file_str(path)
  IN  IF arg = <<>> THEN Fail(st, "usage")
      ELSE IF Len(p.positional) < at THEN Fail(st, "usage")
      ELSE IF content = <<>> THEN Fail(st, run)
      ELSE SayAll(st, CASE run = "grep" -> Grep(content[1], p, p.positional[1])
                        [] run = "head" -> HeadLines(content[1], Count(p))
                        [] run = "tail" -> TailLines(content[1], Count(p))
                        [] run = "wc"   -> Wc(content[1], p))

\* A variable as export prints it, and all of them in the order of the map.
VarText(env, k) == k \o <<"=">> \o env[k]
VarTexts(env) ==
  LET ks == SetToSortSeq(DOMAIN env, Before) IN [i \in DOMAIN ks |-> VarText(env, ks[i])]

\* Without an argument, or with a blank one, all variables are listed.
cmd_export(st, arg) ==
  LET s == IF arg = <<>> THEN <<>> ELSE Trim(arg[1])
      eq == SelectInSeq(s, LAMBDA c : c = "=")
  IN  CASE eq # 0 -> [st EXCEPT !.env = SetVar(@, SubSeq(s, 1, eq - 1), SubSeq(s, eq + 1, Len(s)))]
        [] eq = 0 /\ s = <<>> -> SayAll(st, VarTexts(st.env))
        [] eq = 0 /\ s # <<>> -> IF s \in DOMAIN st.env THEN Say(st, "line", VarText(st.env, s))
                                 ELSE Fail(st, "export")

Names == [i \in DOMAIN Commands |-> Commands[i].name]

\* help: the file below /sys/help, else the usage of a command.
Help == <<"h", "e", "l", "p">>
cmd_help(st, arg) ==
  LET p == << <<"s", "y", "s">>, Help >> \o Components(arg[1])
  IN  IF arg = <<>> THEN SayAll(st, Names)
      ELSE IF IsFile(p) THEN print_file(st, p)
      ELSE Fail(st, IF arg[1] \in Range(Names) THEN "usage" ELSE "no help")

-----------------------------------------------------------------------------
(* dispatch                                                                *)

Run(st, run, arg) ==
  CASE run = "cd"     -> cmd_cd(st, arg)
    [] run = "ls"     -> cmd_ls(st, arg)
    [] run = "cat"    -> cmd_cat(st, arg)
    [] run = "stat"   -> cmd_stat(st, arg)
    [] run = "pwd"    -> cmd_pwd(st, arg)
    [] run = "echo"   -> cmd_echo(st, arg)
    [] run = "export" -> cmd_export(st, arg)
    [] run = "help"   -> cmd_help(st, arg)
    [] OTHER          -> FileCommand(st, arg, run)

\* Variables are expanded when the command's turn has come.
dispatch_one(st, seg) ==
  LET cmd == expand(Trim(seg), st.env)
      i == SelectInSeq(Names, LAMBDA n : n = NameOf(cmd))
      near == Suggestion(cmd, Names)
  IN  IF cmd = <<>> THEN st
      ELSE IF i # 0 THEN Run(st, Commands[i].run, cmd_arg(cmd))
      ELSE Say(st, "unknown", IF near = <<>> THEN <<>> ELSE near[1])

\* Mutant: the line is expanded before it is split.
DispatchExpanded(st, s) ==
  FoldLeft(dispatch_one, st, NonEmpty(split_commands(expand(s, st.env))))

\* The commands of a line, one after the other; a blank one is skipped.
dispatch(st, s) ==
  FoldLeft(dispatch_one, st,
           SelectSeq(split_commands(s), LAMBDA seg : Trim(seg) # <<>>))

\* Enter.
Submit(s) ==
  /\ phase = "run"
  /\ line' = s
  /\ sh' = dispatch([sh EXCEPT !.out = <<>>], s)
  /\ UNCHANGED fsvars

-----------------------------------------------------------------------------
(* complete; ShellEdit has what it does to the line buffer.                *)

\* The text up to the last "/", which names the directory.
DirText(s) == SubSeq(s, 1, SelectLastInSeq(s, LAMBDA c : c = "/"))

\* Mutant: a relative directory is taken from the root.
complete_pathRoot(st, s) ==
  LET dir == normalize(Components(DirText(s)))
      prefix == SubSeq(s, Len(DirText(s)) + 1, Len(s))
      names == IF dir = <<>> THEN (IF mounted THEN readdir(Root) ELSE <<>>)
               ELSE IF IsDir(dir) THEN readdir(lookup(dir)) ELSE <<>>
      hits == SelectSeq(names, LAMBDA n : IsPrefix(prefix, n))
  IN  [cands |-> [i \in DOMAIN hits |->
                    IF IsDir(Append(dir, hits[i])) THEN hits[i] \o Slash ELSE hits[i]],
       len |-> Len(prefix)]

\* The entries of that directory that start with the rest of the text.
complete_path(st, s) ==
  LET dir == IF DirText(s) = <<>> THEN st.cwd ELSE Target(st, DirText(s))
      prefix == SubSeq(s, Len(DirText(s)) + 1, Len(s))
      names == IF dir = <<>> THEN (IF mounted THEN readdir(Root) ELSE <<>>)
               ELSE IF IsDir(dir) THEN readdir(lookup(dir)) ELSE <<>>
      hits == SelectSeq(names, LAMBDA n : IsPrefix(prefix, n))
  IN  [cands |-> [i \in DOMAIN hits |->
                    IF IsDir(Append(dir, hits[i])) THEN hits[i] \o Slash ELSE hits[i]],
       len |-> Len(prefix)]

\* Command names for the first word and after help; paths elsewhere.
Candidates(st, s) ==
  LET t == SubSeq(s, SelectInSeq(s, LAMBDA c : c # " "), Len(s))
      b == FirstBlank(t)
      arg == LET r == SubSeq(t, b, Len(t))
                 i == SelectInSeq(r, LAMBDA c : c # " ")
             IN  IF i = 0 THEN <<>> ELSE SubSeq(r, i, Len(r))
      named(w) == [cands |-> SelectSeq(Names, LAMBDA n : IsPrefix(w, n)), len |-> Len(w)]
  IN  IF Trim(s) = <<>> THEN [cands |-> <<>>, len |-> 0]
      ELSE IF b = 0 THEN named(t)
      ELSE IF NameOf(t) = Help THEN named(arg)
      ELSE complete_path(st, arg)

\* The line after Tab: what all candidates have in common is appended.
complete(st, s) ==
  LET c == Candidates(st, s)
      n == longest_common_prefix(c.cands)
  IN  IF c.cands = <<>> \/ n <= c.len THEN s
      ELSE s \o SubSeq(c.cands[1], c.len + 1, n)

-----------------------------------------------------------------------------

\* Bound: a shell without a file system gets one of many lines, a shell with
\* one gets any number of a few.
Next ==
  \/ (\E e \in Entries : ParseEntry(e)) /\ UNCHANGED <<sh, line>>
  \/ Mount /\ UNCHANGED <<sh, line>>
  \/ NoRamdisk /\ UNCHANGED <<sh, line>>
  \/ mounted /\ \E s \in Lines : Submit(s)
  \/ ~mounted /\ line = <<>> /\ \E s \in Texts : Submit(s)

Spec == Init /\ [][Next]_vars

-----------------------------------------------------------------------------
(* Properties.                                                             *)

\* The node reached from d by walking the components one by one, with ".."
\* as the parent directory and the root as its own parent.
Walk(d, comps) ==
  FoldLeft(LAMBDA i, c :
             IF i = None \/ (i # Root /\ tree[i].kind = "file") THEN None
             ELSE CASE c = <<".">>      -> i
                    [] c = <<".", ".">> -> IF i = Root THEN Root ELSE tree[i].parent
                    [] OTHER            -> Find(tree, i, c),
           d, comps)

NodeAt(path) == IF path = <<>> THEN Root ELSE lookup(path)

\* resolve, normalize, lookup: a path that can be walked leads to the same
\* node when its dots are first removed textually.
LexicalIsPhysical ==
  phase = "run" /\ mounted =>
    \A s \in Paths :
      LET i == Walk(IF s # <<>> /\ s[1] = "/" THEN Root ELSE NodeAt(sh.cwd), Components(s))
      IN  i # None => NodeAt(Target(sh, s)) = i

\* cd: the current and the previous directory are directories, whatever list
\* of commands got there.
CwdIsDirectory == \A p \in {sh.cwd, sh.prev} : p = <<>> \/ IsDir(p)

QuoteAfter(s) == FoldLeft(NextQuote, "", s)

\* dispatch: `a; b' does and prints what a and then b would, entered as two
\* lines; so b's variables have the values that a gave them, and a value is
\* never cut into further commands.
ListIsSequence ==
  \A i \in DOMAIN line :
    line[i] = ";" /\ QuoteAfter(SubSeq(line, 1, i - 1)) = "" =>
      dispatch(sh, line) =
        dispatch(dispatch(sh, SubSeq(line, 1, i - 1)), SubSeq(line, i + 1, Len(line)))

\* split_commands and tokenize_quoted: a text in quotes is one command and one
\* token, whatever separators, blanks and other quotes it holds.
QuotingProtects ==
  \A q \in Quotes \ Range(line) :
    LET quoted == <<q>> \o line \o <<q>>
    IN  /\ split_commands(quoted) = <<quoted>>
        /\ tokenize_quoted(quoted) = NonEmpty(<<line>>)

\* The tokens that parse_args takes for options, and the `--' that ends them.
IsOption(ts, i) == ts[i][1] = "-" /\ Len(ts[i]) > 1 /\ \A j \in 1..i : ts[j] # <<"-", "-">>
FirstStop(ts) == SelectInSeq(ts, LAMBDA t : t = <<"-", "-">>)

\* parse_args: looking ahead for a value neither loses nor doubles anything:
\* every option letter, and every character of the other tokens, is found
\* exactly once among the flags, their values and the positional arguments.
\* And what follows `--' are the last positional arguments, in their order.
EveryArgumentOnce ==
  LET ts == tokenize_quoted(line)
      p == parse_args(line)
      stop == FirstStop(ts)
      Chars(i) == IF i = stop THEN <<>>
                  ELSE IF IsOption(ts, i) THEN Tail(ts[i]) ELSE tilde_expand(ts[i])
      given == FlattenSeq([i \in DOMAIN ts |-> Chars(i)])
      valued == [i \in DOMAIN p.flag_vals |-> <<p.flag_vals[i][1]>> \o p.flag_vals[i][2]]
      taken == p.flags \o FlattenSeq(valued) \o FlattenSeq(p.positional)
  IN  /\ ToBag(given) = ToBag(taken)
      /\ stop # 0 => IsSuffix([i \in 1..Len(ts) - stop |-> Chars(stop + i)], p.positional)

\* parse_args' comment: the value of an option is its own digits (`-n10') or,
\* after a lone flag, the next token if it is numeric (`-n 5'), and all other
\* tokens that are no options are positional.  The code asks neither that the
\* flag be alone in its token nor that all of the next one be digits.
IsDocumentedValue(ts, i) ==
  i > 1 /\ IsOption(ts, i - 1) /\ Len(ts[i - 1]) = 2 /\ IsNumber(ts[i])
PositionalAsDocumented ==
  LET ts == tokenize_quoted(line)
      pos == SelectSeq([i \in DOMAIN ts |-> i],
                       LAMBDA i : ~IsOption(ts, i) /\ ~IsDocumentedValue(ts, i) /\ i # FirstStop(ts))
  IN  parse_args(line).positional = [j \in DOMAIN pos |-> tilde_expand(ts[pos[j]])]

\* complete: what Tab offers after a command is there: every candidate leads
\* to a node, and to a directory just if it ends in "/"; and the completed
\* line goes on to each of the candidates.
CompletionResolves ==
  phase = "run" =>
    \A s \in Partials :
      LET c == Candidates(sh, s)
          stem == SubSeq(s, 1, Len(s) - c.len)
          full(i) == cmd_arg(stem \o c.cands[i])
      IN  \A i \in DOMAIN c.cands :
            /\ FirstBlank(s) # 0 /\ NameOf(s) # Help =>
                 /\ NodeAt(Target(sh, full(i)[1])) # None
                 /\ IsDir(Target(sh, full(i)[1])) = (Last(c.cands[i]) = "/")
            /\ IsPrefix(complete(sh, s), stem \o c.cands[i])

\* initrd/sys/help/tab: Tab completes the current token.  The code completes
\* the whole text after the command.
LastToken(s) == SubSeq(s, SelectLastInSeq(s, LAMBDA c : c = " ") + 1, Len(s))
TabCompletesToken ==
  phase = "run" =>
    \A s \in Partials :
      FirstBlank(s) # 0 /\ NameOf(s) # Help /\ Trim(s) # <<>> =>
        Candidates(sh, s) = complete_path(sh, LastToken(s))
=============================================================================
