-------------------------------- MODULE Text --------------------------------
(***************************************************************************)
(* Texts: sequences of characters, a character being a string of length    *)
(* one.  What the shell's modules take from Rust's str and char.           *)
(***************************************************************************)
EXTENDS Naturals, Sequences, SequencesExt

Quotes == {"'", "\""}
Digits == <<"0", "1", "2", "3", "4", "5", "6", "7", "8", "9">>
Letters == <<"A", "D", "E", "H", "L", "M", "O", "P", "S", "W", "X", "a", "b", "c", "d", "e",
             "f", "g", "h", "i", "l", "n", "o", "p", "r", "s", "t", "w", "x", "y", "z">>
Marks == Quotes \cup {" ", "\n", ";", "&", "$", "{", "}", "-", "/", "~", "=", "."}

IsDigit(c) == c \in Range(Digits)

\* is_ascii_alphanumeric or '_'
IsWord(c) == c \notin Marks

\* One letter stands for all that have two cases.
ToLower(s) == [i \in DOMAIN s |-> IF s[i] = "A" THEN "a" ELSE s[i]]

\* The order of strings, for the letters and digits that names consist of.
Code(c) == SelectInSeq(Digits \o Letters, LAMBDA d : d = c)
Before(s, t) ==
  \/ IsStrictPrefix(s, t)
  \/ \E i \in DOMAIN s \cap DOMAIN t :
       SubSeq(s, 1, i - 1) = SubSeq(t, 1, i - 1) /\ Code(s[i]) < Code(t[i])

\* str::split at a character; there is always at least one piece.
SplitAt(s, c) ==
  FoldLeft(LAMBDA ps, x : IF x = c THEN Append(ps, <<>>)
                          ELSE [ps EXCEPT ![Len(ps)] = Append(@, x)],
           << <<>> >>, s)

NonEmpty(ps) == SelectSeq(ps, LAMBDA p : p # <<>>)

\* str::trim for blanks
Trim(s) ==
  LET P == {i \in DOMAIN s : s[i] # " "}
  IN  IF P = {} THEN <<>> ELSE SubSeq(s, Min(P), Max(P))

\* str::lines: a final newline ends the last line.
LinesOf(s) ==
  LET ps == SplitAt(s, "\n") IN IF Last(ps) = <<>> THEN Front(ps) ELSE ps

\* str::contains
HasPart(s, p) == \E i \in 0..Len(s) : i + Len(p) <= Len(s) /\ SubSeq(s, i + 1, i + Len(p)) = p

\* join(" ")
JoinBlank(ps) ==
  FlattenSeq([i \in DOMAIN ps |-> IF i = 1 THEN ps[i] ELSE <<" ">> \o ps[i]])

\* parse::<usize>: the number, or none.
IsNumber(s) == s # <<>> /\ \A i \in DOMAIN s : IsDigit(s[i])
Number(s) == FoldLeft(LAMBDA n, c : 10 * n + SelectInSeq(Digits, LAMBDA d : d = c) - 1, 0, s)

\* A number as it is printed.
Decimal[n \in Nat] ==
  IF n < 10 THEN <<Digits[n + 1]>> ELSE Decimal[n \div 10] \o <<Digits[(n % 10) + 1]>>
=============================================================================
