-------------------------- MODULE ShellEditProofs ---------------------------
(***************************************************************************)
(* Proofs about ShellEdit for every line length, history length, alphabet  *)
(* and completion: the line and its cursor stay in bounds, the ring holds  *)
(* the last lines entered, browsing shows them and the live line comes     *)
(* back unchanged.                                                         *)
(***************************************************************************)
EXTENDS ShellEdit, Integers, WellFoundedInduction, TLAPS

-----------------------------------------------------------------------------
(* Numbers.                                                                *)

\* Every set of naturals that is not empty has a least element.
LEMMA LeastElement ==
  ASSUME NEW S \in SUBSET Nat, S # {}
  PROVE  \E m \in S : \A k \in S : m <= k
<1> DEFINE R == OpToRel(<, Nat)
<1>1. IsWellFoundedOn(R, Nat)
  BY NatLessThanWellFounded
<1>2. \A x, y \in Nat : y < x => <<y, x>> \in R
  BY DEF OpToRel
<1> HIDE DEF R
<1>3. PICK m \in S : \A y \in S : ~ (<<y, m>> \in R)
  BY <1>1, WFMin
<1>4. ASSUME NEW k \in S PROVE m <= k
  <2>1. m \in Nat /\ k \in Nat /\ ~ (k < m)
    BY <1>2, <1>3
  <2> QED BY <2>1
<1> QED BY <1>4

\* A bounded set of naturals that is not empty has a greatest element.
LEMMA GreatestElement ==
  ASSUME NEW b \in Nat, NEW S \in SUBSET (0..b), S # {}
  PROVE  \E m \in S : \A k \in S : k <= m
<1> DEFINE T == {b - k : k \in S}
<1>0. \A k \in S : b - k \in Nat
  OBVIOUS
<1>1. T \in SUBSET Nat /\ T # {}
  BY <1>0, Zenon
<1>2. PICK t \in T : \A u \in T : t <= u
  <2> HIDE DEF T
  <2> QED BY <1>1, LeastElement
<1>3. PICK m \in S : t = b - m
  BY <1>2
<1>4. ASSUME NEW k \in S PROVE k <= m
  <2>1. b - k \in T
    OBVIOUS
  <2>2. b - m <= b - k
    BY <1>2, <1>3, <2>1
  <2> QED BY <2>2
<1> QED BY <1>4

\* The smaller of two numbers.
LEMMA MinOfTwo ==
  ASSUME NEW a \in Int, NEW b \in Int
  PROVE  Min({a, b}) = IF a <= b THEN a ELSE b
<1> DEFINE m == IF a <= b THEN a ELSE b
<1>1. m \in {a, b} /\ \A y \in {a, b} : m <= y
  OBVIOUS
<1>2. \A x \in {a, b} : (\A y \in {a, b} : x <= y) => x = m
  OBVIOUS
<1> HIDE DEF m
<1>3. Min({a, b}) = m
  BY <1>1, <1>2 DEF Min
<1> QED BY <1>3 DEF m

\* Division with remainder.
LEMMA DivMod ==
  ASSUME NEW n \in Nat, NEW c \in Nat \ {0}
  PROVE  /\ n % c \in 0..c-1 /\ n \div c \in Nat
         /\ n = (c * (n \div c)) + (n % c)
OBVIOUS

\* The remainder is the only one in its range.
LEMMA ModUnique ==
  ASSUME NEW c \in Nat \ {0}, NEW q \in Nat, NEW r \in 0..c-1
  PROVE  ((c * q) + r) % c = r
OBVIOUS

\* Multiples of the divisor do not matter.
LEMMA ModShift ==
  ASSUME NEW c \in Nat \ {0}, NEW q \in Nat, NEW m \in Nat
  PROVE  ((c * q) + m) % c = m % c
<1> DEFINE p == m \div c
           r == m % c
<1>1. p \in Nat /\ r \in 0..c-1 /\ m = (c * p) + r
  BY DivMod
<1> HIDE DEF p, r
<1>2. (c * q) + m = (c * (q + p)) + r /\ q + p \in Nat
  BY <1>1
<1>3. ((c * (q + p)) + r) % c = r
  BY <1>1, <1>2, ModUnique
<1> QED BY <1>2, <1>3 DEF r

\* A remainder may be taken early.
LEMMA ModPlus ==
  ASSUME NEW c \in Nat \ {0}, NEW n \in Nat, NEW j \in Nat
  PROVE  ((n % c) + j) % c = (n + j) % c
<1> DEFINE p == n \div c
           r == n % c
<1>1. p \in Nat /\ r \in 0..c-1 /\ n = (c * p) + r
  BY DivMod
<1> HIDE DEF p, r
<1>2. n + j = (c * p) + (r + j) /\ r + j \in Nat
  BY <1>1
<1>3. ((c * p) + (r + j)) % c = (r + j) % c
  BY <1>1, <1>2, ModShift
<1> QED BY <1>2, <1>3 DEF r

\* Two numbers less than the divisor apart have different remainders.
LEMMA ModDistinct ==
  ASSUME NEW c \in Nat \ {0}, NEW n \in Nat, NEW i \in Nat, i < n, n - i < c
  PROVE  i % c # n % c
<1> SUFFICES ASSUME i % c = n % c PROVE FALSE
  OBVIOUS
<1> DEFINE p == n \div c
           q == i \div c
           r == n % c
<1>1. p \in Nat /\ q \in Nat /\ r \in 0..c-1 /\ n = (c * p) + r /\ i = (c * q) + r
  BY DivMod
<1> HIDE DEF p, q, r
<1>2. c * (p - q) = n - i /\ p - q \in Int
  BY <1>1
<1>3. CASE p - q >= 1
  BY <1>1, <1>2, <1>3
<1>4. CASE p - q <= 0
  BY <1>1, <1>2, <1>4
<1> QED BY <1>2, <1>3, <1>4

-----------------------------------------------------------------------------

\* A line that fits the arrays.
Line == {s \in Seq(Char) : Len(s) <= BUF_CAP}

EditTypeOK ==
  /\ buf \in Line /\ live \in Line /\ draft \in Line
  /\ cursor_pos \in 0..Len(buf)
  /\ history \in [0..HIST_CAP-1 -> Line]
  /\ hist_count \in Nat /\ log \in Seq(Line)
  /\ hist_cursor \in 0..Available
  /\ touched \in BOOLEAN

\* The ring by absolute position: line i of the log is in slot
\* (i - 1) % HIST_CAP until HIST_CAP newer ones were entered.
RingHoldsLog ==
  /\ Len(log) = hist_count
  /\ \A i \in 1..hist_count :
       hist_count - HIST_CAP < i => history[(i - 1) % HIST_CAP] = log[i]
  /\ \A i \in 1..hist_count : log[i] # <<>> /\ (i > 1 => log[i] # log[i - 1])

\* The line of the moment, as hist_cursor tells which one it is.
LineOfCursor ==
  /\ hist_cursor = 0 => draft = buf
  /\ hist_cursor > 0 => live = draft
  /\ hist_cursor > 0 /\ ~touched => buf = log[hist_count - hist_cursor + 1]

\* The inductive invariant.
EditInv == EditTypeOK /\ RingHoldsLog /\ LineOfCursor

-----------------------------------------------------------------------------
(* What the editing operators return.                                      *)

\* The capacities are positive and completions are text.
LEMMA Caps ==
  /\ BUF_CAP \in Nat /\ BUF_CAP # 0 /\ HIST_CAP \in Nat /\ HIST_CAP # 0
  /\ \A ext \in Completions : ext \in Seq(Char)
BY CapsAssumption, Zenon

\* A line is a sequence no longer than the array.
LEMMA LineFits ==
  ASSUME NEW s \in Line
  PROVE  s \in Seq(Char) /\ Len(s) \in Nat /\ Len(s) <= BUF_CAP /\ BUF_CAP \in Nat
<1>1. s \in Seq(Char) /\ Len(s) <= BUF_CAP
  BY Zenon DEF Line
<1>2. Len(s) \in Nat
  BY <1>1
<1> QED BY <1>1, <1>2, Caps

\* A character goes in at the cursor: the line is one longer.
LEMMA InsertedLine ==
  ASSUME NEW s \in Line, NEW p \in 0..Len(s), NEW ch \in Char, Len(s) < BUF_CAP
  PROVE  InsertAt(s, p + 1, ch) \in Line /\ Len(InsertAt(s, p + 1, ch)) = Len(s) + 1
<1> DEFINE a == SubSeq(s, 1, (p + 1) - 1)
           b == SubSeq(s, p + 1, Len(s))
<1>0. s \in Seq(Char) /\ Len(s) \in Nat /\ Len(s) <= BUF_CAP /\ BUF_CAP \in Nat
  BY LineFits
<1>1. a \in Seq(Char) /\ Len(a) = p
  BY <1>0
<1>2. b \in Seq(Char) /\ Len(b) = Len(s) - p
  BY <1>0
<1>3. InsertAt(s, p + 1, ch) = a \o <<ch>> \o b
  BY Zenon DEF InsertAt
<1> HIDE DEF a, b
<1>4. a \o <<ch>> \o b \in Seq(Char) /\ Len(a \o <<ch>> \o b) = Len(s) + 1
  BY <1>0, <1>1, <1>2
<1>5. Len(s) + 1 <= BUF_CAP
  BY <1>0
<1> QED BY <1>3, <1>4, <1>5, Zenon DEF Line

\* The character before the cursor goes: the line is one shorter.
LEMMA RemovedLine ==
  ASSUME NEW s \in Line, NEW p \in 1..Len(s)
  PROVE  RemoveAt(s, p) \in Line /\ Len(RemoveAt(s, p)) = Len(s) - 1
<1> DEFINE a == SubSeq(s, 1, p - 1)
           b == SubSeq(s, p + 1, Len(s))
<1>0. s \in Seq(Char) /\ Len(s) \in Nat /\ Len(s) <= BUF_CAP /\ BUF_CAP \in Nat
  BY LineFits
<1>1. a \in Seq(Char) /\ Len(a) = p - 1
  BY <1>0
<1>2. b \in Seq(Char) /\ Len(b) = Len(s) - p
  BY <1>0
<1>3. RemoveAt(s, p) = a \o b
  BY DEF RemoveAt
<1> HIDE DEF a, b
<1>4. a \o b \in Seq(Char) /\ Len(a \o b) = Len(s) - 1
  BY <1>0, <1>1, <1>2
<1>5. Len(s) - 1 <= BUF_CAP
  BY <1>0
<1> QED BY <1>3, <1>4, <1>5, Zenon DEF Line

\* A prefix of a line is a line.
LEMMA PrefixLine ==
  ASSUME NEW s \in Line, NEW n \in 0..Len(s)
  PROVE  SubSeq(s, 1, n) \in Line /\ Len(SubSeq(s, 1, n)) = n
<1>1. s \in Seq(Char) /\ Len(s) \in Nat /\ Len(s) <= BUF_CAP /\ BUF_CAP \in Nat
  BY LineFits
<1>2. SubSeq(s, 1, n) \in Seq(Char) /\ Len(SubSeq(s, 1, n)) = n /\ n <= BUF_CAP
  BY <1>1
<1> QED BY <1>2, Zenon DEF Line

\* Both scans of ctrl_w stop at a position of the line: the last position
\* of a set that holds 0.
LEMMA ScanStops ==
  ASSUME NEW b \in Nat, NEW P \in SUBSET (1..b)
  PROVE  \E n \in 0..b : (\A i \in n+1..b : i \notin P) /\ (n = 0 \/ n \in P)
<1>1. P \cup {0} \in SUBSET (0..b) /\ P \cup {0} # {}
  OBVIOUS
<1>2. PICK m \in P \cup {0} : \A k \in P \cup {0} : k <= m
  BY <1>1, GreatestElement
<1>3. m \in 0..b /\ (m = 0 \/ m \in P)
  BY <1>1, <1>2
<1>4. \A i \in m+1..b : i \notin P
  BY <1>2, <1>3
<1> QED BY <1>3, <1>4

\* ctrl_w leaves a prefix of the line.
LEMMA WordErasedLine ==
  ASSUME NEW s \in Line
  PROVE  WithoutLastWord(s) \in Line /\ Len(WithoutLastWord(s)) \in 0..Len(s)
<1> DEFINE W(n) == /\ \A i \in n+1..Len(s) : s[i] = " "
                   /\ n = 0 \/ s[n] # " "
           w == CHOOSE n \in 0..Len(s) : W(n)
           C(n) == /\ \A i \in n+1..w : s[i] # " "
                   /\ n = 0 \/ s[n] = " "
           cut == CHOOSE n \in 0..w : C(n)
<1>0. Len(s) \in Nat
  BY DEF Line
<1>1. \E n \in 0..Len(s) : W(n)
  <2> DEFINE P == {i \in 1..Len(s) : s[i] # " "}
  <2>1. PICK n \in 0..Len(s) : (\A i \in n+1..Len(s) : i \notin P) /\ (n = 0 \/ n \in P)
    <3>1. P \in SUBSET (1..Len(s))
      OBVIOUS
    <3> HIDE DEF P
    <3> QED BY <1>0, <3>1, ScanStops
  <2>2. \A i \in n+1..Len(s) : i \in 1..Len(s)
    BY <1>0
  <2>3. W(n)
    BY <2>1, <2>2
  <2> QED BY <2>3
<1>2. w \in 0..Len(s)
  <2> HIDE DEF W
  <2> QED BY <1>1
<1> HIDE DEF w
<1>3. \E n \in 0..w : C(n)
  <2> DEFINE P == {i \in 1..w : s[i] = " "}
  <2>0. w \in Nat
    BY <1>0, <1>2
  <2>1. PICK n \in 0..w : (\A i \in n+1..w : i \notin P) /\ (n = 0 \/ n \in P)
    <3>1. P \in SUBSET (1..w)
      OBVIOUS
    <3> HIDE DEF P
    <3> QED BY <2>0, <3>1, ScanStops
  <2>2. \A i \in n+1..w : i \in 1..w
    BY <2>0
  <2>3. C(n)
    BY <2>1, <2>2
  <2> QED BY <2>3
<1>4. cut \in 0..w
  <2> HIDE DEF C
  <2> QED BY <1>3
<1>5. WithoutLastWord(s) = SubSeq(s, 1, cut)
  BY DEF WithoutLastWord, w
<1> HIDE DEF cut
<1>6. cut \in 0..Len(s)
  BY <1>0, <1>2, <1>4
<1> QED BY <1>5, <1>6, PrefixLine

\* Completion appends only while there is room.
LEMMA ExtendedLine ==
  ASSUME NEW s \in Line, NEW ext \in Completions
  PROVE  Extend(s, ext) \in Line
<1> DEFINE n == Min({Len(s) + Len(ext), BUF_CAP})
<1>1. s \in Seq(Char) /\ ext \in Seq(Char) /\ BUF_CAP \in Nat
  BY LineFits, Caps
<1>2. s \o ext \in Seq(Char) /\ Len(s \o ext) = Len(s) + Len(ext)
  BY <1>1
<1>3. Len(s) \in Nat /\ Len(ext) \in Nat
  BY <1>1
<1>4. n = IF Len(s) + Len(ext) <= BUF_CAP THEN Len(s) + Len(ext) ELSE BUF_CAP
  BY <1>1, <1>3, MinOfTwo
<1>5. n \in 0..Len(s \o ext) /\ n <= BUF_CAP
  BY <1>1, <1>2, <1>3, <1>4
<1>6. Extend(s, ext) = SubSeq(s \o ext, 1, n)
  BY DEF Extend
<1> HIDE DEF n
<1> QED BY <1>1, <1>2, <1>5, <1>6 DEF Line

\* As many entries can be reached as were entered, up to the ring's size.
LEMMA Reachable ==
  ASSUME NEW n \in Nat
  PROVE  /\ Min({n, HIST_CAP}) = IF n <= HIST_CAP THEN n ELSE HIST_CAP
         /\ Min({n, HIST_CAP}) \in Nat
<1>1. HIST_CAP \in Nat
  BY Caps
<1>2. Min({n, HIST_CAP}) = IF n <= HIST_CAP THEN n ELSE HIST_CAP
  BY <1>1, MinOfTwo
<1> QED BY <1>1, <1>2

-----------------------------------------------------------------------------
(* The invariant.                                                          *)

\* A step that changes only the line keeps the ring and the saved line.
LEMMA EditPreserves ==
  ASSUME EditInv, NEW s \in Line, NEW p \in 0..Len(s), EditTo(s, p)
  PROVE  EditInv'
<1>1. /\ buf' = s /\ cursor_pos' = p /\ touched' = TRUE
      /\ UNCHANGED <<history, hist_count, log, hist_cursor, live>>
      /\ draft' = IF hist_cursor' = 0 THEN buf' ELSE draft
  BY DEF EditTo, Note, hist
<1>2. EditTypeOK'
  BY <1>1 DEF EditInv, EditTypeOK, Available
<1>3. RingHoldsLog'
  BY <1>1 DEF EditInv, RingHoldsLog
<1>4. LineOfCursor'
  BY <1>1 DEF EditInv, LineOfCursor
<1> QED BY <1>2, <1>3, <1>4 DEF EditInv

\* A step that moves only the cursor keeps everything else.
LEMMA MovePreserves ==
  ASSUME EditInv, NEW p \in 0..Len(buf), CursorTo(p)
  PROVE  EditInv'
<1>1. /\ cursor_pos' = p /\ touched' = touched
      /\ UNCHANGED <<buf, history, hist_count, log, hist_cursor, live>>
      /\ draft' = IF hist_cursor' = 0 THEN buf' ELSE draft
  BY DEF CursorTo, Note, hist
<1>2. EditTypeOK'
  BY <1>1 DEF EditInv, EditTypeOK, Available
<1>3. RingHoldsLog'
  BY <1>1 DEF EditInv, RingHoldsLog
<1>4. LineOfCursor'
  BY <1>1 DEF EditInv, LineOfCursor
<1> QED BY <1>2, <1>3, <1>4 DEF EditInv

\* Loading the k-th last entry shows line hist_count - k + 1 of the log.
LEMMA EntryIsLogLine ==
  ASSUME EditInv, NEW k \in 1..Available
  PROVE  /\ hist_count - k + 1 \in 1..hist_count
         /\ (hist_count - k) % HIST_CAP \in 0..HIST_CAP-1
         /\ history[(hist_count - k) % HIST_CAP] \in Line
         /\ history[(hist_count - k) % HIST_CAP] = log[hist_count - k + 1]
<1>0. hist_count \in Nat /\ HIST_CAP \in Nat \ {0}
  BY Caps DEF EditInv, EditTypeOK
<1>1. Available = IF hist_count <= HIST_CAP THEN hist_count ELSE HIST_CAP
  BY <1>0, Reachable DEF Available
<1>2. k \in Nat /\ k >= 1 /\ k <= hist_count /\ k <= HIST_CAP
  BY <1>0, <1>1
<1> DEFINE i == hist_count - k + 1
<1>3. i \in 1..hist_count /\ hist_count - HIST_CAP < i /\ i - 1 = hist_count - k
  BY <1>0, <1>2
<1>4. hist_count - k \in Nat
  BY <1>0, <1>2
<1>5. (hist_count - k) % HIST_CAP \in 0..HIST_CAP-1
  BY <1>0, <1>4, DivMod
<1>6. history[(i - 1) % HIST_CAP] = log[i]
  <2> HIDE DEF i
  <2> QED BY <1>3 DEF EditInv, RingHoldsLog
<1>7. history[(hist_count - k) % HIST_CAP] = log[hist_count - k + 1]
  BY <1>3, <1>6
<1> QED BY <1>3, <1>5, <1>7 DEF EditInv, EditTypeOK

\* Entering a line: it goes to the slot of its position, which only an
\* entry HIST_CAP lines older can have held.
LEMMA RecordPreserves ==
  ASSUME EditInv, buf # <<>>, ~IsDup(buf),
         history' = [history EXCEPT ![hist_count % HIST_CAP] = buf],
         hist_count' = hist_count + 1, log' = Append(log, buf)
  PROVE  /\ RingHoldsLog' /\ log' \in Seq(Line)
         /\ history' \in [0..HIST_CAP-1 -> Line]
<1>0. /\ hist_count \in Nat /\ HIST_CAP \in Nat \ {0} /\ Len(log) = hist_count
      /\ log \in Seq(Line) /\ buf \in Line /\ history \in [0..HIST_CAP-1 -> Line]
  BY Caps DEF EditInv, EditTypeOK, RingHoldsLog
<1>1. hist_count % HIST_CAP \in 0..HIST_CAP-1
  BY <1>0, DivMod
<1>2. history' \in [0..HIST_CAP-1 -> Line]
  BY <1>0, <1>1
<1>3. /\ log' \in Seq(Line) /\ Len(log') = hist_count'
      /\ log'[hist_count + 1] = buf
      /\ \A i \in 1..hist_count : log'[i] = log[i]
  BY <1>0
<1>4. ASSUME NEW i \in 1..hist_count', hist_count' - HIST_CAP < i
      PROVE  history'[(i - 1) % HIST_CAP] = log'[i]
  <2>1. CASE i = hist_count + 1
    <3>1. i - 1 = hist_count
      BY <1>0, <2>1
    <3>2. history'[hist_count % HIST_CAP] = buf
      BY <1>0, <1>1
    <3> QED BY <1>3, <2>1, <3>1, <3>2
  <2>2. CASE i # hist_count + 1
    <3>1. i \in 1..hist_count /\ i - 1 \in Nat /\ i - 1 < hist_count
           /\ hist_count - (i - 1) < HIST_CAP /\ hist_count - HIST_CAP < i
      BY <1>0, <2>2, <1>4
    <3>2. (i - 1) % HIST_CAP # hist_count % HIST_CAP
      BY <1>0, <3>1, ModDistinct
    <3>3. (i - 1) % HIST_CAP \in 0..HIST_CAP-1
      BY <1>0, <3>1, DivMod
    <3>4. history'[(i - 1) % HIST_CAP] = history[(i - 1) % HIST_CAP]
      BY <1>0, <3>2, <3>3
    <3>5. history[(i - 1) % HIST_CAP] = log[i]
      BY <3>1 DEF EditInv, RingHoldsLog
    <3> QED BY <1>3, <3>1, <3>4, <3>5
  <2> QED BY <2>1, <2>2
<1>5. ASSUME NEW i \in 1..hist_count'
      PROVE  log'[i] # <<>> /\ (i > 1 => log'[i] # log'[i - 1])
  <2>1. CASE i = hist_count + 1
    <3>1. log'[i] = buf
      BY <1>3, <2>1
    <3>2. ASSUME i > 1 PROVE log'[i] # log'[i - 1]
      <4>1. hist_count \in 1..hist_count /\ hist_count - HIST_CAP < hist_count
            /\ i - 1 = hist_count /\ hist_count > 0
        BY <1>0, <2>1, <3>2
      <4>2. history[(hist_count - 1) % HIST_CAP] = log[hist_count]
        BY <4>1 DEF EditInv, RingHoldsLog
      <4>3. log[hist_count] # buf
        BY <4>1, <4>2 DEF IsDup
      <4> QED BY <1>3, <3>1, <4>1, <4>3
    <3> QED BY <3>1, <3>2
  <2>2. CASE i # hist_count + 1
    <3>1. i \in 1..hist_count /\ (i > 1 => i - 1 \in 1..hist_count)
      BY <1>0, <2>2
    <3>2. log[i] # <<>> /\ (i > 1 => log[i] # log[i - 1])
      BY <3>1 DEF EditInv, RingHoldsLog
    <3> QED BY <1>3, <3>1, <3>2
  <2> QED BY <2>1, <2>2
<1>6. RingHoldsLog'
  BY <1>3, <1>4, <1>5 DEF RingHoldsLog
<1> QED BY <1>2, <1>3, <1>6

\* Every key keeps the line and its cursor in bounds, the ring in step with
\* the log, and the shown line the one that hist_cursor names.
THEOREM EditInvariant == Spec => []EditInv
<1>1. Init => EditInv
  <2> SUFFICES ASSUME Init PROVE EditInv
    OBVIOUS
  <2>1. <<>> \in Line /\ HIST_CAP \in Nat
    BY Caps DEF Line
  <2>2. Available \in Nat
    <3>1. hist_count \in Nat
      BY DEF Init
    <3> QED BY <3>1, Reachable DEF Available
  <2>3. /\ buf = <<>> /\ live = <<>> /\ draft = <<>> /\ log = <<>>
        /\ cursor_pos = 0 /\ hist_count = 0 /\ hist_cursor = 0 /\ touched = FALSE
        /\ history \in [0..HIST_CAP-1 -> Line]
    BY <2>1 DEF Init
  <2>4. EditTypeOK
    <3>1. cursor_pos \in 0..Len(buf) /\ log \in Seq(Line)
      BY <2>3
    <3>2. hist_cursor \in 0..Available /\ hist_count \in Nat
      BY <2>2, <2>3
    <3> QED BY <2>1, <2>3, <3>1, <3>2 DEF EditTypeOK
  <2>5. RingHoldsLog /\ LineOfCursor
    BY <2>3 DEF RingHoldsLog, LineOfCursor
  <2> QED BY <2>4, <2>5 DEF EditInv
<1>2. EditInv /\ [Next]_vars => EditInv'
  <2> SUFFICES ASSUME EditInv, [Next]_vars PROVE EditInv'
    OBVIOUS
  <2>0. /\ buf \in Line /\ Len(buf) \in Nat /\ cursor_pos \in 0..Len(buf)
        /\ hist_count \in Nat /\ Available \in Nat /\ hist_cursor \in 0..Available
        /\ live \in Line /\ Len(live) \in Nat /\ draft \in Line /\ <<>> \in Line
        /\ Len(<<>>) = 0
    <3>1. hist_count \in Nat /\ buf \in Line /\ live \in Line
      BY DEF EditInv, EditTypeOK
    <3>2. Available \in Nat
      BY <3>1, Reachable DEF Available
    <3>3. Len(buf) \in Nat /\ Len(live) \in Nat
      BY <3>1, LineFits
    <3>4. <<>> \in Line /\ Len(<<>>) = 0
      BY Caps DEF Line
    <3> QED BY <3>1, <3>2, <3>3, <3>4 DEF EditInv, EditTypeOK
  <2>1. ASSUME NEW ch \in Char, Insert(ch) PROVE EditInv'
    <3>1. Len(buf) < BUF_CAP /\ EditTo(InsertAt(buf, cursor_pos + 1, ch), cursor_pos + 1)
      BY <2>1 DEF Insert
    <3>2. /\ InsertAt(buf, cursor_pos + 1, ch) \in Line
          /\ cursor_pos + 1 \in 0..Len(InsertAt(buf, cursor_pos + 1, ch))
      BY <2>0, <3>1, InsertedLine
    <3> QED BY <3>1, <3>2, EditPreserves
  <2>2. CASE Backspace
    <3>1. cursor_pos > 0 /\ EditTo(RemoveAt(buf, cursor_pos), cursor_pos - 1)
      BY <2>2 DEF Backspace
    <3>2. cursor_pos \in 1..Len(buf)
      BY <2>0, <3>1
    <3>3. /\ RemoveAt(buf, cursor_pos) \in Line
          /\ cursor_pos - 1 \in 0..Len(RemoveAt(buf, cursor_pos))
      BY <2>0, <3>2, RemovedLine
    <3> QED BY <3>1, <3>3, EditPreserves
  <2>3. CASE CursorLeft \/ CursorRight \/ CursorStart \/ CursorEnd \/ CtrlL
    <3>1. PICK p \in 0..Len(buf) : CursorTo(p)
      BY <2>0, <2>3 DEF CursorLeft, CursorRight, CursorStart, CursorEnd, CtrlL
    <3> QED BY <3>1, MovePreserves
  <2>4. CASE CtrlU
    <3>1. <<>> \in Line /\ 0 \in 0..Len(<<>>) /\ EditTo(<<>>, 0)
      BY <2>0, <2>4 DEF CtrlU
    <3> QED BY <3>1, EditPreserves
  <2>5. CASE CtrlW
    <3>1. WithoutLastWord(buf) \in Line /\ Len(WithoutLastWord(buf)) \in Nat
      BY <2>0, WordErasedLine
    <3>2. Len(WithoutLastWord(buf)) \in 0..Len(WithoutLastWord(buf))
      BY <3>1
    <3> QED BY <2>5, <3>1, <3>2, EditPreserves DEF CtrlW
  <2>6. CASE CtrlC
    <3>1. /\ buf' = <<>> /\ draft' = <<>> /\ cursor_pos' = 0 /\ hist_cursor' = 0
          /\ touched' = FALSE /\ UNCHANGED <<history, hist_count, log, live>>
      BY <2>6 DEF CtrlC, Note, hist
    <3>2. EditTypeOK'
      <4>1. cursor_pos' \in 0..Len(buf') /\ hist_cursor' \in 0..Available
        BY <2>0, <3>1
      <4> QED BY <2>0, <3>1, <4>1 DEF EditInv, EditTypeOK, Available
    <3>3. RingHoldsLog'
      BY <3>1 DEF EditInv, RingHoldsLog
    <3>4. LineOfCursor'
      BY <3>1 DEF LineOfCursor
    <3> QED BY <3>2, <3>3, <3>4 DEF EditInv
  <2>7. ASSUME NEW ext \in Completions, Complete(ext) PROVE EditInv'
    <3>1. /\ buf' = Extend(buf, ext) /\ cursor_pos' = Len(buf')
          /\ UNCHANGED <<history, hist_count, log, hist_cursor, live>>
          /\ draft' = IF hist_cursor' = 0 THEN buf' ELSE draft
          /\ touched' = (touched \/ buf' # buf)
      BY <2>7 DEF Complete, Note, hist
    <3>2. buf' \in Line /\ Len(buf') \in Nat
      BY <2>0, <3>1, ExtendedLine, LineFits
    <3>3. touched' \in BOOLEAN /\ (~touched' => ~touched /\ buf' = buf)
      BY <3>1
    <3>4. cursor_pos' \in 0..Len(buf') /\ draft' \in Line
      BY <2>0, <3>1, <3>2
    <3>5. EditTypeOK'
      BY <2>0, <3>1, <3>2, <3>3, <3>4 DEF EditInv, EditTypeOK, Available
    <3>6. RingHoldsLog'
      BY <3>1 DEF EditInv, RingHoldsLog
    <3>7. LineOfCursor'
      BY <3>1, <3>3 DEF EditInv, LineOfCursor
    <3> QED BY <3>5, <3>6, <3>7 DEF EditInv
  <2>8. CASE Submit
    <3>1. /\ hist_cursor' = 0 /\ buf' = <<>> /\ cursor_pos' = 0 /\ live' = live
          /\ draft' = <<>> /\ touched' = FALSE
      BY <2>8 DEF Submit, Note
    <3>2. /\ RingHoldsLog' /\ log' \in Seq(Line) /\ hist_count' \in Nat
          /\ history' \in [0..HIST_CAP-1 -> Line]
      <4>1. CASE buf # <<>> /\ ~IsDup(buf)
        <5>1. /\ history' = [history EXCEPT ![hist_count % HIST_CAP] = buf]
              /\ hist_count' = hist_count + 1 /\ log' = Append(log, buf)
          BY <2>8, <4>1 DEF Submit
        <5> QED BY <2>0, <4>1, <5>1, RecordPreserves
      <4>2. CASE ~ (buf # <<>> /\ ~IsDup(buf))
        <5>1. UNCHANGED <<history, hist_count, log>>
          BY <2>8, <4>2 DEF Submit, hist
        <5> QED BY <5>1 DEF EditInv, EditTypeOK, RingHoldsLog
      <4> QED BY <4>1, <4>2
    <3>3. Available' \in Nat
      BY <3>2, Reachable DEF Available
    <3>4. EditTypeOK'
      <4>1. cursor_pos' \in 0..Len(buf') /\ hist_cursor' \in 0..Available'
        BY <2>0, <3>1, <3>3
      <4> QED BY <2>0, <3>1, <3>2, <4>1 DEF EditTypeOK
    <3>5. LineOfCursor'
      BY <3>1 DEF LineOfCursor
    <3> QED BY <3>2, <3>4, <3>5 DEF EditInv
  <2>9. CASE HistoryUp
    <3>1. /\ hist_cursor < Available /\ hist_cursor' = hist_cursor + 1
          /\ live' = (IF hist_cursor = 0 THEN buf ELSE live)
          /\ buf' = history[(hist_count - hist_cursor') % HIST_CAP]
          /\ cursor_pos' = Len(buf')
          /\ UNCHANGED <<history, hist_count, log>>
          /\ draft' = (IF hist_cursor' = 0 THEN buf' ELSE draft) /\ touched' = FALSE
      BY <2>9 DEF HistoryUp, SaveLive, LoadEntry, Note, hist
    <3>2. hist_cursor' \in 1..Available
      BY <2>0, <3>1
    <3>3. buf' \in Line /\ buf' = log[hist_count - hist_cursor' + 1]
      BY <3>1, <3>2, EntryIsLogLine
    <3>4. Len(buf') \in Nat /\ cursor_pos' \in 0..Len(buf')
      BY <3>1, <3>3, LineFits
    <3>5. live' \in Line /\ draft' = draft /\ live' = draft /\ hist_cursor' > 0
      BY <2>0, <3>1, <3>2 DEF EditInv, LineOfCursor
    <3>6. hist_cursor' \in 0..Available
      BY <2>0, <3>2
    <3>7. EditTypeOK'
      BY <2>0, <3>1, <3>3, <3>4, <3>5, <3>6 DEF EditInv, EditTypeOK, Available
    <3>8. RingHoldsLog'
      BY <3>1 DEF EditInv, RingHoldsLog
    <3>9. LineOfCursor'
      BY <3>1, <3>3, <3>5 DEF LineOfCursor
    <3> QED BY <3>7, <3>8, <3>9 DEF EditInv
  <2>10. CASE HistoryDown
    <3>1. /\ hist_cursor > 0 /\ hist_cursor' = hist_cursor - 1
          /\ UNCHANGED <<history, hist_count, log, live>>
          /\ draft' = (IF hist_cursor' = 0 THEN buf' ELSE draft) /\ touched' = FALSE
          /\ cursor_pos' = Len(buf')
      BY <2>10 DEF HistoryDown, LoadEntry, Note, hist
    <3>2. live = draft /\ hist_cursor' \in 0..Available
      BY <2>0, <3>1 DEF EditInv, LineOfCursor
    <3>3. buf' \in Line /\ (hist_cursor' > 0 => buf' = log[hist_count - hist_cursor' + 1])
      <4>1. CASE hist_cursor' = 0
        BY <2>0, <2>10, <4>1 DEF HistoryDown
      <4>2. CASE hist_cursor' # 0
        <5>1. hist_cursor' \in 1..Available
          BY <2>0, <3>2, <4>2
        <5>2. buf' = history[(hist_count - hist_cursor') % HIST_CAP]
          BY <2>10, <4>2 DEF HistoryDown, LoadEntry
        <5> QED BY <5>1, <5>2, EntryIsLogLine
      <4> QED BY <4>1, <4>2
    <3>4. Len(buf') \in Nat /\ cursor_pos' \in 0..Len(buf')
      BY <3>1, <3>3, LineFits
    <3>5. draft' \in Line /\ (hist_cursor' > 0 => live' = draft')
      BY <2>0, <3>1, <3>2, <3>3
    <3>6. EditTypeOK'
      BY <2>0, <3>1, <3>2, <3>3, <3>4, <3>5 DEF EditInv, EditTypeOK, Available
    <3>7. RingHoldsLog'
      BY <3>1 DEF EditInv, RingHoldsLog
    <3>8. LineOfCursor'
      BY <3>1, <3>3, <3>5 DEF LineOfCursor
    <3> QED BY <3>6, <3>7, <3>8 DEF EditInv
  <2>11. CASE UNCHANGED vars
    BY <2>11 DEF vars, EditInv, EditTypeOK, RingHoldsLog, LineOfCursor, Available
  <2> QED BY <2>1, <2>2, <2>3, <2>4, <2>5, <2>6, <2>7, <2>8, <2>9, <2>10, <2>11
             DEF Next
<1> QED BY <1>1, <1>2, PTL DEF Spec

-----------------------------------------------------------------------------
(* The properties.                                                         *)

\* `history n' prints the last n lines: slot start + i of the ring is the
\* slot of line hist_count - m + i, also where the ring has wrapped.
LEMMA ListingIsLogTail ==
  ASSUME EditInv, NEW n \in Nat
  PROVE  LET m == Min({n, Available})
         IN  HistoryListing(n) = SubSeq(log, Len(log) - m + 1, Len(log))
<1> DEFINE m == Min({n, Available})
           start == (hist_count - Available + (Available - m)) % HIST_CAP
<1>0. /\ hist_count \in Nat /\ HIST_CAP \in Nat \ {0} /\ Len(log) = hist_count
      /\ log \in Seq(Line) /\ Available \in Nat
  <2>1. hist_count \in Nat
    BY DEF EditInv, EditTypeOK
  <2> QED BY <2>1, Caps, Reachable DEF EditInv, EditTypeOK, RingHoldsLog, Available
<1>1. m \in 0..Available /\ Available <= hist_count
  <2>1. m = IF n <= Available THEN n ELSE Available
    BY <1>0, MinOfTwo
  <2>2. Available <= hist_count
    BY <1>0, Reachable DEF Available
  <2> HIDE DEF m
  <2> QED BY <1>0, <2>1, <2>2
<1>2. HistoryListing(n) = [i \in 1..m |-> history[(start + i - 1) % HIST_CAP]]
  BY DEF HistoryListing
<1> HIDE DEF m
<1>3. /\ hist_count - m \in Nat
      /\ hist_count - Available + (Available - m) = hist_count - m
  BY <1>0, <1>1
<1>4. start = (hist_count - m) % HIST_CAP
  BY <1>3
<1> HIDE DEF start
<1>5. ASSUME NEW i \in 1..m
      PROVE  history[(start + i - 1) % HIST_CAP] = log[hist_count - m + i]
  <2>1. i - 1 \in Nat /\ m - i + 1 \in 1..Available /\ m \in Nat
    BY <1>0, <1>1
  <2>2. start \in Nat
    <3>1. (hist_count - m) % HIST_CAP \in 0..HIST_CAP-1
      BY <1>0, <1>3, DivMod
    <3> QED BY <1>0, <1>4, <3>1
  <2>3. start + i - 1 = start + (i - 1)
    BY <2>1, <2>2
  <2>4. (start + (i - 1)) % HIST_CAP = (hist_count - m + (i - 1)) % HIST_CAP
    BY <1>0, <1>3, <1>4, <2>1, ModPlus
  <2>5. /\ hist_count - m + (i - 1) = hist_count - (m - i + 1)
        /\ hist_count - m + i = hist_count - (m - i + 1) + 1
    BY <1>0, <2>1
  <2> DEFINE k == m - i + 1
  <2>6. history[(hist_count - k) % HIST_CAP] = log[hist_count - k + 1]
    <3>1. k \in 1..Available
      BY <2>1
    <3> HIDE DEF k
    <3> QED BY <3>1, EntryIsLogLine
  <2> QED BY <2>3, <2>4, <2>5, <2>6
<1>6. SubSeq(log, Len(log) - m + 1, Len(log)) = [i \in 1..m |-> log[hist_count - m + i]]
  <2>1. m \in Nat /\ m <= hist_count
    BY <1>0, <1>1
  <2> QED BY <1>0, <2>1
<1>7. HistoryListing(n) = SubSeq(log, Len(log) - m + 1, Len(log))
  BY <1>2, <1>5, <1>6
<1> QED BY <1>7 DEF m

\* submit and the ring: whatever the capacities and however often the ring
\* has wrapped, the entries that can be reached are the last lines entered,
\* and `history n' prints them in order.
THEOREM RingHoldsRecentLines == Spec => []RingIsRecentLog
<1>1. EditInv => RingIsRecentLog
  <2> SUFFICES ASSUME EditInv PROVE RingIsRecentLog
    OBVIOUS
  <2>1. Len(log) = hist_count
    BY DEF EditInv, RingHoldsLog
  <2>2. \A k \in 1..Available :
          history[(hist_count - k) % HIST_CAP] = log[hist_count - k + 1]
    BY EntryIsLogLine
  <2>3. \A i \in 1..Len(log) : log[i] # <<>> /\ (i > 1 => log[i] # log[i - 1])
    BY <2>1 DEF EditInv, RingHoldsLog
  <2>4. ASSUME NEW n \in 0..HIST_CAP+1
        PROVE  LET m == Min({n, Available})
               IN  HistoryListing(n) = SubSeq(log, Len(log) - m + 1, Len(log))
    <3>1. n \in Nat
      BY Caps
    <3> QED BY <3>1, ListingIsLogTail
  <2> QED BY <2>1, <2>2, <2>3, <2>4 DEF RingIsRecentLog
<1> QED BY <1>1, EditInvariant, PTL

\* history_up and history_down show the entry that hist_cursor names until
\* the line is edited.
THEOREM BrowsingShowsLogLine == Spec => []BrowsingShowsEntry
<1>1. EditInv => BrowsingShowsEntry
  BY DEF EditInv, RingHoldsLog, LineOfCursor, BrowsingShowsEntry
<1> QED BY <1>1, EditInvariant, PTL

\* Coming back from the history restores the line that was left.
THEOREM LiveLineComesBack == Spec => LiveLineRestored
<1>1. EditInv /\ [Next]_vars
        => [hist_cursor > 0 /\ hist_cursor' = 0 /\ HistoryDown => buf' = draft]_vars
  BY DEF EditInv, LineOfCursor, HistoryDown
<1> QED BY <1>1, EditInvariant, PTL DEF Spec, LiveLineRestored

\* The bounds that the code's array accesses rest on: the line, the saved
\* line and every history entry fit their arrays, the cursor is in the line
\* and hist_cursor names an entry that the ring still holds.
THEOREM LineAndCursorInBounds ==
  Spec => [](/\ Len(buf) <= BUF_CAP /\ cursor_pos \in 0..Len(buf)
             /\ Len(live) <= BUF_CAP /\ \A i \in 0..HIST_CAP-1 : Len(history[i]) <= BUF_CAP
             /\ hist_cursor \in 0..Available)
<1>1. EditInv => (/\ Len(buf) <= BUF_CAP /\ cursor_pos \in 0..Len(buf)
                  /\ Len(live) <= BUF_CAP /\ \A i \in 0..HIST_CAP-1 : Len(history[i]) <= BUF_CAP
                  /\ hist_cursor \in 0..Available)
  BY LineFits DEF EditInv, EditTypeOK
<1> QED BY <1>1, EditInvariant, PTL
=============================================================================
