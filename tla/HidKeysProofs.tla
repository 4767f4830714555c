--------------------------- MODULE HidKeysProofs ----------------------------
(***************************************************************************)
(* Proofs about HidKeys for every set of keys, every number of places in a *)
(* report and any number of presses: a key is typed no more often than it  *)
(* was pressed, and what is typed is what was pressed when no report was   *)
(* missed.                                                                 *)
(***************************************************************************)
EXTENDS HidKeys, FiniteSetTheorems, SequenceTheorems, TLAPS

Codes  == (Keys \ Mods) \cup {"rollover"}
Stroke == [key : Keys, ch : {"a", "A", "1", "!", "^a", "up"}]
Report == [mods : SUBSET Mods, keys : Seq(Codes)]
Job    == [report : Report, caps : BOOLEAN, next : Nat \ {0}]

HidTypeOK ==
  /\ held \in Seq(Keys \ Mods) /\ mods \in SUBSET Mods
  /\ caps \in BOOLEAN /\ missed \in BOOLEAN
  /\ typed \in Seq(Stroke) /\ want \in Seq(Stroke) /\ pressed \in Seq(Keys)
  /\ forgot \in [Keys -> Nat]
  /\ pending \in Report \cup {NoReport} /\ job \in Job \cup {NoJob}

Once(q) == \A i, j \in 1..Len(q) : q[i] = q[j] => i = j

\* The keys of a report: held keys, each once, or rollover codes.
Whole(q) ==
  \/ q \in Seq(Keys \ Mods) /\ Once(q)
  \/ Len(q) > 0 /\ \A i \in 1..Len(q) : q[i] = "rollover"

\* The report waiting is the newest; the handler's place is in its report.
ReportsOK ==
  /\ Once(held)
  /\ pending # NoReport => pending = Snapshot(held, mods)
  /\ job # NoJob => job.next <= Len(job.report.keys) + 1 /\ Whole(job.report.keys)

\* HID_PREV at the end of the report in work, if there is one.
Seen == IF job = NoJob THEN prev ELSE Range(job.report.keys)

\* The report in work will type k; the next one will; the report in work will
\* make HID_PREV forget k.
Due(k) ==
  IF /\ job # NoJob /\ k \notin prev
     /\ \E i \in 1..Len(job.report.keys) : i >= job.next /\ job.report.keys[i] = k
  THEN 1 ELSE 0
Ahead(k) == IF k \in Range(held) /\ k \notin Seen THEN 1 ELSE 0
Excuse(k) == IF job # NoJob /\ k \in prev /\ "rollover" \in Range(job.report.keys) THEN 1 ELSE 0

Balanced(k) ==
  /\ Typed(k) + Due(k) <= Presses(k) + forgot[k]
  /\ Typed(k) + Due(k) + Ahead(k) <= Presses(k) + forgot[k] + Excuse(k)

Balance == \A k \in Keys : Balanced(k)

PhantomInv == HidTypeOK /\ ReportsOK /\ Balance

-----------------------------------------------------------------------------
(* When no report is missed, each one differs from the one before by one   *)
(* key: the last of its keys, if any, is the only one that can be new.     *)

\* What a report types after one that left HID_PREV = a, and what it makes of
\* caps lock.
IsLast(a, r)    == r.keys # <<>> /\ r.keys[Len(r.keys)] \notin a
Out(a, r, c)    == IF IsLast(a, r) THEN Pushes(r.keys[Len(r.keys)], r.mods, c) ELSE <<>>
Toggle(a, r, c) == IF IsLast(a, r) /\ r.keys[Len(r.keys)] = "Caps" THEN ~c ELSE c

Follows(a, r) == \A i \in 1..Len(r.keys) : r.keys[i] \notin a => i = Len(r.keys)
Plain(r)      == \A i \in 1..Len(r.keys) : r.keys[i] # "rollover"

\* The characters and caps lock at the end of the report in work.
JobLeft   == job # NoJob /\ job.next <= Len(job.report.keys)
TypedThen == IF JobLeft THEN typed \o Out(prev, job.report, job.caps) ELSE typed
CapsThen  == IF JobLeft THEN Toggle(prev, job.report, job.caps) ELSE caps

JobExact == /\ job # NoJob => Follows(prev, job.report) /\ Plain(job.report)
            /\ JobLeft => caps = job.caps
Level    == Seen = Range(held) /\ want = TypedThen /\ CapsDown = CapsThen
OneAhead == /\ Follows(Seen, pending) /\ Len(held) <= KeySlots
            /\ want = TypedThen \o Out(Seen, pending, CapsThen)
            /\ CapsDown = Toggle(Seen, pending, CapsThen)

ExactInv == ~missed => JobExact /\ (IF pending = NoReport THEN Level ELSE OneAhead)

-----------------------------------------------------------------------------
(* Sequences, counts and keys.                                             *)

\* Codes are no placeholders.
LEMMA CodesAre ==
  /\ "none" \notin Codes /\ "none" \notin Keys /\ "rollover" \notin Keys
  /\ NoReport \notin Report /\ NoJob \notin Job
<1>1. "none" \notin Codes /\ "none" \notin Keys /\ "rollover" \notin Keys
  BY KeysAssumption DEF Codes, Mods
<1>2. NoReport \notin Report
  <2> SUFFICES ASSUME NoReport \in Report PROVE FALSE
    OBVIOUS
  <2>1. <<"none">> \in Seq(Codes)
    BY DEF Report, NoReport
  <2>2. <<"none">>[1] \in Codes
    BY <2>1
  <2> QED BY <1>1, <2>2
<1>3. NoJob \notin Job
  BY DEF NoJob, Job
<1> QED BY <1>1, <1>2, <1>3

\* How often elements of T occur in a sequence that grows.
Count(q, T) == Cardinality({i \in DOMAIN q : q[i] \in T})

LEMMA CountAppend ==
  ASSUME NEW S, NEW q \in Seq(S), NEW x \in S, NEW T
  PROVE  Count(q, T) \in Nat /\ Count(Append(q, x), T) = Count(q, T) + (IF x \in T THEN 1 ELSE 0)
<1> DEFINE n == Len(q)
           r == Append(q, x)
           A == {i \in DOMAIN q : q[i] \in T}
           B == {i \in DOMAIN r : r[i] \in T}
<1>1. /\ n \in Nat /\ DOMAIN q = 1..n /\ DOMAIN r = 1..n+1
      /\ \A i \in 1..n : r[i] = q[i]
      /\ r[n + 1] = x
  OBVIOUS
<1> HIDE DEF n, r
<1>2. IsFiniteSet(A) /\ Cardinality(A) \in Nat
  <2>1. IsFiniteSet(1..n)
    BY <1>1, FS_Interval
  <2>2. A \subseteq 1..n
    BY <1>1
  <2> QED BY <2>1, <2>2, FS_Subset, FS_CardinalityType
<1>3. Cardinality(B) = Cardinality(A) + (IF x \in T THEN 1 ELSE 0)
  <2>1. CASE x \in T
    <3>1. B = A \cup {n + 1} /\ n + 1 \notin A
      BY <1>1, <2>1
    <3> HIDE DEF A, B
    <3> QED BY <1>2, <2>1, <3>1, FS_AddElement
  <2>2. CASE x \notin T
    <3>1. B = A
      BY <1>1, <2>2
    <3> HIDE DEF A, B
    <3> QED BY <1>2, <2>2, <3>1
  <2> QED BY <2>1, <2>2
<1>4. Count(q, T) = Cardinality(A) /\ Count(Append(q, x), T) = Cardinality(B)
  BY DEF Count, r
<1> HIDE DEF A, B
<1> QED BY <1>2, <1>3, <1>4

LEMMA PressesAppend ==
  ASSUME pressed \in Seq(Keys), NEW k \in Keys, pressed' = Append(pressed, k), NEW x
  PROVE  Presses(x) \in Nat /\ Presses(x)' = Presses(x) + (IF k = x THEN 1 ELSE 0)
<1>1. /\ Count(pressed, {x}) \in Nat
      /\ Count(Append(pressed, k), {x}) = Count(pressed, {x}) + (IF k \in {x} THEN 1 ELSE 0)
  BY CountAppend, Zenon
<1>2. Presses(x) = Count(pressed, {x}) /\ Presses(x)' = Count(pressed', {x})
  BY DEF Presses, Count
<1> QED BY <1>1, <1>2

LEMMA TypedAppend ==
  ASSUME typed \in Seq(Stroke), NEW s \in Stroke, typed' = Append(typed, s), NEW x
  PROVE  Typed(x) \in Nat /\ Typed(x)' = Typed(x) + (IF s.key = x THEN 1 ELSE 0)
<1> DEFINE T == {u \in Stroke : u.key = x}
<1>1. /\ Count(typed, T) \in Nat
      /\ Count(Append(typed, s), T) = Count(typed, T) + (IF s \in T THEN 1 ELSE 0)
  <2> HIDE DEF T
  <2> QED BY CountAppend, Zenon
<1>2. Typed(x) = Count(typed, T)
  <2>1. \A i \in DOMAIN typed : typed[i] \in Stroke
    OBVIOUS
  <2> QED BY <2>1 DEF Typed, Count
<1>3. Typed(x)' = Count(typed', T)
  <2>1. typed' \in Seq(Stroke)
    OBVIOUS
  <2>2. \A i \in DOMAIN typed' : typed'[i] \in Stroke
    BY <2>1
  <2> QED BY <2>2 DEF Typed, Count
<1>4. s \in T <=> s.key = x
  OBVIOUS
<1> HIDE DEF T
<1> QED BY <1>1, <1>2, <1>3, <1>4

\* A key that is pressed is appended, one that is released is taken out.
LEMMA AppendOnce ==
  ASSUME NEW S, NEW q \in Seq(S), Once(q), NEW k \in S, k \notin Range(q)
  PROVE  Append(q, k) \in Seq(S) /\ Once(Append(q, k)) /\ Range(Append(q, k)) = Range(q) \cup {k}
<1> DEFINE r == Append(q, k)
<1>1. /\ Len(q) \in Nat /\ DOMAIN q = 1..Len(q) /\ r \in Seq(S) /\ Len(r) = Len(q) + 1
      /\ DOMAIN r = 1..Len(q)+1 /\ \A i \in 1..Len(q) : r[i] = q[i]
      /\ r[Len(q) + 1] = k
  OBVIOUS
<1> HIDE DEF r
<1>2. \A i \in 1..Len(q)+1 : i \in 1..Len(q) \/ i = Len(q) + 1
  BY <1>1
<1>3. \A i \in 1..Len(q) : q[i] # k
  BY <1>1 DEF Range
<1>4. Once(r)
  BY <1>1, <1>2, <1>3 DEF Once
<1>5. Range(r) = Range(q) \cup {k}
  <2>1. ASSUME NEW v \in Range(r) PROVE v \in Range(q) \cup {k}
    BY <1>1, <1>2, <2>1 DEF Range
  <2>2. ASSUME NEW v \in Range(q) PROVE v \in Range(r)
    <3>1. PICK i \in 1..Len(q) : v = q[i]
      BY <1>1, <2>2 DEF Range
    <3>2. i \in DOMAIN r /\ r[i] = v
      BY <1>1, <3>1
    <3> QED BY <3>2 DEF Range
  <2>3. k \in Range(r)
    <3>1. Len(q) + 1 \in DOMAIN r
      BY <1>1
    <3> QED BY <1>1, <3>1 DEF Range
  <2> QED BY <2>1, <2>2, <2>3
<1> QED BY <1>1, <1>4, <1>5 DEF r

LEMMA RemoveOnce ==
  ASSUME NEW S, NEW q \in Seq(S), Once(q), NEW n \in DOMAIN q
  PROVE  RemoveAt(q, n) \in Seq(S) /\ Once(RemoveAt(q, n)) /\ Range(RemoveAt(q, n)) \subseteq Range(q)
<1> DEFINE r == RemoveAt(q, n)
           f(i) == IF i < n THEN i ELSE i + 1
<1>1. Len(q) \in Nat /\ DOMAIN q = 1..Len(q) /\ n \in 1..Len(q)
  OBVIOUS
<1>2. /\ r \in Seq(S) /\ Len(r) = Len(q) - 1 /\ DOMAIN r = 1..Len(q)-1
      /\ \A i \in 1..Len(q)-1 : r[i] = q[f(i)]
  <2> DEFINE a == SubSeq(q, 1, n - 1)
             b == SubSeq(q, n + 1, Len(q))
  <2>1. a \in Seq(S) /\ Len(a) = n - 1 /\ \A i \in 1..n-1 : a[i] = q[i]
    BY <1>1
  <2>2. b \in Seq(S) /\ Len(b) = Len(q) - n /\ \A i \in 1..Len(q)-n : b[i] = q[i + n]
    BY <1>1
  <2>3. r = a \o b
    BY DEF RemoveAt
  <2> HIDE DEF a, b, r
  <2>4. r \in Seq(S) /\ Len(r) = Len(q) - 1
    <3>0. a \in Seq(S) /\ b \in Seq(S)
      BY <2>1, <2>2
    <3>1. a \o b \in Seq(S) /\ Len(a \o b) = Len(a) + Len(b)
      BY <3>0, ConcatProperties, Zenon
    <3>2. (n - 1) + (Len(q) - n) = Len(q) - 1
      BY <1>1
    <3> QED BY <2>1, <2>2, <2>3, <3>1, <3>2
  <2>5. ASSUME NEW i \in 1..Len(q)-1 PROVE r[i] = q[f(i)]
    <3>1. CASE i < n
      BY <1>1, <2>1, <2>2, <2>3, <3>1
    <3>2. CASE ~(i < n)
      <4>1. r[i] = b[i - (n - 1)] /\ i - (n - 1) \in 1..Len(q)-n
        BY <1>1, <2>1, <2>2, <2>3, <3>2
      <4>2. (i - (n - 1)) + n = i + 1
        BY <1>1
      <4> QED BY <2>2, <3>2, <4>1, <4>2
    <3> QED BY <3>1, <3>2
  <2> QED BY <2>4, <2>5
<1> HIDE DEF r
<1>3. /\ \A i \in 1..Len(q)-1 : f(i) \in 1..Len(q)
      /\ \A i, j \in 1..Len(q)-1 : f(i) = f(j) => i = j
  BY <1>1
<1> HIDE DEF f
<1>4. Once(r)
  BY <1>2, <1>3 DEF Once
<1>5. Range(r) \subseteq Range(q)
  BY <1>1, <1>2, <1>3 DEF Range
<1> QED BY <1>2, <1>4, <1>5 DEF r

\* What a key pushes is what its press means.
LEMMA PushesMeaning ==
  ASSUME NEW k \in Keys, NEW ms \in SUBSET Mods, NEW c \in BOOLEAN
  PROVE  /\ k \in Mods => Meaning(k, ms, c) = <<>>
         /\ k \notin Mods => Pushes(k, ms, c) = Meaning(k, ms, c)
         /\ k \notin Mods => \/ Pushes(k, ms, c) = <<>>
                             \/ \E s \in Stroke : s.key = k /\ Pushes(k, ms, c) = <<s>>
<1>1. k \in {"A", "One", "Up", "Caps"} \cup Mods
  BY KeysAssumption
<1>2. CASE k \in Mods
  <2>1. k \in Mods \cup {"Caps"} /\ k # "Up" /\ k # "One" /\ k # "A"
    BY <1>2 DEF Mods
  <2>2. Meaning(k, ms, c) = <<>>
    BY <2>1 DEF Meaning
  <2> QED BY <1>2, <2>2
<1>3. CASE k = "Caps"
  <2>1. Meaning(k, ms, c) = <<>>
    BY <1>3 DEF Meaning
  <2>2. Pushes(k, ms, c) = <<>>
    BY <1>3 DEF Pushes
  <2>3. k \notin Mods
    BY <1>3 DEF Mods
  <2> QED BY <2>1, <2>2, <2>3
<1>4. CASE k = "Up"
  <2>1. [key |-> k, ch |-> "up"] \in Stroke
    BY <1>4 DEF Stroke
  <2>2. Pushes(k, ms, c) = <<[key |-> k, ch |-> "up"]>>
        /\ Meaning(k, ms, c) = <<[key |-> k, ch |-> "up"]>>
    BY <1>4 DEF Meaning, Pushes, Mods
  <2> QED BY <1>4, <2>1, <2>2 DEF Mods
<1>5. CASE k = "One"
  <2> DEFINE x == IF "Shift" \in ms THEN "!" ELSE "1"
  <2>1. Pushes(k, ms, c) = <<[key |-> k, ch |-> x]>> /\ Meaning(k, ms, c) = <<[key |-> k, ch |-> x]>>
    BY <1>5 DEF Meaning, Pushes, Mods, hid_to_ascii
  <2>2. [key |-> k, ch |-> x] \in Stroke
    BY <1>5 DEF Stroke
  <2> HIDE DEF x
  <2> QED BY <1>5, <2>1, <2>2 DEF Mods
<1>6. CASE k = "A"
  <2> DEFINE x == IF "Ctrl" \in ms THEN "^a" ELSE IF ("Shift" \in ms) = c THEN "a" ELSE "A"
  <2>1. Meaning(k, ms, c) = <<[key |-> k, ch |-> x]>>
    BY <1>6 DEF Meaning, Mods
  <2>2. hid_to_ascii(k, "Shift" \in ms, c) = IF ("Shift" \in ms) = c THEN "a" ELSE "A"
    BY <1>6 DEF hid_to_ascii
  <2>3. Pushes(k, ms, c) = <<[key |-> k, ch |-> x]>>
    BY <1>6, <2>2 DEF Pushes
  <2>4. [key |-> k, ch |-> x] \in Stroke
    BY <1>6 DEF Stroke
  <2> HIDE DEF x
  <2> QED BY <1>6, <2>1, <2>3, <2>4 DEF Mods
<1> QED BY <1>1, <1>2, <1>3, <1>4, <1>5, <1>6

-----------------------------------------------------------------------------
(* No phantom keys, one lemma per action.                                  *)

LEMMA SnapshotIs ==
  ASSUME NEW q \in Seq(Keys \ Mods), NEW ms \in SUBSET Mods, Once(q)
  PROVE  /\ Snapshot(q, ms) \in Report /\ Whole(Snapshot(q, ms).keys)
         /\ Snapshot(q, ms).mods = ms
         /\ Len(q) <= KeySlots => Snapshot(q, ms).keys = q
         /\ ~(Len(q) <= KeySlots) =>
              \A i \in 1..Len(Snapshot(q, ms).keys) : Snapshot(q, ms).keys[i] = "rollover"
         /\ ~(Len(q) <= KeySlots) => Len(Snapshot(q, ms).keys) = KeySlots
<1> DEFINE z == [i \in 1..KeySlots |-> "rollover"]
<1>1. z \in Seq(Codes) /\ Len(z) = KeySlots /\ \A i \in 1..KeySlots : z[i] = "rollover"
  BY SizeAssumption DEF Codes
<1>2. q \in Seq(Codes)
  BY DEF Codes
<1>3. Snapshot(q, ms) = [mods |-> ms, keys |-> IF Len(q) <= KeySlots THEN q ELSE z]
  BY DEF Snapshot
<1> HIDE DEF z
<1>4. CASE Len(q) <= KeySlots
  BY <1>2, <1>3, <1>4 DEF Report, Whole
<1>5. CASE ~(Len(q) <= KeySlots)
  <2>1. Snapshot(q, ms) = [mods |-> ms, keys |-> z]
    BY <1>3, <1>5
  <2>2. Whole(z)
    BY <1>1, SizeAssumption DEF Whole
  <2> QED BY <1>1, <1>5, <2>1, <2>2 DEF Report
<1> QED BY <1>4, <1>5

LEMMA HidInit == Init => PhantomInv
<1> SUFFICES ASSUME Init PROVE PhantomInv
  OBVIOUS
<1>1. HidTypeOK
  <2>1. <<>> \in Seq(Keys \ Mods) /\ <<>> \in Seq(Stroke) /\ <<>> \in Seq(Keys) /\ {} \in SUBSET Mods
    OBVIOUS
  <2> QED BY <2>1 DEF Init, HidTypeOK
<1>2. ReportsOK
  BY DEF Init, ReportsOK, Once
<1>3. Balance
  <2> SUFFICES ASSUME NEW k \in Keys PROVE Balanced(k)
    BY DEF Balance
  <2>1. Typed(k) = 0 /\ Presses(k) = 0
    BY FS_EmptySet DEF Init, Typed, Presses
  <2>2. Due(k) = 0 /\ Excuse(k) = 0
    BY DEF Init, Due, Excuse
  <2>3. Ahead(k) = 0
    BY DEF Init, Ahead, Range
  <2> QED BY <2>1, <2>2, <2>3 DEF Init, Balanced
<1> QED BY <1>1, <1>2, <1>3 DEF PhantomInv

\* The counts are natural numbers.
LEMMA Counts ==
  ASSUME HidTypeOK, NEW k \in Keys
  PROVE  Typed(k) \in Nat /\ Presses(k) \in Nat /\ forgot[k] \in Nat
<1>1. Presses(k) \in Nat
  <2>1. Count(pressed, {k}) \in Nat
    BY CountAppend DEF HidTypeOK
  <2> QED BY <2>1 DEF Presses, Count
<1>2. Typed(k) \in Nat
  <2> DEFINE s == [key |-> k, ch |-> "a"]
             T == {u \in Stroke : u.key = k}
  <2>1. s \in Stroke
    BY DEF Stroke
  <2>2. Count(typed, T) \in Nat
    <3> HIDE DEF s, T
    <3> QED BY <2>1, CountAppend DEF HidTypeOK
  <2>3. \A i \in DOMAIN typed : typed[i] \in Stroke
    BY DEF HidTypeOK
  <2> QED BY <2>2, <2>3 DEF Typed, Count
<1> QED BY <1>1, <1>2 DEF HidTypeOK

\* The keyboard's new state, and the report it makes of it.
LEMMA ChangedReports ==
  ASSUME HidTypeOK, ReportsOK, job' = job,
         NEW q \in Seq(Keys \ Mods), Once(q), NEW ms \in SUBSET Mods, Changed(q, ms)
  PROVE  /\ held' \in Seq(Keys \ Mods) /\ mods' \in SUBSET Mods /\ missed' \in BOOLEAN
         /\ pending' \in Report /\ ReportsOK'
<1>1. Snapshot(q, ms) \in Report
  BY SnapshotIs
<1>2. held' = q /\ mods' = ms /\ pending' = Snapshot(q, ms) /\ missed' \in BOOLEAN
  BY DEF Changed, HidTypeOK
<1>3. ReportsOK'
  <2>1. Once(held)'
    BY <1>2
  <2>2. pending' = Snapshot(held, mods)'
    BY <1>2 DEF Snapshot
  <2> QED BY <2>1, <2>2 DEF ReportsOK
<1> QED BY <1>1, <1>2, <1>3

LEMMA PressKeeps ==
  ASSUME PhantomInv, NEW k \in Keys, Press(k) PROVE PhantomInv'
<1> USE DEF PhantomInv
<1>0. job' = job /\ prev' = prev /\ caps' = caps /\ typed' = typed /\ forgot' = forgot
      /\ pressed' = Append(pressed, k) /\ k \notin Range(held)
  BY DEF Press
<1>1. PICK q \in Seq(Keys \ Mods), ms \in SUBSET Mods :
         Changed(q, ms) /\ Once(q) /\ Range(q) \subseteq Range(held) \cup {k}
  <2>1. CASE k \in Mods
    <3>1. Changed(held, mods \cup {k})
      BY <2>1 DEF Press
    <3> QED BY <2>1, <3>1 DEF HidTypeOK, ReportsOK
  <2>2. CASE k \notin Mods
    <3>1. Changed(Append(held, k), mods)
      BY <2>2 DEF Press
    <3>2. k \in Keys \ Mods /\ held \in Seq(Keys \ Mods) /\ Once(held) /\ mods \in SUBSET Mods
      BY <2>2 DEF HidTypeOK, ReportsOK
    <3>3. /\ Append(held, k) \in Seq(Keys \ Mods) /\ Once(Append(held, k))
          /\ Range(Append(held, k)) = Range(held) \cup {k}
      BY <1>0, <3>2, AppendOnce
    <3> QED BY <3>1, <3>2, <3>3
  <2> QED BY <2>1, <2>2
<1>2. /\ held' \in Seq(Keys \ Mods) /\ mods' \in SUBSET Mods /\ missed' \in BOOLEAN
      /\ pending' \in Report /\ ReportsOK'
  BY <1>0, <1>1, ChangedReports
<1>3. HidTypeOK'
  <2>1. want' \in Seq(Stroke)
    <3>1. Meaning(k, mods, CapsDown) \in Seq(Stroke)
      <4>1. CapsDown \in BOOLEAN
        BY DEF CapsDown
      <4>2. mods \in SUBSET Mods
        BY DEF HidTypeOK
      <4>3. \/ Meaning(k, mods, CapsDown) = <<>>
            \/ \E s \in Stroke : Meaning(k, mods, CapsDown) = <<s>>
        BY <4>1, <4>2, PushesMeaning, Zenon
      <4>4. <<>> \in Seq(Stroke) /\ \A s \in Stroke : <<s>> \in Seq(Stroke)
        OBVIOUS
      <4> QED BY <4>3, <4>4, Zenon
    <3>2. want' = want \o Meaning(k, mods, CapsDown) /\ want \in Seq(Stroke)
      BY DEF Press, HidTypeOK
    <3> QED BY <3>1, <3>2
  <2>2. pressed' \in Seq(Keys)
    BY <1>0 DEF HidTypeOK
  <2> QED BY <1>0, <1>2, <2>1, <2>2 DEF HidTypeOK
<1>4. Balance'
  <2> SUFFICES ASSUME NEW x \in Keys PROVE Balanced(x)'
    BY DEF Balance
  <2>1. Typed(x)' = Typed(x) /\ Due(x)' = Due(x) /\ Excuse(x)' = Excuse(x) /\ forgot'[x] = forgot[x]
    BY <1>0 DEF Typed, Due, Excuse
  <2>2. Ahead(x)' <= Ahead(x) + (IF k = x THEN 1 ELSE 0)
    <3>1. Range(held') \subseteq Range(held) \cup {k}
      BY <1>1 DEF Changed
    <3>2. Seen' = Seen
      BY <1>0 DEF Seen
    <3> QED BY <3>1, <3>2 DEF Ahead
  <2>3. Presses(x)' = Presses(x) + (IF k = x THEN 1 ELSE 0)
    BY <1>0, PressesAppend DEF HidTypeOK
  <2>4. Balanced(x)
    BY DEF Balance
  <2>5. /\ Typed(x) \in Nat /\ Presses(x) \in Nat /\ forgot[x] \in Nat
        /\ Due(x) \in Nat /\ Excuse(x) \in Nat /\ Ahead(x) \in Nat /\ Ahead(x)' \in Nat
    BY Counts DEF Due, Excuse, Ahead
  <2> QED BY <2>1, <2>2, <2>3, <2>4, <2>5 DEF Balanced
<1> QED BY <1>2, <1>3, <1>4

LEMMA ReleaseKeeps ==
  ASSUME PhantomInv, NEW k \in Keys, Release(k) PROVE PhantomInv'
<1> USE DEF PhantomInv
<1>0. /\ job' = job /\ prev' = prev /\ caps' = caps /\ typed' = typed /\ forgot' = forgot
      /\ pressed' = pressed /\ want' = want
  BY DEF Release
<1>1. PICK q \in Seq(Keys \ Mods), ms \in SUBSET Mods :
         Changed(q, ms) /\ Once(q) /\ Range(q) \subseteq Range(held)
  <2>1. CASE Changed(held, mods \ {k})
    BY <2>1 DEF HidTypeOK, ReportsOK
  <2>2. CASE \E i \in DOMAIN held : held[i] = k /\ Changed(RemoveAt(held, i), mods)
    <3>1. PICK i \in DOMAIN held : Changed(RemoveAt(held, i), mods)
      BY <2>2
    <3>2. held \in Seq(Keys \ Mods) /\ Once(held) /\ mods \in SUBSET Mods
      BY DEF HidTypeOK, ReportsOK
    <3>3. /\ RemoveAt(held, i) \in Seq(Keys \ Mods) /\ Once(RemoveAt(held, i))
          /\ Range(RemoveAt(held, i)) \subseteq Range(held)
      BY <3>2, RemoveOnce
    <3> QED BY <3>1, <3>2, <3>3
  <2> QED BY <2>1, <2>2 DEF Release
<1>2. /\ held' \in Seq(Keys \ Mods) /\ mods' \in SUBSET Mods /\ missed' \in BOOLEAN
      /\ pending' \in Report /\ ReportsOK'
  BY <1>0, <1>1, ChangedReports
<1>3. HidTypeOK'
  BY <1>0, <1>2 DEF HidTypeOK
<1>4. Balance'
  <2> SUFFICES ASSUME NEW x \in Keys PROVE Balanced(x)'
    BY DEF Balance
  <2>1. /\ Typed(x)' = Typed(x) /\ Due(x)' = Due(x) /\ Excuse(x)' = Excuse(x)
        /\ forgot'[x] = forgot[x] /\ Presses(x)' = Presses(x)
    BY <1>0 DEF Typed, Due, Excuse, Presses
  <2>2. Ahead(x)' <= Ahead(x)
    <3>1. Range(held') \subseteq Range(held)
      BY <1>1 DEF Changed
    <3>2. Seen' = Seen
      BY <1>0 DEF Seen
    <3> QED BY <3>1, <3>2 DEF Ahead
  <2>4. Balanced(x)
    BY DEF Balance
  <2>5. /\ Typed(x) \in Nat /\ Presses(x) \in Nat /\ forgot[x] \in Nat
        /\ Due(x) \in Nat /\ Excuse(x) \in Nat /\ Ahead(x) \in Nat /\ Ahead(x)' \in Nat
    BY Counts DEF Due, Excuse, Ahead
  <2> QED BY <2>1, <2>2, <2>4, <2>5 DEF Balanced
<1> QED BY <1>2, <1>3, <1>4

\* Lost reports and stuttering steps change no count.
LEMMA LoseKeeps ==
  ASSUME PhantomInv, Lose \/ UNCHANGED vars PROVE PhantomInv'
<1> USE DEF PhantomInv
<1>0. /\ held' = held /\ mods' = mods /\ want' = want /\ pressed' = pressed /\ prev' = prev
      /\ caps' = caps /\ job' = job /\ typed' = typed /\ forgot' = forgot
      /\ missed' \in BOOLEAN /\ pending' \in {pending, NoReport}
  BY DEF Lose, vars, user, HidTypeOK
<1>1. HidTypeOK'
  BY <1>0 DEF HidTypeOK
<1>2. ReportsOK'
  <2>1. Snapshot(held, mods)' = Snapshot(held, mods)
    BY <1>0 DEF Snapshot
  <2> QED BY <1>0, <2>1 DEF ReportsOK
<1>3. Balance'
  <2> SUFFICES ASSUME NEW x \in Keys PROVE Balanced(x)'
    BY DEF Balance
  <2>1. Balanced(x)
    BY DEF Balance
  <2>2. /\ Typed(x)' = Typed(x) /\ Due(x)' = Due(x) /\ Excuse(x)' = Excuse(x)
        /\ forgot'[x] = forgot[x] /\ Presses(x)' = Presses(x) /\ Ahead(x)' = Ahead(x)
    BY <1>0 DEF Typed, Due, Excuse, Presses, Ahead, Seen
  <2> QED BY <2>1, <2>2 DEF Balanced
<1> QED BY <1>1, <1>2, <1>3

\* A report whose keys are the held ones types those that HID_PREV lacks; one
\* of rollover codes types nothing, and will make HID_PREV forget.
LEMMA BeginKeeps ==
  ASSUME PhantomInv, ReportBegin PROVE PhantomInv'
<1> USE DEF PhantomInv
<1>0. /\ held' = held /\ mods' = mods /\ want' = want /\ pressed' = pressed /\ prev' = prev
      /\ caps' = caps /\ typed' = typed /\ forgot' = forgot /\ missed' = missed
      /\ pending' = NoReport /\ job = NoJob
  BY DEF ReportBegin, user
<1> DEFINE r == Snapshot(held, mods)
<1>1. job' = [report |-> r, caps |-> caps, next |-> 1]
  BY DEF ReportBegin, ReportsOK
<1>2. held \in Seq(Keys \ Mods) /\ mods \in SUBSET Mods /\ Once(held)
  BY DEF HidTypeOK, ReportsOK
<1>3. /\ r \in Report /\ Whole(r.keys)
      /\ Len(held) <= KeySlots => r.keys = held
      /\ ~(Len(held) <= KeySlots) => \A i \in 1..Len(r.keys) : r.keys[i] = "rollover"
      /\ ~(Len(held) <= KeySlots) => Len(r.keys) = KeySlots
  BY <1>2, SnapshotIs
<1> HIDE DEF r
<1>4. job' \in Job /\ job' # NoJob /\ job'.report = r /\ job'.next = 1
  BY <1>1, <1>3 DEF Job, NoJob, HidTypeOK
<1>5. HidTypeOK'
  BY <1>0, <1>4 DEF HidTypeOK
<1>6. r.keys \in Seq(Codes) /\ DOMAIN (r.keys) = 1..Len(r.keys) /\ Len(r.keys) \in Nat
  BY <1>3 DEF Report
<1>7. ReportsOK'
  BY <1>0, <1>3, <1>4, <1>6 DEF ReportsOK
<1>8. Balance'
  <2> SUFFICES ASSUME NEW x \in Keys PROVE Balanced(x)'
    BY DEF Balance
  <2>1. Balanced(x)
    BY DEF Balance
  <2>2. Typed(x)' = Typed(x) /\ forgot'[x] = forgot[x] /\ Presses(x)' = Presses(x)
    BY <1>0 DEF Typed, Presses
  <2>3. Due(x) = 0 /\ Excuse(x) = 0
    BY <1>0 DEF Due, Excuse
  <2>4. Due(x)' = IF x \notin prev /\ x \in Range(r.keys) THEN 1 ELSE 0
    BY <1>0, <1>4, <1>6 DEF Due, Range
  <2>5. Seen = prev /\ Seen' = Range(r.keys)
    BY <1>0, <1>4 DEF Seen
  <2>6. Excuse(x)' = IF x \in prev /\ "rollover" \in Range(r.keys) THEN 1 ELSE 0
    BY <1>0, <1>4 DEF Excuse
  <2>7. Due(x)' <= Ahead(x) /\ Due(x)' + Ahead(x)' <= Ahead(x) + Excuse(x)'
    <3>1. CASE Len(held) <= KeySlots
      BY <1>0, <1>3, <2>4, <2>5, <2>6, <3>1 DEF Ahead
    <3>2. CASE ~(Len(held) <= KeySlots)
      <4>1. "rollover" \in Range(r.keys)
        BY <1>3, <1>6, <3>2, SizeAssumption DEF Range
      <4>2. x \notin Range(r.keys)
        BY <1>3, <1>6, <3>2, CodesAre DEF Range
      <4> QED BY <1>0, <2>4, <2>5, <2>6, <4>1, <4>2 DEF Ahead
    <3> QED BY <3>1, <3>2
  <2>8. /\ Typed(x) \in Nat /\ Presses(x) \in Nat /\ forgot[x] \in Nat /\ Due(x)' \in Nat
        /\ Excuse(x)' \in Nat /\ Ahead(x) \in Nat /\ Ahead(x)' \in Nat
    BY Counts DEF Due, Excuse, Ahead
  <2> QED BY <2>1, <2>2, <2>3, <2>7, <2>8 DEF Balanced
<1> QED BY <1>5, <1>7, <1>8

\* The report in work.
LEMMA JobFacts ==
  ASSUME HidTypeOK, ReportsOK, job # NoJob
  PROVE  /\ job \in Job /\ job.report \in Report /\ job.caps \in BOOLEAN /\ job.next \in Nat \ {0}
         /\ job.report.keys \in Seq(Codes) /\ job.report.mods \in SUBSET Mods
         /\ Len(job.report.keys) \in Nat /\ DOMAIN (job.report.keys) = 1..Len(job.report.keys)
         /\ Whole(job.report.keys) /\ job.next <= Len(job.report.keys) + 1
<1>1. job \in Job
  BY DEF HidTypeOK
<1>2. job.report \in Report /\ job.caps \in BOOLEAN /\ job.next \in Nat \ {0}
  BY <1>1 DEF Job
<1>3. job.report.keys \in Seq(Codes) /\ job.report.mods \in SUBSET Mods
  BY <1>2 DEF Report
<1>4. Len(job.report.keys) \in Nat /\ DOMAIN (job.report.keys) = 1..Len(job.report.keys)
  BY <1>3
<1> QED BY <1>1, <1>2, <1>3, <1>4 DEF ReportsOK

\* What the loop does with the key at its place.
LEMMA KeyFacts ==
  ASSUME HidTypeOK, ReportsOK, ReportKey, NEW k, k = job.report.keys[job.next]
  PROVE  /\ job # NoJob /\ job.next \in 1..Len(job.report.keys) /\ k \in Codes
         /\ job' \in Job /\ job' # NoJob /\ job'.report = job.report /\ job'.caps = job.caps
         /\ job'.next = job.next + 1
         /\ held' = held /\ mods' = mods /\ want' = want /\ pressed' = pressed /\ prev' = prev
         /\ forgot' = forgot /\ missed' = missed /\ pending' = pending
         /\ typed' = IF IsNew(k) THEN typed \o Pushes(k, job.report.mods, job.caps) ELSE typed
         /\ caps' = IF IsNew(k) /\ k = "Caps" THEN ~job.caps ELSE caps
         /\ IsNew(k) => k \in Keys \ Mods
         /\ \/ typed' = typed
            \/ IsNew(k) /\ \E s \in Stroke : s.key = k /\ typed' = Append(typed, s)
<1>1. job.next \in 1..Len(job.report.keys)
  BY DEF ReportKey
<1>2. job # NoJob
  <2> SUFFICES ASSUME job = NoJob PROVE FALSE
    OBVIOUS
  <2>1. job.next = 0
    BY DEF NoJob
  <2> QED BY <1>1, <2>1
<1>3. k \in Codes
  BY <1>1, <1>2, JobFacts
<1>4. job' = [job EXCEPT !.next = job.next + 1]
  BY DEF ReportKey
<1>5. job' \in Job /\ job'.report = job.report /\ job'.caps = job.caps /\ job'.next = job.next + 1
  <2>1. job \in Job /\ job.next \in Nat \ {0}
    BY <1>2, JobFacts
  <2> QED BY <1>4, <2>1 DEF Job
<1>6. job' # NoJob
  BY <1>5, CodesAre
<1>7. /\ typed' = IF IsNew(k) THEN typed \o Pushes(k, job.report.mods, job.caps) ELSE typed
      /\ caps' = IF IsNew(k) /\ k = "Caps" THEN ~job.caps ELSE caps
  BY DEF ReportKey
<1>8. IsNew(k) => k \in Keys \ Mods
  BY <1>3 DEF IsNew, Codes
<1>9. typed' = typed \/ (IsNew(k) /\ \E s \in Stroke : s.key = k /\ typed' = Append(typed, s))
  <2>1. SUFFICES ASSUME IsNew(k) PROVE typed' = typed \/ \E s \in Stroke : s.key = k /\ typed' = Append(typed, s)
    BY <1>7
  <2>2. job.report.mods \in SUBSET Mods /\ job.caps \in BOOLEAN /\ k \in Keys /\ k \notin Mods
    BY <1>2, <1>8, <2>1, JobFacts
  <2> DEFINE p == Pushes(k, job.report.mods, job.caps)
  <2>3. p = <<>> \/ \E s \in Stroke : s.key = k /\ p = <<s>>
    BY <2>2, PushesMeaning, Zenon
  <2>4. typed' = typed \o p /\ typed \in Seq(Stroke)
    BY <1>7, <2>1 DEF HidTypeOK
  <2> HIDE DEF p
  <2>5. CASE p = <<>>
    BY <2>4, <2>5
  <2>6. CASE \E s \in Stroke : s.key = k /\ p = <<s>>
    <3>1. PICK s \in Stroke : s.key = k /\ p = <<s>>
      BY <2>6
    <3>2. typed \o <<s>> = Append(typed, s)
      BY <2>4
    <3> QED BY <2>4, <3>1, <3>2
  <2> QED BY <2>3, <2>5, <2>6
<1>10. /\ held' = held /\ mods' = mods /\ want' = want /\ pressed' = pressed /\ prev' = prev
       /\ forgot' = forgot /\ missed' = missed /\ pending' = pending
  BY DEF ReportKey, user
<1> QED BY <1>1, <1>2, <1>3, <1>5, <1>6, <1>7, <1>8, <1>9, <1>10

LEMMA KeyKeeps ==
  ASSUME PhantomInv, ReportKey PROVE PhantomInv'
<1> USE DEF PhantomInv
<1> DEFINE k == job.report.keys[job.next]
           q == job.report.keys
<1>1. /\ job # NoJob /\ job.next \in 1..Len(q) /\ k \in Codes
      /\ job' \in Job /\ job' # NoJob /\ job'.report = job.report
      /\ job'.next = job.next + 1
      /\ held' = held /\ mods' = mods /\ want' = want /\ pressed' = pressed /\ prev' = prev
      /\ forgot' = forgot /\ missed' = missed /\ pending' = pending
      /\ typed' = typed \/ (IsNew(k) /\ \E s \in Stroke : s.key = k /\ typed' = Append(typed, s))
  BY KeyFacts
<1>2. Whole(q) /\ Len(q) \in Nat /\ job.next \in Nat /\ job'.report.keys = q
  BY <1>1, JobFacts
<1>3. HidTypeOK'
  <2>1. typed' \in Seq(Stroke)
    <3>1. typed \in Seq(Stroke) /\ \A s \in Stroke : Append(typed, s) \in Seq(Stroke)
      BY DEF HidTypeOK
    <3> QED BY <1>1, <3>1, Zenon
  <2>2. caps' \in BOOLEAN
    BY JobFacts, <1>1 DEF ReportKey, HidTypeOK
  <2> QED BY <1>1, <2>1, <2>2 DEF HidTypeOK
<1>4. ReportsOK'
  <2>1. Snapshot(held, mods)' = Snapshot(held, mods)
    BY <1>1 DEF Snapshot
  <2>2. job'.next <= Len(q) + 1
    BY <1>1, <1>2
  <2> QED BY <1>1, <1>2, <2>1, <2>2 DEF ReportsOK
<1>5. Balance'
  <2> SUFFICES ASSUME NEW x \in Keys PROVE Balanced(x)'
    BY DEF Balance
  <2>1. Balanced(x)
    BY DEF Balance
  <2>2. /\ forgot'[x] = forgot[x] /\ Presses(x)' = Presses(x) /\ Excuse(x)' = Excuse(x)
        /\ Ahead(x)' = Ahead(x)
    BY <1>1 DEF Presses, Excuse, Ahead, Seen
  <2>3. Due(x) \in {0, 1} /\ Due(x)' \in {0, 1}
    BY DEF Due
  <2>4. Due(x)' = 1 => Due(x) = 1
    BY <1>1, <1>2 DEF Due
  <2>5. Typed(x)' \in Nat /\ Typed(x)' + Due(x)' <= Typed(x) + Due(x)
    <3>1. CASE typed' = typed
      <4>1. Typed(x)' = Typed(x)
        BY <3>1 DEF Typed
      <4> QED BY <2>3, <2>4, <4>1, Counts
    <3>2. CASE IsNew(k) /\ \E s \in Stroke : s.key = k /\ typed' = Append(typed, s)
      <4>1. PICK s \in Stroke : s.key = k /\ typed' = Append(typed, s)
        BY <3>2
      <4>2. Typed(x) \in Nat /\ Typed(x)' = Typed(x) + (IF k = x THEN 1 ELSE 0)
        BY <4>1, TypedAppend DEF HidTypeOK
      <4>3. CASE k = x
        <5>1. Due(x) = 1
          BY <1>1, <1>2, <3>2, <4>3 DEF Due, IsNew
        <5>2. Once(q)
          BY <1>1, <1>2, <3>2 DEF Whole, IsNew
        <5>3. \A i \in 1..Len(q) : i >= job.next + 1 => q[i] # x
          BY <1>1, <1>2, <4>3, <5>2 DEF Once
        <5>4. Due(x)' = 0
          BY <1>1, <1>2, <5>3 DEF Due
        <5> QED BY <4>2, <4>3, <5>1, <5>4
      <4>4. CASE k # x
        BY <2>3, <2>4, <4>2, <4>4
      <4> QED BY <4>3, <4>4
    <3> QED BY <1>1, <3>1, <3>2
  <2>6. /\ Typed(x) \in Nat /\ Typed(x)' \in Nat /\ Presses(x) \in Nat /\ forgot[x] \in Nat
        /\ Excuse(x) \in Nat /\ Ahead(x) \in Nat
    BY <2>5, Counts DEF Excuse, Ahead
  <2> QED BY <2>1, <2>2, <2>3, <2>5, <2>6 DEF Balanced
<1> QED BY <1>3, <1>4, <1>5

LEMMA EndKeeps ==
  ASSUME PhantomInv, ReportEnd PROVE PhantomInv'
<1> USE DEF PhantomInv
<1> DEFINE q == job.report.keys
<1>1. /\ held' = held /\ mods' = mods /\ want' = want /\ pressed' = pressed /\ caps' = caps
      /\ typed' = typed /\ missed' = missed /\ pending' = pending /\ job' = NoJob
      /\ prev' = Range(q) /\ job.next = Len(q) + 1
      /\ forgot' = [x \in Keys |-> IF x \in prev /\ "rollover" \in Range(q)
                                   THEN forgot[x] + 1 ELSE forgot[x]]
  BY DEF ReportEnd, user, NextPrev
<1>2. job # NoJob
  <2> SUFFICES ASSUME job = NoJob PROVE FALSE
    OBVIOUS
  <2>1. job.next = 0 /\ Len(q) = 1
    BY DEF NoJob, NoReport
  <2> QED BY <1>1, <2>1
<1>3. Len(q) \in Nat
  BY <1>2, JobFacts
<1>4. HidTypeOK'
  <2>1. forgot' \in [Keys -> Nat]
    BY <1>1 DEF HidTypeOK
  <2> QED BY <1>1, <2>1 DEF HidTypeOK
<1>5. ReportsOK'
  <2>1. Snapshot(held, mods)' = Snapshot(held, mods)
    BY <1>1 DEF Snapshot
  <2> QED BY <1>1, <2>1 DEF ReportsOK
<1>6. Balance'
  <2> SUFFICES ASSUME NEW x \in Keys PROVE Balanced(x)'
    BY DEF Balance
  <2>1. Balanced(x)
    BY DEF Balance
  <2>2. Typed(x)' = Typed(x) /\ Presses(x)' = Presses(x)
    BY <1>1 DEF Presses, Typed
  <2>3. Due(x) = 0 /\ Due(x)' = 0 /\ Excuse(x)' = 0
    BY <1>1, <1>3 DEF Due, Excuse
  <2>4. Seen' = Seen
    BY <1>1, <1>2 DEF Seen
  <2>5. Ahead(x)' = Ahead(x)
    BY <1>1, <2>4 DEF Ahead
  <2>6. forgot'[x] = forgot[x] + Excuse(x)
    <3>1. forgot[x] \in Nat
      BY Counts
    <3> QED BY <1>1, <1>2, <3>1 DEF Excuse
  <2>7. Typed(x) \in Nat /\ Presses(x) \in Nat /\ forgot[x] \in Nat /\ Excuse(x) \in Nat /\ Ahead(x) \in Nat
    BY Counts DEF Excuse, Ahead
  <2> QED BY <2>1, <2>2, <2>3, <2>5, <2>6, <2>7 DEF Balanced
<1> QED BY <1>4, <1>5, <1>6

LEMMA PhantomStep == PhantomInv /\ [Next]_vars => PhantomInv'
<1> SUFFICES ASSUME PhantomInv, [Next]_vars PROVE PhantomInv'
  OBVIOUS
<1>1. ASSUME NEW k \in Keys, Press(k) PROVE PhantomInv'
  BY <1>1, PressKeeps
<1>2. ASSUME NEW k \in Keys, Release(k) PROVE PhantomInv'
  BY <1>2, ReleaseKeeps
<1>3. CASE Lose \/ UNCHANGED vars
  BY <1>3, LoseKeeps
<1>4. CASE ReportBegin
  BY <1>4, BeginKeeps
<1>5. CASE ReportKey
  BY <1>5, KeyKeeps
<1>6. CASE ReportEnd
  BY <1>6, EndKeeps
<1> QED BY <1>1, <1>2, <1>3, <1>4, <1>5, <1>6 DEF Next

-----------------------------------------------------------------------------
(* Typed as pressed, one lemma per action.                                 *)

\* A press or a release that makes the next report before the last one was
\* fetched, or one that has no room, is missed; else the keyboard was level.
LEMMA ChangedExact ==
  ASSUME PhantomInv, ExactInv, ~missed', job' = job, prev' = prev, caps' = caps, typed' = typed,
         NEW q \in Seq(Keys \ Mods), Once(q), NEW ms \in SUBSET Mods, Changed(q, ms)
  PROVE  /\ Level /\ Len(q) <= KeySlots /\ JobExact' /\ held' = q
         /\ pending' # NoReport /\ pending'.keys = q /\ pending'.mods = ms
         /\ Seen' = Seen /\ TypedThen' = TypedThen /\ CapsThen' = CapsThen
<1>1. ~missed /\ pending = NoReport /\ ~(Len(q) > KeySlots) /\ held' = q /\ pending' = Snapshot(q, ms)
  BY DEF Changed
<1>2. Len(q) \in Nat /\ Len(q) <= KeySlots
  BY <1>1, SizeAssumption
<1>3. Snapshot(q, ms) \in Report /\ Snapshot(q, ms).keys = q /\ Snapshot(q, ms).mods = ms
  BY <1>2, SnapshotIs
<1>4. pending' # NoReport
  BY <1>1, <1>3, CodesAre
<1>5. Level /\ JobExact
  BY <1>1 DEF ExactInv
<1>6. JobLeft' = JobLeft /\ Seen' = Seen
  BY DEF JobLeft, Seen
<1>7. TypedThen' = TypedThen /\ CapsThen' = CapsThen /\ JobExact'
  BY <1>5, <1>6 DEF TypedThen, CapsThen, JobExact
<1> QED BY <1>1, <1>2, <1>3, <1>4, <1>5, <1>6, <1>7

\* A report without a new key types nothing.
LEMMA NothingNew ==
  ASSUME NEW r, NEW q \in Seq(Keys \ Mods), r.keys = q, NEW a, Range(q) \subseteq a
  PROVE  Follows(a, r) /\ ~IsLast(a, r)
<1>1. \A i \in 1..Len(q) : q[i] \in a
  BY DEF Range
<1>2. ~IsLast(a, r)
  <2> SUFFICES ASSUME q # <<>> PROVE q[Len(q)] \in a
    BY DEF IsLast
  <2>1. Len(q) \in 1..Len(q)
    OBVIOUS
  <2> QED BY <1>1, <2>1
<1>3. Follows(a, r)
  BY <1>1 DEF Follows
<1> QED BY <1>2, <1>3

LEMMA CapsPress ==
  ASSUME pressed \in Seq(Keys), NEW k \in Keys, pressed' = Append(pressed, k)
  PROVE  CapsDown' = IF k = "Caps" THEN ~CapsDown ELSE CapsDown
<1>1. /\ Presses("Caps") \in Nat
      /\ Presses("Caps")' = Presses("Caps") + (IF k = "Caps" THEN 1 ELSE 0)
  BY PressesAppend
<1>2. \A n \in Nat : ((n + 1) % 2 = 1) = ~(n % 2 = 1)
  OBVIOUS
<1>3. CASE k = "Caps"
  <2>1. Presses("Caps")' = Presses("Caps") + 1
    BY <1>1, <1>3
  <2>2. (Presses("Caps")' % 2 = 1) = ~(Presses("Caps") % 2 = 1)
    BY <1>1, <1>2, <2>1
  <2> QED BY <1>3, <2>2 DEF CapsDown
<1>4. CASE k # "Caps"
  <2>1. Presses("Caps")' = Presses("Caps")
    BY <1>1, <1>4
  <2> QED BY <1>4, <2>1 DEF CapsDown
<1> QED BY <1>3, <1>4

LEMMA PressExact ==
  ASSUME PhantomInv, ExactInv, NEW k \in Keys, Press(k) PROVE ExactInv'
<1> SUFFICES ASSUME ~missed' PROVE JobExact' /\ pending' # NoReport /\ OneAhead'
  BY DEF ExactInv
<1>0. /\ job' = job /\ prev' = prev /\ caps' = caps /\ typed' = typed
      /\ pressed' = Append(pressed, k) /\ k \notin Range(held)
      /\ want' = want \o Meaning(k, mods, CapsDown)
  BY DEF Press
<1>1. /\ held \in Seq(Keys \ Mods) /\ Once(held) /\ mods \in SUBSET Mods /\ pressed \in Seq(Keys)
      /\ want \in Seq(Stroke) /\ CapsDown \in BOOLEAN
  BY DEF PhantomInv, HidTypeOK, ReportsOK, CapsDown
<1>2. CapsDown' = IF k = "Caps" THEN ~CapsDown ELSE CapsDown
  BY <1>0, <1>1, CapsPress
<1>3. CASE k \in Mods
  <2>1. Changed(held, mods \cup {k}) /\ mods \cup {k} \in SUBSET Mods
    BY <1>1, <1>3 DEF Press
  <2>2. /\ Level /\ Len(held) <= KeySlots /\ JobExact' /\ held' = held
        /\ pending' # NoReport /\ pending'.keys = held
        /\ Seen' = Seen /\ TypedThen' = TypedThen /\ CapsThen' = CapsThen
    BY <1>0, <1>1, <2>1, ChangedExact
  <2>3. Range(held) \subseteq Seen /\ want = TypedThen /\ CapsDown = CapsThen
    BY <2>2 DEF Level
  <2>4. /\ Follows(Seen, pending') /\ Out(Seen, pending', CapsThen) = <<>>
        /\ Toggle(Seen, pending', CapsThen) = CapsThen
    <3>1. Follows(Seen, pending') /\ ~IsLast(Seen, pending')
      BY <1>1, <2>2, <2>3, NothingNew
    <3> QED BY <3>1 DEF Out, Toggle
  <2>5. want' = want /\ want \o <<>> = want
    BY <1>0, <1>1, <1>3, PushesMeaning
  <2>6. CapsDown' = CapsDown
    BY <1>2, <1>3 DEF Mods
  <2> QED BY <2>2, <2>3, <2>4, <2>5, <2>6 DEF OneAhead
<1>4. CASE k \notin Mods
  <2> DEFINE q == Append(held, k)
  <2>0. k \in Keys \ Mods
    BY <1>4
  <2>1. q \in Seq(Keys \ Mods) /\ Once(q)
    BY <1>0, <1>1, <2>0, AppendOnce
  <2>2. Changed(q, mods)
    BY <1>4 DEF Press
  <2>3. /\ Len(held) \in Nat /\ Len(q) = Len(held) + 1 /\ q[Len(q)] = k /\ q # <<>>
        /\ \A i \in 1..Len(held) : q[i] \in Range(held)
    BY <1>1, <2>0 DEF Range
  <2> HIDE DEF q
  <2>4. /\ Level /\ Len(q) <= KeySlots /\ JobExact' /\ held' = q
        /\ pending' # NoReport /\ pending'.keys = q /\ pending'.mods = mods
        /\ Seen' = Seen /\ TypedThen' = TypedThen /\ CapsThen' = CapsThen
    BY <1>0, <1>1, <2>1, <2>2, ChangedExact
  <2>5. Range(held) = Seen /\ want = TypedThen /\ CapsDown = CapsThen
    BY <2>4 DEF Level
  <2>6. Follows(Seen, pending') /\ IsLast(Seen, pending')
    BY <1>0, <2>3, <2>4, <2>5 DEF Follows, IsLast
  <2>7. Out(Seen, pending', CapsThen) = Meaning(k, mods, CapsDown)
    <3>1. Out(Seen, pending', CapsThen) = Pushes(k, mods, CapsDown)
      BY <2>3, <2>4, <2>5, <2>6 DEF Out
    <3> QED BY <1>1, <1>4, <3>1, PushesMeaning
  <2>8. Toggle(Seen, pending', CapsThen) = IF k = "Caps" THEN ~CapsDown ELSE CapsDown
    BY <2>3, <2>4, <2>5, <2>6 DEF Toggle
  <2>9. want' = TypedThen' \o Out(Seen', pending', CapsThen')
    BY <1>0, <2>4, <2>5, <2>7
  <2>10. CapsDown' = Toggle(Seen', pending', CapsThen')
    BY <1>2, <2>4, <2>8
  <2> QED BY <2>4, <2>6, <2>9, <2>10 DEF OneAhead
<1> QED BY <1>3, <1>4

LEMMA ReleaseExact ==
  ASSUME PhantomInv, ExactInv, NEW k \in Keys, Release(k) PROVE ExactInv'
<1> SUFFICES ASSUME ~missed' PROVE JobExact' /\ pending' # NoReport /\ OneAhead'
  BY DEF ExactInv
<1>0. /\ job' = job /\ prev' = prev /\ caps' = caps /\ typed' = typed /\ pressed' = pressed
      /\ want' = want
  BY DEF Release
<1>1. /\ held \in Seq(Keys \ Mods) /\ Once(held) /\ mods \in SUBSET Mods /\ want \in Seq(Stroke)
  BY DEF PhantomInv, HidTypeOK, ReportsOK
<1>2. PICK q \in Seq(Keys \ Mods), ms \in SUBSET Mods :
         Changed(q, ms) /\ Once(q) /\ Range(q) \subseteq Range(held)
  <2>1. CASE Changed(held, mods \ {k})
    BY <1>1, <2>1
  <2>2. CASE \E i \in DOMAIN held : held[i] = k /\ Changed(RemoveAt(held, i), mods)
    <3>1. PICK i \in DOMAIN held : Changed(RemoveAt(held, i), mods)
      BY <2>2
    <3>2. /\ RemoveAt(held, i) \in Seq(Keys \ Mods) /\ Once(RemoveAt(held, i))
          /\ Range(RemoveAt(held, i)) \subseteq Range(held)
      BY <1>1, RemoveOnce
    <3> QED BY <1>1, <3>1, <3>2
  <2> QED BY <2>1, <2>2 DEF Release
<1>3. /\ Level /\ Len(q) <= KeySlots /\ JobExact' /\ held' = q
      /\ pending' # NoReport /\ pending'.keys = q
      /\ Seen' = Seen /\ TypedThen' = TypedThen /\ CapsThen' = CapsThen
  BY <1>0, <1>2, ChangedExact
<1>4. Range(q) \subseteq Seen /\ want = TypedThen /\ CapsDown = CapsThen
  BY <1>2, <1>3 DEF Level
<1>5. /\ Follows(Seen, pending') /\ Out(Seen, pending', CapsThen) = <<>>
      /\ Toggle(Seen, pending', CapsThen) = CapsThen
  <2>1. Follows(Seen, pending') /\ ~IsLast(Seen, pending')
    BY <1>2, <1>3, <1>4, NothingNew
  <2> QED BY <2>1 DEF Out, Toggle
<1>6. want \o <<>> = want
  BY <1>1
<1>7. CapsDown' = CapsDown
  BY <1>0 DEF CapsDown, Presses
<1> QED BY <1>0, <1>3, <1>4, <1>5, <1>6, <1>7 DEF OneAhead

LEMMA BeginExact ==
  ASSUME PhantomInv, ExactInv, ReportBegin PROVE ExactInv'
<1>0. /\ held' = held /\ want' = want /\ pressed' = pressed /\ prev' = prev
      /\ caps' = caps /\ typed' = typed /\ missed' = missed /\ pending' = NoReport /\ job = NoJob
      /\ pending # NoReport /\ job' = [report |-> pending, caps |-> caps, next |-> 1]
  BY DEF ReportBegin, user
<1> SUFFICES ASSUME ~missed PROVE JobExact' /\ Level'
  BY <1>0 DEF ExactInv
<1>1. OneAhead
  BY <1>0 DEF ExactInv
<1>2. Seen = prev /\ TypedThen = typed /\ CapsThen = caps
  BY <1>0 DEF Seen, TypedThen, CapsThen, JobLeft
<1>3. /\ Follows(prev, pending) /\ Len(held) <= KeySlots
      /\ want = typed \o Out(prev, pending, caps) /\ CapsDown = Toggle(prev, pending, caps)
  BY <1>1, <1>2 DEF OneAhead
<1>4. pending \in Report /\ pending.keys = held /\ held \in Seq(Keys \ Mods) /\ typed \in Seq(Stroke)
  <2>1. held \in Seq(Keys \ Mods) /\ mods \in SUBSET Mods /\ Once(held) /\ typed \in Seq(Stroke)
        /\ pending = Snapshot(held, mods)
    BY <1>0 DEF PhantomInv, HidTypeOK, ReportsOK
  <2> QED BY <1>3, <2>1, SnapshotIs
<1>5. job' # NoJob /\ job'.report = pending /\ job'.caps = caps /\ job'.next = 1
  BY <1>0 DEF NoJob
<1>6. Plain(pending)
  BY <1>4, CodesAre DEF Plain
<1>7. JobExact'
  <2>1. job' # NoJob => Follows(prev', job'.report) /\ Plain(job'.report)
    BY <1>0, <1>3, <1>5, <1>6
  <2>2. caps' = job'.caps
    BY <1>0, <1>5
  <2> QED BY <2>1, <2>2 DEF JobExact
<1>8. Seen' = Range(held')
  BY <1>0, <1>4, <1>5 DEF Seen
<1>9. CapsDown' = CapsDown
  BY <1>0 DEF CapsDown, Presses
<1>10. CASE JobLeft'
  <2>1. TypedThen' = typed \o Out(prev, pending, caps) /\ CapsThen' = Toggle(prev, pending, caps)
    BY <1>0, <1>5, <1>10 DEF TypedThen, CapsThen
  <2> QED BY <1>0, <1>3, <1>7, <1>8, <1>9, <2>1 DEF Level
<1>11. CASE ~JobLeft'
  <2>1. ~(1 <= Len(held))
    BY <1>4, <1>5, <1>11 DEF JobLeft
  <2>2. held = <<>>
    BY <1>4, <2>1
  <2>3. ~IsLast(prev, pending)
    BY <1>4, <2>2 DEF IsLast
  <2>4. Out(prev, pending, caps) = <<>> /\ Toggle(prev, pending, caps) = caps
    BY <2>3 DEF Out, Toggle
  <2>5. TypedThen' = typed /\ CapsThen' = caps
    BY <1>0, <1>11 DEF TypedThen, CapsThen
  <2>6. typed \o <<>> = typed
    BY <1>4
  <2> QED BY <1>0, <1>3, <1>7, <1>8, <1>9, <2>4, <2>5, <2>6 DEF Level
<1> QED BY <1>10, <1>11

\* A step of the handler that leaves the end of its report as it was
\* leaves the relation to the keyboard.
LEMMA SameEnd ==
  ASSUME ExactInv, ~missed, missed' = missed, held' = held, want' = want, pressed' = pressed,
         pending' = pending, Seen' = Seen, TypedThen' = TypedThen, CapsThen' = CapsThen, JobExact'
  PROVE  ExactInv'
<1>1. CapsDown' = CapsDown
  BY DEF CapsDown, Presses
<1>2. CASE pending = NoReport
  <2>1. Level
    BY <1>2 DEF ExactInv
  <2>2. Level'
    BY <1>1, <2>1 DEF Level
  <2> QED BY <1>2, <2>2 DEF ExactInv
<1>3. CASE pending # NoReport
  <2>1. OneAhead
    BY <1>3 DEF ExactInv
  <2>2. OneAhead'
    BY <1>1, <2>1 DEF OneAhead
  <2> QED BY <1>3, <2>2 DEF ExactInv
<1> QED BY <1>2, <1>3

LEMMA KeyExact ==
  ASSUME PhantomInv, ExactInv, ReportKey PROVE ExactInv'
<1> DEFINE k == job.report.keys[job.next]
           q == job.report.keys
<1>1. /\ job # NoJob /\ job.next \in 1..Len(q)
      /\ job' # NoJob /\ job'.report = job.report /\ job'.caps = job.caps
      /\ job'.next = job.next + 1
      /\ held' = held /\ want' = want /\ pressed' = pressed /\ prev' = prev
      /\ missed' = missed /\ pending' = pending
      /\ typed' = IF IsNew(k) THEN typed \o Pushes(k, job.report.mods, job.caps) ELSE typed
      /\ caps' = IF IsNew(k) /\ k = "Caps" THEN ~job.caps ELSE caps
  BY KeyFacts DEF PhantomInv
<1> SUFFICES ASSUME ~missed PROVE ExactInv'
  BY <1>1 DEF ExactInv
<1>2. Len(q) \in Nat /\ job.next \in Nat /\ typed \in Seq(Stroke) /\ q # <<>>
  BY <1>1, JobFacts DEF PhantomInv, HidTypeOK
<1>3. Follows(prev, job.report) /\ Plain(job.report) /\ JobLeft /\ caps = job.caps
  BY <1>1, <1>2 DEF ExactInv, JobExact, JobLeft
<1>4. Seen' = Seen
  BY <1>1 DEF Seen
<1>5. TypedThen = typed \o Out(prev, job.report, job.caps) /\ CapsThen = Toggle(prev, job.report, job.caps)
  BY <1>3 DEF TypedThen, CapsThen
<1>6. IsNew(k) <=> k \notin prev
  BY <1>1, <1>3 DEF IsNew, Plain
<1>7. CASE job.next < Len(q)
  <2>1. ~IsNew(k)
    BY <1>1, <1>2, <1>3, <1>6, <1>7 DEF Follows
  <2>2. typed' = typed /\ caps' = caps
    BY <1>1, <2>1
  <2>3. JobLeft'
    BY <1>1, <1>2, <1>7 DEF JobLeft
  <2>4. TypedThen' = TypedThen /\ CapsThen' = CapsThen
    BY <1>1, <1>5, <2>2, <2>3 DEF TypedThen, CapsThen
  <2>5. JobExact'
    BY <1>1, <1>3, <2>2 DEF JobExact
  <2> QED BY <1>1, <1>4, <2>4, <2>5, SameEnd
<1>8. CASE job.next = Len(q)
  <2>1. ~JobLeft'
    BY <1>1, <1>2, <1>8 DEF JobLeft
  <2>2. TypedThen' = typed' /\ CapsThen' = caps'
    BY <2>1 DEF TypedThen, CapsThen
  <2>3. IsLast(prev, job.report) <=> IsNew(k)
    BY <1>2, <1>6, <1>8 DEF IsLast
  <2>4. typed' = TypedThen
    <3>1. CASE IsNew(k)
      BY <1>1, <1>5, <1>8, <2>3, <3>1 DEF Out
    <3>2. CASE ~IsNew(k)
      <4>1. Out(prev, job.report, job.caps) = <<>>
        BY <2>3, <3>2 DEF Out
      <4>2. typed \o <<>> = typed
        BY <1>2
      <4> QED BY <1>1, <1>5, <3>2, <4>1, <4>2
    <3> QED BY <3>1, <3>2
  <2>5. caps' = CapsThen
    <3>1. CASE IsNew(k) /\ k = "Caps"
      BY <1>1, <1>5, <1>8, <2>3, <3>1 DEF Toggle
    <3>2. CASE ~(IsNew(k) /\ k = "Caps")
      <4>1. Toggle(prev, job.report, job.caps) = job.caps
        BY <1>8, <2>3, <3>2 DEF Toggle
      <4> QED BY <1>1, <1>3, <1>5, <3>2, <4>1
    <3> QED BY <3>1, <3>2
  <2>6. JobExact'
    BY <1>1, <1>3, <2>1 DEF JobExact
  <2> QED BY <1>1, <1>4, <2>2, <2>4, <2>5, <2>6, SameEnd
<1> QED BY <1>1, <1>2, <1>7, <1>8

LEMMA EndExact ==
  ASSUME PhantomInv, ExactInv, ReportEnd PROVE ExactInv'
<1> DEFINE q == job.report.keys
<1>1. /\ held' = held /\ want' = want /\ pressed' = pressed /\ caps' = caps
      /\ typed' = typed /\ missed' = missed /\ pending' = pending /\ job' = NoJob
      /\ prev' = Range(q) /\ job.next = Len(q) + 1
  BY DEF ReportEnd, user, NextPrev
<1> SUFFICES ASSUME ~missed PROVE ExactInv'
  BY <1>1 DEF ExactInv
<1>2. job # NoJob
  <2> SUFFICES ASSUME job = NoJob PROVE FALSE
    OBVIOUS
  <2>1. job.next = 0 /\ Len(q) = 1
    BY DEF NoJob, NoReport
  <2> QED BY <1>1, <2>1
<1>3. Len(q) \in Nat
  BY <1>2, JobFacts DEF PhantomInv
<1>4. ~JobLeft /\ ~JobLeft'
  BY <1>1, <1>3 DEF JobLeft
<1>5. TypedThen' = TypedThen /\ CapsThen' = CapsThen
  BY <1>1, <1>4 DEF TypedThen, CapsThen
<1>6. Seen' = Seen
  BY <1>1, <1>2 DEF Seen
<1>7. JobExact'
  BY <1>1, <1>4 DEF JobExact
<1> QED BY <1>1, <1>5, <1>6, <1>7, SameEnd

LEMMA StutterExact ==
  ASSUME ExactInv, UNCHANGED vars PROVE ExactInv'
<1>0. /\ held' = held /\ want' = want /\ pressed' = pressed /\ caps' = caps /\ prev' = prev
      /\ typed' = typed /\ missed' = missed /\ pending' = pending /\ job' = job
  BY DEF vars, user
<1> SUFFICES ASSUME ~missed PROVE ExactInv'
  BY <1>0 DEF ExactInv
<1>1. JobLeft' = JobLeft
  BY <1>0 DEF JobLeft
<1>2. TypedThen' = TypedThen /\ CapsThen' = CapsThen /\ Seen' = Seen
  BY <1>0, <1>1 DEF TypedThen, CapsThen, Seen
<1>3. JobExact'
  BY <1>0, <1>1 DEF JobExact, ExactInv
<1> QED BY <1>0, <1>2, <1>3, SameEnd

LEMMA ExactStep == PhantomInv /\ ExactInv /\ [Next]_vars => ExactInv'
<1> SUFFICES ASSUME PhantomInv, ExactInv, [Next]_vars PROVE ExactInv'
  OBVIOUS
<1>1. ASSUME NEW k \in Keys, Press(k) PROVE ExactInv'
  BY <1>1, PressExact
<1>2. ASSUME NEW k \in Keys, Release(k) PROVE ExactInv'
  BY <1>2, ReleaseExact
<1>3. CASE Lose
  BY <1>3 DEF Lose, ExactInv
<1>4. CASE ReportBegin
  BY <1>4, BeginExact
<1>5. CASE ReportKey
  BY <1>5, KeyExact
<1>6. CASE ReportEnd
  BY <1>6, EndExact
<1>7. CASE UNCHANGED vars
  BY <1>7, StutterExact
<1> QED BY <1>1, <1>2, <1>3, <1>4, <1>5, <1>6, <1>7 DEF Next

LEMMA ExactInit == Init => ExactInv
<1> SUFFICES ASSUME Init PROVE JobExact /\ pending = NoReport /\ Level
  BY DEF ExactInv
<1>1. job = NoJob /\ pending = NoReport /\ ~JobLeft
  BY DEF Init, JobLeft
<1>2. Seen = Range(held)
  BY <1>1 DEF Init, Seen, Range
<1>3. want = TypedThen
  BY <1>1 DEF Init, TypedThen
<1>4. CapsDown = CapsThen
  <2>1. Presses("Caps") = 0
    BY FS_EmptySet DEF Init, Presses
  <2>2. CapsDown = FALSE
    BY <2>1 DEF CapsDown
  <2> QED BY <1>1, <2>2 DEF Init, CapsThen
<1> QED BY <1>1, <1>2, <1>3, <1>4 DEF JobExact, Level

\* What a report of held keys types is a sequence of keystrokes.
LEMMA OutType ==
  ASSUME NEW r \in Report, Plain(r), NEW c \in BOOLEAN, NEW a
  PROVE  Out(a, r, c) \in Seq(Stroke) /\ Toggle(a, r, c) \in BOOLEAN
<1>1. Toggle(a, r, c) \in BOOLEAN
  BY DEF Toggle
<1>2. <<>> \in Seq(Stroke) /\ \A s \in Stroke : <<s>> \in Seq(Stroke)
  OBVIOUS
<1>3. CASE IsLast(a, r)
  <2> DEFINE k == r.keys[Len(r.keys)]
  <2>1. r.keys \in Seq(Codes) /\ r.keys # <<>> /\ r.mods \in SUBSET Mods
    BY <1>3 DEF IsLast, Report
  <2>2. Len(r.keys) \in 1..Len(r.keys)
    BY <2>1
  <2>3. k \in Codes /\ k # "rollover"
    BY <2>1, <2>2 DEF Plain
  <2>4. k \in Keys /\ k \notin Mods
    BY <2>3 DEF Codes
  <2>5. Out(a, r, c) = Pushes(k, r.mods, c)
    BY <1>3 DEF Out
  <2> HIDE DEF k
  <2>6. Pushes(k, r.mods, c) = <<>> \/ \E s \in Stroke : Pushes(k, r.mods, c) = <<s>>
    BY <2>1, <2>4, PushesMeaning, Zenon
  <2>7. Out(a, r, c) \in Seq(Stroke)
    BY <1>2, <2>5, <2>6, Zenon
  <2> QED BY <1>1, <2>7
<1>4. CASE ~IsLast(a, r)
  BY <1>1, <1>2, <1>4 DEF Out
<1> QED BY <1>3, <1>4

LEMMA PrefixOfConcat ==
  ASSUME NEW S, NEW u \in Seq(S), NEW v \in Seq(S)
  PROVE  IsPrefix(u, u \o v)
<1>1. Len(u) \in Nat /\ Len(v) \in Nat /\ u \o v \in Seq(S) /\ Len(u \o v) = Len(u) + Len(v)
      /\ \A i \in 1..Len(u) : (u \o v)[i] = u[i]
  OBVIOUS
<1> DEFINE w == u \o v
<1> HIDE DEF w
<1>2. Len(u) <= Len(w)
  BY <1>1 DEF w
<1>3. SubSeq(u, 1, Len(u)) = SubSeq(w, 1, Len(u))
  <2>1. w \in Seq(S) /\ Len(w) \in Nat /\ \A i \in 1..Len(u) : w[i] = u[i]
    BY <1>1 DEF w
  <2> QED BY <1>1, <1>2, <2>1
<1> QED BY <1>2, <1>3 DEF IsPrefix, w

LEMMA ExactTyped == PhantomInv /\ ExactInv => TypedAsPressed
<1> SUFFICES ASSUME PhantomInv, ExactInv, ~missed
             PROVE  /\ IsPrefix(typed, want)
                    /\ pending = NoReport /\ job = NoJob => typed = want
  BY DEF TypedAsPressed
<1>1. typed \in Seq(Stroke) /\ caps \in BOOLEAN
  BY DEF PhantomInv, HidTypeOK
<1>2. PICK u \in Seq(Stroke) : TypedThen = typed \o u /\ CapsThen \in BOOLEAN
  <2>1. CASE JobLeft
    <3>1. job.report \in Report /\ job.caps \in BOOLEAN /\ Plain(job.report)
      BY <2>1, JobFacts DEF JobLeft, ExactInv, JobExact, PhantomInv
    <3>2. /\ Out(prev, job.report, job.caps) \in Seq(Stroke)
          /\ Toggle(prev, job.report, job.caps) \in BOOLEAN
      BY <3>1, OutType
    <3> QED BY <2>1, <3>2 DEF TypedThen, CapsThen
  <2>2. CASE ~JobLeft
    <3>1. <<>> \in Seq(Stroke) /\ typed \o <<>> = typed
      BY <1>1
    <3>2. TypedThen = typed /\ CapsThen = caps
      BY <2>2 DEF TypedThen, CapsThen
    <3> QED BY <1>1, <3>1, <3>2
  <2> QED BY <2>1, <2>2
<1>3. CASE pending = NoReport
  <2>1. want = TypedThen
    BY <1>3 DEF ExactInv, Level
  <2>2. IsPrefix(typed, want)
    BY <1>1, <1>2, <2>1, PrefixOfConcat
  <2>3. job = NoJob => typed = want
    BY <2>1 DEF TypedThen, JobLeft
  <2> QED BY <2>2, <2>3
<1>4. CASE pending # NoReport
  <2>1. OneAhead
    BY <1>4 DEF ExactInv
  <2>2. pending \in Report /\ Plain(pending)
    <3>1. /\ held \in Seq(Keys \ Mods) /\ mods \in SUBSET Mods /\ Once(held)
          /\ pending = Snapshot(held, mods)
      BY <1>4 DEF PhantomInv, HidTypeOK, ReportsOK
    <3>2. pending \in Report /\ pending.keys = held
      BY <2>1, <3>1, SnapshotIs DEF OneAhead
    <3> QED BY <3>1, <3>2, CodesAre DEF Plain
  <2> DEFINE v == Out(Seen, pending, CapsThen)
  <2>3. v \in Seq(Stroke)
    BY <1>2, <2>2, OutType
  <2>4. want = TypedThen \o v
    BY <2>1 DEF OneAhead
  <2> HIDE DEF v
  <2>5. want = typed \o (u \o v) /\ u \o v \in Seq(Stroke)
    BY <1>1, <1>2, <2>3, <2>4
  <2> QED BY <1>1, <1>4, <2>5, PrefixOfConcat
<1> QED BY <1>3, <1>4

-----------------------------------------------------------------------------
(* The theorems.                                                           *)

\* The handler always finishes a report where its keys end, its report is of
\* keys held once each or of rollover codes, and the presses that are typed
\* or still to be typed never exceed those made.
THEOREM HidInvariant == Spec => []PhantomInv
<1> QED BY HidInit, PhantomStep, PTL DEF Spec

\* process_hid_report: however many reports are lost or replaced, no key is
\* typed more often than it was pressed, but once more for each rollover
\* report that came while it was held in HID_PREV.
THEOREM NoPhantoms == Spec => []NoPhantomKeys
<1>1. PhantomInv => NoPhantomKeys
  <2> SUFFICES ASSUME PhantomInv, NEW k \in Keys PROVE Typed(k) <= Presses(k) + forgot[k]
    BY DEF NoPhantomKeys
  <2>1. Balanced(k) /\ Typed(k) \in Nat /\ Presses(k) \in Nat /\ forgot[k] \in Nat /\ Due(k) \in Nat
    BY Counts DEF PhantomInv, Balance, Due
  <2> QED BY <2>1 DEF Balanced
<1> QED BY <1>1, HidInvariant, PTL

\* process_hid_report: when every report is fetched and had room, what is
\* typed is what the presses mean, once each, in order and in the right case.
THEOREM HidTypedAsPressed == Spec => []TypedAsPressed
<1>1. Spec => []ExactInv
  BY HidInvariant, ExactInit, ExactStep, PTL DEF Spec
<1> QED BY <1>1, HidInvariant, ExactTyped, PTL
=============================================================================
