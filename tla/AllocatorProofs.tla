-------------------------- MODULE AllocatorProofs ---------------------------
(***************************************************************************)
(* Proofs about the kernel heap: where the slab blocks lie, the inductive  *)
(* invariant of the free lists and of the blocks callers hold, and that    *)
(* the heap implements Heap.                                               *)
(***************************************************************************)
EXTENDS Allocator, Integers, WellFoundedInduction, FiniteSetTheorems, SequenceTheorems, TLAPS

-----------------------------------------------------------------------------
(* Numbers.                                                                *)

\* Every set of naturals that is not empty has a least element.
LEMMA LeastElement ==
  ASSUME NEW S \in SUBSET Nat, S # {}
  PROVE  \E m \in S : \A k \in S : m <= k
<1> DEFINE R == OpToRel(<, Nat)
<1>1. IsWellFoundedOn(R, Nat)
  BY NatLessThanWellFounded
<1>2. \A x, y \in Nat : y < x => <<y, x>> \in R
  BY DEF OpToRel
<1> HIDE DEF R
<1>3. PICK m \in S : \A y \in S : ~ (<<y, m>> \in R)
  BY <1>1, WFMin
<1>4. ASSUME NEW k \in S PROVE m <= k
  <2>1. m \in Nat /\ k \in Nat /\ ~ (k < m)
    BY <1>2, <1>3
  <2> QED BY <2>1
<1> QED BY <1>4

\* A set of naturals that holds 0 and every successor holds all.
LEMMA SetInduction ==
  ASSUME NEW S \in SUBSET Nat, 0 \in S, \A n \in S : n + 1 \in S
  PROVE  S = Nat
<1> SUFFICES ASSUME Nat \ S # {} PROVE FALSE
  OBVIOUS
<1>1. PICK m \in Nat \ S : \A k \in Nat \ S : m <= k
  BY LeastElement
<1>2. m # 0 /\ m - 1 \in Nat /\ m - 1 \in S
  BY <1>1
<1> QED BY <1>1, <1>2

\* Division with remainder.
LEMMA DivMod ==
  ASSUME NEW n \in Nat, NEW c \in Nat \ {0}
  PROVE  /\ n % c \in 0..c-1 /\ n \div c \in Nat
         /\ n = (c * (n \div c)) + (n % c)
OBVIOUS

\* The remainder is the only one in its range.
LEMMA ModUnique ==
  ASSUME NEW c \in Nat \ {0}, NEW q \in Nat, NEW r \in 0..c-1
  PROVE  ((c * q) + r) % c = r
OBVIOUS

\* Multiples of s are s apart.
LEMMA MultiplesApart ==
  ASSUME NEW s \in Nat, NEW i \in Nat, NEW j \in Nat, i < j
  PROVE  i * s \in Nat /\ j * s \in Nat /\ (i * s) + s <= j * s
<1>1. j - i - 1 \in Nat /\ j = i + 1 + (j - i - 1)
  OBVIOUS
<1> DEFINE k == j - i - 1
<1>2. k * s \in Nat /\ i * s \in Nat /\ j * s \in Nat
  BY <1>1
<1>3. j * s = (i * s) + s + (k * s)
  <2> HIDE DEF k
  <2> QED BY <1>1 DEF k
<1> HIDE DEF k
<1> QED BY <1>2, <1>3

\* Remainder 0 means a multiple.
LEMMA Divides ==
  ASSUME NEW x \in Nat, NEW n \in Nat \ {0}
  PROVE  x % n = 0 <=> \E q \in Nat : x = n * q
<1>1. ASSUME x % n = 0 PROVE \E q \in Nat : x = n * q
  <2>1. x \div n \in Nat /\ x = (n * (x \div n)) + (x % n)
    BY DivMod
  <2>2. n * (x \div n) \in Nat
    BY <2>1
  <2> QED BY <1>1, <2>1, <2>2
<1>2. ASSUME NEW q \in Nat, x = n * q PROVE x % n = 0
  <2>1. ((n * q) + 0) % n = 0
    BY ModUnique
  <2>2. n * q \in Nat
    OBVIOUS
  <2> QED BY <1>2, <2>1, <2>2
<1> QED BY <1>1, <1>2

\* Sums of multiples are multiples.
LEMMA DividesSum ==
  ASSUME NEW x \in Nat, NEW y \in Nat, NEW n \in Nat \ {0}, x % n = 0, y % n = 0
  PROVE  (x + y) % n = 0
<1>1. PICK a \in Nat : x = n * a
  BY Divides
<1>2. PICK b \in Nat : y = n * b
  BY Divides
<1>3. x + y = n * (a + b) /\ a + b \in Nat /\ x + y \in Nat
  BY <1>1, <1>2
<1> QED BY <1>3, Divides

\* A multiple of a multiple is a multiple.
LEMMA DividesMultiple ==
  ASSUME NEW x \in Nat, NEW s \in Nat \ {0}, NEW n \in Nat \ {0}, x % s = 0, s % n = 0
  PROVE  x % n = 0
<1>1. PICK a \in Nat : x = s * a
  BY Divides
<1>2. PICK b \in Nat : s = n * b
  BY Divides
<1>3. b * a \in Nat /\ x = n * (b * a)
  BY <1>1, <1>2
<1> QED BY <1>3, Divides

\* A sum over the positions before each position exists as a function.
LEMMA RunningSum ==
  ASSUME NEW L \in Nat, NEW g \in [1..L -> Nat]
  PROVE  \E f \in [1..L+1 -> Nat] : f[1] = 0 /\ \A c \in 2..L+1 : f[c] = f[c-1] + g[c-1]
<1> DEFINE Good(n) == \E f \in [1..n+1 -> Nat] :
                        f[1] = 0 /\ \A c \in 2..n+1 : f[c] = f[c-1] + g[c-1]
           S == {n \in Nat : n <= L => Good(n)}
<1>1. Good(0)
  <2> DEFINE f == [c \in 1..0+1 |-> 0]
  <2>1. f \in [1..0+1 -> Nat] /\ f[1] = 0 /\ \A c \in 2..0+1 : f[c] = f[c-1] + g[c-1]
    OBVIOUS
  <2> HIDE DEF f
  <2> QED BY <2>1
<1>2. ASSUME NEW n \in Nat, n + 1 <= L, Good(n) PROVE Good(n + 1)
  <2>1. PICK f \in [1..n+1 -> Nat] : f[1] = 0 /\ \A c \in 2..n+1 : f[c] = f[c-1] + g[c-1]
    BY <1>2
  <2> DEFINE h == [c \in 1..(n+1)+1 |-> IF c = n + 2 THEN f[n+1] + g[n+1] ELSE f[c]]
  <2>2. f[n+1] \in Nat /\ g[n+1] \in Nat
    BY <1>2
  <2>3. h \in [1..(n+1)+1 -> Nat] /\ h[1] = 0
    BY <2>1, <2>2
  <2>4. ASSUME NEW c \in 2..(n+1)+1 PROVE h[c] = h[c-1] + g[c-1]
    <3>1. CASE c = n + 2
      BY <3>1
    <3>2. CASE c # n + 2
      <4>1. c \in 2..n+1 /\ c - 1 \in 1..n+1 /\ c - 1 # n + 2
        BY <3>2
      <4>2. h[c] = f[c] /\ h[c-1] = f[c-1]
        BY <3>2, <4>1
      <4> QED BY <2>1, <4>1, <4>2
    <3> QED BY <3>1, <3>2
  <2> HIDE DEF h
  <2> QED BY <2>3, <2>4
<1>3. S = Nat
  <2>1. 0 \in S
    BY <1>1
  <2>2. ASSUME NEW n \in S PROVE n + 1 \in S
    <3>1. n \in Nat /\ (n <= L => Good(n))
      OBVIOUS
    <3> HIDE DEF Good
    <3>2. n + 1 <= L => Good(n + 1)
      BY <1>2, <3>1
    <3> QED BY <3>1, <3>2
  <2>3. S \in SUBSET Nat
    OBVIOUS
  <2> HIDE DEF S
  <2> QED BY <2>1, <2>2, <2>3, SetInduction
<1>4. L \in S
  BY <1>3
<1>5. Good(L)
  <2> HIDE DEF Good
  <2> QED BY <1>4
<1> QED BY <1>5

-----------------------------------------------------------------------------

-----------------------------------------------------------------------------
(* Where the blocks of a class lie.                                        *)

\* The recursive definition of Offset has a solution, so Offset is one.
LEMMA OffsetFacts ==
  /\ Len(SLAB_SIZES) \in Nat
  /\ \A c \in Classes : SLAB_SIZES[c] \in Nat \ {0}
  /\ OBJECTS_PER_CLASS \in Nat \ {0}
  /\ \A c \in Classes : SLAB_SIZES[c] * OBJECTS_PER_CLASS \in Nat
  /\ Offset \in [1..Len(SLAB_SIZES)+1 -> Nat]
  /\ Offset[1] = 0
  /\ \A c \in Classes : Offset[c + 1] = Offset[c] + SLAB_SIZES[c] * OBJECTS_PER_CLASS
<1> DEFINE L == Len(SLAB_SIZES)
           D == 1..Len(SLAB_SIZES)+1
           g == [c \in 1..L |-> SLAB_SIZES[c] * OBJECTS_PER_CLASS]
           Def(f) == [c \in D |-> IF c = 1 THEN 0
                                  ELSE f[c - 1] + SLAB_SIZES[c - 1] * OBJECTS_PER_CLASS]
<1>1. /\ L \in Nat /\ OBJECTS_PER_CLASS \in Nat \ {0}
      /\ \A c \in Classes : SLAB_SIZES[c] \in Nat \ {0}
  BY SizesAssumption DEF Classes
<1>2. \A c \in Classes : SLAB_SIZES[c] * OBJECTS_PER_CLASS \in Nat
  BY <1>1
<1>3. g \in [1..L -> Nat]
  BY <1>2 DEF Classes
<1>4. PICK f \in [1..L+1 -> Nat] : f[1] = 0 /\ \A c \in 2..L+1 : f[c] = f[c-1] + g[c-1]
  <2> HIDE DEF g, L
  <2> QED BY <1>1, <1>3, RunningSum
<1>5. \A c \in 2..L+1 : c - 1 \in 1..L /\ g[c-1] = SLAB_SIZES[c-1] * OBJECTS_PER_CLASS
  BY <1>1
<1>6. f = Def(f)
  <2>1. ASSUME NEW c \in D
        PROVE  f[c] = IF c = 1 THEN 0 ELSE f[c - 1] + SLAB_SIZES[c - 1] * OBJECTS_PER_CLASS
    <3>1. c = 1 \/ c \in 2..L+1
      BY <1>1
    <3> HIDE DEF g, L
    <3> QED BY <1>4, <1>5, <3>1
  <2> QED BY <2>1, <1>4
<1>7. Offset = Def(Offset)
  <2>1. Offset = CHOOSE h : h = Def(h)
    BY DEF Offset
  <2> HIDE DEF Def
  <2> QED BY <1>6, <2>1
<1>8. \A c \in D : Offset[c] = IF c = 1 THEN 0
                               ELSE Offset[c - 1] + SLAB_SIZES[c - 1] * OBJECTS_PER_CLASS
  BY <1>7, Zenon
<1>9. Offset[1] = 0 /\ DOMAIN Offset = D
  <2>1. 1 \in D
    BY <1>1
  <2> QED BY <1>7, <1>8, <2>1
<1>10. ASSUME NEW c \in Classes
       PROVE  Offset[c + 1] = Offset[c] + SLAB_SIZES[c] * OBJECTS_PER_CLASS
  <2>1. c + 1 \in D /\ c + 1 # 1 /\ (c + 1) - 1 = c
    BY <1>1 DEF Classes
  <2> HIDE DEF D
  <2> QED BY <1>8, <2>1
<1>11. \A c \in D : Offset[c] \in Nat
  <2> DEFINE S == {n \in Nat : n + 1 \in D => Offset[n + 1] \in Nat}
  <2>1. 0 \in S /\ S \in SUBSET Nat
    BY <1>9
  <2>2. ASSUME NEW n \in S PROVE n + 1 \in S
    <3>1. CASE (n + 1) + 1 \in D
      <4>1. n \in Nat /\ n + 1 \in D /\ n + 1 \in Classes
        BY <1>1, <3>1 DEF Classes
      <4>2. Offset[n + 1] \in Nat
        BY <4>1
      <4>3. Offset[(n + 1) + 1] = Offset[n + 1] + SLAB_SIZES[n + 1] * OBJECTS_PER_CLASS
        BY <1>10, <4>1
      <4>4. SLAB_SIZES[n + 1] * OBJECTS_PER_CLASS \in Nat
        BY <1>2, <4>1
      <4> QED BY <4>1, <4>2, <4>3, <4>4
    <3> QED BY <3>1
  <2>3. S = Nat
    <3> HIDE DEF S
    <3> QED BY <2>1, <2>2, SetInduction
  <2>4. ASSUME NEW c \in D PROVE Offset[c] \in Nat
    <3>1. c - 1 \in Nat /\ (c - 1) + 1 = c
      BY <1>1
    <3>2. c - 1 \in S
      BY <2>3, <3>1
    <3> QED BY <3>1, <3>2
  <2> QED BY <2>4
<1>12. Offset \in [D -> Nat]
  <2>1. Offset = [c \in D |-> Offset[c]]
    BY <1>7, <1>8
  <2> HIDE DEF D
  <2> QED BY <1>11, <2>1
<1> QED BY <1>1, <1>2, <1>9, <1>10, <1>12

\* A class's region ends before a later one, or the bump region, begins.
LEMMA RegionsApart ==
  ASSUME NEW c \in Classes, NEW d \in 1..Len(SLAB_SIZES)+1, c < d
  PROVE  Offset[c] + SLAB_SIZES[c] * OBJECTS_PER_CLASS <= Offset[d]
<1> DEFINE S == {n \in Nat : (c + 1) + n \in 1..Len(SLAB_SIZES)+1 =>
                   Offset[c] + SLAB_SIZES[c] * OBJECTS_PER_CLASS <= Offset[(c + 1) + n]}
<1>0. Len(SLAB_SIZES) \in Nat /\ c \in Nat
  BY OffsetFacts DEF Classes
<1>1. 0 \in S /\ S \in SUBSET Nat
  <2>1. (c + 1) + 0 = c + 1
    BY <1>0
  <2>2. /\ Offset[c + 1] = Offset[c] + SLAB_SIZES[c] * OBJECTS_PER_CLASS
        /\ Offset[c] + SLAB_SIZES[c] * OBJECTS_PER_CLASS \in Nat
    <3>1. c \in 1..Len(SLAB_SIZES)+1
      BY <1>0 DEF Classes
    <3>2. Offset[c] \in Nat /\ SLAB_SIZES[c] * OBJECTS_PER_CLASS \in Nat
      BY <3>1, OffsetFacts
    <3>3. Offset[c + 1] = Offset[c] + SLAB_SIZES[c] * OBJECTS_PER_CLASS
      BY OffsetFacts
    <3> QED BY <3>2, <3>3
  <2> QED BY <2>1, <2>2
<1>2. ASSUME NEW n \in S PROVE n + 1 \in S
  <2>0. n \in Nat
    OBVIOUS
  <2>1. CASE (c + 1) + (n + 1) \in 1..Len(SLAB_SIZES)+1
    <3> DEFINE e == (c + 1) + n
    <3>1. e \in 1..Len(SLAB_SIZES)+1 /\ e \in Classes /\ (c + 1) + (n + 1) = e + 1
      BY <1>0, <2>0, <2>1 DEF Classes
    <3>2. Offset[c] + SLAB_SIZES[c] * OBJECTS_PER_CLASS <= Offset[e]
      BY <3>1
    <3>3. c \in 1..Len(SLAB_SIZES)+1
      BY <1>0 DEF Classes
    <3> HIDE DEF e
    <3>4. Offset[e + 1] = Offset[e] + SLAB_SIZES[e] * OBJECTS_PER_CLASS
      BY <3>1, OffsetFacts
    <3>5. Offset[e] \in Nat /\ Offset[c] \in Nat
      BY <3>1, <3>3, OffsetFacts
    <3>6. SLAB_SIZES[e] * OBJECTS_PER_CLASS \in Nat /\ SLAB_SIZES[c] * OBJECTS_PER_CLASS \in Nat
      BY <3>1, OffsetFacts
    <3>7. Offset[c] + SLAB_SIZES[c] * OBJECTS_PER_CLASS <= Offset[e + 1]
      BY <3>2, <3>4, <3>5, <3>6
    <3> QED BY <2>0, <3>1, <3>7
  <2> QED BY <2>0, <2>1
<1>3. S = Nat
  <2> HIDE DEF S
  <2> QED BY <1>1, <1>2, SetInduction
<1>4. d - (c + 1) \in Nat /\ (c + 1) + (d - (c + 1)) = d
  BY <1>0
<1>5. d - (c + 1) \in S
  BY <1>3, <1>4
<1> QED BY <1>4, <1>5

\* A class's region lies in the slab region.
LEMMA RegionBounds ==
  /\ SLAB_REGION_BYTES \in Nat
  /\ \A c \in Classes :
       /\ Offset[c] \in Nat /\ SLAB_SIZES[c] \in Nat \ {0}
       /\ SLAB_SIZES[c] * OBJECTS_PER_CLASS \in Nat
       /\ OBJECTS_PER_CLASS * SLAB_SIZES[c] = SLAB_SIZES[c] * OBJECTS_PER_CLASS
       /\ Offset[c] + SLAB_SIZES[c] * OBJECTS_PER_CLASS <= SLAB_REGION_BYTES
<1>1. Len(SLAB_SIZES) + 1 \in 1..Len(SLAB_SIZES)+1
  BY OffsetFacts
<1>2. SLAB_REGION_BYTES \in Nat
  BY <1>1, OffsetFacts DEF SLAB_REGION_BYTES
<1>3. ASSUME NEW c \in Classes
      PROVE  /\ Offset[c] \in Nat /\ SLAB_SIZES[c] \in Nat \ {0}
             /\ SLAB_SIZES[c] * OBJECTS_PER_CLASS \in Nat
             /\ OBJECTS_PER_CLASS * SLAB_SIZES[c] = SLAB_SIZES[c] * OBJECTS_PER_CLASS
             /\ Offset[c] + SLAB_SIZES[c] * OBJECTS_PER_CLASS <= SLAB_REGION_BYTES
  <2>1. c \in 1..Len(SLAB_SIZES)+1 /\ c < Len(SLAB_SIZES) + 1
    BY OffsetFacts DEF Classes
  <2>2. Offset[c] \in Nat
    BY <2>1, OffsetFacts
  <2>3. SLAB_SIZES[c] \in Nat \ {0} /\ OBJECTS_PER_CLASS \in Nat \ {0}
    BY OffsetFacts
  <2>4. OBJECTS_PER_CLASS * SLAB_SIZES[c] = SLAB_SIZES[c] * OBJECTS_PER_CLASS
    BY <2>3
  <2>5. SLAB_SIZES[c] * OBJECTS_PER_CLASS \in Nat
    BY OffsetFacts
  <2>6. Offset[c] + SLAB_SIZES[c] * OBJECTS_PER_CLASS <= SLAB_REGION_BYTES
    BY <1>1, <2>1, RegionsApart DEF SLAB_REGION_BYTES
  <2> QED BY <2>2, <2>3, <2>4, <2>5, <2>6
<1> QED BY <1>2, <1>3

\* A block lies in the region of its class, on a multiple of the object size.
LEMMA BlockBounds ==
  ASSUME NEW h \in Nat, NEW c \in Classes, NEW i \in 0..OBJECTS_PER_CLASS-1
  PROVE  /\ BlockAt(h, c, i) \in Nat /\ i * SLAB_SIZES[c] \in Nat
         /\ h + Offset[c] <= BlockAt(h, c, i)
         /\ BlockAt(h, c, i) + SLAB_SIZES[c] <= h + Offset[c] + SLAB_SIZES[c] * OBJECTS_PER_CLASS
         /\ BlockAt(h, c, i) + SLAB_SIZES[c] <= h + SLAB_REGION_BYTES
         /\ h % SLAB_SIZES[c] = 0 => BlockAt(h, c, i) % SLAB_SIZES[c] = 0
<1> DEFINE s == SLAB_SIZES[c]
           n == OBJECTS_PER_CLASS
           o == Offset[c]
<1>1. /\ s \in Nat \ {0} /\ o \in Nat /\ s * n \in Nat /\ n * s = s * n
      /\ o + s * n <= SLAB_REGION_BYTES /\ SLAB_REGION_BYTES \in Nat
  BY RegionBounds
<1>2. n \in Nat /\ i \in Nat /\ i < n
  BY OffsetFacts
<1>3. o % s = 0
  BY RegionAssumption
<1> HIDE DEF s, n, o
<1>4. i * s \in Nat /\ (i * s) + s <= n * s
  BY <1>1, <1>2, MultiplesApart
<1>5. BlockAt(h, c, i) = h + o + i * s
  BY DEF BlockAt, s, o
<1>6. h % s = 0 => (h + o + i * s) % s = 0
  <2> SUFFICES ASSUME h % s = 0 PROVE (h + o + i * s) % s = 0
    OBVIOUS
  <2>0. h + o \in Nat
    BY <1>1
  <2>1. (h + o) % s = 0
    BY <1>1, <1>3, DividesSum
  <2>2. i * s = s * i
    BY <1>1, <1>2
  <2>3. (i * s) % s = 0
    BY <1>1, <1>2, <1>4, <2>2, Divides
  <2> QED BY <1>1, <1>4, <2>0, <2>1, <2>3, DividesSum
<1>7. /\ h + o + i * s \in Nat /\ h + o <= h + o + i * s
      /\ (h + o + i * s) + s <= h + o + s * n
      /\ (h + o + i * s) + s <= h + SLAB_REGION_BYTES
  BY <1>1, <1>4
<1> QED BY <1>4, <1>5, <1>6, <1>7 DEF s, n, o

\* The same for a member of BlocksOf.
LEMMA BlocksBounds ==
  ASSUME NEW h \in Nat, NEW c \in Classes, NEW p \in BlocksOf(h, c)
  PROVE  /\ p \in Nat /\ h + Offset[c] <= p
         /\ p + SLAB_SIZES[c] <= h + Offset[c] + SLAB_SIZES[c] * OBJECTS_PER_CLASS
         /\ p + SLAB_SIZES[c] <= h + SLAB_REGION_BYTES
         /\ h % SLAB_SIZES[c] = 0 => p % SLAB_SIZES[c] = 0
<1>1. PICK i \in 0..OBJECTS_PER_CLASS-1 : p = BlockAt(h, c, i)
  BY DEF BlocksOf
<1> QED BY <1>1, BlockBounds

\* Two blocks of one class are an object apart.
LEMMA ClassBlocksApart ==
  ASSUME NEW h \in Nat, NEW c \in Classes,
         NEW i \in 0..OBJECTS_PER_CLASS-1, NEW j \in 0..OBJECTS_PER_CLASS-1, i < j
  PROVE  BlockAt(h, c, i) + SLAB_SIZES[c] <= BlockAt(h, c, j)
<1> DEFINE s == SLAB_SIZES[c]
           o == Offset[c]
<1>1. s \in Nat /\ o \in Nat /\ i \in Nat /\ j \in Nat
  BY RegionBounds
<1> HIDE DEF s, o
<1>2. i * s \in Nat /\ j * s \in Nat /\ (i * s) + s <= j * s
  BY <1>1, MultiplesApart
<1>3. (h + o + i * s) + s <= h + o + j * s
  BY <1>1, <1>2
<1> QED BY <1>3 DEF BlockAt, s, o

\* Distinct slab blocks, of one class or of two, do not overlap.
LEMMA BlocksApart ==
  ASSUME NEW h \in Nat, NEW c \in Classes, NEW d \in Classes,
         NEW p \in BlocksOf(h, c), NEW q \in BlocksOf(h, d), p # q
  PROVE  p + SLAB_SIZES[c] <= q \/ q + SLAB_SIZES[d] <= p
<1>1. CASE c = d
  <2>1. PICK i \in 0..OBJECTS_PER_CLASS-1 : p = BlockAt(h, c, i)
    BY DEF BlocksOf
  <2>2. PICK j \in 0..OBJECTS_PER_CLASS-1 : q = BlockAt(h, c, j)
    BY <1>1 DEF BlocksOf
  <2>3. i < j \/ j < i
    <3>1. i # j
      BY <2>1, <2>2
    <3>2. i \in Int /\ j \in Int
      BY OffsetFacts
    <3> QED BY <3>1, <3>2
  <2>4. CASE i < j
    BY <2>1, <2>2, <2>4, ClassBlocksApart
  <2>5. CASE j < i
    BY <1>1, <2>1, <2>2, <2>5, ClassBlocksApart
  <2> QED BY <2>3, <2>4, <2>5
<1>2. ASSUME NEW a \in Classes, NEW b \in Classes, a < b,
             NEW x \in BlocksOf(h, a), NEW y \in BlocksOf(h, b)
      PROVE  x + SLAB_SIZES[a] <= y
  <2>1. b \in 1..Len(SLAB_SIZES)+1
    BY OffsetFacts DEF Classes
  <2>2. Offset[a] + SLAB_SIZES[a] * OBJECTS_PER_CLASS <= Offset[b]
    BY <1>2, <2>1, RegionsApart
  <2>3. /\ x \in Nat
        /\ x + SLAB_SIZES[a] <= h + Offset[a] + SLAB_SIZES[a] * OBJECTS_PER_CLASS
    BY BlocksBounds
  <2>4. y \in Nat /\ h + Offset[b] <= y
    BY BlocksBounds
  <2>5. /\ Offset[a] \in Nat /\ Offset[b] \in Nat /\ SLAB_SIZES[a] \in Nat
        /\ SLAB_SIZES[a] * OBJECTS_PER_CLASS \in Nat
    BY RegionBounds
  <2> QED BY <2>2, <2>3, <2>4, <2>5
<1>3. c \in Int /\ d \in Int
  BY OffsetFacts DEF Classes
<1>4. CASE c < d
  BY <1>2, <1>4
<1>5. CASE d < c
  BY <1>2, <1>5
<1> QED BY <1>1, <1>3, <1>4, <1>5

\* owns tells the class of every block, and disowns the bump region.
LEMMA OwnsBlock ==
  ASSUME heap_start \in Nat, NEW c \in Classes, NEW p \in BlocksOf(heap_start, c)
  PROVE  \A d \in Classes : owns(d, p) <=> d = c
<1>1. /\ p \in Nat /\ heap_start + Offset[c] <= p
      /\ p + SLAB_SIZES[c] <= heap_start + Offset[c] + SLAB_SIZES[c] * OBJECTS_PER_CLASS
  BY BlocksBounds
<1>2. \A e \in Classes :
        /\ Offset[e] \in Nat /\ SLAB_SIZES[e] \in Nat \ {0}
        /\ SLAB_SIZES[e] * OBJECTS_PER_CLASS \in Nat
        /\ OBJECTS_PER_CLASS * SLAB_SIZES[e] = SLAB_SIZES[e] * OBJECTS_PER_CLASS
  BY RegionBounds
<1>3. \A e \in Classes :
        owns(e, p) <=> /\ p >= heap_start + Offset[e]
                       /\ p < heap_start + Offset[e] + SLAB_SIZES[e] * OBJECTS_PER_CLASS
  BY <1>2 DEF owns, RegionStart
<1>4. owns(c, p)
  BY <1>1, <1>2, <1>3
<1>5. ASSUME NEW d \in Classes, owns(d, p), d # c PROVE FALSE
  <2>1. /\ c \in 1..Len(SLAB_SIZES)+1 /\ d \in 1..Len(SLAB_SIZES)+1
        /\ c \in Int /\ d \in Int
    BY OffsetFacts DEF Classes
  <2>2. CASE c < d
    <3>1. Offset[c] + SLAB_SIZES[c] * OBJECTS_PER_CLASS <= Offset[d]
      BY <2>1, <2>2, RegionsApart
    <3> QED BY <1>1, <1>2, <1>3, <1>5, <3>1
  <2>3. CASE d < c
    <3>1. Offset[d] + SLAB_SIZES[d] * OBJECTS_PER_CLASS <= Offset[c]
      BY <2>1, <2>3, RegionsApart
    <3> QED BY <1>1, <1>2, <1>3, <1>5, <3>1
  <2> QED BY <1>5, <2>1, <2>2, <2>3
<1> QED BY <1>4, <1>5

\* No class owns an address of the bump region.
LEMMA OwnsNoBump ==
  ASSUME heap_start \in Nat, NEW p \in Nat, p >= heap_start + SLAB_REGION_BYTES
  PROVE  \A d \in Classes : ~ owns(d, p)
<1> SUFFICES ASSUME NEW d \in Classes PROVE ~ owns(d, p)
  OBVIOUS
<1>1. /\ Offset[d] \in Nat /\ SLAB_SIZES[d] * OBJECTS_PER_CLASS \in Nat
      /\ OBJECTS_PER_CLASS * SLAB_SIZES[d] = SLAB_SIZES[d] * OBJECTS_PER_CLASS
      /\ Offset[d] + SLAB_SIZES[d] * OBJECTS_PER_CLASS <= SLAB_REGION_BYTES
      /\ SLAB_REGION_BYTES \in Nat
  BY RegionBounds
<1> QED BY <1>1 DEF owns, RegionStart

\* align_up returns the multiple of the alignment at or after the address.
LEMMA AlignUpFacts ==
  ASSUME NEW x \in Nat, NEW a \in Nat \ {0}
  PROVE  align_up(x, a) \in Nat /\ align_up(x, a) >= x /\ align_up(x, a) % a = 0
<1> DEFINE n == x + a - 1
           q == n \div a
           r == n % a
<1>1. n \in Nat /\ n = x + (a - 1)
  OBVIOUS
<1> HIDE DEF n
<1>2. q \in Nat /\ r \in 0..a-1 /\ n = (a * q) + r
  BY <1>1, DivMod
<1>3. align_up(x, a) = q * a
  BY DEF align_up, n
<1> HIDE DEF q, r
<1>4. q * a \in Nat /\ q * a = a * q /\ q * a >= x
  BY <1>1, <1>2
<1>5. (q * a) % a = 0
  BY <1>2, <1>4, Divides
<1> QED BY <1>3, <1>4, <1>5

\* A block belongs to one class.
LEMMA BlockClassUnique ==
  ASSUME NEW h \in Nat, NEW c \in Classes, NEW d \in Classes,
         NEW p \in BlocksOf(h, c), p \in BlocksOf(h, d)
  PROVE  c = d
<1>1. ASSUME NEW a \in Classes, NEW b \in Classes, a < b,
             p \in BlocksOf(h, a), p \in BlocksOf(h, b)
      PROVE  FALSE
  <2>1. b \in 1..Len(SLAB_SIZES)+1
    BY OffsetFacts DEF Classes
  <2>2. Offset[a] + SLAB_SIZES[a] * OBJECTS_PER_CLASS <= Offset[b]
    BY <1>1, <2>1, RegionsApart
  <2>3. /\ p \in Nat
        /\ p + SLAB_SIZES[a] <= h + Offset[a] + SLAB_SIZES[a] * OBJECTS_PER_CLASS
    BY <1>1, BlocksBounds
  <2>4. h + Offset[b] <= p
    BY <1>1, BlocksBounds
  <2>5. /\ Offset[a] \in Nat /\ Offset[b] \in Nat /\ SLAB_SIZES[a] \in Nat \ {0}
        /\ SLAB_SIZES[a] * OBJECTS_PER_CLASS \in Nat
    BY RegionBounds
  <2> DEFINE n == SLAB_SIZES[a] * OBJECTS_PER_CLASS
             z == SLAB_SIZES[a]
             x == Offset[a]
             y == Offset[b]
  <2>6. /\ x + n <= y /\ p \in Nat /\ p + z <= h + x + n /\ h + y <= p
        /\ x \in Nat /\ y \in Nat /\ z \in Nat \ {0} /\ n \in Nat
    BY <2>2, <2>3, <2>4, <2>5
  <2> HIDE DEF n, x, y, z
  <2> QED BY <2>6
<1>2. c \in Int /\ d \in Int
  BY OffsetFacts DEF Classes
<1>3. ~ (c < d)
  BY <1>1
<1>4. ~ (d < c)
  BY <1>1
<1> QED BY <1>2, <1>3, <1>4

-----------------------------------------------------------------------------
(* Free lists.                                                             *)

\* The words of m thread the blocks s of class c, from head to 0.
Threaded(h, c, s, head, m) ==
  /\ head = IF s = <<>> THEN 0 ELSE s[1]
  /\ \A i \in 1..Len(s) : m[s[i]] = IF i = Len(s) THEN 0 ELSE s[i + 1]
  /\ \A i \in 1..Len(s) : s[i] \in BlocksOf(h, c)
  /\ \A i, j \in 1..Len(s) : i # j => s[i] # s[j]

\* What is left of the list without its first block.
PopsFrom(h, c, s, head, m) ==
  /\ head = s[1] /\ head \in BlocksOf(h, c) /\ 1 \in 1..Len(s)
  /\ Tail(s) \in Seq(Nat) /\ Len(Tail(s)) = Len(s) - 1
  /\ Threaded(h, c, Tail(s), m[head], m)
  /\ \A i \in 1..Len(Tail(s)) : Tail(s)[i] # head
  /\ \A i \in 1..Len(Tail(s)) : i + 1 \in 1..Len(s) /\ Tail(s)[i] = s[i + 1]

\* SlabClass::alloc takes the first block and leaves the rest threaded.
LEMMA PopThreaded ==
  ASSUME NEW h, NEW c, NEW s \in Seq(Nat), NEW head, NEW m,
         Threaded(h, c, s, head, m), s # <<>>
  PROVE  PopsFrom(h, c, s, head, m)
<1> DEFINE t == Tail(s)
<1>1. Len(s) \in Nat \ {0}
  BY EmptySeq
<1>2. /\ t \in Seq(Nat) /\ Len(t) = Len(s) - 1
      /\ \A i \in 1..Len(t) : t[i] = s[i + 1]
  BY HeadTailProperties
<1>3. head = s[1] /\ 1 \in 1..Len(s)
  BY <1>1 DEF Threaded
<1>4. head \in BlocksOf(h, c)
  BY <1>3 DEF Threaded
<1>5. \A i \in 1..Len(t) : i + 1 \in 1..Len(s) /\ t[i] = s[i + 1]
  <2> HIDE DEF t
  <2> QED BY <1>1, <1>2
<1>6. \A i \in 1..Len(t) : t[i] # head
  <2> HIDE DEF t
  <2>1. \A i \in 1..Len(t) : i + 1 \in 1..Len(s) /\ i + 1 # 1
    BY <1>1, <1>2
  <2> QED BY <1>3, <1>5, <2>1 DEF Threaded
<1>7. Threaded(h, c, t, m[head], m)
  <2> HIDE DEF t
  <2>1. m[head] = IF t = <<>> THEN 0 ELSE t[1]
    <3>1. m[head] = IF 1 = Len(s) THEN 0 ELSE s[1 + 1]
      BY <1>3 DEF Threaded
    <3>2. t = <<>> <=> Len(s) = 1
      BY <1>1, <1>2, EmptySeq
    <3>3. CASE t = <<>>
      BY <3>1, <3>2, <3>3
    <3>4. CASE t # <<>>
      <4>1. 1 \in 1..Len(t)
        BY <1>1, <1>2, <3>2, <3>4
      <4> QED BY <1>2, <3>1, <3>2, <3>4, <4>1
    <3> QED BY <3>3, <3>4
  <2>2. ASSUME NEW i \in 1..Len(t) PROVE m[t[i]] = IF i = Len(t) THEN 0 ELSE t[i + 1]
    <3>1. m[s[i + 1]] = IF i + 1 = Len(s) THEN 0 ELSE s[(i + 1) + 1]
      BY <1>5 DEF Threaded
    <3>2. i + 1 = Len(s) <=> i = Len(t)
      BY <1>1, <1>2
    <3>3. i # Len(t) => i + 1 \in 1..Len(t)
      BY <1>1, <1>2
    <3> QED BY <1>5, <3>1, <3>2, <3>3
  <2>3. \A i \in 1..Len(t) : t[i] \in BlocksOf(h, c)
    BY <1>5 DEF Threaded
  <2>4. \A i, j \in 1..Len(t) : i # j => t[i] # t[j]
    <3> SUFFICES ASSUME NEW i \in 1..Len(t), NEW j \in 1..Len(t), i # j PROVE t[i] # t[j]
      OBVIOUS
    <3>1. i + 1 # j + 1
      BY <1>1, <1>2
    <3> QED BY <1>5, <3>1 DEF Threaded
  <2> QED BY <2>1, <2>2, <2>3, <2>4 DEF Threaded
<1> QED BY <1>2, <1>3, <1>4, <1>5, <1>6, <1>7 DEF PopsFrom

\* SlabClass::dealloc puts a block that is not on the list in front of it.
LEMMA PushThreaded ==
  ASSUME NEW h, NEW c, NEW s \in Seq(Nat), NEW head, NEW m, NEW p \in Nat,
         Threaded(h, c, s, head, m), p \in BlocksOf(h, c),
         p \in DOMAIN m, \A i \in 1..Len(s) : s[i] # p /\ s[i] \in DOMAIN m
  PROVE  LET t == <<p>> \o s IN
         /\ t \in Seq(Nat) /\ Len(t) = Len(s) + 1
         /\ t[1] = p /\ \A i \in 1..Len(s) : t[i + 1] = s[i]
         /\ Threaded(h, c, t, p, [m EXCEPT ![p] = head])
<1> DEFINE t == <<p>> \o s
           w == [m EXCEPT ![p] = head]
<1>1. Len(s) \in Nat
  OBVIOUS
<1>2. /\ t \in Seq(Nat) /\ Len(t) = Len(s) + 1
      /\ t[1] = p /\ \A i \in 1..Len(s) : t[i + 1] = s[i]
  OBVIOUS
<1>3. w[p] = head /\ \A i \in 1..Len(s) : w[s[i]] = m[s[i]]
  OBVIOUS
<1> HIDE DEF t, w
<1>4. \A k \in 1..Len(t) : k = 1 \/ (k - 1 \in 1..Len(s) /\ t[k] = s[k - 1])
  <2> TAKE k \in 1..Len(t)
  <2>1. k = 1 \/ (k - 1 \in 1..Len(s) /\ (k - 1) + 1 = k)
    BY <1>1, <1>2
  <2> QED BY <1>2, <2>1
<1>5. ASSUME NEW k \in 1..Len(t) PROVE w[t[k]] = IF k = Len(t) THEN 0 ELSE t[k + 1]
  <2>1. CASE k = 1
    <3>1. CASE s = <<>>
      <4>1. Len(t) = 1 /\ head = 0
        BY <1>2, <3>1 DEF Threaded
      <4> QED BY <1>2, <1>3, <2>1, <4>1
    <3>2. CASE s # <<>>
      <4>1. Len(s) # 0
        BY <3>2, EmptySeq
      <4>2. 1 \in 1..Len(s) /\ Len(t) # 1 /\ head = s[1]
        BY <1>1, <1>2, <3>2, <4>1 DEF Threaded
      <4>3. t[1 + 1] = s[1]
        BY <1>2, <4>2
      <4> QED BY <1>2, <1>3, <2>1, <4>2, <4>3
    <3> QED BY <3>1, <3>2
  <2>2. CASE k # 1
    <3>1. k - 1 \in 1..Len(s) /\ t[k] = s[k - 1]
      BY <1>4, <2>2
    <3>2. w[t[k]] = IF k - 1 = Len(s) THEN 0 ELSE s[(k - 1) + 1]
      BY <1>3, <3>1 DEF Threaded
    <3>3. (k - 1 = Len(s) <=> k = Len(t)) /\ (k - 1) + 1 = k
      BY <1>1, <1>2
    <3>4. k # Len(t) => k \in 1..Len(s)
      BY <1>1, <1>2
    <3> QED BY <1>2, <3>2, <3>3, <3>4
  <2> QED BY <2>1, <2>2
<1>6. \A k \in 1..Len(t) : t[k] \in BlocksOf(h, c)
  BY <1>2, <1>4 DEF Threaded
<1>7. ASSUME NEW k \in 1..Len(t), NEW j \in 1..Len(t), k # j PROVE t[k] # t[j]
  <2>1. CASE k = 1
    BY <1>2, <1>4, <1>7, <2>1
  <2>2. CASE j = 1
    BY <1>2, <1>4, <1>7, <2>2
  <2>3. CASE k # 1 /\ j # 1
    <3>1. k - 1 \in 1..Len(s) /\ j - 1 \in 1..Len(s) /\ t[k] = s[k - 1] /\ t[j] = s[j - 1]
      BY <1>4, <2>3
    <3>2. k - 1 # j - 1
      BY <1>7
    <3> QED BY <3>1, <3>2 DEF Threaded
  <2> QED BY <2>1, <2>2, <2>3
<1>8. p = IF t = <<>> THEN 0 ELSE t[1]
  BY <1>1, <1>2, EmptySeq
<1>9. Threaded(h, c, t, p, w)
  BY <1>5, <1>6, <1>7, <1>8 DEF Threaded
<1> QED BY <1>2, <1>9 DEF t, w

\* A write outside the list leaves it threaded.
LEMMA WriteThreaded ==
  ASSUME NEW h, NEW c, NEW s, NEW head, NEW m, NEW p, NEW w,
         Threaded(h, c, s, head, m),
         \A i \in 1..Len(s) : s[i] # p /\ s[i] \in DOMAIN m
  PROVE  Threaded(h, c, s, head, [m EXCEPT ![p] = w])
<1>1. \A i \in 1..Len(s) : [m EXCEPT ![p] = w][s[i]] = m[s[i]]
  OBVIOUS
<1> QED BY <1>1 DEF Threaded

-----------------------------------------------------------------------------
(* The inductive invariant.                                                *)

HeapTypes ==
  /\ state \in {"boot", "up", "panic"}
  /\ stack \in [Classes -> Seq(Nat)]
  /\ free_head \in [Classes -> Nat]
  /\ free_count \in [Classes -> Nat]

\* Before init, and after a panic, nothing is placed or held.
HeapDown ==
  state # "up" => heap_start = 0 /\ live = {} /\ \A c \in Classes : stack[c] = <<>>

\* The bump pointer moves between the slab region and the end of the heap.
HeapPlaced ==
  /\ heap_start \in Nat \ {0}
  /\ \A c \in Classes : heap_start % SLAB_SIZES[c] = 0
  /\ current \in Nat /\ heap_start + SLAB_REGION_BYTES <= current /\ current <= BumpEnd
  /\ \A c \in Classes : BlocksOf(heap_start, c) \subseteq DOMAIN mem

SlabHeld(b) ==
  \E c \in Classes : b.ptr \in BlocksOf(heap_start, c) /\ b.size <= SLAB_SIZES[c]

BumpHeld(b) ==
  heap_start + SLAB_REGION_BYTES <= b.ptr /\ b.ptr + b.size <= current

\* What callers hold is a slab block or lies behind the bump pointer, and
\* has one holder.
HeldBlocks ==
  /\ \A b \in live : /\ b \in [ptr : Nat, size : Nat \ {0}, align : Nat \ {0}]
                     /\ SlabHeld(b) \/ BumpHeld(b)
  /\ \A b, d \in live : b.ptr = d.ptr => b = d

HeapInv ==
  /\ HeapTypes
  /\ HeapDown
  /\ state = "up" => HeapPlaced /\ HeldBlocks /\ \A c \in Classes : IsFiniteSet(LiveIn(c))
  /\ FreeListIntact
  /\ BlocksConserved

\* FreeListIntact, class by class.
LEMMA ListsThreaded ==
  FreeListIntact <=>
    \A c \in Classes : Threaded(heap_start, c, stack[c], free_head[c], mem)
BY DEF FreeListIntact, Threaded

\* A step that writes no free list leaves every one intact.
LEMMA FreeListFrame ==
  ASSUME FreeListIntact, UNCHANGED <<heap_start, mem, free_head, stack>>
  PROVE  FreeListIntact'
<1>1. \A c \in Classes : Threaded(heap_start, c, stack[c], free_head[c], mem)
  BY ListsThreaded
<1>2. \A c \in Classes : Threaded(heap_start', c, stack'[c], free_head'[c], mem')
  BY <1>1
<1> QED BY <1>2 DEF FreeListIntact, Threaded

\* A held slab block is counted in its class, and no held block is free.
LEMMA HeldNotFree ==
  ASSUME HeapInv, state = "up", NEW b \in live
  PROVE  /\ \A c \in Classes : b.ptr \in BlocksOf(heap_start, c) => b \in LiveIn(c)
         /\ \A c \in Classes : \A i \in 1..Len(stack[c]) :
              stack[c][i] # b.ptr /\ stack[c][i] \in DOMAIN mem
<1>1. heap_start \in Nat
  BY DEF HeapInv, HeapPlaced
<1>2. ASSUME NEW c \in Classes, b.ptr \in BlocksOf(heap_start, c) PROVE b \in LiveIn(c)
  BY <1>1, <1>2, OwnsBlock DEF LiveIn
<1>3. ASSUME NEW c \in Classes, NEW i \in 1..Len(stack[c])
      PROVE  stack[c][i] # b.ptr /\ stack[c][i] \in DOMAIN mem
  <2>1. stack[c][i] \in BlocksOf(heap_start, c)
    BY DEF HeapInv, FreeListIntact
  <2>2. stack[c][i] \in DOMAIN mem
    BY <2>1 DEF HeapInv, HeapPlaced
  <2>3. stack[c][i] # b.ptr
    BY <1>2, <2>1 DEF HeapInv, BlocksConserved
  <2> QED BY <2>2, <2>3
<1> QED BY <1>2, <1>3

\* Every held block lies in the heap; slab blocks lie before the bump region.
LEMMA HeldBounds ==
  ASSUME HeapInv, state = "up", NEW b \in live
  PROVE  /\ b.ptr \in Nat /\ b.size \in Nat \ {0}
         /\ SlabHeld(b) => b.ptr + b.size <= heap_start + SLAB_REGION_BYTES
         /\ b.ptr + b.size <= current
<1>1. heap_start \in Nat /\ current \in Nat /\ heap_start + SLAB_REGION_BYTES <= current
  BY DEF HeapInv, HeapPlaced
<1>2. b \in [ptr : Nat, size : Nat \ {0}, align : Nat \ {0}] /\ (SlabHeld(b) \/ BumpHeld(b))
  BY DEF HeapInv, HeldBlocks
<1>3. b.ptr \in Nat /\ b.size \in Nat \ {0}
  BY <1>2
<1>4. ASSUME SlabHeld(b) PROVE b.ptr + b.size <= heap_start + SLAB_REGION_BYTES
  <2>1. PICK c \in Classes : b.ptr \in BlocksOf(heap_start, c) /\ b.size <= SLAB_SIZES[c]
    BY <1>4 DEF SlabHeld
  <2>2. b.ptr + SLAB_SIZES[c] <= heap_start + SLAB_REGION_BYTES
    BY <1>1, <2>1, BlocksBounds
  <2>3. SLAB_SIZES[c] \in Nat /\ SLAB_REGION_BYTES \in Nat
    BY RegionBounds
  <2> QED BY <1>1, <1>3, <2>1, <2>2, <2>3
<1>5. SLAB_REGION_BYTES \in Nat
  BY RegionBounds
<1> QED BY <1>1, <1>2, <1>3, <1>4, <1>5 DEF BumpHeld

-----------------------------------------------------------------------------
(* One lemma per action.                                                   *)

\* memory::init picks a usable region that holds the heap.
LEMMA RegionChosen ==
  ASSUME NEW m \in MemoryMaps, Candidates(m) # {}
  PROVE  \E i \in Candidates(m) : HeapRegion(m) = m[i]
<1>1. Len(m) \in Nat
  BY RegionAssumption
<1>2. Candidates(m) \in SUBSET Nat
  BY <1>1 DEF Candidates
<1>3. \E i \in Candidates(m) : \A j \in Candidates(m) : i <= j
  BY <1>2, LeastElement
<1> DEFINE k == CHOOSE i \in Candidates(m) : \A j \in Candidates(m) : i <= j
<1>4. k \in Candidates(m)
  BY <1>3
<1> QED BY <1>4, Zenon DEF HeapRegion

\* SlabClass::init threads all the blocks of every class.
LEMMA BootThreads ==
  ASSUME NEW h \in Nat, NEW c \in Classes, NEW m,
         m = [p \in UNION {BlocksOf(h, d) : d \in Classes} |->
                LET e == CHOOSE d \in Classes : p \in BlocksOf(h, d)
                IN  IF p = BlockAt(h, e, OBJECTS_PER_CLASS - 1) THEN 0 ELSE p + SLAB_SIZES[e]]
  PROVE  LET s == [i \in 1..OBJECTS_PER_CLASS |-> BlockAt(h, c, i - 1)] IN
         /\ s \in Seq(Nat) /\ Len(s) = OBJECTS_PER_CLASS
         /\ Threaded(h, c, s, BlockAt(h, c, 0), m)
<1> DEFINE n == OBJECTS_PER_CLASS
           s == [i \in 1..n |-> BlockAt(h, c, i - 1)]
<1>1. n \in Nat \ {0}
  BY OffsetFacts
<1>2. \A i \in 1..n : i - 1 \in 0..n-1 /\ i - 1 \in 0..OBJECTS_PER_CLASS-1
  BY <1>1
<1>3. \A i \in 1..n : BlockAt(h, c, i - 1) \in Nat
  BY <1>2, BlockBounds
<1>4. s \in Seq(Nat) /\ Len(s) = n /\ DOMAIN s = 1..n
  <2>1. s \in [1..n -> Nat]
    BY <1>3
  <2>2. s \in Seq(Nat)
    BY <1>1, <2>1
  <2>3. DOMAIN s = 1..n
    OBVIOUS
  <2>4. DOMAIN s = 1..Len(s) /\ Len(s) \in Nat
    <3> HIDE DEF s
    <3> QED BY <2>2
  <2>5. Len(s) = n
    <3> HIDE DEF s, n
    <3>1. n \in 1..n
      BY <1>1
    <3>2. n \in 1..Len(s)
      BY <2>3, <2>4, <3>1, Zenon
    <3>3. Len(s) \in 1..Len(s)
      BY <2>4, <3>2
    <3>4. Len(s) \in 1..n
      BY <2>3, <2>4, <3>3, Zenon
    <3> DEFINE k == Len(s)
    <3>5. k \in Nat /\ n \in 1..k /\ k \in 1..n
      BY <2>4, <3>2, <3>4
    <3> HIDE DEF k
    <3>6. k = n
      BY <1>1, <3>5
    <3> QED BY <3>6 DEF k
  <2> QED BY <2>2, <2>3, <2>5
<1>5. \A i \in 1..n : s[i] = BlockAt(h, c, i - 1)
  OBVIOUS
<1>6. \A i \in 1..n : s[i] \in BlocksOf(h, c)
  BY <1>2, <1>5 DEF BlocksOf
<1> HIDE DEF s
<1>7. ASSUME NEW i \in 1..n, NEW j \in 1..n, i < j
      PROVE  s[i] + SLAB_SIZES[c] <= s[j] /\ s[i] # s[j]
  <2>1. i - 1 < j - 1
    BY <1>1, <1>7
  <2>2. BlockAt(h, c, i - 1) + SLAB_SIZES[c] <= BlockAt(h, c, j - 1)
    BY <1>2, <2>1, ClassBlocksApart
  <2>3. SLAB_SIZES[c] \in Nat \ {0} /\ s[i] \in Nat /\ s[j] \in Nat
    BY <1>3, <1>5, RegionBounds
  <2> QED BY <1>5, <2>2, <2>3
<1>8. \A i, j \in 1..n : i # j => s[i] # s[j]
  <2> SUFFICES ASSUME NEW i \in 1..n, NEW j \in 1..n, i # j PROVE s[i] # s[j]
    OBVIOUS
  <2>1. i < j \/ j < i
    BY <1>1
  <2> QED BY <1>7, <2>1
<1>9. ASSUME NEW i \in 1..n PROVE m[s[i]] = IF i = n THEN 0 ELSE s[i + 1]
  <2> DEFINE e == CHOOSE d \in Classes : s[i] \in BlocksOf(h, d)
  <2>1. e \in Classes /\ s[i] \in BlocksOf(h, e)
    BY <1>6
  <2>2. e = c
    <3> HIDE DEF e
    <3> QED BY <1>6, <2>1, BlockClassUnique
  <2>3. s[i] \in UNION {BlocksOf(h, d) : d \in Classes}
    BY <1>6
  <2>4. m[s[i]] = IF s[i] = BlockAt(h, e, OBJECTS_PER_CLASS - 1) THEN 0 ELSE s[i] + SLAB_SIZES[e]
    BY <2>3, Zenon
  <2> HIDE DEF e
  <2>5. m[s[i]] = IF s[i] = s[n] THEN 0 ELSE s[i] + SLAB_SIZES[c]
    <3>1. n \in 1..n
      BY <1>1
    <3> QED BY <1>5, <2>2, <2>4, <3>1
  <2>6. s[i] = s[n] <=> i = n
    <3>1. n \in 1..n
      BY <1>1
    <3> QED BY <1>8, <3>1
  <2>7. i # n => i + 1 \in 1..n /\ s[i + 1] = s[i] + SLAB_SIZES[c]
    <3> SUFFICES ASSUME i # n PROVE i + 1 \in 1..n /\ s[i + 1] = s[i] + SLAB_SIZES[c]
      OBVIOUS
    <3>1. i + 1 \in 1..n /\ (i + 1) - 1 = i /\ i \in Nat
      BY <1>1
    <3> DEFINE z == SLAB_SIZES[c]
               o == Offset[c]
    <3>2. z \in Nat /\ o \in Nat
      BY RegionBounds
    <3>3. s[i] = h + o + (i - 1) * z /\ s[i + 1] = h + o + i * z
      BY <1>5, <3>1 DEF BlockAt
    <3> HIDE DEF z, o
    <3>4. (i - 1) * z \in Int /\ i * z = (i - 1) * z + z
      BY <3>1, <3>2
    <3>5. h + o + i * z = (h + o + (i - 1) * z) + z
      BY <3>2, <3>4
    <3> QED BY <3>1, <3>3, <3>5 DEF z
  <2> QED BY <2>5, <2>6, <2>7
<1>10. BlockAt(h, c, 0) = IF s = <<>> THEN 0 ELSE s[1]
  <2>1. 1 \in 1..n /\ 1 - 1 = 0 /\ s # <<>>
    BY <1>1, <1>4, EmptySeq
  <2>2. s[1] = BlockAt(h, c, 1 - 1)
    BY <1>5, <2>1
  <2> QED BY <2>1, <2>2
<1>11. Threaded(h, c, s, BlockAt(h, c, 0), m)
  BY <1>4, <1>6, <1>8, <1>9, <1>10 DEF Threaded
<1> QED BY <1>4, <1>11 DEF s, n

\* memory::init and allocator::init establish the invariant.
LEMMA BootStep ==
  ASSUME HeapInv, NEW m \in MemoryMaps, Boot(m)
  PROVE  HeapInv'
<1>0. state = "boot" /\ heap_start = 0 /\ live = {}
  BY DEF Boot, HeapInv, HeapDown
<1>1. CASE Candidates(m) = {}
  <2>1. state' = "panic" /\ UNCHANGED <<heap_start, free_head, free_count, mem, current, live, stack>>
    BY <1>1 DEF Boot
  <2>2. HeapTypes'
    BY <2>1 DEF HeapInv, HeapTypes
  <2>3. HeapDown'
    BY <1>0, <2>1 DEF HeapInv, HeapDown
  <2>4. FreeListIntact' /\ BlocksConserved'
    BY <2>1 DEF HeapInv, FreeListIntact, BlocksConserved
  <2> QED BY <2>1, <2>2, <2>3, <2>4 DEF HeapInv
<1>2. CASE Candidates(m) # {}
  <2> DEFINE h == HeapRegion(m).start
  <2>1. PICK r \in Candidates(m) : HeapRegion(m) = m[r]
    BY <1>2, RegionChosen
  <2>2. /\ r \in 1..Len(m) /\ h = m[r].start
    BY <2>1 DEF Candidates
  <2>3. h \in Nat \ {0} /\ \A c \in Classes : h % SLAB_SIZES[c] = 0
    BY <2>2, RegionAssumption
  <2>4. /\ state' = "up" /\ heap_start' = h
        /\ free_head' = [c \in Classes |-> BlockAt(h, c, 0)]
        /\ free_count' = [c \in Classes |-> OBJECTS_PER_CLASS]
        /\ current' = h + SLAB_REGION_BYTES
        /\ stack' = [c \in Classes |-> [i \in 1..OBJECTS_PER_CLASS |-> BlockAt(h, c, i - 1)]]
        /\ live' = {}
    BY <1>0, <1>2, Zenon DEF Boot
  <2>5. mem' = [p \in UNION {BlocksOf(h, d) : d \in Classes} |->
                LET e == CHOOSE d \in Classes : p \in BlocksOf(h, d)
                IN  IF p = BlockAt(h, e, OBJECTS_PER_CLASS - 1) THEN 0 ELSE p + SLAB_SIZES[e]]
    BY <1>2, Zenon DEF Boot
  <2> HIDE DEF h
  <2>6. ASSUME NEW c \in Classes
        PROVE  /\ stack'[c] \in Seq(Nat) /\ Len(stack'[c]) = OBJECTS_PER_CLASS
               /\ Threaded(h, c, stack'[c], free_head'[c], mem')
               /\ free_head'[c] \in Nat
    <3>1. /\ stack'[c] = [i \in 1..OBJECTS_PER_CLASS |-> BlockAt(h, c, i - 1)]
          /\ free_head'[c] = BlockAt(h, c, 0)
      BY <2>4
    <3>2. 0 \in 0..OBJECTS_PER_CLASS-1
      BY OffsetFacts
    <3>3. BlockAt(h, c, 0) \in Nat
      BY <2>3, <3>2, BlockBounds
    <3>4. /\ stack'[c] \in Seq(Nat) /\ Len(stack'[c]) = OBJECTS_PER_CLASS
          /\ Threaded(h, c, stack'[c], free_head'[c], mem')
      BY <2>3, <2>5, <3>1, BootThreads
    <3> QED BY <3>1, <3>3, <3>4
  <2>7. HeapTypes'
    <3>1. stack' \in [Classes -> Seq(Nat)]
      BY <2>4, <2>6
    <3>2. free_head' \in [Classes -> Nat]
      BY <2>4, <2>6
    <3>3. free_count' \in [Classes -> Nat]
      BY <2>4, OffsetFacts
    <3> QED BY <2>4, <3>1, <3>2, <3>3 DEF HeapTypes
  <2>8. HeapPlaced'
    <3>1. SLAB_REGION_BYTES \in Nat /\ HEAP_SIZE \in Nat /\ SLAB_REGION_BYTES < HEAP_SIZE
      BY RegionBounds, RegionAssumption
    <3>2. \A c \in Classes : BlocksOf(h, c) \subseteq DOMAIN mem'
      BY <2>5
    <3> QED BY <2>3, <2>4, <3>1, <3>2 DEF HeapPlaced, BumpEnd
  <2>9. HeldBlocks'
    BY <2>4 DEF HeldBlocks
  <2>10. \A c \in Classes : LiveIn(c)' = {}
    BY <2>4 DEF LiveIn
  <2>11. FreeListIntact'
    <3>1. \A c \in Classes : Threaded(heap_start', c, stack'[c], free_head'[c], mem')
      BY <2>4, <2>6
    <3> QED BY <3>1 DEF FreeListIntact, Threaded
  <2>12. BlocksConserved'
    <3>1. ASSUME NEW c \in Classes
          PROVE  /\ free_count'[c] = Len(stack'[c])
                 /\ Len(stack'[c]) + Cardinality(LiveIn(c)') = OBJECTS_PER_CLASS
      <4>1. free_count'[c] = OBJECTS_PER_CLASS /\ OBJECTS_PER_CLASS \in Nat
        BY <2>4, OffsetFacts
      <4>2. Cardinality(LiveIn(c)') = 0
        BY <2>10, FS_EmptySet
      <4> QED BY <2>6, <4>1, <4>2
    <3> QED BY <2>10, <3>1 DEF BlocksConserved
  <2>13. \A c \in Classes : IsFiniteSet(LiveIn(c)')
    BY <2>10, FS_EmptySet
  <2> QED BY <2>4, <2>7, <2>8, <2>9, <2>11, <2>12, <2>13 DEF HeapInv, HeapDown
<1> QED BY <1>1, <1>2

\* The class that serves a request exists and has a free block.
LEMMA ServingClass ==
  ASSUME HeapInv, NEW l \in Layouts, Serving(l) # {}
  PROVE  LET c == CHOOSE d \in Serving(l) : \A e \in Serving(l) : d <= e IN
         /\ c \in Classes /\ free_head[c] # 0 /\ stack[c] # <<>>
         /\ l.size <= SLAB_SIZES[c] /\ l.align <= SLAB_SIZES[c]
<1> DEFINE c == CHOOSE d \in Serving(l) : \A e \in Serving(l) : d <= e
<1>1. Serving(l) \in SUBSET Nat
  BY OffsetFacts DEF Serving, Classes
<1>2. \E d \in Serving(l) : \A e \in Serving(l) : d <= e
  BY <1>1, LeastElement
<1>3. c \in Serving(l)
  BY <1>2
<1> HIDE DEF c
<1>4. /\ c \in Classes /\ free_head[c] # 0
      /\ l.size <= SLAB_SIZES[c] /\ l.align <= SLAB_SIZES[c]
  BY <1>3 DEF Serving, Fits
<1>5. stack[c] # <<>>
  BY <1>4 DEF HeapInv, FreeListIntact
<1> QED BY <1>4, <1>5 DEF c

\* SlabAllocator::alloc from a class: the block leaves the list and gets a
\* holder.
LEMMA AllocSlabStep ==
  ASSUME HeapInv, NEW l \in Layouts, AllocSlab(l)
  PROVE  HeapInv'
<1>a. PICK c : c = CHOOSE d \in Serving(l) : \A e \in Serving(l) : d <= e
  OBVIOUS
<1>b. PICK b : b = [ptr |-> free_head[c], size |-> l.size, align |-> l.align]
  OBVIOUS
<1>1. /\ state = "up" /\ Serving(l) # {}
      /\ UNCHANGED <<state, heap_start, mem, current>>
  BY DEF AllocSlab
<1>2. live' = live \cup {b} /\ SlabAlloc(c)
  BY <1>a, <1>b DEF AllocSlab
<1>3. /\ c \in Classes /\ free_head[c] # 0 /\ stack[c] # <<>>
      /\ l.size <= SLAB_SIZES[c] /\ l.align <= SLAB_SIZES[c]
  BY <1>1, <1>a, ServingClass
<1>4. HeapTypes /\ HeapPlaced /\ HeldBlocks /\ FreeListIntact /\ BlocksConserved
  BY <1>1 DEF HeapInv
<1>5. /\ free_head' = [free_head EXCEPT ![c] = mem[free_head[c]]]
      /\ free_count' = [free_count EXCEPT ![c] = @ - 1]
      /\ stack' = [stack EXCEPT ![c] = Tail(@)]
  BY <1>2 DEF SlabAlloc
<1>6. \A e \in Classes : Threaded(heap_start, e, stack[e], free_head[e], mem)
  BY <1>4, ListsThreaded
<1>7. stack[c] \in Seq(Nat) /\ stack \in [Classes -> Seq(Nat)]
  BY <1>3, <1>4 DEF HeapTypes
<1>c. PICK s : s = stack[c]
  OBVIOUS
<1>d. PICK t : t = Tail(s)
  OBVIOUS
<1>8. /\ free_head[c] = s[1] /\ free_head[c] \in BlocksOf(heap_start, c) /\ 1 \in 1..Len(s)
      /\ t \in Seq(Nat) /\ Len(t) = Len(s) - 1
      /\ Threaded(heap_start, c, t, mem[free_head[c]], mem)
      /\ \A i \in 1..Len(t) : t[i] # free_head[c]
      /\ \A i \in 1..Len(t) : i + 1 \in 1..Len(s) /\ t[i] = s[i + 1]
  <2>1. s \in Seq(Nat) /\ Threaded(heap_start, c, s, free_head[c], mem) /\ s # <<>>
    BY <1>c, <1>3, <1>6, <1>7
  <2>2. /\ free_head[c] = s[1] /\ free_head[c] \in BlocksOf(heap_start, c) /\ 1 \in 1..Len(s)
        /\ Tail(s) \in Seq(Nat) /\ Len(Tail(s)) = Len(s) - 1
        /\ Threaded(heap_start, c, Tail(s), mem[free_head[c]], mem)
        /\ \A i \in 1..Len(Tail(s)) : Tail(s)[i] # free_head[c]
        /\ \A i \in 1..Len(Tail(s)) : i + 1 \in 1..Len(s) /\ Tail(s)[i] = s[i + 1]
    <3>1. PopsFrom(heap_start, c, s, free_head[c], mem)
      BY <2>1, PopThreaded, Zenon
    <3> QED BY <3>1 DEF PopsFrom
  <2> QED BY <1>d, <2>2, Zenon
<1>9. stack'[c] = t /\ \A e \in Classes : e # c => stack'[e] = stack[e]
  BY <1>c, <1>d, <1>3, <1>5, <1>7
<1>10. heap_start \in Nat /\ free_head[c] \in Nat
  BY <1>3, <1>4 DEF HeapPlaced, HeapTypes
<1>11. l.size \in Nat \ {0} /\ l.align \in Nat \ {0}
  BY RequestAssumption
<1>12. b \in [ptr : Nat, size : Nat \ {0}, align : Nat \ {0}] /\ b.ptr = free_head[c] /\ b.size = l.size
  BY <1>b, <1>10, <1>11
<1>13. \A e \in Classes : owns(e, b.ptr) <=> e = c
  BY <1>3, <1>8, <1>10, <1>12, OwnsBlock
<1>14. \A d \in live : d.ptr # b.ptr
  <2> SUFFICES ASSUME NEW d \in live PROVE d.ptr # b.ptr
    OBVIOUS
  <2>1. stack[c][1] # d.ptr
    BY <1>c, <1>1, <1>3, <1>8, HeldNotFree
  <2> QED BY <1>c, <1>8, <1>12, <2>1
<1>15. b \notin live
  BY <1>14
<1>16. \A e \in Classes : LiveIn(e)' = IF e = c THEN LiveIn(e) \cup {b} ELSE LiveIn(e)
  <2> SUFFICES ASSUME NEW e \in Classes
               PROVE  LiveIn(e)' = IF e = c THEN LiveIn(e) \cup {b} ELSE LiveIn(e)
    OBVIOUS
  <2>1. LiveIn(e)' = {d \in live \cup {b} : owns(e, d.ptr)}
    BY <1>1, <1>2 DEF LiveIn, owns, RegionStart
  <2> QED BY <1>13, <2>1 DEF LiveIn
<1>17. HeapTypes'
  <2>1. stack' \in [Classes -> Seq(Nat)]
    BY <1>c, <1>d, <1>3, <1>5, <1>7, <1>8
  <2>2. mem[free_head[c]] \in Nat
    <3>1. mem[free_head[c]] = IF t = <<>> THEN 0 ELSE t[1]
      BY <1>8 DEF Threaded
    <3>2. t # <<>> => 1 \in 1..Len(t)
      BY <1>8, EmptySeq
    <3> QED BY <1>8, <3>1, <3>2
  <2>3. free_head' \in [Classes -> Nat]
    BY <1>3, <1>4, <1>5, <2>2 DEF HeapTypes
  <2>4. free_count[c] = Len(s) /\ Len(s) \in Nat \ {0}
    <3>1. free_count[c] = Len(s)
      BY <1>c, <1>1, <1>3, <1>4 DEF BlocksConserved
    <3>2. Len(s) \in Nat \ {0}
      BY <1>c, <1>3, <1>7, EmptySeq
    <3> QED BY <3>1, <3>2
  <2>5. free_count' \in [Classes -> Nat]
    BY <1>3, <1>4, <1>5, <2>4 DEF HeapTypes
  <2> QED BY <1>1, <1>4, <2>1, <2>3, <2>5 DEF HeapTypes
<1>18. HeapPlaced'
  BY <1>1, <1>4 DEF HeapPlaced, BumpEnd
<1>19. HeldBlocks'
  <2>1. SlabHeld(b)'
    BY <1>1, <1>3, <1>8, <1>12 DEF SlabHeld
  <2>2. \A d \in live : /\ d \in [ptr : Nat, size : Nat \ {0}, align : Nat \ {0}]
                        /\ SlabHeld(d)' \/ BumpHeld(d)'
    BY <1>1, <1>4 DEF HeldBlocks, SlabHeld, BumpHeld
  <2>3. \A d, e \in live' : d.ptr = e.ptr => d = e
    BY <1>2, <1>4, <1>14 DEF HeldBlocks
  <2>4. \A d \in live' : /\ d \in [ptr : Nat, size : Nat \ {0}, align : Nat \ {0}]
                         /\ SlabHeld(d)' \/ BumpHeld(d)'
    BY <1>2, <1>12, <2>1, <2>2
  <2> QED BY <2>3, <2>4 DEF HeldBlocks
<1>20. FreeListIntact'
  <2>1. ASSUME NEW e \in Classes
        PROVE  Threaded(heap_start', e, stack'[e], free_head'[e], mem')
    <3>1. CASE e = c
      <4>1. free_head'[c] = mem[free_head[c]]
        BY <1>3, <1>4, <1>5 DEF HeapTypes
      <4> QED BY <1>1, <1>8, <1>9, <3>1, <4>1
    <3>2. CASE e # c
      <4>1. free_head'[e] = free_head[e]
        BY <1>4, <1>5, <3>2 DEF HeapTypes
      <4> QED BY <1>1, <1>6, <1>9, <3>2, <4>1
    <3> QED BY <3>1, <3>2
  <2> QED BY <2>1 DEF FreeListIntact, Threaded
<1>21. \A e \in Classes : IsFiniteSet(LiveIn(e)) /\ Cardinality(LiveIn(e)) \in Nat
  BY <1>1, FS_CardinalityType DEF HeapInv
<1>22. \A e \in Classes : IsFiniteSet(LiveIn(e)')
  BY <1>16, <1>21, FS_AddElement
<1>23. BlocksConserved'
  <2> SUFFICES ASSUME NEW e \in Classes
               PROVE  /\ free_count'[e] = Len(stack'[e])
                      /\ Len(stack'[e]) + Cardinality(LiveIn(e)') = OBJECTS_PER_CLASS
                      /\ \A d \in LiveIn(e)' : \A i \in 1..Len(stack'[e]) : stack'[e][i] # d.ptr
    BY DEF BlocksConserved
  <2>0. /\ free_count[e] = Len(stack[e])
        /\ Len(stack[e]) + Cardinality(LiveIn(e)) = OBJECTS_PER_CLASS
        /\ \A d \in LiveIn(e) : \A i \in 1..Len(stack[e]) : stack[e][i] # d.ptr
    BY <1>1, <1>4 DEF BlocksConserved
  <2>1. CASE e # c
    <3>1. free_count'[e] = free_count[e]
      BY <1>4, <1>5, <2>1 DEF HeapTypes
    <3>2. stack'[e] = stack[e] /\ LiveIn(e)' = LiveIn(e)
      BY <1>9, <1>16, <2>1
    <3> QED BY <2>0, <3>1, <3>2
  <2>2. CASE e = c
    <3>1. free_count'[c] = free_count[c] - 1
      BY <1>3, <1>4, <1>5 DEF HeapTypes
    <3>2. stack'[c] = t /\ LiveIn(c)' = LiveIn(c) \cup {b}
      BY <1>3, <1>9, <1>16
    <3>3. b \notin LiveIn(c)
      BY <1>15 DEF LiveIn
    <3>4. Cardinality(LiveIn(c)') = Cardinality(LiveIn(c)) + 1
      BY <1>3, <1>21, <3>2, <3>3, FS_AddElement
    <3>5. Len(s) \in Nat /\ Cardinality(LiveIn(c)) \in Nat
      BY <1>c, <1>3, <1>7, <1>21
    <3>6. Len(t) + Cardinality(LiveIn(c)') = OBJECTS_PER_CLASS /\ free_count'[c] = Len(t)
      BY <1>c, <1>8, <2>0, <2>2, <3>1, <3>4, <3>5
    <3>7. ASSUME NEW d \in LiveIn(c)', NEW i \in 1..Len(t) PROVE t[i] # d.ptr
      BY <1>c, <1>8, <1>12, <2>0, <2>2, <3>2
    <3> QED BY <2>2, <3>2, <3>6, <3>7
  <2> QED BY <2>1, <2>2
<1> QED BY <1>1, <1>17, <1>18, <1>19, <1>20, <1>22, <1>23 DEF HeapInv, HeapDown

\* SlabAllocator::alloc from the bump region touches no class.
LEMMA AllocBumpStep ==
  ASSUME HeapInv, NEW l \in Layouts, AllocBump(l)
  PROVE  HeapInv'
<1>a. PICK start : start = align_up(current, l.align)
  OBVIOUS
<1>b. PICK b : b = [ptr |-> start, size |-> l.size, align |-> l.align]
  OBVIOUS
<1>1. /\ state = "up" /\ start + l.size <= BumpEnd
      /\ current' = start + l.size /\ live' = live \cup {b}
      /\ UNCHANGED <<state, heap_start, free_head, free_count, mem, stack>>
  BY <1>a, <1>b DEF AllocBump, BumpFits
<1>2. l.size \in Nat \ {0} /\ l.align \in Nat \ {0}
  BY RequestAssumption
<1>3. HeapTypes /\ HeapPlaced /\ HeldBlocks /\ FreeListIntact /\ BlocksConserved
  BY <1>1 DEF HeapInv
<1>4. /\ heap_start \in Nat /\ current \in Nat /\ heap_start + SLAB_REGION_BYTES <= current
      /\ SLAB_REGION_BYTES \in Nat
  BY <1>3, RegionBounds DEF HeapPlaced
<1>5. start \in Nat /\ start >= current
  BY <1>a, <1>2, <1>4, AlignUpFacts
<1>6. b \in [ptr : Nat, size : Nat \ {0}, align : Nat \ {0}] /\ b.ptr = start /\ b.size = l.size
  BY <1>b, <1>2, <1>5
<1>7. \A d \in live : d.ptr \in Nat /\ d.size \in Nat \ {0} /\ d.ptr + d.size <= current
  BY <1>1, HeldBounds
<1>8. \A d \in live : d.ptr # b.ptr
  BY <1>4, <1>5, <1>6, <1>7
<1>9. \A e \in Classes : ~ owns(e, b.ptr)
  <2>1. b.ptr \in Nat /\ b.ptr >= heap_start + SLAB_REGION_BYTES
    BY <1>4, <1>5, <1>6
  <2> QED BY <1>4, <2>1, OwnsNoBump
<1>10. \A e \in Classes : LiveIn(e)' = LiveIn(e)
  <2> SUFFICES ASSUME NEW e \in Classes PROVE LiveIn(e)' = LiveIn(e)
    OBVIOUS
  <2>1. LiveIn(e)' = {d \in live \cup {b} : owns(e, d.ptr)}
    BY <1>1 DEF LiveIn, owns, RegionStart
  <2> QED BY <1>9, <2>1 DEF LiveIn
<1>11. HeapTypes'
  BY <1>1, <1>3 DEF HeapTypes
<1>12. HeapPlaced'
  BY <1>1, <1>2, <1>3, <1>4, <1>5 DEF HeapPlaced, BumpEnd
<1>13. HeldBlocks'
  <2>1. BumpHeld(b)'
    BY <1>1, <1>2, <1>4, <1>5, <1>6 DEF BumpHeld
  <2>2. ASSUME NEW d \in live
        PROVE  /\ d \in [ptr : Nat, size : Nat \ {0}, align : Nat \ {0}]
               /\ SlabHeld(d)' \/ BumpHeld(d)'
    <3>1. d \in [ptr : Nat, size : Nat \ {0}, align : Nat \ {0}] /\ (SlabHeld(d) \/ BumpHeld(d))
      BY <1>3 DEF HeldBlocks
    <3>2. SlabHeld(d) => SlabHeld(d)'
      BY <1>1 DEF SlabHeld
    <3>3. current' \in Nat /\ current <= current'
      BY <1>1, <1>2, <1>4, <1>5
    <3>4. BumpHeld(d) => BumpHeld(d)'
      BY <1>1, <1>4, <1>7, <3>3 DEF BumpHeld
    <3> QED BY <3>1, <3>2, <3>4
  <2>3. \A d, e \in live' : d.ptr = e.ptr => d = e
    BY <1>1, <1>3, <1>8 DEF HeldBlocks
  <2>4. \A d \in live' : /\ d \in [ptr : Nat, size : Nat \ {0}, align : Nat \ {0}]
                         /\ SlabHeld(d)' \/ BumpHeld(d)'
    BY <1>1, <1>6, <2>1, <2>2
  <2> QED BY <2>3, <2>4 DEF HeldBlocks
<1>14. FreeListIntact'
  BY <1>1, <1>3, FreeListFrame
<1>15. BlocksConserved'
  BY <1>1, <1>3, <1>10 DEF BlocksConserved
<1>16. \A e \in Classes : IsFiniteSet(LiveIn(e)')
  BY <1>1, <1>10 DEF HeapInv
<1> QED BY <1>1, <1>11, <1>12, <1>13, <1>14, <1>15, <1>16 DEF HeapInv, HeapDown

\* SlabAllocator::dealloc returns a slab block to its own class, and to no
\* other; a bump block to none.
LEMMA DeallocStep ==
  ASSUME HeapInv, NEW b \in live, Dealloc(b)
  PROVE  HeapInv'
<1>1. /\ state = "up" /\ live' = live \ {b}
      /\ UNCHANGED <<state, heap_start, current>>
  BY DEF Dealloc, HeapInv, HeapDown
<1>2. HeapTypes /\ HeapPlaced /\ HeldBlocks /\ FreeListIntact /\ BlocksConserved
  BY <1>1 DEF HeapInv
<1>3. heap_start \in Nat /\ b.ptr \in Nat
  BY <1>1, <1>2, HeldBounds DEF HeapPlaced
<1>4. \A e \in Classes : LiveIn(e)' = LiveIn(e) \ {b}
  <2> SUFFICES ASSUME NEW e \in Classes PROVE LiveIn(e)' = LiveIn(e) \ {b}
    OBVIOUS
  <2>1. LiveIn(e)' = {d \in live \ {b} : owns(e, d.ptr)}
    BY <1>1 DEF LiveIn, owns, RegionStart
  <2> QED BY <2>1 DEF LiveIn
<1>5. \A e \in Classes : IsFiniteSet(LiveIn(e)) /\ Cardinality(LiveIn(e)) \in Nat
  BY <1>1, FS_CardinalityType DEF HeapInv
<1>6. \A e \in Classes : IsFiniteSet(LiveIn(e)')
  BY <1>4, <1>5, FS_RemoveElement
<1>7. HeldBlocks'
  BY <1>1, <1>2 DEF HeldBlocks, SlabHeld, BumpHeld
<1>8. CASE \A c \in Classes : ~ owns(c, b.ptr)
  <2>1. UNCHANGED <<mem, free_head, free_count, stack>>
    BY <1>8 DEF Dealloc
  <2>2. \A e \in Classes : LiveIn(e)' = LiveIn(e)
    BY <1>4, <1>8 DEF LiveIn
  <2>3. HeapTypes' /\ HeapPlaced'
    BY <1>1, <1>2, <2>1 DEF HeapTypes, HeapPlaced, BumpEnd
  <2>4. FreeListIntact'
    BY <1>1, <1>2, <2>1, FreeListFrame
  <2>5. BlocksConserved'
    BY <1>1, <1>2, <2>1, <2>2 DEF BlocksConserved
  <2> QED BY <1>1, <1>6, <1>7, <2>3, <2>4, <2>5 DEF HeapInv, HeapDown
<1>9. CASE \E c \in Classes : owns(c, b.ptr)
  <2>1. PICK c \in Classes : b.ptr \in BlocksOf(heap_start, c)
    <3>1. SlabHeld(b) \/ BumpHeld(b)
      BY <1>2 DEF HeldBlocks
    <3>2. ~ BumpHeld(b)
      <4> SUFFICES ASSUME BumpHeld(b) PROVE FALSE
        OBVIOUS
      <4>1. b.ptr >= heap_start + SLAB_REGION_BYTES
        BY <1>3, RegionBounds DEF BumpHeld
      <4> QED BY <1>3, <1>9, <4>1, OwnsNoBump
    <3> QED BY <3>1, <3>2 DEF SlabHeld
  <2>2. \A e \in Classes : owns(e, b.ptr) <=> e = c
    BY <1>3, <2>1, OwnsBlock
  <2>3. SlabDealloc(c, b.ptr)
    <3> DEFINE k == CHOOSE e \in Classes : owns(e, b.ptr) /\ \A d \in 1..e-1 : ~owns(d, b.ptr)
    <3>1. SlabDealloc(k, b.ptr)
      BY <1>9 DEF Dealloc
    <3>2. \A d \in 1..c-1 : d \in Classes /\ d # c
      BY OffsetFacts DEF Classes
    <3>3. owns(c, b.ptr) /\ \A d \in 1..c-1 : ~owns(d, b.ptr)
      BY <2>2, <3>2
    <3>4. k \in Classes /\ owns(k, b.ptr)
      BY <3>3
    <3> HIDE DEF k
    <3> QED BY <2>2, <3>1, <3>4
  <2>4. PICK s : s = stack[c]
    OBVIOUS
  <2>5. PICK t : t = <<b.ptr>> \o s
    OBVIOUS
  <2>6. /\ mem' = [mem EXCEPT ![b.ptr] = free_head[c]]
        /\ free_head' = [free_head EXCEPT ![c] = b.ptr]
        /\ free_count' = [free_count EXCEPT ![c] = @ + 1]
        /\ stack' = [stack EXCEPT ![c] = <<b.ptr>> \o @]
    BY <2>3 DEF SlabDealloc
  <2>7. \A e \in Classes : \A i \in 1..Len(stack[e]) :
          stack[e][i] # b.ptr /\ stack[e][i] \in DOMAIN mem
    BY <1>1, HeldNotFree
  <2>8. \A e \in Classes : Threaded(heap_start, e, stack[e], free_head[e], mem)
    BY <1>2, ListsThreaded
  <2>9. s \in Seq(Nat) /\ b.ptr \in DOMAIN mem
    BY <1>2, <2>1, <2>4 DEF HeapTypes, HeapPlaced
  <2>10. /\ t \in Seq(Nat) /\ Len(t) = Len(s) + 1
         /\ t[1] = b.ptr /\ \A i \in 1..Len(s) : t[i + 1] = s[i]
         /\ Threaded(heap_start, c, t, b.ptr, mem')
    <3>1. /\ Threaded(heap_start, c, s, free_head[c], mem)
          /\ \A i \in 1..Len(s) : s[i] # b.ptr /\ s[i] \in DOMAIN mem
      BY <2>4, <2>7, <2>8
    <3>2. /\ <<b.ptr>> \o s \in Seq(Nat) /\ Len(<<b.ptr>> \o s) = Len(s) + 1
          /\ (<<b.ptr>> \o s)[1] = b.ptr /\ \A i \in 1..Len(s) : (<<b.ptr>> \o s)[i + 1] = s[i]
          /\ Threaded(heap_start, c, <<b.ptr>> \o s, b.ptr, [mem EXCEPT ![b.ptr] = free_head[c]])
      BY <1>3, <2>1, <2>9, <3>1, PushThreaded, Zenon
    <3> QED BY <2>5, <2>6, <3>2, Zenon
  <2>11. stack'[c] = t /\ \A e \in Classes : e # c => stack'[e] = stack[e]
    BY <1>2, <2>4, <2>5, <2>6 DEF HeapTypes
  <2>12. HeapTypes'
    <3>1. stack' \in [Classes -> Seq(Nat)]
      BY <1>2, <2>4, <2>5, <2>6, <2>10 DEF HeapTypes
    <3>2. free_head' \in [Classes -> Nat] /\ free_count' \in [Classes -> Nat]
      BY <1>2, <1>3, <2>6 DEF HeapTypes
    <3> QED BY <1>1, <1>2, <3>1, <3>2 DEF HeapTypes
  <2>13. HeapPlaced'
    BY <1>1, <1>2, <2>6 DEF HeapPlaced, BumpEnd
  <2>14. FreeListIntact'
    <3>1. ASSUME NEW e \in Classes
          PROVE  Threaded(heap_start', e, stack'[e], free_head'[e], mem')
      <4>1. CASE e = c
        <5>1. free_head'[c] = b.ptr
          BY <1>2, <2>6 DEF HeapTypes
        <5> QED BY <1>1, <2>10, <2>11, <4>1, <5>1
      <4>2. CASE e # c
        <5>1. free_head'[e] = free_head[e] /\ stack'[e] = stack[e]
          BY <1>2, <2>6, <2>11, <4>2 DEF HeapTypes
        <5>2. Threaded(heap_start, e, stack[e], free_head[e], [mem EXCEPT ![b.ptr] = free_head[c]])
          BY <2>7, <2>8, WriteThreaded
        <5> QED BY <1>1, <2>6, <5>1, <5>2
      <4> QED BY <4>1, <4>2
    <3> QED BY <3>1 DEF FreeListIntact, Threaded
  <2>15. BlocksConserved'
    <3> SUFFICES ASSUME NEW e \in Classes
                 PROVE  /\ free_count'[e] = Len(stack'[e])
                        /\ Len(stack'[e]) + Cardinality(LiveIn(e)') = OBJECTS_PER_CLASS
                        /\ \A d \in LiveIn(e)' : \A i \in 1..Len(stack'[e]) : stack'[e][i] # d.ptr
      BY DEF BlocksConserved
    <3>0. /\ free_count[e] = Len(stack[e])
          /\ Len(stack[e]) + Cardinality(LiveIn(e)) = OBJECTS_PER_CLASS
          /\ \A d \in LiveIn(e) : \A i \in 1..Len(stack[e]) : stack[e][i] # d.ptr
      BY <1>1, <1>2 DEF BlocksConserved
    <3>1. CASE e # c
      <4>1. free_count'[e] = free_count[e] /\ stack'[e] = stack[e]
        BY <1>2, <2>6, <2>11, <3>1 DEF HeapTypes
      <4>2. LiveIn(e)' = LiveIn(e)
        BY <1>4, <2>2, <3>1 DEF LiveIn
      <4> QED BY <3>0, <4>1, <4>2
    <3>2. CASE e = c
      <4>1. free_count'[c] = free_count[c] + 1
        BY <1>2, <2>6 DEF HeapTypes
      <4>2. b \in LiveIn(c)
        BY <2>2 DEF LiveIn
      <4>3. Cardinality(LiveIn(c)') = Cardinality(LiveIn(c)) - 1
        BY <1>4, <1>5, <4>2, FS_RemoveElement
      <4>4. Len(s) \in Nat /\ Cardinality(LiveIn(c)) \in Nat
        BY <1>5, <2>9
      <4>5. free_count'[c] = Len(t) /\ Len(t) + Cardinality(LiveIn(c)') = OBJECTS_PER_CLASS
        BY <2>4, <2>10, <3>0, <3>2, <4>1, <4>3, <4>4
      <4>6. ASSUME NEW d \in LiveIn(c)', NEW i \in 1..Len(t) PROVE t[i] # d.ptr
        <5>1. d \in LiveIn(c) /\ d # b /\ d \in live
          BY <1>4, <4>6 DEF LiveIn
        <5>2. CASE i = 1
          BY <1>2, <2>10, <5>1, <5>2 DEF HeldBlocks
        <5>3. CASE i # 1
          <6>1. i - 1 \in 1..Len(s) /\ (i - 1) + 1 = i
            BY <2>10, <4>4, <5>3
          <6>2. t[i] = s[i - 1]
            BY <2>10, <6>1
          <6> QED BY <2>4, <3>0, <3>2, <5>1, <6>1, <6>2
        <5> QED BY <5>2, <5>3
      <4> QED BY <2>11, <3>2, <4>5, <4>6
    <3> QED BY <3>1, <3>2
  <2> QED BY <1>1, <1>6, <1>7, <2>12, <2>13, <2>14, <2>15 DEF HeapInv, HeapDown
<1> QED BY <1>8, <1>9

\* What an owner writes into its block reaches no free list.
LEMMA WriteStep ==
  ASSUME HeapInv, NEW b \in live, NEW w, Write(b, w)
  PROVE  HeapInv'
<1>1. /\ mem' = [mem EXCEPT ![b.ptr] = w]
      /\ UNCHANGED <<state, heap_start, free_head, free_count, current, live, stack>>
  BY DEF Write
<1>2. state = "up"
  BY DEF HeapInv, HeapDown
<1>3. HeapTypes /\ HeapPlaced /\ HeldBlocks /\ FreeListIntact /\ BlocksConserved
  BY <1>2 DEF HeapInv
<1>4. \A e \in Classes : LiveIn(e)' = LiveIn(e)
  BY <1>1 DEF LiveIn, owns, RegionStart
<1>5. FreeListIntact'
  <2>1. \A e \in Classes : Threaded(heap_start, e, stack[e], free_head[e], mem)
    BY <1>3, ListsThreaded
  <2>2. ASSUME NEW e \in Classes
        PROVE  Threaded(heap_start, e, stack[e], free_head[e], mem')
    <3>1. \A i \in 1..Len(stack[e]) : stack[e][i] # b.ptr /\ stack[e][i] \in DOMAIN mem
      BY <1>2, HeldNotFree
    <3>2. Threaded(heap_start, e, stack[e], free_head[e], [mem EXCEPT ![b.ptr] = w])
      BY <2>1, <3>1, WriteThreaded
    <3> QED BY <1>1, <3>2
  <2> QED BY <1>1, <2>2 DEF FreeListIntact, Threaded
<1>6. HeapTypes' /\ HeapPlaced'
  BY <1>1, <1>3 DEF HeapTypes, HeapPlaced, BumpEnd
<1>7. HeldBlocks'
  BY <1>1, <1>3 DEF HeldBlocks, SlabHeld, BumpHeld
<1>8. BlocksConserved'
  BY <1>1, <1>3, <1>4 DEF BlocksConserved
<1>9. \A e \in Classes : IsFiniteSet(LiveIn(e)')
  BY <1>2, <1>4 DEF HeapInv
<1> QED BY <1>1, <1>2, <1>5, <1>6, <1>7, <1>8, <1>9 DEF HeapInv, HeapDown

-----------------------------------------------------------------------------
(* Theorems.                                                               *)

\* The invariant holds in every state of the heap, for every set of classes,
\* memory map and sequence of requests.
THEOREM HeapInvariant == Spec => []HeapInv
<1>1. Init => HeapInv
  <2> SUFFICES ASSUME Init PROVE HeapInv
    OBVIOUS
  <2>1. \A c \in Classes : stack[c] = <<>> /\ free_head[c] = 0
    BY DEF Init
  <2>2. HeapTypes
    BY DEF Init, HeapTypes
  <2>3. FreeListIntact
    BY <2>1 DEF FreeListIntact
  <2> QED BY <2>1, <2>2, <2>3 DEF Init, HeapInv, HeapDown, BlocksConserved
<1>2. HeapInv /\ [Next]_vars => HeapInv'
  <2> SUFFICES ASSUME HeapInv, [Next]_vars PROVE HeapInv'
    OBVIOUS
  <2>1. ASSUME NEW m \in MemoryMaps, Boot(m) PROVE HeapInv'
    BY <2>1, BootStep
  <2>2. ASSUME NEW l \in Layouts, AllocSlab(l) PROVE HeapInv'
    BY <2>2, AllocSlabStep
  <2>3. ASSUME NEW l \in Layouts, AllocBump(l) PROVE HeapInv'
    BY <2>3, AllocBumpStep
  <2>4. ASSUME NEW b \in live, Dealloc(b) PROVE HeapInv'
    BY <2>4, DeallocStep
  <2>5. ASSUME NEW b \in live, NEW w \in Junk, Write(b, w) PROVE HeapInv'
    BY <2>5, WriteStep
  <2>6. CASE UNCHANGED vars
    <3>1. HeapTypes' = HeapTypes /\ FreeListIntact' = FreeListIntact
      BY <2>6 DEF vars, HeapTypes, FreeListIntact
    <3>2. \A c \in Classes : LiveIn(c)' = LiveIn(c)
      BY <2>6 DEF vars, LiveIn, owns, RegionStart
    <3>3. HeldBlocks' = HeldBlocks /\ HeapPlaced' = HeapPlaced
      BY <2>6 DEF vars, HeldBlocks, HeapPlaced, SlabHeld, BumpHeld, BumpEnd
    <3>4. BlocksConserved' = BlocksConserved
      BY <2>6, <3>2 DEF vars, BlocksConserved
    <3> QED BY <2>6, <3>1, <3>2, <3>3, <3>4 DEF vars, HeapInv, HeapDown
  <2> QED BY <2>1, <2>2, <2>3, <2>4, <2>5, <2>6 DEF Next
<1> QED BY <1>1, <1>2, PTL DEF Spec

\* SlabClass: whatever the owners write into the blocks they hold, following
\* the words from free_head visits exactly the free blocks of the class.
THEOREM FreeListsStayIntact == Spec => []FreeListIntact
<1>1. HeapInv => FreeListIntact
  BY DEF HeapInv
<1> QED BY <1>1, HeapInvariant, PTL

\* free_count is right, and a block is on its list or in one caller's hands.
THEOREM NoBlockLost == Spec => []BlocksConserved
<1>1. HeapInv => BlocksConserved
  BY DEF HeapInv
<1> QED BY <1>1, HeapInvariant, PTL

-----------------------------------------------------------------------------
(* The heap implements Heap.                                               *)

\* The upper end of the heap, as the refinement maps it.
Top == IF state = "up" THEN heap_start + HEAP_SIZE ELSE 0

\* Boot is Place, or a stutter when it panics.
LEMMA BootPlaces ==
  ASSUME HeapInv, NEW m \in MemoryMaps, Boot(m)
  PROVE  HeapSpec!Place \/ UNCHANGED <<heap_start, Top, live>>
<1>0. state = "boot" /\ heap_start = 0
  BY DEF Boot, HeapInv, HeapDown
<1>1. CASE Candidates(m) = {}
  <2>1. state' = "panic" /\ UNCHANGED <<heap_start, live>>
    BY <1>1 DEF Boot
  <2> QED BY <1>0, <2>1 DEF Top
<1>2. CASE Candidates(m) # {}
  <2>1. PICK r \in Candidates(m) : HeapRegion(m) = m[r]
    BY <1>2, RegionChosen
  <2>2. r \in 1..Len(m) /\ m[r].kind = "usable" /\ m[r].end - m[r].start >= HEAP_SIZE
    BY <2>1 DEF Candidates
  <2>3. state' = "up" /\ heap_start' = m[r].start /\ live' = live
    BY <1>2, <2>1, Zenon DEF Boot
  <2>4. m[r].start \in Nat \ {0} /\ m[r].end \in Nat /\ HEAP_SIZE \in Nat
    BY <2>2, RegionAssumption
  <2>5. HEAP_SIZE > 0
    BY RegionBounds, RegionAssumption
  <2>6. /\ heap_start' < heap_start' + HEAP_SIZE
        /\ m[r].start <= heap_start' /\ heap_start' + HEAP_SIZE <= m[r].end
    BY <2>2, <2>3, <2>4, <2>5
  <2>7. HeapSpec!Place
    BY <1>0, <2>2, <2>3, <2>6 DEF HeapSpec!Place
  <2> QED BY <2>7
<1> QED BY <1>1, <1>2

\* A slab block is aligned, in the heap, and overlaps no block that is held.
LEMMA AllocSlabAllocates ==
  ASSUME HeapInv, NEW l \in Layouts, AllocSlab(l)
  PROVE  HeapSpec!Allocate(l)
<1>a. PICK c : c = CHOOSE d \in Serving(l) : \A e \in Serving(l) : d <= e
  OBVIOUS
<1>b. PICK p : p = free_head[c]
  OBVIOUS
<1>c. PICK b : b = [ptr |-> p, size |-> l.size, align |-> l.align]
  OBVIOUS
<1>1. /\ state = "up" /\ Serving(l) # {} /\ UNCHANGED <<state, heap_start>>
      /\ live' = live \cup {b}
  BY <1>a, <1>b, <1>c DEF AllocSlab
<1>2. /\ c \in Classes /\ p # 0 /\ stack[c] # <<>>
      /\ l.size <= SLAB_SIZES[c] /\ l.align <= SLAB_SIZES[c]
  BY <1>1, <1>a, <1>b, ServingClass
<1>3. HeapTypes /\ HeapPlaced /\ HeldBlocks /\ FreeListIntact
  BY <1>1 DEF HeapInv
<1>4. 1 \in 1..Len(stack[c]) /\ p = stack[c][1]
  <2>1. Len(stack[c]) \in Nat \ {0}
    BY <1>2, <1>3, EmptySeq DEF HeapTypes
  <2>2. p = stack[c][1]
    BY <1>b, <1>2, <1>3 DEF FreeListIntact
  <2> QED BY <2>1, <2>2
<1>5. p \in BlocksOf(heap_start, c)
  BY <1>2, <1>3, <1>4 DEF FreeListIntact
<1>6. heap_start \in Nat /\ heap_start % SLAB_SIZES[c] = 0
  BY <1>2, <1>3 DEF HeapPlaced
<1>7. /\ l.size \in Nat \ {0} /\ l.align \in Nat \ {0} /\ SLAB_SIZES[c] % l.align = 0
      /\ HEAP_SIZE \in Nat /\ HEAP_SIZE > SLAB_REGION_BYTES /\ SLAB_REGION_BYTES \in Nat
      /\ SLAB_SIZES[c] \in Nat \ {0} /\ Offset[c] \in Nat
  BY <1>2, RequestAssumption, RegionAssumption, RegionBounds
<1>8. /\ p \in Nat /\ heap_start + Offset[c] <= p
      /\ p + SLAB_SIZES[c] <= heap_start + SLAB_REGION_BYTES
      /\ p % SLAB_SIZES[c] = 0
  BY <1>2, <1>5, <1>6, BlocksBounds
<1>9. p % l.align = 0
  BY <1>7, <1>8, DividesMultiple
<1>10. p + l.size <= heap_start + HEAP_SIZE /\ p \in heap_start..((heap_start + HEAP_SIZE) - 1)
  BY <1>2, <1>6, <1>7, <1>8
<1>11. b.ptr = p /\ b.size = l.size
  BY <1>c
<1>12. ASSUME NEW d \in live PROVE p + l.size <= d.ptr \/ d.ptr + d.size <= p
  <2>1. d.ptr \in Nat /\ d.size \in Nat \ {0}
    BY <1>1, HeldBounds
  <2>2. CASE BumpHeld(d)
    <3>1. heap_start + SLAB_REGION_BYTES <= d.ptr
      BY <2>2 DEF BumpHeld
    <3> QED BY <1>2, <1>6, <1>7, <1>8, <2>1, <3>1
  <2>3. CASE SlabHeld(d)
    <3>1. PICK e \in Classes : d.ptr \in BlocksOf(heap_start, e) /\ d.size <= SLAB_SIZES[e]
      BY <2>3 DEF SlabHeld
    <3>2. p # d.ptr
      BY <1>1, <1>2, <1>4, HeldNotFree
    <3>3. p + SLAB_SIZES[c] <= d.ptr \/ d.ptr + SLAB_SIZES[e] <= p
      BY <1>2, <1>5, <1>6, <3>1, <3>2, BlocksApart
    <3>4. SLAB_SIZES[e] \in Nat
      BY RegionBounds
    <3> QED BY <1>2, <1>7, <1>8, <2>1, <3>1, <3>3, <3>4
  <2> QED BY <1>3, <2>2, <2>3 DEF HeldBlocks
<1>13. \A d \in live : ~ HeapSpec!Overlap(b, d)
  <2> SUFFICES ASSUME NEW d \in live PROVE ~ HeapSpec!Overlap(b, d)
    OBVIOUS
  <2>1. d.ptr \in Nat /\ d.size \in Nat
    BY <1>1, HeldBounds
  <2> QED BY <1>7, <1>8, <1>11, <1>12, <2>1 DEF HeapSpec!Overlap
<1>14. heap_start' = heap_start /\ state' = "up"
  BY <1>1
<1> QED BY <1>1, <1>9, <1>10, <1>13, <1>14, <1>c DEF HeapSpec!Allocate

\* So is a block of the bump region.
LEMMA AllocBumpAllocates ==
  ASSUME HeapInv, NEW l \in Layouts, AllocBump(l)
  PROVE  HeapSpec!Allocate(l)
<1>a. PICK p : p = align_up(current, l.align)
  OBVIOUS
<1>b. PICK b : b = [ptr |-> p, size |-> l.size, align |-> l.align]
  OBVIOUS
<1>1. /\ state = "up" /\ p + l.size <= heap_start + HEAP_SIZE
      /\ live' = live \cup {b} /\ UNCHANGED <<state, heap_start>>
  BY <1>a, <1>b DEF AllocBump, BumpFits, BumpEnd
<1>2. l.size \in Nat \ {0} /\ l.align \in Nat \ {0} /\ HEAP_SIZE \in Nat
  BY RequestAssumption, RegionAssumption
<1>3. /\ heap_start \in Nat /\ current \in Nat /\ heap_start + SLAB_REGION_BYTES <= current
      /\ SLAB_REGION_BYTES \in Nat
  BY <1>1, RegionBounds DEF HeapInv, HeapPlaced
<1>4. p \in Nat /\ p >= current /\ p % l.align = 0
  BY <1>a, <1>2, <1>3, AlignUpFacts
<1>5. p \in heap_start..((heap_start + HEAP_SIZE) - 1)
  BY <1>1, <1>2, <1>3, <1>4
<1>6. b.ptr = p /\ b.size = l.size
  BY <1>b
<1>7. \A d \in live : ~ HeapSpec!Overlap(b, d)
  <2> SUFFICES ASSUME NEW d \in live PROVE ~ HeapSpec!Overlap(b, d)
    OBVIOUS
  <2>1. d.ptr \in Nat /\ d.size \in Nat /\ d.ptr + d.size <= current
    BY <1>1, HeldBounds
  <2> QED BY <1>2, <1>3, <1>4, <1>6, <2>1 DEF HeapSpec!Overlap
<1>8. heap_start' = heap_start /\ state' = "up"
  BY <1>1
<1> QED BY <1>1, <1>4, <1>5, <1>7, <1>8, <1>b DEF HeapSpec!Allocate

\* The kernel heap keeps the promise of GlobalAlloc: every block it hands out
\* is aligned, lies in the heap, which lies in usable memory, and overlaps no
\* block still held. Init maps to Heap's Init and every step to a step of
\* Heap: boot to Place, both ways to allocate to Allocate, dealloc to Release,
\* a panic and a write of an owner to a stutter.
THEOREM HeapKeepsPromise == Spec => ImplementsHeap
<1>1. Init => HeapSpec!Init
  BY DEF Init, HeapSpec!Init
<1>2. HeapInv /\ [Next]_vars => [HeapSpec!Next]_(HeapSpec!vars)
  <2> SUFFICES ASSUME HeapInv, [Next]_vars PROVE HeapSpec!Next \/ UNCHANGED HeapSpec!vars
    OBVIOUS
  <2>1. ASSUME NEW m \in MemoryMaps, Boot(m) PROVE HeapSpec!Next \/ UNCHANGED HeapSpec!vars
    BY <2>1, BootPlaces DEF HeapSpec!Next, HeapSpec!vars, Top
  <2>2. ASSUME NEW l \in Layouts, AllocSlab(l) \/ AllocBump(l) PROVE HeapSpec!Next
    BY <2>2, AllocSlabAllocates, AllocBumpAllocates DEF HeapSpec!Next
  <2>3. ASSUME NEW b \in live, Dealloc(b) PROVE HeapSpec!Next
    <3>1. live' = live \ {b} /\ UNCHANGED <<state, heap_start>>
      BY <2>3 DEF Dealloc
    <3>2. HeapSpec!Release(b)
      BY <3>1 DEF HeapSpec!Release
    <3> QED BY <3>2 DEF HeapSpec!Next
  <2>4. ASSUME NEW b \in live, NEW w \in Junk, Write(b, w) PROVE UNCHANGED HeapSpec!vars
    BY <2>4 DEF Write, HeapSpec!vars
  <2>5. CASE UNCHANGED vars
    BY <2>5 DEF vars, HeapSpec!vars
  <2> QED BY <2>1, <2>2, <2>3, <2>4, <2>5 DEF Next
<1> QED BY <1>1, <1>2, HeapInvariant, PTL DEF Spec, ImplementsHeap, HeapSpec!Spec

=============================================================================
