--------------------------- MODULE KeyRingProofs ----------------------------
(***************************************************************************)
(* Proofs about KeyRing for every capacity, byte set and bound: the type   *)
(* invariant, the FIFO property of the ring, the byte drain holds and the  *)
(* rule that a byte is dropped only when the ring is full.                 *)
(***************************************************************************)
EXTENDS KeyRing, TLAPS

\* How many bytes have left the ring.
Out == IF mpc = "push" THEN Len(delivered) + 1 ELSE Len(delivered)

\* Every byte still in the ring is the accepted byte of its position.
RingHoldsAccepted ==
  /\ Len(accepted) = Out + Used
  /\ \A k \in 0..CAP-1 : k < Used => buf[Slot(k)] = accepted[Out + k + 1]

\* The main loop's view: what it delivered and what it holds.
MainInOrder ==
  /\ \A i \in 1..Len(delivered) : delivered[i] = accepted[i]
  /\ mpc \in {"read", "store"} => Used > 0
  /\ mpc = "store" => byte = buf[tail]
  /\ mpc = "push" => byte = accepted[Len(delivered) + 1]

\* The inductive invariant.
RingInv == TypeOK /\ RingHoldsAccepted /\ MainInOrder

-----------------------------------------------------------------------------

\* The masked increment without its modulus.
LEMMA AdvanceIsWrap ==
  ASSUME NEW i \in 0..CAP-1
  PROVE  /\ Advance(i) = IF i = CAP - 1 THEN 0 ELSE i + 1
         /\ Advance(i) \in 0..CAP-1
BY CapAssumption, Z3 DEF Advance

\* A handler's bytes are a sequence of bytes.
LEMMA KeysAreBytes ==
  ASSUME NEW keys \in BoundedSeq(Byte, MaxKeys)
  PROVE  keys \in Seq(Byte)
BY BoundAssumption DEF BoundedSeq, SeqOf

\* A push into a ring that is not full adds one byte, behind the others.
LEMMA UsedAfterPush ==
  ASSUME TypeOK, Advance(head) # tail, head' = Advance(head), tail' = tail
  PROVE  /\ Used' = Used + 1 /\ Used' <= CAP - 1
         /\ Slot(Used) = head
         /\ \A k \in 0..CAP-1 : k < Used => Slot(k) # head /\ Slot(k) \in 0..CAP-1
<1>1. head' = IF head = CAP - 1 THEN 0 ELSE head + 1
  BY AdvanceIsWrap DEF TypeOK
<1> QED BY <1>1, CapAssumption DEF TypeOK, Used, Slot

\* Storing the tail removes the oldest byte and shifts the others.
LEMMA UsedAfterTake ==
  ASSUME TypeOK, Used > 0, tail' = Advance(tail), head' = head
  PROVE  /\ Used = Used' + 1 /\ Used' \in 0..CAP-1
         /\ Slot(0) = tail
         /\ \A k \in 0..CAP-1 : k < Used' => k + 1 < CAP /\ k + 1 < Used /\ Slot(k)' = Slot(k + 1)
<1>1. tail' = IF tail = CAP - 1 THEN 0 ELSE tail + 1
  BY AdvanceIsWrap DEF TypeOK
<1> QED BY <1>1, CapAssumption DEF TypeOK, Used, Slot

\* The ring never holds more than CAP - 1 bytes, and its slots are slots.
LEMMA UsedType ==
  ASSUME TypeOK
  PROVE  /\ Used \in 0..CAP-1
         /\ \A k \in 0..CAP-1 : Slot(k) \in 0..CAP-1
         /\ Used = 0 <=> head = tail
         /\ Slot(0) = tail
BY CapAssumption, Z3 DEF TypeOK, Used, Slot

-----------------------------------------------------------------------------

\* Every interleaving of handlers and main loop keeps the ring's contents,
\* the byte drain holds and the delivered bytes in step with the accepted
\* ones: the invariant the theorems below rest on.
THEOREM RingInvariant == Spec => []RingInv
<1>1. Init => RingInv
  BY CapAssumption DEF Init, RingInv, TypeOK, MainPC, RingHoldsAccepted,
                       MainInOrder, Out, Used
<1>2. RingInv /\ [Next]_vars => RingInv'
  <2> SUFFICES ASSUME RingInv, [Next]_vars PROVE RingInv'
    OBVIOUS
  <2> USE CapAssumption
  <2>0. TypeOK /\ RingHoldsAccepted /\ MainInOrder
    BY DEF RingInv
  <2>1. CASE Irq
    <3>1. PICK keys \in BoundedSeq(Byte, MaxKeys) : Interrupt(keys)
      BY <2>1 DEF Irq
    <3>2. keys \in Seq(Byte)
      BY KeysAreBytes
    <3>3. TypeOK'
      BY <2>0, <3>1, <3>2 DEF Interrupt, TypeOK, MainPC
    <3>4. /\ Used' = Used /\ Out' = Out
          /\ \A k : Slot(k)' = Slot(k)
      BY <3>1 DEF Interrupt, Used, Out, Slot
    <3>5. RingHoldsAccepted'
      BY <2>0, <3>1, <3>4 DEF Interrupt, RingHoldsAccepted
    <3>6. MainInOrder'
      BY <2>0, <3>1, <3>4 DEF Interrupt, MainInOrder
    <3> QED BY <3>3, <3>5, <3>6 DEF RingInv
  <2>2. CASE IsrPush
    <3>1. Head(isr) \in Byte /\ Tail(isr) \in Seq(Byte)
      BY <2>0, <2>2 DEF IsrPush, TypeOK
    <3>2. TypeOK'
      <4>1. CASE Advance(head) = tail
        BY <2>0, <2>2, <3>1, <4>1 DEF TypeOK, IsrPush, rb_push, mainv
      <4>2. CASE Advance(head) # tail
        <5>1. Advance(head) \in 0..CAP-1
          BY <2>0, AdvanceIsWrap DEF TypeOK
        <5>2. buf' \in [0..CAP-1 -> Byte \cup {0}]
          BY <2>0, <2>2, <3>1, <4>2 DEF TypeOK, IsrPush, rb_push
        <5>3. /\ head' = Advance(head) /\ isr' = Tail(isr)
              /\ accepted' = Append(accepted, Head(isr))
              /\ UNCHANGED <<dropped, tail, mpc, byte, delivered>>
          BY <2>2, <4>2 DEF IsrPush, rb_push, mainv
        <5>4. accepted' \in Seq(Byte)
          BY <2>0, <3>1, <5>3 DEF TypeOK
        <5> QED BY <2>0, <3>1, <5>1, <5>2, <5>3, <5>4 DEF TypeOK
      <4> QED BY <4>1, <4>2
    <3>3. CASE Advance(head) = tail
      <4>1. UNCHANGED <<buf, head, accepted, tail, mpc, byte, delivered>>
        BY <2>2, <3>3 DEF IsrPush, rb_push, mainv
      <4>2. RingHoldsAccepted' /\ MainInOrder'
        BY <2>0, <4>1 DEF RingHoldsAccepted, MainInOrder, Used, Out, Slot
      <4> QED BY <3>2, <4>2 DEF RingInv
    <3>4. CASE Advance(head) # tail
      <4>1. /\ buf' = [buf EXCEPT ![head] = Head(isr)]
            /\ head' = Advance(head)
            /\ accepted' = Append(accepted, Head(isr))
            /\ UNCHANGED <<tail, mpc, byte, delivered>>
        BY <2>2, <3>4 DEF IsrPush, rb_push, mainv
      <4>2. /\ Used' = Used + 1 /\ Used' <= CAP - 1
            /\ Slot(Used) = head
            /\ \A k \in 0..CAP-1 : k < Used => Slot(k) # head /\ Slot(k) \in 0..CAP-1
        BY <2>0, <3>4, <4>1, UsedAfterPush
      <4>3. Out' = Out /\ Out \in Nat /\ \A k : Slot(k)' = Slot(k)
        BY <2>0, <4>1 DEF Out, Slot, TypeOK
      <4>4. /\ Len(accepted') = Len(accepted) + 1
            /\ accepted'[Len(accepted) + 1] = Head(isr)
            /\ \A i \in 1..Len(accepted) : accepted'[i] = accepted[i]
        BY <2>0, <3>1, <4>1 DEF TypeOK
      <4>5. Used \in 0..CAP-1 /\ Len(accepted) = Out + Used /\ Len(accepted) \in Nat
        BY <2>0, UsedType DEF RingHoldsAccepted, TypeOK
      <4>6. RingHoldsAccepted'
        <5>1. Len(accepted)' = Out' + Used'
          BY <4>2, <4>3, <4>4, <4>5
        <5>2. ASSUME NEW k \in 0..CAP-1, k < Used'
              PROVE  buf'[Slot(k)'] = accepted'[Out' + k + 1]
          <6>1. CASE k = Used
            <7>1. buf'[head] = Head(isr)
              BY <2>0, <4>1 DEF TypeOK
            <7> QED BY <6>1, <7>1, <4>2, <4>3, <4>4, <4>5
          <6>2. CASE k < Used
            <7>1. buf[Slot(k)] = accepted[Out + k + 1]
              BY <2>0, <6>2 DEF RingHoldsAccepted
            <7>2. buf'[Slot(k)] = buf[Slot(k)]
              BY <2>0, <4>1, <4>2, <6>2 DEF TypeOK
            <7>3. Out + k + 1 \in 1..Len(accepted)
              BY <4>3, <4>5, <6>2
            <7> QED BY <7>1, <7>2, <7>3, <4>3, <4>4
          <6> QED BY <5>2, <6>1, <6>2, <4>2, <4>5
        <5> QED BY <5>1, <5>2 DEF RingHoldsAccepted
      <4>7. MainInOrder'
        <5>1. Len(delivered) \in Nat /\ Len(delivered) <= Out
          BY <2>0 DEF Out, TypeOK
        <5>2. \A i \in 1..Len(delivered') : delivered'[i] = accepted'[i]
          <6>1. \A i \in 1..Len(delivered) : i \in 1..Len(accepted)
            BY <4>5, <4>3, <5>1
          <6> QED BY <2>0, <4>1, <4>4, <6>1 DEF MainInOrder
        <5>3. mpc' = "store" => byte' = buf'[tail']
          <6>1. mpc = "store" => Slot(0) = tail /\ tail # head /\ byte = buf[tail]
            BY <2>0, UsedType DEF MainInOrder
          <6> QED BY <2>0, <4>1, <6>1 DEF TypeOK
        <5>4. mpc' = "push" => byte' = accepted'[Len(delivered') + 1]
          <6>1. mpc = "push" => Len(delivered) + 1 \in 1..Len(accepted)
            BY <4>5, <5>1 DEF Out
          <6> QED BY <2>0, <4>1, <4>4, <6>1 DEF MainInOrder
        <5>5. mpc' \in {"read", "store"} => Used' > 0
          BY <4>2, <4>5
        <5> QED BY <5>2, <5>3, <5>4, <5>5 DEF MainInOrder
      <4> QED BY <3>2, <4>6, <4>7 DEF RingInv
    <3> QED BY <3>3, <3>4
  <2>3. CASE Main
    <3>0. UNCHANGED <<buf, head, isr, accepted, dropped>>
      BY <2>3 DEF Main
    <3>a. Used \in 0..CAP-1 /\ (Used = 0 <=> head = tail) /\ Slot(0) = tail
      BY <2>0, UsedType
    <3>1. CASE DrainCheck
      <4>1. UNCHANGED <<tail, byte, delivered>> /\ mpc = "check" /\ mpc' \in {"idle", "read"}
        BY <3>1 DEF DrainCheck
      <4>2. TypeOK'
        BY <2>0, <3>0, <4>1 DEF TypeOK, MainPC
      <4>3. Used' = Used /\ Out' = Out /\ \A k : Slot(k)' = Slot(k)
        BY <3>0, <4>1 DEF Used, Out, Slot
      <4>4. RingHoldsAccepted'
        BY <2>0, <3>0, <4>1, <4>3 DEF RingHoldsAccepted
      <4>5. mpc' = "read" => Used' > 0
        BY <3>1, <3>a, <4>3 DEF DrainCheck
      <4>6. MainInOrder'
        BY <2>0, <3>0, <4>1, <4>5 DEF MainInOrder
      <4> QED BY <4>2, <4>4, <4>6 DEF RingInv
    <3>2. CASE DrainRead
      <4>1. /\ UNCHANGED <<tail, delivered>> /\ mpc = "read" /\ mpc' = "store"
            /\ byte' = buf[tail]
        BY <3>2 DEF DrainRead
      <4>2. TypeOK'
        BY <2>0, <3>0, <4>1 DEF TypeOK, MainPC
      <4>3. Used' = Used /\ Out' = Out /\ \A k : Slot(k)' = Slot(k)
        BY <3>0, <4>1 DEF Used, Out, Slot
      <4>4. RingHoldsAccepted' /\ MainInOrder'
        BY <2>0, <3>0, <4>1, <4>3 DEF RingHoldsAccepted, MainInOrder
      <4> QED BY <4>2, <4>4 DEF RingInv
    <3>3. CASE DrainStore
      <4>1. /\ UNCHANGED <<byte, delivered>> /\ mpc = "store" /\ mpc' = "push"
            /\ tail' = Advance(tail)
        BY <3>3 DEF DrainStore
      <4>2. TypeOK'
        BY <2>0, <3>0, <4>1, AdvanceIsWrap DEF TypeOK, MainPC
      <4>3. Used > 0 /\ byte = buf[tail]
        BY <2>0, <4>1 DEF MainInOrder
      <4>4. /\ Used = Used' + 1 /\ Used' \in 0..CAP-1
            /\ \A k \in 0..CAP-1 : k < Used' => k + 1 < CAP /\ k + 1 < Used /\ Slot(k)' = Slot(k + 1)
        BY <2>0, <3>0, <4>1, <4>3, UsedAfterTake
      <4>5. Out' = Out + 1 /\ Out = Len(delivered) /\ Out \in Nat
        BY <2>0, <4>1 DEF Out, TypeOK
      <4>6. byte = accepted[Len(delivered) + 1]
        <5>1. 0 \in 0..CAP-1 /\ buf[Slot(0)] = accepted[Out + 0 + 1]
          BY <2>0, <4>3 DEF RingHoldsAccepted
        <5> QED BY <3>a, <4>3, <4>5, <5>1
      <4>7. RingHoldsAccepted'
        <5>1. Len(accepted') = Out' + Used'
          BY <2>0, <3>0, <3>a, <4>4, <4>5 DEF RingHoldsAccepted
        <5>2. ASSUME NEW k \in 0..CAP-1, k < Used'
              PROVE  buf'[Slot(k)'] = accepted'[Out' + k + 1]
          <6>1. k + 1 \in 0..CAP-1 /\ k + 1 < Used /\ Slot(k)' = Slot(k + 1)
            <7>1. k + 1 < CAP /\ k + 1 < Used /\ Slot(k)' = Slot(k + 1)
              BY <4>4, <5>2, Zenon
            <7> QED BY <7>1
          <6>2. buf[Slot(k + 1)] = accepted[Out + (k + 1) + 1]
            BY <2>0, <6>1 DEF RingHoldsAccepted
          <6>3. Out + (k + 1) + 1 = Out' + k + 1
            BY <4>5
          <6> QED BY <3>0, <6>1, <6>2, <6>3
        <5> QED BY <5>1, <5>2 DEF RingHoldsAccepted
      <4>8. MainInOrder'
        BY <2>0, <3>0, <4>1, <4>6 DEF MainInOrder
      <4> QED BY <4>2, <4>7, <4>8 DEF RingInv
    <3>4. CASE DrainPush
      <4>1. /\ UNCHANGED <<tail, byte>> /\ mpc = "push" /\ mpc' = "check"
            /\ delivered' = Append(delivered, byte)
        BY <3>4 DEF DrainPush
      <4>2. byte = accepted[Len(delivered) + 1] /\ Out = Len(delivered) + 1
        BY <2>0, <4>1 DEF MainInOrder, Out
      <4>3. Len(delivered) \in Nat /\ Len(delivered) + 1 <= Len(accepted)
        BY <2>0, <3>a, <4>2 DEF RingHoldsAccepted, TypeOK
      <4>4. byte \in Byte
        BY <2>0, <4>2, <4>3 DEF TypeOK
      <4>5. TypeOK'
        BY <2>0, <3>0, <4>1, <4>4 DEF TypeOK, MainPC
      <4>6. /\ Len(delivered') = Len(delivered) + 1
            /\ delivered'[Len(delivered) + 1] = byte
            /\ \A i \in 1..Len(delivered) : delivered'[i] = delivered[i]
        BY <2>0, <4>1, <4>4 DEF TypeOK
      <4>7. Used' = Used /\ Out' = Out /\ \A k : Slot(k)' = Slot(k)
        BY <3>0, <4>1, <4>2, <4>6 DEF Used, Out, Slot
      <4>8. RingHoldsAccepted'
        BY <2>0, <3>0, <4>1, <4>7 DEF RingHoldsAccepted
      <4>9. \A i \in 1..Len(delivered') : delivered'[i] = accepted[i]
        BY <2>0, <4>2, <4>3, <4>6 DEF MainInOrder
      <4>10. MainInOrder'
        BY <3>0, <4>1, <4>9 DEF MainInOrder
      <4> QED BY <4>5, <4>8, <4>10 DEF RingInv
    <3>5. CASE Halt
      <4>1. UNCHANGED <<tail, byte, delivered>> /\ mpc = "idle" /\ mpc' = "hlt"
        BY <3>5 DEF Halt
      <4>2. TypeOK'
        BY <2>0, <3>0, <4>1 DEF TypeOK, MainPC
      <4>3. Used' = Used /\ Out' = Out /\ \A k : Slot(k)' = Slot(k)
        BY <3>0, <4>1 DEF Used, Out, Slot
      <4>4. RingHoldsAccepted' /\ MainInOrder'
        BY <2>0, <3>0, <4>1, <4>3 DEF RingHoldsAccepted, MainInOrder
      <4> QED BY <4>2, <4>4 DEF RingInv
    <3> QED BY <2>3, <3>1, <3>2, <3>3, <3>4, <3>5 DEF Main
  <2>4. CASE UNCHANGED vars
    BY <2>0, <2>4 DEF vars, RingInv, TypeOK, RingHoldsAccepted, MainInOrder, Used, Out, Slot
  <2> QED BY <2>1, <2>2, <2>3, <2>4 DEF Next
<1> QED BY <1>1, <1>2, PTL DEF Spec

\* The indices, the histories and the program counter keep their types; no
\* index ever leaves the buffer.
THEOREM TypeCorrect == Spec => []TypeOK
<1>1. RingInv => TypeOK
  BY DEF RingInv
<1> QED BY <1>1, RingInvariant, PTL

\* Two sequences of the same length that agree at every index are equal.
LEMMA SeqExtensional ==
  ASSUME NEW S, NEW s \in Seq(S), NEW t \in Seq(S), Len(s) = Len(t),
         \A i \in 1..Len(t) : s[i] = t[i]
  PROVE  s = t
OBVIOUS

\* No byte is lost, duplicated or overwritten between the handlers and the
\* shell: delivered bytes, the byte in drain's hands and the ring's contents
\* are the accepted bytes in order.
THEOREM FifoCorrect == Spec => []NothingLostOrReordered
<1>1. RingInv => NothingLostOrReordered
  <2> SUFFICES ASSUME RingInv PROVE Taken \o Contents = accepted
    BY DEF NothingLostOrReordered
  <2> USE CapAssumption
  <2>0. TypeOK /\ RingHoldsAccepted /\ MainInOrder
    BY DEF RingInv
  <2>1. Used \in 0..CAP-1 /\ \A k \in 0..CAP-1 : Slot(k) \in 0..CAP-1
    BY <2>0, UsedType
  <2>2. Contents \in Seq(Byte \cup {0}) /\ Len(Contents) = Used
    BY <2>0, <2>1 DEF Contents, TypeOK
  <2>3. Taken \in Seq(Byte \cup {0}) /\ Len(Taken) = Out
    BY <2>0 DEF Taken, Out, TypeOK
  <2>4. \A i \in 1..Out : Taken[i] = accepted[i]
    <3>1. CASE mpc = "push"
      <4>1. \A i \in 1..Len(delivered) : Append(delivered, byte)[i] = delivered[i]
        BY <2>0 DEF TypeOK
      <4>2. Append(delivered, byte)[Len(delivered) + 1] = byte
        BY <2>0 DEF TypeOK
      <4>3. Len(delivered) \in Nat
        BY <2>0 DEF TypeOK
      <4> QED BY <2>0, <3>1, <4>1, <4>2, <4>3 DEF Taken, Out, MainInOrder
    <3>2. CASE mpc # "push"
      BY <2>0, <3>2 DEF Taken, Out, MainInOrder
    <3> QED BY <3>1, <3>2
  <2>5. \A k \in 1..Used : Contents[k] = accepted[Out + k]
    <3> SUFFICES ASSUME NEW k \in 1..Used PROVE Contents[k] = accepted[Out + k]
      OBVIOUS
    <3>1. k - 1 \in 0..CAP-1 /\ k - 1 < Used
      BY <2>1
    <3>2. buf[Slot(k - 1)] = accepted[Out + (k - 1) + 1]
      BY <2>0, <3>1 DEF RingHoldsAccepted
    <3>3. Out \in Nat /\ Out + (k - 1) + 1 = Out + k
      BY <2>0, <2>1 DEF Out, TypeOK
    <3> QED BY <3>2, <3>3 DEF Contents
  <2>6. Out \in Nat /\ Len(accepted) = Out + Used /\ accepted \in Seq(Byte \cup {0})
    BY <2>0 DEF RingHoldsAccepted, Out, TypeOK
  <2> DEFINE whole == Taken \o Contents
  <2>7. whole \in Seq(Byte \cup {0}) /\ Len(whole) = Len(accepted)
    BY <2>1, <2>2, <2>3, <2>6
  <2>8. \A i \in 1..Len(accepted) : whole[i] = accepted[i]
    <3> SUFFICES ASSUME NEW i \in 1..Len(accepted) PROVE whole[i] = accepted[i]
      OBVIOUS
    <3>1. CASE i <= Out
      BY <2>1, <2>2, <2>3, <2>4, <2>6, <3>1
    <3>2. CASE i > Out
      <4>1. i - Out \in 1..Used /\ whole[i] = Contents[i - Out]
        BY <2>1, <2>2, <2>3, <2>6, <3>2
      <4> QED BY <2>1, <2>5, <2>6, <4>1
    <3>3. i <= Out \/ i > Out
      BY <2>1, <2>6
    <3> QED BY <3>1, <3>2, <3>3
  <2> HIDE DEF whole
  <2>9. whole = accepted
    BY <2>6, <2>7, <2>8, SeqExtensional
  <2> QED BY <2>9 DEF whole
<1> QED BY <1>1, RingInvariant, PTL

\* Between its check and its store of the tail drain always has a byte, and
\* the byte it read is the oldest undelivered one.
THEOREM NextByteCorrect == Spec => []ByteIsNextInOrder
<1>1. RingInv => ByteIsNextInOrder
  <2> SUFFICES ASSUME RingInv PROVE ByteIsNextInOrder
    OBVIOUS
  <2>0. TypeOK /\ RingHoldsAccepted /\ MainInOrder
    BY DEF RingInv
  <2>1. mpc = "store" => buf[tail] = accepted[Len(delivered) + 1]
    <3> SUFFICES ASSUME mpc = "store" PROVE buf[tail] = accepted[Len(delivered) + 1]
      OBVIOUS
    <3>1. Used > 0 /\ Out = Len(delivered) /\ Out \in Nat /\ Slot(0) = tail /\ 0 \in 0..CAP-1
      BY <2>0, UsedType, CapAssumption DEF MainInOrder, Out, TypeOK
    <3>2. buf[Slot(0)] = accepted[Out + 0 + 1]
      BY <2>0, <3>1 DEF RingHoldsAccepted
    <3> QED BY <3>1, <3>2
  <2> QED BY <2>0, <2>1 DEF ByteIsNextInOrder, MainInOrder
<1> QED BY <1>1, RingInvariant, PTL

\* A byte is dropped only when every usable slot holds an undelivered byte.
THEOREM DropCorrect == Spec => DropOnlyWhenFull
<1>1. RingInv /\ [Next]_vars => (dropped' > dropped => Len(accepted) - Len(Taken) = CAP - 1)
  <2> SUFFICES ASSUME RingInv, [Next]_vars, dropped' > dropped
               PROVE  Len(accepted) - Len(Taken) = CAP - 1
    OBVIOUS
  <2>0. TypeOK /\ RingHoldsAccepted /\ MainInOrder
    BY DEF RingInv
  <2>1. dropped' # dropped
    BY <2>0 DEF TypeOK
  <2>2. Advance(head) = tail
    BY <2>1 DEF Next, Irq, Interrupt, IsrPush, rb_push, Main, vars
  <2>3. tail = IF head = CAP - 1 THEN 0 ELSE head + 1
    BY <2>0, <2>2, AdvanceIsWrap DEF TypeOK
  <2>4. Used = CAP - 1
    BY <2>0, <2>3, CapAssumption DEF Used, TypeOK
  <2>5. Len(Taken) = Out /\ Out \in Nat /\ Len(accepted) = Out + Used
    BY <2>0 DEF Taken, Out, TypeOK, RingHoldsAccepted
  <2> QED BY <2>4, <2>5, CapAssumption
<1>2. [Next]_vars /\ RingInv => [dropped' > dropped => Len(accepted) - Len(Taken) = CAP - 1]_vars
  BY <1>1
<1> QED BY <1>2, RingInvariant, PTL DEF Spec, DropOnlyWhenFull

-----------------------------------------------------------------------------

\* The contents of the ring, slot by slot.
ContentsBySlot ==
  /\ Contents \in Seq(Byte \cup {0}) /\ Len(Contents) = Used
  /\ \A k \in 1..Used : Contents[k] = buf[Slot(k - 1)]

\* They are a sequence of as many bytes as the indices say.
LEMMA ContentsAsSequence == TypeOK => ContentsBySlot
<1> SUFFICES ASSUME TypeOK PROVE ContentsBySlot
  OBVIOUS
<1>1. Used \in 0..CAP-1 /\ \A k \in 0..CAP-1 : Slot(k) \in 0..CAP-1
  BY UsedType
<1> QED BY <1>1, CapAssumption DEF Contents, ContentsBySlot, TypeOK

\* A step that leaves the buffer and both indices alone leaves the contents.
LEMMA ContentsUnchanged ==
  ASSUME UNCHANGED <<buf, head, tail>>
  PROVE  Contents' = Contents
BY DEF Contents, Used, Slot

\* The ring implements the bounded FIFO queue: a push is a Put or, when the
\* ring is full, a Drop; the store of the tail is the Take; every other step
\* of a handler or of drain is invisible.
THEOREM RingRefinesQueue == Spec => ImplementsQueue
<1>1. Init => Queue!Init
  <2> SUFFICES ASSUME Init PROVE Queue!Init
    OBVIOUS
  <2>1. Used = 0 /\ Taken = <<>> /\ dropped = 0
    BY DEF Init, Used, Taken
  <2>2. Contents = <<>>
    BY <2>1 DEF Contents
  <2> QED BY <2>1, <2>2 DEF Queue!Init
<1>2. RingInv /\ RingInv' /\ [Next]_vars => [Queue!Next]_Queue!vars
  <2> SUFFICES ASSUME RingInv, RingInv', [Next]_vars PROVE [Queue!Next]_Queue!vars
    OBVIOUS
  <2> USE CapAssumption
  <2>0. TypeOK /\ TypeOK' /\ RingHoldsAccepted /\ MainInOrder
    BY DEF RingInv
  <2>00. ContentsBySlot'
    BY <2>0, ContentsAsSequence, PTL
  <2>1. CASE Irq
    <3>1. PICK keys \in BoundedSeq(Byte, MaxKeys) : Interrupt(keys)
      BY <2>1 DEF Irq
    <3>2. Contents' = Contents
      BY <3>1, ContentsUnchanged DEF Interrupt
    <3>3. Taken' = Taken /\ dropped' = dropped
      BY <3>1 DEF Interrupt, Taken
    <3> QED BY <3>2, <3>3 DEF Queue!vars
  <2>2. CASE IsrPush
    <3>1. Head(isr) \in Byte /\ Taken' = Taken
      BY <2>0, <2>2 DEF IsrPush, TypeOK, mainv, Taken
    <3>2. CASE Advance(head) = tail
      <4>1. UNCHANGED <<buf, head, tail>> /\ dropped' = dropped + 1
        BY <2>2, <3>2 DEF IsrPush, rb_push, mainv
      <4>2. Contents' = Contents
        BY <4>1, ContentsUnchanged
      <4>3. tail = IF head = CAP - 1 THEN 0 ELSE head + 1
        BY <2>0, <3>2, AdvanceIsWrap DEF TypeOK
      <4>4. Len(Contents) = CAP - 1
        BY <2>0, <4>3, ContentsAsSequence DEF ContentsBySlot, Used, TypeOK
      <4> QED BY <3>1, <4>1, <4>2, <4>4 DEF Queue!Next, Queue!Drop
    <3>3. CASE Advance(head) # tail
      <4>1. /\ buf' = [buf EXCEPT ![head] = Head(isr)]
            /\ head' = Advance(head)
            /\ UNCHANGED <<tail, dropped>>
        BY <2>2, <3>3 DEF IsrPush, rb_push, mainv
      <4>2. /\ Used' = Used + 1 /\ Used' <= CAP - 1 /\ Used \in 0..CAP-1
            /\ Slot(Used) = head
            /\ \A k \in 0..CAP-1 : k < Used => Slot(k) # head /\ Slot(k) \in 0..CAP-1
        BY <2>0, <3>3, <4>1, UsedAfterPush, UsedType
      <4>3. \A k : Slot(k)' = Slot(k)
        BY <4>1 DEF Slot
      <4>4. /\ Contents \in Seq(Byte \cup {0}) /\ Len(Contents) = Used
            /\ \A k \in 1..Used : Contents[k] = buf[Slot(k - 1)]
        BY <2>0, ContentsAsSequence DEF ContentsBySlot
      <4>5. /\ Contents' \in Seq(Byte \cup {0}) /\ Len(Contents') = Used'
            /\ \A k \in 1..Used' : Contents'[k] = buf'[Slot(k - 1)']
        BY <2>00 DEF ContentsBySlot
      <4>6. Append(Contents, Head(isr)) \in Seq(Byte \cup {0})
        BY <3>1, <4>4
      <4>7. \A k \in 1..Used' : Contents'[k] = Append(Contents, Head(isr))[k]
        <5> SUFFICES ASSUME NEW k \in 1..Used'
                     PROVE  Contents'[k] = Append(Contents, Head(isr))[k]
          OBVIOUS
        <5>1. Contents'[k] = buf'[Slot(k - 1)]
          BY <4>3, <4>5
        <5>2. CASE k = Used + 1
          <6>1. buf'[head] = Head(isr)
            BY <2>0, <4>1 DEF TypeOK
          <6> QED BY <4>2, <4>4, <5>1, <5>2, <6>1
        <5>3. CASE k # Used + 1
          <6>1. k \in 1..Used /\ k - 1 \in 0..CAP-1 /\ k - 1 < Used
            BY <4>2, <5>3
          <6>2. buf'[Slot(k - 1)] = buf[Slot(k - 1)]
            BY <2>0, <4>1, <4>2, <6>1 DEF TypeOK
          <6> QED BY <4>4, <5>1, <6>1, <6>2
        <5> QED BY <5>2, <5>3
      <4>8. Contents' = Append(Contents, Head(isr))
        BY <4>2, <4>4, <4>5, <4>6, <4>7, SeqExtensional
      <4>9. Len(Contents) < CAP - 1
        BY <4>2, <4>4
      <4> QED BY <3>1, <4>1, <4>8, <4>9 DEF Queue!Next, Queue!Put
    <3> QED BY <3>2, <3>3
  <2>3. CASE Main
    <3>1. CASE mpc = "store"
      <4>1. UNCHANGED <<buf, head, dropped, byte, delivered>> /\ tail' = Advance(tail) /\ mpc' = "push"
        BY <2>3, <3>1 DEF Main, DrainCheck, DrainRead, DrainStore, DrainPush, Halt
      <4>2. Used > 0 /\ byte = buf[tail]
        BY <2>0, <3>1 DEF MainInOrder
      <4>3. /\ Used = Used' + 1 /\ Used' \in 0..CAP-1 /\ Used \in 0..CAP-1 /\ Slot(0) = tail
            /\ \A k \in 0..CAP-1 : k < Used' => k + 1 < CAP /\ k + 1 < Used /\ Slot(k)' = Slot(k + 1)
        BY <2>0, <4>1, <4>2, UsedAfterTake, UsedType
      <4>3b. Used' < Used /\ Used' \in 0..CAP-1 /\ Used \in 0..CAP-1
        BY <2>0, <4>1, <4>2, UsedAfterTake, UsedType
      <4>4. /\ Contents \in Seq(Byte \cup {0}) /\ Len(Contents) = Used
            /\ \A k \in 1..Used : Contents[k] = buf[Slot(k - 1)]
        BY <2>0, ContentsAsSequence DEF ContentsBySlot
      <4>5. /\ Contents' \in Seq(Byte \cup {0}) /\ Len(Contents') = Used'
            /\ \A k \in 1..Used' : Contents'[k] = buf'[Slot(k - 1)']
        BY <2>00 DEF ContentsBySlot
      <4>6. Contents # <<>> /\ Head(Contents) = byte
        <5>1. 1 \in 1..Used /\ 1 - 1 = 0
          BY <4>2, <4>3b
        <5>2. Contents[1] = buf[Slot(0)]
          BY <4>4, <5>1
        <5> QED BY <4>2, <4>3, <4>4, <5>1, <5>2
      <4>7. Tail(Contents) \in Seq(Byte \cup {0}) /\ Len(Tail(Contents)) = Used'
        BY <4>3, <4>4, <4>6
      <4>8. \A k \in 1..Used' : Contents'[k] = Tail(Contents)[k]
        <5> SUFFICES ASSUME NEW k \in 1..Used' PROVE Contents'[k] = Tail(Contents)[k]
          OBVIOUS
        <5>1. k - 1 \in 0..CAP-1 /\ k - 1 < Used' /\ k + 1 \in 1..Used /\ (k - 1) + 1 = k
          BY <4>3b
        <5>2. Slot(k - 1)' = Slot((k - 1) + 1)
          BY <4>3, <5>1
        <5>3. Contents'[k] = buf[Slot(k)]
          BY <4>1, <4>5, <5>1, <5>2
        <5>4. Tail(Contents)[k] = Contents[k + 1]
          BY <4>3, <4>4, <4>6, <4>7, <5>1
        <5>5. Contents[k + 1] = buf[Slot((k + 1) - 1)] /\ (k + 1) - 1 = k
          BY <4>4, <5>1
        <5> QED BY <5>3, <5>4, <5>5
      <4>9. Contents' = Tail(Contents)
        BY <4>5, <4>7, <4>8, SeqExtensional
      <4>10. Taken = delivered /\ Taken' = Append(delivered, byte)
        BY <3>1, <4>1 DEF Taken
      <4> QED BY <4>1, <4>6, <4>9, <4>10 DEF Queue!Next, Queue!Take
    <3>2. CASE mpc # "store"
      <4>1. UNCHANGED <<buf, head, tail, dropped>>
        BY <2>3, <3>2 DEF Main, DrainCheck, DrainRead, DrainStore, DrainPush, Halt
      <4>2. Taken' = Taken
        BY <2>3, <3>2 DEF Main, DrainCheck, DrainRead, DrainStore, DrainPush, Halt, Taken
      <4>3. Contents' = Contents
        BY <4>1, ContentsUnchanged
      <4> QED BY <4>1, <4>2, <4>3 DEF Queue!vars
    <3> QED BY <3>1, <3>2
  <2>4. CASE UNCHANGED vars
    <3>1. Contents' = Contents /\ Taken' = Taken /\ dropped' = dropped
      BY <2>4, ContentsUnchanged DEF vars, Taken
    <3> QED BY <3>1 DEF Queue!vars
  <2> QED BY <2>1, <2>2, <2>3, <2>4 DEF Next
<1> QED BY <1>1, <1>2, RingInvariant, PTL DEF Spec, ImplementsQueue, Queue!Spec
=============================================================================
