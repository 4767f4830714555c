--------------------------- MODULE XhciKbdProofs ----------------------------
(***************************************************************************)
(* Proofs about XhciKbd for every size of both rings and every number of   *)
(* reports, errors and other events: one transfer at a time, and every     *)
(* report whole, once and in order.                                        *)
(***************************************************************************)
EXTENDS XhciKbd, Integers, FiniteSetTheorems, TLAPS

-----------------------------------------------------------------------------
(* Numbers.                                                                *)

\* The remainder is the only one in its range.
LEMMA ModUnique ==
  ASSUME NEW c \in Nat \ {0}, NEW q \in Nat, NEW r \in 0..c-1
  PROVE  ((c * q) + r) % c = r
OBVIOUS

-----------------------------------------------------------------------------

Cycle == {0, 1}
Kinds == {"cmd", "report", "error", "port"}

\* The transfer ring's position after slot i in cycle c, leaving out the Link.
NextI(i) == IF i + 1 = Link THEN 0 ELSE i + 1
NextC(i, c) == IF i + 1 = Link THEN Flip(c) ELSE c

\* The slot and cycle of the next TRB the driver will write; between
\* TickArm and TickLink it is ahead of KBD_TR_ENQ.
FrontI == IF ipc = "arm" THEN 0
          ELSE IF ipc \in {"bell", "handoff"} THEN NextI(0)
          ELSE IF tpc = "link" THEN NextI(enq) ELSE enq
FrontC == IF ipc = "arm" THEN 1
          ELSE IF ipc \in {"bell", "handoff"} THEN NextC(0, 1)
          ELSE IF tpc = "link" THEN NextC(enq, tcyc) ELSE tcyc

\* The slot and cycle of the next TRB the xHC will execute, past the Link.
BackI == IF xdeq = Link THEN 0 ELSE xdeq
BackC == IF xdeq = Link THEN Flip(xcyc) ELSE xcyc

\* The driver's position in the event ring.
EvtI == IF ipc \in {"ready", "done"} THEN deq ELSE es.deq
EvtC == IF ipc \in {"ready", "done"} THEN ecyc ELSE es.cycle

\* The types of the event ring and of the positions in it.
EvtTypeOK ==
  /\ deq \in 0..EVT_N-1 /\ ecyc \in Cycle
  /\ es \in [deq : 0..EVT_N-1, cycle : Cycle]
  /\ evt \in [0..EVT_N-1 -> [cyc : Cycle, kind : Kinds]]
  /\ erdp = EvtI
  /\ xenq \in 0..EVT_N-1 /\ xecyc \in Cycle

\* The types of the transfer ring and of the positions in it.
TrbTypeOK ==
  /\ ipc \in {"arm", "bell", "handoff", "ready", "done"}
  /\ tpc \in {"out", "read", "arm", "link", "bell"}
  /\ enq \in 0..Link-1 /\ tcyc \in Cycle
  /\ trb \in [0..Link -> Cycle]
  /\ xdeq \in 0..Link /\ xcyc \in Cycle

KbdTypeOK ==
  /\ TrbTypeOK /\ EvtTypeOK
  /\ ready = (ipc = "done") /\ (tpc # "out" => ipc = "done")
  /\ xst \in {"idle", "active", "dma", "halted"}
  /\ sent \in Seq(Nat) /\ taken \in Seq(Nat) /\ errors \in Nat

\* The cycle bits of the transfer ring, by the driver's position.
TrbCycles ==
  \A i \in 0..Link-1 : trb[i] = IF i < FrontI THEN FrontC ELSE Flip(FrontC)

\* The cycle bits of the event ring, by the xHC's position, and the order
\* of the two positions in it.
EvtCycles ==
  /\ \A j \in 0..EVT_N-1 : evt[j].cyc = IF j < xenq THEN xecyc ELSE Flip(xecyc)
  /\ IF xecyc = EvtC THEN EvtI <= xenq ELSE xenq < EvtI

\* The reports in order.
Histories ==
  /\ \A i \in 1..Len(sent) : sent[i] = i
  /\ \A i \in 1..Len(taken) : taken[i] = i

-----------------------------------------------------------------------------
(* Where the one transfer is.                                              *)

AtFront == FrontI = BackI /\ FrontC = BackC
InHand == tpc \in {"read", "arm"}

NotArmed ==
  /\ ipc = "arm" /\ AtFront /\ xst = "idle" /\ Pending = {} /\ ~InHand
  /\ Len(sent) = Len(taken)

Queued ==
  /\ ipc # "arm" /\ FrontI = NextI(BackI) /\ FrontC = NextC(BackI, BackC)
  /\ xst # "halted" /\ (xst = "dma" => xdeq # Link)
  /\ Pending = {} /\ ~InHand
  /\ Len(sent) = Len(taken)

Completed ==
  /\ ipc # "arm" /\ AtFront /\ xst \in {"idle", "active"} /\ ~InHand
  /\ \E j \in 0..EVT_N-1 : Pending = {j} /\ evt[j].kind = "report"
  /\ Len(sent) = Len(taken) + 1 /\ hid = Len(sent)

BeingRead ==
  /\ tpc = "read" /\ AtFront /\ xst \in {"idle", "active"} /\ Pending = {}
  /\ Len(sent) = Len(taken) + 1 /\ hid = Len(sent)

ToRearm ==
  /\ tpc = "arm" /\ AtFront /\ xst \in {"idle", "active"} /\ Pending = {}
  /\ Len(sent) = Len(taken)

Failed ==
  /\ ipc # "arm" /\ AtFront /\ xst = "halted" /\ ~InHand
  /\ \/ Pending = {}
     \/ \E j \in 0..EVT_N-1 : Pending = {j} /\ evt[j].kind = "error"
  /\ Len(sent) = Len(taken)

Transfer ==
  /\ NotArmed \/ Queued \/ Completed \/ BeingRead \/ ToRearm \/ Failed
  /\ errors = 0 <=> xst # "halted"

\* The inductive invariant.
KbdInv == KbdTypeOK /\ TrbCycles /\ EvtCycles /\ Histories /\ Transfer

-----------------------------------------------------------------------------
(* The rings.                                                              *)

\* The sizes of the two rings.
LEMMA RingSizes == Link \in Nat /\ Link >= 1 /\ EVT_N \in Nat /\ EVT_N >= 2 /\ INT_N = Link + 1
BY RingAssumption DEF Link

\* Cycle states.
LEMMA FlipCycle ==
  ASSUME NEW c \in Cycle
  PROVE  Flip(c) \in Cycle /\ Flip(c) # c /\ Flip(Flip(c)) = c
         /\ \A d \in Cycle : d # c => d = Flip(c)
BY DEF Flip, Cycle

\* The positions are positions.
LEMMA PositionTypes ==
  TrbTypeOK => /\ FrontI \in 0..Link-1 /\ FrontC \in Cycle
               /\ BackI \in 0..Link-1 /\ BackC \in Cycle
BY RingSizes DEF TrbTypeOK, FrontI, FrontC, BackI, BackC, NextI, NextC, Flip, Cycle

\* arm_kbd_ep_raw returns the next position.
LEMMA NextEnqParts ==
  ASSUME NEW i, NEW c
  PROVE  NextEnq(i, c)[1] = NextI(i) /\ NextEnq(i, c)[2] = NextC(i, c)
BY DEF NextEnq, NextI, NextC

\* A transfer is queued exactly when the driver is one position ahead.
LEMMA OwnedByPosition ==
  ASSUME TrbTypeOK, TrbCycles
  PROVE  /\ AtFront => Owned = {}
         /\ FrontI = NextI(BackI) /\ FrontC = NextC(BackI, BackC) => Owned = {BackI}
<1>0. /\ FrontI \in 0..Link-1 /\ FrontC \in Cycle
      /\ BackI \in 0..Link-1 /\ BackC \in Cycle
  BY PositionTypes
<1>1. ASSUME NEW i \in 0..Link-1
      PROVE  (trb[i] = IF i >= xdeq THEN xcyc ELSE Flip(xcyc))
               <=> (trb[i] = IF i >= BackI THEN BackC ELSE Flip(BackC))
  BY RingSizes DEF TrbTypeOK, BackI, BackC, Flip, Cycle
<1>2. ASSUME NEW i \in 0..Link-1, AtFront
      PROVE  ~(trb[i] = IF i >= BackI THEN BackC ELSE Flip(BackC))
  BY <1>0, <1>2, RingSizes DEF AtFront, TrbCycles, Flip, Cycle
<1>3. ASSUME NEW i \in 0..Link-1, FrontI = NextI(BackI), FrontC = NextC(BackI, BackC)
      PROVE  (trb[i] = IF i >= BackI THEN BackC ELSE Flip(BackC)) <=> i = BackI
  <2>1. trb[i] = IF i < FrontI THEN FrontC ELSE Flip(FrontC)
    BY DEF TrbCycles
  <2> QED BY <1>0, <1>3, <2>1, RingSizes DEF NextI, NextC, Flip, Cycle
<1>4. Owned = {i \in 0..Link-1 : trb[i] = IF i >= BackI THEN BackC ELSE Flip(BackC)}
  BY <1>1 DEF Owned
<1> QED BY <1>0, <1>2, <1>3, <1>4

\* Writing the TRB at the front moves the front.
LEMMA FrontAdvances ==
  ASSUME TrbTypeOK, TrbCycles, trb'[FrontI] = FrontC,
         \A i \in 0..Link-1 : i # FrontI => trb'[i] = trb[i],
         FrontI' = NextI(FrontI), FrontC' = NextC(FrontI, FrontC)
  PROVE  TrbCycles'
<1>0. FrontI \in 0..Link-1 /\ FrontC \in Cycle
  BY PositionTypes
<1>1. ASSUME NEW i \in 0..Link-1
      PROVE  trb'[i] = IF i < FrontI' THEN FrontC' ELSE Flip(FrontC')
  <2>1. i # FrontI => trb[i] = IF i < FrontI THEN FrontC ELSE Flip(FrontC)
    BY DEF TrbCycles
  <2>2. CASE i = FrontI
    BY <1>0, <2>2, RingSizes DEF NextI, NextC, Flip, Cycle
  <2>3. CASE i # FrontI
    BY <1>0, <2>1, <2>3, RingSizes DEF NextI, NextC, Flip, Cycle
  <2> QED BY <2>2, <2>3
<1>2. Link' = Link
  BY DEF Link
<1> QED BY <1>1, <1>2 DEF TrbCycles

\* The slots the driver has not read yet.
Unread(j) == IF xecyc = EvtC THEN EvtI <= j /\ j < xenq ELSE EvtI <= j \/ j < xenq
Unfetched == {j \in 0..EVT_N-1 : evt[j].kind \in {"report", "error"} /\ Unread(j)}

\* Positions in the event ring are slots and cycle bits.
LEMMA EvtPositionTypes == EvtTypeOK => EvtI \in 0..EVT_N-1 /\ EvtC \in Cycle
BY DEF EvtTypeOK, EvtI, EvtC

\* The cycle bit tells the driver whether a slot is unread.
LEMMA CycleTellsUnread ==
  ASSUME EvtTypeOK, EvtCycles, NEW j \in 0..EVT_N-1
  PROVE  (evt[j].cyc = IF j >= EvtI THEN EvtC ELSE Flip(EvtC)) <=> Unread(j)
<1>1. EvtI \in 0..EVT_N-1 /\ EvtC \in Cycle /\ xenq \in 0..EVT_N-1 /\ xecyc \in Cycle
  BY EvtPositionTypes DEF EvtTypeOK
<1>2. /\ evt[j].cyc = IF j < xenq THEN xecyc ELSE Flip(xecyc)
      /\ IF xecyc = EvtC THEN EvtI <= xenq ELSE xenq < EvtI
  BY DEF EvtCycles
<1> QED BY <1>1, <1>2, RingSizes DEF Unread, Flip, Cycle

\* The completions the driver will find by their cycle bits are the unread ones.
LEMMA PendingIsUnfetched == EvtTypeOK /\ EvtCycles => Pending = Unfetched
<1> SUFFICES ASSUME EvtTypeOK, EvtCycles PROVE Pending = Unfetched
  OBVIOUS
<1>1. Pending = {j \in 0..EVT_N-1 : /\ evt[j].kind \in {"report", "error"}
                                    /\ evt[j].cyc = IF j >= EvtI THEN EvtC ELSE Flip(EvtC)}
  BY DEF Pending, EvtI, EvtC
<1> QED BY <1>1, CycleTellsUnread DEF Unfetched

\* A step that leaves the event ring and both positions alone.
LEMMA EventsKept ==
  ASSUME EvtTypeOK, EvtCycles, UNCHANGED <<evt, xenq, xecyc, erdp>>,
         deq' \in 0..EVT_N-1, ecyc' \in Cycle, es' = es, EvtI' = EvtI, EvtC' = EvtC
  PROVE  EvtTypeOK' /\ EvtCycles' /\ Pending' = Pending
<1>1. EvtTypeOK'
  BY DEF EvtTypeOK
<1>2. EvtCycles'
  BY DEF EvtCycles
<1>3. Unfetched' = Unfetched
  BY DEF Unfetched, Unread
<1>4. Pending = Unfetched
  BY PendingIsUnfetched
<1>5. (EvtTypeOK /\ EvtCycles => Pending = Unfetched)'
  BY PendingIsUnfetched, PTL
<1> QED BY <1>1, <1>2, <1>3, <1>4, <1>5

\* The xHC posts an event into a slot that is not unread.
LEMMA EventPosted ==
  ASSUME EvtTypeOK, EvtCycles, NEW kind \in Kinds, Post(kind),
         UNCHANGED <<ipc, deq, ecyc, es, erdp>>
  PROVE  /\ EvtTypeOK' /\ EvtCycles' /\ xenq \in 0..EVT_N-1
         /\ kind \in {"report", "error"} => Pending' = Pending \cup {xenq}
         /\ kind \notin {"report", "error"} => Pending' = Pending
         /\ evt'[xenq].kind = kind
         /\ \A j \in Pending : evt'[j].kind = evt[j].kind
<1>0. /\ EvtI \in 0..EVT_N-1 /\ EvtC \in Cycle /\ xenq \in 0..EVT_N-1 /\ xecyc \in Cycle
      /\ EvtI' = EvtI /\ EvtC' = EvtC /\ erdp = EvtI
      /\ evt \in [0..EVT_N-1 -> [cyc : Cycle, kind : Kinds]]
  BY EvtPositionTypes DEF EvtTypeOK, EvtI, EvtC
<1>1. (xenq + 1) % EVT_N = IF xenq + 1 = EVT_N THEN 0 ELSE xenq + 1
  <2>1. CASE xenq + 1 = EVT_N
    <3>1. ((EVT_N * 1) + 0) % EVT_N = 0
      BY RingSizes, ModUnique
    <3>2. (EVT_N * 1) + 0 = xenq + 1
      BY <2>1, RingSizes
    <3> QED BY <2>1, <3>1, <3>2
  <2>2. CASE xenq + 1 # EVT_N
    <3>1. xenq + 1 \in 0..EVT_N-1 /\ EVT_N \in Nat \ {0}
      BY <1>0, <2>2, RingSizes
    <3>2. ((EVT_N * 0) + (xenq + 1)) % EVT_N = xenq + 1
      BY <3>1, ModUnique
    <3>3. (EVT_N * 0) + (xenq + 1) = xenq + 1
      BY <3>1
    <3> QED BY <2>2, <3>2, <3>3
  <2> QED BY <2>1, <2>2
<1>2. /\ xenq' = (IF xenq + 1 = EVT_N THEN 0 ELSE xenq + 1) /\ xenq' # EvtI
      /\ xecyc' = (IF xenq + 1 = EVT_N THEN Flip(xecyc) ELSE xecyc)
      /\ evt' = [evt EXCEPT ![xenq] = [cyc |-> xecyc, kind |-> kind]]
  BY <1>0, <1>1 DEF Post
<1>3. xenq' \in 0..EVT_N-1 /\ xecyc' \in Cycle
  BY <1>0, <1>2, RingSizes, FlipCycle
<1>4. /\ evt' \in [0..EVT_N-1 -> [cyc : Cycle, kind : Kinds]]
      /\ evt'[xenq].cyc = xecyc /\ evt'[xenq].kind = kind
      /\ \A j \in 0..EVT_N-1 : j # xenq => evt'[j] = evt[j]
  BY <1>0, <1>2
<1>5. EvtTypeOK'
  BY <1>0, <1>3, <1>4 DEF EvtTypeOK
<1>6. IF xecyc = EvtC THEN EvtI <= xenq ELSE xenq < EvtI
  BY DEF EvtCycles
<1>7. IF xecyc' = EvtC THEN EvtI <= xenq' ELSE xenq' < EvtI
  BY <1>0, <1>2, <1>6, RingSizes DEF Flip, Cycle
<1>8. ASSUME NEW j \in 0..EVT_N-1
      PROVE  evt'[j].cyc = IF j < xenq' THEN xecyc' ELSE Flip(xecyc')
  <2>1. j # xenq => evt'[j].cyc = IF j < xenq THEN xecyc ELSE Flip(xecyc)
    BY <1>4 DEF EvtCycles
  <2>2. CASE j = xenq
    BY <1>0, <1>2, <1>4, <2>2, RingSizes DEF Flip, Cycle
  <2>3. CASE j # xenq
    BY <1>0, <1>2, <2>1, <2>3, RingSizes DEF Flip, Cycle
  <2> QED BY <2>2, <2>3
<1>9. EvtCycles'
  BY <1>0, <1>7, <1>8 DEF EvtCycles
<1>10. ASSUME NEW j \in 0..EVT_N-1 PROVE Unread(j)' <=> Unread(j) \/ j = xenq
  BY <1>0, <1>2, <1>6, RingSizes DEF Unread, Flip, Cycle
<1>11. ~Unread(xenq)
  BY <1>0, <1>6 DEF Unread
<1>12. Pending = Unfetched
  BY PendingIsUnfetched
<1>13. (EvtTypeOK /\ EvtCycles => Pending = Unfetched)'
  BY PendingIsUnfetched, PTL
<1>14. kind \in {"report", "error"} => Unfetched' = Unfetched \cup {xenq}
  BY <1>0, <1>4, <1>10 DEF Unfetched
<1>15. kind \notin {"report", "error"} => Unfetched' = Unfetched
  BY <1>0, <1>4, <1>10, <1>11 DEF Unfetched
<1>16. \A j \in Pending : evt'[j].kind = evt[j].kind
  BY <1>4, <1>11, <1>12 DEF Unfetched
<1> QED BY <1>0, <1>4, <1>5, <1>9, <1>12, <1>13, <1>14, <1>15, <1>16

\* take_hid_report consumes the event at its position.
LEMMA EventConsumed ==
  ASSUME EvtTypeOK, EvtCycles, ipc = "done", ipc' = "done", evt[deq].cyc = ecyc,
         deq' = NextEvt(deq, ecyc).deq, ecyc' = NextEvt(deq, ecyc).cycle, erdp' = deq',
         UNCHANGED <<evt, xenq, xecyc, es>>
  PROVE  /\ EvtTypeOK' /\ EvtCycles' /\ deq \in 0..EVT_N-1
         /\ Pending' = Pending \ {deq}
         /\ evt[deq].kind \in {"report", "error"} => deq \in Pending
<1>0. /\ EvtI = deq /\ EvtC = ecyc /\ EvtI' = deq' /\ EvtC' = ecyc'
      /\ deq \in 0..EVT_N-1 /\ ecyc \in Cycle /\ xenq \in 0..EVT_N-1 /\ xecyc \in Cycle
  BY DEF EvtI, EvtC, EvtTypeOK
<1>1. /\ deq' = (IF deq + 1 >= EVT_N THEN 0 ELSE deq + 1)
      /\ ecyc' = (IF deq + 1 >= EVT_N THEN Flip(ecyc) ELSE ecyc)
  BY DEF NextEvt
<1>2. deq' \in 0..EVT_N-1 /\ ecyc' \in Cycle
  BY <1>0, <1>1, RingSizes, FlipCycle
<1>3. Unread(deq)
  BY <1>0, CycleTellsUnread
<1>4. IF xecyc = ecyc THEN deq <= xenq ELSE xenq < deq
  BY <1>0 DEF EvtCycles
<1>5. IF xecyc = ecyc' THEN deq' <= xenq ELSE xenq < deq'
  BY <1>0, <1>1, <1>3, <1>4, RingSizes DEF Unread, Flip, Cycle
<1>6. EvtTypeOK'
  BY <1>0, <1>2 DEF EvtTypeOK
<1>7. EvtCycles'
  BY <1>0, <1>5 DEF EvtCycles
<1>8. ASSUME NEW j \in 0..EVT_N-1 PROVE Unread(j)' <=> Unread(j) /\ j # deq
  BY <1>0, <1>1, <1>3, <1>4, RingSizes DEF Unread, Flip, Cycle
<1>9. Unfetched' = Unfetched \ {deq}
  BY <1>8 DEF Unfetched
<1>10. Pending = Unfetched
  BY PendingIsUnfetched
<1>11. (EvtTypeOK /\ EvtCycles => Pending = Unfetched)'
  BY PendingIsUnfetched, PTL
<1>12. evt[deq].kind \in {"report", "error"} => deq \in Unfetched
  BY <1>0, <1>3 DEF Unfetched
<1> QED BY <1>0, <1>6, <1>7, <1>9, <1>10, <1>11, <1>12

-----------------------------------------------------------------------------
(* The invariant.                                                          *)

\* The boot code arms the endpoint and hands over its state.
LEMMA BootPreserves ==
  ASSUME KbdInv, Boot
  PROVE  KbdInv'
<1> USE DEF KbdTypeOK
<1>0. /\ KbdTypeOK /\ TrbCycles /\ EvtCycles /\ Histories /\ Transfer /\ tpc = "out"
  BY DEF KbdInv, Boot
<1>00. /\ FrontI \in 0..Link-1 /\ FrontC \in Cycle
       /\ BackI \in 0..Link-1 /\ BackC \in Cycle
       /\ NextI(0) \in 0..Link-1 /\ NextC(0, 1) \in Cycle
  BY <1>0, PositionTypes, RingSizes DEF NextI, NextC, Flip, Cycle
<1>1. CASE InitArm
  <2>1. /\ ipc = "arm" /\ ipc' = "bell" /\ trb' = [StampLink(0, 1) EXCEPT ![0] = 1]
        /\ UNCHANGED <<tpc, ready, enq, tcyc, deq, ecyc, es, erdp, taken, xdeq, xcyc,
                       xenq, xecyc, xst, sent, errors, evt, hid>>
    BY <1>1 DEF InitArm, xhc
  <2>2. trb' \in [0..Link -> Cycle] /\ trb'[0] = 1 /\ \A i \in 1..Link-1 : trb'[i] = trb[i]
    BY <1>0, <2>1, RingSizes DEF StampLink, TrbTypeOK, Cycle
  <2>3. /\ FrontI = 0 /\ FrontC = 1 /\ FrontI' = NextI(0) /\ FrontC' = NextC(0, 1)
        /\ BackI' = BackI /\ BackC' = BackC
    BY <2>1 DEF FrontI, FrontC, BackI, BackC, NextI, NextC, Link
  <2>4. TrbTypeOK'
    BY <1>0, <2>1, <2>2 DEF TrbTypeOK, Link
  <2>5. TrbCycles'
    <3>1. \A i \in 0..Link-1 : i # FrontI => trb'[i] = trb[i]
      BY <2>2, <2>3, RingSizes
    <3> QED BY <1>0, <2>2, <2>3, <3>1, FrontAdvances
  <2>6. EvtTypeOK' /\ EvtCycles' /\ Pending' = Pending
    <3>1. EvtI' = EvtI /\ EvtC' = EvtC
      BY <2>1 DEF EvtI, EvtC
    <3> QED BY <1>0, <2>1, <3>1, EventsKept DEF EvtTypeOK
  <2>7. Transfer'
    <3>1. NotArmed /\ (errors = 0 <=> xst # "halted")
      BY <1>0, <2>1 DEF Transfer, Queued, Completed, BeingRead, ToRearm, Failed
    <3>2. Queued'
      BY <2>1, <2>3, <2>6, <3>1 DEF NotArmed, Queued, AtFront, InHand
    <3> QED BY <2>1, <3>1, <3>2 DEF Transfer
  <2> QED BY <1>0, <2>1, <2>4, <2>5, <2>6, <2>7 DEF KbdInv, Histories
<1>2. CASE InitDoorbell \/ InitReady
  <2>1. /\ \/ ipc = "bell" /\ ipc' = "handoff" /\ ready' = ready /\ Doorbell
           \/ ipc = "ready" /\ ipc' = "done" /\ ready' = TRUE /\ xst' = xst
        /\ UNCHANGED <<tpc, enq, tcyc, deq, ecyc, es, erdp, taken, xdeq, xcyc,
                       xenq, xecyc, sent, errors, trb, evt, hid>>
    BY <1>2 DEF InitDoorbell, InitReady, xhc
  <2>2. /\ FrontI' = FrontI /\ FrontC' = FrontC /\ BackI' = BackI /\ BackC' = BackC
        /\ EvtI' = EvtI /\ EvtC' = EvtC
    BY <2>1 DEF FrontI, FrontC, BackI, BackC, EvtI, EvtC, NextI, NextC, Link
  <2>3. TrbTypeOK' /\ TrbCycles'
    BY <1>0, <2>1, <2>2 DEF TrbTypeOK, TrbCycles, Link
  <2>4. EvtTypeOK' /\ EvtCycles' /\ Pending' = Pending
    BY <1>0, <2>1, <2>2, EventsKept DEF EvtTypeOK
  <2>5. xst' = xst \/ (xst = "idle" /\ xst' = "active")
    BY <2>1 DEF Doorbell
  <2>6. Transfer'
    BY <1>0, <2>1, <2>2, <2>4, <2>5
       DEF Transfer, NotArmed, Queued, Completed, BeingRead, ToRearm, Failed, AtFront, InHand
  <2> QED BY <1>0, <2>1, <2>3, <2>4, <2>5, <2>6 DEF KbdInv, Histories
<1>3. CASE InitHandoff
  <2>1. /\ ipc = "handoff" /\ ipc' = "ready" /\ deq' = es.deq /\ ecyc' = es.cycle
        /\ enq' = NextI(0) /\ tcyc' = NextC(0, 1)
        /\ UNCHANGED <<tpc, ready, es, erdp, taken, xdeq, xcyc, xenq, xecyc, xst, sent,
                       errors, trb, evt, hid>>
    BY <1>3, NextEnqParts DEF InitHandoff, xhc
  <2>2. /\ FrontI' = FrontI /\ FrontC' = FrontC /\ BackI' = BackI /\ BackC' = BackC
        /\ EvtI' = EvtI /\ EvtC' = EvtC
    BY <1>0, <2>1 DEF FrontI, FrontC, BackI, BackC, EvtI, EvtC
  <2>3. TrbTypeOK' /\ TrbCycles'
    BY <1>0, <1>00, <2>1, <2>2 DEF TrbTypeOK, TrbCycles, Link
  <2>4. EvtTypeOK' /\ EvtCycles' /\ Pending' = Pending
    <3>1. deq' \in 0..EVT_N-1 /\ ecyc' \in Cycle
      BY <1>0, <2>1 DEF EvtTypeOK
    <3> QED BY <1>0, <2>1, <2>2, <3>1, EventsKept
  <2>5. Transfer'
    BY <1>0, <2>1, <2>2, <2>4
       DEF Transfer, NotArmed, Queued, Completed, BeingRead, ToRearm, Failed, AtFront, InHand
  <2> QED BY <1>0, <2>1, <2>3, <2>4, <2>5 DEF KbdInv, Histories
<1> QED BY <1>1, <1>2, <1>3 DEF Boot

\* The timer handler consumes an event, reads the buffer and re-arms.
LEMMA TimerPreserves ==
  ASSUME KbdInv, Timer
  PROVE  KbdInv'
<1> USE DEF KbdTypeOK
<1>0. KbdTypeOK /\ TrbCycles /\ EvtCycles /\ Histories /\ Transfer
  BY DEF KbdInv
<1>00. /\ FrontI \in 0..Link-1 /\ FrontC \in Cycle
       /\ BackI \in 0..Link-1 /\ BackC \in Cycle
  BY <1>0, PositionTypes
<1>1. CASE TickConsume
  <2>0. /\ tpc = "out"
        /\ UNCHANGED <<ipc, ready, enq, tcyc, es, taken, xdeq, xcyc, xenq, xecyc, xst,
                       sent, errors, trb, evt, hid>>
    BY <1>1 DEF TickConsume, xhc
  <2>1. CASE ~ready \/ evt[deq].cyc # ecyc
    <3>1. UNCHANGED <<deq, ecyc, erdp, tpc>>
      BY <1>1, <2>1 DEF TickConsume
    <3>2. /\ FrontI' = FrontI /\ FrontC' = FrontC /\ BackI' = BackI /\ BackC' = BackC
          /\ EvtI' = EvtI /\ EvtC' = EvtC
      BY <2>0, <3>1 DEF FrontI, FrontC, BackI, BackC, EvtI, EvtC, NextI, NextC, Link
    <3>3. TrbTypeOK' /\ TrbCycles'
      BY <1>0, <2>0, <3>1, <3>2 DEF TrbTypeOK, TrbCycles, Link
    <3>4. EvtTypeOK' /\ EvtCycles' /\ Pending' = Pending
      BY <1>0, <2>0, <3>1, <3>2, EventsKept DEF EvtTypeOK
    <3>5. Transfer'
      BY <1>0, <2>0, <3>1, <3>2, <3>4
         DEF Transfer, NotArmed, Queued, Completed, BeingRead, ToRearm, Failed, AtFront, InHand
    <3> QED BY <1>0, <2>0, <3>1, <3>3, <3>4, <3>5 DEF KbdInv, Histories
  <2>2. CASE ~(~ready \/ evt[deq].cyc # ecyc)
    <3>1. /\ deq' = NextEvt(deq, ecyc).deq /\ ecyc' = NextEvt(deq, ecyc).cycle
          /\ erdp' = deq' /\ evt[deq].cyc = ecyc
          /\ tpc' = IF evt[deq].kind = "report" THEN "read" ELSE "out"
      BY <1>1, <2>2 DEF TickConsume, GoodTransfer
    <3>2. ipc = "done" /\ ipc' = "done"
      BY <1>0, <2>0, <2>2
    <3>3. FrontI' = FrontI /\ FrontC' = FrontC /\ BackI' = BackI /\ BackC' = BackC
      BY <2>0, <3>1 DEF FrontI, FrontC, BackI, BackC, NextI, NextC, Link
    <3>4. TrbTypeOK' /\ TrbCycles'
      BY <1>0, <2>0, <3>1, <3>3 DEF TrbTypeOK, TrbCycles, Link
    <3>5. /\ EvtTypeOK' /\ EvtCycles' /\ deq \in 0..EVT_N-1
          /\ Pending' = Pending \ {deq}
          /\ evt[deq].kind \in {"report", "error"} => deq \in Pending
      BY <1>0, <2>0, <3>1, <3>2, EventConsumed
    <3>6. Transfer'
      <4>1. CASE evt[deq].kind = "report"
        <5>1. Completed /\ Pending = {deq}
          BY <1>0, <2>0, <3>2, <3>5, <4>1
             DEF Transfer, NotArmed, Queued, Completed, BeingRead, ToRearm, Failed
        <5>2. BeingRead'
          BY <2>0, <3>1, <3>3, <3>5, <4>1, <5>1 DEF Completed, BeingRead, AtFront
        <5> QED BY <1>0, <2>0, <5>2 DEF Transfer
      <4>2. CASE evt[deq].kind # "report"
        <5>1. tpc' = "out"
          BY <3>1, <4>2
        <5>2. CASE Queued
          BY <1>0, <2>0, <3>3, <3>5, <5>1, <5>2 DEF Transfer, Queued, InHand
        <5>3. CASE Completed
          <6>1. Pending' = Pending
            BY <3>5, <4>2, <5>3 DEF Completed
          <6> QED BY <1>0, <2>0, <3>3, <5>1, <5>3, <6>1
                     DEF Transfer, Completed, AtFront, InHand
        <5>4. CASE Failed
          BY <1>0, <2>0, <3>3, <3>5, <5>1, <5>4 DEF Transfer, Failed, AtFront, InHand
        <5>5. ~NotArmed /\ ~BeingRead /\ ~ToRearm
          BY <2>0, <3>2 DEF NotArmed, BeingRead, ToRearm
        <5> QED BY <1>0, <5>2, <5>3, <5>4, <5>5 DEF Transfer
      <4> QED BY <4>1, <4>2
    <3>7. ready' = (ipc' = "done") /\ (tpc' # "out" => ipc' = "done")
      BY <1>0, <2>0, <3>2
    <3> QED BY <1>0, <2>0, <3>4, <3>5, <3>6, <3>7 DEF KbdInv, Histories
  <2> QED BY <2>1, <2>2
<1>2. CASE TickRead
  <2>1. /\ tpc = "read" /\ tpc' = "arm" /\ taken' = Append(taken, hid)
        /\ UNCHANGED <<ipc, ready, enq, tcyc, deq, ecyc, es, erdp, xdeq, xcyc, xenq,
                       xecyc, xst, sent, errors, trb, evt, hid>>
    BY <1>2 DEF TickRead, xhc
  <2>2. /\ FrontI' = FrontI /\ FrontC' = FrontC /\ BackI' = BackI /\ BackC' = BackC
        /\ EvtI' = EvtI /\ EvtC' = EvtC
    BY <2>1 DEF FrontI, FrontC, BackI, BackC, EvtI, EvtC, NextI, NextC, Link
  <2>3. TrbTypeOK' /\ TrbCycles'
    BY <1>0, <2>1, <2>2 DEF TrbTypeOK, TrbCycles, Link
  <2>4. EvtTypeOK' /\ EvtCycles' /\ Pending' = Pending
    BY <1>0, <2>1, <2>2, EventsKept DEF EvtTypeOK
  <2>5. BeingRead
    BY <1>0, <2>1 DEF Transfer, NotArmed, Queued, Completed, ToRearm, Failed, InHand
  <2>6. hid = Len(taken) + 1 /\ Len(taken) \in Nat /\ hid \in Nat
    BY <1>0, <2>5 DEF BeingRead
  <2>7. /\ taken' \in Seq(Nat) /\ Len(taken') = Len(taken) + 1
        /\ \A i \in 1..Len(taken') : taken'[i] = i
    BY <1>0, <2>1, <2>6 DEF Histories
  <2>8. ToRearm'
    BY <2>1, <2>2, <2>4, <2>5, <2>7 DEF BeingRead, ToRearm, AtFront
  <2>9. Transfer'
    BY <1>0, <2>1, <2>8 DEF Transfer
  <2> QED BY <1>0, <2>1, <2>3, <2>4, <2>7, <2>9 DEF KbdInv, Histories
<1>3. CASE TickArm
  <2>1. /\ tpc = "arm" /\ tpc' = "link" /\ trb' = [trb EXCEPT ![enq] = tcyc]
        /\ UNCHANGED <<ipc, ready, enq, tcyc, deq, ecyc, es, erdp, taken, xdeq, xcyc,
                       xenq, xecyc, xst, sent, errors, evt, hid>>
    BY <1>3 DEF TickArm, xhc
  <2>2. ipc = "done"
    BY <1>0, <2>1
  <2>3. /\ FrontI = enq /\ FrontC = tcyc /\ FrontI' = NextI(enq) /\ FrontC' = NextC(enq, tcyc)
        /\ BackI' = BackI /\ BackC' = BackC /\ EvtI' = EvtI /\ EvtC' = EvtC
    BY <2>1, <2>2 DEF FrontI, FrontC, BackI, BackC, EvtI, EvtC, NextI, NextC, Link
  <2>4. /\ trb' \in [0..Link -> Cycle] /\ trb'[FrontI] = FrontC
        /\ \A i \in 0..Link-1 : i # FrontI => trb'[i] = trb[i]
    BY <1>0, <2>1, <2>3, RingSizes DEF TrbTypeOK
  <2>5. TrbTypeOK' /\ TrbCycles'
    <3>1. TrbTypeOK'
      BY <1>0, <2>1, <2>4 DEF TrbTypeOK, Link
    <3> QED BY <1>0, <2>3, <2>4, <3>1, FrontAdvances
  <2>6. EvtTypeOK' /\ EvtCycles' /\ Pending' = Pending
    BY <1>0, <2>1, <2>3, EventsKept DEF EvtTypeOK
  <2>7. ToRearm
    BY <1>0, <2>1 DEF Transfer, NotArmed, Queued, Completed, BeingRead, Failed, InHand
  <2>8. Queued'
    BY <2>1, <2>2, <2>3, <2>6, <2>7 DEF ToRearm, Queued, AtFront, InHand
  <2>9. Transfer'
    BY <1>0, <2>1, <2>8 DEF Transfer
  <2> QED BY <1>0, <2>1, <2>2, <2>5, <2>6, <2>9 DEF KbdInv, Histories
<1>4. CASE TickLink
  <2>1. /\ tpc = "link" /\ tpc' = "bell" /\ trb' = StampLink(enq, tcyc)
        /\ enq' = NextI(enq) /\ tcyc' = NextC(enq, tcyc)
        /\ UNCHANGED <<ipc, ready, deq, ecyc, es, erdp, taken, xdeq, xcyc, xenq, xecyc,
                       xst, sent, errors, evt, hid>>
    BY <1>4, NextEnqParts DEF TickLink, xhc
  <2>2. ipc = "done"
    BY <1>0, <2>1
  <2>3. /\ FrontI' = FrontI /\ FrontC' = FrontC /\ FrontI = enq' /\ FrontC = tcyc'
        /\ BackI' = BackI /\ BackC' = BackC /\ EvtI' = EvtI /\ EvtC' = EvtC
    BY <2>1, <2>2 DEF FrontI, FrontC, BackI, BackC, EvtI, EvtC, Link
  <2>4. trb' \in [0..Link -> Cycle] /\ \A i \in 0..Link-1 : trb'[i] = trb[i]
    BY <1>0, <2>1, RingSizes DEF TrbTypeOK, StampLink
  <2>5. TrbTypeOK' /\ TrbCycles'
    BY <1>0, <1>00, <2>1, <2>3, <2>4 DEF TrbTypeOK, TrbCycles, Link
  <2>6. EvtTypeOK' /\ EvtCycles' /\ Pending' = Pending
    BY <1>0, <2>1, <2>3, EventsKept DEF EvtTypeOK
  <2>7. Transfer'
    BY <1>0, <2>1, <2>2, <2>3, <2>6
       DEF Transfer, NotArmed, Queued, Completed, BeingRead, ToRearm, Failed, AtFront, InHand
  <2> QED BY <1>0, <2>1, <2>2, <2>5, <2>6, <2>7 DEF KbdInv, Histories
<1>5. CASE TickBell
  <2>1. /\ tpc = "bell" /\ tpc' = "out" /\ Doorbell
        /\ UNCHANGED <<ipc, ready, enq, tcyc, deq, ecyc, es, erdp, taken, xdeq, xcyc,
                       xenq, xecyc, sent, errors, trb, evt, hid>>
    BY <1>5 DEF TickBell
  <2>2. /\ FrontI' = FrontI /\ FrontC' = FrontC /\ BackI' = BackI /\ BackC' = BackC
        /\ EvtI' = EvtI /\ EvtC' = EvtC
    BY <2>1 DEF FrontI, FrontC, BackI, BackC, EvtI, EvtC, NextI, NextC, Link
  <2>3. TrbTypeOK' /\ TrbCycles'
    BY <1>0, <2>1, <2>2 DEF TrbTypeOK, TrbCycles, Link
  <2>4. EvtTypeOK' /\ EvtCycles' /\ Pending' = Pending
    BY <1>0, <2>1, <2>2, EventsKept DEF EvtTypeOK
  <2>5. xst' = xst \/ (xst = "idle" /\ xst' = "active")
    BY <2>1 DEF Doorbell
  <2>6. ipc = "done"
    BY <1>0, <2>1
  <2>7. Transfer'
    BY <1>0, <2>1, <2>2, <2>4, <2>5, <2>6
       DEF Transfer, NotArmed, Queued, Completed, BeingRead, ToRearm, Failed, AtFront, InHand
  <2> QED BY <1>0, <2>1, <2>3, <2>4, <2>5, <2>7 DEF KbdInv, Histories
<1> QED BY <1>1, <1>2, <1>3, <1>4, <1>5 DEF Timer

\* The controller fetches, completes and fails transfers, and posts events.
LEMMA XhcPreserves ==
  ASSUME KbdInv, Xhc \/ XhcError \/ XhcOther
  PROVE  KbdInv'
<1> USE DEF KbdTypeOK
<1>0. /\ KbdTypeOK /\ TrbCycles /\ EvtCycles /\ Histories /\ Transfer
      /\ UNCHANGED <<driver, trb>>
  BY DEF KbdInv, Xhc, XhcFetch, XhcComplete, XhcError, XhcOther
<1>00. /\ FrontI \in 0..Link-1 /\ FrontC \in Cycle
       /\ BackI \in 0..Link-1 /\ BackC \in Cycle
  BY <1>0, PositionTypes
<1>000. /\ UNCHANGED <<ipc, tpc, ready, enq, tcyc, deq, ecyc, es, erdp, taken>>
        /\ FrontI' = FrontI /\ FrontC' = FrontC
  BY <1>0 DEF driver, FrontI, FrontC, NextI, NextC, Link
<1>1. CASE XhcFetch
  <2>0. xst = "active" /\ UNCHANGED <<evt, xenq, xecyc, sent, errors>>
    BY <1>1 DEF XhcFetch
  <2>1. EvtTypeOK' /\ EvtCycles' /\ Pending' = Pending
    <3>1. EvtI' = EvtI /\ EvtC' = EvtC
      BY <1>000 DEF EvtI, EvtC
    <3> QED BY <1>0, <1>000, <2>0, <3>1, EventsKept DEF EvtTypeOK
  <2>2. CASE /\ trb[xdeq] = xcyc /\ xdeq # Link /\ xst' = "dma" /\ hid' = Torn
             /\ UNCHANGED <<xdeq, xcyc>>
    <3>1. BackI = xdeq /\ BackC = xcyc /\ BackI' = BackI /\ BackC' = BackC
      BY <2>2 DEF BackI, BackC, Link
    <3>2. ~AtFront
      <4>1. xdeq \in 0..Link-1 /\ xcyc \in Cycle
        BY <1>00, <3>1
      <4>2. trb[xdeq] = IF xdeq < FrontI THEN FrontC ELSE Flip(FrontC)
        BY <1>0, <4>1 DEF TrbCycles
      <4> QED BY <1>00, <2>2, <3>1, <4>1, <4>2, FlipCycle DEF AtFront
    <3>3. Queued
      BY <1>0, <3>2 DEF Transfer, NotArmed, Completed, BeingRead, ToRearm, Failed
    <3>4. Queued'
      BY <1>000, <2>0, <2>1, <2>2, <3>1, <3>3 DEF Queued, InHand, NextI, NextC, Link
    <3>5. Transfer'
      BY <1>0, <2>0, <2>2, <3>4 DEF Transfer
    <3>6. TrbTypeOK' /\ TrbCycles'
      BY <1>0, <1>000, <2>2 DEF TrbTypeOK, TrbCycles, Link
    <3> QED BY <1>0, <1>000, <2>0, <2>1, <2>2, <3>5, <3>6 DEF KbdInv, Histories
  <2>3. CASE \/ /\ xdeq = Link /\ xdeq' = 0 /\ xcyc' = Flip(xcyc) /\ UNCHANGED <<xst, hid>>
             \/ xst' = "idle" /\ UNCHANGED <<hid, xdeq, xcyc>>
    <3>1. /\ BackI' = BackI /\ BackC' = BackC /\ xdeq' \in 0..Link /\ xcyc' \in Cycle
      <4>0. /\ xdeq \in 0..Link /\ xcyc \in Cycle /\ Flip(xcyc) \in Cycle
            /\ 0 \in 0..Link /\ 0 # Link /\ Link' = Link
        BY <1>0, RingSizes, FlipCycle DEF TrbTypeOK, Link
      <4>1. CASE xdeq = Link /\ xdeq' = 0 /\ xcyc' = Flip(xcyc)
        BY <4>0, <4>1 DEF BackI, BackC
      <4>2. CASE UNCHANGED <<xdeq, xcyc>>
        BY <4>0, <4>2 DEF BackI, BackC
      <4> QED BY <2>3, <4>1, <4>2
    <3>2. xst' \in {"idle", "active"} /\ hid' = hid
      BY <2>0, <2>3
    <3>3. Transfer'
      BY <1>0, <1>000, <2>0, <2>1, <3>1, <3>2
         DEF Transfer, NotArmed, Queued, Completed, BeingRead, ToRearm, Failed, AtFront,
             InHand, NextI, NextC, Link
    <3>4. TrbTypeOK' /\ TrbCycles'
      BY <1>0, <1>000, <3>1 DEF TrbTypeOK, TrbCycles, Link
    <3> QED BY <1>0, <1>000, <2>0, <2>1, <3>2, <3>3, <3>4 DEF KbdInv, Histories
  <2> QED BY <1>1, <2>2, <2>3 DEF XhcFetch
<1>2. CASE XhcComplete \/ XhcError
  <2>1. PICK kind \in {"report", "error"} :
          /\ xst = "dma" /\ Post(kind) /\ xdeq' = xdeq + 1 /\ xcyc' = xcyc
          /\ kind = "report" => /\ hid' = Len(sent) + 1 /\ sent' = Append(sent, Len(sent) + 1)
                                /\ xst' = "active" /\ errors' = errors
          /\ kind = "error" => /\ hid' = hid /\ sent' = sent
                               /\ xst' = "halted" /\ errors' = errors + 1
    BY <1>2 DEF XhcComplete, XhcError
  <2>2. Queued
    BY <1>0, <2>1 DEF Transfer, NotArmed, Completed, BeingRead, ToRearm, Failed
  <2>3. /\ EvtTypeOK' /\ EvtCycles' /\ xenq \in 0..EVT_N-1
        /\ Pending' = {xenq} /\ evt'[xenq].kind = kind
    <3>1. kind \in Kinds
      BY DEF Kinds
    <3>2. Pending = {}
      BY <2>2 DEF Queued
    <3> QED BY <1>0, <1>000, <2>1, <3>1, <3>2, EventPosted
  <2>4. BackI' = NextI(BackI) /\ BackC' = NextC(BackI, BackC) /\ xdeq' \in 0..Link
    BY <1>0, <2>1, <2>2, RingSizes DEF Queued, BackI, BackC, NextI, NextC, Link, TrbTypeOK
  <2>5. AtFront'
    BY <1>000, <2>2, <2>4 DEF Queued, AtFront
  <2>6. TrbTypeOK' /\ TrbCycles'
    BY <1>0, <1>000, <2>1, <2>4 DEF TrbTypeOK, TrbCycles, Link
  <2>7. ipc' # "arm" /\ ~InHand' /\ Len(sent) = Len(taken) /\ errors = 0
    BY <1>0, <1>000, <2>1, <2>2 DEF Queued, InHand, Transfer
  <2>8. CASE kind = "report"
    <3>1. /\ sent' \in Seq(Nat) /\ Len(sent') = Len(sent) + 1 /\ hid' = Len(sent')
          /\ \A i \in 1..Len(sent') : sent'[i] = i
      <4>1. sent \in Seq(Nat) /\ Len(sent) \in Nat /\ Len(sent) + 1 \in Nat
        BY <1>0
      <4>2. sent' = Append(sent, Len(sent) + 1) /\ hid' = Len(sent) + 1
        BY <2>1, <2>8
      <4>3. sent' \in Seq(Nat) /\ Len(sent') = Len(sent) + 1
        BY <4>1, <4>2
      <4>4. ASSUME NEW i \in 1..Len(sent') PROVE sent'[i] = i
        <5>1. CASE i = Len(sent) + 1
          BY <4>1, <4>2, <5>1
        <5>2. CASE i # Len(sent) + 1
          <6>1. i \in 1..Len(sent)
            BY <4>1, <4>3, <5>2
          <6>2. sent'[i] = sent[i]
            BY <4>1, <4>2, <6>1
          <6> QED BY <1>0, <6>1, <6>2 DEF Histories
        <5> QED BY <5>1, <5>2
      <4> QED BY <4>2, <4>3, <4>4
    <3>2. Completed'
      BY <1>000, <2>1, <2>3, <2>5, <2>7, <2>8, <3>1 DEF Completed
    <3>3. Transfer'
      BY <2>1, <2>7, <2>8, <3>2 DEF Transfer
    <3> QED BY <1>0, <1>000, <2>1, <2>3, <2>6, <2>8, <3>1, <3>3 DEF KbdInv, Histories
  <2>9. CASE kind = "error"
    <3>1. Failed'
      BY <1>000, <2>1, <2>3, <2>5, <2>7, <2>9 DEF Failed
    <3>2. Transfer'
      BY <2>1, <2>7, <2>9, <3>1 DEF Transfer
    <3> QED BY <1>0, <1>000, <2>1, <2>3, <2>6, <2>9, <3>2 DEF KbdInv, Histories
  <2> QED BY <2>1, <2>8, <2>9
<1>3. CASE XhcOther
  <2>1. Post("port") /\ UNCHANGED <<hid, xdeq, xcyc, xst, sent, errors>>
    BY <1>3 DEF XhcOther
  <2>2. /\ EvtTypeOK' /\ EvtCycles' /\ Pending' = Pending
        /\ \A j \in Pending : evt'[j].kind = evt[j].kind
    <3>1. "port" \in Kinds /\ "port" \notin {"report", "error"}
      BY DEF Kinds
    <3> QED BY <1>0, <1>000, <2>1, <3>1, EventPosted
  <2>3. BackI' = BackI /\ BackC' = BackC
    BY <2>1 DEF BackI, BackC, Link
  <2>4. TrbTypeOK' /\ TrbCycles'
    BY <1>0, <1>000, <2>1 DEF TrbTypeOK, TrbCycles, Link
  <2>5. Transfer'
    BY <1>0, <1>000, <2>1, <2>2, <2>3
       DEF Transfer, NotArmed, Queued, Completed, BeingRead, ToRearm, Failed, AtFront,
           InHand, NextI, NextC, Link
  <2> QED BY <1>0, <1>000, <2>1, <2>2, <2>4, <2>5 DEF KbdInv, Histories
<1> QED BY <1>1, <1>2, <1>3 DEF Xhc

\* Every interleaving of boot code, timer handler and controller keeps one
\* transfer, in one place.
THEOREM KbdInvariant == Spec => []KbdInv
<1>1. Init => KbdInv
  <2> SUFFICES ASSUME Init PROVE KbdInv
    OBVIOUS
  <2>0. PICK i \in 0..EVT_N-1 :
          /\ es = [deq |-> i, cycle |-> 1]
          /\ evt = [j \in 0..EVT_N-1 |-> [cyc |-> IF j < i THEN 1 ELSE 0, kind |-> "cmd"]]
          /\ erdp = i /\ xenq = i /\ xecyc = 1
    BY DEF Init
  <2>1. /\ ipc = "arm" /\ tpc = "out" /\ ready = FALSE /\ enq = 0 /\ tcyc = 1
        /\ deq = 0 /\ ecyc = 1 /\ xdeq = 0 /\ xcyc = 1 /\ xst = "idle"
        /\ sent = <<>> /\ taken = <<>> /\ errors = 0
        /\ trb = [j \in 0..INT_N-1 |-> IF j = Link THEN 1 ELSE 0]
    BY DEF Init
  <2>2. trb \in [0..Link -> Cycle] /\ \A j \in 0..Link-1 : trb[j] = 0
    BY <2>1, RingSizes DEF Cycle
  <2>3. TrbTypeOK
    BY <2>1, <2>2, RingSizes DEF TrbTypeOK, Cycle
  <2>4. FrontI = 0 /\ FrontC = 1 /\ BackI = 0 /\ BackC = 1 /\ EvtI = i /\ EvtC = 1
    BY <2>0, <2>1, RingSizes DEF FrontI, FrontC, BackI, BackC, EvtI, EvtC
  <2>5. TrbCycles
    BY <2>2, <2>4, RingSizes DEF TrbCycles, Flip
  <2>6. evt \in [0..EVT_N-1 -> [cyc : Cycle, kind : Kinds]]
    BY <2>0, RingSizes DEF Cycle, Kinds
  <2>7. EvtTypeOK
    BY <2>0, <2>1, <2>4, <2>6, RingSizes DEF EvtTypeOK, Cycle
  <2>8. EvtCycles
    BY <2>0, <2>4, RingSizes DEF EvtCycles, Flip
  <2>9. Pending = {}
    BY <2>0 DEF Pending
  <2>10. Transfer
    BY <2>1, <2>4, <2>9 DEF Transfer, NotArmed, AtFront, InHand
  <2>11. KbdTypeOK /\ Histories
    <3>0. ~(ipc = "done")
      BY <2>1
    <3>1. ready = (ipc = "done")
      BY <2>1, <3>0, Zenon
    <3>2. Histories
      BY <2>1 DEF Histories
    <3> QED BY <2>1, <2>3, <2>7, <3>1, <3>2 DEF KbdTypeOK
  <2> QED BY <2>5, <2>8, <2>10, <2>11 DEF KbdInv
<1>2. KbdInv /\ [Next]_vars => KbdInv'
  <2> SUFFICES ASSUME KbdInv, [Next]_vars PROVE KbdInv'
    OBVIOUS
  <2>1. CASE UNCHANGED vars
    <3>1. UNCHANGED <<ipc, tpc, ready, enq, tcyc, deq, ecyc, es, trb, evt, erdp, hid, xdeq,
                      xcyc, xenq, xecyc, xst, sent, taken, errors>>
      BY <2>1 DEF vars, driver, xhc
    <3>2. /\ FrontI' = FrontI /\ FrontC' = FrontC /\ BackI' = BackI /\ BackC' = BackC
          /\ EvtI' = EvtI /\ EvtC' = EvtC /\ Pending' = Pending
      BY <3>1 DEF FrontI, FrontC, BackI, BackC, EvtI, EvtC, Pending, NextI, NextC, Link
    <3>3. KbdTypeOK' /\ TrbCycles' /\ EvtCycles' /\ Histories'
      BY <3>1, <3>2 DEF KbdInv, KbdTypeOK, TrbTypeOK, EvtTypeOK, TrbCycles, EvtCycles,
                        Histories, Link
    <3>4. Transfer'
      BY <3>1, <3>2 DEF KbdInv, Transfer, NotArmed, Queued, Completed, BeingRead, ToRearm,
                        Failed, AtFront, InHand, NextI, NextC, Link
    <3> QED BY <3>3, <3>4 DEF KbdInv
  <2> QED BY <2>1, BootPreserves, TimerPreserves, XhcPreserves DEF Next
<1> QED BY <1>1, <1>2, PTL DEF Spec

-----------------------------------------------------------------------------
(* The properties.                                                         *)

\* take_hid_report: for every size of both rings, every report reaches the
\* caller whole, once and in order.
THEOREM ReportsTakenOnce == Spec => []ReportsExactlyOnce
<1>1. KbdInv => ReportsExactlyOnce
  <2> SUFFICES ASSUME KbdInv PROVE ReportsExactlyOnce
    OBVIOUS
  <2>1. Len(sent) \in Nat /\ Len(taken) \in Nat
    BY DEF KbdInv, KbdTypeOK
  <2>2. Len(sent) = Len(taken) \/ Len(sent) = Len(taken) + 1
    BY DEF KbdInv, Transfer, NotArmed, Queued, Completed, BeingRead, ToRearm, Failed
  <2>3. \A i \in 1..Len(taken) : i \in 1..Len(sent)
    BY <2>1, <2>2
  <2>4. \A i \in 1..Len(taken) : taken[i] = sent[i]
    BY <2>3 DEF KbdInv, Histories
  <2> QED BY <2>1, <2>2, <2>4 DEF ReportsExactlyOnce
<1> QED BY <1>1, KbdInvariant, PTL

\* The shared buffer has one user: whatever the ring sizes and however often
\* the cycle bits have flipped, at most one transfer is under way, and exactly
\* one from the first doorbell on unless a transfer failed.
THEOREM OneTransferAtATime == Spec => []OneTransferInFlight
<1>1. KbdInv => OneTransferInFlight
  <2> SUFFICES ASSUME KbdInv PROVE OneTransferInFlight
    OBVIOUS
  <2> DEFINE hand == IF tpc \in {"read", "arm"} THEN 1 ELSE 0
             o == Cardinality(Owned)
             e == Cardinality(Pending)
  <2>0. /\ AtFront => Owned = {}
        /\ FrontI = NextI(BackI) /\ FrontC = NextC(BackI, BackC) => Owned = {BackI}
    BY OwnedByPosition DEF KbdInv, KbdTypeOK
  <2>1. Cardinality({}) = 0 /\ \A x : Cardinality({x}) = 1
    BY FS_EmptySet, FS_Singleton
  <2>2. CASE NotArmed
    <3>1. o = 0 /\ e = 0 /\ hand = 0 /\ ipc = "arm"
      BY <2>0, <2>1, <2>2 DEF NotArmed, InHand
    <3> QED BY <3>1 DEF OneTransferInFlight
  <2>3. CASE Queued
    <3>1. o = 1 /\ e = 0 /\ hand = 0
      BY <2>0, <2>1, <2>3 DEF Queued, InHand
    <3> QED BY <3>1 DEF OneTransferInFlight
  <2>4. CASE Completed
    <3>1. o = 0 /\ e = 1 /\ hand = 0
      BY <2>0, <2>1, <2>4 DEF Completed, InHand
    <3> QED BY <3>1 DEF OneTransferInFlight
  <2>5. CASE BeingRead \/ ToRearm
    <3>1. o = 0 /\ e = 0 /\ hand = 1
      BY <2>0, <2>1, <2>5 DEF BeingRead, ToRearm
    <3> QED BY <3>1 DEF OneTransferInFlight
  <2>6. CASE Failed
    <3>1. o = 0 /\ e \in {0, 1} /\ hand = 0
      BY <2>0, <2>1, <2>6 DEF Failed, InHand
    <3>2. errors # 0
      BY <2>6 DEF Failed, KbdInv, Transfer
    <3> QED BY <3>1, <3>2 DEF OneTransferInFlight
  <2> QED BY <2>2, <2>3, <2>4, <2>5, <2>6 DEF KbdInv, Transfer
<1> QED BY <1>1, KbdInvariant, PTL
=============================================================================
