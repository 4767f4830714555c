--------------------------- MODULE XhciEnumProofs ---------------------------
(***************************************************************************)
(* Proofs about XhciEnum for every number of ports and slots and every     *)
(* size of the rings: if the answers that come, come before the deadline,  *)
(* then each command gets its own completion and every slot is returned;   *)
(* and on a prompt controller nothing of the enumeration is left behind    *)
(* when the keyboard is handed over, and no keyboard is passed over.       *)
(***************************************************************************)
EXTENDS XhciEnum, Integers, WellFoundedInduction, TLAPS

-----------------------------------------------------------------------------
(* Numbers.                                                                *)

\* Every set of naturals that is not empty has a least element.
LEMMA LeastElement ==
  ASSUME NEW S \in SUBSET Nat, S # {}
  PROVE  \E m \in S : \A k \in S : m <= k
<1> DEFINE R == OpToRel(<, Nat)
<1>1. IsWellFoundedOn(R, Nat)
  BY NatLessThanWellFounded
<1>2. \A x, y \in Nat : y < x => <<y, x>> \in R
  BY DEF OpToRel
<1> HIDE DEF R
<1>3. PICK m \in S : \A y \in S : ~ (<<y, m>> \in R)
  BY <1>1, WFMin
<1>4. ASSUME NEW k \in S PROVE m <= k
  <2>1. m \in Nat /\ k \in Nat /\ ~ (k < m)
    BY <1>2, <1>3
  <2> QED BY <2>1
<1> QED BY <1>4

-----------------------------------------------------------------------------

Cycle == {0, 1}
Items == Commands \cup Transfers \cup {"none", "setup", "data"}
Cell  == [cyc : Cycle, item : Items, slot : Nat, port : Nat]
Evt   == [kind : {"cmd", "xfer", "port"}, slot : Nat, ok : BOOLEAN, of : Items, port : Nat]
Context == [st : {"off", "enabled", "default", "addressed", "configured"}, port : Nat,
            deq : 0..EP0_N-1, cycle : Cycle, run : {"idle", "active", "halted"}]

\* Steps at which no slot is in use, and those at which the device at port
\* holds slot.
Early == {"handoff", "reset", "start", "scan", "portreset"}
Held  == (Commands \ {"enable"}) \cup Transfers \cup {"ready"}

EnumTypeOK ==
  /\ port \in 1..NPorts+1 /\ step \in Early \cup Held \cup {"enable", "done"}
  /\ waiting \in BOOLEAN /\ hung \in BOOLEAN /\ slot \in Nat
  /\ cs \in [enq : 0..CMD_N-2, cycle : Cycle] /\ cmd \in [0..CMD_N-1 -> Cell]
  /\ ep0s \in [enq : 0..EP0_N-2, cycle : Cycle] /\ ep0 \in [Ports -> [0..EP0_N-1 -> Cell]]
  /\ xcmd \in [deq : 0..CMD_N-1, cycle : Cycle, run : BOOLEAN]
  /\ ctx \in [Slots -> Context]
  /\ evts \in Seq(Evt)

\* The driver waits only for commands and transfers, and works on a port only
\* when there is one.
DriverPlace ==
  /\ waiting => step \in Commands \cup Transfers
  /\ step \in Held \cup {"enable", "portreset"} => port \in Ports

\* The last TRB pushed, the next one the xHC will look at past the Link TRB.
LastI == IF cs.enq = 0 THEN CMD_N - 2 ELSE cs.enq - 1
LastC == IF cs.enq = 0 THEN Flip(cs.cycle) ELSE cs.cycle
BackI == IF xcmd.deq = CMD_N - 1 THEN 0 ELSE xcmd.deq
BackC == IF xcmd.deq = CMD_N - 1 THEN Flip(xcmd.cycle) ELSE xcmd.cycle

\* The cycle bits of the command ring, by the driver's position.
CmdCycles ==
  \A i \in 0..CMD_N-2 : cmd[i].cyc = IF i < cs.enq THEN cs.cycle ELSE Flip(cs.cycle)

\* The xHC waits at the Link TRB only if that has been handed over.
LinkOpen == xcmd.deq = CMD_N - 1 => cmd[CMD_N-1].cyc = xcmd.cycle

\* The xHC has executed every command, or all but the last one, which is the
\* one the driver waits for.
CaughtUp == BackI = cs.enq /\ BackC = cs.cycle /\ LinkOpen
Pending  ==
  /\ BackI = LastI /\ BackC = LastC /\ LinkOpen /\ xcmd.run
  /\ cmd[LastI] = [cyc |-> LastC, item |-> step, slot |-> slot, port |-> port]
  /\ cs.enq = 0 => cmd[CMD_N-1].cyc = LastC

\* The driver waits for a command whose completion is not posted.
Answered   == \E i \in 1..Len(evts) : evts[i].kind = "cmd"
Unanswered == waiting /\ step \in Commands /\ ~Answered

CommandPlace == ~hung => IF Unanswered THEN Pending ELSE CaughtUp

\* There is at most one completion, that of the command waited for.
OneCompletion ==
  \A i \in 1..Len(evts) : evts[i].kind = "cmd" =>
    /\ waiting /\ step \in Commands
    /\ evts[i].of = step /\ evts[i].port = port
    /\ \A j \in 1..Len(evts) : evts[j].kind = "cmd" => j = i

\* A slot in use belongs to a port, and so does a running EP0.
ContextPorts ==
  /\ \A s \in Slots : ctx[s].st # "off" => ctx[s].port \in Ports
  /\ ~hung => \A s \in Slots : ctx[s].run = "active" => ctx[s].port \in Ports

\* The slots in use, by the driver's step and by whether the command it waits
\* for has been executed.
SlotsByStep ==
  ~hung =>
    /\ step \in Early => Used = {}
    /\ step = "enable" /\ ~Answered => Used = {}
    /\ step = "enable" => \A i \in 1..Len(evts) : evts[i].kind = "cmd" =>
          IF evts[i].ok THEN evts[i].slot \in Slots /\ Used = {evts[i].slot} ELSE Used = {}
    /\ step \in Held => slot \in Slots
    /\ step \in Held => Used = IF step = "disable" /\ Answered THEN {} ELSE {slot}
    /\ step = "done" => Used \subseteq {kbdSlot}

EnumInv ==
  /\ EnumTypeOK /\ DriverPlace /\ CmdCycles /\ CommandPlace /\ OneCompletion
  /\ ContextPorts /\ SlotsByStep /\ CompletionIsOwn

-----------------------------------------------------------------------------
(* The rings, the steps and the event queue.                               *)

\* Flip exchanges the two cycle bits.
LEMMA FlipCycle ==
  ASSUME NEW c \in Cycle
  PROVE  Flip(c) \in Cycle /\ Flip(c) # c /\ Flip(Flip(c)) = c
BY DEF Cycle, Flip

\* A ring as it is first set up.
LEMMA EmptyRingType ==
  ASSUME NEW n \in Nat, n >= 2
  PROVE  /\ EmptyRing(n) \in [0..n-1 -> Cell]
         /\ \A i \in 0..n-2 : EmptyRing(n)[i].cyc = 0
<1>1. \A i \in 0..n-1 : [cyc |-> IF i = n - 1 THEN 1 ELSE 0, item |-> "none", slot |-> 0,
                         port |-> 0] \in Cell
  BY DEF Cell, Cycle, Items
<1> QED BY <1>1 DEF EmptyRing

\* cmd_push and ep0_push write one TRB, and the cycle bit of the Link TRB.
LEMMA RingPushType ==
  ASSUME NEW n \in Nat, n >= 2, NEW r \in [0..n-1 -> Cell], NEW i \in 0..n-2,
         NEW c \in Cycle, NEW t \in Cell
  PROVE  /\ RingPush(r, n, i, c, t) \in [0..n-1 -> Cell]
         /\ RingPush(r, n, i, c, t)[i] = [t EXCEPT !.cyc = c]
         /\ \A j \in 0..n-2 : j # i => RingPush(r, n, i, c, t)[j] = r[j]
         /\ RingPush(r, n, i, c, t)[n-1].cyc = IF i + 1 = n - 1 THEN c ELSE r[n-1].cyc
         /\ RingPush(r, n, i, c, t)[n-1].item = r[n-1].item
<1>1. [t EXCEPT !.cyc = c] \in Cell
  BY DEF Cell
<1>2. n - 1 \in 0..n-1 /\ i \in 0..n-1 /\ i # n - 1
  OBVIOUS
<1>3. r[n-1] \in Cell
  BY <1>2
<1>4. \A d \in Cycle : [r[n-1] EXCEPT !.cyc = d] \in Cell /\ [r[n-1] EXCEPT !.cyc = d].cyc = d
                        /\ [r[n-1] EXCEPT !.cyc = d].item = r[n-1].item
  BY <1>3 DEF Cell
<1>5. r[n-1].cyc \in Cycle
  BY <1>3 DEF Cell
<1> DEFINE d == IF i + 1 = n - 1 THEN c ELSE r[n-1].cyc
<1>6. d \in Cycle
  BY <1>5
<1> DEFINE a == [t EXCEPT !.cyc = c]
           b == [r[n-1] EXCEPT !.cyc = d]
           R == RingPush(r, n, i, c, t)
<1>7. R = [r EXCEPT ![i] = a, ![n-1] = b]
  BY <1>2 DEF RingPush
<1>8. a \in Cell /\ b \in Cell /\ b.cyc = d /\ b.item = r[n-1].item
  BY <1>1, <1>4, <1>6
<1> HIDE DEF a, b, d, R
<1>9. R \in [0..n-1 -> Cell] /\ R[i] = a /\ R[n-1] = b
  BY <1>2, <1>7, <1>8
<1>10. \A j \in 0..n-2 : j # i => R[j] = r[j]
  BY <1>2, <1>7
<1> QED BY <1>8, <1>9, <1>10 DEF a, d, R

\* The producer's position stays in front of the Link TRB.
LEMMA RingNextType ==
  ASSUME NEW n \in Nat, n >= 3, NEW st \in [enq : 0..n-2, cycle : Cycle]
  PROVE  /\ RingNext(st, n) \in [enq : 0..n-2, cycle : Cycle]
         /\ RingNext(st, n).enq = IF st.enq + 1 = n - 1 THEN 0 ELSE st.enq + 1
         /\ RingNext(st, n).cycle = IF st.enq + 1 = n - 1 THEN Flip(st.cycle) ELSE st.cycle
BY FlipCycle DEF RingNext

\* Every step but the last two has a successor, at which a slot is held.
LEMMA AfterHeld ==
  ASSUME NEW s \in (Commands \cup Transfers) \ {"disable"}
  PROVE  After(s) \in Held \ {"disable"}
<1>1. \E i \in 1..13 : Order[i] = s
  BY DEF Order, Commands, Transfers, Reads, Writes
<1>2. Len(Order) = 13
  BY DEF Order
<1> DEFINE k == CHOOSE i \in 1..13 : Order[i] = s
<1>3. k \in 1..13 /\ Order[k] = s
  BY <1>1
<1> HIDE DEF k
<1>4. k # 13
  BY <1>3 DEF Order, Commands, Transfers, Reads, Writes
<1>5. 1 + k \in 2..13
  BY <1>3, <1>4
<1>6. \A j \in 2..13 : Order[j] \in Held \ {"disable"}
  BY DEF Order, Held, Commands, Transfers, Reads, Writes
<1>7. After(s) = Order[1 + k]
  BY <1>2 DEF After, k
<1> QED BY <1>5, <1>6, <1>7

\* Where the loop goes: to the next port without a slot, or on with one.
LEMMA NextStepHeld ==
  ASSUME NEW s \in Commands \cup Transfers, NEW ok \in BOOLEAN
  PROVE  /\ s = "disable" \/ (s = "enable" /\ ~ok) => NextStep(s, ok) = "next"
         /\ ~(s = "disable" \/ (s = "enable" /\ ~ok)) => NextStep(s, ok) \in Held
         /\ s = "enable" => NextStep(s, ok) # "disable"
<1>1. "setconf" \in Held /\ "disable" \in Held
  BY DEF Held, Commands, Transfers, Writes
<1>2. CASE s = "disable"
  BY <1>2 DEF NextStep, Writes
<1>3. CASE s = "enable"
  <2>1. After(s) \in Held \ {"disable"}
    BY <1>3, AfterHeld
  <2>2. CASE ~ok
    BY <1>3, <2>2 DEF NextStep, Writes
  <2>3. CASE ok
    <3>1. NextStep(s, ok) = After(s)
      BY <1>3, <2>3 DEF NextStep, Writes
    <3> QED BY <1>3, <2>1, <2>3, <3>1
  <2> QED BY <2>2, <2>3
<1>4. CASE s \notin {"disable", "enable"}
  <2>1. After(s) \in Held
    BY <1>4, AfterHeld
  <2>2. CASE s = "cfg"
    BY <1>1, <1>4, <2>2 DEF NextStep, Writes
  <2>3. CASE s \in Writes
    <3>1. NextStep(s, ok) = After(s)
      BY <2>3 DEF NextStep, Writes
    <3> QED BY <1>4, <2>1, <3>1
  <2>4. CASE s \notin Writes /\ s # "cfg"
    <3>1. NextStep(s, ok) = IF ok THEN After(s) ELSE "disable"
      BY <1>4, <2>4 DEF NextStep
    <3> QED BY <1>1, <1>4, <2>1, <3>1
  <2> QED BY <2>2, <2>3, <2>4
<1> QED BY <1>2, <1>3, <1>4

\* What an event appended to the queue changes.
LEMMA AppendEvent ==
  ASSUME NEW q \in Seq(Evt), NEW e \in Evt
  PROVE  /\ Append(q, e) \in Seq(Evt) /\ Len(q) \in Nat /\ Len(Append(q, e)) = Len(q) + 1
         /\ \A i \in 1..Len(q) : Append(q, e)[i] = q[i]
         /\ Append(q, e)[Len(q) + 1] = e
OBVIOUS

\* What taking the first event off the queue changes.
LEMMA TailEvent ==
  ASSUME NEW q \in Seq(Evt), q # <<>>
  PROVE  /\ Tail(q) \in Seq(Evt) /\ Len(q) \in Nat \ {0} /\ Len(Tail(q)) = Len(q) - 1
         /\ \A i \in 1..Len(Tail(q)) : i + 1 \in 1..Len(q) /\ Tail(q)[i] = q[i+1]
         /\ Head(q) = q[1] /\ q[1] \in Evt /\ 1 \in 1..Len(q)
<1>1. Len(q) \in Nat \ {0}
  OBVIOUS
<1> QED BY <1>1

\* An event that is not a command completion is appended.
LEMMA OtherAppended ==
  ASSUME evts \in Seq(Evt), NEW e \in Evt, e.kind # "cmd", evts' = Append(evts, e)
  PROVE  /\ evts' \in Seq(Evt) /\ (Answered' <=> Answered)
         /\ \A i \in 1..Len(evts') : evts'[i].kind = "cmd" =>
               i + 0 \in 1..Len(evts) /\ evts'[i] = evts[i + 0]
<1>1. /\ evts' \in Seq(Evt) /\ Len(evts) \in Nat /\ Len(evts') = Len(evts) + 1
      /\ \A i \in 1..Len(evts) : evts'[i] = evts[i]
      /\ evts'[Len(evts) + 1] = e
  BY AppendEvent
<1>2. \A i \in 1..Len(evts') : i \in 1..Len(evts) \/ i = Len(evts) + 1
  BY <1>1
<1>3. \A i \in 1..Len(evts) : i \in 1..Len(evts')
  BY <1>1
<1> QED BY <1>1, <1>2, <1>3 DEF Answered

\* The first event, not a command completion, is taken off.
LEMMA OtherTaken ==
  ASSUME evts \in Seq(Evt), evts # <<>>, Head(evts).kind # "cmd", evts' = Tail(evts)
  PROVE  /\ evts' \in Seq(Evt) /\ (Answered' <=> Answered)
         /\ \A i \in 1..Len(evts') : evts'[i].kind = "cmd" =>
               i + 1 \in 1..Len(evts) /\ evts'[i] = evts[i + 1]
<1>1. /\ evts' \in Seq(Evt) /\ Len(evts) \in Nat \ {0} /\ Len(evts') = Len(evts) - 1
      /\ \A i \in 1..Len(evts') : i + 1 \in 1..Len(evts) /\ evts'[i] = evts[i+1]
      /\ Head(evts) = evts[1]
  BY TailEvent
<1>2. ASSUME Answered PROVE Answered'
  <2>1. PICK i \in 1..Len(evts) : evts[i].kind = "cmd"
    BY <1>2 DEF Answered
  <2>2. i - 1 \in 1..Len(evts') /\ i = (i - 1) + 1
    BY <1>1, <2>1
  <2>3. evts'[i - 1].kind = "cmd"
    BY <1>1, <2>1, <2>2
  <2> QED BY <2>2, <2>3 DEF Answered
<1>3. ASSUME Answered' PROVE Answered
  BY <1>1, <1>3 DEF Answered
<1> QED BY <1>1, <1>2, <1>3

\* The driver stays where it is and the command completions in the queue are
\* the ones there were, d places further back.
LEMMA QueueFrame ==
  ASSUME EnumInv, Used' = Used, UNCHANGED <<waiting, step, port, slot, kbdSlot, hung>>,
         NEW d \in Nat, evts' \in Seq(Evt), Answered' <=> Answered,
         \A i \in 1..Len(evts') : evts'[i].kind = "cmd" =>
               i + d \in 1..Len(evts) /\ evts'[i] = evts[i + d]
  PROVE  OneCompletion' /\ SlotsByStep'
<1>1. OneCompletion /\ SlotsByStep
  BY DEF EnumInv
<1>2. OneCompletion'
  <2> SUFFICES ASSUME NEW i \in 1..Len(evts'), evts'[i].kind = "cmd"
               PROVE  /\ waiting' /\ step' \in Commands
                      /\ evts'[i].of = step' /\ evts'[i].port = port'
                      /\ \A j \in 1..Len(evts') : evts'[j].kind = "cmd" => j = i
    BY DEF OneCompletion
  <2>1. i + d \in 1..Len(evts) /\ evts'[i] = evts[i + d]
    OBVIOUS
  <2>2. ASSUME NEW j \in 1..Len(evts'), evts'[j].kind = "cmd" PROVE j = i
    <3>1. j + d \in 1..Len(evts) /\ evts'[j] = evts[j + d]
      BY <2>2
    <3>2. j + d = i + d
      BY <1>1, <2>1, <2>2, <3>1 DEF OneCompletion
    <3> QED BY <3>2
  <2> QED BY <1>1, <2>1, <2>2 DEF OneCompletion
<1>3. SlotsByStep'
  <2> SUFFICES ASSUME ~hung PROVE SlotsByStep'
    BY DEF SlotsByStep
  <2>1. ASSUME step = "enable", NEW i \in 1..Len(evts'), evts'[i].kind = "cmd"
        PROVE  IF evts'[i].ok THEN evts'[i].slot \in Slots /\ Used' = {evts'[i].slot}
                              ELSE Used' = {}
    <3>1. i + d \in 1..Len(evts) /\ evts'[i] = evts[i + d]
      BY <2>1
    <3> QED BY <1>1, <2>1, <3>1 DEF SlotsByStep
  <2> QED BY <1>1, <2>1 DEF SlotsByStep
<1> QED BY <1>2, <1>3

\* Neither side moves in the command ring.
LEMMA RingFrame ==
  ASSUME EnumInv, UNCHANGED <<cs, cmd, xcmd, step, slot, port, waiting, hung>>,
         Answered' <=> Answered
  PROVE  CmdCycles' /\ CommandPlace'
<1>1. CmdCycles /\ CommandPlace
  BY DEF EnumInv
<1>2. CmdCycles'
  BY <1>1 DEF CmdCycles
<1>3. (Pending' <=> Pending) /\ (CaughtUp' <=> CaughtUp)
  BY DEF Pending, CaughtUp, BackI, BackC, LastI, LastC, LinkOpen
<1>4. Unanswered' <=> Unanswered
  BY DEF Unanswered
<1> QED BY <1>1, <1>2, <1>3, <1>4 DEF CommandPlace

-----------------------------------------------------------------------------
(* The driver's steps.                                                     *)

\* While the driver does not wait there is no completion in the queue.
LEMMA NotWaiting ==
  ASSUME EnumInv, ~waiting
  PROVE  /\ ~Answered /\ (~hung => CaughtUp)
         /\ \A i \in 1..Len(evts) : evts[i].kind # "cmd"
<1>1. OneCompletion /\ CommandPlace
  BY DEF EnumInv
<1>2. \A i \in 1..Len(evts) : evts[i].kind # "cmd"
  BY <1>1 DEF OneCompletion
<1> QED BY <1>1, <1>2 DEF Answered, CommandPlace, Unanswered

\* A step of init_unsafe that touches neither rings nor queue.
LEMMA QuietStep ==
  ASSUME EnumInv, ~waiting,
         UNCHANGED <<waiting, slot, cs, ep0s, answer, memory, evts, xhc>>,
         port' \in 1..NPorts+1, step' \in Early \cup Held \cup {"enable", "done"},
         step' \in Held \cup {"enable", "portreset"} => port' \in Ports,
         ~hung => /\ step' \in Early \cup {"enable"} => Used = {}
                  /\ step' \notin Held
                  /\ step' = "done" => Used \subseteq {kbdSlot'}
  PROVE  EnumInv'
<1>1. /\ EnumTypeOK /\ DriverPlace /\ CmdCycles /\ CommandPlace /\ OneCompletion
      /\ ContextPorts /\ SlotsByStep /\ CompletionIsOwn
  BY DEF EnumInv
<1>2. ~Answered /\ (~hung => CaughtUp) /\ \A i \in 1..Len(evts) : evts[i].kind # "cmd"
  BY NotWaiting
<1>3. evts' = evts /\ hung' = hung /\ ctx' = ctx /\ ~waiting'
  BY DEF xhc
<1>4. EnumTypeOK'
  BY <1>1, <1>3 DEF EnumTypeOK, memory, xhc
<1>5. DriverPlace'
  BY <1>3 DEF DriverPlace
<1>6. CmdCycles'
  BY <1>1 DEF CmdCycles, memory
<1>7. CommandPlace'
  <2>1. CaughtUp' <=> CaughtUp
    BY DEF CaughtUp, BackI, BackC, LinkOpen, memory, xhc
  <2>2. ~Unanswered'
    BY <1>3 DEF Unanswered
  <2> QED BY <1>2, <1>3, <2>1, <2>2 DEF CommandPlace
<1>8. OneCompletion'
  BY <1>2, <1>3 DEF OneCompletion
<1>9. ContextPorts'
  BY <1>1, <1>3 DEF ContextPorts
<1>10. SlotsByStep'
  <2>1. Used' = Used
    BY <1>3 DEF Used
  <2> QED BY <1>2, <1>3, <2>1 DEF SlotsByStep
<1>11. CompletionIsOwn'
  BY <1>1 DEF CompletionIsOwn
<1> QED BY <1>4, <1>5, <1>6, <1>7, <1>8, <1>9, <1>10, <1>11 DEF EnumInv

\* The steps before a device is worked on, and the last one.
LEMMA LoopStep ==
  ASSUME EnumInv,
         \/ BiosHandoff \/ Scan \/ Ready
         \/ \E ok \in BOOLEAN : XhciReset(ok) \/ StartController(ok) \/ PortReset(ok)
  PROVE  EnumInv'
<1>1. EnumTypeOK /\ DriverPlace /\ SlotsByStep
  BY DEF EnumInv
<1>2. step \in Early \cup {"ready"}
  BY DEF BiosHandoff, Scan, Ready, XhciReset, StartController, PortReset, Early
<1>3. ~waiting
  BY <1>1, <1>2 DEF DriverPlace, Early, Commands, Transfers, Reads, Writes
<1>4. NPorts \in Nat /\ port \in 1..NPorts+1
  BY <1>1, SizeAssumption DEF EnumTypeOK
<1>5. CASE BiosHandoff
  <2>1. step' = "reset" /\ step = "handoff" /\ port' = port
    BY <1>5 DEF BiosHandoff
  <2>2. ~hung => Used = {}
    BY <1>1, <2>1 DEF SlotsByStep, Early
  <2>3. UNCHANGED <<waiting, slot, cs, ep0s, answer, memory, evts, xhc>>
    BY <1>5 DEF BiosHandoff
  <2>4. step' \in Early /\ step' \notin Held \cup {"enable", "portreset", "done"}
    BY <2>1 DEF Early, Held, Commands, Transfers, Reads, Writes
  <2> QED BY <1>3, <1>4, <2>1, <2>2, <2>3, <2>4, QuietStep
<1>6. CASE Scan
  <2>1. /\ step = "scan"
        /\ \/ step' = "done" /\ port' = port
           \/ port <= NPorts /\ step' = "scan" /\ port' = port + 1
           \/ port <= NPorts /\ step' = "portreset" /\ port' = port
    BY <1>4, <1>6 DEF Scan
  <2>2. ~hung => Used = {}
    BY <1>1, <2>1 DEF SlotsByStep, Early
  <2>3. UNCHANGED <<waiting, slot, cs, ep0s, answer, memory, evts, xhc>>
    BY <1>6 DEF Scan
  <2>4. step' \in Early \cup {"done"} /\ step' \notin Held \cup {"enable"}
    BY <2>1 DEF Early, Held, Commands, Transfers, Reads, Writes
  <2>5. port' \in 1..NPorts+1 /\ (step' = "portreset" => port' \in Ports)
    BY <1>4, <2>1 DEF Ports
  <2> QED BY <1>3, <2>2, <2>3, <2>4, <2>5, QuietStep
<1>7. CASE Ready
  <2>1. step = "ready" /\ step' = "done" /\ kbdSlot' = slot /\ port' = port
    BY <1>7 DEF Ready
  <2>2. ~hung => Used = {slot}
    BY <1>1, <2>1 DEF SlotsByStep, Held
  <2>3. UNCHANGED <<waiting, slot, cs, ep0s, answer, memory, evts, xhc>>
    BY <1>7 DEF Ready
  <2>4. step' \notin Early \cup Held \cup {"enable", "portreset"}
    BY <2>1 DEF Early, Held, Commands, Transfers, Reads, Writes
  <2> QED BY <1>3, <1>4, <2>1, <2>2, <2>3, <2>4, QuietStep
<1>8. ASSUME NEW ok \in BOOLEAN, XhciReset(ok) \/ StartController(ok) PROVE EnumInv'
  <2>1. step \in {"reset", "start"} /\ step' \in {"start", "scan", "done"} /\ port' = port
    BY <1>8 DEF XhciReset, StartController
  <2>2. ~hung => Used = {}
    BY <1>1, <2>1 DEF SlotsByStep, Early
  <2>3. UNCHANGED <<waiting, slot, cs, ep0s, answer, memory, evts, xhc>>
    BY <1>8 DEF XhciReset, StartController
  <2>4. step' \in Early \cup {"done"} /\ step' \notin Held \cup {"enable", "portreset"}
    BY <2>1 DEF Early, Held, Commands, Transfers, Reads, Writes
  <2> QED BY <1>3, <1>4, <2>1, <2>2, <2>3, <2>4, QuietStep
<1>9. ASSUME NEW ok \in BOOLEAN, PortReset(ok) PROVE EnumInv'
  <2>1. step = "portreset" /\ step' \in {"portreset", "enable"} /\ port' = port
    BY <1>9 DEF PortReset
  <2>2. (~hung => Used = {}) /\ port \in Ports
    BY <1>1, <2>1 DEF SlotsByStep, Early, DriverPlace
  <2>3. UNCHANGED <<waiting, slot, cs, ep0s, answer, memory, evts, xhc>>
    BY <1>9 DEF PortReset
  <2>4. step' \in Early \cup {"enable"} /\ step' \notin Held \cup {"done"}
    BY <2>1 DEF Early, Held, Commands, Transfers, Reads, Writes
  <2> QED BY <1>3, <1>4, <2>1, <2>2, <2>3, <2>4, QuietStep
<1> QED BY <1>5, <1>6, <1>7, <1>8, <1>9

\* The TRB of the current step.
LEMMA TrbType ==
  ASSUME EnumTypeOK, NEW it \in Items
  PROVE  Trb(it) \in Cell
<1>1. slot \in Nat /\ port \in Nat
  BY SizeAssumption DEF EnumTypeOK
<1> QED BY <1>1 DEF Trb, Cell, Cycle

\* cmd_push: the xHC was level with the driver and is now one command behind.
LEMMA PushCommandStep ==
  ASSUME EnumInv, PushCommand
  PROVE  EnumInv'
<1>1. /\ EnumTypeOK /\ DriverPlace /\ CmdCycles /\ CommandPlace /\ OneCompletion
      /\ ContextPorts /\ SlotsByStep /\ CompletionIsOwn
  BY DEF EnumInv
<1>2. /\ step \in Commands /\ ~waiting /\ waiting'
      /\ cmd' = RingPush(cmd, CMD_N, cs.enq, cs.cycle, Trb(step))
      /\ cs' = RingNext(cs, CMD_N)
      /\ xcmd' = [xcmd EXCEPT !.run = TRUE]
      /\ UNCHANGED <<port, step, slot, ep0s, kbdSlot, answer, ep0, evts, ctx, hung>>
  BY DEF PushCommand
<1>3. ~Answered /\ (~hung => CaughtUp) /\ \A i \in 1..Len(evts) : evts[i].kind # "cmd"
  BY <1>2, NotWaiting
<1>4. CMD_N \in Nat /\ CMD_N >= 3 /\ cs.enq \in 0..CMD_N-2 /\ cs.cycle \in Cycle
      /\ cs \in [enq : 0..CMD_N-2, cycle : Cycle] /\ cmd \in [0..CMD_N-1 -> Cell]
  BY <1>1, SizeAssumption DEF EnumTypeOK
<1>5. Trb(step) \in Cell
  BY <1>1, <1>2, TrbType DEF Items
<1>6. /\ cmd' \in [0..CMD_N-1 -> Cell]
      /\ cmd'[cs.enq] = [Trb(step) EXCEPT !.cyc = cs.cycle]
      /\ \A j \in 0..CMD_N-2 : j # cs.enq => cmd'[j] = cmd[j]
      /\ cmd'[CMD_N-1].cyc = IF cs.enq + 1 = CMD_N - 1 THEN cs.cycle ELSE cmd[CMD_N-1].cyc
  BY <1>2, <1>4, <1>5, RingPushType
<1>7. /\ cs' \in [enq : 0..CMD_N-2, cycle : Cycle]
      /\ cs'.enq = IF cs.enq + 1 = CMD_N - 1 THEN 0 ELSE cs.enq + 1
      /\ cs'.cycle = IF cs.enq + 1 = CMD_N - 1 THEN Flip(cs.cycle) ELSE cs.cycle
  BY <1>2, <1>4, RingNextType
<1>8. /\ xcmd' \in [deq : 0..CMD_N-1, cycle : Cycle, run : BOOLEAN]
      /\ xcmd'.deq = xcmd.deq /\ xcmd'.cycle = xcmd.cycle /\ xcmd'.run
  BY <1>1, <1>2 DEF EnumTypeOK
<1>9. EnumTypeOK'
  BY <1>1, <1>2, <1>6, <1>7, <1>8 DEF EnumTypeOK
<1>10. DriverPlace'
  BY <1>1, <1>2 DEF DriverPlace
<1>11. cmd'[cs.enq] = [cyc |-> cs.cycle, item |-> step, slot |-> slot, port |-> port]
  BY <1>6 DEF Trb
<1>12. Flip(cs.cycle) \in Cycle /\ Flip(cs.cycle) # cs.cycle /\ Flip(Flip(cs.cycle)) = cs.cycle
  BY <1>4, FlipCycle
<1>13. CmdCycles'
  <2> SUFFICES ASSUME NEW i \in 0..CMD_N-2
               PROVE  cmd'[i].cyc = IF i < cs'.enq THEN cs'.cycle ELSE Flip(cs'.cycle)
    BY DEF CmdCycles
  <2>1. i # cs.enq => cmd'[i].cyc = IF i < cs.enq THEN cs.cycle ELSE Flip(cs.cycle)
    BY <1>1, <1>6 DEF CmdCycles
  <2>2. cmd'[cs.enq].cyc = cs.cycle
    BY <1>11
  <2>3. CASE cs.enq + 1 = CMD_N - 1
    BY <1>4, <1>7, <1>12, <2>1, <2>2, <2>3
  <2>4. CASE cs.enq + 1 # CMD_N - 1
    BY <1>4, <1>7, <2>1, <2>2, <2>4
  <2> QED BY <2>3, <2>4
<1>14. LastI' = cs.enq /\ LastC' = cs.cycle
  BY <1>4, <1>7, <1>12 DEF LastI, LastC
<1>15. CommandPlace'
  <2> SUFFICES ASSUME ~hung' PROVE Pending'
    BY <1>2, <1>3 DEF CommandPlace, Unanswered, Answered
  <2>1. BackI = cs.enq /\ BackC = cs.cycle /\ LinkOpen
    BY <1>2, <1>3 DEF CaughtUp
  <2>2. BackI' = BackI /\ BackC' = BackC
    BY <1>8 DEF BackI, BackC
  <2>3. xcmd.deq = CMD_N - 1 => cs.enq + 1 # CMD_N - 1
    BY <1>4, <2>1 DEF BackI
  <2>4. LinkOpen'
    BY <1>6, <1>8, <2>1, <2>3 DEF LinkOpen
  <2>5. cs'.enq = 0 => cmd'[CMD_N-1].cyc = LastC'
    BY <1>4, <1>6, <1>7, <1>14
  <2>6. cmd'[LastI'] = [cyc |-> LastC', item |-> step', slot |-> slot', port |-> port']
    BY <1>2, <1>11, <1>14
  <2> QED BY <1>8, <1>14, <2>1, <2>2, <2>4, <2>5, <2>6 DEF Pending
<1>16. OneCompletion'
  BY <1>2, <1>3 DEF OneCompletion
<1>17. ContextPorts'
  BY <1>1, <1>2 DEF ContextPorts
<1>18. SlotsByStep'
  <2>1. Used' = Used
    BY <1>2 DEF Used
  <2>2. ~Answered'
    BY <1>2, <1>3 DEF Answered
  <2> QED BY <1>1, <1>2, <1>3, <2>1, <2>2 DEF SlotsByStep
<1>19. CompletionIsOwn'
  BY <1>1, <1>2 DEF CompletionIsOwn
<1> QED BY <1>9, <1>10, <1>13, <1>15, <1>16, <1>17, <1>18, <1>19 DEF EnumInv

\* ep0_push keeps ring and position well formed.
LEMMA Ep0PushType ==
  ASSUME EnumTypeOK, NEW it \in Items,
         NEW q \in [ring : [0..EP0_N-1 -> Cell], st : [enq : 0..EP0_N-2, cycle : Cycle]]
  PROVE  ep0_push(q, it) \in
           [ring : [0..EP0_N-1 -> Cell], st : [enq : 0..EP0_N-2, cycle : Cycle]]
<1>1. EP0_N \in Nat /\ EP0_N >= 4
  BY SizeAssumption
<1>2. q.ring \in [0..EP0_N-1 -> Cell] /\ q.st \in [enq : 0..EP0_N-2, cycle : Cycle]
      /\ q.st.enq \in 0..EP0_N-2 /\ q.st.cycle \in Cycle
  OBVIOUS
<1>3. RingPush(q.ring, EP0_N, q.st.enq, q.st.cycle, Trb(it)) \in [0..EP0_N-1 -> Cell]
  <2>1. Trb(it) \in Cell /\ EP0_N >= 2
    BY <1>1, TrbType
  <2> QED BY <1>1, <1>2, <2>1, RingPushType
<1>4. RingNext(q.st, EP0_N) \in [enq : 0..EP0_N-2, cycle : Cycle]
  BY <1>1, <1>2, RingNextType
<1> QED BY <1>3, <1>4 DEF ep0_push

\* ctrl_in and ctrl_out push on the EP0 ring only.
LEMMA PushTransferStep ==
  ASSUME EnumInv, PushTransfer
  PROVE  EnumInv'
<1>1. /\ EnumTypeOK /\ DriverPlace /\ CmdCycles /\ CommandPlace /\ OneCompletion
      /\ ContextPorts /\ SlotsByStep /\ CompletionIsOwn
  BY DEF EnumInv
<1> DEFINE q0 == [ring |-> ep0[port], st |-> ep0s]
           q  == Stages(step, q0)
           Q  == [ring : [0..EP0_N-1 -> Cell], st : [enq : 0..EP0_N-2, cycle : Cycle]]
<1>2. /\ step \in Transfers /\ ~waiting /\ waiting'
      /\ ep0' = [ep0 EXCEPT ![port] = q.ring] /\ ep0s' = q.st
      /\ ctx' = [ctx EXCEPT ![slot].run = IF @ = "idle" THEN "active" ELSE @]
      /\ UNCHANGED <<port, step, slot, cs, kbdSlot, answer, cmd, evts, xcmd, hung>>
  BY DEF PushTransfer
<1>3. step \in Held /\ step # "disable" /\ step # "enable" /\ step \notin Commands
      /\ step \notin Early /\ step # "done" /\ step # "ready"
  BY <1>2 DEF Held, Early, Commands, Transfers, Reads, Writes
<1>4. port \in Ports
  BY <1>1, <1>3 DEF DriverPlace
<1>5. q \in Q
  <2>1. q0 \in Q
    BY <1>1, <1>4 DEF EnumTypeOK
  <2>2. "setup" \in Items /\ "data" \in Items /\ step \in Items
    BY <1>2 DEF Items
  <2>3. \A r \in Q, it \in Items : ep0_push(r, it) \in Q
    BY <1>1, Ep0PushType
  <2> HIDE DEF q0, Q
  <2> QED BY <2>1, <2>2, <2>3 DEF Stages
<1>6. q.ring \in [0..EP0_N-1 -> Cell] /\ q.st \in [enq : 0..EP0_N-2, cycle : Cycle]
  BY <1>5
<1> HIDE DEF q0, q, Q
<1>7. \A s \in Slots : /\ ctx'[s] \in Context
                       /\ ctx'[s].st = ctx[s].st /\ ctx'[s].port = ctx[s].port
                       /\ s # slot => ctx'[s].run = ctx[s].run
  <2> TAKE s \in Slots
  <2>1. ctx \in [Slots -> Context] /\ ctx[s] \in Context
    BY <1>1 DEF EnumTypeOK
  <2>2. CASE s = slot
    <3>1. ctx'[s] = [ctx[s] EXCEPT !.run = IF @ = "idle" THEN "active" ELSE @]
      BY <1>2, <2>1, <2>2
    <3> QED BY <2>1, <2>2, <3>1 DEF Context
  <2>3. CASE s # slot
    BY <1>2, <2>1, <2>3
  <2> QED BY <2>2, <2>3
<1>8. ctx' \in [Slots -> Context]
  <2>1. DOMAIN ctx' = Slots /\ ctx' = [s \in DOMAIN ctx' |-> ctx'[s]]
    BY <1>1, <1>2 DEF EnumTypeOK
  <2> QED BY <1>7, <2>1
<1>9. EnumTypeOK'
  <2>1. ep0' \in [Ports -> [0..EP0_N-1 -> Cell]]
    BY <1>1, <1>2, <1>6 DEF EnumTypeOK
  <2> QED BY <1>1, <1>2, <1>6, <1>8, <2>1 DEF EnumTypeOK
<1>10. Used' = Used
  BY <1>7 DEF Used
<1>11. ContextPorts'
  <2>1. ~hung => slot \in Slots /\ ctx[slot].st # "off"
    BY <1>1, <1>3 DEF SlotsByStep, Used
  <2> QED BY <1>1, <1>2, <1>7, <2>1 DEF ContextPorts
<1>12. DriverPlace'
  BY <1>1, <1>2 DEF DriverPlace
<1>13. ~Answered /\ (~hung => CaughtUp) /\ \A i \in 1..Len(evts) : evts[i].kind # "cmd"
  BY <1>2, NotWaiting
<1>14. CmdCycles' /\ CommandPlace'
  <2>1. CmdCycles'
    BY <1>1, <1>2 DEF CmdCycles
  <2>2. CaughtUp' <=> CaughtUp
    BY <1>2 DEF CaughtUp, BackI, BackC, LinkOpen
  <2> QED BY <1>2, <1>3, <1>13, <2>1, <2>2 DEF CommandPlace, Unanswered
<1>15. OneCompletion'
  BY <1>2, <1>13 DEF OneCompletion
<1>16. SlotsByStep'
  BY <1>1, <1>2, <1>3, <1>10 DEF SlotsByStep
<1>17. CompletionIsOwn'
  BY <1>1, <1>2 DEF CompletionIsOwn
<1> QED BY <1>9, <1>11, <1>12, <1>14, <1>15, <1>16, <1>17 DEF EnumInv

\* The end of a wait: the loop goes on with the slot that is in use, or to
\* the next port with none.
LEMMA FinishStep ==
  ASSUME EnumInv, waiting, NEW ok \in BOOLEAN, NEW sl \in Nat, Finish(ok, sl),
         UNCHANGED <<cs, kbdSlot, memory, xhc>>, CompletionIsOwn',
         evts' \in Seq(Evt), \A i \in 1..Len(evts') : evts'[i].kind # "cmd",
         ~hung => /\ CaughtUp
                  /\ step = "enable" => IF ok THEN sl \in Slots /\ Used = {sl} ELSE Used = {}
                  /\ step = "disable" => Used = {}
  PROVE  EnumInv'
<1>1. /\ EnumTypeOK /\ DriverPlace /\ CmdCycles /\ ContextPorts /\ SlotsByStep
  BY DEF EnumInv
<1>2. /\ waiting' = FALSE /\ hung' = hung /\ ctx' = ctx /\ xcmd' = xcmd /\ cmd' = cmd /\ ep0' = ep0
      /\ cs' = cs /\ Used' = Used
  BY DEF Finish, xhc, memory, Used
<1>3. step \in Commands \cup Transfers
  BY <1>1 DEF DriverPlace
<1>4. step \in Held \cup {"enable"} /\ (step = "enable" => step \notin Held)
  BY <1>3 DEF Held, Commands, Transfers, Reads, Writes
<1>5. port \in Ports /\ port \in 1..NPorts /\ NPorts \in Nat
  BY <1>1, <1>4, SizeAssumption DEF DriverPlace, Ports
<1>6. /\ step = "disable" \/ (step = "enable" /\ ~ok) => NextStep(step, ok) = "next"
      /\ ~(step = "disable" \/ (step = "enable" /\ ~ok)) => NextStep(step, ok) \in Held
      /\ step = "enable" => NextStep(step, ok) # "disable"
  BY <1>3, NextStepHeld
<1>7. "next" \notin Held /\ "scan" \notin Held /\ "scan" \in Early
      /\ Early \cap Held = {} /\ "enable" \notin Held /\ "done" \notin Held /\ "enable" \notin Early
  BY DEF Held, Early, Commands, Transfers, Reads, Writes
<1>8. /\ slot' \in Nat /\ ep0s' \in [enq : 0..EP0_N-2, cycle : Cycle]
      /\ slot' = IF step = "enable" /\ ok THEN sl ELSE slot
  <2>1. [enq |-> 0, cycle |-> 1] \in [enq : 0..EP0_N-2, cycle : Cycle]
    BY SizeAssumption DEF Cycle
  <2>2. slot \in Nat /\ ep0s \in [enq : 0..EP0_N-2, cycle : Cycle]
    BY <1>1 DEF EnumTypeOK
  <2> QED BY <2>1, <2>2 DEF Finish
<1>9. ~Answered'
  BY DEF Answered
<1>10. CmdCycles' /\ CommandPlace' /\ OneCompletion' /\ ContextPorts'
  <2>1. CmdCycles'
    BY <1>1, <1>2 DEF CmdCycles
  <2>2. CaughtUp' <=> CaughtUp
    BY <1>2 DEF CaughtUp, BackI, BackC, LinkOpen
  <2>3. CommandPlace'
    BY <1>2, <2>2 DEF CommandPlace, Unanswered
  <2>4. OneCompletion'
    BY DEF OneCompletion
  <2>5. ContextPorts'
    BY <1>1, <1>2 DEF ContextPorts
  <2> QED BY <2>1, <2>3, <2>4, <2>5
<1>11. CASE NextStep(step, ok) = "next"
  <2>1. step' = "scan" /\ port' = port + 1
    BY <1>11 DEF Finish
  <2>2. ~hung => Used = {}
    BY <1>6, <1>7, <1>11
  <2>3. EnumTypeOK'
    <3>1. port' \in 1..NPorts+1 /\ step' \in Early \cup Held \cup {"enable", "done"}
      BY <1>5, <1>7, <2>1
    <3> QED BY <1>1, <1>2, <1>8, <3>1 DEF EnumTypeOK
  <2>4. DriverPlace'
    BY <1>2, <1>7, <2>1 DEF DriverPlace
  <2>5. SlotsByStep'
    BY <1>2, <1>7, <2>1, <2>2 DEF SlotsByStep
  <2> QED BY <1>10, <2>3, <2>4, <2>5 DEF EnumInv
<1>12. CASE NextStep(step, ok) # "next"
  <2>1. step' \in Held /\ port' = port
    BY <1>6, <1>12 DEF Finish
  <2>2. ~hung => slot' \in Slots /\ Used = {slot'}
    <3>1. CASE step = "enable"
      BY <1>6, <1>8, <1>12, <3>1
    <3>2. CASE step # "enable"
      <4>1. step \in Held /\ step # "disable"
        BY <1>4, <1>6, <1>12, <3>2
      <4> QED BY <1>1, <1>8, <3>2, <4>1 DEF SlotsByStep
    <3> QED BY <3>1, <3>2
  <2>3. EnumTypeOK'
    BY <1>1, <1>2, <1>8, <2>1 DEF EnumTypeOK
  <2>4. DriverPlace'
    BY <1>2, <1>5, <2>1 DEF DriverPlace
  <2>5. SlotsByStep'
    BY <1>2, <1>7, <1>9, <2>1, <2>2 DEF SlotsByStep
  <2> QED BY <1>10, <2>3, <2>4, <2>5 DEF EnumInv
<1> QED BY <1>11, <1>12

\* evt_wait: an event that is the answer ends the wait, with the command's
\* own completion; any other is discarded.
LEMMA TakeEventStep ==
  ASSUME EnumInv, TakeEvent
  PROVE  EnumInv'
<1>1. /\ EnumTypeOK /\ DriverPlace /\ CmdCycles /\ CommandPlace /\ OneCompletion
      /\ ContextPorts /\ SlotsByStep /\ CompletionIsOwn
  BY DEF EnumInv
<1>2. /\ waiting /\ evts # <<>> /\ evts' = Tail(evts)
      /\ UNCHANGED <<cs, kbdSlot, memory, xhc>>
  BY DEF TakeEvent
<1>3. evts \in Seq(Evt)
  BY <1>1 DEF EnumTypeOK
<1>4. /\ evts' \in Seq(Evt) /\ Len(evts) \in Nat \ {0} /\ Len(evts') = Len(evts) - 1
      /\ \A i \in 1..Len(evts') : i + 1 \in 1..Len(evts) /\ evts'[i] = evts[i+1]
      /\ Head(evts) = evts[1] /\ evts[1] \in Evt /\ 1 \in 1..Len(evts)
  BY <1>2, <1>3, TailEvent
<1>5. step \in Commands \cup Transfers /\ Commands \cap Transfers = {}
  BY <1>1, <1>2 DEF DriverPlace, Commands, Transfers, Reads, Writes
<1>6. step \notin Commands => \A i \in 1..Len(evts) : evts[i].kind # "cmd"
  BY <1>1 DEF OneCompletion
<1>7. CASE Matches(Head(evts))
  <2> DEFINE e == Head(evts)
  <2>1. /\ Finish(e.ok, e.slot)
        /\ answer' = [asked |-> step, of |-> e.of, port |-> port, ofPort |-> e.port, ok |-> e.ok]
    BY <1>7 DEF TakeEvent
  <2>2. e.ok \in BOOLEAN /\ e.slot \in Nat
    BY <1>4 DEF Evt
  <2>3. step \in Commands => e.kind = "cmd" /\ e.of = step /\ e.port = port
    BY <1>1, <1>4, <1>7 DEF Matches, OneCompletion
  <2>4. CompletionIsOwn'
    BY <2>1, <2>3 DEF CompletionIsOwn
  <2>5. \A i \in 1..Len(evts') : evts'[i].kind # "cmd"
    <3> SUFFICES ASSUME NEW i \in 1..Len(evts'), evts'[i].kind = "cmd" PROVE FALSE
      OBVIOUS
    <3>1. i + 1 \in 1..Len(evts) /\ evts[i+1].kind = "cmd"
      BY <1>4
    <3>2. step \in Commands /\ evts[1].kind = "cmd"
      BY <1>4, <1>6, <2>3, <3>1
    <3>3. i + 1 = 1
      BY <1>1, <1>4, <3>1, <3>2 DEF OneCompletion
    <3> QED BY <3>3
  <2>6. step \in Commands => Answered
    BY <1>4, <2>3 DEF Answered
  <2>7. ~hung => CaughtUp
    BY <1>1, <2>6 DEF CommandPlace, Unanswered
  <2>8. ~hung /\ step = "enable" =>
          IF e.ok THEN e.slot \in Slots /\ Used = {e.slot} ELSE Used = {}
    <3>1. "enable" \in Commands
      BY DEF Commands
    <3> QED BY <1>1, <1>4, <2>3, <3>1 DEF SlotsByStep
  <2>9. ~hung /\ step = "disable" => Used = {}
    <3>1. "disable" \in Commands /\ "disable" \in Held
      BY DEF Commands, Held
    <3> QED BY <1>1, <2>6, <3>1 DEF SlotsByStep
  <2> HIDE DEF e
  <2> QED BY <1>2, <1>4, <2>1, <2>2, <2>4, <2>5, <2>7, <2>8, <2>9, FinishStep
<1>8. CASE ~Matches(Head(evts))
  <2>1. UNCHANGED <<port, step, waiting, slot, ep0s, answer>>
    BY <1>8 DEF TakeEvent
  <2>2. Head(evts).kind # "cmd"
    BY <1>4, <1>6, <1>8 DEF Matches
  <2>3. /\ Answered' <=> Answered
        /\ \A i \in 1..Len(evts') : evts'[i].kind = "cmd" =>
               i + 1 \in 1..Len(evts) /\ evts'[i] = evts[i + 1]
    BY <1>2, <1>3, <2>2, OtherTaken
  <2>4. UNCHANGED <<cs, kbdSlot, cmd, ep0, xcmd, ctx, hung>>
    BY <1>2 DEF memory, xhc
  <2>5. Used' = Used
    BY <2>4 DEF Used
  <2>6. OneCompletion' /\ SlotsByStep'
    BY <1>4, <2>1, <2>3, <2>4, <2>5, QueueFrame
  <2>7. CmdCycles' /\ CommandPlace'
    BY <2>1, <2>3, <2>4, RingFrame
  <2>8. EnumTypeOK' /\ DriverPlace' /\ ContextPorts' /\ CompletionIsOwn'
    BY <1>1, <1>4, <2>1, <2>4 DEF EnumTypeOK, DriverPlace, ContextPorts, CompletionIsOwn
  <2> QED BY <2>6, <2>7, <2>8 DEF EnumInv
<1> QED BY <1>7, <1>8

\* The deadline: where answers come in time, a command is given up only on a
\* controller that hangs.
LEMMA TimeoutStep ==
  ASSUME EnumInv, Patient, Timeout
  PROVE  EnumInv'
<1>1. /\ EnumTypeOK /\ DriverPlace /\ CommandPlace /\ OneCompletion /\ CompletionIsOwn
  BY DEF EnumInv
<1>2. /\ waiting /\ NoAnswerComing /\ Finish(FALSE, 0)
      /\ evts' = IF evts = <<>> THEN evts ELSE Tail(evts)
      /\ \A i \in 1..Len(evts) : ~Matches(evts[i])
      /\ UNCHANGED <<cs, kbdSlot, answer, memory, xhc>>
  BY DEF Timeout
<1>3. step \in Commands \cup Transfers /\ Commands \cap Transfers = {}
  BY <1>1, <1>2 DEF DriverPlace, Commands, Transfers, Reads, Writes
<1>4. \A i \in 1..Len(evts) : evts[i].kind # "cmd"
  BY <1>1, <1>2 DEF OneCompletion, Matches
<1>5. evts \in Seq(Evt)
  BY <1>1 DEF EnumTypeOK
<1>6. evts' \in Seq(Evt) /\ \A i \in 1..Len(evts') : evts'[i].kind # "cmd"
  <2>1. CASE evts = <<>>
    BY <1>2, <1>4, <1>5, <2>1
  <2>2. CASE evts # <<>>
    <3>1. /\ evts' \in Seq(Evt)
          /\ \A i \in 1..Len(evts') : i + 1 \in 1..Len(evts) /\ evts'[i] = evts[i+1]
      BY <1>2, <1>5, <2>2, TailEvent
    <3> QED BY <1>4, <3>1
  <2> QED BY <2>1, <2>2
<1>7. ~hung => step \notin Commands
  <2> SUFFICES ASSUME ~hung, step \in Commands PROVE FALSE
    OBVIOUS
  <2>1. ~xcmd.run
    BY <1>2, <1>3 DEF NoAnswerComing
  <2>2. Unanswered
    BY <1>2, <1>4 DEF Unanswered, Answered
  <2> QED BY <1>1, <2>1, <2>2 DEF CommandPlace, Pending
<1>8. ~hung => CaughtUp /\ step # "enable" /\ step # "disable"
  BY <1>1, <1>7 DEF CommandPlace, Unanswered, Commands
<1>9. CompletionIsOwn'
  BY <1>1, <1>2 DEF CompletionIsOwn
<1> QED BY <1>2, <1>6, <1>8, <1>9, FinishStep

-----------------------------------------------------------------------------
(* The controller's steps.                                                 *)

\* The xHC executes a command only if it is the one the driver waits for.
LEMMA CommandIsLast ==
  ASSUME EnumInv, ~hung, xcmd.deq # CMD_N - 1, cmd[xcmd.deq].cyc = xcmd.cycle
  PROVE  /\ Unanswered /\ Pending /\ xcmd.deq = LastI
         /\ cmd[xcmd.deq].item = step /\ cmd[xcmd.deq].slot = slot /\ cmd[xcmd.deq].port = port
<1>1. EnumTypeOK /\ CmdCycles /\ CommandPlace
  BY DEF EnumInv
<1>2. CMD_N \in Nat /\ CMD_N >= 3 /\ cs.enq \in 0..CMD_N-2 /\ cs.cycle \in Cycle
  BY <1>1, SizeAssumption DEF EnumTypeOK
<1>3. Unanswered
  <2> SUFFICES ASSUME CaughtUp PROVE FALSE
    BY <1>1 DEF CommandPlace
  <2>1. xcmd.deq = cs.enq /\ xcmd.cycle = cs.cycle
    BY DEF CaughtUp, BackI, BackC
  <2>2. cmd[cs.enq].cyc = Flip(cs.cycle)
    BY <1>1, <1>2 DEF CmdCycles
  <2> QED BY <1>2, <2>1, <2>2, FlipCycle
<1>4. Pending
  BY <1>1, <1>3 DEF CommandPlace
<1>5. xcmd.deq = LastI
  BY <1>4 DEF Pending, BackI
<1> QED BY <1>3, <1>4, <1>5 DEF Pending

\* The last command has been executed and its completion e is posted.
LEMMA CommandDone ==
  ASSUME EnumInv, ~hung, xcmd.deq # CMD_N - 1, cmd[xcmd.deq].cyc = xcmd.cycle,
         xcmd' = [xcmd EXCEPT !.deq = @ + 1], UNCHANGED <<driver, memory, hung>>,
         NEW e \in Evt, e.kind = "cmd", e.of = step, e.port = port, evts' = Append(evts, e),
         ctx' \in [Slots -> Context], ContextPorts',
         step = "enable" => IF e.ok THEN e.slot \in Slots /\ Used' = {e.slot} ELSE Used' = {},
         step # "enable" => Used' = IF step = "disable" THEN {} ELSE {slot}
  PROVE  EnumInv'
<1>1. /\ EnumTypeOK /\ DriverPlace /\ CmdCycles /\ CommandPlace /\ OneCompletion
      /\ SlotsByStep /\ CompletionIsOwn
  BY DEF EnumInv
<1>2. Unanswered /\ Pending /\ xcmd.deq = LastI
  BY CommandIsLast
<1>3. waiting /\ step \in Commands /\ \A i \in 1..Len(evts) : evts[i].kind # "cmd"
  BY <1>2 DEF Unanswered, Answered
<1>4. UNCHANGED <<port, step, waiting, slot, cs, ep0s, kbdSlot, answer, cmd, ep0, hung>>
  BY DEF driver, memory
<1>5. /\ evts' \in Seq(Evt) /\ Len(evts) \in Nat /\ Len(evts') = Len(evts) + 1
      /\ \A i \in 1..Len(evts) : evts'[i] = evts[i]
      /\ evts'[Len(evts) + 1] = e
  BY <1>1, AppendEvent DEF EnumTypeOK
<1>6. Len(evts) + 1 \in 1..Len(evts')
      /\ \A i \in 1..Len(evts') : i \in 1..Len(evts) \/ i = Len(evts) + 1
  BY <1>5
<1>7. \A i \in 1..Len(evts') : evts'[i].kind = "cmd" => i = Len(evts) + 1 /\ evts'[i] = e
  BY <1>3, <1>5, <1>6
<1>8. Answered'
  BY <1>5, <1>6 DEF Answered
<1>9. CMD_N \in Nat /\ CMD_N >= 3 /\ cs.enq \in 0..CMD_N-2 /\ cs.cycle \in Cycle
      /\ xcmd \in [deq : 0..CMD_N-1, cycle : Cycle, run : BOOLEAN]
  BY <1>1, SizeAssumption DEF EnumTypeOK
<1>10. /\ xcmd' \in [deq : 0..CMD_N-1, cycle : Cycle, run : BOOLEAN]
       /\ xcmd'.deq = xcmd.deq + 1 /\ xcmd'.cycle = xcmd.cycle
  <2>1. xcmd.deq + 1 \in 0..CMD_N-1
    BY <1>9
  <2> QED BY <1>9, <2>1
<1>11. EnumTypeOK'
  BY <1>1, <1>4, <1>5, <1>10 DEF EnumTypeOK
<1>12. DriverPlace' /\ CmdCycles' /\ CompletionIsOwn'
  BY <1>1, <1>4 DEF DriverPlace, CmdCycles, CompletionIsOwn
<1>13. CommandPlace'
  <2>1. xcmd.cycle = LastC
    BY <1>2 DEF Pending, BackC
  <2>2. Flip(Flip(cs.cycle)) = cs.cycle
    BY <1>9, FlipCycle
  <2>3. CASE cs.enq = 0
    <3>1. xcmd'.deq = CMD_N - 1 /\ xcmd'.cycle = Flip(cs.cycle) /\ cmd[CMD_N-1].cyc = xcmd'.cycle
      BY <1>2, <1>9, <1>10, <2>1, <2>3 DEF LastI, LastC, Pending
    <3>2. CaughtUp'
      BY <1>4, <2>2, <2>3, <3>1 DEF CaughtUp, BackI, BackC, LinkOpen
    <3> QED BY <1>8, <3>2 DEF CommandPlace, Unanswered
  <2>4. CASE cs.enq # 0
    <3>1. xcmd'.deq = cs.enq /\ xcmd'.cycle = cs.cycle /\ xcmd'.deq # CMD_N - 1
      BY <1>2, <1>9, <1>10, <2>1, <2>4 DEF LastI, LastC
    <3>2. CaughtUp'
      BY <1>4, <3>1 DEF CaughtUp, BackI, BackC, LinkOpen
    <3> QED BY <1>8, <3>2 DEF CommandPlace, Unanswered
  <2> QED BY <2>3, <2>4
<1>14. OneCompletion'
  BY <1>3, <1>4, <1>7 DEF OneCompletion
<1>15. SlotsByStep'
  <2>1. step \notin Early /\ step # "done" /\ (step # "enable" => step \in Held)
        /\ "enable" \notin Held
    BY <1>3 DEF Early, Held, Commands, Transfers, Reads, Writes
  <2> QED BY <1>1, <1>4, <1>7, <1>8, <2>1 DEF SlotsByStep
<1> QED BY <1>11, <1>12, <1>13, <1>14, <1>15 DEF EnumInv

\* The next command of the ring: Enable Slot gives a slot out, Disable Slot
\* takes the one in use back, the others leave it in use.
LEMMA XhcCommandStep ==
  ASSUME EnumInv, XhcCommand
  PROVE  EnumInv'
<1> DEFINE t == cmd[xcmd.deq]
           free == {s \in Slots : ctx[s].st = "off"}
<1>1. EnumTypeOK /\ DriverPlace /\ ContextPorts /\ SlotsByStep
  BY DEF EnumInv
<1>2. /\ ~hung /\ xcmd.deq # CMD_N - 1 /\ t.cyc = xcmd.cycle
      /\ xcmd' = [xcmd EXCEPT !.deq = @ + 1] /\ UNCHANGED <<driver, memory, hung>>
  BY DEF XhcCommand
<1>3. Unanswered /\ t.item = step /\ t.slot = slot /\ t.port = port
  BY <1>2, CommandIsLast
<1>4. step \in Commands /\ ~Answered /\ (step # "enable" => step \in Held)
  BY <1>3 DEF Unanswered, Held
<1>5. port \in Ports /\ port \in Nat /\ slot \in Nat
  <2>1. step \in Held \cup {"enable"}
    BY <1>4
  <2> QED BY <1>1, <2>1 DEF DriverPlace, Ports, EnumTypeOK
<1>6. ctx \in [Slots -> Context] /\ NoCtx \in Context /\ NoCtx.st = "off" /\ NoCtx.run = "idle"
  BY <1>1, SizeAssumption DEF EnumTypeOK, NoCtx, Context, Cycle
<1>7. \A ok \in BOOLEAN, s \in Nat :
        LET e == Event("cmd", s, ok, t) IN
        /\ e \in Evt /\ e.kind = "cmd" /\ e.of = step /\ e.port = port
        /\ e.ok = ok /\ e.slot = s
  BY <1>3, <1>4, <1>5 DEF Event, Evt, Items
<1>8. step = "enable" => Used = {}
  BY <1>1, <1>2, <1>4 DEF SlotsByStep
<1>9. step # "enable" => slot \in Slots /\ Used = {slot} /\ ctx[slot].st # "off"
  BY <1>1, <1>2, <1>4 DEF SlotsByStep, Used
<1>10. ASSUME UNCHANGED ctx PROVE Used' = Used /\ ContextPorts'
  BY <1>1, <1>2, <1>10 DEF Used, ContextPorts
<1>11. ASSUME NEW s \in Slots, NEW c \in Context, ctx' = [ctx EXCEPT ![s] = c],
              c.st # "off" \/ c.run = "active" => c.port \in Ports
       PROVE  /\ ctx' \in [Slots -> Context] /\ ContextPorts'
              /\ Used' = IF c.st = "off" THEN Used \ {s} ELSE Used \cup {s}
  <2>1. \A r \in Slots : ctx'[r] = IF r = s THEN c ELSE ctx[r]
    BY <1>6, <1>11
  <2>2. ctx' \in [Slots -> Context]
    BY <1>6, <1>11
  <2>3. ContextPorts'
    BY <1>1, <1>2, <1>11, <2>1 DEF ContextPorts
  <2> QED BY <1>11, <2>1, <2>2, <2>3 DEF Used
<1>12. CASE /\ t.item = "enable" /\ free # {}
            /\ LET s == CHOOSE s \in free : \A r \in free : s <= r IN
               /\ ctx' = [ctx EXCEPT ![s] = [NoCtx EXCEPT !.st = "enabled", !.port = t.port]]
               /\ evts' = Append(evts, Event("cmd", s, TRUE, t))
  <2>1. PICK s : /\ s = CHOOSE r \in free : \A u \in free : r <= u
                 /\ ctx' = [ctx EXCEPT ![s] = [NoCtx EXCEPT !.st = "enabled", !.port = t.port]]
                 /\ evts' = Append(evts, Event("cmd", s, TRUE, t))
    BY <1>12
  <2>2. \E r \in free : \A u \in free : r <= u
    <3>1. free \in SUBSET Nat /\ free # {}
      BY <1>12, SizeAssumption DEF Slots
    <3> QED BY <3>1, LeastElement
  <2>3. s \in free /\ s \in Slots /\ s \in Nat
    BY <2>1, <2>2, SizeAssumption DEF Slots
  <2> DEFINE c == [NoCtx EXCEPT !.st = "enabled", !.port = t.port]
             e == Event("cmd", s, TRUE, t)
  <2>4. c \in Context /\ c.st = "enabled" /\ c.port \in Ports
    BY <1>3, <1>5, <1>6 DEF Context
  <2>5. step = "enable" /\ ctx' = [ctx EXCEPT ![s] = c] /\ evts' = Append(evts, e)
    BY <1>3, <1>12, <2>1
  <2>6. e \in Evt /\ e.kind = "cmd" /\ e.of = step /\ e.port = port /\ e.ok = TRUE /\ e.slot = s
    BY <1>7, <2>3
  <2> HIDE DEF c, e
  <2>7. ctx' \in [Slots -> Context] /\ ContextPorts' /\ Used' = {s}
    BY <1>8, <1>11, <2>3, <2>4, <2>5
  <2> QED BY <1>2, <2>3, <2>5, <2>6, <2>7, CommandDone
<1>13. CASE /\ t.item = "enable" /\ evts' = Append(evts, Event("cmd", 0, FALSE, t))
            /\ UNCHANGED ctx
  <2> DEFINE e == Event("cmd", 0, FALSE, t)
  <2>1. e \in Evt /\ e.kind = "cmd" /\ e.of = step /\ e.port = port /\ e.ok = FALSE
    BY <1>7
  <2>2. step = "enable" /\ ctx' \in [Slots -> Context] /\ ContextPorts' /\ Used' = {}
    BY <1>3, <1>6, <1>8, <1>10, <1>13
  <2>3. evts' = Append(evts, e)
    BY <1>13
  <2> HIDE DEF e
  <2> QED BY <1>2, <2>1, <2>2, <2>3, CommandDone
<1>14. CASE /\ t.item # "enable" /\ ctx[t.slot].st \in LegalIn[t.item]
            /\ ctx' = [ctx EXCEPT ![t.slot] = Execute(t)]
            /\ evts' = Append(evts, Event("cmd", t.slot, TRUE, t))
  <2> DEFINE c == Execute(t)
             e == Event("cmd", t.slot, TRUE, t)
  <2>1. step # "enable" /\ slot \in Slots /\ ctx[slot] \in Context /\ ctx[slot].st # "off"
    BY <1>3, <1>6, <1>9, <1>14
  <2>2. /\ c \in Context
        /\ c.st # "off" \/ c.run = "active" => c.port \in Ports
        /\ c.st = "off" <=> step = "disable"
    <3>1. ctx[slot].port \in Ports
      BY <1>1, <2>1 DEF ContextPorts
    <3>2. CASE step = "disable"
      BY <1>3, <1>6, <3>2 DEF Execute
    <3>3. CASE step \in {"addr1", "addr0"}
      <4>1. c = [ctx[slot] EXCEPT !.st = LeadsTo(step, @), !.port = port, !.deq = 0, !.cycle = 1]
        BY <1>3, <3>3 DEF Execute
      <4>2. LeadsTo(step, ctx[slot].st) \in {"default", "addressed"}
        BY <3>3 DEF LeadsTo
      <4>3. 0 \in 0..EP0_N-1 /\ 1 \in Cycle
        BY SizeAssumption DEF Cycle
      <4> HIDE DEF c
      <4> QED BY <1>5, <2>1, <3>3, <4>1, <4>2, <4>3 DEF Context
    <3>4. CASE step \in {"eval", "cfgep"}
      <4>1. c = [ctx[slot] EXCEPT !.st = LeadsTo(step, @)]
        BY <1>3, <3>4 DEF Execute
      <4>2. LeadsTo(step, ctx[slot].st) \in {ctx[slot].st, "configured"}
        BY <3>4 DEF LeadsTo
      <4> HIDE DEF c
      <4> QED BY <2>1, <3>1, <3>4, <4>1, <4>2 DEF Context
    <3> QED BY <1>4, <2>1, <3>2, <3>3, <3>4 DEF Commands
  <2>3. ctx' = [ctx EXCEPT ![slot] = c] /\ evts' = Append(evts, e)
    BY <1>3, <1>14
  <2>4. e \in Evt /\ e.kind = "cmd" /\ e.of = step /\ e.port = port
    BY <1>3, <1>5, <1>7
  <2> HIDE DEF c, e
  <2>5. /\ ctx' \in [Slots -> Context] /\ ContextPorts'
        /\ Used' = IF c.st = "off" THEN Used \ {slot} ELSE Used \cup {slot}
    BY <1>11, <2>1, <2>2, <2>3
  <2>6. Used' = IF step = "disable" THEN {} ELSE {slot}
    BY <1>9, <2>1, <2>2, <2>5
  <2> QED BY <1>2, <2>1, <2>3, <2>4, <2>5, <2>6, CommandDone
<1>15. CASE /\ t.item # "enable"
            /\ \/ ctx[t.slot].st \notin LegalIn[t.item]
               \/ t.item # "disable" /\ dev[t.port] = "flaky"
            /\ evts' = Append(evts, Event("cmd", t.slot, FALSE, t))
            /\ UNCHANGED ctx
  <2> DEFINE e == Event("cmd", t.slot, FALSE, t)
  <2>1. e \in Evt /\ e.kind = "cmd" /\ e.of = step /\ e.port = port
    BY <1>3, <1>5, <1>7
  <2>2. step # "enable" /\ slot \in Slots /\ ctx[slot] \in Context /\ ctx[slot].st # "off"
    BY <1>3, <1>6, <1>9, <1>15
  <2>3. step # "disable"
    <3>1. ctx[slot].st \in LegalIn["disable"]
      BY <2>2 DEF LegalIn, Context
    <3> QED BY <1>3, <1>15, <3>1
  <2>4. ctx' \in [Slots -> Context] /\ ContextPorts' /\ Used' = {slot}
    BY <1>6, <1>9, <1>10, <1>15, <2>2
  <2>5. evts' = Append(evts, e)
    BY <1>15
  <2> HIDE DEF e
  <2> QED BY <1>2, <2>1, <2>2, <2>3, <2>4, <2>5, CommandDone
<1> QED BY <1>12, <1>13, <1>14, <1>15 DEF XhcCommand

\* The xHC follows the Link TRB, or finds nothing to execute; it never stops
\* before the command the driver waits for.
LEMMA XhcCommandEndStep ==
  ASSUME EnumInv, XhcCommandEnd
  PROVE  EnumInv'
<1>1. /\ EnumTypeOK /\ DriverPlace /\ CmdCycles /\ CommandPlace /\ OneCompletion
      /\ ContextPorts /\ SlotsByStep /\ CompletionIsOwn
  BY DEF EnumInv
<1>2. ~hung /\ UNCHANGED <<port, step, waiting, slot, cs, ep0s, kbdSlot, answer, cmd, ep0,
                           evts, ctx, hung>>
  BY DEF XhcCommandEnd, driver, memory
<1>3. /\ CMD_N \in Nat /\ CMD_N >= 3 /\ cs.enq \in 0..CMD_N-2 /\ cs.cycle \in Cycle
      /\ xcmd \in [deq : 0..CMD_N-1, cycle : Cycle, run : BOOLEAN] /\ xcmd.cycle \in Cycle
  BY <1>1, SizeAssumption DEF EnumTypeOK
<1>4. /\ Answered' <=> Answered
      /\ Unanswered' <=> Unanswered
      /\ Used' = Used /\ LastI' = LastI /\ LastC' = LastC
  BY <1>2 DEF Answered, Unanswered, Used, LastI, LastC
<1>5. /\ DriverPlace' /\ CmdCycles' /\ ContextPorts' /\ CompletionIsOwn'
      /\ OneCompletion' /\ SlotsByStep'
  BY <1>1, <1>2, <1>4 DEF DriverPlace, CmdCycles, ContextPorts, CompletionIsOwn,
     OneCompletion, SlotsByStep
<1>6. CASE /\ xcmd.deq = CMD_N - 1
           /\ xcmd' = [xcmd EXCEPT !.deq = 0, !.cycle = Flip(@)]
  <2>1. /\ xcmd' \in [deq : 0..CMD_N-1, cycle : Cycle, run : BOOLEAN]
        /\ xcmd'.deq = 0 /\ xcmd'.cycle = Flip(xcmd.cycle) /\ xcmd'.run = xcmd.run
    <3>1. 0 \in 0..CMD_N-1 /\ Flip(xcmd.cycle) \in Cycle
      BY <1>3, FlipCycle
    <3> QED BY <1>3, <1>6, <3>1
  <2>2. BackI' = BackI /\ BackC' = BackC /\ LinkOpen'
    BY <1>3, <1>6, <2>1 DEF BackI, BackC, LinkOpen
  <2>3. CommandPlace'
    BY <1>1, <1>2, <1>4, <2>1, <2>2 DEF CommandPlace, Pending, CaughtUp
  <2>4. EnumTypeOK'
    BY <1>1, <1>2, <2>1 DEF EnumTypeOK
  <2> QED BY <1>5, <2>3, <2>4 DEF EnumInv
<1>7. CASE cmd[xcmd.deq].cyc # xcmd.cycle /\ xcmd' = [xcmd EXCEPT !.run = FALSE]
  <2>1. /\ xcmd' \in [deq : 0..CMD_N-1, cycle : Cycle, run : BOOLEAN]
        /\ xcmd'.deq = xcmd.deq /\ xcmd'.cycle = xcmd.cycle
    BY <1>3, <1>7
  <2>2. ~Pending
    <3> SUFFICES ASSUME Pending PROVE FALSE
      OBVIOUS
    <3>1. xcmd.deq # CMD_N - 1
      BY <1>7 DEF Pending, LinkOpen
    <3>2. xcmd.deq = LastI /\ xcmd.cycle = LastC
      BY <3>1 DEF Pending, BackI, BackC
    <3> QED BY <1>7, <3>2 DEF Pending
  <2>3. ~Unanswered /\ CaughtUp
    BY <1>1, <1>2, <2>2 DEF CommandPlace
  <2>4. CaughtUp'
    BY <1>2, <2>1, <2>3 DEF CaughtUp, BackI, BackC, LinkOpen
  <2>5. CommandPlace'
    BY <1>4, <2>3, <2>4 DEF CommandPlace
  <2>6. EnumTypeOK'
    BY <1>1, <1>2, <2>1 DEF EnumTypeOK
  <2> QED BY <1>5, <2>5, <2>6 DEF EnumInv
<1> QED BY <1>6, <1>7 DEF XhcCommandEnd

\* A step of the xHC that leaves the command ring alone and posts at most an
\* event that is not a command completion.
LEMMA OtherWork ==
  ASSUME EnumInv, ~hung, UNCHANGED <<driver, cmd, ep0, xcmd, hung>>,
         ctx' \in [Slots -> Context],
         \A s \in Slots : /\ ctx'[s].st = ctx[s].st /\ ctx'[s].port = ctx[s].port
                          /\ ctx'[s].run = "active" => ctx[s].run = "active",
         UNCHANGED evts \/ \E e \in Evt : e.kind # "cmd" /\ evts' = Append(evts, e)
  PROVE  EnumInv'
<1>1. /\ EnumTypeOK /\ DriverPlace /\ ContextPorts /\ CompletionIsOwn
  BY DEF EnumInv
<1>2. UNCHANGED <<port, step, waiting, slot, cs, ep0s, kbdSlot, answer>>
  BY DEF driver
<1>3. evts \in Seq(Evt)
  BY <1>1 DEF EnumTypeOK
<1>4. /\ evts' \in Seq(Evt) /\ (Answered' <=> Answered)
      /\ \A i \in 1..Len(evts') : evts'[i].kind = "cmd" =>
            i + 0 \in 1..Len(evts) /\ evts'[i] = evts[i + 0]
  <2>1. CASE UNCHANGED evts
    BY <1>3, <2>1 DEF Answered
  <2>2. ASSUME NEW e \in Evt, e.kind # "cmd", evts' = Append(evts, e)
        PROVE  /\ evts' \in Seq(Evt) /\ (Answered' <=> Answered)
               /\ \A i \in 1..Len(evts') : evts'[i].kind = "cmd" =>
                     i + 0 \in 1..Len(evts) /\ evts'[i] = evts[i + 0]
    BY <1>3, <2>2, OtherAppended
  <2> QED BY <2>1, <2>2
<1>5. Used' = Used
  BY DEF Used
<1>6. OneCompletion' /\ SlotsByStep'
  BY <1>2, <1>4, <1>5, QueueFrame
<1>7. CmdCycles' /\ CommandPlace'
  BY <1>2, <1>4, RingFrame
<1>8. EnumTypeOK' /\ DriverPlace' /\ CompletionIsOwn'
  BY <1>1, <1>2, <1>4 DEF EnumTypeOK, DriverPlace, CompletionIsOwn
<1>9. ContextPorts'
  BY <1>1 DEF ContextPorts
<1> QED BY <1>6, <1>7, <1>8, <1>9 DEF EnumInv

\* One TRB of a control transfer.
LEMMA XhcTransferStep ==
  ASSUME EnumInv, NEW s \in Slots, XhcTransfer(s)
  PROVE  EnumInv'
<1> DEFINE c == ctx[s]
           t == ep0[c.port][c.deq]
           m == RingSkip(c.deq, c.cycle, EP0_N)
<1>1. EnumTypeOK /\ ContextPorts
  BY DEF EnumInv
<1>2. /\ ~hung /\ c.run = "active" /\ UNCHANGED <<driver, cmd, ep0, xcmd, hung>>
      /\ \/ ctx' = [ctx EXCEPT ![s].run = "idle"]
         \/ ctx' = [ctx EXCEPT ![s].deq = m[1], ![s].cycle = m[2]]
         \/ ctx' = [ctx EXCEPT ![s].run = "halted"]
      /\ \/ UNCHANGED evts
         \/ evts' = Append(evts, Event("xfer", s, TRUE, t))
         \/ evts' = Append(evts, Event("xfer", s, FALSE, t))
  BY DEF XhcTransfer
<1>3. ctx \in [Slots -> Context] /\ c \in Context /\ c.port \in Ports
  BY <1>1, <1>2 DEF EnumTypeOK, ContextPorts
<1>4. c.deq \in 0..EP0_N-1 /\ c.cycle \in Cycle /\ EP0_N \in Nat /\ EP0_N >= 4
  BY <1>3, SizeAssumption DEF Context
<1>5. t \in Cell
  BY <1>1, <1>3, <1>4 DEF EnumTypeOK
<1>6. m[1] \in 0..EP0_N-1 /\ m[2] \in Cycle
  BY <1>4, FlipCycle DEF RingSkip
<1> HIDE DEF t, m
<1>7. \A ok \in BOOLEAN : LET e == Event("xfer", s, ok, t) IN e \in Evt /\ e.kind # "cmd"
  <2>1. s \in Nat
    BY SizeAssumption DEF Slots
  <2> QED BY <1>5, <2>1 DEF Event, Evt, Cell
<1>8. UNCHANGED evts \/ \E e \in Evt : e.kind # "cmd" /\ evts' = Append(evts, e)
  BY <1>2, <1>7
<1>9. PICK d \in Context : /\ ctx' = [ctx EXCEPT ![s] = d]
                           /\ d.st = c.st /\ d.port = c.port
  <2>1. CASE ctx' = [ctx EXCEPT ![s].run = "idle"] \/ ctx' = [ctx EXCEPT ![s].run = "halted"]
    <3>1. PICK r \in {"idle", "halted"} : ctx' = [ctx EXCEPT ![s] = [c EXCEPT !.run = r]]
      BY <2>1
    <3>2. [c EXCEPT !.run = r] \in Context /\ [c EXCEPT !.run = r].st = c.st
          /\ [c EXCEPT !.run = r].port = c.port
      BY <1>3 DEF Context
    <3> QED BY <3>1, <3>2
  <2>2. CASE ctx' = [ctx EXCEPT ![s].deq = m[1], ![s].cycle = m[2]]
    <3> DEFINE d == [c EXCEPT !.deq = m[1], !.cycle = m[2]]
    <3>1. d \in Context /\ d.st = c.st /\ d.port = c.port
      BY <1>3, <1>6 DEF Context
    <3>2. ctx' = [ctx EXCEPT ![s] = d]
      BY <1>3, <2>2
    <3> QED BY <3>1, <3>2
  <2> QED BY <1>2, <2>1, <2>2
<1>10. ctx' \in [Slots -> Context]
  BY <1>3, <1>9
<1>11. \A r \in Slots : /\ ctx'[r].st = ctx[r].st /\ ctx'[r].port = ctx[r].port
                        /\ ctx'[r].run = "active" => ctx[r].run = "active"
  BY <1>2, <1>3, <1>9
<1> QED BY <1>2, <1>8, <1>10, <1>11, OtherWork

\* A port status change is an event for no one.
LEMMA XhcPortEventStep ==
  ASSUME EnumInv, XhcPortEvent
  PROVE  EnumInv'
<1> DEFINE e == Event("port", 0, TRUE, [item |-> "none", port |-> 0])
<1>1. e \in Evt /\ e.kind # "cmd"
  BY DEF Event, Evt, Items
<1>2. ~hung /\ UNCHANGED <<driver, cmd, ep0, xcmd, ctx, hung>> /\ evts' = Append(evts, e)
  BY DEF XhcPortEvent, memory
<1>3. ctx' \in [Slots -> Context]
  BY <1>2 DEF EnumInv, EnumTypeOK
<1> HIDE DEF e
<1> QED BY <1>1, <1>2, <1>3, OtherWork

\* A controller that stops leaves what has been posted.
LEMMA XhcHangStep ==
  ASSUME EnumInv, XhcHang
  PROVE  EnumInv'
<1>1. /\ EnumTypeOK /\ DriverPlace /\ CmdCycles /\ OneCompletion
      /\ ContextPorts /\ CompletionIsOwn
  BY DEF EnumInv
<1>2. /\ hung' = TRUE
      /\ UNCHANGED <<port, step, waiting, slot, cs, ep0s, kbdSlot, answer, cmd, ep0, evts,
                     xcmd, ctx>>
  BY DEF XhcHang, driver, memory
<1>3. CommandPlace' /\ SlotsByStep'
  BY <1>2 DEF CommandPlace, SlotsByStep
<1>4. EnumTypeOK' /\ DriverPlace' /\ CmdCycles' /\ OneCompletion' /\ ContextPorts'
      /\ CompletionIsOwn'
  BY <1>1, <1>2 DEF EnumTypeOK, DriverPlace, CmdCycles, OneCompletion, ContextPorts,
     CompletionIsOwn
<1> QED BY <1>3, <1>4 DEF EnumInv

-----------------------------------------------------------------------------
(* A prompt controller: the device's own invariant.                        *)

\* EP0 works only while the driver waits for a transfer.
Ep0Quiet ==
  \A s \in Slots : ctx[s].run = "active" => s = slot /\ waiting /\ step \in Transfers

\* No Transfer Event follows a command completion in the queue.
CompletionLast ==
  \A i, j \in 1..Len(evts) : evts[i].kind = "cmd" /\ i < j => evts[j].kind # "xfer"

\* No Transfer Event is left between two devices or after the last.
NoneLeft ==
  step \notin Held \/ step = "ready" => \A i \in 1..Len(evts) : evts[i].kind # "xfer"

\* The slot state at which a step begins; a command that has succeeded has
\* brought the slot to that of the next step.
StateAt(s) ==
  CASE s = "addr1"                      -> "enabled"
    [] s \in {"desc8", "eval", "addr0"} -> "default"
    [] s = "ready"                      -> "configured"
    [] OTHER                            -> "addressed"

Succeeded == \E i \in 1..Len(evts) : evts[i].kind = "cmd" /\ evts[i].ok

DeviceState ==
  /\ \A s \in Used : ctx[s].port = port
  /\ step = "enable" => \A s \in Used : ctx[s] = [NoCtx EXCEPT !.st = "enabled", !.port = port]
  /\ step \in Held \ {"disable"} =>
       ctx[slot].st = StateAt(IF Succeeded THEN After(step) ELSE step)
  /\ kbdSlot # 0 => kbdSlot \in Slots /\ ctx[kbdSlot].st = "configured"

DeviceInv == Ep0Quiet /\ CompletionLast /\ NoneLeft /\ DeviceState

HandInv ==
  /\ kbdSlot # 0 => step = "done"
  /\ prompt /\ ~hung => DeviceInv

\* The position of the xHC (TRB d, cycle y) in the EP0 ring r that the driver
\* fills at st: how many TRBs it is behind, the Link TRB not counted.
Lag(d, y, st) == IF y = st.cycle THEN st.enq - d ELSE (EP0_N - 1 - d) + st.enq

InRing(d, y, r, st) ==
  /\ \A i \in 0..EP0_N-2 : r[i].cyc = IF i < st.enq THEN st.cycle ELSE Flip(st.cycle)
  /\ r[EP0_N-1].item = "none"
  /\ Lag(d, y, st) \in 0..EP0_N-1
  /\ y # st.cycle => r[EP0_N-1].cyc = y

\* The TRB pushed last.
LastTrb(st) == IF st.enq = 0 THEN EP0_N - 2 ELSE st.enq - 1

\* The xHC has executed all that was pushed, but for the descriptor read it
\* repeats after the second Address Device; and when it has executed what the
\* driver waits for, the answer is in the queue and the data in the buffer.
Ep0Follows ==
  LET c == ctx[slot] IN
  /\ InRing(c.deq, c.cycle, ep0[port], ep0s) /\ c.run # "halted"
  /\ IF waiting /\ step \in Transfers
       THEN /\ ep0[port][LastTrb(ep0s)].item = step
            /\ c.run = "idle" => Lag(c.deq, c.cycle, ep0s) = 0
            /\ Lag(c.deq, c.cycle, ep0s) = 0 =>
                 /\ \E i \in 1..Len(evts) : evts[i].kind = "xfer" /\ evts[i].slot = slot
                 /\ step \in Reads => buf[port] = step
       ELSE IF step = "desc18" \/ (step = "addr0" /\ Succeeded)
              THEN c.deq = 0 /\ c.cycle = 1
              ELSE Lag(c.deq, c.cycle, ep0s) = 0
  /\ step = "addr1" \/ (step = "desc8" /\ ~waiting) => ep0s = [enq |-> 0, cycle |-> 1]
  /\ (step = "desc8" /\ waiting) \/ step \in {"eval", "addr0"} \/ (step = "desc18" /\ ~waiting)
       => ep0s = [enq |-> 3, cycle |-> 1]

\* Nothing that is asked of the keyboard fails.
KeyboardServed ==
  /\ step # "disable"
  /\ \A i \in 1..Len(evts) : evts[i].kind # "port" => evts[i].ok
  /\ step \in Held => Ep0Follows

\* No keyboard has been passed over.
NonePassed == \A p \in Ports : p < port => dev[p] # "kbd"

\* The EP0 ring of a device is untouched until the device has its slot.
FreshRings ==
  \A p \in Ports : p > port \/ (p = port /\ step \notin Held \cup {"done"}) =>
    ep0[p] = EmptyRing(EP0_N)

AtKeyboard == port \in Ports /\ dev[port] = "kbd"

BufType == buf \in [Ports -> Reads \cup {"none"}]

FoundInv ==
  prompt /\ ~hung => NonePassed /\ FreshRings /\ (AtKeyboard => KeyboardServed)

\* The steps in order.
LEMMA AfterIs ==
  /\ After("enable") = "addr1" /\ After("addr1") = "desc8" /\ After("desc8") = "eval"
  /\ After("eval") = "addr0" /\ After("addr0") = "desc18" /\ After("desc18") = "cfg9"
  /\ After("cfg9") = "cfg" /\ After("cfg") = "setconf" /\ After("setconf") = "setproto"
  /\ After("setproto") = "setidle" /\ After("setidle") = "cfgep" /\ After("cfgep") = "ready"
<1>1. Len(Order) = 13 /\ \A i, j \in 1..13 : Order[i] = Order[j] => i = j
  BY DEF Order
<1>2. ASSUME NEW i \in 1..12 PROVE After(Order[i]) = Order[1 + i]
  <2>1. i \in 1..Len(Order)
    BY <1>1
  <2>2. PICK k : k = CHOOSE j \in 1..Len(Order) : Order[j] = Order[i]
    OBVIOUS
  <2>3. k \in 1..13 /\ Order[k] = Order[i]
    BY <1>1, <2>1, <2>2
  <2>4. k = i
    BY <1>1, <2>3
  <2> QED BY <2>2, <2>4 DEF After
<1>3. /\ After(Order[1]) = Order[2] /\ After(Order[2]) = Order[3] /\ After(Order[3]) = Order[4]
      /\ After(Order[4]) = Order[5] /\ After(Order[5]) = Order[6] /\ After(Order[6]) = Order[7]
      /\ After(Order[7]) = Order[8] /\ After(Order[8]) = Order[9] /\ After(Order[9]) = Order[10]
      /\ After(Order[10]) = Order[11] /\ After(Order[11]) = Order[12] /\ After(Order[12]) = Order[13]
  BY <1>2
<1>4. /\ Order[1] = "enable" /\ Order[2] = "addr1" /\ Order[3] = "desc8" /\ Order[4] = "eval"
      /\ Order[5] = "addr0" /\ Order[6] = "desc18" /\ Order[7] = "cfg9" /\ Order[8] = "cfg"
      /\ Order[9] = "setconf" /\ Order[10] = "setproto" /\ Order[11] = "setidle"
      /\ Order[12] = "cfgep" /\ Order[13] = "ready"
  BY DEF Order
<1> QED BY <1>3, <1>4, Zenon

\* Where a step leads: on, to disable_slot, or to the next port.
LEMMA NextStepIs ==
  ASSUME NEW s \in Commands \cup Transfers, NEW ok \in BOOLEAN
  PROVE  /\ s \in Commands \ {"disable"} /\ ok => NextStep(s, ok) = After(s)
         /\ s \in Commands \ {"enable", "disable"} /\ ~ok => NextStep(s, ok) = "disable"
         /\ s \in Transfers => NextStep(s, ok) \in {After(s), "disable"}
         /\ s \in Transfers \ {"cfg"} /\ ok => NextStep(s, ok) = After(s)
         /\ find_hid_kbd_ep => NextStep("cfg", ok) = After("cfg")
<1>1. After("cfg") = "setconf"
  BY AfterIs
<1>2. ASSUME s \in Commands \ {"disable"}, ok PROVE NextStep(s, ok) = After(s)
  BY <1>2 DEF NextStep, Commands, Writes
<1>3. ASSUME s \in Commands \ {"enable", "disable"}, ~ok PROVE NextStep(s, ok) = "disable"
  BY <1>3 DEF NextStep, Commands, Writes
<1>4. ASSUME s \in Transfers \ {"cfg"}, ok PROVE NextStep(s, ok) = After(s)
  BY <1>4 DEF NextStep, Transfers, Reads, Writes
<1>5. ASSUME s \in Transfers, ~ok PROVE NextStep(s, ok) \in {After(s), "disable"}
  BY <1>1, <1>5 DEF NextStep, Transfers, Reads, Writes
<1>6. NextStep("cfg", ok) = IF find_hid_kbd_ep THEN "setconf" ELSE "disable"
  BY DEF NextStep, Writes
<1> QED BY <1>1, <1>2, <1>3, <1>4, <1>5, <1>6

\* A transfer does not change the slot state that the next step needs.
LEMMA TransferState ==
  ASSUME NEW s \in Transfers
  PROVE  StateAt(After(s)) = StateAt(s) /\ After(s) \in Held \ {"disable", "ready"}
BY AfterIs DEF Transfers, Reads, Writes, StateAt, Held, Commands

\* Queue changes that leave the command completions alone.
LEMMA CompletionsKept ==
  ASSUME evts \in Seq(Evt),
         \/ UNCHANGED evts
         \/ \E e \in Evt : e.kind # "cmd" /\ evts' = Append(evts, e)
         \/ evts # <<>> /\ Head(evts).kind # "cmd" /\ evts' = Tail(evts)
  PROVE  Succeeded' <=> Succeeded
<1>1. CASE UNCHANGED evts
  BY <1>1 DEF Succeeded
<1>2. ASSUME NEW e \in Evt, e.kind # "cmd", evts' = Append(evts, e) PROVE Succeeded' <=> Succeeded
  <2>1. /\ Len(evts) \in Nat /\ Len(evts') = Len(evts) + 1
        /\ \A i \in 1..Len(evts) : evts'[i] = evts[i]
        /\ evts'[Len(evts) + 1] = e
    BY <1>2, AppendEvent
  <2>2. \A i \in 1..Len(evts') : i \in 1..Len(evts) \/ i = Len(evts) + 1
    BY <2>1
  <2>3. \A i \in 1..Len(evts) : i \in 1..Len(evts')
    BY <2>1
  <2> QED BY <1>2, <2>1, <2>2, <2>3 DEF Succeeded
<1>3. CASE evts # <<>> /\ Head(evts).kind # "cmd" /\ evts' = Tail(evts)
  <2>1. /\ Len(evts) \in Nat \ {0} /\ Len(evts') = Len(evts) - 1
        /\ \A i \in 1..Len(evts') : i + 1 \in 1..Len(evts) /\ evts'[i] = evts[i+1]
        /\ evts[1].kind # "cmd"
    BY <1>3, TailEvent
  <2>2. ASSUME NEW i \in 1..Len(evts), evts[i].kind = "cmd", evts[i].ok PROVE Succeeded'
    <3>1. i - 1 \in 1..Len(evts') /\ i = (i - 1) + 1
      BY <2>1, <2>2
    <3>2. evts'[i - 1] = evts[i]
      BY <2>1, <3>1
    <3> QED BY <2>2, <3>1, <3>2 DEF Succeeded
  <2> QED BY <2>1, <2>2 DEF Succeeded
<1> QED BY <1>1, <1>2, <1>3

\* Steps of the loop between devices; Ready hands a configured slot over.
LEMMA HandLoop ==
  ASSUME EnumInv, EnumInv', HandInv,
         \/ BiosHandoff \/ Scan \/ Ready
         \/ \E ok \in BOOLEAN : XhciReset(ok) \/ StartController(ok) \/ PortReset(ok)
  PROVE  HandInv'
<1>1. EnumTypeOK /\ DriverPlace /\ SlotsByStep
  BY DEF EnumInv
<1>2. /\ step \in Early \cup {"ready"} /\ step' \in Early \cup {"enable", "done"}
      /\ step = "ready" <=> Ready
      /\ step = "ready" => step' = "done" /\ kbdSlot' = slot /\ port' = port
      /\ step # "ready" => kbdSlot' = kbdSlot
      /\ UNCHANGED <<board, waiting, slot, evts, ctx, hung>>
  BY DEF BiosHandoff, Scan, Ready, XhciReset, StartController, PortReset, Early, xhc
<1>3. /\ step \notin Commands \cup Transfers /\ step' \notin Held /\ step # "done"
      /\ (step \in Early => step \notin Held) /\ "ready" \in Held \ {"disable"}
  BY <1>2 DEF Early, Held, Commands, Transfers, Reads, Writes
<1>4. ~waiting
  BY <1>1, <1>3 DEF DriverPlace
<1>5. kbdSlot = 0
  BY <1>3 DEF HandInv
<1>6. kbdSlot' # 0 => step' = "done"
  BY <1>2, <1>5
<1>7. ASSUME prompt, ~hung PROVE DeviceInv'
  <2>1. DeviceInv
    BY <1>7 DEF HandInv
  <2>2. Used' = Used
    BY <1>2 DEF Used
  <2>3. Ep0Quiet'
    BY <1>2, <1>4, <2>1 DEF DeviceInv, Ep0Quiet
  <2>4. CompletionLast'
    BY <1>2, <2>1 DEF DeviceInv, CompletionLast
  <2>5. NoneLeft'
    BY <1>2, <1>3, <2>1 DEF DeviceInv, NoneLeft
  <2>6. DeviceState'
    <3>1. CASE step = "ready"
      <4>1. ~Succeeded
        BY <1>4, NotWaiting DEF Succeeded
      <4>2. ctx[slot].st = "configured" /\ slot \in Slots /\ \A s \in Used : ctx[s].port = port
        <5>1. StateAt("ready") = "configured"
          BY DEF StateAt
        <5>2. ctx[slot].st = StateAt("ready") /\ \A s \in Used : ctx[s].port = port
          BY <1>3, <2>1, <3>1, <4>1 DEF DeviceInv, DeviceState
        <5> QED BY <1>1, <1>3, <1>7, <3>1, <5>1, <5>2 DEF SlotsByStep
      <4> QED BY <1>2, <1>3, <2>2, <3>1, <4>2 DEF DeviceState
    <3>2. CASE step # "ready"
      <4>1. Used = {}
        BY <1>1, <1>2, <1>7, <3>2 DEF SlotsByStep
      <4> QED BY <1>2, <1>3, <1>5, <2>2, <3>2, <4>1 DEF DeviceState
    <3> QED BY <3>1, <3>2
  <2> QED BY <2>3, <2>4, <2>5, <2>6 DEF DeviceInv
<1> QED BY <1>2, <1>6, <1>7 DEF HandInv, board

\* cmd_push and the doorbell.
LEMMA HandPushCommand ==
  ASSUME EnumInv, HandInv, PushCommand
  PROVE  HandInv'
<1>1. ~waiting /\ UNCHANGED <<board, port, step, slot, kbdSlot, evts, ctx, hung>>
  BY DEF PushCommand
<1>2. ASSUME prompt, ~hung PROVE DeviceInv'
  <2>1. DeviceInv
    BY <1>2 DEF HandInv
  <2>2. Ep0Quiet'
    BY <1>1, <2>1 DEF DeviceInv, Ep0Quiet
  <2>3. CompletionLast' /\ NoneLeft'
    BY <1>1, <2>1 DEF DeviceInv, CompletionLast, NoneLeft
  <2>4. DeviceState'
    BY <1>1, <2>1 DEF DeviceInv, DeviceState, Used, Succeeded
  <2> QED BY <2>2, <2>3, <2>4 DEF DeviceInv
<1> QED BY <1>1, <1>2 DEF HandInv, board

\* ctrl_in, ctrl_out and the doorbell of EP0.
LEMMA HandPushTransfer ==
  ASSUME EnumInv, HandInv, PushTransfer
  PROVE  HandInv'
<1>1. EnumTypeOK /\ SlotsByStep
  BY DEF EnumInv
<1>2. /\ ~waiting /\ waiting' /\ step \in Transfers
      /\ UNCHANGED <<board, port, step, slot, kbdSlot, evts, hung>>
      /\ ctx' = [ctx EXCEPT ![slot].run = IF @ = "idle" THEN "active" ELSE @]
  BY DEF PushTransfer
<1>3. step \in Held /\ step # "enable" /\ step # "ready" /\ step # "done"
  BY <1>2 DEF Held, Transfers, Reads, Writes
<1>4. ASSUME prompt, ~hung PROVE DeviceInv'
  <2>1. DeviceInv
    BY <1>4 DEF HandInv
  <2>2. slot \in Slots /\ ctx \in [Slots -> Context]
    BY <1>1, <1>3, <1>4 DEF SlotsByStep, EnumTypeOK
  <2>3. \A s \in Slots : /\ ctx'[s].st = ctx[s].st /\ ctx'[s].port = ctx[s].port
                         /\ s # slot => ctx'[s] = ctx[s]
    <3>1. ctx[slot] \in Context
      BY <2>2
    <3> QED BY <1>2, <2>2, <3>1 DEF Context
  <2>4. Used' = Used
    BY <2>3 DEF Used
  <2>5. Ep0Quiet'
    BY <1>2, <2>1, <2>3 DEF DeviceInv, Ep0Quiet
  <2>6. CompletionLast' /\ NoneLeft'
    BY <1>2, <2>1 DEF DeviceInv, CompletionLast, NoneLeft
  <2>7. DeviceState'
    <3>1. kbdSlot = 0
      BY <1>3 DEF HandInv
    <3>2. Succeeded' <=> Succeeded
      BY <1>2 DEF Succeeded
    <3>3. \A s \in Used : s \in Slots
      BY DEF Used
    <3> QED BY <1>2, <1>3, <2>1, <2>2, <2>3, <2>4, <3>1, <3>2, <3>3 DEF DeviceInv, DeviceState
  <2> QED BY <2>5, <2>6, <2>7 DEF DeviceInv
<1> QED BY <1>2, <1>3, <1>4 DEF HandInv, board

\* The end of a wait: the slot is in the state in which the next step begins,
\* and no Transfer Event outlives a command.
LEMMA HandFinish ==
  ASSUME EnumInv, EnumInv', HandInv, waiting, NEW ok \in BOOLEAN, NEW sl, Finish(ok, sl),
         UNCHANGED <<board, kbdSlot, ctx, hung>>,
         prompt /\ ~hung =>
           /\ \A s \in Slots : ctx[s].run # "active"
           /\ \A i \in 1..Len(evts') : evts'[i].kind # "cmd"
           /\ step \in Commands => /\ \A i \in 1..Len(evts') : evts'[i].kind # "xfer"
                                   /\ Succeeded <=> ok
           /\ step = "enable" /\ ok => sl \in Used
  PROVE  HandInv'
<1>1. EnumTypeOK /\ DriverPlace /\ SlotsByStep /\ OneCompletion /\ SlotsByStep'
  BY DEF EnumInv
<1>2. /\ waiting' = FALSE /\ Used' = Used
      /\ step' = IF NextStep(step, ok) = "next" THEN "scan" ELSE NextStep(step, ok)
      /\ port' = IF NextStep(step, ok) = "next" THEN port + 1 ELSE port
      /\ slot' = IF step = "enable" /\ ok THEN sl ELSE slot
  BY DEF Finish, Used
<1>3. /\ step \in Commands \cup Transfers /\ step # "done" /\ Commands \cap Transfers = {}
      /\ step \in Transfers => step # "enable" /\ step # "disable"
      /\ "scan" \notin Held /\ "scan" \in Early /\ "next" \notin Held /\ "enable" \in Commands
      /\ "disable" \in Commands /\ "done" \notin Held /\ "enable" \notin Held
      /\ step # "enable" => step \in Held
  BY <1>1 DEF DriverPlace, Commands, Transfers, Reads, Writes, Held, Early
<1>4. kbdSlot = 0
  BY <1>3 DEF HandInv
<1>5. ASSUME prompt, ~hung PROVE DeviceInv'
  <2>1. DeviceInv
    BY <1>5 DEF HandInv
  <2>2. Ep0Quiet'
    BY <1>5 DEF Ep0Quiet
  <2>3. CompletionLast' /\ ~Succeeded'
    BY <1>5 DEF CompletionLast, Succeeded
  <2>4. CASE NextStep(step, ok) = "next"
    <3>1. step' = "scan" /\ step \in Commands
      BY <1>2, <1>3, <2>4, NextStepHeld
    <3>2. NoneLeft'
      BY <1>5, <3>1 DEF NoneLeft
    <3>3. Used' = {} /\ hung' = hung
      BY <1>1, <1>3, <1>5, <3>1 DEF SlotsByStep
    <3>4. DeviceState'
      BY <1>3, <1>4, <3>1, <3>3 DEF DeviceState
    <3> QED BY <2>2, <2>3, <3>2, <3>4 DEF DeviceInv
  <2>5. CASE NextStep(step, ok) # "next"
    <3>1. step' = NextStep(step, ok) /\ port' = port /\ step' \in Held
      BY <1>2, <1>3, <2>5, NextStepHeld
    <3>2. ~(step = "disable" \/ (step = "enable" /\ ~ok))
      BY <1>3, <2>5, NextStepHeld
    <3>3. CASE step \in Transfers
      <4>1. StateAt(After(step)) = StateAt(step) /\ After(step) \in Held \ {"disable", "ready"}
        BY <3>3, TransferState
      <4>2. step' \in {After(step), "disable"}
        BY <1>3, <3>1, <3>3, NextStepIs
      <4>3. ~Succeeded /\ slot' = slot
        BY <1>1, <1>2, <1>3, <3>3 DEF Succeeded, OneCompletion
      <4>4. step \in Held \ {"disable"}
        BY <1>3, <3>3
      <4>5. ctx[slot].st = StateAt(step) /\ \A s \in Used : ctx[s].port = port
        BY <2>1, <4>3, <4>4 DEF DeviceInv, DeviceState
      <4>6. step' # "ready"
        BY <4>1, <4>2
      <4>7. NoneLeft'
        BY <3>1, <4>6 DEF NoneLeft
      <4>8. DeviceState'
        BY <1>2, <1>3, <1>4, <2>3, <3>1, <4>1, <4>2, <4>3, <4>5 DEF DeviceState
      <4> QED BY <2>2, <2>3, <4>7, <4>8 DEF DeviceInv
    <3>4. CASE step \in Commands
      <4>1. NoneLeft'
        BY <1>5, <3>4 DEF NoneLeft
      <4>2. step' # "disable" => ok /\ step' = After(step)
        BY <1>3, <3>1, <3>2, <3>4, NextStepIs
      <4>3. \A s \in Used : ctx[s].port = port
        BY <2>1 DEF DeviceInv, DeviceState
      <4>4. ASSUME step' # "disable" PROVE ctx[slot'].st = StateAt(step')
        <5>1. CASE step = "enable"
          <6>1. ctx[slot'] = [NoCtx EXCEPT !.st = "enabled", !.port = port]
            BY <1>2, <1>5, <2>1, <4>2, <4>4, <5>1 DEF DeviceInv, DeviceState
          <6>2. ctx[slot'].st = "enabled"
            BY <6>1 DEF NoCtx
          <6>3. step' = "addr1"
            BY <4>2, <4>4, <5>1, AfterIs
          <6> QED BY <6>2, <6>3 DEF StateAt
        <5>2. CASE step # "enable"
          <6>1. slot' = slot /\ step \in Held \ {"disable"} /\ Succeeded
            BY <1>2, <1>3, <1>5, <3>2, <3>4, <4>2, <4>4, <5>2
          <6> QED BY <2>1, <4>2, <4>4, <6>1 DEF DeviceInv, DeviceState
        <5> QED BY <5>1, <5>2
      <4>5. DeviceState'
        BY <1>2, <1>3, <1>4, <2>3, <3>1, <4>3, <4>4 DEF DeviceState
      <4> QED BY <2>2, <2>3, <4>1, <4>5 DEF DeviceInv
    <3> QED BY <1>3, <3>3, <3>4
  <2> QED BY <2>4, <2>5
<1> QED BY <1>4, <1>5 DEF HandInv, board

\* evt_wait: on a prompt controller an event is seen when EP0 is idle.
LEMMA HandTake ==
  ASSUME EnumInv, EnumInv', HandInv, TakeEvent
  PROVE  HandInv'
<1>1. EnumTypeOK /\ DriverPlace /\ OneCompletion /\ SlotsByStep
  BY DEF EnumInv
<1>2. /\ waiting /\ evts # <<>> /\ evts' = Tail(evts) /\ (prompt => ~Busy \/ hung)
      /\ UNCHANGED <<board, kbdSlot, ctx, hung>>
  BY DEF TakeEvent, xhc
<1>3. evts \in Seq(Evt)
  BY <1>1 DEF EnumTypeOK
<1>4. /\ Len(evts) \in Nat \ {0} /\ Len(evts') = Len(evts) - 1
      /\ \A i \in 1..Len(evts') : i + 1 \in 1..Len(evts) /\ evts'[i] = evts[i+1]
      /\ Head(evts) = evts[1] /\ evts[1] \in Evt /\ 1 \in 1..Len(evts)
  BY <1>2, <1>3, TailEvent
<1>5. prompt /\ ~hung => \A s \in Slots : ctx[s].run # "active"
  BY <1>2 DEF Busy
<1>6. /\ step \in Commands \cup Transfers /\ Commands \cap Transfers = {} /\ step # "done"
      /\ "enable" \in Commands
  BY <1>1, <1>2 DEF DriverPlace, Commands, Transfers, Reads, Writes
<1>7. step \notin Commands => \A i \in 1..Len(evts) : evts[i].kind # "cmd"
  BY <1>1 DEF OneCompletion
<1>8. CASE Matches(Head(evts))
  <2>1. PICK e : e = Head(evts)
    OBVIOUS
  <2>2. Finish(e.ok, e.slot) /\ e.ok \in BOOLEAN
    BY <1>4, <1>8, <2>1 DEF TakeEvent, Evt
  <2>3. step \in Commands => e.kind = "cmd"
    BY <1>8, <2>1 DEF Matches
  <2>4. \A i \in 1..Len(evts') : evts'[i].kind # "cmd"
    <3> SUFFICES ASSUME NEW i \in 1..Len(evts'), evts'[i].kind = "cmd" PROVE FALSE
      OBVIOUS
    <3>1. i + 1 \in 1..Len(evts) /\ evts[i+1].kind = "cmd"
      BY <1>4
    <3>2. evts[1].kind = "cmd"
      BY <1>4, <1>7, <2>1, <2>3, <3>1
    <3>3. i + 1 = 1
      BY <1>1, <1>4, <3>1, <3>2 DEF OneCompletion
    <3> QED BY <3>3
  <2>5. ASSUME prompt, ~hung, step \in Commands
        PROVE  /\ \A i \in 1..Len(evts') : evts'[i].kind # "xfer"
               /\ Succeeded <=> e.ok
    <3>1. CompletionLast
      BY <2>5 DEF HandInv, DeviceInv
    <3>2. evts[1].kind = "cmd" /\ \A i \in 1..Len(evts) : evts[i].kind = "cmd" => i = 1
      BY <1>1, <1>4, <2>1, <2>3, <2>5 DEF OneCompletion
    <3>3. \A i \in 1..Len(evts') : evts'[i].kind # "xfer"
      <4> SUFFICES ASSUME NEW i \in 1..Len(evts') PROVE evts[i+1].kind # "xfer"
        BY <1>4
      <4>1. 1 < i + 1 /\ i + 1 \in 1..Len(evts)
        BY <1>4
      <4> QED BY <1>4, <3>1, <3>2, <4>1 DEF CompletionLast
    <3>4. Succeeded <=> e.ok
      BY <1>4, <2>1, <3>2 DEF Succeeded
    <3> QED BY <3>3, <3>4
  <2>6. ASSUME prompt, ~hung, step = "enable", e.ok PROVE e.slot \in Used
    BY <1>1, <1>4, <1>6, <2>1, <2>3, <2>6 DEF SlotsByStep
  <2> QED BY <1>2, <1>5, <2>2, <2>4, <2>5, <2>6, HandFinish
<1>9. CASE ~Matches(Head(evts))
  <2>1. UNCHANGED <<port, step, waiting, slot>>
    BY <1>9 DEF TakeEvent
  <2>2. Head(evts).kind # "cmd"
    BY <1>4, <1>7, <1>9 DEF Matches
  <2>3. Succeeded' <=> Succeeded
    BY <1>2, <1>3, <2>2, CompletionsKept
  <2>4. ASSUME prompt, ~hung PROVE DeviceInv'
    <3>1. DeviceInv
      BY <2>4 DEF HandInv
    <3>2. Ep0Quiet'
      BY <1>2, <1>5, <2>4 DEF Ep0Quiet
    <3>3. CompletionLast'
      <4> SUFFICES ASSUME NEW i \in 1..Len(evts'), NEW j \in 1..Len(evts'),
                          evts'[i].kind = "cmd", i < j
                   PROVE  evts'[j].kind # "xfer"
        BY DEF CompletionLast
      <4>1. i + 1 \in 1..Len(evts) /\ j + 1 \in 1..Len(evts) /\ i + 1 < j + 1
        BY <1>4
      <4> QED BY <1>4, <3>1, <4>1 DEF DeviceInv, CompletionLast
    <3>4. NoneLeft'
      BY <1>4, <2>1, <3>1 DEF DeviceInv, NoneLeft
    <3>5. DeviceState'
      BY <1>2, <2>1, <2>3, <3>1 DEF DeviceInv, DeviceState, Used
    <3> QED BY <3>2, <3>3, <3>4, <3>5 DEF DeviceInv
  <2> QED BY <1>2, <2>1, <2>4 DEF HandInv, board
<1> QED BY <1>8, <1>9

\* The deadline passes only in a transfer, and only with EP0 idle.
LEMMA HandTimeout ==
  ASSUME EnumInv, EnumInv', HandInv, Patient, Timeout
  PROVE  HandInv'
<1>1. EnumTypeOK /\ DriverPlace /\ CommandPlace /\ OneCompletion
  BY DEF EnumInv
<1>2. /\ waiting /\ NoAnswerComing /\ Finish(FALSE, 0)
      /\ evts' = IF evts = <<>> THEN evts ELSE Tail(evts)
      /\ \A i \in 1..Len(evts) : ~Matches(evts[i])
      /\ UNCHANGED <<board, kbdSlot, ctx, hung>>
  BY DEF Timeout, xhc
<1>3. step \in Commands \cup Transfers /\ Commands \cap Transfers = {} /\ "enable" \in Commands
  BY <1>1, <1>2 DEF DriverPlace, Commands, Transfers, Reads, Writes
<1>4. \A i \in 1..Len(evts) : evts[i].kind # "cmd"
  BY <1>1, <1>2 DEF OneCompletion, Matches
<1>5. \A i \in 1..Len(evts') : evts'[i].kind # "cmd"
  <2>1. CASE evts = <<>>
    BY <1>2, <1>4, <2>1
  <2>2. CASE evts # <<>>
    <3>1. \A i \in 1..Len(evts') : i + 1 \in 1..Len(evts) /\ evts'[i] = evts[i+1]
      BY <1>1, <1>2, <2>2, TailEvent DEF EnumTypeOK
    <3> QED BY <1>4, <3>1
  <2> QED BY <2>1, <2>2
<1>6. ~hung => step \notin Commands
  <2> SUFFICES ASSUME ~hung, step \in Commands PROVE FALSE
    OBVIOUS
  <2>1. ~xcmd.run
    BY <1>2, <1>3 DEF NoAnswerComing
  <2>2. Unanswered
    BY <1>2, <1>4 DEF Unanswered, Answered
  <2> QED BY <1>1, <2>1, <2>2 DEF CommandPlace, Pending
<1>7. ASSUME prompt, ~hung, NEW s \in Slots PROVE ctx[s].run # "active"
  <2>1. Ep0Quiet
    BY <1>7 DEF HandInv, DeviceInv
  <2>2. ctx[slot].run # "active"
    BY <1>2, <1>6, <1>7 DEF NoAnswerComing
  <2> QED BY <2>1, <2>2 DEF Ep0Quiet
<1>8. FALSE \in BOOLEAN
  OBVIOUS
<1> QED BY <1>2, <1>3, <1>5, <1>6, <1>7, <1>8, HandFinish

\* What a successful command makes of the slot context c.
After1(c) == [c EXCEPT !.st = "default", !.port = port, !.deq = 0, !.cycle = 1]
After0(c) == [c EXCEPT !.st = "addressed", !.port = port, !.deq = 0, !.cycle = 1]
Executed(c) ==
  CASE step = "disable" -> NoCtx
    [] step = "addr1"   -> After1(c)
    [] step = "addr0"   -> After0(c)
    [] step = "cfgep"   -> [c EXCEPT !.st = "configured"]
    [] OTHER            -> c

\* The command executed is the one the driver waits for, and the completion
\* posted is the only one in the queue.
LEMMA CommandEffect ==
  ASSUME EnumInv, XhcCommand
  PROVE  /\ waiting /\ step \in Commands /\ ~hung /\ UNCHANGED <<board, driver, memory, hung>>
         /\ \A i \in 1..Len(evts) : evts[i].kind # "cmd"
         /\ step # "enable" => slot \in Slots
         /\ \E e \in Evt :
              /\ e.kind = "cmd" /\ evts' = Append(evts, e)
              /\ \/ /\ step = "enable" /\ e.ok /\ e.slot \in Slots
                    /\ ctx' = [ctx EXCEPT ![e.slot] = [NoCtx EXCEPT !.st = "enabled", !.port = port]]
                 \/ step = "enable" /\ ~e.ok /\ UNCHANGED ctx /\ Slots = Used
                 \/ step # "enable" /\ e.ok /\ ctx' = [ctx EXCEPT ![slot] = Executed(ctx[slot])]
                 \/ /\ step # "enable" /\ ~e.ok /\ UNCHANGED ctx
                    /\ ctx[slot].st \notin LegalIn[step] \/ dev[port] = "flaky"
<1> DEFINE t == cmd[xcmd.deq]
           free == {s \in Slots : ctx[s].st = "off"}
<1>1. EnumTypeOK /\ DriverPlace /\ SlotsByStep
  BY DEF EnumInv
<1>2. /\ ~hung /\ xcmd.deq # CMD_N - 1 /\ t.cyc = xcmd.cycle
      /\ UNCHANGED <<board, driver, memory, hung>>
  BY DEF XhcCommand
<1>3. Unanswered /\ t.item = step /\ t.slot = slot /\ t.port = port
  BY <1>2, CommandIsLast
<1>4. /\ waiting /\ step \in Commands /\ ~Answered /\ (step # "enable" => step \in Held)
      /\ \A i \in 1..Len(evts) : evts[i].kind # "cmd"
  BY <1>3 DEF Unanswered, Held, Answered
<1>5. port \in Nat /\ slot \in Nat
  BY <1>1, SizeAssumption DEF EnumTypeOK
<1>6. step # "enable" => slot \in Slots
  BY <1>1, <1>2, <1>4 DEF SlotsByStep
<1>7. \A ok \in BOOLEAN, s \in Nat :
        LET e == Event("cmd", s, ok, t) IN
        e \in Evt /\ e.kind = "cmd" /\ e.ok = ok /\ e.slot = s
  BY <1>3, <1>4, <1>5 DEF Event, Evt, Items
<1>8. \A s \in Slots : s \in Nat
  BY SizeAssumption DEF Slots
<1>9. ASSUME /\ t.item = "enable" /\ free # {}
             /\ LET s == CHOOSE s \in free : \A r \in free : s <= r IN
                /\ ctx' = [ctx EXCEPT ![s] = [NoCtx EXCEPT !.st = "enabled", !.port = t.port]]
                /\ evts' = Append(evts, Event("cmd", s, TRUE, t))
      PROVE  \E e \in Evt :
               /\ e.kind = "cmd" /\ evts' = Append(evts, e)
               /\ step = "enable" /\ e.ok /\ e.slot \in Slots
               /\ ctx' = [ctx EXCEPT ![e.slot] = [NoCtx EXCEPT !.st = "enabled", !.port = port]]
  <2>1. PICK s : /\ s = CHOOSE r \in free : \A u \in free : r <= u
                 /\ ctx' = [ctx EXCEPT ![s] = [NoCtx EXCEPT !.st = "enabled", !.port = t.port]]
                 /\ evts' = Append(evts, Event("cmd", s, TRUE, t))
    BY <1>9
  <2>2. \E r \in free : \A u \in free : r <= u
    <3>1. free \in SUBSET Nat /\ free # {}
      BY <1>8, <1>9
    <3> QED BY <3>1, LeastElement
  <2>3. s \in Slots /\ s \in Nat
    BY <1>8, <2>1, <2>2
  <2>4. PICK e \in Evt : e = Event("cmd", s, TRUE, t) /\ e.kind = "cmd" /\ e.ok = TRUE /\ e.slot = s
    BY <1>7, <2>3
  <2> QED BY <1>3, <1>9, <2>1, <2>3, <2>4
<1>10. ASSUME t.item = "enable", free = {}, evts' = Append(evts, Event("cmd", 0, FALSE, t)),
              UNCHANGED ctx
       PROVE  \E e \in Evt : /\ e.kind = "cmd" /\ evts' = Append(evts, e)
                             /\ step = "enable" /\ ~e.ok /\ UNCHANGED ctx /\ Slots = Used
  <2>1. PICK e \in Evt : e = Event("cmd", 0, FALSE, t) /\ e.kind = "cmd" /\ e.ok = FALSE
    BY <1>7
  <2>2. Slots = Used
    BY <1>10 DEF Used
  <2> QED BY <1>3, <1>10, <2>1, <2>2
<1>11. ASSUME t.item # "enable", ctx' = [ctx EXCEPT ![t.slot] = Execute(t)],
              evts' = Append(evts, Event("cmd", t.slot, TRUE, t))
       PROVE  \E e \in Evt :
                /\ e.kind = "cmd" /\ evts' = Append(evts, e)
                /\ step # "enable" /\ e.ok /\ ctx' = [ctx EXCEPT ![slot] = Executed(ctx[slot])]
  <2>1. PICK e \in Evt : e = Event("cmd", t.slot, TRUE, t) /\ e.kind = "cmd" /\ e.ok = TRUE
    BY <1>3, <1>5, <1>7
  <2>2. ctx[slot] \in Context
    BY <1>1, <1>3, <1>6, <1>11 DEF EnumTypeOK
  <2>3. Execute(t) = Executed(ctx[slot])
    <3>1. CASE step = "disable"
      BY <1>3, <3>1 DEF Execute, Executed
    <3>2. CASE step = "addr1"
      BY <1>3, <3>2 DEF Execute, Executed, After1, LeadsTo
    <3>3. CASE step = "addr0"
      BY <1>3, <3>3 DEF Execute, Executed, After0, LeadsTo
    <3>4. CASE step = "cfgep"
      BY <1>3, <3>4 DEF Execute, Executed, LeadsTo
    <3>5. CASE step = "eval"
      <4>1. Execute(t) = [ctx[slot] EXCEPT !.st = LeadsTo(step, @)]
        BY <1>3, <3>5 DEF Execute
      <4>2. LeadsTo(step, ctx[slot].st) = ctx[slot].st
        BY <3>5 DEF LeadsTo
      <4> QED BY <2>2, <3>5, <4>1, <4>2 DEF Executed, Context
    <3> QED BY <1>3, <1>4, <1>11, <3>1, <3>2, <3>3, <3>4, <3>5 DEF Commands
  <2> QED BY <1>3, <1>11, <2>1, <2>3
<1>12. ASSUME t.item # "enable",
              ctx[t.slot].st \notin LegalIn[t.item] \/ (t.item # "disable" /\ dev[t.port] = "flaky"),
              evts' = Append(evts, Event("cmd", t.slot, FALSE, t)), UNCHANGED ctx
       PROVE  \E e \in Evt :
                /\ e.kind = "cmd" /\ evts' = Append(evts, e)
                /\ step # "enable" /\ ~e.ok /\ UNCHANGED ctx
                /\ ctx[slot].st \notin LegalIn[step] \/ dev[port] = "flaky"
  <2>1. PICK e \in Evt : e = Event("cmd", t.slot, FALSE, t) /\ e.kind = "cmd" /\ e.ok = FALSE
    BY <1>3, <1>5, <1>7
  <2> QED BY <1>3, <1>12, <2>1
<1>13. \/ /\ t.item = "enable" /\ free # {}
          /\ LET s == CHOOSE s \in free : \A r \in free : s <= r IN
             /\ ctx' = [ctx EXCEPT ![s] = [NoCtx EXCEPT !.st = "enabled", !.port = t.port]]
             /\ evts' = Append(evts, Event("cmd", s, TRUE, t))
       \/ /\ t.item = "enable" /\ free = {}
          /\ evts' = Append(evts, Event("cmd", 0, FALSE, t)) /\ UNCHANGED ctx
       \/ /\ t.item # "enable" /\ ctx' = [ctx EXCEPT ![t.slot] = Execute(t)]
          /\ evts' = Append(evts, Event("cmd", t.slot, TRUE, t))
       \/ /\ t.item # "enable"
          /\ ctx[t.slot].st \notin LegalIn[t.item] \/ (t.item # "disable" /\ dev[t.port] = "flaky")
          /\ evts' = Append(evts, Event("cmd", t.slot, FALSE, t)) /\ UNCHANGED ctx
  BY DEF XhcCommand
<1> HIDE DEF t, free
<1>14. \E e \in Evt :
         /\ e.kind = "cmd" /\ evts' = Append(evts, e)
         /\ \/ /\ step = "enable" /\ e.ok /\ e.slot \in Slots
               /\ ctx' = [ctx EXCEPT ![e.slot] = [NoCtx EXCEPT !.st = "enabled", !.port = port]]
            \/ step = "enable" /\ ~e.ok /\ UNCHANGED ctx /\ Slots = Used
            \/ step # "enable" /\ e.ok /\ ctx' = [ctx EXCEPT ![slot] = Executed(ctx[slot])]
            \/ /\ step # "enable" /\ ~e.ok /\ UNCHANGED ctx
               /\ ctx[slot].st \notin LegalIn[step] \/ dev[port] = "flaky"
  BY <1>9, <1>10, <1>11, <1>12, <1>13
<1> QED BY <1>2, <1>4, <1>6, <1>14

\* A command that succeeds brings the slot to the state of the next step.
LEMMA HandCommand ==
  ASSUME EnumInv, EnumInv', HandInv, XhcCommand
  PROVE  HandInv'
<1>1. /\ waiting /\ step \in Commands /\ ~hung /\ UNCHANGED <<board, driver, memory, hung>>
      /\ \A i \in 1..Len(evts) : evts[i].kind # "cmd"
      /\ step # "enable" => slot \in Slots
  BY CommandEffect
<1>2. PICK e \in Evt :
        /\ e.kind = "cmd" /\ evts' = Append(evts, e)
        /\ \/ /\ step = "enable" /\ e.ok /\ e.slot \in Slots
              /\ ctx' = [ctx EXCEPT ![e.slot] = [NoCtx EXCEPT !.st = "enabled", !.port = port]]
           \/ step = "enable" /\ ~e.ok /\ UNCHANGED ctx /\ Slots = Used
           \/ step # "enable" /\ e.ok /\ ctx' = [ctx EXCEPT ![slot] = Executed(ctx[slot])]
           \/ /\ step # "enable" /\ ~e.ok /\ UNCHANGED ctx
              /\ ctx[slot].st \notin LegalIn[step] \/ dev[port] = "flaky"
  BY CommandEffect
<1>3. EnumTypeOK /\ SlotsByStep /\ SlotsByStep' /\ EnumTypeOK'
  BY DEF EnumInv
<1>4. UNCHANGED <<port, step, waiting, slot, kbdSlot>>
  BY <1>1 DEF driver
<1>5. /\ Len(evts) \in Nat /\ Len(evts') = Len(evts) + 1
      /\ \A i \in 1..Len(evts) : evts'[i] = evts[i]
      /\ evts'[Len(evts) + 1] = e
  BY <1>2, <1>3, AppendEvent DEF EnumTypeOK
<1>6. Len(evts) + 1 \in 1..Len(evts')
      /\ \A i \in 1..Len(evts') : i \in 1..Len(evts) \/ i = Len(evts) + 1
  BY <1>5
<1>7. (Succeeded' <=> e.ok) /\ ~Succeeded
  BY <1>1, <1>2, <1>5, <1>6 DEF Succeeded
<1>8. /\ step # "done" /\ step \notin Transfers /\ step # "ready" /\ "enable" \notin Held
      /\ step # "enable" => step \in Held
  BY <1>1 DEF Commands, Transfers, Reads, Writes, Held
<1>9. kbdSlot = 0
  BY <1>8 DEF HandInv
<1>10. ASSUME prompt PROVE DeviceInv'
  <2>1. DeviceInv
    BY <1>1, <1>10 DEF HandInv
  <2>2. \A s \in Slots : ctx[s].run # "active"
    BY <1>8, <2>1 DEF DeviceInv, Ep0Quiet
  <2>3. CompletionLast'
    <3> SUFFICES ASSUME NEW i \in 1..Len(evts'), NEW j \in 1..Len(evts'),
                        evts'[i].kind = "cmd", i < j
                 PROVE  FALSE
      BY DEF CompletionLast
    <3>1. i \in 1..Len(evts)
      BY <1>5, <1>6
    <3> QED BY <1>1, <1>5, <3>1
  <2>4. NoneLeft'
    BY <1>2, <1>4, <1>5, <1>6, <2>1 DEF DeviceInv, NoneLeft
  <2>5. ctx \in [Slots -> Context]
    BY <1>3 DEF EnumTypeOK
  <2>6. NoCtx.run = "idle" /\ NoCtx.st = "off"
    BY DEF NoCtx
  <2>7. CASE UNCHANGED ctx /\ ~e.ok
    <3>1. Used' = Used
      BY <2>7 DEF Used
    <3>2. Ep0Quiet'
      BY <2>2, <2>7 DEF Ep0Quiet
    <3>3. DeviceState'
      BY <1>4, <1>7, <2>1, <2>7, <3>1 DEF DeviceInv, DeviceState
    <3> QED BY <2>3, <2>4, <3>2, <3>3 DEF DeviceInv
  <2>8. CASE /\ step = "enable" /\ e.ok /\ e.slot \in Slots
             /\ ctx' = [ctx EXCEPT ![e.slot] = [NoCtx EXCEPT !.st = "enabled", !.port = port]]
    <3>1. PICK c : c = [NoCtx EXCEPT !.st = "enabled", !.port = port]
      OBVIOUS
    <3>2. c.run = "idle" /\ c.st = "enabled" /\ c.port = port
      BY <3>1 DEF NoCtx
    <3>3. \A s \in Slots : ctx'[s] = IF s = e.slot THEN c ELSE ctx[s]
      BY <2>5, <2>8, <3>1
    <3>4. Used = {}
      <4>1. ~Answered
        BY <1>1 DEF Answered
      <4> QED BY <1>1, <1>3, <2>8, <4>1 DEF SlotsByStep
    <3>5. Used' = {e.slot}
      BY <2>8, <3>2, <3>3, <3>4 DEF Used
    <3>6. Ep0Quiet'
      BY <2>2, <3>2, <3>3 DEF Ep0Quiet
    <3>7. DeviceState'
      BY <1>4, <1>8, <1>9, <2>8, <3>1, <3>2, <3>3, <3>5 DEF DeviceState
    <3> QED BY <2>3, <2>4, <3>6, <3>7 DEF DeviceInv
  <2>9. CASE step # "enable" /\ e.ok /\ ctx' = [ctx EXCEPT ![slot] = Executed(ctx[slot])]
    <3>1. PICK c : c = Executed(ctx[slot])
      OBVIOUS
    <3>2. slot \in Slots /\ ctx[slot] \in Context
      BY <1>1, <2>5, <2>9
    <3>3. \A s \in Slots : ctx'[s] = IF s = slot THEN c ELSE ctx[s]
      BY <2>5, <2>9, <3>1
    <3>4. step # "disable" => ctx[slot].st = StateAt(step)
      BY <1>7, <1>8, <2>1, <2>9 DEF DeviceInv, DeviceState
    <3>5. Used = {slot} /\ ctx[slot].port = port
      <4>1. ~Answered
        BY <1>1 DEF Answered
      <4>2. Used = {slot}
        BY <1>1, <1>3, <1>8, <2>9, <4>1 DEF SlotsByStep
      <4> QED BY <2>1, <4>2 DEF DeviceInv, DeviceState
    <3>6. /\ c.run \in {"idle", ctx[slot].run}
          /\ step # "disable" => c.st = StateAt(After(step)) /\ c.port = port
          /\ step = "disable" => c.st = "off"
      <4>1. CASE step = "disable"
        BY <2>6, <3>1, <4>1 DEF Executed
      <4>2. CASE step = "addr1"
        <5>1. c = After1(ctx[slot])
          BY <3>1, <4>2 DEF Executed
        <5>2. c.run = ctx[slot].run /\ c.st = "default" /\ c.port = port
          BY <3>2, <5>1 DEF After1, Context
        <5>3. StateAt(After(step)) = "default"
          BY <4>2, AfterIs DEF StateAt
        <5> QED BY <4>2, <5>2, <5>3
      <4>3. CASE step = "addr0"
        <5>1. c = After0(ctx[slot])
          BY <3>1, <4>3 DEF Executed
        <5>2. c.run = ctx[slot].run /\ c.st = "addressed" /\ c.port = port
          BY <3>2, <5>1 DEF After0, Context
        <5>3. StateAt(After(step)) = "addressed"
          BY <4>3, AfterIs DEF StateAt
        <5> QED BY <4>3, <5>2, <5>3
      <4>4. CASE step = "cfgep"
        <5>1. c = [ctx[slot] EXCEPT !.st = "configured"]
          BY <3>1, <4>4 DEF Executed
        <5>2. c.run = ctx[slot].run /\ c.st = "configured" /\ c.port = port
          BY <3>2, <3>5, <5>1 DEF Context
        <5>3. StateAt(After(step)) = "configured"
          BY <4>4, AfterIs DEF StateAt
        <5> QED BY <4>4, <5>2, <5>3
      <4>5. CASE step = "eval"
        <5>1. c = ctx[slot]
          BY <3>1, <4>5 DEF Executed
        <5>2. StateAt(After(step)) = "default" /\ StateAt(step) = "default"
          BY <4>5, AfterIs DEF StateAt
        <5> QED BY <3>4, <3>5, <4>5, <5>1, <5>2
      <4> QED BY <1>1, <2>9, <4>1, <4>2, <4>3, <4>4, <4>5 DEF Commands
    <3>7. Ep0Quiet'
      BY <2>2, <3>2, <3>3, <3>6 DEF Ep0Quiet
    <3>8. \A s \in Used' : s = slot /\ step # "disable"
      BY <3>3, <3>5, <3>6 DEF Used
    <3>9. DeviceState'
      BY <1>4, <1>7, <1>8, <1>9, <2>9, <3>2, <3>3, <3>6, <3>8 DEF DeviceState
    <3> QED BY <2>3, <2>4, <3>7, <3>9 DEF DeviceInv
  <2> QED BY <1>2, <2>7, <2>8, <2>9
<1> QED BY <1>1, <1>4, <1>8, <1>9, <1>10 DEF HandInv, board

\* EP0 works on its ring and posts Transfer Events; the rest stays.
LEMMA TransferFrame ==
  ASSUME EnumInv, NEW s \in Slots, XhcTransfer(s)
  PROVE  /\ ~hung /\ ctx[s].run = "active" /\ UNCHANGED <<board, driver, cmd, ep0, xcmd, hung>>
         /\ UNCHANGED evts \/ \E e \in Evt : e.kind = "xfer" /\ e.slot = s /\ evts' = Append(evts, e)
         /\ \A r \in Slots : /\ ctx'[r].st = ctx[r].st /\ ctx'[r].port = ctx[r].port
                             /\ r # s => ctx'[r] = ctx[r]
<1> DEFINE c == ctx[s]
           t == ep0[c.port][c.deq]
           m == RingSkip(c.deq, c.cycle, EP0_N)
<1>1. EnumTypeOK /\ ContextPorts
  BY DEF EnumInv
<1>2. /\ ~hung /\ c.run = "active" /\ UNCHANGED <<board, driver, cmd, ep0, xcmd, hung>>
      /\ \/ ctx' = [ctx EXCEPT ![s].run = "idle"]
         \/ ctx' = [ctx EXCEPT ![s].deq = m[1], ![s].cycle = m[2]]
         \/ ctx' = [ctx EXCEPT ![s].run = "halted"]
      /\ \/ UNCHANGED evts
         \/ evts' = Append(evts, Event("xfer", s, TRUE, t))
         \/ evts' = Append(evts, Event("xfer", s, FALSE, t))
  BY DEF XhcTransfer
<1>3. ctx \in [Slots -> Context] /\ c \in Context /\ c.port \in Ports
  BY <1>1, <1>2 DEF EnumTypeOK, ContextPorts
<1>4. c.deq \in 0..EP0_N-1 /\ c.cycle \in Cycle /\ EP0_N \in Nat /\ EP0_N >= 4
  BY <1>3, SizeAssumption DEF Context
<1>5. t \in Cell
  BY <1>1, <1>3, <1>4 DEF EnumTypeOK
<1> HIDE DEF t, m
<1>6. \A ok \in BOOLEAN : LET e == Event("xfer", s, ok, t) IN e \in Evt /\ e.kind = "xfer" /\ e.slot = s
  <2>1. s \in Nat
    BY SizeAssumption DEF Slots
  <2> QED BY <1>5, <2>1 DEF Event, Evt, Cell
<1>7. UNCHANGED evts \/ \E e \in Evt : e.kind = "xfer" /\ e.slot = s /\ evts' = Append(evts, e)
  BY <1>2, <1>6
<1>8. \A r \in Slots : /\ ctx'[r].st = ctx[r].st /\ ctx'[r].port = ctx[r].port
                       /\ r # s => ctx'[r] = ctx[r]
  <2>1. CASE ctx' = [ctx EXCEPT ![s].run = "idle"]
    BY <1>3, <2>1 DEF Context
  <2>2. CASE ctx' = [ctx EXCEPT ![s].run = "halted"]
    BY <1>3, <2>2 DEF Context
  <2>3. CASE ctx' = [ctx EXCEPT ![s].deq = m[1], ![s].cycle = m[2]]
    BY <1>3, <2>3 DEF Context
  <2> QED BY <1>2, <2>1, <2>2, <2>3
<1> QED BY <1>2, <1>7, <1>8

LEMMA HandTransfer ==
  ASSUME EnumInv, HandInv, NEW s \in Slots, XhcTransfer(s)
  PROVE  HandInv'
<1>1. /\ ~hung /\ ctx[s].run = "active" /\ UNCHANGED <<board, driver, cmd, ep0, xcmd, hung>>
      /\ \A r \in Slots : /\ ctx'[r].st = ctx[r].st /\ ctx'[r].port = ctx[r].port
                          /\ r # s => ctx'[r] = ctx[r]
  BY TransferFrame
<1>2. UNCHANGED evts \/ \E e \in Evt : e.kind = "xfer" /\ e.slot = s /\ evts' = Append(evts, e)
  BY TransferFrame
<1>3. UNCHANGED <<port, step, waiting, slot, kbdSlot>>
  BY <1>1 DEF driver
<1>4. OneCompletion /\ EnumTypeOK
  BY DEF EnumInv
<1>5. ASSUME prompt PROVE DeviceInv'
  <2>1. DeviceInv
    BY <1>1, <1>5 DEF HandInv
  <2>2. s = slot /\ waiting /\ step \in Transfers
    BY <1>1, <2>1 DEF DeviceInv, Ep0Quiet
  <2>3. step \in Held /\ step # "ready" /\ step \notin Commands /\ step # "enable" /\ step # "done"
    BY <2>2 DEF Transfers, Reads, Writes, Held, Commands
  <2>4. \A i \in 1..Len(evts) : evts[i].kind # "cmd"
    BY <1>4, <2>3 DEF OneCompletion
  <2>5. \A i \in 1..Len(evts') : evts'[i].kind # "cmd"
    <3>1. CASE UNCHANGED evts
      BY <2>4, <3>1
    <3>2. ASSUME NEW e \in Evt, e.kind = "xfer", evts' = Append(evts, e)
          PROVE  \A i \in 1..Len(evts') : evts'[i].kind # "cmd"
      <4>1. /\ Len(evts) \in Nat /\ Len(evts') = Len(evts) + 1
            /\ \A i \in 1..Len(evts) : evts'[i] = evts[i]
            /\ evts'[Len(evts) + 1] = e
        BY <1>4, <3>2, AppendEvent DEF EnumTypeOK
      <4>2. \A i \in 1..Len(evts') : i \in 1..Len(evts) \/ i = Len(evts) + 1
        BY <4>1
      <4> QED BY <2>4, <3>2, <4>1, <4>2
    <3> QED BY <1>2, <3>1, <3>2
  <2>6. Used' = Used /\ ~Succeeded /\ ~Succeeded' /\ kbdSlot = 0
    BY <1>1, <2>3, <2>4, <2>5 DEF Used, Succeeded, HandInv
  <2>7. Ep0Quiet'
    BY <1>1, <1>3, <2>1, <2>2 DEF DeviceInv, Ep0Quiet
  <2>8. CompletionLast' /\ NoneLeft'
    BY <1>3, <2>3, <2>5 DEF CompletionLast, NoneLeft
  <2>9. DeviceState'
    <3>1. \A r \in Used : r \in Slots
      BY DEF Used
    <3> QED BY <1>1, <1>3, <2>1, <2>2, <2>3, <2>6, <3>1 DEF DeviceInv, DeviceState
  <2> QED BY <2>7, <2>8, <2>9 DEF DeviceInv
<1> QED BY <1>1, <1>3, <1>5 DEF HandInv, board

\* Port events, the end of the command ring, and a controller that hangs.
LEMMA HandOther ==
  ASSUME EnumInv, HandInv, XhcPortEvent \/ XhcCommandEnd \/ XhcHang \/ UNCHANGED vars
  PROVE  HandInv'
<1>1. /\ UNCHANGED <<dev, prompt, port, step, waiting, slot, kbdSlot, ctx>>
      /\ hung' = hung \/ hung'
  BY DEF XhcPortEvent, XhcCommandEnd, XhcHang, vars, board, driver, xhc
<1>2. ~hung' => ~hung
  BY DEF XhcPortEvent, XhcCommandEnd, XhcHang, vars, xhc
<1>3. UNCHANGED evts \/ \E e \in Evt : e.kind = "port" /\ evts' = Append(evts, e)
  <2>1. PICK e : e = Event("port", 0, TRUE, [item |-> "none", port |-> 0])
    OBVIOUS
  <2>2. e \in Evt /\ e.kind = "port"
    BY <2>1 DEF Event, Evt, Items
  <2> QED BY <2>1, <2>2 DEF XhcPortEvent, XhcCommandEnd, XhcHang, vars
<1>4. evts \in Seq(Evt)
  BY DEF EnumInv, EnumTypeOK
<1>5. Succeeded' <=> Succeeded
  BY <1>3, <1>4, CompletionsKept
<1>6. ASSUME prompt, ~hung, ~hung' PROVE DeviceInv'
  <2>1. DeviceInv
    BY <1>6 DEF HandInv
  <2>2. Ep0Quiet'
    BY <1>1, <2>1 DEF DeviceInv, Ep0Quiet
  <2>3. DeviceState'
    BY <1>1, <1>5, <2>1 DEF DeviceInv, DeviceState, Used
  <2>4. CompletionLast' /\ NoneLeft'
    <3>1. CASE UNCHANGED evts
      BY <1>1, <2>1, <3>1 DEF DeviceInv, CompletionLast, NoneLeft
    <3>2. ASSUME NEW e \in Evt, e.kind = "port", evts' = Append(evts, e)
          PROVE  CompletionLast' /\ NoneLeft'
      <4>1. /\ Len(evts) \in Nat /\ Len(evts') = Len(evts) + 1
            /\ \A i \in 1..Len(evts) : evts'[i] = evts[i]
            /\ evts'[Len(evts) + 1] = e
        BY <1>4, <3>2, AppendEvent
      <4>2. \A i \in 1..Len(evts') : i \in 1..Len(evts) \/ i = Len(evts) + 1
        BY <4>1
      <4>3. NoneLeft'
        BY <1>1, <2>1, <3>2, <4>1, <4>2 DEF DeviceInv, NoneLeft
      <4>4. CompletionLast'
        <5> SUFFICES ASSUME NEW i \in 1..Len(evts'), NEW j \in 1..Len(evts'),
                            evts'[i].kind = "cmd", i < j, evts'[j].kind = "xfer"
                     PROVE  FALSE
          BY DEF CompletionLast
        <5>1. j \in 1..Len(evts) /\ i \in 1..Len(evts)
          BY <3>2, <4>1, <4>2
        <5> QED BY <2>1, <4>1, <5>1 DEF DeviceInv, CompletionLast
      <4> QED BY <4>3, <4>4
    <3> QED BY <1>3, <3>1, <3>2
  <2> QED BY <2>2, <2>3, <2>4 DEF DeviceInv
<1> QED BY <1>1, <1>2, <1>6 DEF HandInv

-----------------------------------------------------------------------------
(* A prompt controller finds the keyboard: driver and controller in the    *)
(* EP0 ring.                                                               *)

Ep0Ring  == [0..EP0_N-1 -> Cell]
Producer == [enq : 0..EP0_N-2, cycle : Cycle]

\* ep0_push: the xHC is one TRB more behind.  The driver may not lap it, and
\* the Link TRB may not be handed over again before the xHC has followed it.
LEMMA PushOne ==
  ASSUME NEW d \in 0..EP0_N-1, NEW y \in Cycle, NEW r \in Ep0Ring, NEW st \in Producer,
         NEW t \in Cell, InRing(d, y, r, st), Lag(d, y, st) + 1 <= EP0_N - 1,
         d # EP0_N - 1 \/ Lag(d, y, st) + 1 <= EP0_N - 2
  PROVE  LET r1  == RingPush(r, EP0_N, st.enq, st.cycle, t)
             st1 == RingNext(st, EP0_N)
         IN  /\ r1 \in Ep0Ring /\ st1 \in Producer
             /\ InRing(d, y, r1, st1) /\ Lag(d, y, st1) = Lag(d, y, st) + 1
             /\ r1[LastTrb(st1)].item = t.item
<1> DEFINE r1  == RingPush(r, EP0_N, st.enq, st.cycle, t)
           st1 == RingNext(st, EP0_N)
<1>1. EP0_N \in Nat /\ EP0_N >= 4
  BY SizeAssumption
<1>2. st.enq \in 0..EP0_N-2 /\ st.cycle \in Cycle /\ Flip(st.cycle) \in Cycle
      /\ Flip(st.cycle) # st.cycle /\ Flip(Flip(st.cycle)) = st.cycle
  BY FlipCycle DEF Producer
<1>3. /\ r1 \in Ep0Ring /\ r1[st.enq] = [t EXCEPT !.cyc = st.cycle]
      /\ \A j \in 0..EP0_N-2 : j # st.enq => r1[j] = r[j]
      /\ r1[EP0_N-1].cyc = IF st.enq + 1 = EP0_N - 1 THEN st.cycle ELSE r[EP0_N-1].cyc
      /\ r1[EP0_N-1].item = r[EP0_N-1].item
  BY <1>1, <1>2, RingPushType DEF Ep0Ring
<1>4. /\ st1 \in Producer
      /\ st1.enq = IF st.enq + 1 = EP0_N - 1 THEN 0 ELSE st.enq + 1
      /\ st1.cycle = IF st.enq + 1 = EP0_N - 1 THEN Flip(st.cycle) ELSE st.cycle
  BY <1>1, RingNextType DEF Producer
<1>5. [t EXCEPT !.cyc = st.cycle].cyc = st.cycle /\ [t EXCEPT !.cyc = st.cycle].item = t.item
  BY DEF Cell
<1> HIDE DEF r1, st1
<1>6. r1[LastTrb(st1)].item = t.item
  <2>1. LastTrb(st1) = st.enq
    BY <1>1, <1>2, <1>4 DEF LastTrb
  <2> QED BY <1>3, <1>5, <2>1
<1>7. Cycle = {st.cycle, Flip(st.cycle)}
  BY <1>2 DEF Cycle, Flip
<1>8. /\ \A i \in 0..EP0_N-2 : r[i].cyc = IF i < st.enq THEN st.cycle ELSE Flip(st.cycle)
      /\ r[EP0_N-1].item = "none" /\ Lag(d, y, st) \in 0..EP0_N-1
      /\ y # st.cycle => r[EP0_N-1].cyc = y
  BY DEF InRing
<1>9. Lag(d, y, st1) = Lag(d, y, st) + 1
  BY <1>1, <1>2, <1>4, <1>7, <1>8 DEF Lag
<1>10. \A i \in 0..EP0_N-2 : r1[i].cyc = IF i < st1.enq THEN st1.cycle ELSE Flip(st1.cycle)
  <2> TAKE i \in 0..EP0_N-2
  <2>1. CASE st.enq + 1 = EP0_N - 1
    <3>1. i # st.enq => i < st.enq
      BY <1>1, <1>2, <2>1
    <3>2. r1[i].cyc = st.cycle
      BY <1>3, <1>5, <1>8, <3>1
    <3>3. st1.enq = 0 /\ st1.cycle = Flip(st.cycle)
      BY <1>4, <2>1
    <3> QED BY <1>2, <3>2, <3>3
  <2>2. CASE st.enq + 1 # EP0_N - 1
    <3>1. st1.enq = st.enq + 1 /\ st1.cycle = st.cycle
      BY <1>4, <2>2
    <3>2. CASE i = st.enq
      <4>1. r1[i].cyc = st.cycle
        <5>1. r1[i] = [t EXCEPT !.cyc = st.cycle]
          BY <1>3, <3>2
        <5> QED BY <1>5, <5>1
      <4>2. i < st1.enq
        BY <1>2, <3>1, <3>2
      <4> QED BY <3>1, <4>1, <4>2
    <3>3. CASE i # st.enq
      <4>1. r1[i].cyc = r[i].cyc /\ (i < st.enq <=> i < st1.enq)
        BY <1>2, <1>3, <3>1, <3>3
      <4> QED BY <1>8, <3>1, <4>1
    <3> QED BY <3>2, <3>3
  <2> QED BY <2>1, <2>2
<1>11. y # st1.cycle => r1[EP0_N-1].cyc = y
  <2>1. CASE st.enq + 1 = EP0_N - 1
    BY <1>2, <1>3, <1>4, <1>7, <2>1
  <2>2. CASE st.enq + 1 # EP0_N - 1
    BY <1>3, <1>4, <1>8, <2>2
  <2> QED BY <2>1, <2>2
<1>12. Lag(d, y, st1) \in 0..EP0_N-1
  BY <1>1, <1>8, <1>9
<1>13. InRing(d, y, r1, st1)
  BY <1>3, <1>8, <1>10, <1>11, <1>12 DEF InRing
<1> QED BY <1>3, <1>4, <1>6, <1>9, <1>13 DEF r1, st1

\* The xHC takes a TRB, and is one behind less; the last is the one pushed
\* last.  The Link TRB does not count.
LEMMA TakeOne ==
  ASSUME NEW d \in 0..EP0_N-1, NEW y \in Cycle, NEW r \in Ep0Ring, NEW st \in Producer,
         InRing(d, y, r, st), r[d].cyc = y
  PROVE  LET m == RingSkip(d, y, EP0_N)
         IN  /\ InRing(m[1], m[2], r, st)
             /\ d = EP0_N - 1 =>
                  Lag(m[1], m[2], st) = Lag(d, y, st) /\ r[d].item = "none"
             /\ d # EP0_N - 1 =>
                  /\ Lag(m[1], m[2], st) = Lag(d, y, st) - 1
                  /\ Lag(d, y, st) = 1 => d = LastTrb(st)
<1> DEFINE m == RingSkip(d, y, EP0_N)
<1>1. EP0_N \in Nat /\ EP0_N >= 4
  BY SizeAssumption
<1>2. st.enq \in 0..EP0_N-2 /\ st.cycle \in Cycle /\ Flip(st.cycle) # st.cycle
  BY FlipCycle DEF Producer
<1>3. /\ \A i \in 0..EP0_N-2 : r[i].cyc = IF i < st.enq THEN st.cycle ELSE Flip(st.cycle)
      /\ r[EP0_N-1].item = "none" /\ Lag(d, y, st) \in 0..EP0_N-1
      /\ y # st.cycle => r[EP0_N-1].cyc = y
  BY DEF InRing
<1>4. CASE d = EP0_N - 1
  <2>1. y # st.cycle
    BY <1>1, <1>2, <1>3, <1>4 DEF Lag
  <2>2. m[1] = 0 /\ m[2] = st.cycle
    <3>1. Flip(y) = st.cycle
      BY <1>2, <2>1 DEF Flip, Cycle
    <3> QED BY <1>4, <3>1 DEF RingSkip
  <2>3. Lag(m[1], m[2], st) = Lag(d, y, st)
    BY <1>1, <1>2, <1>4, <2>1, <2>2 DEF Lag
  <2> HIDE DEF m
  <2>4. InRing(m[1], m[2], r, st)
    BY <1>3, <2>2, <2>3 DEF InRing
  <2> QED BY <1>3, <1>4, <2>3, <2>4 DEF m
<1>5. CASE d # EP0_N - 1
  <2>1. m[1] = d + 1 /\ m[2] = y
    BY <1>5 DEF RingSkip
  <2>2. d \in 0..EP0_N-2
    BY <1>1, <1>5
  <2>3. r[d].cyc = IF d < st.enq THEN st.cycle ELSE Flip(st.cycle)
    BY <1>3, <2>2
  <2>4. y = st.cycle => d < st.enq
    BY <1>2, <2>3
  <2>5. y # st.cycle => ~(d < st.enq)
    BY <2>3
  <2>6. Lag(m[1], m[2], st) = Lag(d, y, st) - 1 /\ Lag(d, y, st) >= 1
    BY <1>1, <1>2, <1>3, <2>1, <2>2, <2>4, <2>5 DEF Lag
  <2>7. Lag(d, y, st) = 1 => d = LastTrb(st)
    BY <1>1, <1>2, <2>2, <2>4, <2>5 DEF Lag, LastTrb
  <2>8. Lag(m[1], m[2], st) \in 0..EP0_N-1
    BY <1>1, <1>3, <2>6
  <2> HIDE DEF m
  <2>9. InRing(m[1], m[2], r, st)
    BY <1>3, <2>1, <2>8 DEF InRing
  <2> QED BY <1>5, <2>6, <2>7, <2>9 DEF m
<1> QED BY <1>4, <1>5

\* The xHC stops only when it has taken all that was pushed.
LEMMA RanDry ==
  ASSUME NEW d \in 0..EP0_N-1, NEW y \in Cycle, NEW r \in Ep0Ring, NEW st \in Producer,
         InRing(d, y, r, st), r[d].cyc # y
  PROVE  Lag(d, y, st) = 0
<1>1. EP0_N \in Nat /\ EP0_N >= 4
  BY SizeAssumption
<1>2. st.enq \in 0..EP0_N-2 /\ st.cycle \in Cycle /\ Flip(st.cycle) # st.cycle
  BY FlipCycle DEF Producer
<1>3. /\ \A i \in 0..EP0_N-2 : r[i].cyc = IF i < st.enq THEN st.cycle ELSE Flip(st.cycle)
      /\ Lag(d, y, st) \in 0..EP0_N-1
      /\ y # st.cycle => r[EP0_N-1].cyc = y
  BY DEF InRing
<1>4. d # EP0_N - 1
  BY <1>1, <1>2, <1>3 DEF Lag
<1>5. d \in 0..EP0_N-2 /\ r[d].cyc = IF d < st.enq THEN st.cycle ELSE Flip(st.cycle)
  BY <1>1, <1>3, <1>4
<1>6. CASE y = st.cycle
  BY <1>1, <1>2, <1>3, <1>5, <1>6 DEF Lag
<1>7. CASE y # st.cycle
  <2>1. y = Flip(st.cycle)
    BY <1>2, <1>7 DEF Flip, Cycle
  <2> QED BY <1>1, <1>2, <1>3, <1>5, <1>7, <2>1 DEF Lag
<1> QED BY <1>6, <1>7

-----------------------------------------------------------------------------
(* A prompt controller finds the keyboard: the steps.                      *)

\* Between two devices only port events are in the queue.
LEMMA BetweenServed ==
  ASSUME EnumInv', HandInv', prompt', ~hung', step' \notin Held, ~waiting'
  PROVE  KeyboardServed'
<1>1. evts' \in Seq(Evt) /\ OneCompletion'
  BY DEF EnumInv, EnumTypeOK
<1>2. \A i \in 1..Len(evts') : evts'[i].kind # "xfer"
  BY DEF HandInv, DeviceInv, NoneLeft
<1>3. \A i \in 1..Len(evts') : evts'[i].kind # "cmd"
  BY <1>1 DEF OneCompletion
<1>4. \A i \in 1..Len(evts') : evts'[i] \in Evt
  BY <1>1
<1>5. \A i \in 1..Len(evts') : evts'[i].kind = "port"
  BY <1>2, <1>3, <1>4 DEF Evt
<1>6. step' # "disable"
  BY DEF Held, Commands
<1> QED BY <1>5, <1>6 DEF KeyboardServed

\* Steps of the loop between devices: a port is passed over only if nothing
\* is plugged in there.
LEMMA FoundLoop ==
  ASSUME EnumInv, EnumInv', HandInv', FoundInv,
         \/ BiosHandoff \/ Scan \/ Ready
         \/ \E ok \in BOOLEAN : XhciReset(ok) \/ StartController(ok) \/ PortReset(ok)
  PROVE  FoundInv'
<1>1. EnumTypeOK /\ DriverPlace
  BY DEF EnumInv
<1>2. /\ UNCHANGED <<dev, prompt, hung, waiting, ep0>>
      /\ step \in Early \cup {"ready"} /\ step' \in Early \cup {"enable", "done"}
      /\ step = "ready" => step' = "done"
      /\ \/ UNCHANGED port
         \/ port \in Ports /\ dev[port] = "none" /\ port' = port + 1
  <2>1. port \notin Ports => port > NPorts
    BY <1>1, SizeAssumption DEF EnumTypeOK, Ports
  <2>2. CASE Scan
    <3>1. step = "scan" /\ UNCHANGED <<dev, prompt, hung, waiting, ep0>>
      BY <2>2 DEF Scan, board, memory, xhc
    <3>2. CASE port > NPorts
      BY <2>2, <3>1, <3>2 DEF Scan, Early
    <3>3. CASE ~(port > NPorts)
      <4>1. port \in Ports
        BY <2>1, <3>3
      <4> QED BY <2>2, <3>1, <3>3, <4>1 DEF Scan, Early
    <3> QED BY <3>2, <3>3
  <2>3. CASE BiosHandoff \/ Ready
    BY <2>3 DEF BiosHandoff, Ready, board, memory, xhc, Early
  <2>4. ASSUME NEW ok \in BOOLEAN, XhciReset(ok) \/ StartController(ok) \/ PortReset(ok)
        PROVE  /\ UNCHANGED <<dev, prompt, hung, waiting, ep0, port>>
               /\ step \in Early /\ step' \in Early \cup {"enable", "done"}
    BY <2>4 DEF XhciReset, StartController, PortReset, board, memory, xhc, Early
  <2>5. "ready" \notin Early
    BY DEF Early
  <2> QED BY <2>2, <2>3, <2>4, <2>5
<1>3. /\ step' \notin Held /\ ~waiting'
      /\ step \in Held \cup {"done"} => step' = "done"
  BY <1>1, <1>2 DEF DriverPlace, Early, Held, Commands, Transfers, Reads, Writes
<1>4. ASSUME prompt, ~hung PROVE NonePassed' /\ FreshRings' /\ KeyboardServed'
  <2>1. NonePassed /\ FreshRings
    BY <1>4 DEF FoundInv
  <2>2. KeyboardServed'
    BY <1>2, <1>3, <1>4, BetweenServed
  <2>3. port \in Nat /\ \A p \in Ports : p \in Nat
    BY <1>1, SizeAssumption DEF EnumTypeOK, Ports
  <2>4. NonePassed'
    BY <1>2, <2>1, <2>3 DEF NonePassed
  <2>5. FreshRings'
    BY <1>2, <1>3, <2>1, <2>3 DEF FreshRings
  <2> QED BY <2>2, <2>4, <2>5
<1> QED BY <1>2, <1>4 DEF FoundInv

\* cmd_push leaves EP0 alone.
LEMMA FoundPushCommand ==
  ASSUME FoundInv, PushCommand
  PROVE  FoundInv'
<1>1. UNCHANGED <<dev, prompt, port, step, slot, ep0s, ep0, buf, evts, ctx, hung>>
  BY DEF PushCommand, board
<1>2. step \in Commands /\ step \notin Transfers /\ step # "desc8" /\ step # "desc18"
  BY DEF PushCommand, Commands, Transfers, Reads, Writes
<1>3. KeyboardServed => KeyboardServed'
  BY <1>1, <1>2 DEF KeyboardServed, Ep0Follows, Succeeded
<1> QED BY <1>1, <1>3 DEF FoundInv, NonePassed, FreshRings, AtKeyboard

\* The end of a wait for a device that is not a keyboard.
LEMMA FoundOtherDevice ==
  ASSUME EnumInv, EnumInv', HandInv', FoundInv, waiting, NEW ok \in BOOLEAN, NEW sl,
         Finish(ok, sl), UNCHANGED <<dev, prompt, ep0, hung>>, dev[port] # "kbd"
  PROVE  FoundInv'
<1>1. EnumTypeOK /\ DriverPlace
  BY DEF EnumInv
<1>2. step \in Commands \cup Transfers
  BY <1>1 DEF DriverPlace
<1>3. \/ NextStep(step, ok) = "next"
      \/ NextStep(step, ok) \in Held
  BY <1>2, NextStepHeld
<1>4. ~waiting' /\ \/ port' = port /\ step' \in Held
                   \/ port' = port + 1 /\ step' = "scan"
  <2>1. "next" \notin Held
    BY DEF Held, Commands, Transfers, Reads, Writes
  <2> QED BY <1>3, <2>1 DEF Finish
<1>5. port \in Nat /\ \A p \in Ports : p \in Nat
  BY <1>1, SizeAssumption DEF EnumTypeOK, Ports
<1>6. ASSUME prompt, ~hung PROVE NonePassed' /\ FreshRings' /\ (AtKeyboard' => KeyboardServed')
  <2>1. NonePassed /\ FreshRings
    BY <1>6 DEF FoundInv
  <2>2. NonePassed'
    <3> SUFFICES ASSUME NEW p \in Ports, p < port' PROVE dev[p] # "kbd"
      BY DEF NonePassed
    <3>1. p < port \/ p = port
      BY <1>4, <1>5
    <3> QED BY <2>1, <3>1 DEF NonePassed
  <2>3. FreshRings'
    <3> SUFFICES ASSUME NEW p \in Ports,
                        p > port' \/ (p = port' /\ step' \notin Held \cup {"done"})
                 PROVE  ep0[p] = EmptyRing(EP0_N)
      BY DEF FreshRings
    <3>1. p > port
      BY <1>4, <1>5
    <3> QED BY <2>1, <3>1 DEF FreshRings
  <2>4. CASE port' = port
    BY <2>2, <2>3, <2>4 DEF AtKeyboard
  <2>5. CASE step' = "scan"
    <3>1. step' \notin Held
      BY <2>5 DEF Held, Commands, Transfers, Reads, Writes
    <3>2. KeyboardServed'
      BY <1>4, <1>6, <3>1, BetweenServed
    <3> QED BY <2>2, <2>3, <3>2
  <2> QED BY <1>4, <2>4, <2>5
<1> QED BY <1>6 DEF FoundInv

\* Port events, the end of the command ring, and a controller that hangs.
LEMMA FoundQuietly ==
  ASSUME EnumInv, FoundInv, XhcPortEvent \/ XhcCommandEnd \/ XhcHang \/ UNCHANGED vars
  PROVE  FoundInv'
<1>1. UNCHANGED <<dev, prompt, port, step, waiting, slot, ep0s, ep0, buf, ctx>>
  BY DEF XhcPortEvent, XhcCommandEnd, XhcHang, vars, board, driver, memory, xhc
<1>2. ~hung' => ~hung
  BY DEF XhcPortEvent, XhcCommandEnd, XhcHang, vars, xhc
<1>3. UNCHANGED evts \/ \E e \in Evt : e.kind = "port" /\ evts' = Append(evts, e)
  <2>1. PICK e : e = Event("port", 0, TRUE, [item |-> "none", port |-> 0])
    OBVIOUS
  <2>2. e \in Evt /\ e.kind = "port"
    BY <2>1 DEF Event, Evt, Items
  <2> QED BY <2>1, <2>2 DEF XhcPortEvent, XhcCommandEnd, XhcHang, vars
<1>4. evts \in Seq(Evt)
  BY DEF EnumInv, EnumTypeOK
<1>5. Succeeded' <=> Succeeded
  BY <1>3, <1>4, CompletionsKept
<1>6. /\ \A i \in 1..Len(evts) : i \in 1..Len(evts') /\ evts'[i] = evts[i]
      /\ \A i \in 1..Len(evts') : i \in 1..Len(evts) \/ evts'[i].kind = "port"
  <2>1. CASE UNCHANGED evts
    BY <2>1
  <2>2. ASSUME NEW e \in Evt, e.kind = "port", evts' = Append(evts, e)
        PROVE  /\ \A i \in 1..Len(evts) : i \in 1..Len(evts') /\ evts'[i] = evts[i]
               /\ \A i \in 1..Len(evts') : i \in 1..Len(evts) \/ evts'[i].kind = "port"
    <3>1. /\ Len(evts) \in Nat /\ Len(evts') = Len(evts) + 1
          /\ \A i \in 1..Len(evts) : evts'[i] = evts[i]
          /\ evts'[Len(evts) + 1] = e
      BY <1>4, <2>2, AppendEvent
    <3>2. \A i \in 1..Len(evts') : i \in 1..Len(evts) \/ i = Len(evts) + 1
      BY <3>1
    <3>3. \A i \in 1..Len(evts) : i \in 1..Len(evts')
      BY <3>1
    <3> QED BY <2>2, <3>1, <3>2, <3>3
  <2> QED BY <1>3, <2>1, <2>2
<1>7. Ep0Follows => Ep0Follows'
  BY <1>1, <1>5, <1>6 DEF Ep0Follows
<1>8. KeyboardServed => KeyboardServed'
  BY <1>1, <1>6, <1>7 DEF KeyboardServed
<1> QED BY <1>1, <1>2, <1>8 DEF FoundInv, NonePassed, FreshRings, AtKeyboard

\* A keyboard's commands succeed: its slot is in the state they ask for.  An
\* Address Device sets the xHC back to the start of the EP0 ring.
LEMMA FoundCommand ==
  ASSUME MaxSlots >= 1, EnumInv, HandInv, FoundInv, XhcCommand
  PROVE  FoundInv'
<1>1. /\ waiting /\ step \in Commands /\ ~hung /\ UNCHANGED <<board, driver, memory, hung>>
      /\ \A i \in 1..Len(evts) : evts[i].kind # "cmd"
      /\ step # "enable" => slot \in Slots
  BY CommandEffect
<1>2. PICK e \in Evt :
        /\ e.kind = "cmd" /\ evts' = Append(evts, e)
        /\ \/ /\ step = "enable" /\ e.ok /\ e.slot \in Slots
              /\ ctx' = [ctx EXCEPT ![e.slot] = [NoCtx EXCEPT !.st = "enabled", !.port = port]]
           \/ step = "enable" /\ ~e.ok /\ UNCHANGED ctx /\ Slots = Used
           \/ step # "enable" /\ e.ok /\ ctx' = [ctx EXCEPT ![slot] = Executed(ctx[slot])]
           \/ /\ step # "enable" /\ ~e.ok /\ UNCHANGED ctx
              /\ ctx[slot].st \notin LegalIn[step] \/ dev[port] = "flaky"
  BY CommandEffect
<1>3. EnumTypeOK /\ SlotsByStep
  BY DEF EnumInv
<1>4. UNCHANGED <<dev, prompt, port, step, waiting, slot, ep0s, ep0, buf, hung>>
  BY <1>1 DEF board, driver, memory
<1>5. /\ Len(evts) \in Nat /\ Len(evts') = Len(evts) + 1
      /\ \A i \in 1..Len(evts) : evts'[i] = evts[i]
      /\ evts'[Len(evts) + 1] = e
  BY <1>2, <1>3, AppendEvent DEF EnumTypeOK
<1>6. \A i \in 1..Len(evts') : i \in 1..Len(evts) \/ i = Len(evts) + 1
  BY <1>5
<1>7. ASSUME prompt, AtKeyboard PROVE KeyboardServed'
  <2>1. KeyboardServed /\ DeviceState
    BY <1>1, <1>7 DEF FoundInv, HandInv, DeviceInv
  <2>2. step # "disable" /\ dev[port] # "flaky"
    BY <1>7, <2>1 DEF KeyboardServed, AtKeyboard
  <2>3. ~Succeeded /\ ~Answered
    BY <1>1 DEF Succeeded, Answered
  <2>4. e.ok
    <3>1. CASE step = "enable"
      <4>1. Used = {}
        BY <1>1, <1>3, <2>3, <3>1 DEF SlotsByStep
      <4>2. 1 \in Slots
        BY SizeAssumption DEF Slots
      <4> QED BY <1>2, <3>1, <4>1, <4>2
    <3>2. CASE step # "enable"
      <4>1. step \in Held \ {"disable"}
        BY <1>1, <2>2, <3>2 DEF Held
      <4>2. ctx[slot].st = StateAt(step)
        BY <2>1, <2>3, <4>1 DEF DeviceState
      <4>3. step \in {"addr1", "eval", "addr0", "cfgep"}
        BY <1>1, <2>2, <3>2 DEF Commands
      <4>4. StateAt(step) \in LegalIn[step]
        BY <4>3 DEF StateAt, LegalIn
      <4> QED BY <1>2, <2>2, <3>2, <4>2, <4>4
    <3> QED BY <3>1, <3>2
  <2>5. \A i \in 1..Len(evts') : evts'[i].kind # "port" => evts'[i].ok
    BY <1>5, <1>6, <2>1, <2>4 DEF KeyboardServed
  <2>6. Succeeded'
    <3>1. Len(evts) + 1 \in 1..Len(evts')
      BY <1>5
    <3> QED BY <1>2, <1>5, <2>4, <3>1 DEF Succeeded
  <2>7. ASSUME step \in Held PROVE Ep0Follows'
    <3>1. Ep0Follows /\ step \in {"addr1", "eval", "addr0", "cfgep"} /\ step \notin Transfers
      BY <1>1, <2>1, <2>2, <2>7 DEF KeyboardServed, Held, Commands, Transfers, Reads, Writes
    <3>2. slot \in Slots /\ ctx[slot] \in Context /\ ctx'[slot] = Executed(ctx[slot])
      BY <1>1, <1>2, <1>3, <2>4, <3>1 DEF EnumTypeOK
    <3>3. /\ InRing(ctx[slot].deq, ctx[slot].cycle, ep0[port], ep0s) /\ ctx[slot].run # "halted"
          /\ Lag(ctx[slot].deq, ctx[slot].cycle, ep0s) = 0
          /\ step = "addr1" => ep0s = [enq |-> 0, cycle |-> 1]
          /\ step \in {"eval", "addr0"} => ep0s = [enq |-> 3, cycle |-> 1]
      BY <2>3, <3>1 DEF Ep0Follows
    <3>4. EP0_N \in Nat /\ EP0_N >= 4
      BY SizeAssumption
    <3>5. CASE step \in {"eval", "cfgep"}
      <4>1. ctx'[slot].deq = ctx[slot].deq /\ ctx'[slot].cycle = ctx[slot].cycle
            /\ ctx'[slot].run = ctx[slot].run
        BY <3>2, <3>5 DEF Executed, Context
      <4> QED BY <1>4, <3>1, <3>3, <3>5, <4>1 DEF Ep0Follows
    <3>6. CASE step \in {"addr1", "addr0"}
      <4>1. ctx'[slot].deq = 0 /\ ctx'[slot].cycle = 1 /\ ctx'[slot].run = ctx[slot].run
        BY <3>2, <3>6 DEF Executed, After1, After0, Context
      <4>2. ep0s.cycle = 1 /\ ep0s.enq = IF step = "addr0" THEN 3 ELSE 0
        BY <3>3, <3>6
      <4>3. Lag(0, 1, ep0s) = IF step = "addr0" THEN 3 ELSE 0
        BY <4>2 DEF Lag
      <4>4. InRing(0, 1, ep0[port], ep0s)
        BY <3>3, <3>4, <4>2, <4>3 DEF InRing
      <4> QED BY <1>4, <2>6, <3>1, <3>3, <3>6, <4>1, <4>3, <4>4 DEF Ep0Follows
    <3> QED BY <3>1, <3>5, <3>6
  <2> QED BY <1>4, <2>2, <2>5, <2>7 DEF KeyboardServed
<1> QED BY <1>1, <1>4, <1>7 DEF FoundInv, NonePassed, FreshRings, AtKeyboard

\* EP0 takes a TRB of the keyboard's ring, or finds none.  When it has taken
\* the last, the answer is posted and the data in the buffer.
LEMMA FoundTransfer ==
  ASSUME EnumInv, HandInv, FoundInv, BufType, NEW s \in Slots, XhcTransfer(s)
  PROVE  FoundInv'
<1>1. /\ ~hung /\ ctx[s].run = "active" /\ UNCHANGED <<board, driver, cmd, ep0, xcmd, hung>>
  BY TransferFrame
<1>2. UNCHANGED evts \/ \E e \in Evt : e.kind = "xfer" /\ e.slot = s /\ evts' = Append(evts, e)
  BY TransferFrame
<1>3. UNCHANGED <<dev, prompt, port, step, waiting, slot, ep0s, ep0, hung>>
  BY <1>1 DEF board, driver
<1>4. EnumTypeOK /\ SlotsByStep
  BY DEF EnumInv
<1>5. ASSUME prompt, AtKeyboard PROVE KeyboardServed'
  <2>1. KeyboardServed /\ Ep0Quiet /\ DeviceState /\ port \in Ports /\ dev[port] = "kbd"
    BY <1>1, <1>5 DEF FoundInv, HandInv, DeviceInv, AtKeyboard
  <2>2. s = slot /\ waiting /\ step \in Transfers
    BY <1>1, <2>1 DEF Ep0Quiet
  <2>3. step \in Held /\ step \notin Commands /\ step # "addr1" /\ step # "addr0" /\ step # "eval"
    BY <2>2 DEF Transfers, Reads, Writes, Held, Commands
  <2>4. slot \in Used
    BY <1>1, <1>4, <2>3 DEF SlotsByStep, Commands
  <2> DEFINE c == ctx[slot]
             r == ep0[port]
             t == r[c.deq]
             m == RingSkip(c.deq, c.cycle, EP0_N)
  <2>5. c \in Context /\ c.port = port /\ ctx \in [Slots -> Context]
    BY <1>4, <2>1, <2>2, <2>4 DEF EnumTypeOK, DeviceState
  <2>6. /\ c.deq \in 0..EP0_N-1 /\ c.cycle \in Cycle
        /\ r \in Ep0Ring /\ ep0s \in Producer /\ EP0_N \in Nat /\ EP0_N >= 4
    BY <1>4, <2>1, <2>5, SizeAssumption DEF Context, EnumTypeOK, Ep0Ring, Producer
  <2>7. \/ /\ t.cyc # c.cycle
           /\ ctx' = [ctx EXCEPT ![slot].run = "idle"] /\ UNCHANGED <<evts, buf>>
        \/ /\ t.cyc = c.cycle
           /\ ctx' = [ctx EXCEPT ![slot].deq = m[1], ![slot].cycle = m[2]]
           /\ IF t.item \in Transfers
                THEN /\ evts' = Append(evts, Event("xfer", slot, TRUE, t))
                     /\ buf' = IF t.item \in Reads THEN [buf EXCEPT ![port] = t.item] ELSE buf
                ELSE UNCHANGED <<evts, buf>>
    BY <2>1, <2>2, <2>5 DEF XhcTransfer
  <2>8. /\ InRing(c.deq, c.cycle, r, ep0s) /\ r[LastTrb(ep0s)].item = step
        /\ Lag(c.deq, c.cycle, ep0s) = 0 =>
             /\ \E i \in 1..Len(evts) : evts[i].kind = "xfer" /\ evts[i].slot = slot
             /\ step \in Reads => buf[port] = step
        /\ step = "desc8" => ep0s = [enq |-> 3, cycle |-> 1]
    BY <2>1, <2>2, <2>3 DEF KeyboardServed, Ep0Follows
  <2>9. c.run = "active"
    BY <1>1, <2>2
  <2> HIDE DEF r, t, m
  <2>10. CASE /\ t.cyc # c.cycle
              /\ ctx' = [ctx EXCEPT ![slot].run = "idle"] /\ UNCHANGED <<evts, buf>>
    <3>1. Lag(c.deq, c.cycle, ep0s) = 0
      BY <2>6, <2>8, <2>10, RanDry DEF t
    <3>2. ctx'[slot].deq = c.deq /\ ctx'[slot].cycle = c.cycle /\ ctx'[slot].run = "idle"
      BY <2>2, <2>5, <2>10 DEF Context
    <3> HIDE DEF c
    <3>3. Ep0Follows'
      BY <1>3, <2>2, <2>3, <2>8, <2>10, <3>1, <3>2 DEF Ep0Follows, r
    <3> QED BY <1>3, <2>1, <2>10, <3>3 DEF KeyboardServed
  <2>11. CASE /\ t.cyc = c.cycle
              /\ ctx' = [ctx EXCEPT ![slot].deq = m[1], ![slot].cycle = m[2]]
              /\ IF t.item \in Transfers
                   THEN /\ evts' = Append(evts, Event("xfer", slot, TRUE, t))
                        /\ buf' = IF t.item \in Reads THEN [buf EXCEPT ![port] = t.item] ELSE buf
                   ELSE UNCHANGED <<evts, buf>>
    <3>1. /\ InRing(m[1], m[2], r, ep0s)
          /\ c.deq = EP0_N - 1 =>
               Lag(m[1], m[2], ep0s) = Lag(c.deq, c.cycle, ep0s) /\ t.item = "none"
          /\ c.deq # EP0_N - 1 =>
               /\ Lag(m[1], m[2], ep0s) = Lag(c.deq, c.cycle, ep0s) - 1
               /\ Lag(c.deq, c.cycle, ep0s) = 1 => c.deq = LastTrb(ep0s)
      BY <2>6, <2>8, <2>11, TakeOne DEF t, m
    <3>2. ctx'[slot].deq = m[1] /\ ctx'[slot].cycle = m[2] /\ ctx'[slot].run = "active"
      BY <2>2, <2>5, <2>9, <2>11 DEF Context
    <3>3. Lag(c.deq, c.cycle, ep0s) \in Nat
      BY <2>6, <2>8 DEF InRing
    <3> HIDE DEF c
    <3>4. /\ \A i \in 1..Len(evts') : evts'[i].kind # "port" => evts'[i].ok
          /\ \A i \in 1..Len(evts) : i \in 1..Len(evts') /\ evts'[i] = evts[i]
          /\ t.item \in Transfers =>
               \E i \in 1..Len(evts') : evts'[i].kind = "xfer" /\ evts'[i].slot = slot
      <4>1. CASE t.item \notin Transfers
        BY <2>1, <2>11, <4>1 DEF KeyboardServed
      <4>2. CASE t.item \in Transfers
        <5>1. PICK e : e = Event("xfer", slot, TRUE, t)
          OBVIOUS
        <5>2. e.kind = "xfer" /\ e.slot = slot /\ e.ok /\ evts' = Append(evts, e)
          BY <2>11, <4>2, <5>1 DEF Event
        <5>3. e \in Evt
          <6>1. slot \in Nat
            BY <1>4 DEF EnumTypeOK
          <6>2. t \in Cell
            BY <2>6 DEF t, c, Ep0Ring
          <6> QED BY <5>1, <6>1, <6>2 DEF Event, Evt, Cell
        <5>4. /\ Len(evts) \in Nat /\ Len(evts') = Len(evts) + 1
              /\ \A i \in 1..Len(evts) : evts'[i] = evts[i]
              /\ evts'[Len(evts) + 1] = e
          BY <1>4, <5>2, <5>3, AppendEvent DEF EnumTypeOK
        <5>5. \A i \in 1..Len(evts') : i \in 1..Len(evts) \/ i = Len(evts) + 1
          BY <5>4
        <5>6. Len(evts) + 1 \in 1..Len(evts') /\ \A i \in 1..Len(evts) : i \in 1..Len(evts')
          BY <5>4
        <5> QED BY <2>1, <5>2, <5>4, <5>5, <5>6 DEF KeyboardServed
      <4> QED BY <4>1, <4>2
    <3>5. ASSUME Lag(m[1], m[2], ep0s) = 0
          PROVE  /\ \E i \in 1..Len(evts') : evts'[i].kind = "xfer" /\ evts'[i].slot = slot
                 /\ step \in Reads => buf'[port] = step
      <4>1. CASE c.deq = EP0_N - 1
        <5>1. t.item \notin Transfers
          BY <3>1, <4>1 DEF Transfers, Reads, Writes
        <5> QED BY <2>8, <2>11, <3>1, <3>5, <4>1, <5>1
      <4>2. CASE c.deq # EP0_N - 1
        <5>1. Lag(c.deq, c.cycle, ep0s) = 1
          BY <3>1, <3>3, <3>5, <4>2
        <5>2. t.item = step
          BY <2>8, <3>1, <4>2, <5>1 DEF t
        <5>3. step \in Reads => buf' = [buf EXCEPT ![port] = step]
          BY <2>2, <2>11, <5>2
        <5> QED BY <2>1, <2>2, <3>4, <5>2, <5>3 DEF BufType
      <4> QED BY <4>1, <4>2
    <3>6. Ep0Follows'
      BY <1>3, <2>2, <2>3, <2>8, <3>1, <3>2, <3>5 DEF Ep0Follows, r
    <3> QED BY <1>3, <2>1, <3>4, <3>6 DEF KeyboardServed
  <2> QED BY <2>7, <2>10, <2>11
<1> QED BY <1>1, <1>3, <1>5 DEF FoundInv, NonePassed, FreshRings, AtKeyboard

\* ep0_push on the keyboard's ring.
LEMMA Ep0PushOne ==
  ASSUME EnumTypeOK, NEW it \in Items, NEW q \in [ring : Ep0Ring, st : Producer],
         NEW d \in 0..EP0_N-1, NEW y \in Cycle, InRing(d, y, q.ring, q.st),
         Lag(d, y, q.st) + 1 <= EP0_N - 1,
         d # EP0_N - 1 \/ Lag(d, y, q.st) + 1 <= EP0_N - 2
  PROVE  LET p == ep0_push(q, it)
         IN  /\ p \in [ring : Ep0Ring, st : Producer] /\ p.st = RingNext(q.st, EP0_N)
             /\ InRing(d, y, p.ring, p.st) /\ Lag(d, y, p.st) = Lag(d, y, q.st) + 1
             /\ p.ring[LastTrb(p.st)].item = it
<1> DEFINE r1  == RingPush(q.ring, EP0_N, q.st.enq, q.st.cycle, Trb(it))
           st1 == RingNext(q.st, EP0_N)
<1>1. Trb(it) \in Cell /\ Trb(it).item = it
  BY TrbType DEF Trb
<1>2. q.ring \in Ep0Ring /\ q.st \in Producer
  OBVIOUS
<1>3. /\ r1 \in Ep0Ring /\ st1 \in Producer
      /\ InRing(d, y, r1, st1) /\ Lag(d, y, st1) = Lag(d, y, q.st) + 1
      /\ r1[LastTrb(st1)].item = it
  BY <1>1, <1>2, PushOne
<1>4. ep0_push(q, it) = [ring |-> r1, st |-> st1]
  BY DEF ep0_push
<1> HIDE DEF r1
<1>5. [ring |-> r1, st |-> st1].ring = r1 /\ [ring |-> r1, st |-> st1].st = st1
  OBVIOUS
<1> HIDE DEF st1
<1> QED BY <1>3, <1>4, <1>5 DEF st1

\* The stages of a control transfer: the xHC may have the descriptor read of
\* before the second Address Device to repeat first.
LEMMA StagesPushed ==
  ASSUME EP0_N >= 7, EnumTypeOK, NEW s \in Transfers, NEW q \in [ring : Ep0Ring, st : Producer],
         NEW d \in 0..EP0_N-1, NEW y \in Cycle, InRing(d, y, q.ring, q.st),
         Lag(d, y, q.st) = 0 \/ (Lag(d, y, q.st) = 3 /\ d = 0)
  PROVE  LET p == Stages(s, q)
         IN  /\ p \in [ring : Ep0Ring, st : Producer]
             /\ InRing(d, y, p.ring, p.st) /\ Lag(d, y, p.st) # 0
             /\ p.ring[LastTrb(p.st)].item = s
             /\ s \in Reads /\ q.st = [enq |-> 0, cycle |-> 1] => p.st = [enq |-> 3, cycle |-> 1]
<1> DEFINE Q  == [ring : Ep0Ring, st : Producer]
           q1 == ep0_push(q, "setup")
           q2 == ep0_push(q1, "data")
           q3 == ep0_push(q2, s)
           w2 == ep0_push(q1, s)
<1>1. EP0_N \in Nat /\ Lag(d, y, q.st) \in Nat /\ d \in Nat
  BY SizeAssumption
<1>2. "setup" \in Items /\ "data" \in Items /\ s \in Items
  BY DEF Items
<1>3. \A u \in Q, it \in Items :
        InRing(d, y, u.ring, u.st) /\ Lag(d, y, u.st) + 1 <= EP0_N - 1
          /\ (d # EP0_N - 1 \/ Lag(d, y, u.st) + 1 <= EP0_N - 2)
        => LET p == ep0_push(u, it)
           IN  /\ p \in Q /\ p.st = RingNext(u.st, EP0_N)
               /\ InRing(d, y, p.ring, p.st) /\ Lag(d, y, p.st) = Lag(d, y, u.st) + 1
               /\ p.ring[LastTrb(p.st)].item = it
  BY Ep0PushOne
<1>4. q \in Q
  OBVIOUS
<1> HIDE DEF Q
<1>5. /\ q1 \in Q /\ q1.st = RingNext(q.st, EP0_N) /\ InRing(d, y, q1.ring, q1.st)
      /\ Lag(d, y, q1.st) = Lag(d, y, q.st) + 1
  BY <1>1, <1>2, <1>3, <1>4
<1> HIDE DEF q1
<1>6. /\ q2 \in Q /\ q2.st = RingNext(q1.st, EP0_N) /\ InRing(d, y, q2.ring, q2.st)
      /\ Lag(d, y, q2.st) = Lag(d, y, q.st) + 2
  <2>1. /\ Lag(d, y, q1.st) + 1 <= EP0_N - 1
        /\ d # EP0_N - 1 \/ Lag(d, y, q1.st) + 1 <= EP0_N - 2
    BY <1>1, <1>5
  <2> QED BY <1>1, <1>2, <1>3, <1>5, <2>1
<1>7. /\ w2 \in Q /\ InRing(d, y, w2.ring, w2.st)
      /\ Lag(d, y, w2.st) = Lag(d, y, q.st) + 2 /\ w2.ring[LastTrb(w2.st)].item = s
  <2>1. /\ Lag(d, y, q1.st) + 1 <= EP0_N - 1
        /\ d # EP0_N - 1 \/ Lag(d, y, q1.st) + 1 <= EP0_N - 2
    BY <1>1, <1>5
  <2> QED BY <1>1, <1>2, <1>3, <1>5, <2>1
<1> HIDE DEF q2, w2
<1>8. /\ q3 \in Q /\ q3.st = RingNext(q2.st, EP0_N) /\ InRing(d, y, q3.ring, q3.st)
      /\ Lag(d, y, q3.st) = Lag(d, y, q.st) + 3 /\ q3.ring[LastTrb(q3.st)].item = s
  <2>1. /\ Lag(d, y, q2.st) + 1 <= EP0_N - 1
        /\ d # EP0_N - 1 \/ Lag(d, y, q2.st) + 1 <= EP0_N - 2
    BY <1>1, <1>6
  <2> QED BY <1>1, <1>2, <1>3, <1>6, <2>1
<1> HIDE DEF q3
<1>9. q.st = [enq |-> 0, cycle |-> 1] => q3.st = [enq |-> 3, cycle |-> 1]
  BY <1>1, <1>5, <1>6, <1>8 DEF RingNext
<1>10. CASE s \in Reads
  <2>1. Stages(s, q) = q3
    BY <1>10 DEF Stages, q1, q2, q3
  <2> QED BY <1>1, <1>8, <1>9, <2>1 DEF Q
<1>11. CASE s \notin Reads
  <2>1. Stages(s, q) = w2
    BY <1>11 DEF Stages, q1, w2
  <2> QED BY <1>1, <1>7, <1>11, <2>1 DEF Q
<1> QED BY <1>10, <1>11

\* ctrl_in and ctrl_out for the keyboard: its EP0 is idle, not halted, and
\* starts.
LEMMA FoundPushTransfer ==
  ASSUME EP0_N >= 7, EnumInv, HandInv, FoundInv, PushTransfer
  PROVE  FoundInv'
<1> DEFINE q0 == [ring |-> ep0[port], st |-> ep0s]
           q  == Stages(step, q0)
<1>1. EnumTypeOK /\ SlotsByStep
  BY DEF EnumInv
<1>2. /\ ~waiting /\ waiting' /\ step \in Transfers
      /\ UNCHANGED <<dev, prompt, port, step, slot, buf, evts, hung>>
      /\ ep0' = [ep0 EXCEPT ![port] = q.ring] /\ ep0s' = q.st
      /\ ctx' = [ctx EXCEPT ![slot].run = IF @ = "idle" THEN "active" ELSE @]
  BY DEF PushTransfer, board
<1>3. /\ step \in Held /\ step \notin {"addr1", "eval", "addr0"}
      /\ step = "desc8" \/ step = "desc18" => step \in Reads
  BY <1>2 DEF Held, Transfers, Reads, Writes
<1> HIDE DEF q
<1>4. ASSUME prompt, ~hung PROVE FreshRings'
  <2>1. FreshRings
    BY <1>4 DEF FoundInv
  <2>2. port \in Nat /\ \A p \in Ports : p \in Nat
    BY <1>1, SizeAssumption DEF EnumTypeOK, Ports
  <2>3. \A p \in Ports : p > port => ep0'[p] = ep0[p]
    BY <1>1, <1>2, <2>2 DEF EnumTypeOK
  <2> QED BY <1>2, <1>3, <2>1, <2>3 DEF FreshRings
<1>5. ASSUME prompt, ~hung, AtKeyboard PROVE KeyboardServed'
  <2>1. KeyboardServed /\ Ep0Follows /\ Ep0Quiet /\ port \in Ports
    BY <1>3, <1>5 DEF FoundInv, HandInv, DeviceInv, AtKeyboard, KeyboardServed
  <2> DEFINE c == ctx[slot]
  <2>2. slot \in Slots /\ c \in Context /\ ctx \in [Slots -> Context]
    BY <1>1, <1>3, <1>5 DEF SlotsByStep, EnumTypeOK
  <2>3. c.deq \in 0..EP0_N-1 /\ c.cycle \in Cycle /\ c.run \in {"idle", "active", "halted"}
    BY <2>2 DEF Context
  <2>4. c.run = "idle" /\ InRing(c.deq, c.cycle, ep0[port], ep0s)
    BY <1>2, <2>1, <2>2, <2>3 DEF Ep0Follows, Ep0Quiet
  <2>5. /\ step # "desc18" => Lag(c.deq, c.cycle, ep0s) = 0
        /\ step = "desc18" => c.deq = 0 /\ c.cycle = 1 /\ ep0s = [enq |-> 3, cycle |-> 1]
        /\ step = "desc8" => ep0s = [enq |-> 0, cycle |-> 1]
    BY <1>2, <1>3, <2>1 DEF Ep0Follows
  <2>6. Lag(c.deq, c.cycle, ep0s) = 0 \/ (Lag(c.deq, c.cycle, ep0s) = 3 /\ c.deq = 0)
    BY <2>5 DEF Lag
  <2>7. q0 \in [ring : Ep0Ring, st : Producer] /\ q0.ring = ep0[port] /\ q0.st = ep0s
    BY <1>1, <2>1 DEF EnumTypeOK, Ep0Ring, Producer
  <2> HIDE DEF q0, c
  <2>8. /\ q \in [ring : Ep0Ring, st : Producer]
        /\ InRing(c.deq, c.cycle, q.ring, q.st) /\ Lag(c.deq, c.cycle, q.st) # 0
        /\ q.ring[LastTrb(q.st)].item = step
        /\ step \in Reads /\ ep0s = [enq |-> 0, cycle |-> 1] => q.st = [enq |-> 3, cycle |-> 1]
    BY <1>1, <1>2, <2>3, <2>4, <2>6, <2>7, StagesPushed DEF q
  <2>9. ctx'[slot].deq = c.deq /\ ctx'[slot].cycle = c.cycle /\ ctx'[slot].run = "active"
    BY <1>2, <2>2, <2>4 DEF c, Context
  <2>10. ep0'[port] = q.ring
    BY <1>1, <1>2, <2>1 DEF EnumTypeOK
  <2>11. Ep0Follows'
    BY <1>2, <1>3, <2>5, <2>8, <2>9, <2>10 DEF Ep0Follows
  <2> QED BY <1>2, <2>1, <2>11 DEF KeyboardServed
<1> QED BY <1>2, <1>4, <1>5 DEF FoundInv, NonePassed, AtKeyboard

\* While the driver waits for the keyboard and its EP0 has stopped, the answer
\* is in the queue and the data in the buffer.
LEMMA AnswerIsThere ==
  ASSUME EnumInv, HandInv, FoundInv, prompt, ~hung, AtKeyboard, waiting, step \in Transfers,
         ctx[slot].run # "active"
  PROVE  /\ Lag(ctx[slot].deq, ctx[slot].cycle, ep0s) = 0
         /\ \E i \in 1..Len(evts) : evts[i].kind = "xfer" /\ evts[i].slot = slot
         /\ step \in Reads => buf[port] = step
<1>1. step \in Held
  BY DEF Held
<1>2. Ep0Follows
  BY <1>1 DEF FoundInv, KeyboardServed
<1>3. ctx[slot] \in Context
  BY <1>1 DEF EnumInv, SlotsByStep, EnumTypeOK
<1>4. ctx[slot].run = "idle"
  BY <1>2, <1>3 DEF Ep0Follows, Context
<1> QED BY <1>2, <1>4 DEF Ep0Follows

\* The answer of the keyboard leads to the next step of its enumeration.
LEMMA FoundAnswer ==
  ASSUME EnumInv, EnumInv', HandInv, FoundInv, prompt, ~hung, AtKeyboard, waiting,
         \A s \in Slots : ctx[s].run # "active", evts # <<>>, Matches(Head(evts)),
         evts' = Tail(evts), Finish(Head(evts).ok, Head(evts).slot),
         UNCHANGED <<dev, prompt, ep0, buf, ctx, hung>>
  PROVE  FoundInv'
<1>1. EnumTypeOK /\ DriverPlace /\ OneCompletion /\ OneCompletion' /\ SlotsByStep
  BY DEF EnumInv
<1>2. /\ Len(evts) \in Nat \ {0} /\ Len(evts') = Len(evts) - 1
      /\ \A i \in 1..Len(evts') : i + 1 \in 1..Len(evts) /\ evts'[i] = evts[i+1]
      /\ Head(evts) = evts[1] /\ evts[1] \in Evt /\ 1 \in 1..Len(evts)
  BY <1>1, TailEvent DEF EnumTypeOK
<1>3. KeyboardServed /\ NonePassed /\ FreshRings /\ DeviceState /\ port \in Ports /\ dev[port] = "kbd"
  BY DEF FoundInv, HandInv, DeviceInv, AtKeyboard
<1>4. /\ step \in Commands \cup Transfers /\ step # "disable" /\ Commands \cap Transfers = {}
      /\ step # "enable" => step \in Held
  BY <1>1, <1>3 DEF DriverPlace, KeyboardServed, Commands, Transfers, Reads, Writes, Held
<1>5. evts[1].kind # "port" /\ (step \in Commands => evts[1].kind = "cmd")
  BY <1>2 DEF Matches
<1>6. evts[1].ok = TRUE
  BY <1>2, <1>3, <1>5 DEF KeyboardServed, Evt
<1>7. step \in Transfers => /\ Lag(ctx[slot].deq, ctx[slot].cycle, ep0s) = 0
                            /\ step \in Reads => buf[port] = step
  <2> SUFFICES ASSUME step \in Transfers
               PROVE  /\ Lag(ctx[slot].deq, ctx[slot].cycle, ep0s) = 0
                      /\ step \in Reads => buf[port] = step
    OBVIOUS
  <2>1. ctx[slot].run # "active"
    <3>1. step \in Held
      BY DEF Held
    <3> QED BY <1>1, <3>1 DEF SlotsByStep
  <2> QED BY <2>1, AnswerIsThere
<1>8. NextStep(step, TRUE) = After(step)
  <2>1. CASE step = "cfg"
    <3>1. find_hid_kbd_ep
      BY <1>3, <1>7, <2>1 DEF find_hid_kbd_ep, Transfers, Reads
    <3>2. TRUE \in BOOLEAN
      OBVIOUS
    <3> QED BY <1>4, <2>1, <3>1, <3>2, NextStepIs
  <2>2. CASE step # "cfg"
    BY <1>4, <2>2, NextStepIs
  <2> QED BY <2>1, <2>2
<1>9. After(step) \in Held \ {"disable"}
  BY <1>4, AfterHeld
<1>10. "next" \notin Held
  BY DEF Held, Commands, Transfers, Reads, Writes
<1>11. /\ ~waiting' /\ step' = After(step) /\ port' = port
       /\ step = "enable" => slot' = evts[1].slot /\ ep0s' = [enq |-> 0, cycle |-> 1]
       /\ step # "enable" => UNCHANGED <<slot, ep0s>>
  BY <1>2, <1>6, <1>8, <1>9, <1>10 DEF Finish
<1>12. ~Succeeded'
  BY <1>1, <1>11 DEF OneCompletion, Succeeded
<1>13. \A i \in 1..Len(evts') : evts'[i].kind # "port" => evts'[i].ok
  BY <1>2, <1>3 DEF KeyboardServed
<1>14. Ep0Follows'
  <2>1. CASE step = "enable"
    <3>1. step' = "addr1"
      BY <1>11, <2>1, AfterIs
    <3>2. evts[1].slot \in Used
      BY <1>1, <1>2, <1>5, <1>6, <2>1 DEF SlotsByStep, Commands
    <3>3. ctx[slot'] = [NoCtx EXCEPT !.st = "enabled", !.port = port]
      BY <1>3, <1>11, <2>1, <3>2 DEF DeviceState
    <3>4. ctx[slot'].deq = 0 /\ ctx[slot'].cycle = 1 /\ ctx[slot'].run = "idle"
      BY <3>3 DEF NoCtx
    <3>5. ep0[port] = EmptyRing(EP0_N)
      <4>1. step \notin Held \cup {"done"}
        BY <2>1 DEF Held, Commands, Transfers, Reads, Writes
      <4> QED BY <1>3, <4>1 DEF FreshRings
    <3>6. ep0s'.enq = 0 /\ ep0s'.cycle = 1
      BY <1>11, <2>1
    <3>7. Lag(0, 1, ep0s') = 0
      BY <3>6 DEF Lag
    <3>8. InRing(0, 1, ep0[port], ep0s')
      <4>1. EP0_N \in Nat /\ EP0_N >= 4
        BY SizeAssumption
      <4>2. \A i \in 0..EP0_N-2 : EmptyRing(EP0_N)[i].cyc = 0
        BY <4>1, EmptyRingType
      <4>3. EmptyRing(EP0_N)[EP0_N-1].item = "none"
        BY <4>1 DEF EmptyRing
      <4> QED BY <3>5, <3>6, <3>7, <4>1, <4>2, <4>3 DEF InRing, Flip
    <3> QED BY <1>11, <2>1, <3>1, <3>4, <3>7, <3>8 DEF Ep0Follows
  <2>2. CASE step \in Transfers
    <3>1. Ep0Follows /\ step \in Held
      BY <1>3, <2>2 DEF KeyboardServed, Held
    <3>2. step # "enable" /\ step' # "desc18" /\ step' # "addr1" /\ step' # "desc8"
          /\ step' # "addr0" /\ (step' = "eval" => step = "desc8")
      BY <1>11, <2>2, AfterIs DEF Transfers, Reads, Writes
    <3>3. /\ InRing(ctx[slot].deq, ctx[slot].cycle, ep0[port], ep0s) /\ ctx[slot].run # "halted"
          /\ step = "desc8" => ep0s = [enq |-> 3, cycle |-> 1]
      BY <3>1 DEF Ep0Follows
    <3> QED BY <1>7, <1>11, <1>12, <2>2, <3>2, <3>3 DEF Ep0Follows
  <2>3. CASE step \in Commands \ {"enable"}
    <3>1. Ep0Follows /\ step \in {"addr1", "eval", "addr0", "cfgep"} /\ step \notin Transfers
      BY <1>3, <1>4, <2>3 DEF KeyboardServed, Held, Commands
    <3>2. Succeeded
      BY <1>2, <1>5, <1>6, <2>3 DEF Succeeded
    <3>3. /\ InRing(ctx[slot].deq, ctx[slot].cycle, ep0[port], ep0s) /\ ctx[slot].run # "halted"
          /\ step = "addr0" => ctx[slot].deq = 0 /\ ctx[slot].cycle = 1
          /\ step # "addr0" => Lag(ctx[slot].deq, ctx[slot].cycle, ep0s) = 0
          /\ step = "addr1" => ep0s = [enq |-> 0, cycle |-> 1]
          /\ step \in {"eval", "addr0"} => ep0s = [enq |-> 3, cycle |-> 1]
      BY <3>1, <3>2 DEF Ep0Follows
    <3>4. /\ step = "addr1" => step' = "desc8"
          /\ step = "eval" => step' = "addr0"
          /\ step = "addr0" => step' = "desc18"
          /\ step = "cfgep" => step' = "ready"
      BY <1>11, AfterIs
    <3>5. UNCHANGED <<slot, ep0s, ep0, port, ctx>>
      BY <1>11, <2>3
    <3>6. CASE step = "addr1"
      BY <1>11, <1>12, <3>3, <3>4, <3>5, <3>6 DEF Ep0Follows
    <3>7. CASE step = "eval"
      BY <1>11, <1>12, <3>3, <3>4, <3>5, <3>7 DEF Ep0Follows
    <3>8. CASE step = "addr0"
      BY <1>11, <1>12, <3>3, <3>4, <3>5, <3>8 DEF Ep0Follows
    <3>9. CASE step = "cfgep"
      BY <1>11, <1>12, <3>3, <3>4, <3>5, <3>9 DEF Ep0Follows
    <3> QED BY <3>1, <3>6, <3>7, <3>8, <3>9
  <2> QED BY <1>4, <2>1, <2>2, <2>3
<1>15. KeyboardServed'
  BY <1>9, <1>11, <1>13, <1>14 DEF KeyboardServed
<1>16. NonePassed'
  BY <1>3, <1>11 DEF NonePassed
<1>17. FreshRings'
  BY <1>3, <1>9, <1>11 DEF FreshRings
<1> QED BY <1>15, <1>16, <1>17 DEF FoundInv

\* evt_wait finds the answer or discards an event.
LEMMA FoundTake ==
  ASSUME EnumInv, EnumInv', HandInv, HandInv', FoundInv, TakeEvent
  PROVE  FoundInv'
<1>1. EnumTypeOK /\ DriverPlace /\ OneCompletion
  BY DEF EnumInv
<1>2. /\ waiting /\ evts # <<>> /\ evts' = Tail(evts) /\ (prompt => ~Busy \/ hung)
      /\ UNCHANGED <<dev, prompt, ep0, buf, ctx, hung>>
  BY DEF TakeEvent, board, memory, xhc
<1>3. /\ Len(evts) \in Nat \ {0} /\ Len(evts') = Len(evts) - 1
      /\ \A i \in 1..Len(evts') : i + 1 \in 1..Len(evts) /\ evts'[i] = evts[i+1]
      /\ Head(evts) = evts[1] /\ evts[1] \in Evt /\ 1 \in 1..Len(evts)
  BY <1>1, <1>2, TailEvent DEF EnumTypeOK
<1>4. prompt /\ ~hung => \A s \in Slots : ctx[s].run # "active"
  BY <1>2 DEF Busy
<1>5. CASE prompt /\ ~hung /\ Matches(Head(evts))
  <2>1. Finish(Head(evts).ok, Head(evts).slot) /\ Head(evts).ok \in BOOLEAN
    BY <1>3, <1>5 DEF TakeEvent, Evt
  <2>2. port \in Ports
    BY <1>1, <1>2 DEF DriverPlace, Held
  <2>3. CASE dev[port] = "kbd"
    BY <1>2, <1>4, <1>5, <2>1, <2>2, <2>3, FoundAnswer DEF AtKeyboard
  <2>4. CASE dev[port] # "kbd"
    BY <1>2, <2>1, <2>4, FoundOtherDevice
  <2> QED BY <2>3, <2>4
<1>6. CASE prompt /\ ~hung /\ ~Matches(Head(evts))
  <2>1. UNCHANGED <<port, step, waiting, slot, ep0s>>
    BY <1>6 DEF TakeEvent
  <2>2. Head(evts).kind # "cmd"
    BY <1>1, <1>3, <1>6 DEF Matches, OneCompletion
  <2>3. Succeeded' <=> Succeeded
    BY <1>1, <1>2, <2>2, CompletionsKept DEF EnumTypeOK
  <2>4. KeyboardServed => \A i \in 1..Len(evts') : evts'[i].kind # "port" => evts'[i].ok
    BY <1>3 DEF KeyboardServed
  <2>5. ASSUME step \in Transfers, NEW i \in 1..Len(evts), evts[i].kind = "xfer", evts[i].slot = slot
        PROVE  \E j \in 1..Len(evts') : evts'[j].kind = "xfer" /\ evts'[j].slot = slot
    <3>1. step \notin Commands
      BY <2>5 DEF Commands, Transfers, Reads, Writes
    <3>2. i # 1
      BY <1>3, <1>6, <2>5, <3>1 DEF Matches
    <3>3. i - 1 \in 1..Len(evts') /\ i = (i - 1) + 1
      BY <1>3, <2>5, <3>2
    <3>4. evts'[i - 1] = evts[i]
      BY <1>3, <3>3
    <3> QED BY <2>5, <3>3, <3>4
  <2>6. Ep0Follows => Ep0Follows'
    BY <1>2, <2>1, <2>3, <2>5 DEF Ep0Follows
  <2>7. KeyboardServed => KeyboardServed'
    BY <2>1, <2>4, <2>6 DEF KeyboardServed
  <2> QED BY <1>2, <2>1, <2>7 DEF FoundInv, NonePassed, FreshRings, AtKeyboard
<1> QED BY <1>2, <1>5, <1>6 DEF FoundInv

\* No wait for the keyboard ends at its deadline: what the driver waits for
\* is coming or is in the queue.
LEMMA FoundTimeout ==
  ASSUME EnumInv, EnumInv', HandInv, HandInv', FoundInv, Patient, Timeout
  PROVE  FoundInv'
<1>1. EnumTypeOK /\ DriverPlace /\ CommandPlace /\ OneCompletion
  BY DEF EnumInv
<1>2. /\ waiting /\ NoAnswerComing /\ Finish(FALSE, 0)
      /\ \A i \in 1..Len(evts) : ~Matches(evts[i])
      /\ UNCHANGED <<dev, prompt, ep0, hung>>
  BY DEF Timeout, board, memory, xhc
<1>3. /\ step \in Commands \cup Transfers /\ Commands \cap Transfers = {}
      /\ port \in Ports
  BY <1>1, <1>2 DEF DriverPlace, Held, Commands, Transfers, Reads, Writes
<1>4. ~hung => step \in Transfers
  <2> SUFFICES ASSUME ~hung, step \in Commands PROVE FALSE
    BY <1>3
  <2>1. ~xcmd.run
    BY <1>2, <1>3 DEF NoAnswerComing
  <2>2. Unanswered
    BY <1>2 DEF Unanswered, Answered, Matches
  <2> QED BY <1>1, <2>1, <2>2 DEF CommandPlace, Pending
<1>5. ASSUME prompt, ~hung PROVE dev[port] # "kbd"
  <2> SUFFICES ASSUME dev[port] = "kbd" PROVE FALSE
    OBVIOUS
  <2>1. step \in Transfers /\ step \notin Commands
    BY <1>3, <1>4, <1>5
  <2>2. ctx[slot].run # "active"
    BY <1>2, <1>5, <2>1 DEF NoAnswerComing
  <2>3. \E i \in 1..Len(evts) : evts[i].kind = "xfer" /\ evts[i].slot = slot
    BY <1>2, <1>3, <1>5, <2>1, <2>2, AnswerIsThere DEF AtKeyboard
  <2> QED BY <1>2, <2>1, <2>3 DEF Matches
<1>6. CASE prompt /\ ~hung
  <2>1. FALSE \in BOOLEAN
    OBVIOUS
  <2> QED BY <1>2, <1>5, <1>6, <2>1, FoundOtherDevice
<1> QED BY <1>2, <1>6 DEF FoundInv

\* Each port's descriptor buffer holds an answer or none.
LEMMA BufStep ==
  ASSUME BufType, [Next]_vars
  PROVE  BufType'
<1>1. CASE \/ Driver \/ XhcCommand \/ XhcCommandEnd \/ XhcPortEvent \/ XhcHang \/ UNCHANGED vars
  <2>1. UNCHANGED buf
    BY <1>1 DEF Driver, BiosHandoff, Scan, PushCommand, PushTransfer, TakeEvent, Timeout, Ready,
       XhciReset, StartController, PortReset, XhcCommand, XhcCommandEnd, XhcPortEvent, XhcHang,
       vars, memory
  <2> QED BY <2>1 DEF BufType
<1>2. ASSUME NEW s \in Slots, XhcTransfer(s) PROVE BufType'
  <2>1. PICK x, it : UNCHANGED buf \/ (it \in Reads /\ buf' = [buf EXCEPT ![x] = it])
    BY <1>2 DEF XhcTransfer
  <2> QED BY <2>1 DEF BufType
<1> QED BY <1>1, <1>2 DEF Next, Xhc

-----------------------------------------------------------------------------
(* The theorems.                                                           *)

\* The rings as init_unsafe sets them up.
LEMMA EnumInit ==
  ASSUME Init
  PROVE  EnumInv
<1>1. CMD_N \in Nat /\ CMD_N >= 3 /\ EP0_N \in Nat /\ EP0_N >= 4 /\ NPorts \in Nat
  BY SizeAssumption
<1>2. /\ EmptyRing(CMD_N) \in [0..CMD_N-1 -> Cell] /\ EmptyRing(EP0_N) \in [0..EP0_N-1 -> Cell]
      /\ \A i \in 0..CMD_N-2 : EmptyRing(CMD_N)[i].cyc = 0
  BY <1>1, EmptyRingType
<1>3. NoCtx \in Context /\ NoCtx.st = "off" /\ NoCtx.run = "idle"
  BY <1>1 DEF NoCtx, Context, Cycle
<1>4. \A s \in Slots : ctx[s] = NoCtx
  BY DEF Init
<1>5. Used = {}
  BY <1>3, <1>4 DEF Used
<1>6. EnumTypeOK
  <2>1. ctx \in [Slots -> Context] /\ ep0 \in [Ports -> [0..EP0_N-1 -> Cell]]
    BY <1>2, <1>3 DEF Init
  <2>2. evts \in Seq(Evt)
    BY DEF Init
  <2>3. port \in 1..NPorts+1 /\ step \in Early
    BY <1>1 DEF Init, Early
  <2>4. /\ cs \in [enq : 0..CMD_N-2, cycle : Cycle] /\ ep0s \in [enq : 0..EP0_N-2, cycle : Cycle]
        /\ xcmd \in [deq : 0..CMD_N-1, cycle : Cycle, run : BOOLEAN]
    BY <1>1 DEF Init, Cycle
  <2> QED BY <1>2, <2>1, <2>2, <2>3, <2>4 DEF Init, EnumTypeOK
<1>7. DriverPlace
  BY DEF Init, DriverPlace, Held, Commands, Transfers, Reads, Writes
<1>8. CmdCycles
  BY <1>1, <1>2 DEF Init, CmdCycles, Flip
<1>9. CommandPlace
  BY <1>1 DEF Init, CommandPlace, Unanswered, CaughtUp, BackI, BackC, LinkOpen
<1>10. OneCompletion /\ CompletionIsOwn
  <2>1. Len(evts) = 0
    BY DEF Init
  <2> QED BY <2>1 DEF Init, OneCompletion, CompletionIsOwn, Commands
<1>11. ContextPorts
  BY <1>3, <1>4 DEF ContextPorts
<1>12. SlotsByStep
  BY <1>5 DEF Init, SlotsByStep, Held, Commands, Transfers, Reads, Writes
<1> QED BY <1>6, <1>7, <1>8, <1>9, <1>10, <1>11, <1>12 DEF EnumInv

\* The inductive invariant: where driver and controller are in the command
\* ring, which completion may be in the queue, and which slot is in use.
THEOREM EnumInvariant ==
  ASSUME Patient
  PROVE  Spec => []EnumInv
<1>1. Init => EnumInv
  BY EnumInit
<1>2. EnumInv /\ [Next]_vars => EnumInv'
  <2> SUFFICES ASSUME EnumInv, [Next]_vars PROVE EnumInv'
    OBVIOUS
  <2>1. CASE \/ BiosHandoff \/ Scan \/ Ready
             \/ \E ok \in BOOLEAN : XhciReset(ok) \/ StartController(ok) \/ PortReset(ok)
    BY <2>1, LoopStep
  <2>2. CASE PushCommand
    BY <2>2, PushCommandStep
  <2>3. CASE PushTransfer
    BY <2>3, PushTransferStep
  <2>4. CASE TakeEvent
    BY <2>4, TakeEventStep
  <2>5. CASE Timeout
    BY <2>5, TimeoutStep
  <2>6. CASE XhcCommand
    BY <2>6, XhcCommandStep
  <2>7. CASE XhcCommandEnd
    BY <2>7, XhcCommandEndStep
  <2>8. ASSUME NEW s \in Slots, XhcTransfer(s) PROVE EnumInv'
    BY <2>8, XhcTransferStep
  <2>9. CASE XhcPortEvent
    BY <2>9, XhcPortEventStep
  <2>10. CASE XhcHang
    BY <2>10, XhcHangStep
  <2>11. CASE UNCHANGED vars
    <3>1. UNCHANGED <<port, step, waiting, slot, cs, ep0s, kbdSlot, answer, cmd, ep0, evts,
                      xcmd, ctx, hung>>
      BY <2>11 DEF vars, driver, memory, xhc
    <3> QED BY <3>1 DEF EnumInv, EnumTypeOK, DriverPlace, CmdCycles, CommandPlace, Pending,
         CaughtUp, BackI, BackC, LastI, LastC, LinkOpen, Unanswered, Answered, OneCompletion,
         ContextPorts, SlotsByStep, Used, CompletionIsOwn
  <2> QED BY <2>1, <2>2, <2>3, <2>4, <2>5, <2>6, <2>7, <2>8, <2>9, <2>10, <2>11
       DEF Next, Driver, Xhc
<1> QED BY <1>1, <1>2, PTL DEF Spec

\* wait_cmd takes any Command Completion Event; the one it takes is that of
\* the command pushed last, if answers that come, come before the deadline.
THEOREM OwnCompletion ==
  ASSUME Patient
  PROVE  Spec => []CompletionIsOwn
<1>1. EnumInv => CompletionIsOwn
  BY DEF EnumInv
<1> QED BY <1>1, EnumInvariant, PTL

\* disable_slot: at the head of the port loop and at its end no slot is left
\* in use but the keyboard's, whatever devices and transfers have failed.
THEOREM NoSlotLeaks ==
  ASSUME Patient
  PROVE  Spec => []SlotsReturned
<1>1. EnumInv => SlotsReturned
  BY DEF EnumInv, SlotsByStep, SlotsReturned, Early
<1> QED BY <1>1, EnumInvariant, PTL

\* What init_unsafe starts from, for the device.
LEMMA HandInit ==
  ASSUME Init
  PROVE  HandInv
<1>1. \A s \in Slots : ctx[s] = NoCtx
  BY DEF Init
<1>2. NoCtx.st = "off" /\ NoCtx.run = "idle"
  BY DEF NoCtx
<1>3. Used = {}
  BY <1>1, <1>2 DEF Used
<1>4. Len(evts) = 0 /\ kbdSlot = 0 /\ step = "handoff"
  BY DEF Init
<1>5. step \notin Held
  BY <1>4 DEF Held, Commands, Transfers, Reads, Writes
<1>6. Ep0Quiet /\ CompletionLast /\ NoneLeft
  BY <1>1, <1>2, <1>4 DEF Ep0Quiet, CompletionLast, NoneLeft
<1>7. DeviceState
  BY <1>3, <1>4, <1>5 DEF DeviceState
<1> QED BY <1>4, <1>6, <1>7 DEF HandInv, DeviceInv

\* What is pending for the device, and the state its slot is in.
THEOREM HandInvariant ==
  ASSUME Patient
  PROVE  Spec => []HandInv
<1>1. Init => HandInv
  BY HandInit
<1>2. EnumInv /\ EnumInv' /\ HandInv /\ [Next]_vars => HandInv'
  <2> SUFFICES ASSUME EnumInv, EnumInv', HandInv, [Next]_vars PROVE HandInv'
    OBVIOUS
  <2>1. CASE \/ BiosHandoff \/ Scan \/ Ready
             \/ \E ok \in BOOLEAN : XhciReset(ok) \/ StartController(ok) \/ PortReset(ok)
    BY <2>1, HandLoop
  <2>2. CASE PushCommand
    BY <2>2, HandPushCommand
  <2>3. CASE PushTransfer
    BY <2>3, HandPushTransfer
  <2>4. CASE TakeEvent
    BY <2>4, HandTake
  <2>5. CASE Timeout
    BY <2>5, HandTimeout
  <2>6. CASE XhcCommand
    BY <2>6, HandCommand
  <2>7. ASSUME NEW s \in Slots, XhcTransfer(s) PROVE HandInv'
    BY <2>7, HandTransfer
  <2>8. CASE XhcPortEvent \/ XhcCommandEnd \/ XhcHang \/ UNCHANGED vars
    BY <2>8, HandOther
  <2> QED BY <2>1, <2>2, <2>3, <2>4, <2>5, <2>6, <2>7, <2>8 DEF Next, Driver, Xhc
<1> QED BY <1>1, <1>2, EnumInvariant, PTL DEF Spec

\* The handover to the timer handler: on a prompt controller the keyboard's
\* slot is configured and belongs to the port found, and no Transfer Event of
\* the enumeration is left that take_hid_report would take for a report.
THEOREM CleanHandover ==
  ASSUME Patient
  PROVE  Spec => []HandoverClean
<1>1. HandInv => HandoverClean
  <2> SUFFICES ASSUME HandInv, prompt, kbdSlot # 0, ~hung
               PROVE  /\ ctx[kbdSlot].st = "configured" /\ ctx[kbdSlot].port = port
                      /\ \A i \in 1..Len(evts) : evts[i].kind # "xfer"
    BY DEF HandoverClean
  <2>1. step = "done" /\ DeviceInv
    BY DEF HandInv
  <2>2. step \notin Held
    BY <2>1 DEF Held, Commands, Transfers, Reads, Writes
  <2>3. kbdSlot \in Slots /\ ctx[kbdSlot].st = "configured"
    BY <2>1 DEF DeviceInv, DeviceState
  <2>4. kbdSlot \in Used
    BY <2>3 DEF Used
  <2> QED BY <2>1, <2>2, <2>3, <2>4 DEF DeviceInv, DeviceState, NoneLeft
<1> QED BY <1>1, HandInvariant, PTL

\* No keyboard has been passed over, and one that is being enumerated has
\* been served so far.
THEOREM FoundInvariant ==
  ASSUME Patient, MaxSlots >= 1, EP0_N >= 7
  PROVE  Spec => [](FoundInv /\ BufType)
<1>1. Init => FoundInv /\ BufType
  <2> SUFFICES ASSUME Init PROVE FoundInv /\ BufType
    OBVIOUS
  <2>1. port = 1 /\ step = "handoff" /\ Len(evts) = 0 /\ BufType
    BY DEF Init, BufType
  <2>2. NonePassed
    BY <2>1 DEF NonePassed, Ports
  <2>3. FreshRings
    BY DEF Init, FreshRings
  <2>4. KeyboardServed
    BY <2>1 DEF KeyboardServed, Held, Commands, Transfers, Reads, Writes
  <2> QED BY <2>1, <2>2, <2>3, <2>4 DEF FoundInv
<1>2. EnumInv /\ EnumInv' /\ HandInv /\ HandInv' /\ FoundInv /\ BufType /\ [Next]_vars
        => FoundInv' /\ BufType'
  <2> SUFFICES ASSUME EnumInv, EnumInv', HandInv, HandInv', FoundInv, BufType, [Next]_vars
               PROVE  FoundInv'
    BY BufStep
  <2>1. CASE \/ BiosHandoff \/ Scan \/ Ready
             \/ \E ok \in BOOLEAN : XhciReset(ok) \/ StartController(ok) \/ PortReset(ok)
    BY <2>1, FoundLoop
  <2>2. CASE PushCommand
    BY <2>2, FoundPushCommand
  <2>3. CASE PushTransfer
    BY <2>3, FoundPushTransfer
  <2>4. CASE TakeEvent
    BY <2>4, FoundTake
  <2>5. CASE Timeout
    BY <2>5, FoundTimeout
  <2>6. CASE XhcCommand
    BY <2>6, FoundCommand
  <2>7. ASSUME NEW s \in Slots, XhcTransfer(s) PROVE FoundInv'
    BY <2>7, FoundTransfer
  <2>8. CASE XhcPortEvent \/ XhcCommandEnd \/ XhcHang \/ UNCHANGED vars
    BY <2>8, FoundQuietly
  <2> QED BY <2>1, <2>2, <2>3, <2>4, <2>5, <2>6, <2>7, <2>8 DEF Next, Driver, Xhc
<1> QED BY <1>1, <1>2, EnumInvariant, HandInvariant, PTL DEF Spec

\* The port loop: on a prompt controller, enumeration does not end without a
\* keyboard while one that answers is plugged in, whatever is at the other
\* ports.  The EP0 ring must hold two control reads and the Link TRB: after
\* the second Address Device the first descriptor read is executed again.
THEOREM KeyboardIsFound ==
  ASSUME Patient, MaxSlots >= 1, EP0_N >= 7
  PROVE  Spec => []KeyboardFound
<1>1. EnumInv /\ FoundInv => KeyboardFound
  <2> SUFFICES ASSUME EnumInv, FoundInv, prompt, port > NPorts, ~hung, NEW p \in Ports
               PROVE  dev[p] # "kbd"
    BY DEF KeyboardFound
  <2>1. p < port
    BY SizeAssumption DEF Ports, EnumInv, EnumTypeOK
  <2> QED BY <2>1 DEF FoundInv, NonePassed
<1> QED BY <1>1, EnumInvariant, FoundInvariant, PTL
=============================================================================
