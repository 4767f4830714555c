------------------------------ MODULE XhciKbd -------------------------------
(***************************************************************************)
(* The interrupt-endpoint path of hal/src/xhci.rs once enumeration has     *)
(* found a keyboard: init_unsafe arms the endpoint and hands its state     *)
(* over to the timer handler, which polls the event ring every tick with   *)
(* take_hid_report and re-arms the endpoint after each report.             *)
(*                                                                         *)
(* Three actors share memory: the boot code (init), the timer handler      *)
(* (which interrupts it but is never interrupted) and the xHC, a bus       *)
(* master that runs beside both.  Every TRB the driver queues names the    *)
(* same 8-byte HID buffer.  The xHC is modelled from the rules the driver  *)
(* relies on: it executes a TRB whose cycle bit equals its own cycle       *)
(* state, follows the Link TRB and flips that state, goes idle on a TRB    *)
(* that is not valid and wakes on a doorbell.                              *)
(***************************************************************************)
EXTENDS Naturals, Sequences, FiniteSets

CONSTANTS
  INT_N,       \* slots of the transfer ring; the last is the Link TRB
  EVT_N,       \* slots of the event ring
  MaxReports,  \* bound: reports the keyboard sends
  MaxOther,    \* bound: events that are not the keyboard's (port changes)
  MaxErrors    \* bound: transfers that complete with an error code

ASSUME RingAssumption == INT_N \in Nat /\ INT_N >= 2 /\ EVT_N \in Nat /\ EVT_N >= 2
ASSUME BoundAssumption ==
  MaxReports \in Nat /\ MaxOther \in Nat /\ MaxErrors \in Nat

VARIABLES
  ipc,       \* where init_unsafe is
  tpc,       \* where the timer handler is; "out" when it is not running
  ready,     \* KBD_READY
  enq, tcyc, \* KBD_TR_ENQ, KBD_TR_CYC
  deq, ecyc, \* KBD_EVT_DEQ, KBD_EVT_CYC
  es,        \* init's EvtState [deq, cycle]
  trb,       \* cycle bits of the transfer ring's TRBs
  evt,       \* the event ring: [cyc, kind]
  erdp,      \* the ERDP register: the event slot the driver will read next
  hid,       \* the HID buffer: a report's number, or Torn while DMA writes it
  xdeq, xcyc,     \* the xHC's position in the transfer ring
  xenq, xecyc,    \* the xHC's position in the event ring
  xst,            \* the endpoint: "idle", "active", "dma" or "halted"
  sent,      \* history: reports the xHC completed
  taken,     \* history: reports take_hid_report read
  others, errors  \* events of the other kinds so far

xhc    == <<xdeq, xcyc, xenq, xecyc, xst, sent, others, errors>>
driver == <<ipc, tpc, ready, enq, tcyc, deq, ecyc, es, erdp, taken>>
vars   == <<driver, xhc, trb, evt, hid>>

Torn == 0
Flip(c) == 1 - c
Link == INT_N - 1

\* Mutant: the consumer's cycle state survives the wrap.
NextEvtSameCycle(i, c) == [deq |-> IF i + 1 >= EVT_N THEN 0 ELSE i + 1, cycle |-> c]

\* The driver's event slot and cycle state after slot i in cycle c.
NextEvt(i, c) == IF i + 1 >= EVT_N THEN [deq |-> 0, cycle |-> Flip(c)]
                                   ELSE [deq |-> i + 1, cycle |-> c]

\* Enumeration has consumed every event so far, i of them in the first pass
\* over the ring; the Link TRB was written with its cycle bit set.
Init ==
  /\ ipc = "arm" /\ tpc = "out" /\ ready = FALSE
  /\ enq = 0 /\ tcyc = 1 /\ deq = 0 /\ ecyc = 1
  /\ \E i \in 0..EVT_N-1 :
       /\ es = [deq |-> i, cycle |-> 1]
       /\ evt = [j \in 0..EVT_N-1 |->
                   [cyc |-> IF j < i THEN 1 ELSE 0, kind |-> "cmd"]]
       /\ erdp = i /\ xenq = i /\ xecyc = 1
  /\ trb = [j \in 0..INT_N-1 |-> IF j = Link THEN 1 ELSE 0]
  /\ hid = Torn /\ xdeq = 0 /\ xcyc = 1 /\ xst = "idle"
  /\ sent = <<>> /\ taken = <<>> /\ others = 0 /\ errors = 0

-----------------------------------------------------------------------------
(* The driver's use of the transfer ring.                                  *)

\* Mutant: the Link TRB is stamped on every call.
StampAlways(i, c) == [trb EXCEPT ![Link] = c]

\* arm_kbd_ep_raw's last part: only a TRB just before the Link TRB gives the
\* Link TRB the cycle the xHC is still on.
StampLink(i, c) == IF i + 1 = Link THEN [trb EXCEPT ![Link] = c] ELSE trb

\* The producer index and cycle that arm_kbd_ep_raw returns.
NextEnq(i, c) == IF i + 1 = Link THEN <<0, Flip(c)>> ELSE <<i + 1, c>>

\* A write to the endpoint's doorbell; a halted endpoint ignores it.
Doorbell == xst' = IF xst = "idle" THEN "active" ELSE xst

-----------------------------------------------------------------------------
(* init_unsafe, after Configure Endpoint.                                  *)

InitArm ==
  /\ ipc = "arm"
  /\ trb' = [StampLink(0, 1) EXCEPT ![0] = 1]
  /\ ipc' = "bell"
  /\ UNCHANGED <<tpc, ready, enq, tcyc, deq, ecyc, es, erdp, taken, xhc, evt, hid>>

InitDoorbell ==
  /\ ipc = "bell"
  /\ Doorbell
  /\ ipc' = "handoff"
  /\ UNCHANGED <<tpc, ready, enq, tcyc, deq, ecyc, es, erdp, taken, trb, evt, hid,
                 xdeq, xcyc, xenq, xecyc, sent, others, errors>>

\* The polling state, stored before KBD_READY.
InitHandoff ==
  /\ ipc = "handoff"
  /\ deq' = es.deq /\ ecyc' = es.cycle
  /\ enq' = NextEnq(0, 1)[1] /\ tcyc' = NextEnq(0, 1)[2]
  /\ ipc' = "ready"
  /\ UNCHANGED <<tpc, ready, es, erdp, taken, xhc, trb, evt, hid>>

InitReady ==
  /\ ipc = "ready"
  /\ ready' = TRUE
  /\ ipc' = "done"
  /\ UNCHANGED <<tpc, enq, tcyc, deq, ecyc, es, erdp, taken, xhc, trb, evt, hid>>

Boot == tpc = "out" /\ (InitArm \/ InitDoorbell \/ InitHandoff \/ InitReady)

-----------------------------------------------------------------------------
(* take_hid_report, one action per access the xHC can come between.        *)

\* Mutant: every event is taken for a report.
AnyEventIsReport(e) == TRUE

\* A Transfer Event of the keyboard's slot with a success code.
GoodTransfer(e) == e.kind = "report"

\* Mutant: the endpoint is re-armed before the report is copied.
ConsumeAndArm ==
  /\ tpc = "out"
  /\ ready /\ evt[deq].cyc = ecyc
  /\ deq' = NextEvt(deq, ecyc).deq /\ ecyc' = NextEvt(deq, ecyc).cycle
  /\ erdp' = NextEvt(deq, ecyc).deq
  /\ tpc' = IF GoodTransfer(evt[deq]) THEN "read" ELSE "out"
  /\ trb' = IF GoodTransfer(evt[deq]) THEN [trb EXCEPT ![enq] = tcyc] ELSE trb
  /\ UNCHANGED <<ipc, ready, enq, tcyc, es, taken, xhc, evt, hid>>

\* Look at the event ring; consume an event, publish ERDP, and go on only
\* for a successful transfer event of the keyboard's slot.
TickConsume ==
  /\ tpc = "out"
  /\ IF ~ready \/ evt[deq].cyc # ecyc
       THEN UNCHANGED <<deq, ecyc, erdp, tpc>>
       ELSE LET n == NextEvt(deq, ecyc) IN
            /\ deq' = n.deq /\ ecyc' = n.cycle
            /\ erdp' = n.deq
            /\ tpc' = IF GoodTransfer(evt[deq]) THEN "read" ELSE "out"
  /\ UNCHANGED <<ipc, ready, enq, tcyc, es, taken, xhc, trb, evt, hid>>

\* Copy the report out of the DMA buffer.
TickRead ==
  /\ tpc = "read"
  /\ taken' = Append(taken, hid)
  /\ tpc' = "arm"
  /\ UNCHANGED <<ipc, ready, enq, tcyc, deq, ecyc, es, erdp, xhc, trb, evt, hid>>

\* The Normal TRB, valid for the xHC as soon as its cycle bit is written.
TickArm ==
  /\ tpc = "arm"
  /\ trb' = [trb EXCEPT ![enq] = tcyc]
  /\ tpc' = "link"
  /\ UNCHANGED <<ipc, ready, enq, tcyc, deq, ecyc, es, erdp, taken, xhc, evt, hid>>

\* The Link TRB, and the new producer state.
TickLink ==
  /\ tpc = "link"
  /\ trb' = StampLink(enq, tcyc)
  /\ enq' = NextEnq(enq, tcyc)[1]
  /\ tcyc' = NextEnq(enq, tcyc)[2]
  /\ tpc' = "bell"
  /\ UNCHANGED <<ipc, ready, deq, ecyc, es, erdp, taken, xhc, evt, hid>>

\* The doorbell, and the return from the handler.
TickBell ==
  /\ tpc = "bell"
  /\ Doorbell
  /\ tpc' = "out"
  /\ UNCHANGED <<ipc, ready, enq, tcyc, deq, ecyc, es, erdp, taken, trb, evt, hid,
                 xdeq, xcyc, xenq, xecyc, sent, others, errors>>

Timer == TickConsume \/ TickRead \/ TickArm \/ TickLink \/ TickBell

-----------------------------------------------------------------------------
(* The controller.                                                         *)

\* Post an event; the xHC never fills the slot before ERDP.
Post(kind) ==
  /\ (xenq + 1) % EVT_N # erdp
  /\ evt' = [evt EXCEPT ![xenq] = [cyc |-> xecyc, kind |-> kind]]
  /\ xenq' = (xenq + 1) % EVT_N
  /\ xecyc' = IF xenq + 1 = EVT_N THEN Flip(xecyc) ELSE xecyc

\* Fetch the next TRB: the device's report starts to arrive, the Link TRB is
\* followed, or the endpoint goes idle.
XhcFetch ==
  /\ xst = "active"
  /\ \/ /\ trb[xdeq] = xcyc /\ xdeq # Link
        /\ Len(sent) < MaxReports
        /\ xst' = "dma"
        /\ hid' = Torn
        /\ UNCHANGED <<xdeq, xcyc>>
     \/ /\ trb[xdeq] = xcyc /\ xdeq = Link
        /\ xdeq' = 0 /\ xcyc' = Flip(xcyc)
        /\ UNCHANGED <<xst, hid>>
     \/ /\ trb[xdeq] # xcyc
        /\ xst' = "idle"
        /\ UNCHANGED <<hid, xdeq, xcyc>>
  /\ UNCHANGED <<driver, trb, evt, xenq, xecyc, sent, others, errors>>

\* The report is in the buffer and its Transfer Event is posted.
XhcComplete ==
  /\ xst = "dma"
  /\ hid' = Len(sent) + 1
  /\ sent' = Append(sent, Len(sent) + 1)
  /\ Post("report")
  /\ xdeq' = xdeq + 1
  /\ xst' = "active"
  /\ UNCHANGED <<driver, trb, xcyc, others, errors>>

\* The transfer fails on the bus: the event carries an error code and the
\* endpoint halts.
XhcError ==
  /\ xst = "dma"
  /\ errors < MaxErrors
  /\ errors' = errors + 1
  /\ Post("error")
  /\ xdeq' = xdeq + 1
  /\ xst' = "halted"
  /\ UNCHANGED <<driver, trb, hid, xcyc, sent, others>>

\* An event that is not the keyboard's: a port status change.
XhcOther ==
  /\ others < MaxOther
  /\ others' = others + 1
  /\ Post("port")
  /\ UNCHANGED <<driver, trb, hid, xdeq, xcyc, xst, sent, errors>>

Xhc == XhcFetch \/ XhcComplete

Next == Boot \/ Timer \/ Xhc \/ XhcError \/ XhcOther

\* Boot code and handlers run on, the timer keeps ticking, the controller
\* executes valid TRBs.  Errors and port changes are never owed.
Fairness == WF_vars(Boot) /\ WF_vars(Timer) /\ WF_vars(Xhc)

Spec == Init /\ [][Next]_vars /\ Fairness

-----------------------------------------------------------------------------
(* Properties.                                                             *)

\* take_hid_report: every report reaches the caller whole, once and in
\* order, although all TRBs share one DMA buffer: the read falls between the
\* completion of one transfer and the arming of the next.
ReportsExactlyOnce ==
  /\ Len(taken) <= Len(sent)
  /\ \A i \in 1..Len(taken) : taken[i] = sent[i]
  /\ Len(sent) <= Len(taken) + 1

\* TRBs the xHC will still execute: ahead of it they carry its cycle state,
\* behind it the next one.
Owned == {i \in 0..Link-1 : trb[i] = IF i >= xdeq THEN xcyc ELSE Flip(xcyc)}

\* Completions the driver has not consumed, from the driver's position on.
Pending ==
  LET d == IF ipc \in {"ready", "done"} THEN deq ELSE es.deq
      c == IF ipc \in {"ready", "done"} THEN ecyc ELSE es.cycle
  IN  {j \in 0..EVT_N-1 : /\ evt[j].kind \in {"report", "error"}
                          /\ evt[j].cyc = IF j >= d THEN c ELSE Flip(c)}

\* One transfer at a time uses the shared buffer: it is queued, or completed
\* and not yet consumed, or in take_hid_report's hands.  Cycle bits of
\* earlier passes never make a second one, and only an error ends it.
OneTransferInFlight ==
  LET n == Cardinality(Owned) + Cardinality(Pending)
             + (IF tpc \in {"read", "arm"} THEN 1 ELSE 0)
  IN  /\ n <= 1
      /\ ipc # "arm" /\ errors = 0 => n = 1

\* The hand-over from init_unsafe: every completed report is taken by the
\* timer handler, also one that completes before KBD_READY is set.
EveryReportTaken ==
  \A n \in 1..MaxReports : (Len(sent) >= n) ~> (Len(taken) >= n)

\* A transfer is queued for the keyboard: the xHC will execute the TRB at
\* its dequeue position, or after the Link TRB there.
Armed ==
  /\ xst \in {"active", "dma"}
  /\ \/ trb[xdeq] = xcyc /\ xdeq # Link
     \/ xdeq = Link /\ trb[Link] = xcyc /\ trb[0] = Flip(xcyc)

\* take_hid_report: as long as no transfer fails, the endpoint is armed again
\* and again, through every wrap of both rings.
RearmedUnlessError == [](errors = 0) => []<>Armed

\* take_hid_report re-arms the endpoint after every completion, so that the
\* keyboard goes on working.
AlwaysRearmed == []<>Armed
=============================================================================
