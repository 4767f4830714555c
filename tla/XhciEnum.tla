------------------------------ MODULE XhciEnum ------------------------------
(***************************************************************************)
(* Bring-up and port enumeration of hal/src/xhci.rs (init_unsafe): the     *)
(* controller is taken over and reset, and every port with a device is     *)
(* reset, given a slot, addressed and asked for its descriptors, until a   *)
(* HID boot keyboard is found.  The driver issues commands on the command  *)
(* ring and control transfers on the device's EP0 ring, one at a time, and *)
(* polls the event ring for the answer with a deadline.  The event ring is *)
(* a queue here; its cycle bits and its wrap are in XhciKbd.               *)
(*                                                                         *)
(* The xHC and the devices are modelled from the rules the driver relies   *)
(* on.  Address Device loads the EP0 context of the input context, dequeue *)
(* pointer included.                                                       *)
(***************************************************************************)
EXTENDS Naturals, Sequences, FiniteSets

CONSTANTS
  NPorts,         \* root hub ports
  MaxSlots,       \* device slots of the controller
  CMD_N, EP0_N,   \* slots of the rings; the last is the Link TRB
  MaxPortEvents,  \* bound: port status change events
  Patient         \* every answer that is coming comes before the deadline

ASSUME SizeAssumption ==
  /\ NPorts \in Nat /\ MaxSlots \in Nat /\ MaxPortEvents \in Nat
  /\ CMD_N \in Nat /\ CMD_N >= 3 /\ EP0_N \in Nat /\ EP0_N >= 4
ASSUME ModeAssumption == Patient \in BOOLEAN

Ports == 1..NPorts
Slots == 1..MaxSlots

VARIABLES
  dev,      \* the device at each port: "none", "kbd", "other" or "flaky"
  prompt,   \* the kind of xHC: it finishes all queued work before its first
            \* event is seen, or one TRB after the other
  port,     \* port1
  step,     \* where init_unsafe is
  attempt,  \* port_reset's loop counter
  waiting,  \* in wait_cmd or ep0_wait_xfer
  slot,     \* the slot id of the device being enumerated
  cs, cmd,  \* CmdState and the command ring
  ep0s, ep0,   \* Ep0State, and the EP0 ring of each port's device
  buf,      \* desc_buf of each port's device: which answer it holds
  evts,     \* events posted and not yet consumed
  kbdSlot,  \* KBD_SLOT once KBD_READY is set, else 0
  xcmd,     \* the xHC in the command ring: [deq, cycle, run]
  ctx,      \* the xHC's device contexts
  hung,     \* the xHC has stopped
  portEvts, \* port events so far
  answer    \* history: the last answer accepted, and what was asked

board  == <<dev, prompt>>
driver == <<port, step, attempt, waiting, slot, cs, ep0s, kbdSlot, answer>>
memory == <<cmd, ep0, buf>>
xhc    == <<xcmd, ctx, hung, portEvts>>
vars   == <<board, driver, memory, evts, xhc>>

Flip(c) == 1 - c

-----------------------------------------------------------------------------
(* The steps of the enumeration of one port, in order.                     *)

Commands  == {"enable", "addr1", "eval", "addr0", "cfgep", "disable"}
Reads     == {"desc8", "desc18", "cfg9", "cfg"}
Writes    == {"setconf", "setproto", "setidle"}
Transfers == Reads \cup Writes

Order == <<"enable", "addr1", "desc8", "eval", "addr0", "desc18", "cfg9", "cfg",
           "setconf", "setproto", "setidle", "cfgep", "ready">>
After(s) == Order[1 + CHOOSE i \in 1..Len(Order) : Order[i] = s]

\* find_hid_kbd_ep: a keyboard's interface and endpoint are in the buffer.
find_hid_kbd_ep == dev[port] \in {"kbd", "flaky"} /\ buf[port] = "cfg"

\* Mutant: a device that is not a keyboard keeps its slot.
NextStepNoDisable(s, ok) ==
  CASE s = "enable" /\ ~ok -> "next"
    [] s = "disable"       -> "next"
    [] s = "cfg"           -> IF find_hid_kbd_ep THEN "setconf" ELSE "next"
    [] s \in Writes        -> After(s)
    [] OTHER               -> IF ok THEN After(s) ELSE "disable"

\* Mutant: the completion code of Configure Endpoint is ignored too.
NextStepNoCheck(s, ok) ==
  CASE s = "enable" /\ ~ok -> "next"
    [] s = "disable"       -> "next"
    [] s = "cfg"           -> IF find_hid_kbd_ep THEN "setconf" ELSE "disable"
    [] s \in Writes \cup {"cfgep"} -> After(s)
    [] OTHER               -> IF ok THEN After(s) ELSE "disable"

\* What init_unsafe does after a step: a failure before Enable Slot has
\* succeeded or after disable_slot leads to the next port, the result of the
\* full configuration read and of the SET requests is ignored, every other
\* failure leads to disable_slot.
NextStep(s, ok) ==
  CASE s = "enable" /\ ~ok -> "next"
    [] s = "disable"       -> "next"
    [] s = "cfg"           -> IF find_hid_kbd_ep THEN "setconf" ELSE "disable"
    [] s \in Writes        -> After(s)
    [] OTHER               -> IF ok THEN After(s) ELSE "disable"

-----------------------------------------------------------------------------
(* Producer rings: cmd_push and ep0_push.                                  *)

EmptyRing(n) ==
  [i \in 0..n-1 |-> [cyc |-> IF i = n - 1 THEN 1 ELSE 0, item |-> "none", slot |-> 0, port |-> 0]]

\* Mutant: the Link TRB keeps its first cycle bit.
RingPushStaleLink(r, n, i, c, t) == [r EXCEPT ![i] = [t EXCEPT !.cyc = c]]

\* A TRB at position i in cycle c; the one before the Link TRB hands the
\* Link TRB over too.
RingPush(r, n, i, c, t) ==
  [r EXCEPT ![i] = [t EXCEPT !.cyc = c],
            ![n-1].cyc = IF i + 1 = n - 1 THEN c ELSE @]

\* The producer's position after it.
RingNext(st, n) ==
  IF st.enq + 1 = n - 1 THEN [enq |-> 0, cycle |-> Flip(st.cycle)]
                        ELSE [enq |-> st.enq + 1, cycle |-> st.cycle]

\* The consumer's position after position deq in cycle c.
RingSkip(deq, c, n) == IF deq = n - 1 THEN <<0, Flip(c)>> ELSE <<deq + 1, c>>

NoCtx == [st |-> "off", port |-> 0, deq |-> 0, cycle |-> 1, run |-> "idle"]

Init ==
  /\ dev \in [Ports -> {"none", "kbd", "other", "flaky"}] /\ prompt \in BOOLEAN
  /\ port = 1 /\ step = "handoff" /\ attempt = 0 /\ waiting = FALSE /\ slot = 0
  /\ cs = [enq |-> 0, cycle |-> 1] /\ cmd = EmptyRing(CMD_N)
  /\ ep0s = [enq |-> 0, cycle |-> 1] /\ ep0 = [p \in Ports |-> EmptyRing(EP0_N)]
  /\ buf = [p \in Ports |-> "none"]
  /\ evts = <<>> /\ kbdSlot = 0
  /\ xcmd = [deq |-> 0, cycle |-> 1, run |-> FALSE]
  /\ ctx = [s \in Slots |-> NoCtx]
  /\ hung = FALSE /\ portEvts = 0
  /\ answer = [asked |-> "none", of |-> "none", port |-> 0, ofPort |-> 0, ok |-> FALSE]

-----------------------------------------------------------------------------
(* The driver.                                                             *)

\* bios_handoff: the firmware gives the controller up, or the wait for it
\* times out; either way init goes on.
BiosHandoff ==
  /\ step = "handoff"
  /\ step' = "reset"
  /\ UNCHANGED <<board, port, attempt, waiting, slot, cs, ep0s, kbdSlot, answer, memory, evts, xhc>>

\* xhci_reset, or an unsupported context size: a timeout ends init.
XhciReset(ok) ==
  /\ step = "reset"
  /\ step' = IF ok THEN "start" ELSE "done"
  /\ UNCHANGED <<board, port, attempt, waiting, slot, cs, ep0s, kbdSlot, answer, memory, evts, xhc>>

\* The rings are handed over, the controller is started and all ports are
\* powered; a controller that does not start ends init.
StartController(ok) ==
  /\ step = "start"
  /\ step' = IF ok THEN "scan" ELSE "done"
  /\ UNCHANGED <<board, port, attempt, waiting, slot, cs, ep0s, kbdSlot, answer, memory, evts, xhc>>

\* The head of the port loop.
Scan ==
  /\ step = "scan"
  /\ IF port > NPorts          THEN step' = "done" /\ UNCHANGED <<port, attempt>>
     ELSE IF dev[port] = "none" THEN port' = port + 1 /\ UNCHANGED <<step, attempt>>
     ELSE step' = "portreset" /\ attempt' = 0 /\ UNCHANGED port
  /\ UNCHANGED <<board, waiting, slot, cs, ep0s, kbdSlot, answer, memory, evts, xhc>>

\* Mutant: failed attempts are retried without a limit.
PortResetForever(u0) ==
  /\ step = "portreset"
  /\ IF u0 THEN step' = "enable" /\ UNCHANGED attempt
           ELSE attempt' = (attempt + 1) % 3 /\ UNCHANGED step
  /\ UNCHANGED <<board, port, waiting, slot, cs, ep0s, kbdSlot, answer, memory, evts, xhc>>

\* One attempt of port_reset: the link comes up, or the reset or the link
\* training times out.  After three attempts init tries the port anyway.
PortReset(u0) ==
  /\ step = "portreset"
  /\ IF u0 \/ attempt = 2 THEN step' = "enable" /\ UNCHANGED attempt
                          ELSE attempt' = attempt + 1 /\ UNCHANGED step
  /\ UNCHANGED <<board, port, waiting, slot, cs, ep0s, kbdSlot, answer, memory, evts, xhc>>

Trb(s) == [cyc |-> 0, item |-> s, slot |-> slot, port |-> port]

\* cmd_push, and the doorbell of wait_cmd.
PushCommand ==
  /\ step \in Commands /\ ~waiting
  /\ cmd' = RingPush(cmd, CMD_N, cs.enq, cs.cycle, Trb(step))
  /\ cs' = RingNext(cs, CMD_N)
  /\ xcmd' = [xcmd EXCEPT !.run = TRUE]
  /\ waiting' = TRUE
  /\ UNCHANGED <<board, port, step, attempt, slot, ep0s, kbdSlot, answer, ep0, buf,
                 evts, ctx, hung, portEvts>>

\* ep0_push: one TRB at the producer's position q.st of the ring q.ring.
ep0_push(q, item) ==
  [ring |-> RingPush(q.ring, EP0_N, q.st.enq, q.st.cycle, Trb(item)),
   st   |-> RingNext(q.st, EP0_N)]

\* Stages of a control transfer: the last TRB carries the request's name.
Stages(s, q) ==
  IF s \in Reads THEN ep0_push(ep0_push(ep0_push(q, "setup"), "data"), s)
                 ELSE ep0_push(ep0_push(q, "setup"), s)

\* ctrl_in and ctrl_out: the stages, and the doorbell of ep0_wait_xfer; a
\* halted endpoint ignores it.
PushTransfer ==
  /\ step \in Transfers /\ ~waiting
  /\ LET q == Stages(step, [ring |-> ep0[port], st |-> ep0s])
     IN  ep0' = [ep0 EXCEPT ![port] = q.ring] /\ ep0s' = q.st
  /\ ctx' = [ctx EXCEPT ![slot].run = IF @ = "idle" THEN "active" ELSE @]
  /\ waiting' = TRUE
  /\ UNCHANGED <<board, port, step, attempt, slot, cs, kbdSlot, answer, cmd, buf,
                 evts, xcmd, hung, portEvts>>

\* The wait is over: the loop goes to its next step or its next port.  A new
\* slot comes with a fresh EP0 ring and descriptor buffer.
Finish(ok, s) ==
  LET n == NextStep(step, ok) IN
  /\ waiting' = FALSE
  /\ step' = IF n = "next" THEN "scan" ELSE n
  /\ port' = IF n = "next" THEN port + 1 ELSE port
  /\ IF step = "enable" /\ ok
       THEN slot' = s /\ ep0s' = [enq |-> 0, cycle |-> 1]
       ELSE UNCHANGED <<slot, ep0s>>

\* Mutant: any event ends the wait.
AnyEvent(e) == TRUE

\* The event that wait_cmd or ep0_wait_xfer returns on.
Matches(e) == IF step \in Commands THEN e.kind = "cmd"
                                   ELSE e.kind = "xfer" /\ e.slot = slot

Busy == xcmd.run \/ \E s \in Slots : ctx[s].run = "active"

\* evt_wait finds an event: the answer, or one to be discarded.
TakeEvent ==
  /\ waiting /\ evts # <<>>
  /\ prompt => ~Busy \/ hung
  /\ evts' = Tail(evts)
  /\ LET e == Head(evts) IN
     IF Matches(e)
       THEN /\ Finish(e.ok, e.slot)
            /\ answer' = [asked |-> step, of |-> e.of, port |-> port, ofPort |-> e.port,
                          ok |-> e.ok]
       ELSE UNCHANGED <<port, step, waiting, slot, ep0s, answer>>
  /\ UNCHANGED <<board, attempt, cs, kbdSlot, memory, xhc>>

\* The xHC will post no further answer to what the driver waits for.
NoAnswerComing ==
  \/ hung
  \/ step \in Commands  /\ ~xcmd.run
  \/ step \in Transfers /\ ctx[slot].run # "active"

\* The deadline is looked at when there is no event, or after one that was
\* discarded.
Timeout ==
  /\ waiting
  /\ Patient => NoAnswerComing
  /\ evts # <<>> => ~Matches(Head(evts))
  /\ evts' = IF evts = <<>> THEN evts ELSE Tail(evts)
  /\ Patient => \A i \in 1..Len(evts) : ~Matches(evts[i])
  /\ Finish(FALSE, 0)
  /\ UNCHANGED <<board, attempt, cs, kbdSlot, answer, memory, xhc>>

\* The endpoint is armed and handed to the timer handler (XhciKbd).
Ready ==
  /\ step = "ready"
  /\ kbdSlot' = slot
  /\ step' = "done"
  /\ UNCHANGED <<board, port, attempt, waiting, slot, cs, ep0s, answer, memory, evts, xhc>>

Driver ==
  \/ BiosHandoff \/ Scan \/ PushCommand \/ PushTransfer \/ TakeEvent \/ Timeout \/ Ready
  \/ \E ok \in BOOLEAN : XhciReset(ok) \/ StartController(ok) \/ PortReset(ok)

-----------------------------------------------------------------------------
(* The controller and the devices.                                         *)

Event(kind, s, ok, t) ==
  [kind |-> kind, slot |-> s, ok |-> ok, of |-> t.item, port |-> t.port]

\* Slot states in which a command may be executed, and what it leads to.
LegalIn == [addr1 |-> {"enabled"}, eval |-> {"default", "addressed"},
            addr0 |-> {"default"}, cfgep |-> {"addressed"},
            disable |-> {"enabled", "default", "addressed", "configured"}]
LeadsTo(c, old) == CASE c = "addr1" -> "default"    [] c = "eval" -> old
                     [] c = "addr0" -> "addressed"  [] c = "cfgep" -> "configured"

\* The slot context after a command has succeeded.
Execute(t) ==
  CASE t.item = "disable"         -> NoCtx
    [] t.item \in {"addr1", "addr0"} ->
         [ctx[t.slot] EXCEPT !.st = LeadsTo(t.item, @), !.port = t.port,
                             !.deq = 0, !.cycle = 1]
    [] OTHER -> [ctx[t.slot] EXCEPT !.st = LeadsTo(t.item, @)]

\* The next command is executed and its completion posted.
XhcCommand ==
  /\ ~hung /\ xcmd.run
  /\ xcmd.deq # CMD_N - 1 /\ cmd[xcmd.deq].cyc = xcmd.cycle
  /\ LET t == cmd[xcmd.deq]
         free == {s \in Slots : ctx[s].st = "off"}
     IN  \/ /\ t.item = "enable" /\ free # {}
            /\ LET s == CHOOSE s \in free : \A r \in free : s <= r IN
               /\ ctx' = [ctx EXCEPT ![s] = [NoCtx EXCEPT !.st = "enabled", !.port = t.port]]
               /\ evts' = Append(evts, Event("cmd", s, TRUE, t))
         \/ /\ t.item = "enable" /\ free = {}
            /\ evts' = Append(evts, Event("cmd", 0, FALSE, t))
            /\ UNCHANGED ctx
         \/ /\ t.item # "enable" /\ ctx[t.slot].st \in LegalIn[t.item]
            /\ ctx' = [ctx EXCEPT ![t.slot] = Execute(t)]
            /\ evts' = Append(evts, Event("cmd", t.slot, TRUE, t))
         \/ /\ t.item # "enable"
            /\ \/ ctx[t.slot].st \notin LegalIn[t.item]
               \/ t.item # "disable" /\ dev[t.port] = "flaky"
            /\ evts' = Append(evts, Event("cmd", t.slot, FALSE, t))
            /\ UNCHANGED ctx
  /\ xcmd' = [xcmd EXCEPT !.deq = @ + 1]
  /\ UNCHANGED <<board, driver, memory, hung, portEvts>>

\* The Link TRB is followed, or the ring has run dry.
XhcCommandEnd ==
  /\ ~hung /\ xcmd.run
  /\ \/ /\ xcmd.deq = CMD_N - 1 /\ cmd[xcmd.deq].cyc = xcmd.cycle
        /\ xcmd' = [xcmd EXCEPT !.deq = 0, !.cycle = Flip(@)]
     \/ /\ cmd[xcmd.deq].cyc # xcmd.cycle
        /\ xcmd' = [xcmd EXCEPT !.run = FALSE]
  /\ UNCHANGED <<board, driver, memory, evts, ctx, hung, portEvts>>

\* One TRB of a control transfer.  The last stage posts the Transfer Event
\* and, for a read, has filled the descriptor buffer; a failure halts EP0.
XhcTransfer(s) ==
  /\ ~hung /\ ctx[s].run = "active"
  /\ LET c == ctx[s]
         t == ep0[c.port][c.deq]
         m == RingSkip(c.deq, c.cycle, EP0_N)
     IN  \/ /\ t.cyc # c.cycle
            /\ ctx' = [ctx EXCEPT ![s].run = "idle"]
            /\ UNCHANGED <<evts, buf>>
         \/ /\ t.cyc = c.cycle
            /\ ctx' = [ctx EXCEPT ![s].deq = m[1], ![s].cycle = m[2]]
            /\ IF t.item \in Transfers
                 THEN /\ evts' = Append(evts, Event("xfer", s, TRUE, t))
                      /\ buf' = IF t.item \in Reads THEN [buf EXCEPT ![c.port] = t.item] ELSE buf
                 ELSE UNCHANGED <<evts, buf>>
         \/ /\ t.cyc = c.cycle /\ t.item \in Transfers /\ dev[c.port] = "flaky"
            /\ ctx' = [ctx EXCEPT ![s].run = "halted"]
            /\ evts' = Append(evts, Event("xfer", s, FALSE, t))
            /\ UNCHANGED buf
  /\ UNCHANGED <<board, driver, cmd, ep0, xcmd, hung, portEvts>>

\* A port status change event.
XhcPortEvent ==
  /\ ~hung /\ portEvts < MaxPortEvents /\ step # "done"
  /\ portEvts' = portEvts + 1
  /\ evts' = Append(evts, Event("port", 0, TRUE, [item |-> "none", port |-> 0]))
  /\ UNCHANGED <<board, driver, memory, xcmd, ctx, hung>>

\* The controller stops answering.
XhcHang ==
  /\ ~hung /\ step # "done"
  /\ hung' = TRUE
  /\ UNCHANGED <<board, driver, memory, evts, xcmd, ctx, portEvts>>

Xhc == XhcCommand \/ XhcCommandEnd \/ \E s \in Slots : XhcTransfer(s)

Next == Driver \/ Xhc \/ XhcPortEvent \/ XhcHang

\* The boot code runs on and its deadlines pass; a controller that is not
\* hung gets its work done.
Spec == Init /\ [][Next]_vars /\ WF_vars(Driver) /\ WF_vars(Xhc)

-----------------------------------------------------------------------------
(* Properties.                                                             *)

Used == {s \in Slots : ctx[s].st # "off"}

\* disable_slot: whatever has failed, the loop reaches the next port, or its
\* end, with every slot but the keyboard's back in the controller's pool.
SlotsReturned ==
  step \in {"scan", "done"} /\ ~xcmd.run /\ ~hung => Used \subseteq {kbdSlot}

\* wait_cmd: the completion it returns is the completion of the command
\* pushed last.
CompletionIsOwn ==
  answer.asked \in Commands => answer.asked = answer.of /\ answer.port = answer.ofPort

\* ctrl_in: after a successful read, the descriptor buffer holds the bytes
\* of that read.
DataIsAnswer ==
  waiting = FALSE /\ answer.asked \in Reads /\ answer.ok /\ answer.port = port
    /\ step = NextStep(answer.asked, TRUE) => buf[port] = answer.asked

\* The port loop: on a prompt controller, a keyboard that answers is found,
\* whatever is plugged in at the other ports.
KeyboardFound ==
  prompt /\ step = "done" /\ port > NPorts /\ ~hung => \A p \in Ports : dev[p] # "kbd"

\* The handover: on a prompt controller, no event or transfer of EP0 is left
\* that take_hid_report would take for a report of the keyboard.
HandoverClean ==
  prompt /\ kbdSlot # 0 /\ ~hung =>
    /\ ctx[kbdSlot].st = "configured" /\ ctx[kbdSlot].port = port
    /\ \A i \in 1..Len(evts) : ~(evts[i].kind = "xfer" /\ evts[i].slot = kbdSlot)

\* The waits and the retries are bounded: boot goes on, also without a
\* working controller.
EnumerationEnds == <>(step = "done")
=============================================================================
