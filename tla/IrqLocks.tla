------------------------------ MODULE IrqLocks ------------------------------
(***************************************************************************)
(* The spin locks shared by kernel_main and the interrupt handlers, from   *)
(* the moment kernel_main enables interrupts: the boot messages, the       *)
(* hand-over of the USB keyboard to the timer handler, the prompt, the     *)
(* drain/hlt loop and the panic handler.                                   *)
(*                                                                         *)
(* One core: a handler that finds a lock taken by the code it interrupted  *)
(* spins for ever, because that code cannot run to release it.             *)
(***************************************************************************)
EXTENDS Naturals, Sequences

CONSTANTS
  DBG_CAP,       \* reports take_hid_report logs to the serial port (16)
  BLINK_PERIOD,  \* timer ticks per cursor blink (500)
  QuietBoot      \* no HID report arrives outside the drain/hlt loop

ASSUME ParameterAssumption ==
  DBG_CAP \in Nat /\ BLINK_PERIOD \in Nat \ {0} /\ QuietBoot \in BOOLEAN

Locks == {"SERIAL1", "WRITER", "SHELL", "HID_PREV", "MODIFIERS"}

\* A message on a lock-protected device.
Message(l) == << <<"lock", l>>, <<"unlock", l>> >>

\* kernel_main after sti: its own messages, the read of port 0x60, the
\* messages of timer::init and xhci::init; the timer starts in timer::init,
\* KBD_READY is set in xhci::init before its last two messages.  What
\* "read", "calibrate" and "hlt" wait for is in Boot.
BootScript ==
  Message("WRITER") \o << <<"read", "port">> >> \o Message("WRITER")
  \o << <<"calibrate", "pit">> >> \o Message("SERIAL1") \o << <<"timer", "on">> >>
  \o Message("WRITER") \o Message("SERIAL1") \o << <<"ready", "on">> >>
  \o Message("SERIAL1") \o Message("WRITER") \o Message("WRITER") \o Message("SERIAL1")
  \o << <<"lock", "SHELL">> >> \o Message("WRITER") \o << <<"unlock", "SHELL">> >>

LoopStart == Len(BootScript) + 1

\* One pass of the loop: a drained byte is handled, and drawn, under SHELL;
\* then hlt, which sleeps and wakes.
LoopScript ==
  << <<"lock", "SHELL">> >> \o Message("WRITER") \o << <<"unlock", "SHELL">> >>
  \o << <<"hlt", "sleep">>, <<"hlt", "wake">> >>

PanicStart == LoopStart + Len(LoopScript)

\* The panic handler: forced unlocks, then the report on both devices.
PanicScript ==
  << <<"force", "unlock">> >> \o Message("SERIAL1") \o Message("WRITER") \o Message("WRITER")

Script == BootScript \o LoopScript \o PanicScript
Halted == Len(Script) + 1

VARIABLES
  mpc,       \* position of kernel_main or of the panic handler in Script
  owner,     \* "main" for a lock the main flow holds, else "free"
  isr,       \* "none", or "spin" once a handler waits for a held lock
  timerOn,   \* the LAPIC timer is running
  ready,     \* KBD_READY
  logged,    \* KBD_DBG_COUNT, up to DBG_CAP
  blink,     \* BLINK_COUNTER modulo BLINK_PERIOD
  shown      \* the framebuffer's blink_on

vars == <<mpc, owner, isr, timerOn, ready, logged, blink, shown>>

Init ==
  /\ mpc = 1
  /\ owner = [l \in Locks |-> "free"]
  /\ isr = "none"
  /\ timerOn = FALSE /\ ready = FALSE
  /\ logged = 0 /\ blink = 0 /\ shown = FALSE

-----------------------------------------------------------------------------
(* kernel_main and the panic handler.                                      *)

\* Where the script goes after position p: the loop repeats.
After(p) == IF p = PanicStart - 1 THEN LoopStart ELSE p + 1

\* Mutant: the panic handler trusts the locks it finds.
NoForce == owner

\* SERIAL1.force_unlock(), WRITER.force_unlock()
ForceUnlock == [owner EXCEPT !["SERIAL1"] = "free", !["WRITER"] = "free"]

\* The guard of a lock is dropped.
Unlock(l) == [owner EXCEPT ![l] = "free"]

\* The main flow executes one operation; a taken lock makes it spin.
\* xhci::init sets KBD_READY if it finds a keyboard.
Main ==
  /\ isr = "none" /\ mpc \in 1..Len(Script)
  /\ LET op == Script[mpc] IN
     /\ op[1] = "lock" => owner[op[2]] = "free"
     /\ owner' = CASE op[1] = "lock"   -> [owner EXCEPT ![op[2]] = "main"]
                   [] op[1] = "unlock" -> Unlock(op[2])
                   [] op[1] = "force"  -> ForceUnlock
                   [] OTHER            -> owner
     /\ timerOn' = (timerOn \/ op[1] = "timer")
     /\ ready' \in (IF op[1] = "ready" THEN BOOLEAN ELSE {ready})
  /\ mpc' = After(mpc)
  /\ UNCHANGED <<isr, logged, blink, shown>>

\* A Rust panic or a CPU exception, at any point of the main flow.
Panic ==
  /\ isr = "none" /\ mpc < PanicStart
  /\ mpc' = PanicStart
  /\ UNCHANGED <<owner, isr, timerOn, ready, logged, blink, shown>>

-----------------------------------------------------------------------------
(* The handlers.                                                           *)

InLoop == mpc \in LoopStart..PanicStart-1

\* Locks the timer handler takes with lock(): the serial port for one of the
\* first DBG_CAP reports, HID_PREV for every report; without a USB keyboard
\* a polled scancode takes MODIFIERS.
TimerNeeds(report) ==
  (IF report THEN {"HID_PREV"} ELSE {})
    \cup (IF report /\ logged < DBG_CAP THEN {"SERIAL1"} ELSE {})
    \cup (IF ready THEN {} ELSE {"MODIFIERS"})

\* KBD_DBG_COUNT after a tick; beyond the limit its value does not matter.
Logged(report) == IF report /\ logged < DBG_CAP THEN logged + 1 ELSE logged

BlinkDue == blink = BLINK_PERIOD - 1

\* Mutant: cursor_tick takes the lock.
CursorTickSpins ==
  /\ isr' = IF BlinkDue /\ owner["WRITER"] # "free" THEN "spin" ELSE "none"
  /\ shown' = IF BlinkDue THEN ~shown ELSE shown

\* cursor_tick: draw if the lock is free, skip the blink if it is not.
CursorTick ==
  /\ isr' = "none"
  /\ shown' = IF BlinkDue /\ owner["WRITER"] = "free" THEN ~shown ELSE shown

\* timer_handler: take_hid_report, the PS/2 poll, tick.  It spins for good
\* on the first held lock.
TimerTick(report) ==
  /\ isr = "none" /\ timerOn
  /\ report => ready /\ (QuietBoot => InLoop)
  /\ IF \E l \in TimerNeeds(report) : owner[l] # "free"
       THEN /\ isr' = "spin"
            /\ UNCHANGED <<logged, blink, shown>>
       ELSE /\ logged' = Logged(report)
            /\ blink' = (blink + 1) % BLINK_PERIOD
            /\ CursorTick
  /\ UNCHANGED <<mpc, owner, timerOn, ready>>

\* keyboard_handler: process_scancode takes MODIFIERS and gives it back.
KeyboardIrq ==
  /\ isr = "none"
  /\ isr' = IF owner["MODIFIERS"] # "free" THEN "spin" ELSE "none"
  /\ UNCHANGED <<mpc, owner, timerOn, ready, logged, blink, shown>>

Next == Main \/ Panic \/ (\E r \in BOOLEAN : TimerTick(r)) \/ KeyboardIrq

\* The processor goes on executing the main flow between interrupts.
Spec == Init /\ [][Next]_vars /\ WF_vars(Main)

-----------------------------------------------------------------------------
(* Properties.                                                             *)

\* ADR-013: no handler ever waits for a lock that the code it interrupted
\* holds.
IsrNeverSpins == isr = "none"

\* kernel_main and the panic handler: with interrupts coming in at any point,
\* the main flow gets round its loop for ever or, if it panics anywhere and
\* whatever locks it holds then, the panic is reported on both devices.
MainNeverStuck == []<>(mpc = LoopStart) \/ <>[](mpc = Halted)
=============================================================================
