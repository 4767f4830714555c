-------------------------------- MODULE Boot --------------------------------
(***************************************************************************)
(* The whole kernel as the processor sees it, from kernel_main's first     *)
(* instruction: the set-up of the interrupt hardware (IrqRouting), then    *)
(* the main flow with its spin locks (IrqLocks), interrupted by the        *)
(* vectors that the hardware really delivers.                              *)
(*                                                                         *)
(* The two modules share no variable.  A step here is a step of one of     *)
(* them, or of both: a handler runs (IrqLocks) when the local APIC         *)
(* delivers its vector (IrqRouting), the main flow reads port 0x60,        *)
(* calibrates and starts the timer where its script says so, and hlt waits *)
(* for a delivery.                                                         *)
(***************************************************************************)
EXTENDS IrqLocks, IrqRouting

VARIABLE asleep  \* the processor is halted and no interrupt has come yet

bvars == <<vars, rvars, asleep>>

BootInit == Init /\ RInit /\ asleep = FALSE

Op == Script[mpc]

-----------------------------------------------------------------------------
(* The main flow.                                                          *)

\* kernel_main with interrupts off.
Early ==
  /\ BeforeSti
  /\ UNCHANGED <<vars, asleep>>

\* A panic in apic::init: the panic handler runs with interrupts off.
EarlyPanic ==
  /\ BootPanic /\ Panic
  /\ UNCHANGED asleep

\* The operations of the script that touch no interrupt hardware.
Plain ==
  /\ iflag \/ mpc >= PanicStart
  /\ mpc <= Len(Script) /\ Op[1] \notin {"read", "calibrate", "timer", "hlt"}
  /\ Main
  /\ UNCHANGED <<rvars, asleep>>

ReadPort ==
  /\ mpc <= Len(Script) /\ Op[1] = "read"
  /\ BootRead /\ Main
  /\ UNCHANGED asleep

\* calibrate_with_pit, several steps in the same place of the script; the
\* last one moves on.
Calibrate ==
  /\ mpc <= Len(Script) /\ Op[1] = "calibrate" /\ isr = "none"
  /\ TimerCalibrate
  /\ IF bpc' = "periodic" THEN Main ELSE UNCHANGED vars
  /\ UNCHANGED asleep

StartTimer ==
  /\ mpc <= Len(Script) /\ Op[1] = "timer"
  /\ TimerPeriodic /\ Main
  /\ UNCHANGED asleep

\* hlt goes on once a handler has run since it began.
Halt ==
  /\ mpc <= Len(Script) /\ Op[1] = "hlt" /\ ~asleep
  /\ Main
  /\ asleep' = (Op[2] = "sleep")
  /\ UNCHANGED rvars

\* A panic leaves IF alone; an exception comes through an interrupt gate,
\* which clears it, and its handler panics.
LatePanic ==
  /\ iflag /\ ~asleep /\ Panic
  /\ iflag' \in BOOLEAN
  /\ UNCHANGED <<bpc, wire, info, kbc, picMask, lapic, redir, gates, ltimer, pit,
                 crashed, asleep>>

-----------------------------------------------------------------------------
(* The interrupts and the devices.                                         *)

TimerIrq ==
  /\ \E r \in BOOLEAN : TimerTick(r)
  /\ Serve(TIMER_VECTOR, ~ready /\ kbc.obf)
  /\ asleep' = FALSE

KbdIrq ==
  /\ KeyboardIrq
  /\ Serve(KBD_VECTOR, TRUE)
  /\ asleep' = FALSE

\* A vector of neither: spurious_handler returns at once.
StrayIrq ==
  /\ isr = "none" /\ Stray
  /\ asleep' = FALSE
  /\ UNCHANGED vars

Device(A) == A /\ UNCHANGED <<vars, asleep>>

MainFlow == Early \/ EarlyPanic \/ Plain \/ ReadPort \/ Calibrate \/ StartTimer \/ Halt

BootNext ==
  \/ ~crashed /\ (MainFlow \/ LatePanic)
  \/ TimerIrq \/ KbdIrq \/ StrayIrq
  \/ Device(KeyArrives) \/ Device(PitTick) \/ Device(TimerFires) \/ Device(LineHeld)

\* The processor executes, both counters count, a held line requests and a
\* requested vector is taken in the end.
BootSpec ==
  /\ BootInit /\ [][BootNext]_bvars
  /\ WF_bvars(~crashed /\ MainFlow)
  /\ WF_bvars(Device(PitTick)) /\ WF_bvars(Device(TimerFires)) /\ WF_bvars(Device(LineHeld))
  /\ WF_bvars(TimerIrq) /\ WF_bvars(KbdIrq)

-----------------------------------------------------------------------------
(* Properties.                                                             *)

\* idt::init, pic::mask_all, apic::init: whatever the tables say and however
\* far the set-up has come, no vector is taken that the IDT has no handler
\* for; that would be a triple fault, a reset without a message.
NoUnhandledVector == ~crashed

\* The first I/O APIC of the MADT, the one apic::init programs, has the
\* keyboard's line.
FirstHasKeyboard == info.some /\ info.base = WiredEntry[1]

\* apic::init: an open redirection entry is the keyboard's, in every detail
\* as the firmware wired the line (`the entry is never briefly live with
\* wrong flags', apic.rs:106), and once interrupts are on it is open, if the
\* I/O APIC that apic::init knows of is the one with the line.
RoutedAsWired ==
  /\ \A e \in Entries : ~redir[e].masked =>
       /\ e = WiredEntry
       /\ redir[e] = [dest |-> LapicId, vec |-> KBD_VECTOR, low |-> wire.low,
                      level |-> wire.level, masked |-> FALSE]
  /\ iflag /\ FirstHasKeyboard => ~redir[WiredEntry].masked

\* keyboard_handler, timer_handler, kernel_main: a byte in the 8042 is read
\* in the end, whether it came before, during or after the set-up (its edge
\* is lost while the redirection entry is masked), or the kernel panicked.  A
\* byte that nobody reads would silence the keyboard for good.
KeyHeard == (kbc.obf /\ FirstHasKeyboard) ~> (~kbc.obf \/ mpc >= PanicStart)
=============================================================================
