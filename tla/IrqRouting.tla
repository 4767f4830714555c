----------------------------- MODULE IrqRouting -----------------------------
(***************************************************************************)
(* How interrupts get to their handlers: the part of kernel_main that      *)
(* calibrates the TSC, reads the ACPI tables, masks the 8259, sets up the  *)
(* 8042, the local APIC, the I/O APIC, the IDT and the LAPIC timer         *)
(* (hal/src/time.rs, acpi.rs, pic.rs, ps2.rs, apic.rs, timer.rs,           *)
(* kernel/src/idt.rs), and the hardware it sets up: PIT channel 2, the     *)
(* keyboard's line, both interrupt controllers and the processor's         *)
(* acceptance of a vector.                                                 *)
(*                                                                         *)
(* The handlers are in IrqLocks; here a handler is what it does to the     *)
(* interrupt hardware.  Boot composes the two.                             *)
(***************************************************************************)
EXTENDS Acpi, FiniteSets

CONSTANTS
  Firmwares,   \* RSDPs a machine may come with
  IoApics,     \* [base, n]: the I/O APICs of the machine
  LapicId,     \* the boot processor's APIC id
  PitCount,    \* PIT_COUNT: what channel 2 counts down from
  Elapsed,     \* LAPIC timer ticks that ten milliseconds may take
  Stalls       \* the processor may be held up for longer than PitCount

TIMER_VECTOR == 32
KBD_VECTOR == 33
SPURIOUS_VECTOR == 255
FirmwareVector == 8      \* IRQ0 of an 8259 that was not remapped

VARIABLES
  bpc,      \* where kernel_main is; "run" once routing is finished
  wire,     \* ISA IRQ1 on this machine: [gsi, low, level]
  info,     \* APIC_INFO
  kbc,      \* the 8042: [port, irq, obf]
  picMask,  \* every line of the 8259 is masked
  lapic,    \* the local APIC: [on, irr, isr], requested and in service
  redir,    \* redirection entries: [dest, vec, low, level, masked]
  gates,    \* vectors with a handler in the loaded IDT
  iflag,    \* IF of the processor
  ltimer,   \* the LAPIC timer: [masked, initial]
  pit,      \* channel 2: [gate, out, left]
  crashed   \* a vector without a handler was taken

rvars == <<bpc, wire, info, kbc, picMask, lapic, redir, gates, iflag, ltimer, pit, crashed>>

Entries == UNION {{<<io.base, i>> : i \in 0..io.n-1} : io \in IoApics}
Masked == [dest |-> 0, vec |-> 0, low |-> FALSE, level |-> FALSE, masked |-> TRUE]

RInit ==
  /\ bpc = "tscProgram"
  /\ wire = [gsi |-> 1, low |-> FALSE, level |-> FALSE]
  /\ info = NoInfo
  /\ kbc = [port |-> TRUE, irq |-> FALSE, obf |-> FALSE]
  /\ picMask = FALSE
  /\ lapic = [on |-> FALSE, irr |-> {}, isr |-> {}]
  /\ redir = [e \in Entries |-> Masked]
  /\ gates = {}
  /\ iflag = FALSE
  /\ ltimer = [masked |-> TRUE, initial |-> 0]
  /\ pit = [gate |-> FALSE, out |-> TRUE, left |-> 0]
  /\ crashed = FALSE

-----------------------------------------------------------------------------
(* The wait on PIT channel 2 that time::calibrate and calibrate_with_pit   *)
(* share: program it, open the gate, see its output low, see it high.      *)

\* Mode 0: the control word takes the output low until the count is done.
PitProgram(at, next) ==
  /\ bpc = at /\ bpc' = next
  /\ pit' = [gate |-> FALSE, out |-> FALSE, left |-> PitCount]

PitStart(at, next) ==
  /\ bpc = at /\ bpc' = next
  /\ pit' = [pit EXCEPT !.gate = TRUE]

\* while inb(0x61) & 0x20 != 0
PitSeenLow(at, next) ==
  /\ bpc = at /\ ~pit.out
  /\ bpc' = next /\ UNCHANGED pit

\* while inb(0x61) & 0x20 == 0, and port 0x61 as it was
PitSeenHigh(at, next) ==
  /\ bpc = at /\ pit.out
  /\ bpc' = next
  /\ pit' = [pit EXCEPT !.gate = FALSE]

\* time::calibrate; TSC_KHZ is only printed.
TscCalibrate ==
  /\ \/ PitProgram("tscProgram", "tscStart")
     \/ PitStart("tscStart", "tscLow")
     \/ PitSeenLow("tscLow", "tscHigh")
     \/ PitSeenHigh("tscHigh", "acpi")
  /\ UNCHANGED <<wire, info, kbc, picMask, lapic, redir, gates, iflag, ltimer, crashed>>

-----------------------------------------------------------------------------
(* kernel_main up to sti.                                                  *)

\* The wiring a truthful table describes: the override of ISA IRQ 1 in the
\* MADT that ACPI tells an operating system to use, else the ISA default.
Wiring(rsdp) ==
  LET root == IF rsdp.rev >= 2 THEN rsdp.xsdt ELSE rsdp.rsdt
      ics == UNION {Range(t.ics) : t \in {t \in Range(root.tables) : t.sig = "APIC"}}
      ovs == {ic \in ics : ic.type = 2 /\ ic.bus = 0 /\ ic.source = 1}
  IN  IF ovs = {} THEN [gsi |-> 1, low |-> FALSE, level |-> FALSE]
      ELSE LET o == CHOOSE o \in ovs : TRUE
           IN  [gsi |-> o.gsi, low |-> o.polarity = 3, level |-> o.trigger = 3]

\* ISA IRQ 1 as apic::init reads it off an ApicInfo.
ReadWiring(i) ==
  LET o == i.overrides[1]
  IN  IF o.some THEN [gsi |-> o.gsi, low |-> o.low, level |-> o.level]
      ELSE [gsi |-> 1, low |-> FALSE, level |-> FALSE]

\* The machine is sane: the GSIs of its I/O APICs do not overlap, the
\* keyboard's line is on one of them, and the tables are truthful: where
\* acpi::parse finds an ApicInfo in them, ISA IRQ 1 is wired as it reads.
ASSUME MachineAssumption ==
  /\ IoApics \subseteq [base : Nat, n : Nat]
  /\ \A d, e \in Entries : d[1] + d[2] = e[1] + e[2] => d = e
  /\ \E e \in Entries : e[1] + e[2] = 1
  /\ \A f \in Firmwares :
       /\ \E e \in Entries : e[1] + e[2] = Wiring(f).gsi
       /\ parse(f).some => parse(f).base \in Nat /\ ReadWiring(parse(f)) = Wiring(f)

\* acpi::init, or its absence when the bootloader passes no RSDP.
AcpiInit ==
  /\ bpc = "acpi"
  /\ \/ \E f \in Firmwares : wire' = Wiring(f) /\ info' = parse(f)
     \/ UNCHANGED <<wire, info>>
  /\ bpc' = "cli"
  /\ UNCHANGED <<kbc, picMask, lapic, redir, gates, iflag, ltimer, pit, crashed>>

\* cli, and pic::mask_all
MaskAll ==
  /\ bpc = "cli"
  /\ iflag' = FALSE /\ picMask' = TRUE
  /\ bpc' = "ps2"
  /\ UNCHANGED <<wire, info, kbc, lapic, redir, gates, ltimer, pit, crashed>>

\* ps2::init: both ports off and the output buffer flushed ...
Ps2Flush ==
  /\ bpc = "ps2"
  /\ kbc' = [kbc EXCEPT !.port = FALSE, !.obf = FALSE]
  /\ bpc' = "ps2cfg"
  /\ UNCHANGED <<wire, info, picMask, lapic, redir, gates, iflag, ltimer, pit, crashed>>

\* ... the configuration byte with IRQ1 enabled, port 1 on again.
Ps2Enable ==
  /\ bpc = "ps2cfg"
  /\ kbc' = [kbc EXCEPT !.irq = TRUE, !.port = TRUE]
  /\ bpc' = "apic"
  /\ UNCHANGED <<wire, info, picMask, lapic, redir, gates, iflag, ltimer, pit, crashed>>

\* apic::init: the 8259 masked once more, the IMCR, the spurious vector
\* register and the task priority.
LapicEnable ==
  /\ bpc = "apic" /\ info.some
  /\ picMask' = TRUE
  /\ lapic' = [lapic EXCEPT !.on = TRUE]
  /\ bpc' = "hi"
  /\ UNCHANGED <<wire, info, kbc, redir, gates, iflag, ltimer, pit, crashed>>

\* apic::init expects ApicInfo.
ApicPanic ==
  /\ bpc = "apic" /\ ~info.some
  /\ bpc' = "dead"
  /\ UNCHANGED <<wire, info, kbc, picMask, lapic, redir, gates, iflag, ltimer, pit, crashed>>

Kbd == info.overrides[1]
KbdGsi == IF Kbd.some THEN Kbd.gsi ELSE 1

\* Mutant: the I/O APIC is taken to start at GSI 0.
EntryOfGsi == <<info.base, KbdGsi>>

\* The redirection entry's place: kbd_gsi - ioapic_gsi_base.
Entry == <<info.base, KbdGsi - info.base>>

\* An interrupt below the I/O APIC's first is an overflow: a build with
\* overflow checks panics, one without them writes to registers that are no
\* redirection entries: the eight-bit number wraps to below 0x10 or to the top.
GsiPanic ==
  /\ bpc = "hi" /\ KbdGsi < info.base
  /\ bpc' = "dead"
  /\ UNCHANGED <<wire, info, kbc, picMask, lapic, redir, gates, iflag, ltimer, pit, crashed>>

\* The high half of the redirection entry: its destination.
RedirHi ==
  /\ bpc = "hi"
  /\ redir' = IF Entry \in Entries THEN [redir EXCEPT ![Entry].dest = LapicId]
              ELSE redir
  /\ bpc' = "lo"
  /\ UNCHANGED <<wire, info, kbc, picMask, lapic, gates, iflag, ltimer, pit, crashed>>

\* The low half: vector, polarity, trigger mode, and the mask bit cleared.
RedirLo ==
  /\ bpc = "lo"
  /\ redir' = IF Entry \in Entries
                THEN [redir EXCEPT ![Entry] =
                        [dest |-> @.dest, vec |-> KBD_VECTOR,
                         low |-> Kbd.some /\ Kbd.low, level |-> Kbd.some /\ Kbd.level,
                         masked |-> FALSE]]
                ELSE redir
  /\ bpc' = "idt"
  /\ UNCHANGED <<wire, info, kbc, picMask, lapic, gates, iflag, ltimer, pit, crashed>>

\* Mutant: the spurious vector has no handler.
GatesWithoutSpurious == {TIMER_VECTOR, KBD_VECTOR}

\* The interrupt gates of the IDT.
Gates == {TIMER_VECTOR, KBD_VECTOR, SPURIOUS_VECTOR}

IdtInit ==
  /\ bpc = "idt"
  /\ gates' = Gates
  /\ bpc' = "sti"
  /\ UNCHANGED <<wire, info, kbc, picMask, lapic, redir, iflag, ltimer, pit, crashed>>

Sti ==
  /\ bpc = "sti"
  /\ iflag' = TRUE
  /\ bpc' = "read"
  /\ UNCHANGED <<wire, info, kbc, picMask, lapic, redir, gates, ltimer, pit, crashed>>

-----------------------------------------------------------------------------
(* kernel_main after sti.                                                  *)

\* The read of port 0x60 for a debug message.
BootRead ==
  /\ bpc = "read"
  /\ kbc' = [kbc EXCEPT !.obf = FALSE]
  /\ bpc' = "calProgram"
  /\ UNCHANGED <<wire, info, picMask, lapic, redir, gates, iflag, ltimer, pit, crashed>>

\* The count of a millisecond; zero would stop the timer.
TicksPerMs(elapsed) == IF elapsed \div 10 = 0 THEN 1 ELSE elapsed \div 10

\* calibrate_with_pit: the LAPIC timer counts, masked, beside channel 2.
TimerCalibrate ==
  /\ \/ /\ PitProgram("calProgram", "calStart")
        /\ ltimer' = [masked |-> TRUE, initial |-> 0]
     \/ PitStart("calStart", "calLow") /\ UNCHANGED ltimer
     \/ PitSeenLow("calLow", "calHigh") /\ UNCHANGED ltimer
     \/ /\ PitSeenHigh("calHigh", "periodic")
        /\ \E e \in Elapsed : ltimer' = [ltimer EXCEPT !.initial = TicksPerMs(e)]
  /\ UNCHANGED <<wire, info, kbc, picMask, lapic, redir, gates, iflag, crashed>>

\* timer::init's last part: periodic, not masked, one millisecond.
TimerPeriodic ==
  /\ bpc = "periodic"
  /\ ltimer' = [ltimer EXCEPT !.masked = FALSE]
  /\ bpc' = "run"
  /\ UNCHANGED <<wire, info, kbc, picMask, lapic, redir, gates, iflag, pit, crashed>>

BeforeSti == \/ TscCalibrate \/ AcpiInit \/ MaskAll \/ Ps2Flush \/ Ps2Enable
             \/ LapicEnable \/ RedirHi \/ RedirLo \/ IdtInit \/ Sti
BootPanic == ApicPanic \/ GsiPanic

-----------------------------------------------------------------------------
(* The hardware.                                                           *)

\* The I/O APIC that has the keyboard's line, and its entry for it.
WiredEntry == CHOOSE e \in Entries : e[1] + e[2] = wire.gsi

\* A request on the keyboard's line as its redirection entry passes it on.
\* An entry that disagrees with the line never sees its edge.
Requested ==
  LET r == redir[WiredEntry]
  IN  IF ~r.masked /\ r.dest = LapicId /\ lapic.on
           /\ r.low = wire.low /\ r.level = wire.level
        THEN {r.vec} ELSE {}

\* A byte reaches the 8042's output register and raises the line.
KeyArrives ==
  /\ kbc.port /\ ~kbc.obf
  /\ kbc' = [kbc EXCEPT !.obf = TRUE]
  /\ lapic' = IF kbc.irq THEN [lapic EXCEPT !.irr = @ \cup Requested] ELSE lapic
  /\ UNCHANGED <<bpc, wire, info, picMask, redir, gates, iflag, ltimer, pit, crashed>>

\* A line that is level triggered requests as long as it is raised.
LineHeld ==
  /\ wire.level /\ kbc.obf /\ kbc.irq
  /\ ~(Requested \subseteq lapic.irr)
  /\ lapic' = [lapic EXCEPT !.irr = @ \cup Requested]
  /\ UNCHANGED <<bpc, wire, info, kbc, picMask, redir, gates, iflag, ltimer, pit, crashed>>

\* The LAPIC timer counts down, and again if it is periodic.
TimerFires ==
  /\ ~ltimer.masked /\ ltimer.initial > 0 /\ TIMER_VECTOR \notin lapic.irr
  /\ lapic' = [lapic EXCEPT !.irr = @ \cup {TIMER_VECTOR}]
  /\ UNCHANGED <<bpc, wire, info, kbc, picMask, redir, gates, iflag, ltimer, pit, crashed>>

\* Channel 2 counts while its gate is open; the output rises at zero.
PitTick ==
  /\ pit.gate /\ pit.left > 0
  /\ pit.left > 1 \/ Stalls \/ bpc \notin {"tscLow", "calLow"}
  /\ pit' = [pit EXCEPT !.left = @ - 1, !.out = pit.left = 1]
  /\ UNCHANGED <<bpc, wire, info, kbc, picMask, lapic, redir, gates, iflag, ltimer, crashed>>

\* The processor takes a vector: one of the highest priority class that is
\* requested, if none of that class is in service.
Accept(v) ==
  /\ iflag /\ ~crashed
  /\ v \in lapic.irr /\ lapic.isr = {}
  /\ crashed' = (v \notin gates)

\* A spurious vector, or an interrupt of an 8259 line left open.
Stray ==
  /\ iflag /\ ~crashed
  /\ \E v \in (IF lapic.on THEN {SPURIOUS_VECTOR} ELSE {})
              \cup (IF picMask THEN {} ELSE {FirmwareVector}) :
       crashed' = (v \notin gates)
  /\ UNCHANGED <<bpc, wire, info, kbc, picMask, lapic, redir, gates, iflag, ltimer, pit>>

-----------------------------------------------------------------------------
(* What the handlers do to the hardware.                                   *)

\* Mutant: the handler returns without an end of interrupt.
NoEoi(v) == [lapic EXCEPT !.irr = @ \ {v}, !.isr = @ \cup {v}]

\* The vector goes into service, and end_of_interrupt takes it out again.
ServeAndEoi(v) == [lapic EXCEPT !.irr = @ \ {v}]

\* keyboard_handler reads port 0x60; timer_handler does if it polls.
Serve(v, reads) ==
  /\ Accept(v)
  /\ lapic' = ServeAndEoi(v)
  /\ kbc' = IF reads THEN [kbc EXCEPT !.obf = FALSE] ELSE kbc
  /\ UNCHANGED <<bpc, wire, info, picMask, redir, gates, iflag, ltimer, pit>>
=============================================================================
