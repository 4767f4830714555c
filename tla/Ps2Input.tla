------------------------------ MODULE Ps2Input ------------------------------
(***************************************************************************)
(* The PS/2 keyboard path: the 8042 controller and the edge-triggered IRQ1 *)
(* behind the I/O APIC (external), the two readers of port 0x60 --         *)
(* keyboard_handler and the poll in timer_handler -- the read that         *)
(* kernel_main makes after sti, and the decoder process_scancode.          *)
(*                                                                         *)
(* Both readers are interrupt handlers and exclude each other, but the     *)
(* controller runs beside them: a byte may arrive after timer_handler was  *)
(* entered and before it polls, and then its interrupt is still pending    *)
(* when the poll has consumed it.                                          *)
(***************************************************************************)
EXTENDS Naturals, Sequences, FiniteSets, SequencesExt

CONSTANTS
  Keys,       \* keys on the keyboard, a subset of those Make knows
  MaxBytes    \* bound: scancode bytes the keyboard sends

ASSUME KeysAssumption == Keys \subseteq {"LShift", "RShift", "Ctrl", "Caps", "A", "Up"}
ASSUME BoundAssumption == MaxBytes \in Nat

VARIABLES
  phase,     \* kernel_main: "boot" before its read of 0x60, then "run"
  kbdReady,  \* hal::xhci::kbd_ready()
  isr,       \* "none", or "timer" between entering and polling
  sent,      \* every byte the keyboard has sent
  loaded,    \* how many of them have reached the output register
  base,      \* history: `loaded' when interrupts were enabled
  obf,       \* output buffer full, status bit 0
  irq,       \* IRQ1 is pending in the local APIC
  extended,  \* EXTENDED
  mods,      \* MODIFIERS
  held,      \* keys the user holds down
  processed, \* history: index in `sent' of each byte processed
  typed,     \* history: what process_scancode pushed
  want       \* history: what the keys pressed mean

decoder == <<extended, mods, processed, typed>>
vars == <<phase, kbdReady, isr, sent, loaded, base, obf, irq, extended, mods,
          held, processed, typed, want>>

Shifts == {"LShift", "RShift"}

\* Scancode set 1 for the modelled keys; "-" marks a break code.
Make(k) == IF k = "Up" THEN <<"E0", "48">> ELSE <<k>>
Break(k) == CASE k = "Up"     -> <<"E0", "C8">>
              [] k = "LShift" -> <<"LShift-">>
              [] k = "RShift" -> <<"RShift-">>
              [] k = "Ctrl"   -> <<"Ctrl-">>
              [] k = "Caps"   -> <<"Caps-">>
              [] k = "A"      -> <<"A-">>

\* What a keystroke pushes: its case, or its control code.
Letter(shift, caps, ctrl) ==
  IF ctrl THEN "^a" ELSE IF shift # caps THEN "A" ELSE "a"

\* A byte may have been left in the controller by the firmware; its edge
\* came while IRQ1 was not routed.
Init ==
  /\ phase = "boot" /\ kbdReady = FALSE /\ isr = "none"
  /\ \/ sent = <<>> /\ loaded = 0 /\ obf = FALSE
     \/ sent = <<"FE">> /\ loaded = 1 /\ obf = TRUE
  /\ base = loaded
  /\ irq = FALSE /\ extended = FALSE
  /\ mods = [shift |-> FALSE, ctrl |-> FALSE, caps |-> FALSE]
  /\ held = {} /\ processed = <<>> /\ typed = <<>> /\ want = <<>>

-----------------------------------------------------------------------------
(* The user, the keyboard and its controller.                              *)

\* Caps lock is on when it has been pressed an odd number of times.
CapsOn == Cardinality({i \in 1..Len(sent) : sent[i] = "Caps"}) % 2 = 1

Press(k) ==
  /\ phase = "run" /\ k \notin held
  /\ Len(sent) + Len(Make(k)) <= MaxBytes
  /\ held' = held \cup {k}
  /\ sent' = sent \o Make(k)
  /\ want' = CASE k = "A"  -> Append(want, Letter(held \cap Shifts # {}, CapsOn, "Ctrl" \in held))
               [] k = "Up" -> Append(want, "up")
               [] OTHER    -> want
  /\ UNCHANGED <<phase, kbdReady, isr, loaded, base, obf, irq, decoder>>

Release(k) ==
  /\ k \in held
  /\ Len(sent) + Len(Break(k)) <= MaxBytes
  /\ held' = held \ {k}
  /\ sent' = sent \o Break(k)
  /\ UNCHANGED <<phase, kbdReady, isr, loaded, base, obf, irq, decoder, want>>

\* The next byte moves into the empty output register and raises IRQ1.
Load ==
  /\ ~obf /\ loaded < Len(sent)
  /\ loaded' = loaded + 1
  /\ obf' = TRUE /\ irq' = TRUE
  /\ UNCHANGED <<phase, kbdReady, isr, sent, base, decoder, held, want>>

-----------------------------------------------------------------------------
(* process_scancode.                                                       *)

\* Mutant: break codes are filtered out before the modifiers are looked at.
NextModsNoBreak(sc) ==
  CASE sc \in Shifts -> [mods EXCEPT !.shift = TRUE]
    [] sc = "Ctrl"   -> [mods EXCEPT !.ctrl = TRUE]
    [] sc = "Caps"   -> [mods EXCEPT !.caps = ~@]
    [] OTHER         -> mods

\* The modifiers after a byte that follows no prefix.
NextMods(sc) ==
  CASE sc \in Shifts               -> [mods EXCEPT !.shift = TRUE]
    [] sc \in {"LShift-", "RShift-"} -> [mods EXCEPT !.shift = FALSE]
    [] sc = "Ctrl"                 -> [mods EXCEPT !.ctrl = TRUE]
    [] sc = "Ctrl-"                -> [mods EXCEPT !.ctrl = FALSE]
    [] sc = "Caps"                 -> [mods EXCEPT !.caps = ~@]
    [] OTHER                       -> mods

\* Mutant: the prefix is not forgotten.
StickyPrefix(sc) == extended \/ sc = "E0"

\* EXTENDED: set by a prefix, consumed by the byte after it.
NextExtended(sc) == sc = "E0"

\* What the byte pushes into the ring; most bytes push nothing.
Pushes(sc) ==
  CASE extended /\ sc = "48"  -> <<"up">>
    [] ~extended /\ sc = "A"  -> <<Letter(mods.shift, mods.caps, mods.ctrl)>>
    [] OTHER                  -> <<>>

process_scancode(n) ==
  /\ extended' = NextExtended(sent[n])
  /\ mods' = IF extended \/ sent[n] = "E0" THEN mods ELSE NextMods(sent[n])
  /\ typed' = typed \o Pushes(sent[n])
  /\ processed' = Append(processed, n)

-----------------------------------------------------------------------------
(* The readers of port 0x60.  A read empties the register and returns the  *)
(* last byte loaded, also when the register is already empty.              *)

\* Mutant: kernel_main only looks at the status port.
BootSkipsRead ==
  /\ phase = "boot" /\ ~irq
  /\ phase' = "run"
  /\ UNCHANGED <<kbdReady, isr, sent, loaded, base, obf, irq, decoder, held, want>>

\* kernel_main reads 0x64 and 0x60 once after sti, for a debug message.
BootRead ==
  /\ phase = "boot" /\ ~irq
  /\ phase' = "run"
  /\ obf' = FALSE
  /\ UNCHANGED <<kbdReady, isr, sent, loaded, base, irq, decoder, held, want>>

\* xhci::init finds a USB keyboard, or does not.
XhciUp ==
  /\ phase = "run" /\ ~kbdReady
  /\ kbdReady' = TRUE
  /\ UNCHANGED <<phase, isr, sent, loaded, base, obf, irq, decoder, held, want>>

\* keyboard_handler: reads the port without looking at the status.
KeyboardHandler ==
  /\ irq /\ isr = "none"
  /\ irq' = FALSE /\ obf' = FALSE
  /\ process_scancode(loaded)
  /\ UNCHANGED <<phase, kbdReady, isr, sent, loaded, base, held, want>>

\* timer_handler is entered when no interrupt of a higher vector is pending.
TimerEnter ==
  /\ phase = "run" /\ isr = "none" /\ ~irq
  /\ isr' = "timer"
  /\ UNCHANGED <<phase, kbdReady, sent, loaded, base, obf, irq, decoder, held, want>>

\* The poll of timer_handler, skipped once the USB keyboard is up.
TimerPoll ==
  /\ isr = "timer"
  /\ isr' = "none"
  /\ IF ~kbdReady /\ obf
       THEN obf' = FALSE /\ process_scancode(loaded)
       ELSE UNCHANGED <<obf, decoder>>
  /\ UNCHANGED <<phase, kbdReady, sent, loaded, base, irq, held, want>>

Handlers == KeyboardHandler \/ TimerPoll

Next ==
  \/ \E k \in Keys : Press(k) \/ Release(k)
  \/ Load \/ BootRead \/ XhciUp \/ Handlers \/ TimerEnter

\* The controller delivers what it has, kernel_main runs on, pending
\* interrupts are taken and handlers finish.
Fairness == WF_vars(Load) /\ WF_vars(BootRead) /\ WF_vars(Handlers)

Spec == Init /\ [][Next]_vars /\ Fairness

-----------------------------------------------------------------------------
(* Properties.                                                             *)

Processed(n) == \E i \in 1..Len(processed) : processed[i] = n
Quiet == ~obf /\ loaded = Len(sent) /\ (Len(sent) > base => Processed(Len(sent)))

\* process_scancode: once every byte has been processed, no modifier sticks
\* to a keyboard on which nothing is held, also after bytes that were
\* processed twice.
ModifiersNeverStick ==
  Quiet /\ held \cap {"LShift", "RShift", "Ctrl"} = {} => ~mods.shift /\ ~mods.ctrl

ReadTwice == \E i \in 2..Len(processed) : processed[i] = processed[i - 1]

\* process_scancode: unless a byte was read twice, what is typed is what
\* the pressed keys mean, in order.
TypedAsPressed ==
  ~ReadTwice => IsPrefix(typed, want) /\ (Quiet => typed = want)

\* The two readers: every byte sent is processed, with a USB keyboard
\* (interrupt only) and without (interrupt and poll), also if the firmware
\* left a byte behind whose edge is lost.
EveryByteProcessed ==
  \A n \in 1..MaxBytes :
    (Len(sent) >= n /\ n > base) ~> Processed(n)
=============================================================================
