------------------------------ MODULE KeyRing -------------------------------
(***************************************************************************)
(* The input ring buffer of kernel/src/keyboard.rs: interrupt handlers     *)
(* push key bytes with rb_push, the main loop of kernel_main pulls them    *)
(* with drain() and sleeps in hlt when the ring is empty.                  *)
(*                                                                         *)
(* There is one core and every handler runs behind an interrupt gate, so a *)
(* handler is never interrupted, while the main loop can be interrupted    *)
(* between any two of its memory accesses.  `isr' holds the bytes the      *)
(* running handler has still to push; the main loop moves only when it is  *)
(* empty.                                                                  *)
(***************************************************************************)
EXTENDS Naturals, Sequences, SequencesExt

CONSTANTS
  CAP,         \* RB_CAP
  Byte,        \* the bytes handlers push; 0 is never one of them
  MaxKeys,     \* most bytes one handler pushes (6 for a HID report)
  MaxOffered   \* bound: bytes offered to the ring in one behaviour

ASSUME CapAssumption == CAP \in Nat /\ CAP >= 2
ASSUME ByteAssumption == Byte \subseteq 1..255
ASSUME BoundAssumption == MaxKeys \in Nat /\ MaxOffered \in Nat

VARIABLES
  buf,         \* RB.buf
  head,        \* RB_HEAD, written by handlers only
  tail,        \* RB_TAIL, written by drain only
  isr,         \* bytes the running handler has still to push
  mpc,         \* where the main loop is
  byte,        \* drain's local b
  accepted,    \* history: bytes stored in the ring, oldest first
  delivered,   \* history: bytes handed to Shell::push_char, oldest first
  dropped      \* history: bytes that found the ring full

mainv == <<tail, mpc, byte, delivered>>
vars == <<buf, head, tail, isr, mpc, byte, accepted, delivered, dropped>>

MainPC == {"check", "read", "store", "push", "idle", "hlt"}

\* (i + 1) & RB_MASK
Advance(i) == (i + 1) % CAP

Init ==
  /\ buf = [i \in 0..CAP-1 |-> 0]
  /\ head = 0
  /\ tail = 0
  /\ isr = <<>>
  /\ mpc = "check"
  /\ byte = 0
  /\ accepted = <<>>
  /\ delivered = <<>>
  /\ dropped = 0

-----------------------------------------------------------------------------
(* Interrupts.                                                             *)

\* Mutant: the handler returns into the hlt, as it does after cli; hlt.
InterruptNoWake(keys) ==
  /\ isr = <<>>
  /\ Len(accepted) + dropped + Len(keys) <= MaxOffered
  /\ isr' = keys
  /\ UNCHANGED <<buf, head, tail, mpc, byte, accepted, delivered, dropped>>

\* A timer or keyboard interrupt whose handler will push `keys' (none, for
\* a tick that finds no key).  It ends a hlt; anywhere else the main loop
\* resumes where it was, in particular just before its hlt.
Interrupt(keys) ==
  /\ isr = <<>>
  /\ Len(accepted) + dropped + Len(keys) <= MaxOffered
  /\ isr' = keys
  /\ mpc' = IF mpc = "hlt" THEN "check" ELSE mpc
  /\ UNCHANGED <<buf, head, tail, byte, accepted, delivered, dropped>>

\* Mutant: rb_push without its full test.
PushUnchecked(b) ==
  /\ buf' = [buf EXCEPT ![head] = b]
  /\ head' = Advance(head)
  /\ accepted' = Append(accepted, b)
  /\ UNCHANGED dropped

\* Mutant: rb_push gives up one slot early.
PushOneSlotShort(b) ==
  IF Advance(Advance(head)) = tail \/ Advance(head) = tail
    THEN /\ dropped' = dropped + 1
         /\ UNCHANGED <<buf, head, accepted>>
    ELSE PushUnchecked(b)

\* rb_push: store at head and advance, or drop when the ring is full.
rb_push(b) ==
  IF Advance(head) = tail
    THEN /\ dropped' = dropped + 1
         /\ UNCHANGED <<buf, head, accepted>>
    ELSE /\ buf' = [buf EXCEPT ![head] = b]
         /\ head' = Advance(head)
         /\ accepted' = Append(accepted, b)
         /\ UNCHANGED dropped

\* The running handler pushes its next byte.
IsrPush ==
  /\ isr # <<>>
  /\ rb_push(Head(isr))
  /\ isr' = Tail(isr)
  /\ UNCHANGED mainv

-----------------------------------------------------------------------------
(* drain() and the loop around it.                                         *)

\* Mutant: a wakeup is taken for a byte.
DrainWithoutCheck ==
  /\ mpc = "check"
  /\ mpc' = "read"
  /\ UNCHANGED <<tail, byte, delivered>>

\* Load both indices and leave the loop if the ring is empty.  The tail has
\* no other writer, so only the load of the head matters.
DrainCheck ==
  /\ mpc = "check"
  /\ mpc' = IF tail = head THEN "idle" ELSE "read"
  /\ UNCHANGED <<tail, byte, delivered>>

\* b = buf[tail]
DrainRead ==
  /\ mpc = "read"
  /\ byte' = buf[tail]
  /\ mpc' = "store"
  /\ UNCHANGED <<tail, delivered>>

\* Mutant: the slot is read again after the tail is published.
DrainStoreFromNext ==
  /\ mpc = "store"
  /\ tail' = Advance(tail)
  /\ byte' = buf[Advance(tail)]
  /\ mpc' = "push"
  /\ UNCHANGED delivered

\* RB_TAIL.store((tail + 1) & RB_MASK)
DrainStore ==
  /\ mpc = "store"
  /\ tail' = Advance(tail)
  /\ mpc' = "push"
  /\ UNCHANGED <<byte, delivered>>

\* SHELL.lock().push_char(b), then around the loop again
DrainPush ==
  /\ mpc = "push"
  /\ delivered' = Append(delivered, byte)
  /\ mpc' = "check"
  /\ UNCHANGED <<tail, byte>>

\* hlt: sleep until the next interrupt, whatever the ring holds by now.
Halt ==
  /\ mpc = "idle"
  /\ mpc' = "hlt"
  /\ UNCHANGED <<tail, byte, delivered>>

\* One step of the main loop; handlers run to completion first.
Main ==
  /\ isr = <<>>
  /\ DrainCheck \/ DrainRead \/ DrainStore \/ DrainPush \/ Halt
  /\ UNCHANGED <<buf, head, isr, accepted, dropped>>

Irq == \E keys \in BoundedSeq(Byte, MaxKeys) : Interrupt(keys)

Next == Irq \/ IsrPush \/ Main

\* The processor executes the handler it entered and the main loop, and the
\* LAPIC timer fires every millisecond whatever the kernel does.
Fairness == WF_vars(Irq) /\ WF_vars(IsrPush) /\ WF_vars(Main)

Spec == Init /\ [][Next]_vars /\ Fairness

-----------------------------------------------------------------------------
(* Properties.                                                             *)

\* Bytes in the ring: the slots from tail up to head, around the end.
Used == IF head >= tail THEN head - tail ELSE head - tail + CAP
Slot(k) == IF tail + k < CAP THEN tail + k ELSE tail + k - CAP
Contents == [k \in 1..Used |-> buf[Slot(k - 1)]]

\* Bytes out of the ring: those delivered, and the one drain holds between
\* publishing the tail and calling push_char.
Taken == IF mpc = "push" THEN Append(delivered, byte) ELSE delivered

\* Types of the indices, of the handler's bytes and of the histories.
TypeOK ==
  /\ buf \in [0..CAP-1 -> Byte \cup {0}]
  /\ head \in 0..CAP-1
  /\ tail \in 0..CAP-1
  /\ isr \in Seq(Byte)
  /\ mpc \in MainPC
  /\ byte \in Byte \cup {0}
  /\ accepted \in Seq(Byte)
  /\ delivered \in Seq(Byte)
  /\ dropped \in Nat

\* rb_push and drain together: whatever the interleaving, what the shell
\* has received, what drain holds and what the ring still holds are exactly
\* the accepted bytes in order -- none lost, duplicated or overwritten.
NothingLostOrReordered == Taken \o Contents = accepted

\* drain: between its read of a slot and its store of the tail, no handler
\* overwrites that slot; the byte it delivers is the oldest undelivered one.
ByteIsNextInOrder ==
  /\ mpc \in {"read", "store"} => Used > 0
  /\ mpc = "store" => byte = accepted[Len(delivered) + 1]

\* rb_push drops a byte only when CAP - 1 accepted bytes wait in front of it:
\* a step that drops leaves no free slot unused.
DropOnlyWhenFull ==
  [][dropped' > dropped => Len(accepted) - Len(Taken) = CAP - 1]_vars

\* The ring implements the bounded FIFO with one slot always left empty.
Queue == INSTANCE KeyQueue
           WITH Room <- CAP - 1, queue <- Contents, taken <- Taken, lost <- dropped
ImplementsQueue == Queue!Spec

\* The main loop of kernel_main: every accepted byte reaches the shell, also
\* when it is pushed between drain's last look at the ring and the hlt.
EveryByteDelivered ==
  \A n \in 1..MaxOffered : (Len(accepted) >= n) ~> (Len(delivered) >= n)
=============================================================================
