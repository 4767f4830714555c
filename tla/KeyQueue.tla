------------------------------ MODULE KeyQueue ------------------------------
(***************************************************************************)
(* What the keyboard path promises the shell: a bounded FIFO queue of key  *)
(* bytes between the interrupt handlers and the main loop.  A byte that    *)
(* finds the queue full is dropped; every other byte is taken exactly      *)
(* once, in order.  KeyRing implements it.                                 *)
(***************************************************************************)
EXTENDS Naturals, Sequences

CONSTANTS
  Byte,       \* the key bytes a handler may push
  Room        \* how many bytes the queue holds

VARIABLES
  queue,      \* the bytes waiting
  taken,      \* every byte taken so far, oldest first
  lost        \* how many bytes found the queue full

vars == <<queue, taken, lost>>

Init ==
  /\ queue = <<>>
  /\ taken = <<>>
  /\ lost = 0

\* A handler offers a byte and there is room for it.
Put(b) ==
  /\ Len(queue) < Room
  /\ queue' = Append(queue, b)
  /\ UNCHANGED <<taken, lost>>

\* A handler offers a byte to a full queue.
Drop ==
  /\ Len(queue) = Room
  /\ lost' = lost + 1
  /\ UNCHANGED <<queue, taken>>

\* The main loop takes the oldest byte.
Take ==
  /\ queue # <<>>
  /\ taken' = Append(taken, Head(queue))
  /\ queue' = Tail(queue)
  /\ UNCHANGED lost

Next == (\E b \in Byte : Put(b)) \/ Drop \/ Take

Spec == Init /\ [][Next]_vars
=============================================================================
