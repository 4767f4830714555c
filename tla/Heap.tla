-------------------------------- MODULE Heap --------------------------------
(***************************************************************************)
(* What #[global_allocator] promises its callers: a block of the requested *)
(* size and alignment that lies in the heap and overlaps no live block, or *)
(* null; the heap itself lies in memory the bootloader declared usable.    *)
(* Allocator implements it.                                                *)
(***************************************************************************)
EXTENDS Naturals, Sequences

CONSTANTS
  Layouts,     \* the requests: [size, align]
  MemoryMaps   \* memory maps the bootloader may hand over

VARIABLES
  lo, hi,      \* the heap is lo..hi-1
  live         \* the blocks callers hold: [ptr, size, align]

vars == <<lo, hi, live>>

Init == lo = 0 /\ hi = 0 /\ live = {}

Overlap(b, d) == b.ptr < d.ptr + d.size /\ d.ptr < b.ptr + b.size

\* The heap is given its range, once, inside a usable region of the map.
Place ==
  /\ lo = 0
  /\ lo' < hi'
  /\ \E m \in MemoryMaps : \E i \in 1..Len(m) :
       m[i].kind = "usable" /\ m[i].start <= lo' /\ hi' <= m[i].end
  /\ UNCHANGED live

Allocate(l) ==
  /\ \E p \in lo..hi-1 :
       LET b == [ptr |-> p, size |-> l.size, align |-> l.align] IN
       /\ p % l.align = 0
       /\ p + l.size <= hi
       /\ \A d \in live : ~Overlap(b, d)
       /\ live' = live \cup {b}
  /\ UNCHANGED <<lo, hi>>

Release(b) ==
  /\ live' = live \ {b}
  /\ UNCHANGED <<lo, hi>>

Next == Place \/ (\E l \in Layouts : Allocate(l)) \/ (\E b \in live : Release(b))

Spec == Init /\ [][Next]_vars
=============================================================================
