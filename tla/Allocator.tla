----------------------------- MODULE Allocator ------------------------------
(***************************************************************************)
(* The kernel heap: kernel/src/memory.rs picks the physical region,        *)
(* kernel/src/allocator.rs cuts it into slab classes and a bump region.    *)
(* The free list of a class lives inside its free blocks (the first word   *)
(* of a block is the address of the next), so `mem' models the first word  *)
(* of every slab block, and the owner of a block may overwrite it.         *)
(***************************************************************************)
EXTENDS Naturals, Sequences, FiniteSets

CONSTANTS
  SLAB_SIZES,        \* object sizes in bytes, smallest first
  OBJECTS_PER_CLASS, \* blocks in each class
  HEAP_SIZE,         \* bytes of heap
  Layouts,           \* the requests: [size, align], align a power of two
  MemoryMaps,        \* memory maps the bootloader may hand over
  Junk               \* what an owner writes into a block's first word

Classes == 1..Len(SLAB_SIZES)

ASSUME SizesAssumption ==
  /\ SLAB_SIZES \in Seq(Nat \ {0}) /\ OBJECTS_PER_CLASS \in Nat \ {0}
  /\ \A c, d \in Classes : c < d => SLAB_SIZES[c] < SLAB_SIZES[d]

\* offset += SLAB_SIZES[i] * OBJECTS_PER_CLASS, summed over the classes before c
Offset[c \in 1..Len(SLAB_SIZES)+1] ==
  IF c = 1 THEN 0 ELSE Offset[c - 1] + SLAB_SIZES[c - 1] * OBJECTS_PER_CLASS

SLAB_REGION_BYTES == Offset[Len(SLAB_SIZES) + 1]

\* The heap starts on a page, and each class's region falls on a multiple of
\* its object size (512 objects of every smaller class precede it).
ASSUME RegionAssumption ==
  /\ HEAP_SIZE \in Nat /\ HEAP_SIZE > SLAB_REGION_BYTES
  /\ \A c \in Classes : Offset[c] % SLAB_SIZES[c] = 0
  /\ \A m \in MemoryMaps :
       /\ Len(m) \in Nat
       /\ \A i \in 1..Len(m) :
            /\ m[i].start \in Nat \ {0} /\ m[i].end \in Nat
            /\ \A c \in Classes : m[i].start % SLAB_SIZES[c] = 0

\* core::alloc::Layout: a GlobalAlloc caller never asks for 0 bytes, and
\* alignments and object sizes are powers of two, so the smaller divides the
\* larger.
ASSUME RequestAssumption ==
  /\ Layouts \subseteq [size : Nat \ {0}, align : Nat \ {0}]
  /\ \A l \in Layouts, c \in Classes :
       l.align <= SLAB_SIZES[c] => SLAB_SIZES[c] % l.align = 0

VARIABLES
  state,        \* "boot", "up" (initialized) or "panic"
  heap_start,   \* heap_start_virt()
  free_head,    \* per class: address of the first free block, 0 if none
  free_count,   \* per class
  mem,          \* first word of every slab block
  current,      \* bump.current
  live,         \* history: blocks handed out and not returned
  stack         \* history: per class, the free blocks, first one first

vars == <<state, heap_start, free_head, free_count, mem, current, live, stack>>

-----------------------------------------------------------------------------
(* memory::init: the first usable region that can hold the heap.           *)

Candidates(m) ==
  {i \in 1..Len(m) : m[i].kind = "usable" /\ m[i].end - m[i].start >= HEAP_SIZE}

HeapRegion(m) == m[CHOOSE i \in Candidates(m) : \A j \in Candidates(m) : i <= j]

-----------------------------------------------------------------------------
(* SlabClass.                                                              *)

RegionStart(c) == heap_start + Offset[c]
BlockAt(h, c, i) == h + Offset[c] + i * SLAB_SIZES[c]
BlocksOf(h, c) == {BlockAt(h, c, i) : i \in 0..OBJECTS_PER_CLASS-1}

owns(c, p) ==
  /\ p >= RegionStart(c)
  /\ p < RegionStart(c) + OBJECTS_PER_CLASS * SLAB_SIZES[c]

\* Mutant: free_count is not kept.
SlabAllocUncounted(c) ==
  /\ free_head' = [free_head EXCEPT ![c] = mem[free_head[c]]]
  /\ stack' = [stack EXCEPT ![c] = Tail(@)]
  /\ UNCHANGED free_count

\* SlabClass::alloc: pop the free list.
SlabAlloc(c) ==
  /\ free_head' = [free_head EXCEPT ![c] = mem[free_head[c]]]
  /\ free_count' = [free_count EXCEPT ![c] = @ - 1]
  /\ stack' = [stack EXCEPT ![c] = Tail(@)]

\* Mutant: the returned block is not linked to the old list.
SlabDeallocUnlinked(c, p) ==
  /\ free_head' = [free_head EXCEPT ![c] = p]
  /\ free_count' = [free_count EXCEPT ![c] = @ + 1]
  /\ stack' = [stack EXCEPT ![c] = <<p>> \o @]
  /\ UNCHANGED mem

\* SlabClass::dealloc: push the block on the free list.
SlabDealloc(c, p) ==
  /\ mem' = [mem EXCEPT ![p] = free_head[c]]
  /\ free_head' = [free_head EXCEPT ![c] = p]
  /\ free_count' = [free_count EXCEPT ![c] = @ + 1]
  /\ stack' = [stack EXCEPT ![c] = <<p>> \o @]

-----------------------------------------------------------------------------
(* Bump.                                                                   *)

\* (addr + align - 1) & !(align - 1), for a power of two
align_up(addr, align) == ((addr + align - 1) \div align) * align

BumpEnd == heap_start + HEAP_SIZE

-----------------------------------------------------------------------------
(* SlabAllocator.                                                          *)

Init ==
  /\ state = "boot"
  /\ heap_start = 0
  /\ free_head = [c \in Classes |-> 0]
  /\ free_count = [c \in Classes |-> 0]
  /\ mem = <<>>
  /\ current = 0
  /\ live = {}
  /\ stack = [c \in Classes |-> <<>>]

\* memory::init and allocator::init: thread the free lists, place the bump
\* region behind them, or panic.
Boot(m) ==
  /\ state = "boot"
  /\ IF Candidates(m) = {}
       THEN /\ state' = "panic"
            /\ UNCHANGED <<heap_start, free_head, free_count, mem, current, live, stack>>
       ELSE LET h == HeapRegion(m).start
                last == OBJECTS_PER_CLASS - 1
            IN /\ state' = "up"
               /\ heap_start' = h
               /\ free_head' = [c \in Classes |-> BlockAt(h, c, 0)]
               /\ free_count' = [c \in Classes |-> OBJECTS_PER_CLASS]
               /\ mem' = [p \in UNION {BlocksOf(h, c) : c \in Classes} |->
                            LET c == CHOOSE d \in Classes : p \in BlocksOf(h, d)
                            IN  IF p = BlockAt(h, c, last) THEN 0 ELSE p + SLAB_SIZES[c]]
               /\ current' = h + SLAB_REGION_BYTES
               /\ stack' = [c \in Classes |->
                              [i \in 1..OBJECTS_PER_CLASS |-> BlockAt(h, c, i - 1)]]
               /\ UNCHANGED live

\* Mutant: only the size of the request is compared with the object size.
FitsSizeOnly(l, c) == l.size <= SLAB_SIZES[c]

Fits(l, c) == l.size <= SLAB_SIZES[c] /\ l.align <= SLAB_SIZES[c]

\* The class that serves l: the smallest that fits and has a free block.
Serving(l) == {c \in Classes : Fits(l, c) /\ free_head[c] # 0}

\* SlabAllocator::alloc from a slab class.
AllocSlab(l) ==
  /\ state = "up" /\ Serving(l) # {}
  /\ LET c == CHOOSE d \in Serving(l) : \A e \in Serving(l) : d <= e IN
       /\ live' = live \cup {[ptr |-> free_head[c], size |-> l.size, align |-> l.align]}
       /\ SlabAlloc(c)
  /\ UNCHANGED <<state, heap_start, mem, current>>

BumpFits(l) == align_up(current, l.align) + l.size <= BumpEnd

\* SlabAllocator::alloc from the bump region, for everything else.
AllocBump(l) ==
  /\ state = "up" /\ Serving(l) = {}
  /\ BumpFits(l)
  /\ LET start == align_up(current, l.align) IN
       /\ current' = start + l.size
       /\ live' = live \cup {[ptr |-> start, size |-> l.size, align |-> l.align]}
  /\ UNCHANGED <<state, heap_start, free_head, free_count, mem, stack>>

\* SlabAllocator::dealloc: back to the class whose region holds the pointer;
\* a bump block is not reclaimed.
Dealloc(b) ==
  /\ live' = live \ {b}
  /\ IF \E c \in Classes : owns(c, b.ptr)
       THEN SlabDealloc(CHOOSE c \in Classes : /\ owns(c, b.ptr)
                                               /\ \A d \in 1..c-1 : ~owns(d, b.ptr), b.ptr)
       ELSE UNCHANGED <<mem, free_head, free_count, stack>>
  /\ UNCHANGED <<state, heap_start, current>>

\* The owner of a slab block writes its first word.
Write(b, w) ==
  /\ b.ptr \in DOMAIN mem
  /\ mem' = [mem EXCEPT ![b.ptr] = w]
  /\ UNCHANGED <<state, heap_start, free_head, free_count, current, live, stack>>

Next ==
  \/ \E m \in MemoryMaps : Boot(m)
  \/ \E l \in Layouts : AllocSlab(l) \/ AllocBump(l)
  \/ \E b \in live : Dealloc(b) \/ \E w \in Junk : Write(b, w)

Spec == Init /\ [][Next]_vars

-----------------------------------------------------------------------------
(* Properties.                                                             *)

LiveIn(c) == {b \in live : owns(c, b.ptr)}

\* SlabClass: following the words in the blocks from free_head visits
\* exactly the free blocks of the class and ends in 0, whatever owners wrote
\* into the blocks they hold.
FreeListIntact ==
  \A c \in Classes :
    LET s == stack[c] IN
    /\ free_head[c] = IF s = <<>> THEN 0 ELSE s[1]
    /\ \A i \in 1..Len(s) : mem[s[i]] = IF i = Len(s) THEN 0 ELSE s[i + 1]
    /\ \A i \in 1..Len(s) : s[i] \in BlocksOf(heap_start, c)
    /\ \A i, j \in 1..Len(s) : i # j => s[i] # s[j]

\* free_count, which `heap' prints, counts the free list, and every block of
\* a class is on its list or in exactly one caller's hands.
BlocksConserved ==
  state = "up" => \A c \in Classes :
    /\ free_count[c] = Len(stack[c])
    /\ Len(stack[c]) + Cardinality(LiveIn(c)) = OBJECTS_PER_CLASS
    /\ \A b \in LiveIn(c) : \A i \in 1..Len(stack[c]) : stack[c][i] # b.ptr

HeapSpec == INSTANCE Heap WITH
              lo <- heap_start,
              hi <- IF state = "up" THEN heap_start + HEAP_SIZE ELSE 0

\* The kernel heap implements the promise of GlobalAlloc: aligned,
\* non-overlapping blocks inside the heap, which memory::init has placed in
\* one usable region.
ImplementsHeap == HeapSpec!Spec
=============================================================================
