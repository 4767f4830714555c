---------------------------- MODULE MCAllocator -----------------------------
(* Allocator with two slab classes of two objects and a bump region of 24   *)
(* bytes; requests that fit each class, need the alignment of a larger one, *)
(* or go to the bump region.                                                *)
EXTENDS Allocator
MCSizes == <<8, 16>>
MCLayouts == {[size |-> 7, align |-> 4], [size |-> 8, align |-> 16],
              [size |-> 18, align |-> 2]}
MCMaps == {<<[kind |-> "usable", start |-> 4096, end |-> 4128],
             [kind |-> "reserved", start |-> 8192, end |-> 12288],
             [kind |-> "usable", start |-> 12288, end |-> 12360],
             [kind |-> "usable", start |-> 16384, end |-> 20480]>>,
           <<[kind |-> "usable", start |-> 4096, end |-> 4128]>>}
MCJunk == {12288}
=============================================================================
