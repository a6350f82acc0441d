--------------------------- MODULE BlockAllocator ---------------------------
(***************************************************************************)
(* What a memory allocator promises: a block it hands out is disjoint from *)
(* every block that is still in use, and only a block in use is given      *)
(* back.  It promises so while it is sound; nothing is promised afterwards *)
(* and it never becomes sound again.                                       *)
(***************************************************************************)
EXTENDS Naturals

CONSTANT Blocks        \* the sets of addresses that may be handed out

VARIABLES inUse,       \* the blocks handed out and not given back
          held,        \* how many times a block was handed out, less those
          sound        \* whether the promise stands

Init == sound \in BOOLEAN /\ (sound => inUse = {} /\ held = 0)

Alloc(b) == /\ \A o \in inUse : b \intersect o = {}
            /\ inUse' = inUse \union {b}
            /\ held' = held + 1

Free(b) == b \in inUse /\ inUse' = inUse \ {b} /\ held' = held - 1

Next == \/ sound /\ sound' /\ \E b \in Blocks : Alloc(b) \/ Free(b)
        \/ ~ sound'

Spec == Init /\ [][Next]_<<inUse, held, sound>>
=============================================================================
