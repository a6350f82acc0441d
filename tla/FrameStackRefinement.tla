------------------------ MODULE FrameStackRefinement ------------------------
(***************************************************************************)
(* FrameStack implements BlockAllocator: the block of a frame is the set   *)
(* of its addresses.  The promise stands for maps whose available entries  *)
(* do not overlap, end a page below 4 GB and consist of whole pages; with  *)
(* other maps frames may overlap.                                          *)
(***************************************************************************)
EXTENDS FrameStack

Block(f) == f .. f + PAGE_SIZE - 1

Plain == MapBelow /\ MapApart /\ MapWhole

BA == INSTANCE BlockAllocator WITH
        Blocks <- {Block(f) : f \in 0 .. Word - 1},
        inUse  <- {Block(held[i]) : i \in 1 .. Len(held)},
        held   <- region.in_use,
        sound  <- Plain

\* With such a map a frame handed out overlaps no frame in use, a frame given
\* back was in use, and no_frames_in_use counts them.
ImplementsBlockAllocator == BA!Spec
=============================================================================
