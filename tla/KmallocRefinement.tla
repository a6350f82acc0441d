------------------------- MODULE KmallocRefinement -------------------------
(***************************************************************************)
(* Kmalloc implements BlockAllocator: the block of an object is the set of *)
(* addresses it occupies, those beyond its page included, and the promise  *)
(* stands while the heap is intact.                                        *)
(***************************************************************************)
EXTENDS Kmalloc

\* The addresses of object s of size bytes in a page.
Block(page, s, size) ==
  LET first == page * PAGE_SIZE + HdrSize + s * size
  IN first .. first + size - 1

BA == INSTANCE BlockAllocator WITH
        Blocks <- {Block(p, s, ObjSize(idx)) : p \in Pages, s \in Slots, idx \in Classes},
        inUse  <- {Block(o[1], o[2], heap.object_size[o[1]]) : o \in live},
        sound  <- Intact

\* Until kmalloc uses a bag without a free page or an index outside bags, and
\* until a caller writes beyond a page, every block kmalloc returns is disjoint
\* from all blocks that are in use, of its own and of other sizes, and kfree
\* takes back just its argument.
ImplementsBlockAllocator == BA!Spec
=============================================================================
