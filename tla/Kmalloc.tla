------------------------------ MODULE Kmalloc ------------------------------
(***************************************************************************)
(* The kernel's small-object allocator, kern/kmalloc.c.                    *)
(*                                                                         *)
(* A page is a number from 1, in address order; 0 is NULL and              *)
(* PAGE_FREELIST_SENTINEL.  A page in the pool keeps its link in the word  *)
(* that is page_hdr_t.next once the page belongs to a bag, so both are     *)
(* "next".  The first word of a free object is the index of the next free  *)
(* one; a caller may overwrite it while it owns the object.  All calls run *)
(* to their end with interrupts disabled, so each is one step.             *)
(***************************************************************************)
EXTENDS Integers, FiniteSets

CONSTANTS
  NumPages,            \* pages of the pool
  PAGE_SIZE,           \* bytes of a page
  Sizes                \* sizes callers ask for, in bytes

NO_CLASSES == 9
MIN_BLOCK_SIZE == 4
HdrSize == 8           \* sizeof(page_hdr_t)
SENTINEL == -1         \* BAG_FREELIST_SENTINEL
NULL == 0
Junk == -2             \* what a caller leaves in an object

ASSUME PoolAssumption ==
  /\ NumPages \in Nat \ {0}
  /\ PAGE_SIZE \in Nat /\ PAGE_SIZE > HdrSize
  /\ Sizes \subseteq Nat
  /\ \A size \in Sizes : size <= 2 ^ NO_CLASSES => size < PAGE_SIZE - HdrSize
  /\ \A idx \in 2 .. 8 : 2 ^ idx \in Sizes => PAGE_SIZE % 2 ^ idx = 0

Pages == 1 .. NumPages
Classes == 0 .. NO_CLASSES - 1

VARIABLES
  heap,                \* everything kmalloc.c keeps, see TypeOK
  live,                \* objects handed out: pairs of a page and an index
  held,                \* history: kmalloc's that returned an object less kfree's
  status               \* "ok", "panic", or what the heap met, see Intact

vars == <<heap, live, held, status>>

-----------------------------------------------------------------------------
(* Pages *)

ObjSize(idx) == 2 ^ idx

\* Mutant: one object too many.
ObjCount_OneMore(idx) == (PAGE_SIZE - HdrSize) \div ObjSize(idx) + 1

\* How many objects the loop of init_page creates: it goes on while the
\* address of the object is inside the page.
ObjCount(idx) == (PAGE_SIZE - HdrSize + ObjSize(idx) - 1) \div ObjSize(idx)

\* Indices of objects, of the smallest size at most.
Slots == 0 .. ObjCount(2) - 1

PoolEmpty(h) == h.page_freelist_head = NULL

\* fetch_page, when the pool is not empty: the page is the old head.
fetch_page(h) == [h EXCEPT !.page_freelist_head = h.next[@]]

\* The header of a new page and init_page.
init_page(h, page, idx) ==
  [h EXCEPT
     !.next[page] = NULL,
     !.object_size[page] = ObjSize(idx),
     !.freelist_head[page] = 0,
     !.link[page] = [s \in Slots |-> CASE s < ObjCount(idx) - 1 -> s + 1
                                       [] s = ObjCount(idx) - 1 -> SENTINEL
                                       [] OTHER -> @[s]]]

\* Mutant: the object stays on the freelist.
freelist_dequeue_NotRemoved(h, page) == h

\* The object is the old freelist head of the page.
freelist_dequeue(h, page) ==
  [h EXCEPT !.freelist_head[page] = h.link[page][@]]

\* Mutant: the offset is kept in bytes.
freelist_enqueue_Bytes(h, page, s) ==
  [h EXCEPT !.link[page][s] = h.freelist_head[page],
            !.freelist_head[page] = s * h.object_size[page]]

\* Mutant: the freed object is not linked to the others.
freelist_enqueue_NoLink(h, page, s) == [h EXCEPT !.freelist_head[page] = s]

freelist_enqueue(h, page, s) ==
  [h EXCEPT !.link[page][s] = h.freelist_head[page], !.freelist_head[page] = s]

-----------------------------------------------------------------------------
(* Bags *)

initialize_bag(h, idx) ==
  LET page == h.page_freelist_head
  IN [init_page(fetch_page(h), page, idx) EXCEPT !.bags[idx] = [free |-> page, full |-> NULL]]

\* The first free page of a bag becomes the first full one.
ToFull(h, idx) ==
  LET page == h.bags[idx].free
  IN [h EXCEPT !.bags[idx] = [free |-> h.next[page], full |-> page],
               !.next[page] = h.bags[idx].full]

\* Mutant: a full page stays where it is.
AfterDequeue_NotMoved(h, idx) == h

\* The end of fetch_object: a page that has become full moves, and when it was
\* the last free one another page is fetched and prepared, but not linked.
AfterDequeue(h, idx) ==
  IF h.freelist_head[h.bags[idx].free] # SENTINEL THEN h
  ELSE LET moved == ToFull(h, idx)
       IN IF moved.bags[idx].free # NULL \/ PoolEmpty(moved) THEN moved
          ELSE init_page(fetch_page(moved), moved.page_freelist_head, idx)

Hand(h, page, s) ==
  /\ heap' = h
  /\ live' = live \union {<<page, s>>}
  /\ held' = held + 1
  /\ UNCHANGED status

Stop(h, how) == heap' = h /\ status' = how /\ UNCHANGED <<live, held>>

\* freelist_dequeue(NULL): the header is what lies at address 0, which is
\* mapped, and the object lies behind it in low memory, in no page of the
\* heap.  Nothing is modelled of what follows.
HandLow == held' = held + 1 /\ status' = "low" /\ UNCHANGED <<heap, live>>

fetch_object(idx) ==
  LET bag == heap.bags[idx]
  IN CASE bag.free = NULL /\ bag.full = NULL /\ PoolEmpty(heap) -> Stop(heap, "panic")
       [] bag.free = NULL /\ bag.full = NULL /\ ~ PoolEmpty(heap) ->
            LET h == initialize_bag(heap, idx)
                page == h.bags[idx].free
            IN Hand(freelist_dequeue(h, page), page, h.freelist_head[page])
       [] bag.free = NULL /\ bag.full # NULL -> HandLow
       [] bag.free # NULL ->
            LET dequeued == freelist_dequeue(heap, bag.free)
                h == AfterDequeue(dequeued, idx)
            IN IF /\ dequeued.freelist_head[bag.free] = SENTINEL
                  /\ h.bags[idx].free = NULL
                  /\ PoolEmpty(dequeued)
               THEN Stop(h, "panic")
               ELSE Hand(h, bag.free, heap.freelist_head[bag.free])

-----------------------------------------------------------------------------
(* kmalloc and kfree *)

FloorLog2(n) == CHOOSE k \in 0 .. NO_CLASSES : 2 ^ k <= n /\ n < 2 ^ (k + 1)

\* __builtin_ffs of a power of two, __builtin_clz (32 bit) of anything else.
bag_idx(size) ==
  IF 2 ^ FloorLog2(size) # size THEN (31 - FloorLog2(size)) + 1
                                ELSE (FloorLog2(size) + 1) - 1

kmalloc(size) ==
  /\ status = "ok"
  /\ IF size < MIN_BLOCK_SIZE \/ size > 2 ^ NO_CLASSES THEN UNCHANGED vars
     ELSE IF bag_idx(size) \in Classes THEN fetch_object(bag_idx(size))
     ELSE Stop(heap, "index")

\* The page i links after a page, in the bag or in the pool the page starts.
Linked(h, start) ==
  LET hop[i \in 0 .. NumPages] ==
        IF i = 0 THEN start
        ELSE IF hop[i - 1] = NULL THEN NULL ELSE h.next[hop[i - 1]]
  IN hop

\* The pages linked from a page on.
Chain(h, start) == {Linked(h, start)[i] : i \in 0 .. NumPages} \ {NULL}

\* kfree on a full page: it is searched in the full list of its bag, unlinked
\* and becomes the first free page.
Unlink(h, idx, page) ==
  LET bag == h.bags[idx]
  IN IF bag.full = page
     THEN [h EXCEPT !.bags[idx] = [free |-> page, full |-> h.next[page]],
                    !.next[page] = bag.free]
     ELSE LET before == CHOOSE q \in Chain(h, bag.full) : h.next[q] = page
          IN [h EXCEPT !.bags[idx].free = page,
                       !.next[before] = h.next[page],
                       !.next[page] = bag.free]

kfree(page, s) ==
  /\ status = "ok"
  /\ LET h == IF heap.freelist_head[page] # SENTINEL THEN heap
              ELSE Unlink(heap, FloorLog2(heap.object_size[page]), page)
     IN heap' = freelist_enqueue(h, page, s)
  /\ live' = live \ {<<page, s>>}
  /\ held' = held - 1
  /\ UNCHANGED status

\* The address behind an object, counted from the start of its page.
ObjEnd(h, page, s) == HdrSize + (s + 1) * h.object_size[page]

\* A caller writes all of an object it owns.  Where the object reaches beyond
\* its page that destroys the header of the next page, or what lies behind the
\* pool; nothing is modelled of what follows.
use_object(page, s) ==
  /\ status = "ok"
  /\ heap' = [heap EXCEPT !.link[page][s] = Junk]
  /\ status' = IF ObjEnd(heap, page, s) > PAGE_SIZE THEN "spoilt" ELSE "ok"
  /\ UNCHANGED <<live, held>>

-----------------------------------------------------------------------------
\* kmalloc_init: every page of the pool points to the next.
Init ==
  /\ heap = [page_freelist_head |-> 1,
             next |-> [p \in Pages |-> IF p < NumPages THEN p + 1 ELSE NULL],
             object_size |-> [p \in Pages |-> 0],
             freelist_head |-> [p \in Pages |-> 0],
             link |-> [p \in Pages |-> [s \in Slots |-> Junk]],
             bags |-> [c \in Classes |-> [free |-> NULL, full |-> NULL]]]
  /\ live = {}
  /\ held = 0
  /\ status = "ok"

Next ==
  \/ \E size \in Sizes : kmalloc(size)
  \/ \E o \in live : kfree(o[1], o[2])
  \/ \E o \in live : use_object(o[1], o[2])

Spec == Init /\ [][Next]_vars

-----------------------------------------------------------------------------
(* Properties *)

\* The heap is what kmalloc.c means it to be.  It no longer is when kmalloc has
\* used a bag whose pages are all full ("low"), when it has used an element
\* behind the array bags ("index"), and when a caller has written an object that
\* reaches beyond its page ("spoilt").
Intact == status \in {"ok", "panic"}

\* Every field has its type.
TypeOK ==
  /\ heap.page_freelist_head \in Pages \union {NULL}
  /\ heap.next \in [Pages -> Pages \union {NULL}]
  /\ heap.object_size \in [Pages -> {0} \union {ObjSize(c) : c \in Classes}]
  /\ heap.freelist_head \in [Pages -> Slots \union {SENTINEL}]
  /\ heap.link \in [Pages -> [Slots -> Slots \union {SENTINEL, Junk}]]
  /\ heap.bags \in [Classes -> [free : Pages \union {NULL}, full : Pages \union {NULL}]]
  /\ live \subseteq Pages \X Slots
  /\ held \in Nat
  /\ status \in {"ok", "panic", "low", "index", "spoilt"}

\* The pages of a bag.
BagPages(idx) == Chain(heap, heap.bags[idx].free) \union Chain(heap, heap.bags[idx].full)

FreeSlots(page) ==
  {s \in Slots : /\ s < ObjCount(FloorLog2(heap.object_size[page]))
                 /\ <<page, s>> \notin live}

\* While the heap is intact the freelist of every page of a bag holds exactly
\* the objects no caller owns, each once, and ends: however kmalloc and kfree
\* alternate and whatever callers write inside the page, no object is handed
\* out twice and none is lost.  (When fetch_page panics one object has left the
\* freelist.)
FreelistExact ==
  Intact /\ status # "panic" =>
    \A idx \in Classes : \A page \in BagPages(idx) :
      LET free == FreeSlots(page)
          n == Cardinality(free)
      IN \E q \in [1 .. n -> free] :
           /\ \A i, j \in 1 .. n : q[i] = q[j] => i = j
           /\ heap.freelist_head[page] = IF n = 0 THEN SENTINEL ELSE q[1]
           /\ \A i \in 1 .. n :
                heap.link[page][q[i]] = IF i = n THEN SENTINEL ELSE q[i + 1]

\* While the heap is intact the pool, the free pages and the full pages of all
\* bags are disjoint lists; a page is on a full list exactly when its freelist
\* is empty, it serves the size of its bag, and a page with an object in use is
\* on a list of its bag, where kfree finds it (the assertion on line 197).  A
\* page on none of these lists, such as the one fetch_object prepares and does
\* not link, has no object in use.
PagesPartitioned ==
  LET Pool == Chain(heap, heap.page_freelist_head)
      Free(idx) == Chain(heap, heap.bags[idx].free)
      Full(idx) == Chain(heap, heap.bags[idx].full)
  IN Intact =>
     /\ \A idx \in Classes :
          /\ Free(idx) \intersect Full(idx) = {}
          /\ BagPages(idx) \intersect Pool = {}
          /\ \A p \in BagPages(idx) : heap.object_size[p] = ObjSize(idx)
          /\ \A p \in Free(idx) : heap.freelist_head[p] # SENTINEL
          /\ \A p \in Full(idx) : heap.freelist_head[p] = SENTINEL
     /\ \A o \in live : \E idx \in Classes : o[1] \in BagPages(idx)

\* How far the last object of a page of such objects reaches beyond the page.
Excess(size) == IF (PAGE_SIZE - HdrSize) % size = 0 THEN 0 ELSE HdrSize

\* While the heap is intact an object in use lies behind the header of its page
\* and ends with the page at the latest when its size divides the room behind
\* the header, as OBJS_PER_PAGE (line 31) counts the objects.  The last object
\* init_page makes of any other size, 16 bytes and more on pages of 4096,
\* covers the header of the next page, and no more.
ObjectInPage ==
  Intact =>
    \A o \in live :
      LET size == heap.object_size[o[1]]
      IN size # 0 /\ ObjEnd(heap, o[1], o[2]) <= PAGE_SIZE + Excess(size)
=============================================================================
