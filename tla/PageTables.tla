----------------------------- MODULE PageTables -----------------------------
(***************************************************************************)
(* Page directories and page tables in physical memory, and the boot-time  *)
(* mapping routine bootstrap_mmap (arch/i686/paging_utils.c).              *)
(*                                                                         *)
(* Addresses are page numbers: a frame is a physical page, a page a        *)
(* virtual one.  Directories and tables are both partial functions from    *)
(* indices to entries; an index outside the domain is an entry that is 0.  *)
(* The machine m is a record:                                              *)
(*   mem     the paging structures, by the frame that holds them           *)
(*   next    memmaps[0].addr, the next frame bootstrap_fetch_page returns  *)
(*   cr3     the frame of the loaded page directory                        *)
(*   status  "ok" while the boot goes on, else the reason why it cannot    *)
(* memmaps[0].len is the distance from next to the fixed end of that       *)
(* memory region, and nothing tests it: ASSERT and ASSERT_MSG are empty    *)
(* (kern/assert.h, the build does not define DEBUG).                       *)
(***************************************************************************)
EXTENDS Integers, Sequences, FiniteSets

CONSTANTS
    E,              \* entries of a directory or a table (1024)
    PAGE_SIZE       \* bytes of a page (4096)

ASSUME PagingAssumption == E \in Nat \ {0} /\ PAGE_SIZE \in Nat \ {0}

\* One entry, and f where it is defined and g elsewhere.
key :> value == [x \in {key} |-> value]
f @@ g == [x \in DOMAIN f \union DOMAIN g |-> IF x \in DOMAIN f THEN f[x] ELSE g[x]]

\* What lies in front of item i when the items are laid out one after another.
Sums(sizes) ==
    LET sum[j \in 0 .. Len(sizes)] == IF j = 0 THEN 0 ELSE sum[j - 1] + sizes[j]
    IN sum
Before(sizes, i) == Sums(sizes)[i - 1]

\* How many members of S come before i: the frames that were handed out before
\* it when every member of S gets one.
Rank(S, i) == Cardinality({j \in S : j < i})

\* A paddr no real mapping of the kernel uses: ask for a fresh frame.
PAGE_ALLOCATE == 0

PdIndex(page) == page \div E
PtIndex(page) == page % E

PagesOf(size) == (size + PAGE_SIZE - 1) \div PAGE_SIZE

Entry(frame, user) == [frame |-> frame, present |-> TRUE, rw |-> TRUE, user |-> user]

\* n entries of one table that map the frames from `first' on, beginning at
\* the index that `first' has as a virtual page.  Indices past the end of the
\* table are not entries of it: Overruns says that there are some.
IdentityRun(first, n) ==
    [i \in {j \in PtIndex(first) .. PtIndex(first) + n - 1 : j < E} |->
        Entry(first + i - PtIndex(first), FALSE)]

Overruns(first, n) == n > 0 /\ PtIndex(first) + n > E

-----------------------------------------------------------------------------
(* What the processor does with a virtual page. *)

Mapped(m, pd, page) ==
    /\ PdIndex(page) \in DOMAIN m.mem[pd]
    /\ LET pt == m.mem[pd][PdIndex(page)].frame
       IN /\ pt \in DOMAIN m.mem
          /\ PtIndex(page) \in DOMAIN m.mem[pt]
          /\ m.mem[pt][PtIndex(page)].present

PteOf(m, pd, page) == m.mem[m.mem[pd][PdIndex(page)].frame][PtIndex(page)]

\* The kernel runs with CR0.WP set: it can write what is mapped read-write.
Writable(m, page) == Mapped(m, m.cr3, page) /\ PteOf(m, m.cr3, page).rw

\* Paging structures are reached through their physical address.
Reachable(m, frame) == Writable(m, frame) /\ PteOf(m, m.cr3, frame).frame = frame

\* Ring 3 reaches the page: the user bit is needed at both levels.
UserPage(m, pd, page) ==
    /\ Mapped(m, pd, page)
    /\ m.mem[pd][PdIndex(page)].user
    /\ PteOf(m, pd, page).user

-----------------------------------------------------------------------------
Fail(m, reason) == [m EXCEPT !.status = reason]

\* n calls of bootstrap_fetch_page, which return m.next, m.next + 1, ...
bootstrap_fetch_page(m, n) == [m EXCEPT !.next = @ + n]

PageFlags_AlwaysPresent(prot) ==
    [present |-> TRUE, rw |-> "w" \in prot, user |-> "u" \in prot]

\* The bits of a page entry for a set of KMAP_PROT flags.
PageFlags(prot) ==
    LET some == prot \cap {"r", "w"} # {}
    IN [present |-> some, rw |-> "w" \in prot, user |-> some /\ "u" \in prot]

NoPageTables_FirstOnly(m, pd, page, size) ==
    (size \div (E * PAGE_SIZE)) + (IF PdIndex(page) \in DOMAIN m.mem[pd] THEN 0 ELSE 1)

\* no_page_tables: full tables, one if the range leaves the first table, one
\* if the first table does not exist.
NoPageTables(m, pd, page, size) ==
    LET current_pt_overflow == PtIndex(page) + (size \div PAGE_SIZE) > E
        current_pt_null == PdIndex(page) \notin DOMAIN m.mem[pd]
    IN (size \div (E * PAGE_SIZE))
         + (IF current_pt_overflow THEN 1 ELSE 0)
         + (IF current_pt_null THEN 1 ELSE 0)

NewTables(m, pd, page, size) ==
    {i \in PdIndex(page) .. PdIndex(page) + NoPageTables(m, pd, page, size) - 1 :
        i \notin DOMAIN m.mem[pd]}

\* The first loop: a cleared frame for every absent entry among the first
\* no_page_tables ones.
AddTables(m, pd, page, size, user) ==
    LET new == NewTables(m, pd, page, size)
        pt(i) == m.next + Rank(new, i)
        frames == {pt(i) : i \in new}
        fetched == bootstrap_fetch_page(m, Cardinality(new))
    IN IF \E f \in frames : ~ Reachable(m, f)
       THEN Fail(m, "fault")
       ELSE [fetched EXCEPT !.mem =
                [f \in frames |-> <<>>]
                @@ (pd :> ([i \in new |-> Entry(pt(i), user)] @@ m.mem[pd]))
                @@ m.mem]

\* For n pages from `page' on: the directory entries they come under, the
\* offsets of the pages that have no entry, and the frame an offset gets.  A
\* page entry that is not 0 keeps its frame.
Touched(page, n) == {PdIndex(page + k) : k \in 0 .. n - 1}
Fresh(m, pd, page, n) ==
    {k \in 0 .. n - 1 :
        PtIndex(page + k) \notin DOMAIN m.mem[m.mem[pd][PdIndex(page + k)].frame]}
FrameFor(m, pd, paddr, page, n, k) ==
    IF k \notin Fresh(m, pd, page, n) THEN PteOf(m, pd, page + k).frame
    ELSE IF paddr = PAGE_ALLOCATE THEN m.next + Rank(Fresh(m, pd, page, n), k)
    ELSE paddr + k

\* What the loop stores in the table of directory index q.
Stored(m, pd, paddr, page, n, flags, q) ==
    [i \in {PtIndex(page + k) : k \in {j \in 0 .. n - 1 : PdIndex(page + j) = q}} |->
        flags @@ [frame |-> FrameFor(m, pd, paddr, page, n, q * E + i - page)]]

\* The second loop: every page gets its entry, with the new flags.
MapPages(m, pd, paddr, page, n, flags) ==
    LET absent(k) == PdIndex(page + k) \notin DOMAIN m.mem[pd]
        bad == {k \in 0 .. n - 1 :
                    absent(k) \/ ~ Reachable(m, m.mem[pd][PdIndex(page + k)].frame)}
        fetched == bootstrap_fetch_page(m,
            IF paddr = PAGE_ALLOCATE THEN Cardinality(Fresh(m, pd, page, n)) ELSE 0)
        IndexOf(t) == CHOOSE q \in Touched(page, n) : m.mem[pd][q].frame = t
    IN IF bad # {}
       THEN Fail(m, IF absent(CHOOSE k \in bad : \A j \in bad : k <= j)
                    THEN "null" ELSE "fault")
       ELSE [fetched EXCEPT !.mem =
                [t \in {m.mem[pd][q].frame : q \in Touched(page, n)} |->
                    Stored(m, pd, paddr, page, n, flags, IndexOf(t)) @@ m.mem[t]]
                @@ m.mem]

\* bootstrap_mmap: size is in bytes, user says whether a new table belongs to
\* a process.  It stops where the code would use entry 0 of the directory as
\* a table ("null") or write to a structure that is not mapped ("fault").
bootstrap_mmap(m, pd, paddr, page, size, prot, user) ==
    LET tabled == AddTables(m, pd, page, size, user)
    IN IF m.status # "ok" THEN m
       ELSE IF tabled.status # "ok" THEN tabled
       ELSE MapPages(tabled, pd, paddr, page, PagesOf(size), PageFlags(prot))

=============================================================================
