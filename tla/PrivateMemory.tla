--------------------------- MODULE PrivateMemory ---------------------------
(***************************************************************************)
(* What the invariant of bootstrap says of the paging structures, and what *)
(* it relies on in bootstrap_mmap: PageTables_proofs proves the two        *)
(* obligations of bootstrap_mmap, BootPaging_proofs uses them.             *)
(***************************************************************************)
EXTENDS PageTables

Machine(mm) ==
  mm = [mem |-> mm.mem, next |-> mm.next, cr3 |-> mm.cr3, status |-> mm.status]

\* The frame of the table at index q of directory pd, and of the page at index
\* i of that table.
Table(mem, pd, q) == mem[pd][q].frame
Leaf(mem, pd, q, i) == mem[Table(mem, pd, q)][i].frame

\* Tables and pages that ring 3 may reach.
UserTable(mem, pd, q) == q \in DOMAIN mem[pd] /\ mem[pd][q].user
UserLeaf(mem, pd, q, i) ==
  UserTable(mem, pd, q) /\ i \in DOMAIN mem[Table(mem, pd, q)]

\* Every structure lies below the next free frame; no directory of A is used
\* as a table.
Structures(mem, next, A) ==
  /\ next \in Nat
  /\ \A f \in DOMAIN mem : f \in Nat /\ f < next
  /\ A \subseteq DOMAIN mem
  /\ \A pd \in A : \A q \in DOMAIN mem[pd] :
       q \in Nat /\ Table(mem, pd, q) \in Nat /\ Table(mem, pd, q) < next
       /\ Table(mem, pd, q) \notin A

NoUserTable(mem, A) == \A pd \in A : \A q \in DOMAIN mem[pd] : ~ mem[pd][q].user

\* The tables of processes lie at or above the floor, the kernel's below it.
TablesPlaced(mem, A, floor) ==
  \A pd \in A : \A q \in DOMAIN mem[pd] :
    IF mem[pd][q].user
    THEN Table(mem, pd, q) \in DOMAIN mem /\ floor <= Table(mem, pd, q)
    ELSE Table(mem, pd, q) < floor

\* A table of a process has one entry.
TablesOnce(mem, A) ==
  \A pd1, pd2 \in A : \A q1, q2 :
    UserTable(mem, pd1, q1) /\ UserTable(mem, pd2, q2)
      /\ Table(mem, pd1, q1) = Table(mem, pd2, q2) => pd1 = pd2 /\ q1 = q2

\* The pages of processes lie above the floor and are no structures.
LeavesPlaced(mem, next, A, floor) ==
  \A pd \in A : \A q, i : UserLeaf(mem, pd, q, i) =>
    /\ i \in Nat /\ i < E
    /\ Leaf(mem, pd, q, i) \in Nat /\ floor <= Leaf(mem, pd, q, i)
    /\ Leaf(mem, pd, q, i) < next /\ Leaf(mem, pd, q, i) \notin DOMAIN mem

\* A page of a process has one entry.
LeavesOnce(mem, A) ==
  \A pd1, pd2 \in A : \A q1, q2, i1, i2 :
    UserLeaf(mem, pd1, q1, i1) /\ UserLeaf(mem, pd2, q2, i2)
      /\ Leaf(mem, pd1, q1, i1) = Leaf(mem, pd2, q2, i2) => pd1 = pd2 /\ q1 = q2 /\ i1 = i2

Private(mem, next, A, floor) ==
  /\ floor \in Nat /\ floor <= next /\ Structures(mem, next, A)
  /\ TablesPlaced(mem, A, floor) /\ TablesOnce(mem, A)
  /\ LeavesPlaced(mem, next, A, floor) /\ LeavesOnce(mem, A)

\* For the kernel no table of a process comes into being.
Kernel(mm, A) == Machine(mm) /\ Structures(mm.mem, mm.next, A) /\ NoUserTable(mm.mem, A)

\* For a process memory stays private, and the other directories stay as they
\* were.
User(mm, A, floor) == Machine(mm) /\ Private(mm.mem, mm.next, A, floor)
Others(mm, r, pd, A) == \A a \in A : a # pd => r.mem[a] = mm.mem[a]

-----------------------------------------------------------------------------
\* What bootstrap_mmap owes the kernel.
MmapKeepsKernel ==
  \A mm, A : Kernel(mm, A) =>
    \A pd \in A : \A paddr, prot : \A page, size \in Nat : \A r :
      r = bootstrap_mmap(mm, pd, paddr, page, size, prot, FALSE)
        => Kernel(r, A) /\ mm.next <= r.next

\* What bootstrap_mmap owes a process.
MmapKeepsPrivate ==
  \A mm, A, floor : User(mm, A, floor) =>
    \A pd \in A : \A prot : \A page, size \in Nat : \A r :
      r = bootstrap_mmap(mm, pd, PAGE_ALLOCATE, page, size, prot, TRUE)
        => User(r, A, floor) /\ Others(mm, r, pd, A)

=============================================================================
