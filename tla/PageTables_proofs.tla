------------------------- MODULE PageTables_proofs -------------------------
(***************************************************************************)
(* Proofs about PageTables: whatever the sizes, bootstrap_mmap keeps what  *)
(* the callers of it rely on.                                              *)
(***************************************************************************)
EXTENDS PrivateMemory, FiniteSetTheorems, TLAPS

\* Every step below is tried with the SMT solver, unless it names another prover.
USE SMTT(60)

-----------------------------------------------------------------------------
(* Arithmetic *)

\* A page is given by its two indices.
LEMMA Indices ==
  ASSUME NEW page \in Nat
  PROVE  /\ PdIndex(page) \in Nat /\ PtIndex(page) \in Nat /\ PtIndex(page) < E
         /\ page = PdIndex(page) * E + PtIndex(page)
BY PagingAssumption DEF PdIndex, PtIndex

LEMMA SamePage ==
  ASSUME NEW q \in Nat, NEW r \in Nat, NEW i \in Nat, NEW j \in Nat, i < E, j < E,
         q * E + i = r * E + j
  PROVE  q = r /\ i = j
<1>1. ASSUME NEW a \in Nat, NEW b \in Nat, a < b PROVE a * E + E <= b * E
  <2>1. PICK d \in Nat : b = a + 1 + d
    <3>1. b - a - 1 \in Nat /\ b = a + 1 + (b - a - 1) BY <1>1
    <3> QED BY <3>1, ZenonT(60)
  <2>2. d * E \in Nat /\ a * E \in Nat BY PagingAssumption
  <2>3. b * E = a * E + E + d * E BY <2>1, PagingAssumption
  <2> QED BY <2>2, <2>3, PagingAssumption
<1>2. q * E \in Nat /\ r * E \in Nat BY PagingAssumption
<1>3. ~ (q < r) BY <1>1, <1>2, PagingAssumption
<1>4. ~ (r < q) BY <1>1, <1>2, PagingAssumption
<1>5. q = r BY <1>3, <1>4
<1> QED BY <1>2, <1>5

LEMMA Cancel ==
  ASSUME NEW a \in Nat, NEW b \in Nat, NEW i \in Nat, NEW j \in Nat, NEW c \in Nat,
         a + i - c = b + j - c
  PROVE  a + i = b + j
OBVIOUS

LEMMA Quotients ==
  ASSUME NEW n \in Nat, NEW d \in Nat \ {0}
  PROVE  n \div d \in Nat
OBVIOUS

LEMMA PagesNat == ASSUME NEW size \in Nat PROVE PagesOf(size) \in Nat
<1>1. size + PAGE_SIZE - 1 \in Nat BY PagingAssumption
<1> QED BY <1>1, Quotients, PagingAssumption, ZenonT(60) DEF PagesOf

LEMMA TablesNat ==
  ASSUME NEW mm, NEW pd, NEW page \in Nat, NEW size \in Nat
  PROVE  NoPageTables(mm, pd, page, size) \in Nat
<1>1. E * PAGE_SIZE \in Nat \ {0} BY PagingAssumption
<1>2. size \div (E * PAGE_SIZE) \in Nat BY <1>1, Quotients, ZenonT(60)
<1> QED BY <1>2 DEF NoPageTables

\* Frames handed out in order are different frames.
LEMMA Ranks ==
  ASSUME NEW S \in SUBSET Nat, IsFiniteSet(S)
  PROVE  /\ Cardinality(S) \in Nat
         /\ \A i \in S : Rank(S, i) \in Nat /\ Rank(S, i) < Cardinality(S)
         /\ \A i, j \in S : Rank(S, i) = Rank(S, j) => i = j
<1> DEFINE Below(i) == {k \in S : k < i}
<1>1. Cardinality(S) \in Nat BY FS_CardinalityType, ZenonT(60)
<1>2. ASSUME NEW i \in S PROVE IsFiniteSet(Below(i)) /\ Cardinality(Below(i)) \in Nat
  BY FS_Subset, FS_CardinalityType, ZenonT(60)
<1>3. ASSUME NEW T \in SUBSET S, NEW i \in S, Below(i) \subseteq T, i \in T
      PROVE  Cardinality(Below(i)) < Cardinality(T)
  <2>1. IsFiniteSet(T) BY FS_Subset, ZenonT(60)
  <2>2. Below(i) # T BY <1>3
  <2> QED BY <1>2, <1>3, <2>1, <2>2, FS_Subset, FS_CardinalityType
<1>4. ASSUME NEW i \in S PROVE Rank(S, i) \in Nat /\ Rank(S, i) < Cardinality(S)
  BY <1>2, <1>3, ZenonT(60) DEF Rank
<1>5. ASSUME NEW i \in S, NEW j \in S, i < j PROVE Rank(S, i) < Rank(S, j)
  <2>a. ASSUME NEW k \in S, k < i PROVE k < j
    BY <1>5, <2>a
  <2>1. Below(i) \subseteq Below(j) /\ i \in Below(j) /\ Below(j) \in SUBSET S
    BY <1>5, <2>a, ZenonT(60)
  <2>2. Cardinality(Below(i)) < Cardinality(Below(j))
    BY <1>3, <2>1, ZenonT(60)
  <2> QED BY <2>2, ZenonT(60) DEF Rank
<1>6. ASSUME NEW i \in S, NEW j \in S, Rank(S, i) = Rank(S, j) PROVE i = j
  <2>1. ~ (i < j) BY <1>4, <1>5, <1>6
  <2>2. ~ (j < i) BY <1>4, <1>5, <1>6
  <2> QED BY <2>1, <2>2
<1> QED BY <1>1, <1>4, <1>6, ZenonT(60)

-----------------------------------------------------------------------------
(* A machine and its updates *)

\* A failure changes nothing but the status.
LEMMA Failed ==
  ASSUME NEW mm, Machine(mm), NEW reason
  PROVE  /\ Machine(Fail(mm, reason)) /\ Fail(mm, reason).mem = mm.mem
         /\ Fail(mm, reason).next = mm.next /\ Fail(mm, reason).status = reason
BY DEF Machine, Fail

\* A new memory and a new first free frame.
Update(mm, next, store) == [[mm EXCEPT !.next = next] EXCEPT !.mem = store]
IsUpdate(mm, next, store, r) ==
  Machine(r) /\ r.mem = store /\ r.next = next /\ r.cr3 = mm.cr3 /\ r.status = mm.status

LEMMA Updated ==
  ASSUME NEW mm, Machine(mm), NEW next, NEW store
  PROVE  IsUpdate(mm, next, store, Update(mm, next, store))
<1>1. PICK r1, r : r1 = [mm EXCEPT !.next = next] /\ r = [r1 EXCEPT !.mem = store]
  BY ZenonT(60)
<1>2. Machine(r1) /\ r1.mem = mm.mem /\ r1.next = next /\ r1.cr3 = mm.cr3 /\ r1.status = mm.status
  <2>1. r1 = [mm EXCEPT !.next = next]
    BY <1>1, ZenonT(60)
  <2> QED BY ONLY Machine(mm), <2>1, ZenonT(60) DEF Machine
<1>3. Machine(r) /\ r.mem = store /\ r.next = r1.next /\ r.cr3 = r1.cr3 /\ r.status = r1.status
  <2>1. Machine(r1) /\ r = [r1 EXCEPT !.mem = store]
    BY <1>1, <1>2, ZenonT(60)
  <2> QED BY ONLY <2>1, ZenonT(60) DEF Machine
<1>4. Update(mm, next, store) = r
  BY <1>1, ZenonT(60) DEF Update
<1>5. IsUpdate(mm, next, store, r)
  BY <1>2, <1>3, ZenonT(60) DEF IsUpdate
<1> QED BY <1>4, <1>5, ZenonT(60)

\* What @@ does.
LEMMA Over ==
  ASSUME NEW f, NEW g
  PROVE  /\ DOMAIN (f @@ g) = DOMAIN f \union DOMAIN g
         /\ \A x \in DOMAIN f : (f @@ g)[x] = f[x]
         /\ \A x \in DOMAIN g : x \notin DOMAIN f => (f @@ g)[x] = g[x]
BY ZenonT(60) DEF @@

LEMMA OverLeft ==
  ASSUME NEW f, NEW g, NEW x \in DOMAIN f PROVE (f @@ g)[x] = f[x]
BY ZenonT(60) DEF @@

LEMMA OverRight ==
  ASSUME NEW f, NEW g, NEW x, x \in DOMAIN (f @@ g), x \notin DOMAIN f
  PROVE  x \in DOMAIN g /\ (f @@ g)[x] = g[x]
BY ZenonT(60) DEF @@

\* The second loop of bootstrap_mmap fails or completes.
IndexOf(mem, pd, page, n, t) == CHOOSE q \in Touched(page, n) : mem[pd][q].frame = t
TablesOf(mem, pd, page, n) == {mem[pd][q].frame : q \in Touched(page, n)}

Completed(mm, pd, paddr, page, n, flags, r) ==
  /\ Touched(page, n) \subseteq DOMAIN mm.mem[pd]
  /\ r.next = mm.next + (IF paddr = PAGE_ALLOCATE THEN Cardinality(Fresh(mm, pd, page, n)) ELSE 0)
  /\ r.mem = [t \in TablesOf(mm.mem, pd, page, n) |->
               Stored(mm, pd, paddr, page, n, flags, IndexOf(mm.mem, pd, page, n, t)) @@ mm.mem[t]]
              @@ mm.mem

LEMMA MapForm ==
  ASSUME NEW mm, Machine(mm), NEW pd, NEW paddr, NEW page \in Nat, NEW n \in Nat, NEW flags,
         NEW r, r = MapPages(mm, pd, paddr, page, n, flags)
  PROVE  /\ Machine(r)
         /\ \/ r.mem = mm.mem /\ r.next = mm.next
            \/ Completed(mm, pd, paddr, page, n, flags, r)
<1> DEFINE absent(k) == PdIndex(page + k) \notin DOMAIN mm.mem[pd]
           bad == {k \in 0 .. n - 1 :
                     absent(k) \/ ~ Reachable(mm, mm.mem[pd][PdIndex(page + k)].frame)}
           fetched == bootstrap_fetch_page(mm,
             IF paddr = PAGE_ALLOCATE THEN Cardinality(Fresh(mm, pd, page, n)) ELSE 0)
           new == [t \in TablesOf(mm.mem, pd, page, n) |->
             Stored(mm, pd, paddr, page, n, flags, IndexOf(mm.mem, pd, page, n, t)) @@ mm.mem[t]] @@ mm.mem
<1>1. CASE bad # {}
  <2>1. r = Fail(mm, IF absent(CHOOSE k \in bad : \A j \in bad : k <= j) THEN "null" ELSE "fault")
    BY <1>1, ZenonT(60) DEF MapPages
  <2>2. PICK reason : r = Fail(mm, reason)
    BY <2>1, ZenonT(60)
  <2>3. Machine(r) /\ r.mem = mm.mem /\ r.next = mm.next
    BY <2>2, Failed
  <2> QED BY <2>3, ZenonT(60)
<1>2. CASE bad = {}
  <2>1. r = [fetched EXCEPT !.mem = new]
    BY <1>2, ZenonT(60) DEF MapPages, TablesOf, IndexOf
  <2>2. Touched(page, n) \subseteq DOMAIN mm.mem[pd]
    BY <1>2, ZenonT(60) DEF Touched
  <2> DEFINE c == IF paddr = PAGE_ALLOCATE THEN Cardinality(Fresh(mm, pd, page, n)) ELSE 0
  <2>3. r = Update(mm, mm.next + c, new)
    BY <2>1, ZenonT(60) DEF bootstrap_fetch_page, Update
  <2> HIDE DEF new, c
  <2>4. IsUpdate(mm, mm.next + c, new, r)
    BY <2>3, Updated, ZenonT(60)
  <2> QED BY <2>2, <2>4, ZenonT(60) DEF IsUpdate, Completed, new, c
<1> QED BY <1>1, <1>2, ZenonT(60)

\* The frames of fresh pages.
LEMMA FreshFrames ==
  ASSUME NEW mm, NEW pd, NEW page \in Nat, NEW n \in Nat
  PROVE  /\ Fresh(mm, pd, page, n) \in SUBSET Nat
         /\ IsFiniteSet(Fresh(mm, pd, page, n))
         /\ Cardinality(Fresh(mm, pd, page, n)) \in Nat
<1>1. Fresh(mm, pd, page, n) \subseteq 0 .. n - 1
  BY ZenonT(60) DEF Fresh
<1>2. IsFiniteSet(0 .. n - 1)
  BY FS_Interval
<1> QED BY <1>1, <1>2, FS_Subset, FS_CardinalityType

\* It writes tables only, never a directory of A.
WritesTables(mm, r, T, A) ==
  /\ r.next \in Nat /\ mm.next <= r.next
  /\ DOMAIN r.mem = T \union DOMAIN mm.mem
  /\ \A t \in T : t \in Nat /\ t < mm.next /\ t \notin A
  /\ \A t : t \notin T /\ t \in DOMAIN mm.mem => r.mem[t] = mm.mem[t]
  /\ \A a \in A : r.mem[a] = mm.mem[a]
  /\ Structures(r.mem, r.next, A)

LEMMA MapTables ==
  ASSUME NEW mm, NEW pd, NEW paddr, NEW page \in Nat, NEW n \in Nat, NEW flags, NEW r,
         Completed(mm, pd, paddr, page, n, flags, r),
         NEW A, pd \in A, Structures(mm.mem, mm.next, A)
  PROVE  WritesTables(mm, r, TablesOf(mm.mem, pd, page, n), A)
<1> DEFINE T == TablesOf(mm.mem, pd, page, n)
<1>1. r.next \in Nat /\ mm.next <= r.next
  <2>1. PICK c \in Nat : r.next = mm.next + c
    BY FreshFrames, ZenonT(60) DEF Completed
  <2> QED BY <2>1 DEF Structures
<1>2. \A t \in T : t \in Nat /\ t < mm.next /\ t \notin A
  BY ZenonT(60) DEF TablesOf, Completed, Structures, Table
<1>3. /\ DOMAIN r.mem = T \union DOMAIN mm.mem
      /\ \A t : t \notin T /\ t \in DOMAIN mm.mem => r.mem[t] = mm.mem[t]
  <2> DEFINE new == [t \in T |->
        Stored(mm, pd, paddr, page, n, flags, IndexOf(mm.mem, pd, page, n, t)) @@ mm.mem[t]]
  <2>1. r.mem = new @@ mm.mem /\ DOMAIN new = T
    BY ZenonT(60) DEF Completed
  <2> HIDE DEF new
  <2>2. /\ DOMAIN r.mem = DOMAIN new \union DOMAIN mm.mem
        /\ \A x \in DOMAIN mm.mem : x \notin DOMAIN new => r.mem[x] = mm.mem[x]
    <3>1. /\ DOMAIN (new @@ mm.mem) = DOMAIN new \union DOMAIN mm.mem
          /\ \A x \in DOMAIN mm.mem : x \notin DOMAIN new => (new @@ mm.mem)[x] = mm.mem[x]
      BY Over, ZenonT(60)
    <3> QED BY <2>1, <3>1, ZenonT(60)
  <2> QED BY <2>1, <2>2, ZenonT(60)
<1>4. \A a \in A : r.mem[a] = mm.mem[a]
  BY <1>2, <1>3, ZenonT(60) DEF Structures
<1>5. \A a \in A : \A q : Table(r.mem, a, q) = Table(mm.mem, a, q)
  BY <1>4, ZenonT(60) DEF Table
<1>6. \A f \in DOMAIN r.mem : f \in Nat /\ f < r.next
  BY <1>1, <1>2, <1>3 DEF Structures
<1>7. \A a \in A : \A q \in DOMAIN r.mem[a] :
        q \in Nat /\ Table(r.mem, a, q) \in Nat /\ Table(r.mem, a, q) < r.next /\ Table(r.mem, a, q) \notin A
  BY <1>1, <1>4, <1>5 DEF Structures
<1>8. Structures(r.mem, r.next, A)
  BY <1>1, <1>3, <1>6, <1>7, ZenonT(60) DEF Structures
<1> QED BY <1>1, <1>2, <1>3, <1>4, <1>8, ZenonT(60) DEF WritesTables

\* A page of a process has the frame it had, or the next one in order.
KeptLeaf(mm, r, pd1, q1, i) ==
  UserLeaf(mm.mem, pd1, q1, i) /\ Leaf(r.mem, pd1, q1, i) = Leaf(mm.mem, pd1, q1, i)
FreshLeaf(mm, r, pd, page, n, pd1, q1, i) ==
  /\ pd1 = pd /\ q1 \in Nat /\ i \in Nat /\ i < E
  /\ q1 * E + i - page \in Fresh(mm, pd, page, n)
  /\ Leaf(r.mem, pd1, q1, i) = mm.next + Rank(Fresh(mm, pd, page, n), q1 * E + i - page)

\* The flags of an entry leave its frame alone.
Frameless(flags) == "frame" \notin DOMAIN flags

LEMMA MapLeaf ==
  ASSUME NEW mm, NEW pd, NEW page \in Nat, NEW n \in Nat, NEW flags, NEW r,
         Completed(mm, pd, PAGE_ALLOCATE, page, n, flags, r), Frameless(flags),
         NEW A, pd \in A, NEW floor, Private(mm.mem, mm.next, A, floor),
         NEW pd1 \in A, NEW q1, NEW i, UserLeaf(r.mem, pd1, q1, i)
  PROVE  KeptLeaf(mm, r, pd1, q1, i) \/ FreshLeaf(mm, r, pd, page, n, pd1, q1, i)
<1> DEFINE T == TablesOf(mm.mem, pd, page, n)
           t == Table(mm.mem, pd1, q1)
<1>0. Structures(mm.mem, mm.next, A)
  BY ZenonT(60) DEF Private
<1>0a. WritesTables(mm, r, T, A)
  BY <1>0, MapTables, ZenonT(60)
<1>1. /\ \A x : x \notin T /\ x \in DOMAIN mm.mem => r.mem[x] = mm.mem[x]
      /\ \A a \in A : r.mem[a] = mm.mem[a]
  BY <1>0a, ZenonT(60) DEF WritesTables
<1>2. Table(r.mem, pd1, q1) = t /\ UserTable(mm.mem, pd1, q1) /\ i \in DOMAIN r.mem[t]
  BY <1>1, ZenonT(60) DEF Table, UserLeaf, UserTable
<1>3. t \in DOMAIN mm.mem /\ floor <= t
  BY <1>2, ZenonT(60) DEF Private, TablesPlaced, UserTable
<1>4. CASE t \notin T
  <2>1. r.mem[t] = mm.mem[t]
    BY <1>1, <1>3, <1>4, ZenonT(60)
  <2> QED BY <1>2, <2>1, ZenonT(60) DEF KeptLeaf, UserLeaf, Leaf
<1>5. CASE t \in T
  <2>1. ASSUME NEW q \in Touched(page, n), mm.mem[pd][q].frame = t
        PROVE  q = q1 /\ pd1 = pd
    <3>1. q \in DOMAIN mm.mem[pd]
      BY ZenonT(60) DEF Completed
    <3>2. Table(mm.mem, pd, q) = t
      BY <2>1, ZenonT(60) DEF Table
    <3>3. t \in Nat /\ floor \in Nat
      BY <3>1, <3>2, ZenonT(60) DEF Private, Structures
    <3>4. ~ (t < floor)
      BY <1>3, <3>3
    <3>5. UserTable(mm.mem, pd, q)
      BY <3>1, <3>2, <3>4, ZenonT(60) DEF Private, TablesPlaced, UserTable
    <3> QED BY <1>2, <3>2, <3>5, ZenonT(60) DEF Private, TablesOnce
  <2>2. PICK q \in Touched(page, n) : mm.mem[pd][q].frame = t
    BY <1>5, ZenonT(60) DEF TablesOf
  <2>3. pd1 = pd /\ q1 \in Touched(page, n) /\ IndexOf(mm.mem, pd, page, n, t) = q1
    <3>1. q = q1 /\ pd1 = pd
      BY <2>1, <2>2, ZenonT(60)
    <3>2. \A x \in Touched(page, n) : mm.mem[pd][x].frame = t => x = q1
      BY <2>1, ZenonT(60)
    <3> QED BY <2>2, <3>1, <3>2, ZenonT(60) DEF IndexOf
  <2> DEFINE S == Stored(mm, pd, PAGE_ALLOCATE, page, n, flags, q1)
             new == [x \in T |-> Stored(mm, pd, PAGE_ALLOCATE, page, n, flags,
                                        IndexOf(mm.mem, pd, page, n, x)) @@ mm.mem[x]]
  <2>4. r.mem[t] = S @@ mm.mem[t]
    <3>1. r.mem = new @@ mm.mem /\ t \in DOMAIN new
      BY <1>5, ZenonT(60) DEF Completed
    <3>2. new[t] = S @@ mm.mem[t]
      BY <1>5, <2>3, ZenonT(60)
    <3> HIDE DEF new, S
    <3>3. (new @@ mm.mem)[t] = new[t]
      BY <3>1, OverLeft, ZenonT(60)
    <3> QED BY <3>1, <3>2, <3>3, ZenonT(60)
  <2>5. CASE i \notin DOMAIN S
    <3> HIDE DEF S
    <3>1. i \in DOMAIN (S @@ mm.mem[t])
      BY <1>2, <2>4, ZenonT(60)
    <3>2. i \in DOMAIN mm.mem[t] /\ (S @@ mm.mem[t])[i] = mm.mem[t][i]
      BY <2>5, <3>1, ZenonT(60) DEF @@
    <3> QED BY <1>2, <2>4, <3>1, <3>2, ZenonT(60) DEF KeptLeaf, UserLeaf, Leaf
  <2>6. CASE i \in DOMAIN S
    <3>1. PICK k \in 0 .. n - 1 : PdIndex(page + k) = q1 /\ i = PtIndex(page + k)
      BY <2>6, ZenonT(60) DEF Stored
    <3>2. /\ q1 \in Nat /\ i \in Nat /\ i < E
          /\ page + k = q1 * E + i
      <4>1. page + k \in Nat
        BY <3>1
      <4> QED BY <3>1, <4>1, Indices, ZenonT(60)
    <3>3. q1 * E + i - page = k
      BY ONLY <3>2, page \in Nat, k \in 0 .. n - 1, n \in Nat, PagingAssumption
    <3> DEFINE f == FrameFor(mm, pd, PAGE_ALLOCATE, page, n, k)
    <3>4. S[i] = flags @@ [frame |-> f]
      BY <2>6, <3>3, ZenonT(60) DEF Stored
    <3>5. r.mem[t][i].frame = f
      <4> HIDE DEF f, S
      <4>0. (S @@ mm.mem[t])[i] = S[i]
        BY <2>6, OverLeft, ZenonT(60)
      <4>1. r.mem[t][i] = flags @@ [frame |-> f]
        BY <2>4, <3>4, <4>0, ZenonT(60)
      <4>2. "frame" \in DOMAIN [frame |-> f] /\ [frame |-> f].frame = f
        BY ZenonT(60)
      <4>3. (flags @@ [frame |-> f])["frame"] = [frame |-> f]["frame"]
        BY <4>2, Over, ZenonT(60) DEF Frameless
      <4> QED BY <4>1, <4>2, <4>3, ZenonT(60)
    <3>6. CASE k \notin Fresh(mm, pd, page, n)
      <4>1. f = PteOf(mm, pd, page + k).frame
        BY <3>6, ZenonT(60) DEF FrameFor
      <4>2. f = mm.mem[t][i].frame
        BY <2>3, <3>1, <4>1, ZenonT(60) DEF PteOf, Table
      <4>3. i \in DOMAIN mm.mem[t]
        BY <2>3, <3>1, <3>6, ZenonT(60) DEF Fresh, Table
      <4> QED BY <1>2, <3>5, <4>2, <4>3, ZenonT(60) DEF KeptLeaf, UserLeaf, Leaf
    <3>7. CASE k \in Fresh(mm, pd, page, n)
      <4>1. f = mm.next + Rank(Fresh(mm, pd, page, n), k)
        BY <3>7, ZenonT(60) DEF FrameFor
      <4> QED BY <1>2, <2>3, <3>2, <3>3, <3>5, <3>7, <4>1, ZenonT(60) DEF FreshLeaf, Leaf
    <3> QED BY <3>6, <3>7, ZenonT(60)
  <2> QED BY <2>5, <2>6, ZenonT(60)
<1> QED BY <1>4, <1>5, ZenonT(60)

\* The second loop, for a process, keeps memory private.
LEMMA MapKeeps ==
  ASSUME NEW mm, NEW pd, NEW page \in Nat, NEW n \in Nat, NEW flags, NEW r,
         Completed(mm, pd, PAGE_ALLOCATE, page, n, flags, r), Frameless(flags),
         NEW A, pd \in A, NEW floor, Private(mm.mem, mm.next, A, floor)
  PROVE  Private(r.mem, r.next, A, floor)
<1> DEFINE T == TablesOf(mm.mem, pd, page, n)
           fresh == Fresh(mm, pd, page, n)
<1>1. Structures(mm.mem, mm.next, A)
  BY ZenonT(60) DEF Private
<1>2. WritesTables(mm, r, T, A)
  BY <1>1, MapTables, ZenonT(60)
<1>3. \A a \in A : r.mem[a] = mm.mem[a]
  BY <1>2, ZenonT(60) DEF WritesTables
<1>4. \A a \in A : \A q : Table(r.mem, a, q) = Table(mm.mem, a, q)
                         /\ (UserTable(r.mem, a, q) <=> UserTable(mm.mem, a, q))
  BY <1>3, ZenonT(60) DEF Table, UserTable
<1>5. /\ floor \in Nat /\ floor <= mm.next /\ mm.next \in Nat /\ r.next \in Nat /\ mm.next <= r.next
      /\ DOMAIN r.mem = T \union DOMAIN mm.mem
      /\ \A f \in DOMAIN mm.mem : f \in Nat /\ f < mm.next
      /\ \A f \in T : f \in Nat /\ f < mm.next
  BY <1>1, <1>2, ZenonT(60) DEF WritesTables, Structures, Private
<1>6. TablesPlaced(r.mem, A, floor)
  <2>1. TablesPlaced(mm.mem, A, floor)
    BY ZenonT(60) DEF Private
  <2>2. SUFFICES ASSUME NEW a \in A, NEW q \in DOMAIN r.mem[a]
                 PROVE  IF r.mem[a][q].user
                        THEN Table(r.mem, a, q) \in DOMAIN r.mem /\ floor <= Table(r.mem, a, q)
                        ELSE Table(r.mem, a, q) < floor
    BY ZenonT(60) DEF TablesPlaced
  <2>3. r.mem[a] = mm.mem[a] /\ Table(r.mem, a, q) = Table(mm.mem, a, q)
    BY <1>3, <1>4, ZenonT(60)
  <2>4. IF r.mem[a][q].user
        THEN Table(mm.mem, a, q) \in DOMAIN mm.mem /\ floor <= Table(mm.mem, a, q)
        ELSE Table(mm.mem, a, q) < floor
    BY <2>1, <2>2, <2>3, ZenonT(60) DEF TablesPlaced
  <2>5. \A f \in DOMAIN mm.mem : f \in DOMAIN r.mem
    BY <1>5, ZenonT(60)
  <2> QED BY <2>3, <2>4, <2>5, ZenonT(60)
<1>7. TablesOnce(r.mem, A)
  <2>1. TablesOnce(mm.mem, A)
    BY ZenonT(60) DEF Private
  <2>2. SUFFICES ASSUME NEW pd1 \in A, NEW pd2 \in A, NEW q1, NEW q2,
                        UserTable(r.mem, pd1, q1), UserTable(r.mem, pd2, q2),
                        Table(r.mem, pd1, q1) = Table(r.mem, pd2, q2)
                 PROVE  pd1 = pd2 /\ q1 = q2
    BY ZenonT(60) DEF TablesOnce
  <2>3. /\ UserTable(mm.mem, pd1, q1) /\ UserTable(mm.mem, pd2, q2)
        /\ Table(mm.mem, pd1, q1) = Table(mm.mem, pd2, q2)
    BY <1>4, <2>2, ZenonT(60)
  <2> QED BY <2>1, <2>3, ZenonT(60) DEF TablesOnce
<1>8. \A f \in T : f \in DOMAIN mm.mem \/ f < floor
  BY ZenonT(60) DEF TablesOf, Completed, Private, TablesPlaced, Table
<1>9. /\ r.next = mm.next + Cardinality(fresh) /\ Cardinality(fresh) \in Nat
      /\ \A k \in fresh : k \in Nat /\ Rank(fresh, k) \in Nat /\ Rank(fresh, k) < Cardinality(fresh)
      /\ \A k, l \in fresh : Rank(fresh, k) = Rank(fresh, l) => k = l
  <2>1. fresh \in SUBSET Nat /\ IsFiniteSet(fresh) /\ Cardinality(fresh) \in Nat
    BY FreshFrames, ZenonT(60)
  <2>2. r.next = mm.next + Cardinality(fresh)
    BY ZenonT(60) DEF Completed
  <2> HIDE DEF fresh
  <2> QED BY <2>1, <2>2, Ranks, ZenonT(60)
<1> DEFINE Old(pd1, q1, i) == KeptLeaf(mm, r, pd1, q1, i)
           New(pd1, q1, i) == FreshLeaf(mm, r, pd, page, n, pd1, q1, i)
<1>10. \A pd1 \in A : \A q1, i : UserLeaf(r.mem, pd1, q1, i) => Old(pd1, q1, i) \/ New(pd1, q1, i)
  BY MapLeaf, ZenonT(60)
<1>11. ASSUME NEW pd1 \in A, NEW q1, NEW i, Old(pd1, q1, i)
       PROVE  /\ i \in Nat /\ i < E /\ Leaf(r.mem, pd1, q1, i) \in Nat
              /\ floor <= Leaf(r.mem, pd1, q1, i) /\ Leaf(r.mem, pd1, q1, i) < mm.next
              /\ Leaf(r.mem, pd1, q1, i) \notin DOMAIN mm.mem
  BY <1>11, ZenonT(60) DEF KeptLeaf, Private, LeavesPlaced
<1>12. ASSUME NEW pd1 \in A, NEW q1, NEW i, New(pd1, q1, i)
       PROVE  /\ i \in Nat /\ i < E /\ Leaf(r.mem, pd1, q1, i) \in Nat
              /\ mm.next <= Leaf(r.mem, pd1, q1, i) /\ Leaf(r.mem, pd1, q1, i) < r.next
  <2>1. PICK k \in fresh : Leaf(r.mem, pd1, q1, i) = mm.next + Rank(fresh, k)
    BY <1>12, ZenonT(60) DEF FreshLeaf
  <2>2. i \in Nat /\ i < E
    BY <1>12, ZenonT(60) DEF FreshLeaf
  <2>3. Rank(fresh, k) \in Nat /\ Rank(fresh, k) < Cardinality(fresh)
    BY <1>9, ZenonT(60)
  <2> HIDE DEF fresh
  <2> QED BY ONLY <1>5, <1>9, <2>1, <2>2, <2>3
<1>13. LeavesPlaced(r.mem, r.next, A, floor)
  <2>1. SUFFICES ASSUME NEW pd1 \in A, NEW q1, NEW i, UserLeaf(r.mem, pd1, q1, i)
                 PROVE  /\ i \in Nat /\ i < E
                        /\ Leaf(r.mem, pd1, q1, i) \in Nat /\ floor <= Leaf(r.mem, pd1, q1, i)
                        /\ Leaf(r.mem, pd1, q1, i) < r.next /\ Leaf(r.mem, pd1, q1, i) \notin DOMAIN r.mem
    BY ZenonT(60) DEF LeavesPlaced
  <2>2. Old(pd1, q1, i) \/ New(pd1, q1, i)
    BY <1>10, <2>1, ZenonT(60)
  <2> HIDE DEF T, fresh
  <2>3. CASE Old(pd1, q1, i)
    <3>1. /\ i \in Nat /\ i < E /\ Leaf(r.mem, pd1, q1, i) \in Nat
          /\ floor <= Leaf(r.mem, pd1, q1, i) /\ Leaf(r.mem, pd1, q1, i) < mm.next
          /\ Leaf(r.mem, pd1, q1, i) \notin DOMAIN mm.mem
      BY <1>11, <2>3, ZenonT(60)
    <3> QED BY ONLY <1>5, <1>8, <3>1
  <2>4. CASE New(pd1, q1, i)
    <3>1. /\ i \in Nat /\ i < E /\ Leaf(r.mem, pd1, q1, i) \in Nat
          /\ mm.next <= Leaf(r.mem, pd1, q1, i) /\ Leaf(r.mem, pd1, q1, i) < r.next
      BY <1>12, <2>4, ZenonT(60)
    <3> QED BY ONLY <1>5, <3>1
  <2> QED BY <2>2, <2>3, <2>4, ZenonT(60)
<1>14. LeavesOnce(r.mem, A)
  <2>1. SUFFICES ASSUME NEW pd1 \in A, NEW pd2 \in A, NEW q1, NEW q2, NEW i1, NEW i2,
                        UserLeaf(r.mem, pd1, q1, i1), UserLeaf(r.mem, pd2, q2, i2),
                        Leaf(r.mem, pd1, q1, i1) = Leaf(r.mem, pd2, q2, i2)
                 PROVE  pd1 = pd2 /\ q1 = q2 /\ i1 = i2
    BY DEF LeavesOnce
  <2>2. CASE Old(pd1, q1, i1) /\ Old(pd2, q2, i2)
    <3>1. /\ UserLeaf(mm.mem, pd1, q1, i1) /\ UserLeaf(mm.mem, pd2, q2, i2)
          /\ Leaf(mm.mem, pd1, q1, i1) = Leaf(mm.mem, pd2, q2, i2)
      BY <2>1, <2>2, ZenonT(60) DEF KeptLeaf
    <3>2. LeavesOnce(mm.mem, A)
      BY ZenonT(60) DEF Private
    <3> QED BY <3>1, <3>2, ZenonT(60) DEF LeavesOnce
  <2>3. CASE New(pd1, q1, i1) /\ New(pd2, q2, i2)
    <3> DEFINE k == q1 * E + i1 - page
               l == q2 * E + i2 - page
    <3>1. /\ pd1 = pd2 /\ q1 \in Nat /\ q2 \in Nat /\ i1 \in Nat /\ i2 \in Nat /\ i1 < E /\ i2 < E
          /\ k \in fresh /\ l \in fresh
          /\ mm.next + Rank(fresh, k) = mm.next + Rank(fresh, l)
      BY <2>1, <2>3, ZenonT(60) DEF FreshLeaf
    <3>2. k = l
      <4>1. Rank(fresh, k) \in Nat /\ Rank(fresh, l) \in Nat
        BY <1>9, <3>1, ZenonT(60)
      <4> HIDE DEF fresh, k, l
      <4>2. Rank(fresh, k) = Rank(fresh, l)
        BY ONLY <1>5, <3>1, <4>1
      <4> QED BY <1>9, <3>1, <4>2, ZenonT(60)
    <3>3. q1 * E + i1 - page = q2 * E + i2 - page
      BY <3>2, ZenonT(60)
    <3>4. q1 \in Nat /\ q2 \in Nat /\ i1 \in Nat /\ i2 \in Nat /\ i1 < E /\ i2 < E
      BY <3>1, ZenonT(60)
    <3>5. q1 * E \in Nat /\ q2 * E \in Nat
      BY ONLY <3>4, PagingAssumption
    <3>6. q1 * E + i1 = q2 * E + i2
      BY ONLY <3>3, <3>4, <3>5, page \in Nat, Cancel
    <3>7. q1 = q2 /\ i1 = i2
      BY ONLY <3>4, <3>6, SamePage
    <3> QED BY <3>1, <3>7, ZenonT(60)
  <2>4. CASE Old(pd1, q1, i1) /\ New(pd2, q2, i2)
    <3>1. Leaf(r.mem, pd1, q1, i1) \in Nat /\ Leaf(r.mem, pd1, q1, i1) < mm.next
      BY <1>11, <2>4, ZenonT(60)
    <3>2. mm.next <= Leaf(r.mem, pd2, q2, i2)
      BY <1>12, <2>4, ZenonT(60)
    <3> QED BY ONLY <1>5, <2>1, <3>1, <3>2
  <2>5. CASE New(pd1, q1, i1) /\ Old(pd2, q2, i2)
    <3>1. Leaf(r.mem, pd2, q2, i2) \in Nat /\ Leaf(r.mem, pd2, q2, i2) < mm.next
      BY <1>11, <2>5, ZenonT(60)
    <3>2. mm.next <= Leaf(r.mem, pd1, q1, i1)
      BY <1>12, <2>5, ZenonT(60)
    <3> QED BY ONLY <1>5, <2>1, <3>1, <3>2
  <2> QED BY <1>10, <2>1, <2>2, <2>3, <2>4, <2>5, ZenonT(60)
<1>15. Structures(r.mem, r.next, A) /\ floor <= r.next
  <2>1. Structures(r.mem, r.next, A)
    BY <1>2, ZenonT(60) DEF WritesTables
  <2> QED BY ONLY <1>5, <2>1
<1> QED BY <1>5, <1>6, <1>7, <1>13, <1>14, <1>15, ZenonT(60) DEF Private

-----------------------------------------------------------------------------
(* The first loop of bootstrap_mmap *)

NewFrame(mm, new, i) == mm.next + Rank(new, i)
NewFrames(mm, new) == {NewFrame(mm, new, i) : i \in new}
NewEntries(mm, new, user) == [i \in new |-> Entry(NewFrame(mm, new, i), user)]

Added(mm, pd, new, user, r) ==
  /\ r.next = mm.next + Cardinality(new)
  /\ r.mem = ([f \in NewFrames(mm, new) |-> <<>>]
              @@ (pd :> (NewEntries(mm, new, user) @@ mm.mem[pd]))) @@ mm.mem

LEMMA AddForm ==
  ASSUME NEW mm, Machine(mm), NEW pd, NEW page, NEW size, NEW user,
         NEW r, r = AddTables(mm, pd, page, size, user)
  PROVE  /\ Machine(r)
         /\ \/ r.mem = mm.mem /\ r.next = mm.next
            \/ Added(mm, pd, NewTables(mm, pd, page, size), user, r)
<1> DEFINE new == NewTables(mm, pd, page, size)
           store == [f \in NewFrames(mm, new) |-> <<>>]
                    @@ (pd :> (NewEntries(mm, new, user) @@ mm.mem[pd])) @@ mm.mem
<1>1. CASE \E f \in NewFrames(mm, new) : ~ Reachable(mm, f)
  <2>1. r = Fail(mm, "fault")
    BY <1>1, ZenonT(60) DEF AddTables, NewFrames, NewFrame
  <2>2. Machine(r) /\ r.mem = mm.mem /\ r.next = mm.next
    BY <2>1, Failed
  <2> QED BY <2>2, ZenonT(60)
<1>2. CASE ~ \E f \in NewFrames(mm, new) : ~ Reachable(mm, f)
  <2>1. r = Update(mm, mm.next + Cardinality(new), store)
    BY <1>2, ZenonT(60) DEF AddTables, NewFrames, NewFrame, NewEntries, Update, bootstrap_fetch_page
  <2> HIDE DEF store, new
  <2>2. IsUpdate(mm, mm.next + Cardinality(new), store, r)
    BY <2>1, Updated, ZenonT(60)
  <2> QED BY <2>2, ZenonT(60) DEF IsUpdate, Added, store, new
<1> QED BY <1>1, <1>2, ZenonT(60)

\* An entry of the directory is new or as it was.
IsNewEntry(mm, r, pd, new, user, q) ==
  /\ q \in new /\ q \notin DOMAIN mm.mem[pd]
  /\ r.mem[pd][q].user = user /\ Table(r.mem, pd, q) = NewFrame(mm, new, q)
IsOldEntry(mm, r, pd, q) == q \in DOMAIN mm.mem[pd] /\ r.mem[pd][q] = mm.mem[pd][q]

AddsTables(mm, r, pd, new, user) ==
  /\ r.next \in Nat /\ mm.next <= r.next
  /\ DOMAIN r.mem = NewFrames(mm, new) \union DOMAIN mm.mem
  /\ \A f \in NewFrames(mm, new) : f \in Nat /\ mm.next <= f /\ f < r.next /\ r.mem[f] = <<>>
  /\ \A x \in DOMAIN mm.mem : x # pd => r.mem[x] = mm.mem[x]
  /\ \A q \in DOMAIN r.mem[pd] : IsNewEntry(mm, r, pd, new, user, q) \/ IsOldEntry(mm, r, pd, q)
  /\ \A i \in new : i \in Nat
  /\ \A i, j \in new : NewFrame(mm, new, i) = NewFrame(mm, new, j) => i = j

LEMMA AddEffect ==
  ASSUME NEW mm, NEW pd, NEW page \in Nat, NEW size \in Nat, NEW user, NEW r,
         Added(mm, pd, NewTables(mm, pd, page, size), user, r),
         NEW A, pd \in A, Structures(mm.mem, mm.next, A)
  PROVE  AddsTables(mm, r, pd, NewTables(mm, pd, page, size), user)
<1> DEFINE new == NewTables(mm, pd, page, size)
           F == NewFrames(mm, new)
           cleared == [f \in F |-> <<>>]
           entries == NewEntries(mm, new, user)
           dir == pd :> (entries @@ mm.mem[pd])
<1>1. new \in SUBSET Nat /\ IsFiniteSet(new) /\ \A i \in new : i \notin DOMAIN mm.mem[pd]
  <2> DEFINE a == PdIndex(page)
             b == a + NoPageTables(mm, pd, page, size) - 1
  <2>1. a \in Nat /\ b \in Int
    BY Indices, TablesNat
  <2>2. new \subseteq a .. b /\ \A i \in new : i \notin DOMAIN mm.mem[pd]
    BY ZenonT(60) DEF NewTables
  <2> HIDE DEF a, b, new
  <2>3. a .. b \subseteq Nat /\ IsFiniteSet(a .. b)
    BY <2>1, FS_Interval
  <2> QED BY <2>2, <2>3, FS_Subset, ZenonT(60)
<1>2. /\ Cardinality(new) \in Nat
      /\ \A i \in new : Rank(new, i) \in Nat /\ Rank(new, i) < Cardinality(new)
      /\ \A i, j \in new : Rank(new, i) = Rank(new, j) => i = j
  <2> HIDE DEF new
  <2> QED BY <1>1, Ranks, ZenonT(60)
<1>3. mm.next \in Nat /\ pd \in Nat /\ pd < mm.next /\ pd \in DOMAIN mm.mem
      /\ \A f \in DOMAIN mm.mem : f \in Nat /\ f < mm.next
  BY ZenonT(60) DEF Structures
<1>4. r.next = mm.next + Cardinality(new) /\ r.mem = (cleared @@ dir) @@ mm.mem
  BY ZenonT(60) DEF Added
<1> HIDE DEF new
<1>5. \A i \in new : /\ NewFrame(mm, new, i) \in Nat /\ mm.next <= NewFrame(mm, new, i)
                     /\ NewFrame(mm, new, i) < r.next
  BY <1>2, <1>3, <1>4 DEF NewFrame
<1>6. \A i, j \in new : NewFrame(mm, new, i) = NewFrame(mm, new, j) => i = j
  BY <1>2, <1>3 DEF NewFrame
<1>7. \A f \in F : f \in Nat /\ mm.next <= f /\ f < r.next
  BY <1>5, ZenonT(60) DEF NewFrames
<1>8. pd \notin F
  BY <1>3, <1>7
<1>9. DOMAIN cleared = F /\ DOMAIN dir = {pd} /\ dir[pd] = entries @@ mm.mem[pd]
  BY ZenonT(60) DEF :>
<1>10. \A f \in F : cleared[f] = <<>>
  BY ZenonT(60)
<1> HIDE DEF F, cleared, dir, entries
<1>11. /\ DOMAIN r.mem = (F \union {pd}) \union DOMAIN mm.mem
       /\ \A f \in F : r.mem[f] = cleared[f]
       /\ r.mem[pd] = dir[pd]
       /\ \A x \in DOMAIN mm.mem : x \notin F /\ x # pd => r.mem[x] = mm.mem[x]
  <2>1. /\ DOMAIN (cleared @@ dir) = F \union {pd}
        /\ \A f \in F : (cleared @@ dir)[f] = cleared[f]
        /\ (cleared @@ dir)[pd] = dir[pd]
    BY <1>8, <1>9, ZenonT(60) DEF @@
  <2>2. PICK top : top = cleared @@ dir
    BY ZenonT(60)
  <2>3. r.mem = top @@ mm.mem /\ DOMAIN top = F \union {pd}
        /\ (\A f \in F : top[f] = cleared[f]) /\ top[pd] = dir[pd]
    BY <1>4, <2>1, <2>2, ZenonT(60)
  <2> QED BY ONLY <2>3, ZenonT(60) DEF @@
<1>12. ASSUME NEW q \in DOMAIN r.mem[pd]
       PROVE  IsNewEntry(mm, r, pd, new, user, q) \/ IsOldEntry(mm, r, pd, q)
  <2>1. r.mem[pd] = entries @@ mm.mem[pd]
    BY <1>9, <1>11, ZenonT(60)
  <2>2. DOMAIN entries = new /\ \A i \in new : entries[i] = Entry(NewFrame(mm, new, i), user)
    BY ZenonT(60) DEF entries, NewEntries
  <2>3. CASE q \in new
    <3>1. r.mem[pd][q] = Entry(NewFrame(mm, new, q), user)
      <4>1. (entries @@ mm.mem[pd])[q] = entries[q]
        BY <2>2, <2>3, ZenonT(60) DEF @@
      <4> QED BY <2>1, <2>2, <2>3, <4>1, ZenonT(60)
    <3>2. Entry(NewFrame(mm, new, q), user).user = user
          /\ Entry(NewFrame(mm, new, q), user).frame = NewFrame(mm, new, q)
      BY ZenonT(60) DEF Entry
    <3> QED BY <1>1, <2>3, <3>1, <3>2, ZenonT(60) DEF IsNewEntry, Table
  <2>4. CASE q \notin new
    <3>1. q \in DOMAIN mm.mem[pd] /\ (entries @@ mm.mem[pd])[q] = mm.mem[pd][q]
      BY <2>1, <2>2, <2>4, ZenonT(60) DEF @@
    <3> QED BY <2>1, <3>1, ZenonT(60) DEF IsOldEntry
  <2> QED BY <2>3, <2>4, ZenonT(60)
<1>13. /\ DOMAIN r.mem = F \union DOMAIN mm.mem
       /\ \A x \in DOMAIN mm.mem : x # pd => r.mem[x] = mm.mem[x]
  BY <1>3, <1>7, <1>11
<1>14. r.next \in Nat /\ mm.next <= r.next
  BY <1>2, <1>3, <1>4
<1>15. \A f \in F : f \in Nat /\ mm.next <= f /\ f < r.next /\ r.mem[f] = <<>>
  BY <1>7, <1>10, <1>11, ZenonT(60)
<1> QED BY <1>1, <1>6, <1>12, <1>13, <1>14, <1>15, ZenonT(60) DEF AddsTables, F, new

LEMMA AddEntries ==
  ASSUME NEW mm, NEW r, NEW pd, NEW new, NEW user, AddsTables(mm, r, pd, new, user),
         NEW A, pd \in A, Structures(mm.mem, mm.next, A),
         NEW a \in A, NEW q \in DOMAIN r.mem[a]
  PROVE  (a = pd /\ IsNewEntry(mm, r, pd, new, user, q)) \/ IsOldEntry(mm, r, a, q)
<1>1. CASE a = pd
  BY <1>1, ZenonT(60) DEF AddsTables
<1>2. CASE a # pd
  <2>1. r.mem[a] = mm.mem[a]
    BY <1>2, ZenonT(60) DEF AddsTables, Structures
  <2> QED BY <2>1, ZenonT(60) DEF IsOldEntry
<1> QED BY <1>1, <1>2, ZenonT(60)

LEMMA AddStructures ==
  ASSUME NEW mm, NEW r, NEW pd, NEW new, NEW user, AddsTables(mm, r, pd, new, user),
         NEW A, pd \in A, Structures(mm.mem, mm.next, A)
  PROVE  Structures(r.mem, r.next, A)
<1> DEFINE F == NewFrames(mm, new)
<1>1. /\ mm.next \in Nat /\ r.next \in Nat /\ mm.next <= r.next
      /\ \A f \in DOMAIN mm.mem : f \in Nat /\ f < mm.next
      /\ A \subseteq DOMAIN mm.mem
      /\ DOMAIN r.mem = F \union DOMAIN mm.mem
      /\ \A f \in F : f \in Nat /\ mm.next <= f /\ f < r.next
      /\ \A i \in new : i \in Nat
  BY ZenonT(60) DEF AddsTables, Structures
<1>2. \A i \in new : NewFrame(mm, new, i) \in F
  BY ZenonT(60) DEF NewFrames
<1> HIDE DEF F
<1>3. \A f \in DOMAIN r.mem : f \in Nat /\ f < r.next
  BY ONLY <1>1
<1>4. A \subseteq DOMAIN r.mem
  BY <1>1, ZenonT(60)
<1>5. \A f \in F : f \notin A
  BY ONLY <1>1
<1>6. ASSUME NEW a \in A, NEW q \in DOMAIN r.mem[a]
      PROVE  q \in Nat /\ Table(r.mem, a, q) \in Nat /\ Table(r.mem, a, q) < r.next
             /\ Table(r.mem, a, q) \notin A
  <2>1. CASE a = pd /\ IsNewEntry(mm, r, pd, new, user, q)
    BY <1>1, <1>2, <1>5, <2>1, ZenonT(60) DEF IsNewEntry
  <2>2. CASE IsOldEntry(mm, r, a, q)
    <3>1. Table(r.mem, a, q) = Table(mm.mem, a, q) /\ q \in DOMAIN mm.mem[a]
      BY <2>2, ZenonT(60) DEF IsOldEntry, Table
    <3>2. q \in Nat /\ Table(mm.mem, a, q) \in Nat /\ Table(mm.mem, a, q) < mm.next
          /\ Table(mm.mem, a, q) \notin A
      BY <3>1, ZenonT(60) DEF Structures
    <3>3. Table(mm.mem, a, q) < r.next
      BY ONLY <1>1, <3>2
    <3> QED BY <3>1, <3>2, <3>3, ZenonT(60)
  <2> QED BY <2>1, <2>2, AddEntries, ZenonT(60)
<1> QED BY <1>1, <1>3, <1>4, <1>6, ZenonT(60) DEF Structures

\* For the kernel, no table of a process comes into being.
LEMMA AddKernel ==
  ASSUME NEW mm, NEW r, NEW pd, NEW new, AddsTables(mm, r, pd, new, FALSE),
         NEW A, pd \in A, Structures(mm.mem, mm.next, A), NoUserTable(mm.mem, A)
  PROVE  NoUserTable(r.mem, A)
<1>1. SUFFICES ASSUME NEW a \in A, NEW q \in DOMAIN r.mem[a] PROVE ~ r.mem[a][q].user
  BY ZenonT(60) DEF NoUserTable
<1>2. CASE a = pd /\ IsNewEntry(mm, r, pd, new, FALSE, q)
  BY <1>2, ZenonT(60) DEF IsNewEntry
<1>3. CASE IsOldEntry(mm, r, a, q)
  BY <1>3, ZenonT(60) DEF IsOldEntry, NoUserTable
<1> QED BY <1>2, <1>3, AddEntries, ZenonT(60)

\* For a process, memory stays private.
LEMMA AddKeeps ==
  ASSUME NEW mm, NEW r, NEW pd, NEW new, AddsTables(mm, r, pd, new, TRUE),
         NEW A, pd \in A, NEW floor, Private(mm.mem, mm.next, A, floor)
  PROVE  Private(r.mem, r.next, A, floor)
<1> DEFINE F == NewFrames(mm, new)
           New(a, q) == a = pd /\ IsNewEntry(mm, r, pd, new, TRUE, q)
           Old(a, q) == IsOldEntry(mm, r, a, q)
<1>0. Structures(mm.mem, mm.next, A)
  BY ZenonT(60) DEF Private
<1>1. Structures(r.mem, r.next, A)
  BY <1>0, AddStructures, ZenonT(60)
<1>2. /\ mm.next \in Nat /\ r.next \in Nat /\ mm.next <= r.next /\ floor \in Nat /\ floor <= mm.next
      /\ DOMAIN r.mem = F \union DOMAIN mm.mem
      /\ \A f \in F : f \in Nat /\ mm.next <= f /\ f < r.next /\ r.mem[f] = <<>>
  BY <1>0, ZenonT(60) DEF AddsTables, Structures, Private
<1>3. \A i \in new : NewFrame(mm, new, i) \in F
  BY ZenonT(60) DEF NewFrames
<1>4. \A a \in A : \A q \in DOMAIN r.mem[a] : New(a, q) \/ Old(a, q)
  BY <1>0, AddEntries, ZenonT(60)
<1>5. ASSUME NEW a \in A, NEW q, New(a, q)
      PROVE  Table(r.mem, a, q) \in F /\ r.mem[a][q].user
  BY <1>3, <1>5, ZenonT(60) DEF IsNewEntry
<1>6. ASSUME NEW a \in A, NEW q, Old(a, q)
      PROVE  /\ q \in DOMAIN mm.mem[a] /\ r.mem[a][q] = mm.mem[a][q]
             /\ Table(r.mem, a, q) = Table(mm.mem, a, q)
             /\ Table(mm.mem, a, q) \in Nat /\ Table(mm.mem, a, q) < mm.next
             /\ Table(mm.mem, a, q) \notin A
  BY <1>0, <1>6, ZenonT(60) DEF IsOldEntry, Table, Structures
<1> HIDE DEF F, New, Old
<1>7. TablesPlaced(r.mem, A, floor)
  <2>1. SUFFICES ASSUME NEW a \in A, NEW q \in DOMAIN r.mem[a]
                 PROVE  IF r.mem[a][q].user
                        THEN Table(r.mem, a, q) \in DOMAIN r.mem /\ floor <= Table(r.mem, a, q)
                        ELSE Table(r.mem, a, q) < floor
    BY ZenonT(60) DEF TablesPlaced
  <2>2. CASE New(a, q)
    <3>1. Table(r.mem, a, q) \in F /\ r.mem[a][q].user
      BY <1>5, <2>2, ZenonT(60)
    <3>2. Table(r.mem, a, q) \in DOMAIN r.mem /\ floor <= Table(r.mem, a, q)
      BY ONLY <1>2, <3>1
    <3> QED BY <3>1, <3>2, ZenonT(60)
  <2>3. CASE Old(a, q)
    <3>1. /\ q \in DOMAIN mm.mem[a] /\ r.mem[a][q] = mm.mem[a][q]
          /\ Table(r.mem, a, q) = Table(mm.mem, a, q)
      BY <1>6, <2>3, ZenonT(60)
    <3>2. IF mm.mem[a][q].user
          THEN Table(mm.mem, a, q) \in DOMAIN mm.mem /\ floor <= Table(mm.mem, a, q)
          ELSE Table(mm.mem, a, q) < floor
      BY <3>1, ZenonT(60) DEF Private, TablesPlaced
    <3>3. \A f \in DOMAIN mm.mem : f \in DOMAIN r.mem
      BY <1>2, ZenonT(60)
    <3> QED BY <3>1, <3>2, <3>3, ZenonT(60)
  <2> QED BY <1>4, <2>2, <2>3, ZenonT(60)
<1>8. TablesOnce(r.mem, A)
  <2>1. SUFFICES ASSUME NEW pd1 \in A, NEW pd2 \in A, NEW q1, NEW q2,
                        UserTable(r.mem, pd1, q1), UserTable(r.mem, pd2, q2),
                        Table(r.mem, pd1, q1) = Table(r.mem, pd2, q2)
                 PROVE  pd1 = pd2 /\ q1 = q2
    BY ZenonT(60) DEF TablesOnce
  <2>2. (New(pd1, q1) \/ Old(pd1, q1)) /\ (New(pd2, q2) \/ Old(pd2, q2))
    BY <1>4, <2>1, ZenonT(60) DEF UserTable
  <2>3. CASE New(pd1, q1) /\ New(pd2, q2)
    BY <2>1, <2>3, ZenonT(60) DEF New, IsNewEntry, AddsTables
  <2>4. CASE Old(pd1, q1) /\ Old(pd2, q2)
    <3>1. /\ q1 \in DOMAIN mm.mem[pd1] /\ r.mem[pd1][q1] = mm.mem[pd1][q1]
          /\ Table(r.mem, pd1, q1) = Table(mm.mem, pd1, q1)
          /\ q2 \in DOMAIN mm.mem[pd2] /\ r.mem[pd2][q2] = mm.mem[pd2][q2]
          /\ Table(r.mem, pd2, q2) = Table(mm.mem, pd2, q2)
      BY <1>6, <2>4, ZenonT(60)
    <3>2. /\ UserTable(mm.mem, pd1, q1) /\ UserTable(mm.mem, pd2, q2)
          /\ Table(mm.mem, pd1, q1) = Table(mm.mem, pd2, q2)
      BY <2>1, <3>1, ZenonT(60) DEF UserTable
    <3>3. TablesOnce(mm.mem, A)
      BY ZenonT(60) DEF Private
    <3> QED BY <3>2, <3>3, ZenonT(60) DEF TablesOnce
  <2>5. ASSUME NEW a \in A, NEW b \in A, NEW p, NEW q, New(a, p), Old(b, q)
        PROVE  Table(r.mem, a, p) # Table(r.mem, b, q)
    <3>1. Table(r.mem, a, p) \in F
      BY <1>5, <2>5, ZenonT(60)
    <3>2. Table(r.mem, b, q) \in Nat /\ Table(r.mem, b, q) < mm.next
      BY <1>6, <2>5, ZenonT(60)
    <3> QED BY ONLY <1>2, <3>1, <3>2
  <2> QED BY <2>1, <2>2, <2>3, <2>4, <2>5, ZenonT(60)
<1>9. ASSUME NEW a \in A, NEW q, NEW i, UserLeaf(r.mem, a, q, i)
      PROVE  UserLeaf(mm.mem, a, q, i) /\ Leaf(r.mem, a, q, i) = Leaf(mm.mem, a, q, i)
  <2>1. q \in DOMAIN r.mem[a] /\ r.mem[a][q].user /\ i \in DOMAIN r.mem[Table(r.mem, a, q)]
    BY <1>9, ZenonT(60) DEF UserLeaf, UserTable
  <2>2. CASE New(a, q)
    <3>1. r.mem[Table(r.mem, a, q)] = <<>>
      BY <1>2, <1>5, <2>2, ZenonT(60)
    <3>2. DOMAIN <<>> = {}
      OBVIOUS
    <3> QED BY <2>1, <3>1, <3>2, ZenonT(60)
  <2>3. CASE Old(a, q)
    <3>1. /\ q \in DOMAIN mm.mem[a] /\ r.mem[a][q] = mm.mem[a][q]
          /\ Table(r.mem, a, q) = Table(mm.mem, a, q) /\ Table(mm.mem, a, q) \notin A
      BY <1>6, <2>3, ZenonT(60)
    <3>2. Table(mm.mem, a, q) \in DOMAIN mm.mem
      BY <2>1, <3>1, ZenonT(60) DEF Private, TablesPlaced
    <3>3. r.mem[Table(mm.mem, a, q)] = mm.mem[Table(mm.mem, a, q)]
      BY <3>1, <3>2, ZenonT(60) DEF AddsTables
    <3> QED BY <2>1, <3>1, <3>3, ZenonT(60) DEF UserLeaf, UserTable, Leaf
  <2> QED BY <1>4, <2>1, <2>2, <2>3, ZenonT(60)
<1>10. LeavesPlaced(r.mem, r.next, A, floor)
  <2>1. SUFFICES ASSUME NEW a \in A, NEW q, NEW i, UserLeaf(r.mem, a, q, i)
                 PROVE  /\ i \in Nat /\ i < E
                        /\ Leaf(r.mem, a, q, i) \in Nat /\ floor <= Leaf(r.mem, a, q, i)
                        /\ Leaf(r.mem, a, q, i) < r.next /\ Leaf(r.mem, a, q, i) \notin DOMAIN r.mem
    BY ZenonT(60) DEF LeavesPlaced
  <2>2. UserLeaf(mm.mem, a, q, i) /\ Leaf(r.mem, a, q, i) = Leaf(mm.mem, a, q, i)
    BY <1>9, <2>1, ZenonT(60)
  <2>3. LeavesPlaced(mm.mem, mm.next, A, floor)
    BY ZenonT(60) DEF Private
  <2>4. /\ i \in Nat /\ i < E
        /\ Leaf(r.mem, a, q, i) \in Nat /\ floor <= Leaf(r.mem, a, q, i)
        /\ Leaf(r.mem, a, q, i) < mm.next /\ Leaf(r.mem, a, q, i) \notin DOMAIN mm.mem
    BY <2>2, <2>3, ZenonT(60) DEF LeavesPlaced
  <2> QED BY ONLY <1>2, <2>4
<1>11. LeavesOnce(r.mem, A)
  <2>1. SUFFICES ASSUME NEW pd1 \in A, NEW pd2 \in A, NEW q1, NEW q2, NEW i1, NEW i2,
                        UserLeaf(r.mem, pd1, q1, i1), UserLeaf(r.mem, pd2, q2, i2),
                        Leaf(r.mem, pd1, q1, i1) = Leaf(r.mem, pd2, q2, i2)
                 PROVE  pd1 = pd2 /\ q1 = q2 /\ i1 = i2
    BY DEF LeavesOnce
  <2>2. /\ UserLeaf(mm.mem, pd1, q1, i1) /\ UserLeaf(mm.mem, pd2, q2, i2)
        /\ Leaf(mm.mem, pd1, q1, i1) = Leaf(mm.mem, pd2, q2, i2)
    BY <1>9, <2>1, ZenonT(60)
  <2>3. LeavesOnce(mm.mem, A)
    BY ZenonT(60) DEF Private
  <2> QED BY <2>2, <2>3, ZenonT(60) DEF LeavesOnce
<1>12. floor <= r.next
  BY ONLY <1>2
<1> QED BY <1>1, <1>2, <1>7, <1>8, <1>10, <1>11, <1>12, ZenonT(60) DEF Private

-----------------------------------------------------------------------------
(* bootstrap_mmap *)

LEMMA AddTablesKernel ==
  ASSUME NEW mm, NEW A, Kernel(mm, A), NEW pd \in A, NEW page \in Nat, NEW size \in Nat, NEW r,
         r = AddTables(mm, pd, page, size, FALSE)
  PROVE  Kernel(r, A) /\ mm.next <= r.next
<1>1. Machine(mm) /\ Structures(mm.mem, mm.next, A) /\ NoUserTable(mm.mem, A) /\ mm.next \in Nat
  BY ZenonT(60) DEF Kernel, Structures
<1> DEFINE new == NewTables(mm, pd, page, size)
<1>2. Machine(r) /\ ((r.mem = mm.mem /\ r.next = mm.next) \/ Added(mm, pd, new, FALSE, r))
  BY <1>1, AddForm, ZenonT(60)
<1>3. CASE r.mem = mm.mem /\ r.next = mm.next
  <2>1. mm.next <= mm.next
    BY ONLY <1>1
  <2> QED BY <1>1, <1>2, <1>3, <2>1, ZenonT(60) DEF Kernel
<1>4. CASE Added(mm, pd, new, FALSE, r)
  <2>1. AddsTables(mm, r, pd, new, FALSE)
    BY <1>1, <1>4, AddEffect, ZenonT(60)
  <2>2. Structures(r.mem, r.next, A)
    BY <1>1, <2>1, AddStructures, ZenonT(60)
  <2>3. NoUserTable(r.mem, A)
    BY <1>1, <2>1, AddKernel, ZenonT(60)
  <2>4. mm.next <= r.next
    BY <2>1, ZenonT(60) DEF AddsTables
  <2> QED BY <1>2, <2>2, <2>3, <2>4, ZenonT(60) DEF Kernel
<1> QED BY <1>2, <1>3, <1>4, ZenonT(60)

LEMMA MapPagesKernel ==
  ASSUME NEW mm, NEW A, Kernel(mm, A), NEW pd \in A, NEW paddr, NEW page \in Nat, NEW n \in Nat,
         NEW flags, NEW r, r = MapPages(mm, pd, paddr, page, n, flags)
  PROVE  Kernel(r, A) /\ mm.next <= r.next
<1>1. Machine(mm) /\ Structures(mm.mem, mm.next, A) /\ NoUserTable(mm.mem, A) /\ mm.next \in Nat
  BY ZenonT(60) DEF Kernel, Structures
<1>2. Machine(r) /\ ((r.mem = mm.mem /\ r.next = mm.next)
                    \/ Completed(mm, pd, paddr, page, n, flags, r))
  BY <1>1, MapForm, ZenonT(60)
<1>3. CASE r.mem = mm.mem /\ r.next = mm.next
  <2>1. mm.next <= mm.next
    BY ONLY <1>1
  <2> QED BY <1>1, <1>2, <1>3, <2>1, ZenonT(60) DEF Kernel
<1>4. CASE Completed(mm, pd, paddr, page, n, flags, r)
  <2>1. WritesTables(mm, r, TablesOf(mm.mem, pd, page, n), A)
    BY <1>1, <1>4, MapTables, ZenonT(60)
  <2>2. NoUserTable(r.mem, A)
    BY <1>1, <2>1, ZenonT(60) DEF WritesTables, NoUserTable
  <2> QED BY <1>2, <2>1, <2>2, ZenonT(60) DEF Kernel, WritesTables
<1> QED BY <1>2, <1>3, <1>4, ZenonT(60)

LEMMA MmapKernel ==
  ASSUME NEW mm, NEW A, Kernel(mm, A), NEW pd \in A, NEW paddr, NEW page \in Nat, NEW size \in Nat,
         NEW prot, NEW r, r = bootstrap_mmap(mm, pd, paddr, page, size, prot, FALSE)
  PROVE  Kernel(r, A) /\ mm.next <= r.next
<1>1. PICK t : t = AddTables(mm, pd, page, size, FALSE)
  BY ZenonT(60)
<1>2. Kernel(t, A) /\ mm.next <= t.next
  BY <1>1, AddTablesKernel, ZenonT(60)
<1>3. mm.next \in Nat /\ t.next \in Nat
  BY <1>2, ZenonT(60) DEF Kernel, Structures
<1>4. PagesOf(size) \in Nat
  BY PagesNat, ZenonT(60)
<1>5. CASE r = mm
  <2>1. mm.next <= mm.next
    BY ONLY <1>3
  <2> QED BY <1>5, <2>1, ZenonT(60)
<1>6. CASE r = MapPages(t, pd, paddr, page, PagesOf(size), PageFlags(prot))
  <2>1. Kernel(r, A) /\ t.next <= r.next
    BY <1>2, <1>4, <1>6, MapPagesKernel, ZenonT(60)
  <2>2. r.next \in Nat
    BY <2>1, ZenonT(60) DEF Kernel, Structures
  <2>3. mm.next <= r.next
    BY ONLY <1>2, <1>3, <2>1, <2>2
  <2> QED BY <2>1, <2>3, ZenonT(60)
<1>7. r = mm \/ r = t \/ r = MapPages(t, pd, paddr, page, PagesOf(size), PageFlags(prot))
  BY <1>1, ZenonT(60) DEF bootstrap_mmap
<1> QED BY <1>2, <1>5, <1>6, <1>7, ZenonT(60)

LEMMA AddTablesUser ==
  ASSUME NEW mm, NEW A, NEW floor, User(mm, A, floor), NEW pd \in A,
         NEW page \in Nat, NEW size \in Nat, NEW r,
         r = AddTables(mm, pd, page, size, TRUE)
  PROVE  User(r, A, floor) /\ Others(mm, r, pd, A)
<1>1. Machine(mm) /\ Private(mm.mem, mm.next, A, floor) /\ Structures(mm.mem, mm.next, A)
  BY ZenonT(60) DEF User, Private
<1> DEFINE new == NewTables(mm, pd, page, size)
<1>2. Machine(r) /\ ((r.mem = mm.mem /\ r.next = mm.next) \/ Added(mm, pd, new, TRUE, r))
  BY <1>1, AddForm, ZenonT(60)
<1>3. CASE r.mem = mm.mem /\ r.next = mm.next
  BY <1>1, <1>2, <1>3, ZenonT(60) DEF User, Others
<1>4. CASE Added(mm, pd, new, TRUE, r)
  <2>1. AddsTables(mm, r, pd, new, TRUE)
    BY <1>1, <1>4, AddEffect, ZenonT(60)
  <2>2. Private(r.mem, r.next, A, floor)
    BY <1>1, <2>1, AddKeeps, ZenonT(60)
  <2>3. Others(mm, r, pd, A)
    BY <1>1, <2>1, ZenonT(60) DEF AddsTables, Structures, Others
  <2> QED BY <1>2, <2>2, <2>3, ZenonT(60) DEF User
<1> QED BY <1>2, <1>3, <1>4, ZenonT(60)

LEMMA MapPagesUser ==
  ASSUME NEW mm, NEW A, NEW floor, User(mm, A, floor), NEW pd \in A,
         NEW page \in Nat, NEW n \in Nat, NEW flags, Frameless(flags), NEW r,
         r = MapPages(mm, pd, PAGE_ALLOCATE, page, n, flags)
  PROVE  User(r, A, floor) /\ Others(mm, r, pd, A)
<1>1. Machine(mm) /\ Private(mm.mem, mm.next, A, floor) /\ Structures(mm.mem, mm.next, A)
  BY ZenonT(60) DEF User, Private
<1>2. Machine(r) /\ ((r.mem = mm.mem /\ r.next = mm.next)
                    \/ Completed(mm, pd, PAGE_ALLOCATE, page, n, flags, r))
  BY <1>1, MapForm, ZenonT(60)
<1>3. CASE r.mem = mm.mem /\ r.next = mm.next
  BY <1>1, <1>2, <1>3, ZenonT(60) DEF User, Others
<1>4. CASE Completed(mm, pd, PAGE_ALLOCATE, page, n, flags, r)
  <2>1. WritesTables(mm, r, TablesOf(mm.mem, pd, page, n), A)
    BY <1>1, <1>4, MapTables, ZenonT(60)
  <2>2. Private(r.mem, r.next, A, floor)
    <3>1. pd \in A /\ page \in Nat /\ n \in Nat /\ Frameless(flags)
      BY ZenonT(60)
    <3> QED BY ONLY <1>1, <1>4, <3>1, MapKeeps, ZenonT(60)
  <2> QED BY <1>2, <2>1, <2>2, ZenonT(60) DEF User, Others, WritesTables
<1> QED BY <1>2, <1>3, <1>4, ZenonT(60)

LEMMA MmapUser ==
  ASSUME NEW mm, NEW A, NEW floor, User(mm, A, floor), NEW pd \in A,
         NEW page \in Nat, NEW size \in Nat, NEW prot, NEW r,
         r = bootstrap_mmap(mm, pd, PAGE_ALLOCATE, page, size, prot, TRUE)
  PROVE  User(r, A, floor) /\ Others(mm, r, pd, A)
<1>1. PICK t : t = AddTables(mm, pd, page, size, TRUE)
  BY ZenonT(60)
<1>2. User(t, A, floor) /\ Others(mm, t, pd, A)
  BY <1>1, AddTablesUser, ZenonT(60)
<1>3. PagesOf(size) \in Nat
  BY PagesNat, ZenonT(60)
<1>4. Frameless(PageFlags(prot))
  BY ZenonT(60) DEF PageFlags, Frameless
<1>5. CASE r = mm
  BY <1>5, ZenonT(60) DEF Others
<1>6. CASE r = MapPages(t, pd, PAGE_ALLOCATE, page, PagesOf(size), PageFlags(prot))
  <2>1. User(r, A, floor) /\ Others(t, r, pd, A)
    BY <1>2, <1>3, <1>4, <1>6, MapPagesUser, ZenonT(60)
  <2> QED BY <1>2, <2>1, ZenonT(60) DEF Others
<1>7. r = mm \/ r = t \/ r = MapPages(t, pd, PAGE_ALLOCATE, page, PagesOf(size), PageFlags(prot))
  BY <1>1, ZenonT(60) DEF bootstrap_mmap
<1> QED BY <1>2, <1>5, <1>6, <1>7, ZenonT(60)

-----------------------------------------------------------------------------
\* bootstrap_mmap keeps what the kernel and the processes rely on, for every
\* number of entries of a table and every size of a page.
THEOREM Mmap == MmapKeepsKernel /\ MmapKeepsPrivate
<1>1. MmapKeepsKernel
  <2> SUFFICES ASSUME NEW mm, NEW A, NEW pd \in A, NEW paddr, NEW page \in Nat, NEW size \in Nat,
                      NEW prot, NEW r, Kernel(mm, A),
                      r = bootstrap_mmap(mm, pd, paddr, page, size, prot, FALSE)
               PROVE  Kernel(r, A) /\ mm.next <= r.next
    BY ZenonT(60) DEF MmapKeepsKernel
  <2> QED BY MmapKernel, ZenonT(60)
<1>2. MmapKeepsPrivate
  <2> SUFFICES ASSUME NEW mm, NEW A, NEW floor, NEW pd \in A, NEW page \in Nat, NEW size \in Nat,
                      NEW prot, NEW r, User(mm, A, floor),
                      r = bootstrap_mmap(mm, pd, PAGE_ALLOCATE, page, size, prot, TRUE)
               PROVE  User(r, A, floor) /\ Others(mm, r, pd, A)
    BY ZenonT(60) DEF MmapKeepsPrivate
  <2> QED BY MmapUser, ZenonT(60)
<1> QED BY <1>1, <1>2, ZenonT(60)

=============================================================================
