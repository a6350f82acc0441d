--------------------------- MODULE Kmalloc_proofs ---------------------------
(***************************************************************************)
(* The heap for any number of pages, any page size and any sizes asked     *)
(* for.  A bag never has more than one page, because fetch_object prepares *)
(* a second one and does not link it; so the lists of pages are short and  *)
(* the work is in the freelist that runs through the objects of a page.    *)
(* First the lists: which pages a chain of links meets, how the freelist   *)
(* of a page changes, what fetching a page does to the heap, and the       *)
(* addresses of objects.                                                   *)
(***************************************************************************)
EXTENDS KmallocRefinement, FiniteSetTheorems, TLAPS

\* Every step below is tried with the SMT solver, unless it names another prover.
USE SMTT(60)

-----------------------------------------------------------------------------
(* Sizes *)

Pow(k) == 2 ^ k

LEMMA Powers ==
  /\ \A j \in 0 .. 10 : j \in {0, 1, 2, 3, 4, 5, 6, 7, 8, 9, 10}
  /\ Pow(0) = 1 /\ Pow(1) = 2 /\ Pow(2) = 4 /\ Pow(3) = 8
  /\ Pow(4) = 16 /\ Pow(5) = 32 /\ Pow(6) = 64 /\ Pow(7) = 128
  /\ Pow(8) = 256 /\ Pow(9) = 512 /\ Pow(10) = 1024
BY DEF Pow

LEMMA PowersGrow ==
  ASSUME NEW i \in 0 .. 10, NEW j \in 0 .. 10
  PROVE  i < j => 2 * Pow(i) <= Pow(j)
BY Powers

LEMMA PowerNext ==
  ASSUME NEW i \in 0 .. 9
  PROVE  Pow(i) \in Nat \ {0} /\ Pow(i + 1) = 2 * Pow(i)
<1>1. i \in {0, 1, 2, 3, 4, 5, 6, 7, 8, 9}
  OBVIOUS
<1> QED BY <1>1, Powers

\* The floor of a logarithm, for numbers below 1024.
LEMMA FloorIs ==
  ASSUME NEW n \in Nat, NEW k \in 0 .. 9, Pow(k) <= n, n < Pow(k + 1)
  PROVE  FloorLog2(n) = k
<1>1. ASSUME NEW j \in 0 .. 9, Pow(j) <= n, n < Pow(j + 1) PROVE j = k
  <2>1. k \in 0 .. 10 /\ j \in 0 .. 10
    OBVIOUS
  <2>2. Pow(k) \in Nat /\ Pow(j) \in Nat /\ Pow(k + 1) = 2 * Pow(k) /\ Pow(j + 1) = 2 * Pow(j)
    <3>1. Pow(k) \in Nat /\ Pow(k + 1) = 2 * Pow(k)
      BY PowerNext, ZenonT(60)
    <3>2. Pow(j) \in Nat /\ Pow(j + 1) = 2 * Pow(j)
      BY PowerNext, ZenonT(60)
    <3> QED BY <3>1, <3>2, ZenonT(60)
  <2>3. (j < k => 2 * Pow(j) <= Pow(k)) /\ (k < j => 2 * Pow(k) <= Pow(j))
    BY <2>1, PowersGrow, ZenonT(60)
  <2> QED BY <1>1, <2>2, <2>3
<1> DEFINE P(j) == Pow(j) <= n /\ n < Pow(j + 1)
<1>2. FloorLog2(n) = CHOOSE j \in 0 .. 9 : P(j)
  BY ZenonT(60) DEF FloorLog2, NO_CLASSES, Pow
<1>3. P(k) /\ \A j \in 0 .. 9 : P(j) => j = k
  BY <1>1, ZenonT(60)
<1> HIDE DEF P
<1> QED BY <1>2, <1>3, ZenonT(60)
-----------------------------------------------------------------------------
(* Lists of pages *)

\* The pages w[i] met i links after start.
Hops(h, start, w) ==
  w = [i \in 0 .. NumPages |-> IF i = 0 THEN start
                               ELSE IF w[i - 1] = NULL THEN NULL ELSE h.next[w[i - 1]]]

LEMMA HopsDefined ==
  ASSUME NEW h, NEW start, NEW w, Hops(h, start, w)
  PROVE  Hops(h, start, Linked(h, start))
<1> DEFINE g == CHOOSE x :
             x = [i \in 0 .. NumPages |-> IF i = 0 THEN start
                                          ELSE IF x[i - 1] = NULL THEN NULL ELSE h.next[x[i - 1]]]
<1>1. Hops(h, start, g)
  BY ZenonT(60) DEF Hops
<1>2. Linked(h, start) = g
  BY ZenonT(60) DEF Linked
<1> QED BY <1>1, <1>2, ZenonT(60)

LEMMA LeastNat ==
  ASSUME NEW S \in SUBSET Nat, S # {}
  PROVE  \E n \in S : \A k \in S : n <= k
<1> DEFINE Less == OpToRel(<, Nat)
<1>1. IsWellFoundedOn(Less, Nat)
  BY NatLessThanWellFounded, ZenonT(60)
<1>2. \A x, y \in Nat : y < x => <<y, x>> \in Less
  BY ZenonT(60) DEF OpToRel
<1> HIDE DEF Less
<1>3. PICK n \in S : \A y \in S : ~ (<<y, n>> \in Less)
  BY <1>1, WFMin, ZenonT(60)
<1>4. ASSUME NEW k \in S PROVE n <= k
  <2>1. ~ (k < n)
    BY <1>2, <1>3, ZenonT(60)
  <2> QED BY <2>1
<1> QED BY <1>4, ZenonT(60)

\* Links determine the pages met, so any such sequence gives the list.
LEMMA ChainIs ==
  ASSUME NEW h, NEW start, NEW w, Hops(h, start, w), NumPages \in Nat
  PROVE  Chain(h, start) = {w[i] : i \in 0 .. NumPages} \ {NULL}
<1> DEFINE hop == Linked(h, start)
<1>1. Hops(h, start, hop)
  BY HopsDefined, ZenonT(60)
<1>2. \A i \in 0 .. NumPages : hop[i] = IF i = 0 THEN start
                               ELSE IF hop[i - 1] = NULL THEN NULL ELSE h.next[hop[i - 1]]
  BY <1>1, ZenonT(60) DEF Hops
<1>3. \A i \in 0 .. NumPages : w[i] = IF i = 0 THEN start
                               ELSE IF w[i - 1] = NULL THEN NULL ELSE h.next[w[i - 1]]
  BY ZenonT(60) DEF Hops
<1> DEFINE Bad == {i \in 0 .. NumPages : hop[i] # w[i]}
<1>4. Bad = {}
  <2> SUFFICES ASSUME Bad # {} PROVE FALSE
    BY ZenonT(60)
  <2> HIDE DEF hop
  <2> Bad \in SUBSET Nat
    OBVIOUS
  <2>1. PICK i \in Bad : \A j \in Bad : i <= j
    BY LeastNat, ZenonT(60)
  <2>2. i # 0
    BY <1>2, <1>3, <2>1, ZenonT(60)
  <2>3. i - 1 \in 0 .. NumPages /\ i - 1 \notin Bad
    BY <2>1, <2>2
  <2>4. hop[i - 1] = w[i - 1]
    BY <2>3, ZenonT(60)
  <2> QED BY <1>2, <1>3, <2>1, <2>2, <2>4
<1>5. \A i \in 0 .. NumPages : hop[i] = w[i]
  BY <1>4, ZenonT(60)
<1> HIDE DEF hop
<1> QED BY <1>5, ZenonT(60) DEF Chain, hop

LEMMA ChainNull ==
  ASSUME NEW h, NumPages \in Nat
  PROVE  Chain(h, NULL) = {}
<1> DEFINE w == [i \in 0 .. NumPages |-> NULL]
<1>1. Hops(h, NULL, w)
  <2>1. \A i \in 0 .. NumPages : i # 0 => w[i - 1] = NULL
    OBVIOUS
  <2> QED BY <2>1, ZenonT(60) DEF Hops
<1> QED BY <1>1, ChainIs

\* A page without a successor.
LEMMA ChainOne ==
  ASSUME NEW h, NEW p \in Pages, h.next[p] = NULL, NumPages \in Nat
  PROVE  Chain(h, p) = {p}
<1> DEFINE w == [i \in 0 .. NumPages |-> IF i = 0 THEN p ELSE NULL]
<1>1. p # NULL
  BY DEF Pages, NULL
<1>2. Hops(h, p, w)
  <2>1. \A i \in 0 .. NumPages :
          w[i] = IF i = 0 THEN p ELSE IF w[i - 1] = NULL THEN NULL ELSE h.next[w[i - 1]]
    BY <1>1
  <2> HIDE DEF w
  <2>2. w = [i \in 0 .. NumPages |-> w[i]]
    BY ZenonT(60) DEF w
  <2> QED BY <2>1, <2>2, ZenonT(60) DEF Hops
<1>3. Chain(h, p) = {w[i] : i \in 0 .. NumPages} \ {NULL}
  BY <1>2, ChainIs
<1>4. w[0] = p /\ \A i \in 0 .. NumPages : w[i] = p \/ w[i] = NULL
  OBVIOUS
<1>5. 0 \in 0 .. NumPages
  OBVIOUS
<1> HIDE DEF w
<1> QED BY <1>1, <1>3, <1>4, <1>5, ZenonT(60)

\* Pages linked each to the next.
LEMMA ChainRest ==
  ASSUME NEW h, NEW first \in Pages, NumPages \in Nat,
         \A p \in Pages : p >= first => h.next[p] = IF p < NumPages THEN p + 1 ELSE NULL
  PROVE  Chain(h, first) \subseteq {p \in Pages : p >= first}
<1> DEFINE w == [i \in 0 .. NumPages |-> IF first + i <= NumPages THEN first + i ELSE NULL]
<1>1. Hops(h, first, w)
  <2>1. ASSUME NEW i \in 0 .. NumPages
        PROVE  w[i] = IF i = 0 THEN first ELSE IF w[i - 1] = NULL THEN NULL ELSE h.next[w[i - 1]]
    <3>1. CASE i = 0
      BY <3>1 DEF Pages
    <3>2. CASE i # 0 /\ first + (i - 1) <= NumPages
      <4>1. first + (i - 1) \in Pages /\ first + (i - 1) >= first /\ i - 1 \in 0 .. NumPages
        BY <3>2 DEF Pages
      <4>2. w[i - 1] = first + (i - 1) /\ w[i - 1] # NULL
        BY <4>1, <3>2 DEF Pages, NULL
      <4>3. h.next[first + (i - 1)] = IF first + (i - 1) < NumPages THEN first + (i - 1) + 1 ELSE NULL
        BY <4>1, ZenonT(60)
      <4> QED BY <4>1, <4>2, <4>3, <3>2 DEF Pages
    <3>3. CASE i # 0 /\ ~ (first + (i - 1) <= NumPages)
      BY <3>3 DEF Pages
    <3> QED BY <3>1, <3>2, <3>3, ZenonT(60)
  <2> HIDE DEF w
  <2>2. w = [i \in 0 .. NumPages |-> w[i]]
    BY ZenonT(60) DEF w
  <2> QED BY <2>1, <2>2, ZenonT(60) DEF Hops
<1>2. Chain(h, first) = {w[i] : i \in 0 .. NumPages} \ {NULL}
  BY <1>1, ChainIs, ZenonT(60)
<1>3. \A i \in 0 .. NumPages : w[i] # NULL => w[i] \in Pages /\ w[i] >= first
  BY DEF Pages
<1> HIDE DEF w
<1> QED BY <1>2, <1>3, ZenonT(60)
-----------------------------------------------------------------------------
(* Classes of sizes *)

\* The classes of the sizes callers ask for.
Served == {idx \in 2 .. 8 : ObjSize(idx) \in Sizes}

LEMMA Counts ==
  ASSUME NEW idx \in Served
  PROVE  /\ ObjCount(idx) \in Nat /\ ObjCount(2) \in Nat
         /\ 2 <= ObjCount(idx) /\ ObjCount(idx) <= ObjCount(2)
         /\ FloorLog2(ObjSize(idx)) = idx
         /\ idx \in Classes
<1> DEFINE room == PAGE_SIZE - HdrSize
           count(size) == (room + size - 1) \div size
<1>1. idx \in {2, 3, 4, 5, 6, 7, 8} /\ idx \in 0 .. 9
  BY DEF Served
<1>2. ObjSize(idx) = Pow(idx) /\ ObjSize(2) = 4 /\ Pow(idx) \in Sizes
  BY Powers DEF ObjSize, Pow, Served
<1>3. Pow(idx) \in {4, 8, 16, 32, 64, 128, 256}
  BY <1>1, Powers
<1>4. Pow(idx) < room /\ room \in Nat
  <2>1. 2 ^ NO_CLASSES = 512
    BY DEF NO_CLASSES
  <2> QED BY <1>2, <1>3, <2>1, PoolAssumption DEF HdrSize
<1>5. ObjCount(idx) = count(Pow(idx)) /\ ObjCount(2) = count(4)
  BY <1>2, ZenonT(60) DEF ObjCount
<1> HIDE DEF room
<1>6. /\ count(Pow(idx)) \in Nat /\ count(4) \in Nat
      /\ 2 <= count(Pow(idx)) /\ count(Pow(idx)) <= count(4)
  BY <1>3, <1>4
<1>7. FloorLog2(ObjSize(idx)) = idx
  <2>1. Pow(idx) \in Nat \ {0} /\ Pow(idx + 1) = 2 * Pow(idx)
    BY <1>1, PowerNext, ZenonT(60)
  <2>2. Pow(idx) <= Pow(idx) /\ Pow(idx) < Pow(idx + 1) /\ Pow(idx) \in Nat
    BY <2>1
  <2> QED BY <1>1, <1>2, <2>2, FloorIs, ZenonT(60)
<1>8. idx \in Classes
  BY <1>1 DEF Classes, NO_CLASSES
<1> QED BY <1>5, <1>6, <1>7, <1>8, ZenonT(60)

\* A size gets a class of its own or an index outside the array.
LEMMA ClassOfSize ==
  ASSUME NEW size \in Sizes, ~ (size < MIN_BLOCK_SIZE), ~ (size > 2 ^ NO_CLASSES),
         bag_idx(size) \in Classes
  PROVE  bag_idx(size) \in Served
<1> DEFINE k == FloorLog2(size)
<1>1. size \in Nat /\ 4 <= size /\ size <= 512
  BY PoolAssumption DEF MIN_BLOCK_SIZE, NO_CLASSES
<1>2. PICK j \in 2 .. 9 : Pow(j) <= size /\ size < Pow(j + 1)
  <2>1. \/ 4 <= size /\ size < 8
        \/ 8 <= size /\ size < 16
        \/ 16 <= size /\ size < 32
        \/ 32 <= size /\ size < 64
        \/ 64 <= size /\ size < 128
        \/ 128 <= size /\ size < 256
        \/ 256 <= size /\ size < 512
        \/ 512 <= size /\ size < 1024
    BY <1>1
  <2>2. /\ 2 + 1 = 3 /\ 3 + 1 = 4 /\ 4 + 1 = 5 /\ 5 + 1 = 6 /\ 6 + 1 = 7
        /\ 7 + 1 = 8 /\ 8 + 1 = 9 /\ 9 + 1 = 10
    OBVIOUS
  <2>3. \A i \in {2, 3, 4, 5, 6, 7, 8, 9} : i \in 2 .. 9
    OBVIOUS
  <2> QED BY <2>1, <2>2, <2>3, Powers
<1>3. k = j /\ j \in 0 .. 9
  BY <1>1, <1>2, FloorIs
<1> HIDE DEF k
<1>4. bag_idx(size) = IF Pow(j) # size THEN (31 - j) + 1 ELSE (j + 1) - 1
  BY <1>3, ZenonT(60) DEF bag_idx, Pow, k
<1>5. Pow(j) = size /\ bag_idx(size) = j /\ j \in 2 .. 8
  BY <1>2, <1>4 DEF Classes, NO_CLASSES
<1> QED BY <1>5, ZenonT(60) DEF Served, ObjSize, Pow
-----------------------------------------------------------------------------
(* The freelist of a page *)

\* From hd on, the links lk run through the n objects q[1], q[2], ... of free.
RunsThrough(hd, lk, free, n, q) ==
  /\ q \in [1 .. n -> free]
  /\ \A i, j \in 1 .. n : q[i] = q[j] => i = j
  /\ hd = IF n = 0 THEN SENTINEL ELSE q[1]
  /\ \A i \in 1 .. n : lk[q[i]] = IF i = n THEN SENTINEL ELSE q[i + 1]

Exact(hd, lk, free) == \E q : RunsThrough(hd, lk, free, Cardinality(free), q)

LEMMA ExactEnds ==
  ASSUME NEW hd, NEW lk, NEW free \in SUBSET Nat, IsFiniteSet(free), Exact(hd, lk, free)
  PROVE  (hd = SENTINEL <=> free = {}) /\ (hd # SENTINEL => hd \in free)
<1>1. Cardinality(free) \in Nat /\ (Cardinality(free) = 0 <=> free = {})
  BY FS_CardinalityType, FS_EmptySet, ZenonT(60)
<1> DEFINE n == Cardinality(free)
<1> HIDE DEF n
<1>2. PICK q : RunsThrough(hd, lk, free, n, q)
  BY ZenonT(60) DEF Exact, n
<1>3. n # 0 => 1 \in 1 .. n
  BY <1>1 DEF n
<1>4. hd = IF n = 0 THEN SENTINEL ELSE q[1]
  BY <1>2, ZenonT(60) DEF RunsThrough
<1>5. n # 0 => q[1] \in free /\ q[1] # SENTINEL
  BY <1>2, <1>3 DEF RunsThrough, SENTINEL
<1> QED BY <1>1, <1>4, <1>5, ZenonT(60) DEF n

\* freelist_dequeue takes the first object.
LEMMA ExactTake ==
  ASSUME NEW hd, NEW lk, NEW free \in SUBSET Nat, IsFiniteSet(free),
         Exact(hd, lk, free), hd # SENTINEL
  PROVE  Exact(lk[hd], lk, free \ {hd})
<1>1. hd \in free
  BY ExactEnds, ZenonT(60)
<1>2. Cardinality(free) \in Nat /\ Cardinality(free \ {hd}) = Cardinality(free) - 1
  BY <1>1, FS_RemoveElement, FS_CardinalityType, ZenonT(60)
<1>2a. Cardinality(free \ {hd}) \in Nat
  BY FS_RemoveElement, FS_CardinalityType, ZenonT(60)
<1> DEFINE n == Cardinality(free)
           m == Cardinality(free \ {hd})
<1> HIDE DEF n, m
<1>3. n \in Nat /\ m \in Nat /\ m = n - 1
  BY <1>2, <1>2a, ZenonT(60) DEF n, m
<1>4. PICK q : RunsThrough(hd, lk, free, n, q)
  BY ZenonT(60) DEF Exact, n
<1> DEFINE r == [i \in 1 .. m |-> q[i + 1]]
<1>5. RunsThrough(lk[hd], lk, free \ {hd}, m, r)
  <2>1. hd = q[1] /\ 1 \in 1 .. n
    BY <1>3, <1>4 DEF RunsThrough
  <2>2. \A i \in 1 .. m : i + 1 \in 1 .. n /\ i + 1 # 1
    BY <1>3
  <2>3. r \in [1 .. m -> free \ {hd}]
    BY <1>4, <2>1, <2>2, ZenonT(60) DEF RunsThrough
  <2>4. \A i, j \in 1 .. m : r[i] = r[j] => i = j
    <3> SUFFICES ASSUME NEW i \in 1 .. m, NEW j \in 1 .. m, r[i] = r[j] PROVE i = j
      BY ZenonT(60)
    <3>1. i + 1 = j + 1
      BY <1>4, <2>2, ZenonT(60) DEF RunsThrough
    <3> QED BY <3>1, <1>3
  <2>5. lk[hd] = IF m = 0 THEN SENTINEL ELSE r[1]
    BY <1>3, <1>4, <2>1 DEF RunsThrough
  <2>6. ASSUME NEW i \in 1 .. m PROVE lk[r[i]] = IF i = m THEN SENTINEL ELSE r[i + 1]
    <3>1. lk[q[i + 1]] = IF i + 1 = n THEN SENTINEL ELSE q[(i + 1) + 1]
      BY <1>4, <2>2, ZenonT(60) DEF RunsThrough
    <3>2. (i = m <=> i + 1 = n) /\ (i # m => i + 1 \in 1 .. m)
      BY <1>3
    <3> QED BY <3>1, <3>2, ZenonT(60)
  <2> HIDE DEF r
  <2> QED BY <2>3, <2>4, <2>5, <2>6, ZenonT(60) DEF RunsThrough
<1> QED BY <1>5, ZenonT(60) DEF Exact, m

\* freelist_enqueue puts an object first.
LEMMA ExactGive ==
  ASSUME NEW hd, NEW lk, NEW free \in SUBSET Nat, IsFiniteSet(free),
         Exact(hd, lk, free), NEW s, s \notin free,
         NEW lk2, lk2[s] = hd, \A t \in free : lk2[t] = lk[t]
  PROVE  Exact(s, lk2, free \union {s})
<1> DEFINE n == Cardinality(free)
           m == Cardinality(free \union {s})
<1>1. n \in Nat /\ m = n + 1
  BY FS_AddElement, FS_CardinalityType, ZenonT(60)
<1> HIDE DEF n, m
<1>2. PICK q : RunsThrough(hd, lk, free, n, q)
  BY ZenonT(60) DEF Exact, n
<1> DEFINE r == [i \in 1 .. m |-> IF i = 1 THEN s ELSE q[i - 1]]
<1>3. \A i \in 1 .. m : i # 1 => i - 1 \in 1 .. n
  BY <1>1
<1>4. \A i \in 1 .. n : q[i] \in free /\ q[i] # s
  BY <1>2 DEF RunsThrough
<1>5. r \in [1 .. m -> free \union {s}]
  BY <1>3, <1>4, ZenonT(60)
<1>6. \A i, j \in 1 .. m : r[i] = r[j] => i = j
  <2> SUFFICES ASSUME NEW i \in 1 .. m, NEW j \in 1 .. m, r[i] = r[j] PROVE i = j
    BY ZenonT(60)
  <2>1. CASE i = 1 \/ j = 1
    BY <2>1, <1>3, <1>4, ZenonT(60)
  <2>2. CASE i # 1 /\ j # 1
    <3>1. i - 1 = j - 1
      BY <2>2, <1>2, <1>3, ZenonT(60) DEF RunsThrough
    <3> QED BY <3>1, <1>1
  <2> QED BY <2>1, <2>2, ZenonT(60)
<1>7. s = IF m = 0 THEN SENTINEL ELSE r[1]
  BY <1>1
<1>8. ASSUME NEW i \in 1 .. m PROVE lk2[r[i]] = IF i = m THEN SENTINEL ELSE r[i + 1]
  <2>1. i # m => i + 1 \in 1 .. m /\ i + 1 # 1 /\ (i + 1) - 1 = i
    BY <1>1
  <2>2. CASE i = 1
    BY <2>1, <2>2, <1>1, <1>2 DEF RunsThrough
  <2>3. CASE i # 1
    <3>1. r[i] = q[i - 1] /\ lk2[r[i]] = lk[q[i - 1]]
      BY <2>3, <1>3, <1>4, ZenonT(60)
    <3>2. lk[q[i - 1]] = IF i - 1 = n THEN SENTINEL ELSE q[(i - 1) + 1]
      BY <2>3, <1>2, <1>3, ZenonT(60) DEF RunsThrough
    <3>3. (i - 1 = n <=> i = m) /\ (i - 1) + 1 = i
      BY <1>1
    <3>4. i # m => r[i + 1] = q[i]
      BY <2>1, ZenonT(60)
    <3> HIDE DEF r
    <3> QED BY <3>1, <3>2, <3>3, <3>4, ZenonT(60)
  <2> QED BY <2>2, <2>3, ZenonT(60)
<1> HIDE DEF r
<1>9. RunsThrough(s, lk2, free \union {s}, m, r)
  BY <1>5, <1>6, <1>7, <1>8, ZenonT(60) DEF RunsThrough
<1> QED BY <1>9, ZenonT(60) DEF Exact, m

\* What callers write into their own objects does not matter.
LEMMA ExactKept ==
  ASSUME NEW hd, NEW lk, NEW free, Exact(hd, lk, free),
         NEW lk2, \A t \in free : lk2[t] = lk[t]
  PROVE  Exact(hd, lk2, free)
<1>1. PICK q : RunsThrough(hd, lk, free, Cardinality(free), q)
  BY ZenonT(60) DEF Exact
<1>2. RunsThrough(hd, lk2, free, Cardinality(free), q)
  BY <1>1, ZenonT(60) DEF RunsThrough
<1> QED BY <1>2, ZenonT(60) DEF Exact

\* init_page makes all objects of a page free.
LEMMA ExactNew ==
  ASSUME NEW n \in Nat, n > 0, NEW lk,
         \A s \in 0 .. n - 1 : lk[s] = IF s < n - 1 THEN s + 1 ELSE SENTINEL
  PROVE  Exact(0, lk, 0 .. n - 1)
<1>1. Cardinality(0 .. n - 1) = n
  BY FS_Interval
<1> DEFINE q == [i \in 1 .. n |-> i - 1]
<1>2. RunsThrough(0, lk, 0 .. n - 1, n, q)
  <2>1. \A i \in 1 .. n : i - 1 \in 0 .. n - 1 /\ (i # n => i + 1 \in 1 .. n)
    OBVIOUS
  <2> QED BY <2>1 DEF RunsThrough
<1> QED BY <1>1, <1>2, ZenonT(60) DEF Exact
-----------------------------------------------------------------------------
(* The inductive invariant *)

Heaps == [page_freelist_head : Pages \union {NULL},
          next : [Pages -> Pages \union {NULL}],
          object_size : [Pages -> {0} \union {ObjSize(c) : c \in Classes}],
          freelist_head : [Pages -> Slots \union {SENTINEL}],
          link : [Pages -> [Slots -> Slots \union {SENTINEL, Junk}]],
          bags : [Classes -> [free : Pages \union {NULL}, full : Pages \union {NULL}]]]

\* The one page of a bag, on its free or on its full list.
PageOf(h, idx) == IF h.bags[idx].free # NULL THEN h.bags[idx].free ELSE h.bags[idx].full

\* A page that has left the pool.
Fetched(h, p) == h.page_freelist_head = NULL \/ p < h.page_freelist_head

\* The page p of bag idx: the bag is full exactly when no object is free.
BagPage(h, idx, p) ==
  /\ idx \in Served
  /\ p \in Pages /\ Fetched(h, p)
  /\ h.next[p] = NULL
  /\ h.object_size[p] = ObjSize(idx)
  /\ h.bags[idx] = IF h.freelist_head[p] = SENTINEL THEN [free |-> NULL, full |-> p]
                                                    ELSE [free |-> p, full |-> NULL]

\* The pages from the first of the pool on are linked each to the next.
PoolLinked(h) ==
  h.page_freelist_head # NULL =>
    \A p \in Pages : p >= h.page_freelist_head =>
                       h.next[p] = IF p < NumPages THEN p + 1 ELSE NULL

Shape(h) ==
  /\ h \in Heaps
  /\ PoolLinked(h)
  /\ \A idx \in Classes : PageOf(h, idx) # NULL => BagPage(h, idx, PageOf(h, idx))
  /\ \A i, j \in Classes : i # j /\ PageOf(h, i) # NULL => PageOf(h, i) # PageOf(h, j)

\* The objects of a page of bag idx that are not among those in l.
FreeOf(l, p, idx) == {s \in 0 .. ObjCount(idx) - 1 : <<p, s>> \notin l}

\* An object in use is one of a page that is on a list of its bag.
Owned(h, l) ==
  \A o \in l : \E idx \in Classes : \E s \in 0 .. ObjCount(idx) - 1 :
    PageOf(h, idx) # NULL /\ o = <<PageOf(h, idx), s>>

\* The freelist of the page of a bag holds what is not in use.
BagExact(h, l, idx) ==
  LET p == PageOf(h, idx)
  IN p # NULL => Exact(h.freelist_head[p], h.link[p], FreeOf(l, p, idx))

IInv ==
  /\ Shape(heap)
  /\ Owned(heap, live)
  /\ IsFiniteSet(live) /\ held \in Nat
  /\ status # "low" => held = Cardinality(live)
  /\ status \in {"ok", "panic", "low", "index", "spoilt"}
  /\ status # "panic" => \A idx \in Classes : BagExact(heap, live, idx)

-----------------------------------------------------------------------------
(* What the operations do to the lists *)

LEMMA Numbers ==
  /\ NumPages \in Nat /\ NULL \notin Pages /\ Pages \subseteq Nat
  /\ Slots \subseteq Nat /\ SENTINEL \notin Slots
  /\ \A idx \in Served : \A s \in 0 .. ObjCount(idx) - 1 : s \in Slots
  /\ \A idx \in Served : idx \in Classes /\ 0 \in Slots
<1>1. NumPages \in Nat /\ NULL \notin Pages /\ Pages \subseteq Nat
  BY PoolAssumption DEF Pages, NULL
<1>2. Slots \subseteq Nat /\ SENTINEL \notin Slots
  BY DEF Slots, SENTINEL
<1>3. ASSUME NEW idx \in Served
      PROVE  idx \in Classes /\ 0 \in Slots /\ \A s \in 0 .. ObjCount(idx) - 1 : s \in Slots
  BY Counts DEF Slots
<1> QED BY <1>1, <1>2, <1>3, ZenonT(60)

\* A new freelist for the page of a bag, and the bag on the list that fits it.
Relisted(h, idx, p, hd, lk) ==
  [h EXCEPT !.freelist_head[p] = hd,
            !.link[p] = lk,
            !.bags[idx] = IF hd = SENTINEL THEN [free |-> NULL, full |-> p]
                                           ELSE [free |-> p, full |-> NULL]]

\* The same, field by field.
RelistedTo(h, g, idx, p, hd, lk) ==
  /\ g \in Heaps
  /\ g.page_freelist_head = h.page_freelist_head
  /\ g.next = h.next /\ g.object_size = h.object_size
  /\ g.freelist_head = [h.freelist_head EXCEPT ![p] = hd]
  /\ g.link = [h.link EXCEPT ![p] = lk]
  /\ g.bags = [h.bags EXCEPT ![idx] = IF hd = SENTINEL THEN [free |-> NULL, full |-> p]
                                                       ELSE [free |-> p, full |-> NULL]]

LEMMA RelistedFields ==
  ASSUME NEW h \in Heaps, NEW idx \in Classes, NEW p \in Pages,
         NEW hd \in Slots \union {SENTINEL}, NEW lk \in [Slots -> Slots \union {SENTINEL, Junk}]
  PROVE  RelistedTo(h, Relisted(h, idx, p, hd, lk), idx, p, hd, lk)
BY ZenonT(60) DEF Heaps, Relisted, RelistedTo

\* A page that may serve bag idx: its own, or one that no bag has.
Serves(h, idx, p) ==
  /\ idx \in Served
  /\ p \in Pages /\ Fetched(h, p)
  /\ h.next[p] = NULL
  /\ h.object_size[p] = ObjSize(idx)
  /\ \A c \in Classes : c # idx => PageOf(h, c) # p

LEMMA RelistedShape ==
  ASSUME NEW h, Shape(h), NEW idx, NEW p, Serves(h, idx, p),
         NEW hd \in Slots \union {SENTINEL}, NEW lk \in [Slots -> Slots \union {SENTINEL, Junk}]
  PROVE  LET g == Relisted(h, idx, p, hd, lk)
         IN /\ Shape(g)
            /\ PageOf(g, idx) = p
            /\ \A c \in Classes : c # idx => PageOf(g, c) = PageOf(h, c)
<1> DEFINE g == Relisted(h, idx, p, hd, lk)
<1>1. h \in Heaps /\ p \in Pages /\ idx \in Classes /\ p # NULL
  BY Numbers, ZenonT(60) DEF Shape, Serves
<1>1a. RelistedTo(h, g, idx, p, hd, lk)
  BY <1>1, RelistedFields, ZenonT(60)
<1>2. /\ g \in Heaps
      /\ g.page_freelist_head = h.page_freelist_head
      /\ g.next = h.next /\ g.object_size = h.object_size
      /\ g.freelist_head = [h.freelist_head EXCEPT ![p] = hd]
      /\ g.bags = [h.bags EXCEPT ![idx] = IF hd = SENTINEL THEN [free |-> NULL, full |-> p]
                                                           ELSE [free |-> p, full |-> NULL]]
  BY <1>1a, ZenonT(60) DEF RelistedTo
<1> HIDE DEF g
<1>3. /\ h.freelist_head \in [Pages -> Slots \union {SENTINEL}]
      /\ DOMAIN h.bags = Classes
  BY <1>1, ZenonT(60) DEF Heaps
<1>4. /\ g.bags[idx] = IF hd = SENTINEL THEN [free |-> NULL, full |-> p] ELSE [free |-> p, full |-> NULL]
      /\ \A c \in Classes : c # idx => g.bags[c] = h.bags[c]
      /\ g.freelist_head[p] = hd
      /\ \A q \in Pages : q # p => g.freelist_head[q] = h.freelist_head[q]
  BY <1>1, <1>2, <1>3, ZenonT(60)
<1>5. PageOf(g, idx) = p
  BY <1>4, <1>1 DEF PageOf
<1>5a. \A c \in Classes : c # idx => PageOf(g, c) = PageOf(h, c)
  BY <1>4, ZenonT(60) DEF PageOf
<1>6. PoolLinked(g)
  BY <1>2, ZenonT(60) DEF Shape, PoolLinked
<1>7. ASSUME NEW c \in Classes, PageOf(g, c) # NULL PROVE BagPage(g, c, PageOf(g, c))
  <2>1. CASE c = idx
    BY <2>1, <1>2, <1>4, <1>5, ZenonT(60) DEF BagPage, Fetched, Serves
  <2>2. CASE c # idx
    <3>1. PageOf(g, c) = PageOf(h, c) /\ PageOf(h, c) # p /\ BagPage(h, c, PageOf(h, c))
      BY <2>2, <1>5a, <1>7, ZenonT(60) DEF Shape, Serves
    <3> QED BY <2>2, <3>1, <1>2, <1>4 DEF BagPage, Fetched
  <2> QED BY <2>1, <2>2, ZenonT(60)
<1>8. \A i, j \in Classes : i # j /\ PageOf(g, i) # NULL => PageOf(g, i) # PageOf(g, j)
  <2>1. \A i, j \in Classes : i # j /\ PageOf(h, i) # NULL => PageOf(h, i) # PageOf(h, j)
    BY ZenonT(60) DEF Shape
  <2>2. \A c \in Classes : c # idx => PageOf(h, c) # p
    BY ZenonT(60) DEF Serves
  <2> QED BY <2>1, <2>2, <1>5, <1>5a, ZenonT(60)
<1>9. Shape(g)
  BY <1>2, <1>6, <1>7, <1>8, ZenonT(60) DEF Shape
<1> QED BY <1>5, <1>5a, <1>9, ZenonT(60) DEF g

\* The page of a bag serves it.
LEMMA OwnPageServes ==
  ASSUME NEW h, Shape(h), NEW idx \in Classes, PageOf(h, idx) # NULL
  PROVE  Serves(h, idx, PageOf(h, idx)) /\ BagPage(h, idx, PageOf(h, idx))
BY ZenonT(60) DEF Shape, Serves, BagPage

\* A page fetched from the pool and initialised, not yet linked.
Prepared(h, idx) == init_page(fetch_page(h), h.page_freelist_head, idx)

PreparedTo(h, g, idx, p) ==
  /\ g \in Heaps
  /\ g.page_freelist_head = h.next[p]
  /\ g.next = [h.next EXCEPT ![p] = NULL]
  /\ g.object_size = [h.object_size EXCEPT ![p] = ObjSize(idx)]
  /\ g.freelist_head = [h.freelist_head EXCEPT ![p] = 0]
  /\ \A q \in Pages : q # p => g.link[q] = h.link[q]
  /\ \A s \in 0 .. ObjCount(idx) - 1 :
       g.link[p][s] = IF s < ObjCount(idx) - 1 THEN s + 1 ELSE SENTINEL
  /\ g.bags = h.bags

LEMMA PreparedFields ==
  ASSUME NEW h \in Heaps, NEW idx \in Served, h.page_freelist_head # NULL
  PROVE  PreparedTo(h, Prepared(h, idx), idx, h.page_freelist_head)
<1> DEFINE p == h.page_freelist_head
           cnt == ObjCount(idx)
           lk == [s \in Slots |-> CASE s < cnt - 1 -> s + 1
                                    [] s = cnt - 1 -> SENTINEL
                                    [] OTHER -> h.link[p][s]]
           g == [h EXCEPT !.page_freelist_head = h.next[p],
                          !.next = [h.next EXCEPT ![p] = NULL],
                          !.object_size = [h.object_size EXCEPT ![p] = ObjSize(idx)],
                          !.freelist_head = [h.freelist_head EXCEPT ![p] = 0],
                          !.link = [h.link EXCEPT ![p] = lk]]
<1>1. p \in Pages
  BY ZenonT(60) DEF Heaps
<1>2. Prepared(h, idx) = g
  BY DEF Prepared, init_page, fetch_page, Heaps
<1>3. cnt \in Nat /\ 2 <= cnt /\ cnt <= ObjCount(2) /\ ObjCount(2) \in Nat /\ idx \in Classes
  BY Counts, ZenonT(60)
<1> HIDE DEF cnt
<1>4. lk \in [Slots -> Slots \union {SENTINEL, Junk}]
  <2>1. h.link[p] \in [Slots -> Slots \union {SENTINEL, Junk}]
    BY <1>1, ZenonT(60) DEF Heaps
  <2>2. \A s \in Slots : s < cnt - 1 => s + 1 \in Slots
    BY <1>3 DEF Slots
  <2> QED BY <2>1, <2>2, ZenonT(60)
<1>5. \A s \in 0 .. cnt - 1 : lk[s] = IF s < cnt - 1 THEN s + 1 ELSE SENTINEL
  <2>1. \A s \in 0 .. cnt - 1 : s \in Slots /\ (s < cnt - 1 \/ s = cnt - 1) /\ ~ (s < cnt - 1 /\ s = cnt - 1)
    BY <1>3 DEF Slots
  <2> QED BY <2>1, ZenonT(60)
<1>6. 0 \in Slots
  BY Numbers, ZenonT(60)
<1> HIDE DEF lk
<1>7. g \in Heaps
  BY <1>1, <1>3, <1>4, <1>6, ZenonT(60) DEF Heaps
<1>8. PreparedTo(h, g, idx, p)
  BY <1>1, <1>5, <1>7, ZenonT(40) DEF Heaps, PreparedTo, cnt
<1> QED BY <1>2, <1>8, ZenonT(60)
LEMMA PreparedShape ==
  ASSUME NEW h, Shape(h), NEW idx \in Served, h.page_freelist_head # NULL
  PROVE  LET g == Prepared(h, idx)
             p == h.page_freelist_head
         IN /\ Shape(g)
            /\ Serves(g, idx, p)
            /\ \A c \in Classes : PageOf(g, c) = PageOf(h, c) /\ PageOf(h, c) # p
<1> DEFINE g == Prepared(h, idx)
           p == h.page_freelist_head
<1>1. h \in Heaps /\ PoolLinked(h) /\ p \in Pages /\ p # NULL
  BY ZenonT(60) DEF Shape, Heaps
<1>2. PreparedTo(h, g, idx, p)
  BY <1>1, PreparedFields, ZenonT(60)
<1> HIDE DEF g, p
<1>3. /\ g \in Heaps
      /\ g.page_freelist_head = h.next[p]
      /\ g.next = [h.next EXCEPT ![p] = NULL]
      /\ g.object_size = [h.object_size EXCEPT ![p] = ObjSize(idx)]
      /\ g.freelist_head = [h.freelist_head EXCEPT ![p] = 0]
      /\ g.bags = h.bags
  BY <1>2, ZenonT(60) DEF PreparedTo
<1>4. /\ h.next \in [Pages -> Pages \union {NULL}]
      /\ DOMAIN h.object_size = Pages /\ DOMAIN h.freelist_head = Pages
  BY <1>1, ZenonT(60) DEF Heaps
<1>5. /\ g.next[p] = NULL /\ g.object_size[p] = ObjSize(idx)
      /\ \A q \in Pages : q # p => /\ g.next[q] = h.next[q]
                                 /\ g.object_size[q] = h.object_size[q]
                                 /\ g.freelist_head[q] = h.freelist_head[q]
  BY <1>1, <1>3, <1>4, ZenonT(60)
<1>6. h.next[p] = IF p < NumPages THEN p + 1 ELSE NULL
  <2>1. p >= p
    BY <1>1, Numbers
  <2>2. \A q \in Pages : q >= p => h.next[q] = IF q < NumPages THEN q + 1 ELSE NULL
    BY <1>1, ZenonT(60) DEF PoolLinked, p
  <2> QED BY <1>1, <2>1, <2>2, ZenonT(60)
<1>7. g.page_freelist_head = NULL \/ g.page_freelist_head = p + 1
  BY <1>3, <1>6, ZenonT(60)
<1>8. \A c \in Classes : PageOf(g, c) = PageOf(h, c)
  BY <1>3, ZenonT(60) DEF PageOf
<1>9. ASSUME NEW c \in Classes, PageOf(h, c) # NULL
      PROVE  PageOf(h, c) \in Pages /\ PageOf(h, c) < p /\ BagPage(h, c, PageOf(h, c))
  BY <1>1, <1>9, ZenonT(60) DEF Shape, BagPage, Fetched, p
<1>10. \A c \in Classes : PageOf(h, c) # p
  BY <1>1, <1>9, Numbers
<1>11. Fetched(g, p) /\ \A q \in Pages : q < p => Fetched(g, q)
  BY <1>1, <1>7, Numbers DEF Fetched
<1>12. PoolLinked(g)
  <2> SUFFICES ASSUME g.page_freelist_head # NULL, NEW q \in Pages, q >= g.page_freelist_head
               PROVE  g.next[q] = IF q < NumPages THEN q + 1 ELSE NULL
    BY ZenonT(60) DEF PoolLinked
  <2>1. q >= p + 1 /\ q # p /\ q >= p
    BY <1>1, <1>7, Numbers
  <2> QED BY <1>1, <1>5, <2>1, ZenonT(60) DEF PoolLinked, p
<1>13. \A c \in Classes : PageOf(g, c) # NULL => BagPage(g, c, PageOf(g, c))
  BY <1>3, <1>5, <1>8, <1>9, <1>10, <1>11 DEF BagPage
<1>14. Shape(g)
  BY <1>3, <1>8, <1>12, <1>13, ZenonT(60) DEF Shape
<1>15. Serves(g, idx, p)
  BY <1>1, <1>5, <1>8, <1>10, <1>11, ZenonT(60) DEF Serves
<1> QED BY <1>8, <1>10, <1>14, <1>15, ZenonT(60) DEF g, p

\* Two sets of objects that differ on page p only.
SameElsewhere(l, l2, p) ==
  \A q \in Pages : q # p => \A s : <<q, s>> \in l2 <=> <<q, s>> \in l

\* Two heaps whose freelists differ on page p only.
Untouched(h, g, p) ==
  \A q \in Pages : q # p => g.freelist_head[q] = h.freelist_head[q] /\ g.link[q] = h.link[q]

\* The freelist of a page is not touched by what happens to another page.
LEMMA OthersExact ==
  ASSUME NEW h, NEW g, NEW l, NEW l2, NEW c, NEW p, BagExact(h, l, c),
         PageOf(g, c) = PageOf(h, c), PageOf(h, c) # p,
         PageOf(h, c) \in Pages \union {NULL}, Untouched(h, g, p), SameElsewhere(l, l2, p)
  PROVE  BagExact(g, l2, c)
<1> DEFINE q == PageOf(h, c)
<1> SUFFICES ASSUME q # NULL PROVE Exact(g.freelist_head[q], g.link[q], FreeOf(l2, q, c))
  BY ZenonT(60) DEF BagExact
<1> HIDE DEF q
<1>1. q \in Pages /\ q # p
  BY ZenonT(60) DEF q
<1>2. FreeOf(l2, q, c) = FreeOf(l, q, c)
  BY <1>1, ZenonT(60) DEF FreeOf, SameElsewhere
<1>3. g.freelist_head[q] = h.freelist_head[q] /\ g.link[q] = h.link[q]
  BY <1>1, ZenonT(60) DEF Untouched
<1>4. Exact(h.freelist_head[q], h.link[q], FreeOf(l, q, c))
  BY ZenonT(60) DEF BagExact, q
<1> QED BY <1>2, <1>3, <1>4, ZenonT(60)

LEMMA FreeOfFinite ==
  ASSUME NEW l, NEW p, NEW idx \in Served
  PROVE  FreeOf(l, p, idx) \in SUBSET Nat /\ IsFiniteSet(FreeOf(l, p, idx))
<1>1. ObjCount(idx) \in Nat
  BY Counts, ZenonT(60)
<1>2. IsFiniteSet(0 .. ObjCount(idx) - 1)
  BY <1>1, FS_Interval
<1>3. FreeOf(l, p, idx) \subseteq 0 .. ObjCount(idx) - 1
  BY ZenonT(60) DEF FreeOf
<1>4. IsFiniteSet(FreeOf(l, p, idx))
  BY <1>2, <1>3, FS_Subset, ZenonT(60)
<1> QED BY <1>1, <1>3, <1>4
\* What holds of a heap and the objects in use before and after a call.
Good(h, l) ==
  /\ Shape(h)
  /\ Owned(h, l)
  /\ \A idx \in Classes : BagExact(h, l, idx)

LEMMA RelistedGood ==
  ASSUME NEW h, NEW l, Shape(h), NEW idx, NEW p, Serves(h, idx, p),
         NEW hd \in Slots \union {SENTINEL}, NEW lk \in [Slots -> Slots \union {SENTINEL, Junk}],
         NEW l2, SameElsewhere(l, l2, p), Exact(hd, lk, FreeOf(l2, p, idx)),
         \A c \in Classes : c # idx => BagExact(h, l, c)
  PROVE  \A c \in Classes : BagExact(Relisted(h, idx, p, hd, lk), l2, c)
<1> DEFINE g == Relisted(h, idx, p, hd, lk)
<1>1. h \in Heaps /\ p \in Pages /\ idx \in Classes /\ p # NULL
  BY Numbers, ZenonT(60) DEF Shape, Serves
<1>2. RelistedTo(h, g, idx, p, hd, lk)
  BY <1>1, RelistedFields, ZenonT(60)
<1>3. PageOf(g, idx) = p /\ \A c \in Classes : c # idx => PageOf(g, c) = PageOf(h, c)
  BY RelistedShape
<1> HIDE DEF g
<1>4. DOMAIN h.freelist_head = Pages /\ DOMAIN h.link = Pages
  BY <1>1, ZenonT(60) DEF Heaps
<1>5. /\ g.freelist_head[p] = hd /\ g.link[p] = lk
      /\ \A q \in Pages : q # p => g.freelist_head[q] = h.freelist_head[q] /\ g.link[q] = h.link[q]
  BY <1>1, <1>2, <1>4, ZenonT(60) DEF RelistedTo
<1>6. BagExact(g, l2, idx)
  BY <1>3, <1>5, ZenonT(60) DEF BagExact
<1>7. ASSUME NEW c \in Classes, c # idx PROVE BagExact(g, l2, c)
  <2>1. BagExact(h, l, c) /\ PageOf(g, c) = PageOf(h, c)
    BY <1>3, <1>7, ZenonT(60)
  <2>2. PageOf(h, c) # p
    BY <1>7, ZenonT(60) DEF Serves
  <2>3. PageOf(h, c) \in Pages \union {NULL}
    BY ZenonT(60) DEF Shape, BagPage
  <2>4. Untouched(h, g, p)
    BY <1>5, ZenonT(60) DEF Untouched
  <2> QED BY <2>1, <2>2, <2>3, <2>4, OthersExact, ZenonT(60)
<1> QED BY <1>6, <1>7, ZenonT(60) DEF g

\* Bags keep their pages, and what is added to l is an object of bag idx.
LEMMA OwnedKept ==
  ASSUME NEW h, NEW g, NEW l, NEW l2, NEW idx \in Classes, Owned(h, l),
         \A c \in Classes : PageOf(h, c) # NULL => PageOf(g, c) = PageOf(h, c),
         \A o \in l2 : o \in l \/ \E s \in 0 .. ObjCount(idx) - 1 :
                                   PageOf(g, idx) # NULL /\ o = <<PageOf(g, idx), s>>
  PROVE  Owned(g, l2)
<1> SUFFICES ASSUME NEW o \in l2
             PROVE  \E c \in Classes : \E s \in 0 .. ObjCount(c) - 1 :
                      PageOf(g, c) # NULL /\ o = <<PageOf(g, c), s>>
  BY ZenonT(60) DEF Owned
<1>1. CASE o \in l
  <2>1. PICK c \in Classes : \E s \in 0 .. ObjCount(c) - 1 :
                 PageOf(h, c) # NULL /\ o = <<PageOf(h, c), s>>
    BY <1>1, ZenonT(60) DEF Owned
  <2>2. PageOf(g, c) = PageOf(h, c)
    BY <2>1, ZenonT(60)
  <2> QED BY <2>1, <2>2, ZenonT(60)
<1>2. CASE o \notin l
  BY <1>2, ZenonT(60)
<1> QED BY <1>1, <1>2, ZenonT(60)

\* The object of a page of a bag whose freelist is not empty.
LEMMA FreelistNext ==
  ASSUME NEW h, NEW l, Shape(h), NEW idx \in Classes, BagExact(h, l, idx),
         NEW p, p = PageOf(h, idx), p # NULL, NEW hd, hd = h.freelist_head[p], hd # SENTINEL
  PROVE  /\ hd \in FreeOf(l, p, idx)
         /\ Exact(h.link[p][hd], h.link[p], FreeOf(l, p, idx) \ {hd})
         /\ h.link[p][hd] \in Slots \union {SENTINEL}
<1>1. idx \in Served
  BY ZenonT(60) DEF Shape, BagPage
<1> DEFINE free == FreeOf(l, p, idx)
           lk == h.link[p]
<1>2. free \in SUBSET Nat /\ IsFiniteSet(free)
  BY <1>1, FreeOfFinite, ZenonT(60)
<1>3. Exact(hd, lk, free)
  BY ZenonT(60) DEF BagExact
<1>4. \A s \in free : s \in Slots
  BY <1>1, Numbers, ZenonT(60) DEF FreeOf
<1> HIDE DEF free, lk
<1>5. hd \in free
  BY <1>2, <1>3, ExactEnds, ZenonT(60)
<1>6. Exact(lk[hd], lk, free \ {hd})
  BY <1>2, <1>3, ExactTake, ZenonT(60)
<1>7. free \ {hd} \in SUBSET Nat /\ IsFiniteSet(free \ {hd})
  BY <1>2, FS_RemoveElement, ZenonT(60)
<1>8. lk[hd] # SENTINEL => lk[hd] \in free \ {hd}
  BY <1>6, <1>7, ExactEnds, ZenonT(60)
<1> QED BY <1>4, <1>5, <1>6, <1>8, ZenonT(60) DEF free, lk

-----------------------------------------------------------------------------
(* Addresses *)

\* The objects init_page makes end with the page, or with the header of the
\* next one when their size does not divide the room behind the header.
LEMMA ObjectsEnd ==
  ASSUME NEW idx \in Served
  PROVE  /\ ObjSize(idx) \in {4, 8, 16, 32, 64, 128, 256}
         /\ HdrSize + ObjCount(idx) * ObjSize(idx) <= PAGE_SIZE + Excess(ObjSize(idx))
         /\ Excess(ObjSize(idx)) \in {0, HdrSize}
<1> DEFINE size == ObjSize(idx)
           room == PAGE_SIZE - 8
           n == (room + size - 1) \div size
<1>1. idx \in {2, 3, 4, 5, 6, 7, 8} /\ idx \in 2 .. 8 /\ size = Pow(idx) /\ Pow(idx) \in Sizes
  BY DEF Served, ObjSize, Pow
<1>2. size \in {4, 8, 16, 32, 64, 128, 256}
  BY <1>1, Powers
<1>3. PAGE_SIZE % size = 0 /\ PAGE_SIZE \in Nat /\ PAGE_SIZE > 8
  BY <1>1, PoolAssumption, ZenonT(60) DEF Pow, HdrSize
<1>4. ObjCount(idx) = n
  BY ZenonT(60) DEF ObjCount, HdrSize
<1> HIDE DEF size
<1>5. 8 + n * size <= PAGE_SIZE + (IF room % size = 0 THEN 0 ELSE 8)
  BY <1>2, <1>3
<1>6. Excess(size) = IF room % size = 0 THEN 0 ELSE 8
  BY ZenonT(60) DEF Excess, HdrSize
<1> HIDE DEF n, room
<1> QED BY <1>2, <1>4, <1>5, <1>6 DEF HdrSize, size

LEMMA ObjectInRoom ==
  ASSUME NEW idx \in Served, NEW s \in 0 .. ObjCount(idx) - 1
  PROVE  /\ ObjSize(idx) \in Nat \ {0} /\ s \in Nat /\ s * ObjSize(idx) \in Nat
         /\ (s + 1) * ObjSize(idx) = s * ObjSize(idx) + ObjSize(idx)
         /\ HdrSize + s * ObjSize(idx) + ObjSize(idx) <= PAGE_SIZE + Excess(ObjSize(idx))
         /\ HdrSize + s * ObjSize(idx) + ObjSize(idx) <= PAGE_SIZE + HdrSize
         /\ \A t \in 0 .. ObjCount(idx) - 1 : s < t => s * ObjSize(idx) + ObjSize(idx) <= t * ObjSize(idx)
<1> DEFINE size == ObjSize(idx)
           n == ObjCount(idx)
           x == Excess(ObjSize(idx))
<1>1. size \in {4, 8, 16, 32, 64, 128, 256} /\ x \in {0, 8}
  BY ObjectsEnd, ZenonT(60) DEF HdrSize
<1>2. n \in Nat /\ HdrSize + n * size <= PAGE_SIZE + x /\ PAGE_SIZE \in Nat /\ HdrSize = 8
  BY Counts, ObjectsEnd, PoolAssumption, ZenonT(60) DEF HdrSize
<1> HIDE DEF size, n, x
<1>3. /\ size \in Nat \ {0} /\ s \in Nat /\ s * size \in Nat
      /\ (s + 1) * size = s * size + size
      /\ 8 + s * size + size <= PAGE_SIZE + x
      /\ 8 + s * size + size <= PAGE_SIZE + 8
      /\ \A t \in 0 .. n - 1 : s < t => s * size + size <= t * size
  <2>1. s \in 0 .. n - 1
    BY ZenonT(60) DEF n
  <2> QED BY <1>1, <1>2, <2>1
<1> QED BY <1>2, <1>3, ZenonT(60) DEF size, n, x

\* The addresses of an object in use.
BlockOf(h, o) == Block(o[1], o[2], h.object_size[o[1]])

LEMMA BlocksApart ==
  ASSUME NEW h, NEW l, Shape(h), Owned(h, l), NEW a \in l, NEW b \in l, a # b
  PROVE  BlockOf(h, a) \intersect BlockOf(h, b) = {} /\ BlockOf(h, a) # {}
<1>1. PICK i \in Classes : \E s \in 0 .. ObjCount(i) - 1 : PageOf(h, i) # NULL /\ a = <<PageOf(h, i), s>>
  BY ZenonT(60) DEF Owned
<1>2. PICK s \in 0 .. ObjCount(i) - 1 : a = <<PageOf(h, i), s>>
  BY <1>1, ZenonT(60)
<1>3. PICK j \in Classes : \E t \in 0 .. ObjCount(j) - 1 : PageOf(h, j) # NULL /\ b = <<PageOf(h, j), t>>
  BY ZenonT(60) DEF Owned
<1>4. PICK t \in 0 .. ObjCount(j) - 1 : b = <<PageOf(h, j), t>>
  BY <1>3, ZenonT(60)
<1> DEFINE p == PageOf(h, i)
           q == PageOf(h, j)
           zi == ObjSize(i)
           zj == ObjSize(j)
<1>5. /\ i \in Served /\ p \in Pages /\ h.object_size[p] = zi
      /\ j \in Served /\ q \in Pages /\ h.object_size[q] = zj
  BY <1>1, <1>3, ZenonT(60) DEF Shape, BagPage
<1>6. p \in Nat /\ q \in Nat /\ PAGE_SIZE \in Nat
  BY <1>5, Numbers, PoolAssumption, ZenonT(60)
<1>7. /\ zi \in Nat \ {0} /\ s \in Nat /\ s * zi \in Nat /\ HdrSize + s * zi + zi <= PAGE_SIZE + HdrSize
      /\ \A u \in 0 .. ObjCount(i) - 1 : s < u => s * zi + zi <= u * zi
  BY <1>5, ObjectInRoom, ZenonT(60)
<1>8. /\ zj \in Nat \ {0} /\ t \in Nat /\ t * zj \in Nat /\ HdrSize + t * zj + zj <= PAGE_SIZE + HdrSize
      /\ \A u \in 0 .. ObjCount(j) - 1 : t < u => t * zj + zj <= u * zj
  BY <1>5, ObjectInRoom, ZenonT(60)
<1> DEFINE fa == p * PAGE_SIZE + HdrSize + s * zi
           fb == q * PAGE_SIZE + HdrSize + t * zj
<1>9. BlockOf(h, a) = fa .. fa + zi - 1 /\ BlockOf(h, b) = fb .. fb + zj - 1
  BY <1>2, <1>4, <1>5, ZenonT(60) DEF BlockOf, Block
<1> HIDE DEF p, q, zi, zj
<1>10. p * PAGE_SIZE \in Nat /\ q * PAGE_SIZE \in Nat
  BY <1>6
<1>11. (p < q => p * PAGE_SIZE + PAGE_SIZE <= q * PAGE_SIZE) /\ (q < p => q * PAGE_SIZE + PAGE_SIZE <= p * PAGE_SIZE)
  <2>1. ASSUME NEW x \in Nat, NEW y \in Nat, NEW z \in Nat, x < y PROVE x * z + z <= y * z
    <3>1. PICK d \in Nat : y = x + 1 + d
      <4>1. y - x - 1 \in Nat /\ y = x + 1 + (y - x - 1)
        BY <2>1
      <4> QED BY <4>1, ZenonT(60)
    <3>2. (x + 1 + d) * z = x * z + z + d * z /\ d * z \in Nat
      OBVIOUS
    <3> QED BY <3>1, <3>2
  <2> QED BY <2>1, <1>6, ZenonT(60)
<1>12. fa + zi <= fb \/ fb + zj <= fa
  <2> HdrSize = 8
    BY ZenonT(60) DEF HdrSize
  <2>1. CASE p < q
    <3>1. p * PAGE_SIZE + PAGE_SIZE <= q * PAGE_SIZE
      BY <2>1, <1>11, ZenonT(60)
    <3> QED BY <3>1, <1>6, <1>7, <1>8, <1>10
  <2>2. CASE q < p
    <3>1. q * PAGE_SIZE + PAGE_SIZE <= p * PAGE_SIZE
      BY <2>2, <1>11, ZenonT(60)
    <3> QED BY <3>1, <1>6, <1>7, <1>8, <1>10
  <2>3. CASE p = q
    <3>1. i = j
      BY <1>1, <1>3, <2>3, ZenonT(60) DEF Shape, p, q
    <3>2. s # t /\ zi = zj
      BY <1>2, <1>4, <3>1, ZenonT(60) DEF zi, zj
    <3>3. s * zi + zi <= t * zi \/ t * zi + zi <= s * zi
      <4>1. CASE s < t
        BY <4>1, <1>7, <3>1, ZenonT(60)
      <4>2. CASE t < s
        BY <4>2, <1>8, <3>1, <3>2, ZenonT(60)
      <4> QED BY <4>1, <4>2, <3>2, <1>7, <1>8
    <3> QED BY <2>3, <3>2, <3>3, <1>6, <1>7, <1>8, <1>10
  <2> QED BY <2>1, <2>2, <2>3, <1>6
<1>13. fa \in Nat /\ fb \in Nat
  BY <1>7, <1>8, <1>10 DEF HdrSize
<1> HIDE DEF fa, fb
<1>14. (fa .. fa + zi - 1) \intersect (fb .. fb + zj - 1) = {} /\ fa \in fa .. fa + zi - 1
  BY <1>7, <1>8, <1>12, <1>13
<1> QED BY <1>9, <1>14, ZenonT(60)

-----------------------------------------------------------------------------
(* kfree and the callers *)

\* The freelist of the page of a bag changes; the bag keeps its page.
LEMMA RelistedOwn ==
  ASSUME NEW h, NEW l, Good(h, l), NEW idx \in Classes, NEW p, p = PageOf(h, idx), p # NULL,
         NEW hd \in Slots \union {SENTINEL}, NEW lk \in [Slots -> Slots \union {SENTINEL, Junk}],
         NEW l2, SameElsewhere(l, l2, p), Exact(hd, lk, FreeOf(l2, p, idx)),
         \A o \in l2 : o \in l \/ \E s \in 0 .. ObjCount(idx) - 1 : o = <<p, s>>
  PROVE  /\ Good(Relisted(h, idx, p, hd, lk), l2)
         /\ \A c \in Classes : PageOf(Relisted(h, idx, p, hd, lk), c) = PageOf(h, c)
<1> DEFINE g == Relisted(h, idx, p, hd, lk)
<1>1. Shape(h) /\ Owned(h, l) /\ \A c \in Classes : BagExact(h, l, c)
  BY ZenonT(60) DEF Good
<1>2. Serves(h, idx, p)
  BY <1>1, OwnPageServes, ZenonT(60)
<1>3. \A c \in Classes : BagExact(g, l2, c)
  BY <1>1, <1>2, RelistedGood, ZenonT(60)
<1>4. Shape(g) /\ PageOf(g, idx) = p /\ \A c \in Classes : c # idx => PageOf(g, c) = PageOf(h, c)
  BY <1>1, <1>2, RelistedShape
<1> HIDE DEF g
<1>5. \A c \in Classes : PageOf(g, c) = PageOf(h, c)
  BY <1>4, ZenonT(60)
<1>6. Owned(g, l2)
  BY <1>1, <1>4, <1>5, OwnedKept
<1> QED BY <1>3, <1>4, <1>5, <1>6, ZenonT(60) DEF Good, g

\* A new freelist for a page, its bag as it was.
Changed(h, p, hd, lk) == [h EXCEPT !.freelist_head[p] = hd, !.link[p] = lk]

\* A page that neither becomes full nor ceases to be so is listed as before.
LEMMA ListedAlready ==
  ASSUME NEW h, Shape(h), NEW idx \in Classes, NEW p, p = PageOf(h, idx), p # NULL,
         NEW hd \in Slots \union {SENTINEL}, NEW lk \in [Slots -> Slots \union {SENTINEL, Junk}],
         hd = SENTINEL <=> h.freelist_head[p] = SENTINEL
  PROVE  Relisted(h, idx, p, hd, lk) = Changed(h, p, hd, lk)
<1>1. h \in Heaps /\ BagPage(h, idx, p) /\ p \in Pages
  BY ZenonT(60) DEF Shape, BagPage
<1> DEFINE b == IF hd = SENTINEL THEN [free |-> NULL, full |-> p] ELSE [free |-> p, full |-> NULL]
<1>2. h.bags[idx] = b
  BY <1>1, ZenonT(60) DEF BagPage
<1> HIDE DEF b
<1>3. [h.bags EXCEPT ![idx] = b] = h.bags
  BY <1>1, <1>2, ZenonT(60) DEF Heaps
<1> QED BY <1>1, <1>3, ZenonT(60) DEF Relisted, Changed, Heaps, b

LEMMA UseKeeps ==
  ASSUME Good(heap, live), NEW o \in live, use_object(o[1], o[2])
  PROVE  /\ Good(heap', live')
         /\ \A c \in Classes : PageOf(heap', c) = PageOf(heap, c)
         /\ heap'.object_size = heap.object_size
<1>1. Shape(heap) /\ Owned(heap, live) /\ \A c \in Classes : BagExact(heap, live, c)
  BY ZenonT(60) DEF Good
<1>2. PICK idx \in Classes : \E s \in 0 .. ObjCount(idx) - 1 :
             PageOf(heap, idx) # NULL /\ o = <<PageOf(heap, idx), s>>
  BY <1>1, ZenonT(60) DEF Owned
<1>3. PICK s \in 0 .. ObjCount(idx) - 1 : o = <<PageOf(heap, idx), s>>
  BY <1>2, ZenonT(60)
<1> DEFINE p == PageOf(heap, idx)
           hd == heap.freelist_head[p]
           lk == [heap.link[p] EXCEPT ![s] = Junk]
<1>4. heap \in Heaps /\ idx \in Served /\ p \in Pages /\ s \in Slots
  BY <1>1, <1>2, Numbers, ZenonT(60) DEF Shape, BagPage
<1>5. /\ hd \in Slots \union {SENTINEL}
      /\ heap.link[p] \in [Slots -> Slots \union {SENTINEL, Junk}]
  BY <1>4, ZenonT(60) DEF Heaps
<1>6. lk \in [Slots -> Slots \union {SENTINEL, Junk}]
  BY <1>4, <1>5, ZenonT(60)
<1>7. Exact(hd, heap.link[p], FreeOf(live, p, idx))
  BY <1>1, <1>2, ZenonT(60) DEF BagExact
<1>8. \A t \in FreeOf(live, p, idx) : lk[t] = heap.link[p][t]
  <2>1. \A t \in FreeOf(live, p, idx) : t \in Slots /\ t # s
    BY <1>3, <1>4, Numbers, ZenonT(60) DEF FreeOf
  <2> QED BY <2>1, <1>5, ZenonT(60)
<1>9. heap' = [heap EXCEPT !.link[p][s] = Junk] /\ live' = live
  BY <1>3, ZenonT(60) DEF use_object
<1>10. heap' = Changed(heap, p, hd, lk)
  BY <1>4, <1>9, ZenonT(60) DEF Heaps, Changed
<1>10a. p = PageOf(heap, idx) /\ p # NULL /\ hd = heap.freelist_head[p]
  BY <1>2, ZenonT(60)
<1> HIDE DEF lk, hd, p
<1>11. Exact(hd, lk, FreeOf(live, p, idx))
  BY <1>7, <1>8, ExactKept, ZenonT(60)
<1>12. heap' = Relisted(heap, idx, p, hd, lk)
  <2>0. hd = SENTINEL <=> heap.freelist_head[p] = SENTINEL
    BY <1>10a, ZenonT(60)
  <2>1. Relisted(heap, idx, p, hd, lk) = Changed(heap, p, hd, lk)
    BY <1>1, <1>5, <1>6, <1>10a, <2>0, ListedAlready
  <2> QED BY <2>1, <1>10, ZenonT(60)
<1>13. SameElsewhere(live, live, p)
  BY ZenonT(60) DEF SameElsewhere
<1>14. /\ Good(heap', live)
       /\ \A c \in Classes : PageOf(heap', c) = PageOf(heap, c)
  BY <1>2, <1>5, <1>6, <1>11, <1>12, <1>13, <1>10a, RelistedOwn
<1>15. heap'.object_size = heap.object_size
  <2>1. RelistedTo(heap, Relisted(heap, idx, p, hd, lk), idx, p, hd, lk)
    BY <1>4, <1>5, <1>6, RelistedFields, ZenonT(60)
  <2> QED BY <2>1, <1>12, ZenonT(60) DEF RelistedTo
<1> QED BY <1>9, <1>14, <1>15, ZenonT(60)
LEMMA FreeKeeps ==
  ASSUME Good(heap, live), NEW o \in live, kfree(o[1], o[2])
  PROVE  /\ Good(heap', live')
         /\ \A c \in Classes : PageOf(heap', c) = PageOf(heap, c)
         /\ heap'.object_size = heap.object_size
         /\ live' = live \ {o}
<1>1. Shape(heap) /\ Owned(heap, live) /\ \A c \in Classes : BagExact(heap, live, c)
  BY ZenonT(60) DEF Good
<1>2. PICK idx \in Classes : \E s \in 0 .. ObjCount(idx) - 1 :
             PageOf(heap, idx) # NULL /\ o = <<PageOf(heap, idx), s>>
  BY <1>1, ZenonT(60) DEF Owned
<1>3. PICK s \in 0 .. ObjCount(idx) - 1 : o = <<PageOf(heap, idx), s>>
  BY <1>2, ZenonT(60)
<1> DEFINE p == PageOf(heap, idx)
           hd == heap.freelist_head[p]
           lk == [heap.link[p] EXCEPT ![s] = hd]
           h == IF hd # SENTINEL THEN heap ELSE Unlink(heap, FloorLog2(heap.object_size[p]), p)
<1>4. heap \in Heaps /\ BagPage(heap, idx, p) /\ idx \in Served /\ p \in Pages /\ s \in Slots
  BY <1>1, <1>2, Numbers, ZenonT(60) DEF Shape, BagPage
<1>5. /\ hd \in Slots \union {SENTINEL}
      /\ heap.link[p] \in [Slots -> Slots \union {SENTINEL, Junk}]
  BY <1>4, ZenonT(60) DEF Heaps
<1>6. /\ lk \in [Slots -> Slots \union {SENTINEL, Junk}]
      /\ s \in Slots \union {SENTINEL} /\ s # SENTINEL
  BY <1>4, <1>5, Numbers, ZenonT(60)
<1>7. heap' = freelist_enqueue(h, p, s) /\ live' = live \ {o}
  BY <1>3, ZenonT(60) DEF kfree
<1>8. p = PageOf(heap, idx) /\ p # NULL /\ hd = heap.freelist_head[p]
  BY <1>2, ZenonT(60)
<1>9. heap' = Relisted(heap, idx, p, s, lk)
  <2>1. CASE hd # SENTINEL
    <3>1. heap' = Changed(heap, p, s, lk)
      BY <2>1, <1>4, <1>7, ZenonT(60) DEF freelist_enqueue, Changed, Heaps
    <3>2. s = SENTINEL <=> heap.freelist_head[p] = SENTINEL
      BY <2>1, <1>6, ZenonT(60)
    <3> HIDE DEF p, lk, hd
    <3>3. Relisted(heap, idx, p, s, lk) = Changed(heap, p, s, lk)
      BY <1>1, <1>6, <1>8, <3>2, ListedAlready, ZenonT(60)
    <3> QED BY <3>1, <3>3, ZenonT(60)
  <2>2. CASE hd = SENTINEL
    <3>1. FloorLog2(heap.object_size[p]) = idx
      BY <1>4, Counts, ZenonT(60) DEF BagPage
    <3>2. heap.bags[idx] = [free |-> NULL, full |-> p] /\ heap.next[p] = NULL
      BY <1>4, <2>2, ZenonT(60) DEF BagPage
    <3>3. h = Unlink(heap, idx, p)
      BY <2>2, <3>1, ZenonT(60)
    <3>4. Unlink(heap, idx, p) = [heap EXCEPT !.bags[idx] = [free |-> p, full |-> NULL],
                                              !.next[p] = NULL]
      BY <3>2 DEF Unlink
    <3>5. [heap.next EXCEPT ![p] = NULL] = heap.next
      BY <3>2, <1>4, ZenonT(60) DEF Heaps
    <3>6. h = [heap EXCEPT !.bags[idx] = [free |-> p, full |-> NULL]]
      BY <3>3, <3>4, <3>5, <1>4, ZenonT(60) DEF Heaps
    <3> HIDE DEF h, p
    <3> QED BY <3>6, <1>4, <1>6, <1>7, ZenonT(60) DEF freelist_enqueue, Relisted, Heaps
  <2> QED BY <2>1, <2>2, ZenonT(60)
<1>10. Exact(hd, heap.link[p], FreeOf(live, p, idx))
  BY <1>1, <1>2, ZenonT(60) DEF BagExact
<1>11. FreeOf(live', p, idx) = FreeOf(live, p, idx) \union {s} /\ s \notin FreeOf(live, p, idx)
  BY <1>3, <1>7, ZenonT(60) DEF FreeOf
<1>12. lk[s] = hd /\ \A t \in FreeOf(live, p, idx) : lk[t] = heap.link[p][t]
  <2>1. \A t \in FreeOf(live, p, idx) : t \in Slots /\ t # s
    BY <1>4, <1>11, Numbers, ZenonT(60) DEF FreeOf
  <2> QED BY <2>1, <1>4, <1>5, ZenonT(60)
<1>13. SameElsewhere(live, live', p)
  BY <1>3, <1>7, ZenonT(60) DEF SameElsewhere
<1> HIDE DEF lk, hd, p
<1>14. Exact(s, lk, FreeOf(live', p, idx))
  <2>1. FreeOf(live, p, idx) \in SUBSET Nat /\ IsFiniteSet(FreeOf(live, p, idx))
    BY <1>4, FreeOfFinite, ZenonT(60)
  <2> QED BY <2>1, <1>10, <1>11, <1>12, ExactGive
<1>15. \A x \in live' : x \in live
  BY <1>7, ZenonT(60)
<1>16. /\ Good(heap', live')
       /\ \A c \in Classes : PageOf(heap', c) = PageOf(heap, c)
  BY <1>6, <1>8, <1>9, <1>13, <1>14, <1>15, RelistedOwn
<1>17. heap'.object_size = heap.object_size
  <2>1. RelistedTo(heap, Relisted(heap, idx, p, s, lk), idx, p, s, lk)
    BY <1>4, <1>6, RelistedFields, ZenonT(60)
  <2> QED BY <2>1, <1>9, ZenonT(60) DEF RelistedTo
<1> QED BY <1>7, <1>16, <1>17, ZenonT(60)
-----------------------------------------------------------------------------
(* kmalloc *)

\* Bags keep their pages.
Kept(h, g) == \A c \in Classes : PageOf(h, c) # NULL => PageOf(g, c) = PageOf(h, c)

\* An object of bag idx that was not in use has been handed out.
Handed(idx) ==
  \E s \in FreeOf(live, PageOf(heap', idx), idx) :
    /\ PageOf(heap', idx) # NULL
    /\ live' = live \union {<<PageOf(heap', idx), s>>}
    /\ held' = held + 1
    /\ UNCHANGED status

LEMMA PreparedGood ==
  ASSUME NEW h, NEW l, Good(h, l), NEW idx \in Served, h.page_freelist_head # NULL
  PROVE  Good(Prepared(h, idx), l) /\ Kept(h, Prepared(h, idx))
<1> DEFINE g == Prepared(h, idx)
           p == h.page_freelist_head
<1>1. Shape(h) /\ Owned(h, l) /\ \A c \in Classes : BagExact(h, l, c)
  BY ZenonT(60) DEF Good
<1>2. Shape(g) /\ \A c \in Classes : PageOf(g, c) = PageOf(h, c) /\ PageOf(h, c) # p
  BY <1>1, PreparedShape, ZenonT(60)
<1>3. PreparedTo(h, g, idx, p) /\ h \in Heaps /\ p \in Pages /\ idx \in Classes
  BY <1>1, PreparedFields, Numbers, ZenonT(60) DEF Shape, Heaps
<1> HIDE DEF g, p
<1>4. Untouched(h, g, p)
  BY <1>3, ZenonT(60) DEF PreparedTo, Untouched, Heaps
<1>5. SameElsewhere(l, l, p)
  BY ZenonT(60) DEF SameElsewhere
<1>6. ASSUME NEW c \in Classes PROVE BagExact(g, l, c)
  <2>1. PageOf(h, c) \in Pages \union {NULL}
    BY <1>1, ZenonT(60) DEF Shape, BagPage
  <2>2. BagExact(h, l, c) /\ PageOf(g, c) = PageOf(h, c) /\ PageOf(h, c) # p
    BY <1>1, <1>2, ZenonT(60)
  <2> QED BY <1>4, <1>5, <2>1, <2>2, OthersExact, ZenonT(60)
<1>7. Owned(g, l)
  BY <1>1, <1>2, <1>3, OwnedKept
<1> QED BY <1>1, <1>2, <1>6, <1>7, ZenonT(60) DEF Good, Kept, g

\* The bag has no page yet.
LEMMA FirstObject ==
  ASSUME Good(heap, live), NEW idx \in Served,
         heap.bags[idx].free = NULL, heap.bags[idx].full = NULL, ~ PoolEmpty(heap),
         fetch_object(idx)
  PROVE  Good(heap', live') /\ Kept(heap, heap') /\ Handed(idx)
<1> DEFINE p == heap.page_freelist_head
           h == Prepared(heap, idx)
           lk == h.link[p]
           g == Relisted(h, idx, p, 1, lk)
<1>1. /\ Shape(heap) /\ Owned(heap, live) /\ \A c \in Classes : BagExact(heap, live, c)
      /\ heap \in Heaps /\ p # NULL /\ p \in Pages /\ idx \in Classes
  BY Numbers, ZenonT(60) DEF Good, PoolEmpty, Shape, Heaps
<1>2. /\ Shape(h) /\ Serves(h, idx, p)
      /\ \A c \in Classes : PageOf(h, c) = PageOf(heap, c) /\ PageOf(heap, c) # p
  BY <1>1, PreparedShape, ZenonT(60)
<1>3. PreparedTo(heap, h, idx, p)
  BY <1>1, PreparedFields, ZenonT(60)
<1>4. /\ ObjCount(idx) \in Nat /\ 2 <= ObjCount(idx)
      /\ \A s \in 0 .. ObjCount(idx) - 1 : s \in Slots
  BY Counts, Numbers, ZenonT(60)
<1>5. /\ h \in Heaps /\ h.freelist_head[p] = 0
      /\ lk \in [Slots -> Slots \union {SENTINEL, Junk}]
      /\ \A s \in 0 .. ObjCount(idx) - 1 : lk[s] = IF s < ObjCount(idx) - 1 THEN s + 1 ELSE SENTINEL
  <2> HIDE DEF h
  <2>1. h \in Heaps /\ h.freelist_head = [heap.freelist_head EXCEPT ![p] = 0]
    BY <1>3, ZenonT(60) DEF PreparedTo
  <2>2. h.freelist_head[p] = 0 /\ lk \in [Slots -> Slots \union {SENTINEL, Junk}]
    BY <1>1, <2>1, ZenonT(60) DEF Heaps
  <2> QED BY <1>3, <2>1, <2>2, ZenonT(60) DEF PreparedTo
<1>6. lk[0] = 1 /\ 0 \in Slots /\ 1 \in Slots /\ 1 # SENTINEL
  <2>1. 0 \in 0 .. ObjCount(idx) - 1 /\ 1 \in 0 .. ObjCount(idx) - 1 /\ 0 < ObjCount(idx) - 1
    BY <1>4
  <2> HIDE DEF lk
  <2> QED BY <1>4, <1>5, <2>1 DEF SENTINEL
<1>7. /\ heap' = g
      /\ live' = live \union {<<p, 0>>}
      /\ held' = held + 1 /\ UNCHANGED status
  <2> DEFINE b == initialize_bag(heap, idx)
  <2>1. b = [h EXCEPT !.bags[idx] = [free |-> p, full |-> NULL]]
    BY ZenonT(60) DEF initialize_bag, Prepared
  <2> HIDE DEF h, lk
  <2>2. /\ b.bags[idx].free = p /\ b.freelist_head[p] = 0
        /\ freelist_dequeue(b, p) = [b EXCEPT !.freelist_head[p] = 1]
    <3>1. b.link = h.link /\ b.freelist_head = h.freelist_head /\ b.bags[idx] = [free |-> p, full |-> NULL]
      BY <2>1, <1>1, <1>5, ZenonT(60) DEF Heaps
    <3>2. b.link[p][b.freelist_head[p]] = 1
      BY <3>1, <1>5, <1>6, ZenonT(60) DEF lk
    <3> HIDE DEF b, p
    <3> QED BY <3>1, <3>2, <1>5 DEF freelist_dequeue
  <2>3. [b EXCEPT !.freelist_head[p] = 1] = g
    <3>1. [h.link EXCEPT ![p] = h.link[p]] = h.link
      BY <1>1, <1>5, ZenonT(60) DEF Heaps
    <3> QED BY <2>1, <3>1, <1>1, <1>5, <1>6, ZenonT(40) DEF Relisted, Heaps, lk
  <2>4. Hand(freelist_dequeue(b, b.bags[idx].free), b.bags[idx].free, b.freelist_head[b.bags[idx].free])
    <3> HIDE DEF b, p
    <3> QED BY ZenonT(60) DEF fetch_object, b, p
  <2> HIDE DEF b, g
  <2> QED BY <2>2, <2>3, <2>4, ZenonT(60) DEF Hand
<1>8. Exact(1, lk, FreeOf(live', p, idx))
  <2>1. Exact(0, lk, 0 .. ObjCount(idx) - 1)
    <3>1. ObjCount(idx) > 0
      BY <1>4
    <3> HIDE DEF lk
    <3> QED BY <1>4, <1>5, <3>1, ExactNew, ZenonT(60)
  <2>2. \A s : <<p, s>> \notin live
    BY <1>1, <1>2, ZenonT(60) DEF Owned
  <2>3. FreeOf(live', p, idx) = (0 .. ObjCount(idx) - 1) \ {0}
    BY <2>2, <1>7, ZenonT(60) DEF FreeOf
  <2>4. 0 .. ObjCount(idx) - 1 \in SUBSET Nat /\ IsFiniteSet(0 .. ObjCount(idx) - 1)
    BY <1>4, FS_Interval
  <2> HIDE DEF lk
  <2>5. Exact(lk[0], lk, (0 .. ObjCount(idx) - 1) \ {0})
    <3>1. 0 # SENTINEL
      BY DEF SENTINEL
    <3> QED BY <2>1, <2>4, <3>1, ExactTake, ZenonT(60)
  <2> QED BY <2>3, <2>5, <1>6, ZenonT(60)
<1>9. \A c \in Classes : BagExact(h, live, c)
  BY <1>1, PreparedGood, ZenonT(60) DEF Good
<1>10. SameElsewhere(live, live', p)
  BY <1>7, ZenonT(60) DEF SameElsewhere
<1>11. /\ Shape(g) /\ PageOf(g, idx) = p
       /\ \A c \in Classes : c # idx => PageOf(g, c) = PageOf(h, c)
  BY <1>2, <1>5, <1>6, RelistedShape
<1>12. \A c \in Classes : BagExact(g, live', c)
  BY <1>2, <1>5, <1>6, <1>8, <1>9, <1>10, RelistedGood, ZenonT(60)
<1>13. PageOf(heap, idx) = NULL
  BY ZenonT(60) DEF PageOf
<1>14. Kept(heap, g)
  BY <1>2, <1>11, <1>13, ZenonT(60) DEF Kept
<1> HIDE DEF g, h, lk
<1>15. 0 \in 0 .. ObjCount(idx) - 1
  BY <1>4
<1>16. Owned(g, live')
  <2>1. \A o \in live' : o \in live \/ \E s \in 0 .. ObjCount(idx) - 1 :
                                          PageOf(g, idx) # NULL /\ o = <<PageOf(g, idx), s>>
    BY <1>1, <1>7, <1>11, <1>15, ZenonT(60)
  <2>2. \A c \in Classes : PageOf(heap, c) # NULL => PageOf(g, c) = PageOf(heap, c)
    BY <1>14, ZenonT(60) DEF Kept
  <2> QED BY <1>1, <2>1, <2>2, OwnedKept
<1>17. 0 \in FreeOf(live, p, idx)
  BY <1>1, <1>2, <1>15, ZenonT(60) DEF FreeOf, Owned
<1>18. Handed(idx)
  BY <1>1, <1>7, <1>11, <1>17, ZenonT(60) DEF Handed
<1> QED BY <1>7, <1>11, <1>12, <1>14, <1>16, <1>18, ZenonT(60) DEF Good
\* Memory has run out: the lists are still sound, but for one object.
RanOut ==
  /\ Shape(heap') /\ Owned(heap', live')
  /\ status' = "panic" /\ UNCHANGED <<live, held>>

\* The bag has a page with a free object.
LEMMA NextObject ==
  ASSUME Good(heap, live), NEW idx \in Served, heap.bags[idx].free # NULL, fetch_object(idx)
  PROVE  Kept(heap, heap') /\ (RanOut \/ (Good(heap', live') /\ Handed(idx)))
<1> DEFINE p == heap.bags[idx].free
           hd == heap.freelist_head[p]
           lk == heap.link[p]
           hd2 == lk[hd]
           dq == freelist_dequeue(heap, p)
           m == Relisted(heap, idx, p, hd2, lk)
           after == AfterDequeue(dq, idx)
           l2 == live \union {<<p, hd>>}
<1> HIDE DEF p, hd, lk, hd2, dq, m, after, l2
<1>1. /\ Shape(heap) /\ Owned(heap, live) /\ \A c \in Classes : BagExact(heap, live, c)
      /\ heap \in Heaps /\ p = PageOf(heap, idx) /\ p # NULL /\ idx \in Classes
  BY Numbers, ZenonT(60) DEF Good, Shape, PageOf, p
<1>2. BagPage(heap, idx, p) /\ p \in Pages
  BY <1>1, ZenonT(60) DEF Shape, BagPage
<1>3. /\ hd # SENTINEL /\ hd = heap.freelist_head[p]
      /\ heap.bags[idx] = [free |-> p, full |-> NULL] /\ heap.next[p] = NULL
  <2>1. heap.bags[idx] = IF hd = SENTINEL THEN [free |-> NULL, full |-> p] ELSE [free |-> p, full |-> NULL]
    BY <1>2, ZenonT(60) DEF BagPage, hd
  <2>2. heap.bags[idx].free # NULL
    BY ZenonT(60)
  <2>3. hd # SENTINEL
    BY <2>1, <2>2
  <2> QED BY <1>2, <2>1, <2>3, ZenonT(60) DEF BagPage, hd
<1>4. /\ hd \in FreeOf(live, p, idx)
      /\ Exact(hd2, lk, FreeOf(live, p, idx) \ {hd})
      /\ hd2 \in Slots \union {SENTINEL}
      /\ lk \in [Slots -> Slots \union {SENTINEL, Junk}]
  <2>1. BagExact(heap, live, idx)
    BY <1>1, ZenonT(60)
  <2>2. /\ hd \in FreeOf(live, p, idx)
        /\ Exact(heap.link[p][hd], heap.link[p], FreeOf(live, p, idx) \ {hd})
        /\ heap.link[p][hd] \in Slots \union {SENTINEL}
    BY <1>1, <1>3, <2>1, FreelistNext, ZenonT(60)
  <2> QED BY <2>2, <1>1, <1>2, ZenonT(60) DEF hd2, lk, Heaps
<1>5. dq = Changed(heap, p, hd2, lk)
  <2>1. [heap.link EXCEPT ![p] = lk] = heap.link
    BY <1>1, <1>2, ZenonT(60) DEF Heaps, lk
  <2>2. dq = [heap EXCEPT !.freelist_head[p] = hd2]
    BY <1>3, ZenonT(60) DEF dq, freelist_dequeue, hd2, lk
  <2> QED BY <2>1, <2>2, <1>1, ZenonT(60) DEF Changed, Heaps
<1>6. /\ dq.bags = heap.bags /\ dq.next = heap.next
      /\ dq.page_freelist_head = heap.page_freelist_head /\ dq.freelist_head[p] = hd2
  BY <1>1, <1>2, <1>5, ZenonT(60) DEF Changed, Heaps
<1>6a. dq.bags[idx].free = p /\ dq.bags[idx].full = NULL /\ dq.next[p] = NULL
  BY <1>3, <1>6
<1>7. IF /\ dq.freelist_head[p] = SENTINEL
         /\ after.bags[idx].free = NULL
         /\ PoolEmpty(dq)
      THEN Stop(after, "panic")
      ELSE Hand(after, p, hd)
  BY <1>1, ZenonT(60) DEF fetch_object, p, dq, after, hd
<1>8. RelistedTo(heap, m, idx, p, hd2, lk)
  BY <1>1, <1>2, <1>4, RelistedFields, ZenonT(60) DEF m
<1>9. FreeOf(l2, p, idx) = FreeOf(live, p, idx) \ {hd} /\ SameElsewhere(live, l2, p)
  BY ZenonT(60) DEF FreeOf, SameElsewhere, l2
<1>10. \A o \in l2 : o \in live \/ \E s \in 0 .. ObjCount(idx) - 1 : o = <<p, s>>
  BY <1>4, ZenonT(60) DEF FreeOf, l2
<1>11. Good(m, l2) /\ \A c \in Classes : PageOf(m, c) = PageOf(heap, c)
  <2>1. Exact(hd2, lk, FreeOf(l2, p, idx))
    BY <1>4, <1>9, ZenonT(60)
  <2>2. SameElsewhere(live, l2, p)
    BY <1>9, ZenonT(60)
  <2>3. /\ Good(Relisted(heap, idx, p, hd2, lk), l2)
        /\ \A c \in Classes : PageOf(Relisted(heap, idx, p, hd2, lk), c) = PageOf(heap, c)
    BY <2>1, <2>2, <1>1, <1>4, <1>10, RelistedOwn
  <2> QED BY <2>3, ZenonT(60) DEF m
<1>12. CASE hd2 # SENTINEL
  <2>1. dq = m
    <3>1. hd2 = SENTINEL <=> heap.freelist_head[p] = SENTINEL
      BY <1>3, <1>12, ZenonT(60)
    <3>2. Relisted(heap, idx, p, hd2, lk) = Changed(heap, p, hd2, lk)
      BY <1>1, <1>4, <3>1, ListedAlready, ZenonT(60)
    <3> QED BY <3>2, <1>5, ZenonT(60) DEF m
  <2>2. after = dq
    BY <1>6, <1>6a, <1>12, ZenonT(60) DEF AfterDequeue, after
  <2>3. Hand(m, p, hd)
    BY <2>1, <2>2, <1>6, <1>7, <1>12, ZenonT(60)
  <2>4. heap' = m /\ live' = l2 /\ held' = held + 1 /\ UNCHANGED status
    BY <2>3, ZenonT(60) DEF Hand, l2
  <2>5. Kept(heap, heap') /\ PageOf(heap', idx) = p
    BY <2>4, <1>1, <1>11, ZenonT(60) DEF Kept
  <2>6. Handed(idx)
    BY <2>4, <2>5, <1>1, <1>4, ZenonT(60) DEF Handed, l2
  <2> QED BY <2>4, <2>5, <2>6, <1>11, ZenonT(60)
<1>13. CASE hd2 = SENTINEL
  <2> DEFINE b == [free |-> NULL, full |-> p]
  <2>1. ToFull(dq, idx) = m
    <3>1. ToFull(dq, idx) = [dq EXCEPT !.bags[idx] = b, !.next[p] = NULL]
      BY <1>6a, ZenonT(60) DEF ToFull
    <3>2. [heap.next EXCEPT ![p] = NULL] = heap.next
      BY <1>1, <1>2, <1>3, ZenonT(60) DEF Heaps
    <3>3. m = [Changed(heap, p, hd2, lk) EXCEPT !.bags[idx] = b]
      BY <1>1, <1>13, ZenonT(60) DEF Changed, Relisted, Heaps, m
    <3> HIDE DEF b
    <3>4. dq \in Heaps
      BY <1>1, <1>2, <1>4, <1>5, ZenonT(60) DEF Changed, Heaps
    <3>5. [dq EXCEPT !.bags[idx] = b, !.next[p] = NULL] = [dq EXCEPT !.bags[idx] = b]
      BY <3>4, <3>2, <1>6, ZenonT(60) DEF Heaps
    <3> QED BY <3>1, <3>3, <3>5, <1>5, ZenonT(60)
  <2>2. m.bags[idx] = b /\ m.page_freelist_head = heap.page_freelist_head
    BY <1>1, <1>8, <1>13, ZenonT(60) DEF RelistedTo, Heaps
  <2>2a. m.bags[idx].free = NULL
    BY <2>2
  <2> HIDE DEF b
  <2>3. after = IF PoolEmpty(m) THEN m ELSE Prepared(m, idx)
    <3>1. dq.freelist_head[dq.bags[idx].free] = SENTINEL
      BY <1>6, <1>6a, <1>13, ZenonT(60)
    <3> QED BY <2>1, <2>2a, <3>1, ZenonT(60) DEF AfterDequeue, Prepared, after
  <2>4. CASE PoolEmpty(heap)
    <3>1. after = m /\ PoolEmpty(dq)
      BY <2>2, <2>3, <2>4, <1>6, ZenonT(60) DEF PoolEmpty
    <3>2. heap' = m /\ status' = "panic" /\ UNCHANGED <<live, held>>
      BY <3>1, <2>2a, <1>6, <1>7, <1>13, ZenonT(60) DEF Stop
    <3>3. Owned(m, live)
      BY <1>1, <1>11, OwnedKept
    <3> QED BY <3>2, <3>3, <1>11, ZenonT(60) DEF RanOut, Kept, Good
  <2>5. CASE ~ PoolEmpty(heap)
    <3>1. after = Prepared(m, idx) /\ ~ PoolEmpty(dq) /\ m.page_freelist_head # NULL
      BY <2>2, <2>3, <2>5, <1>6, ZenonT(60) DEF PoolEmpty
    <3>2. heap' = Prepared(m, idx) /\ live' = l2 /\ held' = held + 1 /\ UNCHANGED status
      BY <3>1, <1>7, ZenonT(60) DEF Hand, l2
    <3>3. Good(Prepared(m, idx), l2) /\ Kept(m, Prepared(m, idx))
      BY <3>1, <1>11, PreparedGood, ZenonT(60)
    <3>4. Kept(heap, heap') /\ PageOf(heap', idx) = p
      BY <3>2, <3>3, <1>1, <1>11, ZenonT(60) DEF Kept
    <3>5. Handed(idx)
      BY <3>2, <3>4, <1>1, <1>4, ZenonT(60) DEF Handed, l2
    <3> QED BY <3>2, <3>3, <3>4, <3>5, ZenonT(60)
  <2> QED BY <2>4, <2>5, ZenonT(60)
<1> QED BY <1>12, <1>13, ZenonT(60)

LEMMA FetchKeeps ==
  ASSUME Good(heap, live), NEW idx \in Served, fetch_object(idx)
  PROVE  /\ Kept(heap, heap')
         /\ \/ UNCHANGED <<heap, live, held>> /\ status' = "panic"
            \/ HandLow
            \/ RanOut
            \/ Good(heap', live') /\ Handed(idx)
<1>1. Kept(heap, heap)
  BY ZenonT(60) DEF Kept
<1>2. CASE heap.bags[idx].free = NULL /\ heap.bags[idx].full = NULL /\ PoolEmpty(heap)
  <2>1. Stop(heap, "panic")
    BY <1>2, ZenonT(60) DEF fetch_object
  <2> QED BY <2>1, <1>1, ZenonT(60) DEF Stop
<1>3. CASE heap.bags[idx].free = NULL /\ heap.bags[idx].full = NULL /\ ~ PoolEmpty(heap)
  BY <1>3, FirstObject, ZenonT(60)
<1>4. CASE heap.bags[idx].free = NULL /\ heap.bags[idx].full # NULL
  <2>1. HandLow
    BY <1>4, ZenonT(60) DEF fetch_object
  <2> QED BY <2>1, <1>1, ZenonT(60) DEF HandLow
<1>5. CASE heap.bags[idx].free # NULL
  BY <1>5, NextObject, ZenonT(60)
<1> QED BY <1>2, <1>3, <1>4, <1>5, ZenonT(60)

LEMMA InitHolds == Init => IInv
<1> SUFFICES ASSUME Init PROVE IInv
  BY ZenonT(60)
<1>1. heap \in Heaps
  <2>1. NumPages \in Nat \ {0}
    BY PoolAssumption, ZenonT(60)
  <2>2. 1 \in Pages /\ \A p \in Pages : p < NumPages => p + 1 \in Pages
    BY <2>1 DEF Pages
  <2>3. 0 \in Slots
    <3>1. ObjSize(2) = 4
      BY DEF ObjSize
    <3>2. ObjCount(2) \in Nat /\ ObjCount(2) > 0
      BY <3>1, PoolAssumption DEF ObjCount, HdrSize
    <3> QED BY <3>2 DEF Slots
  <2> QED BY <2>2, <2>3, ZenonT(60) DEF Init, Heaps
<1>2. \A idx \in Classes : PageOf(heap, idx) = NULL
  BY ZenonT(60) DEF Init, PageOf
<1>3. PoolLinked(heap)
  BY ZenonT(60) DEF Init, PoolLinked
<1>4. Shape(heap)
  BY <1>1, <1>2, <1>3, ZenonT(60) DEF Shape
<1>5. Owned(heap, live) /\ \A idx \in Classes : BagExact(heap, live, idx)
  BY <1>2, ZenonT(60) DEF Init, Owned, BagExact
<1>6. IsFiniteSet(live) /\ held = Cardinality(live) /\ held \in Nat
  BY FS_EmptySet, FS_CardinalityType, ZenonT(60) DEF Init
<1> QED BY <1>4, <1>5, <1>6, ZenonT(60) DEF Init, IInv

LEMMA NextHolds == IInv /\ [Next]_vars => IInv'
<1> SUFFICES ASSUME IInv, [Next]_vars PROVE IInv'
  BY ZenonT(60)
<1>1. CASE UNCHANGED vars
  BY <1>1, ZenonT(60) DEF IInv, vars
<1>2. ASSUME status = "ok" PROVE Good(heap, live)
  BY <1>2, ZenonT(60) DEF IInv, Good
<1>3. ASSUME NEW size \in Sizes, kmalloc(size) PROVE IInv'
  <2>1. status = "ok" /\ Good(heap, live)
    BY <1>2, <1>3, ZenonT(60) DEF kmalloc
  <2>2. CASE size < MIN_BLOCK_SIZE \/ size > 2 ^ NO_CLASSES
    BY <1>1, <1>3, <2>2, ZenonT(60) DEF kmalloc
  <2>3. CASE ~ (size < MIN_BLOCK_SIZE \/ size > 2 ^ NO_CLASSES) /\ bag_idx(size) \in Classes
    <3> DEFINE idx == bag_idx(size)
    <3>1. idx \in Served
      BY <2>3, ClassOfSize, ZenonT(60)
    <3>2. fetch_object(idx)
      BY <1>3, <2>3, ZenonT(60) DEF kmalloc
    <3> HIDE DEF idx
    <3>3. \/ UNCHANGED <<heap, live, held>> /\ status' = "panic"
          \/ HandLow
          \/ RanOut
          \/ Good(heap', live') /\ Handed(idx)
      BY <2>1, <3>1, <3>2, FetchKeeps, ZenonT(60)
    <3>4. CASE UNCHANGED <<heap, live, held>> /\ status' = "panic"
      BY <2>1, <3>4 DEF IInv
    <3>4a. CASE HandLow
      <4>1. held' \in Nat
        BY <3>4a DEF HandLow, IInv
      <4>2. /\ UNCHANGED <<heap, live>> /\ Shape(heap) /\ Owned(heap, live) /\ IsFiniteSet(live)
            /\ \A c \in Classes : BagExact(heap, live, c)
        BY <2>1, <3>4a, ZenonT(60) DEF HandLow, IInv, Good
      <4>3. status' = "low"
        BY <3>4a, ZenonT(60) DEF HandLow
      <4> QED BY <4>1, <4>2, <4>3 DEF IInv
    <3>5. CASE RanOut
      BY <2>1, <3>5 DEF RanOut, IInv
    <3>6. CASE Good(heap', live') /\ Handed(idx)
      <4>1. PICK s \in FreeOf(live, PageOf(heap', idx), idx) :
                /\ live' = live \union {<<PageOf(heap', idx), s>>}
                /\ held' = held + 1
                /\ UNCHANGED status
        BY <3>6, ZenonT(60) DEF Handed
      <4>2. <<PageOf(heap', idx), s>> \notin live
        BY ZenonT(60) DEF FreeOf
      <4>3. held = Cardinality(live) /\ IsFiniteSet(live)
        BY <2>1 DEF IInv
      <4>4. IsFiniteSet(live') /\ held' = Cardinality(live')
        BY <4>1, <4>2, <4>3, FS_AddElement, ZenonT(60)
      <4>5. held' \in Nat
        BY <4>4, FS_CardinalityType, ZenonT(60)
      <4> QED BY <2>1, <3>6, <4>1, <4>4, <4>5, ZenonT(60) DEF IInv, Good
    <3> QED BY <3>3, <3>4, <3>4a, <3>5, <3>6, ZenonT(60)
  <2>4. CASE ~ (size < MIN_BLOCK_SIZE \/ size > 2 ^ NO_CLASSES) /\ bag_idx(size) \notin Classes
    <3>1. Stop(heap, "index")
      BY <1>3, <2>4, ZenonT(60) DEF kmalloc
    <3> QED BY <2>1, <3>1 DEF Stop, IInv
  <2> QED BY <2>2, <2>3, <2>4, ZenonT(60)
<1>4. ASSUME NEW o \in live, kfree(o[1], o[2]) PROVE IInv'
  <2>1. Good(heap, live) /\ held' = held - 1 /\ UNCHANGED status /\ status = "ok"
    BY <1>2, <1>4, ZenonT(60) DEF kfree
  <2>2. Good(heap', live') /\ live' = live \ {o}
    BY <2>1, <1>4, FreeKeeps, ZenonT(60)
  <2>3. IsFiniteSet(live') /\ held' = Cardinality(live') /\ held' \in Nat
    <3>1. held = Cardinality(live) /\ IsFiniteSet(live)
      BY <2>1 DEF IInv
    <3>2. IsFiniteSet(live') /\ held' = Cardinality(live')
      BY <2>1, <2>2, <3>1, FS_RemoveElement, ZenonT(60)
    <3>3. held' \in Nat
      BY <3>2, FS_CardinalityType, ZenonT(60)
    <3> QED BY <3>2, <3>3, ZenonT(60)
  <2> QED BY <2>1, <2>2, <2>3, ZenonT(60) DEF IInv, Good
<1>5. ASSUME NEW o \in live, use_object(o[1], o[2]) PROVE IInv'
  <2>1. Good(heap, live) /\ status = "ok" /\ UNCHANGED <<live, held>> /\ status' \in {"ok", "spoilt"}
    BY <1>2, <1>5, ZenonT(60) DEF use_object
  <2>2. Good(heap', live')
    BY <2>1, <1>5, UseKeeps, ZenonT(60)
  <2>3. /\ IsFiniteSet(live') /\ held' \in Nat /\ held' = Cardinality(live')
        /\ status' \in {"ok", "panic", "low", "index", "spoilt"}
    BY <2>1 DEF IInv
  <2> QED BY <2>2, <2>3, ZenonT(60) DEF IInv, Good
<1> QED BY <1>1, <1>3, <1>4, <1>5, ZenonT(60) DEF Next
LEMMA AlwaysIInv == Spec => []IInv
BY InitHolds, NextHolds, PTL DEF Spec

-----------------------------------------------------------------------------
(* Theorems *)

\* The lists of a bag, in terms of its one page.
LEMMA ListsOfBag ==
  ASSUME Shape(heap), NEW idx \in Classes
  PROVE  LET p == PageOf(heap, idx)
         IN /\ BagPages(idx) = {p} \ {NULL}
            /\ Chain(heap, heap.bags[idx].free) =
                 IF p # NULL /\ heap.freelist_head[p] # SENTINEL THEN {p} ELSE {}
            /\ Chain(heap, heap.bags[idx].full) =
                 IF p # NULL /\ heap.freelist_head[p] = SENTINEL THEN {p} ELSE {}
<1> DEFINE p == PageOf(heap, idx)
           free == heap.bags[idx].free
           full == heap.bags[idx].full
<1>1. Chain(heap, NULL) = {}
  BY ChainNull, Numbers, ZenonT(60)
<1>2. CASE p = NULL
  <2>1. free = NULL /\ full = NULL
    BY <1>2, ZenonT(60) DEF PageOf
  <2> QED BY <1>1, <1>2, <2>1, ZenonT(60) DEF BagPages
<1>3. CASE p # NULL
  <2>1. BagPage(heap, idx, p) /\ p \in Pages /\ heap.next[p] = NULL
    BY <1>3, ZenonT(60) DEF Shape, BagPage
  <2>2. Chain(heap, p) = {p}
    BY <2>1, ChainOne, Numbers, ZenonT(60)
  <2>3. IF heap.freelist_head[p] = SENTINEL THEN free = NULL /\ full = p ELSE free = p /\ full = NULL
    BY <2>1 DEF BagPage
  <2> QED BY <1>1, <1>3, <2>2, <2>3, ZenonT(60) DEF BagPages
<1> QED BY <1>2, <1>3, ZenonT(60)

\* Every field of the heap has its type, with any number of pages and any sizes
\* asked for: kmalloc and kfree leave no freelist index and no page number
\* outside its range.
THEOREM HeapTypeCorrect == Spec => []TypeOK
<1>1. IInv => TypeOK
  <2> SUFFICES ASSUME IInv PROVE TypeOK
    BY ZenonT(60)
  <2>1. heap \in Heaps /\ held \in Nat /\ status \in {"ok", "panic", "low", "index", "spoilt"}
    BY ZenonT(60) DEF IInv, Shape
  <2>2. live \subseteq Pages \X Slots
    <3> SUFFICES ASSUME NEW o \in live PROVE o \in Pages \X Slots
      BY ZenonT(60)
    <3>1. PICK idx \in Classes : \E s \in 0 .. ObjCount(idx) - 1 :
                PageOf(heap, idx) # NULL /\ o = <<PageOf(heap, idx), s>>
      BY ZenonT(60) DEF IInv, Owned
    <3>2. PageOf(heap, idx) \in Pages /\ idx \in Served
      BY <3>1, ZenonT(60) DEF IInv, Shape, BagPage
    <3>3. \A s \in 0 .. ObjCount(idx) - 1 : s \in Slots
      BY <3>2, Numbers, ZenonT(60)
    <3> QED BY <3>1, <3>2, <3>3
  <2> QED BY <2>1, <2>2, ZenonT(60) DEF TypeOK, Heaps
<1> QED BY <1>1, AlwaysIInv, PTL

\* kmalloc and kfree keep every freelist exact: it holds each object of its
\* page that nobody owns, once.  So no object is handed out twice and none is
\* lost, with any number of pages and any mix of sizes, until a caller writes
\* an object that reaches beyond its page or kmalloc leaves the heap.
THEOREM FreelistsStayExact == Spec => []FreelistExact
<1>1. IInv => FreelistExact
  <2> SUFFICES ASSUME IInv, status # "panic", NEW idx \in Classes, NEW page \in BagPages(idx)
               PROVE  LET free == FreeSlots(page)
                          n == Cardinality(free)
                      IN \E q \in [1 .. n -> free] :
                           /\ \A i, j \in 1 .. n : q[i] = q[j] => i = j
                           /\ heap.freelist_head[page] = IF n = 0 THEN SENTINEL ELSE q[1]
                           /\ \A i \in 1 .. n :
                                heap.link[page][q[i]] = IF i = n THEN SENTINEL ELSE q[i + 1]
    BY ZenonT(60) DEF FreelistExact
  <2>1. page = PageOf(heap, idx) /\ page # NULL
    BY ListsOfBag, ZenonT(60) DEF IInv
  <2>2. BagPage(heap, idx, page) /\ idx \in Served
    BY <2>1, ZenonT(60) DEF IInv, Shape, BagPage
  <2>3. FloorLog2(heap.object_size[page]) = idx
    BY <2>2, Counts, ZenonT(60) DEF BagPage
  <2>4. FreeSlots(page) = FreeOf(live, page, idx)
    <3>1. \A s \in 0 .. ObjCount(idx) - 1 : s \in Slots
      BY <2>2, Numbers, ZenonT(60)
    <3>2. ObjCount(idx) \in Nat /\ Slots \subseteq Nat
      BY <2>2, Counts, Numbers, ZenonT(60)
    <3>3. \A s \in Slots : s < ObjCount(idx) => s \in 0 .. ObjCount(idx) - 1
      BY <3>2
    <3>4. \A s \in 0 .. ObjCount(idx) - 1 : s < ObjCount(idx)
      BY <3>2
    <3>5. FreeSlots(page) = {s \in Slots : s < ObjCount(idx) /\ <<page, s>> \notin live}
      BY <2>3, ZenonT(60) DEF FreeSlots
    <3> QED BY <3>1, <3>3, <3>4, <3>5, ZenonT(60) DEF FreeOf
  <2>5. Exact(heap.freelist_head[page], heap.link[page], FreeOf(live, page, idx))
    BY <2>1, ZenonT(60) DEF IInv, BagExact
  <2> DEFINE free == FreeSlots(page)
             n == Cardinality(free)
  <2>6. PICK q : RunsThrough(heap.freelist_head[page], heap.link[page], free, n, q)
    BY <2>4, <2>5, ZenonT(60) DEF Exact
  <2> HIDE DEF free, n
  <2> QED BY <2>6, ZenonT(60) DEF RunsThrough, free, n
<1> QED BY <1>1, AlwaysIInv, PTL

\* The pool and the lists of the bags stay apart, a page is full exactly when
\* its freelist is empty, and kfree finds the page of every object in use,
\* while the heap is intact.  The page fetch_object prepares and does not link
\* is on none of the lists; no object of it is in use.
THEOREM PagesStayPartitioned == Spec => []PagesPartitioned
<1>1. IInv => PagesPartitioned
  <2> SUFFICES ASSUME IInv PROVE PagesPartitioned
    BY ZenonT(60)
  <2> DEFINE Pool == Chain(heap, heap.page_freelist_head)
             Free(idx) == Chain(heap, heap.bags[idx].free)
             Full(idx) == Chain(heap, heap.bags[idx].full)
  <2>1. Shape(heap) /\ heap \in Heaps /\ PoolLinked(heap)
    BY ZenonT(60) DEF IInv, Shape
  <2>2. ASSUME NEW p \in Pool, NEW idx \in Classes PROVE p # PageOf(heap, idx)
    <3>1. heap.page_freelist_head # NULL
      BY ChainNull, Numbers, ZenonT(60)
    <3>2. heap.page_freelist_head \in Pages
      BY <2>1, <3>1, ZenonT(60) DEF Heaps
    <3>3. \A q \in Pages : q >= heap.page_freelist_head => heap.next[q] = IF q < NumPages THEN q + 1 ELSE NULL
      BY <2>1, <3>1, ZenonT(60) DEF PoolLinked
    <3>4. p \in Pages /\ p >= heap.page_freelist_head
      BY <3>2, <3>3, ChainRest, Numbers, ZenonT(60)
    <3>5. PageOf(heap, idx) # NULL => PageOf(heap, idx) \in Pages /\ PageOf(heap, idx) < heap.page_freelist_head
      BY <2>1, <3>1, ZenonT(60) DEF Shape, BagPage, Fetched
    <3> DEFINE q == PageOf(heap, idx)
    <3> HIDE DEF q, Pool
    <3>6. CASE q = NULL
      BY <3>4, <3>6, Numbers, ZenonT(60) DEF q
    <3>7. CASE q # NULL
      <4>1. q \in Nat /\ p \in Nat /\ heap.page_freelist_head \in Nat
        BY <3>2, <3>4, <3>5, <3>7, Numbers, ZenonT(60) DEF q
      <4>2. q < heap.page_freelist_head
        BY <3>5, <3>7, ZenonT(60) DEF q
      <4>3. p # q
        BY <4>1, <4>2, <3>4
      <4> QED BY <4>3, ZenonT(60) DEF q
    <3> QED BY <3>6, <3>7, ZenonT(60)
  <2>3. ASSUME NEW idx \in Classes
        PROVE  /\ Free(idx) \intersect Full(idx) = {}
               /\ BagPages(idx) \intersect Pool = {}
               /\ \A p \in BagPages(idx) : heap.object_size[p] = ObjSize(idx)
               /\ \A p \in Free(idx) : heap.freelist_head[p] # SENTINEL
               /\ \A p \in Full(idx) : heap.freelist_head[p] = SENTINEL
    <3> DEFINE p == PageOf(heap, idx)
    <3>1. /\ BagPages(idx) = {p} \ {NULL}
          /\ Free(idx) = IF p # NULL /\ heap.freelist_head[p] # SENTINEL THEN {p} ELSE {}
          /\ Full(idx) = IF p # NULL /\ heap.freelist_head[p] = SENTINEL THEN {p} ELSE {}
      BY <2>1, ListsOfBag, ZenonT(60)
    <3>2. p # NULL => heap.object_size[p] = ObjSize(idx)
      BY <2>1, ZenonT(60) DEF Shape, BagPage
    <3>3. p \notin Pool
      BY <2>2, ZenonT(60)
    <3> HIDE DEF p, Pool, Free, Full
    <3> QED BY <3>1, <3>2, <3>3
  <2>4. ASSUME NEW o \in live PROVE \E idx \in Classes : o[1] \in BagPages(idx)
    <3>1. PICK idx \in Classes : \E s \in 0 .. ObjCount(idx) - 1 :
                PageOf(heap, idx) # NULL /\ o = <<PageOf(heap, idx), s>>
      BY ZenonT(60) DEF IInv, Owned
    <3>2. BagPages(idx) = {PageOf(heap, idx)} \ {NULL}
      BY <2>1, ListsOfBag, ZenonT(60)
    <3> QED BY <3>1, <3>2
  <2> QED BY <2>3, <2>4, ZenonT(60) DEF PagesPartitioned
<1> QED BY <1>1, AlwaysIInv, PTL

\* kmalloc hands out bytes of the page it takes the object from, and beyond
\* them at most the header of the next page, for the sizes that do not divide
\* the room behind the header: all classes that are asked for are covered.
THEOREM ObjectsStayInPage == Spec => []ObjectInPage
<1>1. IInv => ObjectInPage
  <2> DEFINE z(o) == heap.object_size[o[1]]
  <2> SUFFICES ASSUME IInv, NEW o \in live
               PROVE  z(o) # 0 /\ ObjEnd(heap, o[1], o[2]) <= PAGE_SIZE + Excess(z(o))
    BY ZenonT(60) DEF ObjectInPage
  <2>1. PICK idx \in Classes : \E s \in 0 .. ObjCount(idx) - 1 :
              PageOf(heap, idx) # NULL /\ o = <<PageOf(heap, idx), s>>
    BY ZenonT(60) DEF IInv, Owned
  <2>2. PICK s \in 0 .. ObjCount(idx) - 1 : o = <<PageOf(heap, idx), s>>
    BY <2>1, ZenonT(60)
  <2> DEFINE size == ObjSize(idx)
  <2>3. idx \in Served /\ z(o) = size
    BY <2>1, <2>2, ZenonT(60) DEF IInv, Shape, BagPage
  <2>4. /\ size \in Nat \ {0} /\ s * size \in Nat /\ (s + 1) * size = s * size + size
        /\ HdrSize + s * size + size <= PAGE_SIZE + Excess(size)
    BY <2>3, ObjectInRoom, ZenonT(60)
  <2>5. ObjEnd(heap, o[1], o[2]) = HdrSize + (s + 1) * size
    BY <2>2, <2>3, ZenonT(60) DEF ObjEnd
  <2> DEFINE x == Excess(size)
             y == (s + 1) * size
             w == s * size
  <2> HIDE DEF x, y, w, size
  <2>6. HdrSize + y <= PAGE_SIZE + x
    <3>1. y = w + size /\ w \in Nat /\ size \in Nat /\ HdrSize + w + size <= PAGE_SIZE + x
      BY <2>4, ZenonT(60) DEF x, y, w
    <3> QED BY <3>1 DEF HdrSize
  <2>7. size # 0
    BY <2>4
  <2> QED BY <2>3, <2>5, <2>6, <2>7, ZenonT(60) DEF x, y
<1> QED BY <1>1, AlwaysIInv, PTL

\* The blocks in use, as the refinement mapping has them.
InUse(h, l) == {Block(o[1], o[2], h.object_size[o[1]]) : o \in l}

\* Blocks stay where they are while bags keep their pages.
LEMMA BlocksKept ==
  ASSUME NEW h, NEW g, NEW l, Shape(h), Shape(g), Kept(h, g), Owned(h, l)
  PROVE  \A o \in l : BlockOf(g, o) = BlockOf(h, o)
<1> SUFFICES ASSUME NEW o \in l PROVE BlockOf(g, o) = BlockOf(h, o)
  BY ZenonT(60)
<1>1. PICK c \in Classes : \E s \in 0 .. ObjCount(c) - 1 : PageOf(h, c) # NULL /\ o = <<PageOf(h, c), s>>
  BY ZenonT(60) DEF Owned
<1>2. o[1] = PageOf(h, c) /\ PageOf(g, c) = PageOf(h, c)
  BY <1>1 DEF Kept
<1>3. h.object_size[o[1]] = ObjSize(c) /\ g.object_size[o[1]] = ObjSize(c)
  BY <1>1, <1>2, ZenonT(60) DEF Shape, BagPage
<1> QED BY <1>3, ZenonT(60) DEF BlockOf

LEMMA StepRefines ==
  IInv /\ IInv' /\ [Next]_vars => [BA!Next]_<<InUse(heap, live), held, Intact>>
<1> SUFFICES ASSUME IInv, IInv', [Next]_vars PROVE [BA!Next]_<<InUse(heap, live), held, Intact>>
  BY ZenonT(60)
<1>0. /\ Shape(heap) /\ Owned(heap, live) /\ Shape(heap') /\ Owned(heap', live')
  BY ZenonT(60) DEF IInv
<1>0a. \A h, l : InUse(h, l) = {BlockOf(h, o) : o \in l}
  BY ZenonT(60) DEF InUse, BlockOf
<1>1. CASE UNCHANGED <<heap, live, held, Intact>>
  BY <1>1, ZenonT(60)
<1>1a. CASE ~ Intact'
  BY <1>1a DEF BA!Next
<1>2. ASSUME status = "ok" PROVE Good(heap, live)
  BY <1>2, ZenonT(60) DEF IInv, Good
<1>2a. ASSUME Kept(heap, heap'), UNCHANGED <<live, held, Intact>>
       PROVE  UNCHANGED <<InUse(heap, live), held, Intact>>
  <2>1. \A o \in live : BlockOf(heap', o) = BlockOf(heap, o)
    BY <1>0, <1>2a, BlocksKept, ZenonT(60)
  <2>2. {BlockOf(heap', o) : o \in live} = {BlockOf(heap, o) : o \in live}
    BY <2>1, ZenonT(60)
  <2> QED BY <1>0a, <1>2a, <2>2, ZenonT(60)
<1>3. ASSUME NEW size \in Sizes, kmalloc(size) PROVE [BA!Next]_<<InUse(heap, live), held, Intact>>
  <2>1. status = "ok" /\ Good(heap, live)
    BY <1>2, <1>3, ZenonT(60) DEF kmalloc
  <2>2. CASE size < MIN_BLOCK_SIZE \/ size > 2 ^ NO_CLASSES
    BY <1>1, <1>3, <2>2, ZenonT(60) DEF kmalloc, vars, Intact
  <2>3. CASE ~ (size < MIN_BLOCK_SIZE \/ size > 2 ^ NO_CLASSES) /\ bag_idx(size) \notin Classes
    <3>1. Stop(heap, "index")
      BY <1>3, <2>3, ZenonT(60) DEF kmalloc
    <3>2. ~ Intact'
      BY <3>1 DEF Stop, Intact
    <3> QED BY <1>1a, <3>2, ZenonT(60)
  <2>4. CASE ~ (size < MIN_BLOCK_SIZE \/ size > 2 ^ NO_CLASSES) /\ bag_idx(size) \in Classes
    <3> DEFINE idx == bag_idx(size)
    <3>1. idx \in Served
      BY <2>4, ClassOfSize, ZenonT(60)
    <3>2. fetch_object(idx)
      BY <1>3, <2>4, ZenonT(60) DEF kmalloc
    <3> HIDE DEF idx
    <3>3. /\ Kept(heap, heap')
          /\ \/ UNCHANGED <<heap, live, held>> /\ status' = "panic"
             \/ HandLow
             \/ RanOut
             \/ Good(heap', live') /\ Handed(idx)
      BY <2>1, <3>1, <3>2, FetchKeeps, ZenonT(60)
    <3>3a. Intact
      BY <2>1, ZenonT(60) DEF Intact
    <3>3b. CASE UNCHANGED <<heap, live, held>> /\ status' = "panic"
      BY <1>1, <3>3a, <3>3b, ZenonT(60) DEF Intact
    <3>3c. CASE HandLow
      <4>1. ~ Intact'
        BY <3>3c DEF HandLow, Intact
      <4> QED BY <1>1a, <4>1, ZenonT(60)
    <3>4. CASE RanOut
      BY <1>2a, <3>3, <3>3a, <3>4, ZenonT(60) DEF RanOut, Intact
    <3>5. CASE Handed(idx)
      <4> DEFINE p == PageOf(heap', idx)
      <4>1. PICK s \in FreeOf(live, p, idx) :
               /\ p # NULL /\ live' = live \union {<<p, s>>} /\ held' = held + 1
               /\ UNCHANGED status
        BY <3>5, ZenonT(60) DEF Handed
      <4> DEFINE b == BlockOf(heap', <<p, s>>)
      <4>2. \A o \in live : BlockOf(heap', o) = BlockOf(heap, o)
        BY <1>0, <3>3, BlocksKept, ZenonT(60)
      <4>3. <<p, s>> \notin live
        BY ZenonT(60) DEF FreeOf
      <4>4. \A o \in live : b \intersect BlockOf(heap', o) = {}
        <5> SUFFICES ASSUME NEW o \in live PROVE b \intersect BlockOf(heap', o) = {}
          BY ZenonT(60)
        <5>1. o \in live' /\ <<p, s>> \in live' /\ o # <<p, s>>
          BY <4>1, <4>3, ZenonT(60)
        <5> QED BY <5>1, <1>0, BlocksApart, ZenonT(60)
      <4>5. b \in {Block(x, u, ObjSize(c)) : x \in Pages, u \in Slots, c \in Classes}
        <5>1. p \in Pages /\ heap'.object_size[p] = ObjSize(idx) /\ idx \in Classes
          BY <1>0, <3>1, <4>1, Numbers, ZenonT(60) DEF Shape, BagPage
        <5>2. s \in Slots
          BY <3>1, Numbers, ZenonT(60) DEF FreeOf
        <5>3. b = Block(p, s, ObjSize(idx))
          BY <5>1, ZenonT(60) DEF BlockOf
        <5> QED BY <5>1, <5>2, <5>3
      <4>6. InUse(heap', live') = InUse(heap, live) \union {b}
        <5>1. {BlockOf(heap', o) : o \in live'} = {BlockOf(heap, o) : o \in live} \union {b}
          BY <4>1, <4>2, ZenonT(60)
        <5> QED BY <5>1, <1>0a, ZenonT(60)
      <4>7. \A x \in InUse(heap, live) : b \intersect x = {}
        <5>1. \A x \in {BlockOf(heap, o) : o \in live} : b \intersect x = {}
          BY <4>2, <4>4, ZenonT(60)
        <5> QED BY <5>1, <1>0a, ZenonT(60)
      <4> HIDE DEF b, p
      <4>8. BA!Alloc(b)
        BY <4>1, <4>6, <4>7, ZenonT(60) DEF BA!Alloc, InUse
      <4>9. Intact /\ Intact'
        BY <3>3a, <4>1, ZenonT(60) DEF Intact
      <4> QED BY <4>5, <4>8, <4>9 DEF BA!Next
    <3> QED BY <3>3, <3>3b, <3>3c, <3>4, <3>5, ZenonT(60)
  <2> QED BY <2>2, <2>3, <2>4, ZenonT(60)
<1>4. ASSUME NEW o \in live, kfree(o[1], o[2]) PROVE [BA!Next]_<<InUse(heap, live), held, Intact>>
  <2>1. Good(heap, live) /\ held' = held - 1 /\ Intact /\ Intact'
    BY <1>2, <1>4, ZenonT(60) DEF kfree, Intact
  <2>2. live' = live \ {o} /\ heap'.object_size = heap.object_size
    BY <2>1, <1>4, FreeKeeps, ZenonT(60)
  <2> DEFINE b == BlockOf(heap, o)
  <2>3. \A x \in live : x # o => BlockOf(heap, x) # b
    <3> SUFFICES ASSUME NEW x \in live, x # o PROVE BlockOf(heap, x) # b
      BY ZenonT(60)
    <3>1. BlockOf(heap, x) \intersect b = {} /\ BlockOf(heap, x) # {}
      BY <1>0, BlocksApart, ZenonT(60)
    <3> QED BY <3>1, ZenonT(60)
  <2>4. \A x \in live' : BlockOf(heap', x) = BlockOf(heap, x)
    BY <2>2, ZenonT(60) DEF BlockOf
  <2>5. InUse(heap', live') = InUse(heap, live) \ {b} /\ b \in InUse(heap, live)
    <3> HIDE DEF b
    <3>1. {BlockOf(heap', x) : x \in live'} = {BlockOf(heap, x) : x \in live} \ {b}
      BY <2>2, <2>3, <2>4, ZenonT(60) DEF b
    <3>2. b \in {BlockOf(heap, x) : x \in live}
      BY ZenonT(60) DEF b
    <3> QED BY <3>1, <3>2, <1>0a, ZenonT(60)
  <2>6. b \in {Block(x, u, ObjSize(c)) : x \in Pages, u \in Slots, c \in Classes}
    <3>1. PICK c \in Classes : \E s \in 0 .. ObjCount(c) - 1 :
                PageOf(heap, c) # NULL /\ o = <<PageOf(heap, c), s>>
      BY <1>0, ZenonT(60) DEF Owned
    <3>2. c \in Served /\ o[1] \in Pages /\ heap.object_size[o[1]] = ObjSize(c)
      <4>1. BagPage(heap, c, PageOf(heap, c)) /\ o[1] = PageOf(heap, c)
        BY <1>0, <3>1 DEF Shape
      <4> QED BY <4>1, ZenonT(60) DEF BagPage
    <3>3. o[2] \in Slots
      BY <3>1, <3>2, Numbers
    <3> QED BY <3>2, <3>3 DEF BlockOf
  <2> HIDE DEF b
  <2>7. BA!Free(b)
    BY <2>1, <2>5, ZenonT(60) DEF BA!Free, InUse
  <2> QED BY <2>1, <2>6, <2>7 DEF BA!Next
<1>5. ASSUME NEW o \in live, use_object(o[1], o[2]) PROVE [BA!Next]_<<InUse(heap, live), held, Intact>>
  <2>1. /\ Good(heap, live) /\ UNCHANGED <<live, held>>
        /\ status = "ok" /\ status' \in {"ok", "spoilt"}
    BY <1>2, <1>5, ZenonT(60) DEF use_object
  <2>2. Kept(heap, heap')
    BY <2>1, <1>5, UseKeeps, ZenonT(60) DEF Kept
  <2>3. CASE Intact'
    <3>1. UNCHANGED Intact
      BY <2>1, <2>3 DEF Intact
    <3> QED BY <1>2a, <2>1, <2>2, <3>1, ZenonT(60)
  <2> QED BY <1>1a, <2>3, ZenonT(60)
<1>6. CASE UNCHANGED vars
  BY <1>1, <1>6, ZenonT(60) DEF vars, Intact
<1> QED BY <1>3, <1>4, <1>5, <1>6, ZenonT(60) DEF Next

\* kmalloc keeps an allocator's promise while the heap is intact: a block it
\* returns overlaps none in use, of its own or of another size, and kfree takes
\* back just its argument.  It ends when a bag without a free object is asked
\* for one, and with a caller that writes beyond a page.
THEOREM ImplementsAllocator == Spec => ImplementsBlockAllocator
<1>1. Init => BA!Init
  <2> SUFFICES ASSUME Init PROVE BA!Init
    BY ZenonT(60)
  <2>1. Intact \in BOOLEAN /\ held = 0
    BY ZenonT(60) DEF Init, Intact
  <2>2. {Block(o[1], o[2], heap.object_size[o[1]]) : o \in live} = {}
    BY ZenonT(60) DEF Init
  <2> QED BY <2>1, <2>2, ZenonT(60) DEF BA!Init
<1>2. IInv /\ IInv' /\ [Next]_vars => [BA!Next]_<<InUse(heap, live), held, Intact>>
  BY StepRefines, ZenonT(60)
<1> QED BY <1>1, <1>2, AlwaysIInv, PTL DEF Spec, ImplementsBlockAllocator, BA!Spec, InUse

=============================================================================
