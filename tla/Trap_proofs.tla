----------------------------- MODULE Trap_proofs -----------------------------
(***************************************************************************)
(* The linked ready queues implement the round-robin policy, on their own  *)
(* and when interrupts, exceptions and kernel calls drive the scheduler;   *)
(* threads do not see each other's registers; and only the memory manager  *)
(* is told the memory map: for any number of threads, priorities and       *)
(* register files and whatever interrupts arrive.  The scheduler's         *)
(* invariant is taken from SchedRR_proofs: a step of the trap paths is a   *)
(* step of the scheduler or none.                                          *)
(***************************************************************************)
EXTENDS Trap, SchedRefinement, SchedRR_proofs

\* Every step below is tried with the SMT solver, unless it names another prover.
USE SMTT(60)

\* Two queues with the same threads at the same places are the same queue.
LEMMA SameQueue ==
  ASSUME NEW T, NEW q \in Seq(T), NEW r \in Seq(T), NEW n, Len(q) = n, Len(r) = n,
         \A i \in 1 .. n : q[i] = r[i]
  PROVE  q = r
OBVIOUS

\* The step of a walk: stay at the head, or follow the link.
Hops(l, p, w) ==
  w = [i \in Nat |-> IF i = 0 THEN l.next[ReadyQueue[p]]
                     ELSE IF w[i - 1] = ReadyQueue[p] THEN ReadyQueue[p] ELSE l.next[w[i - 1]]]

\* The walk is defined wherever some walk exists.
LEMMA HopsDefined ==
  ASSUME NEW l, NEW p, NEW w, Hops(l, p, w)
  PROVE  Hops(l, p, Hop(l, p))
<1> DEFINE g == CHOOSE x :
             x = [i \in Nat |-> IF i = 0 THEN l.next[ReadyQueue[p]]
                                ELSE IF x[i - 1] = ReadyQueue[p] THEN ReadyQueue[p]
                                ELSE l.next[x[i - 1]]]
<1>1. Hops(l, p, g)
  BY ZenonT(60) DEF Hops
<1>2. Hop(l, p) = g
  BY ZenonT(60) DEF Hop
<1> QED BY <1>1, <1>2, ZenonT(60)

\* A walk through q meets its threads in order and then stays at the head.
WalkedAs(l, p, q, n) ==
  \A i \in Nat : Hop(l, p)[i] = IF i < n THEN q[i + 1] ELSE ReadyQueue[p]

LEMMA HopIs ==
  ASSUME NEW l \in Lists, NEW p \in Queues, NEW S \in SUBSET Threads,
         NEW n \in Nat, NEW q \in [1 .. n -> S], RingOf(l, p, q, n, S)
  PROVE  WalkedAs(l, p, q, n)
<1> DEFINE head == ReadyQueue[p]
           at(i) == IF i < n THEN q[i + 1] ELSE head
           w == [i \in Nat |-> at(i)]
           hop == Hop(l, p)
<1>1. RingFacts(p, q, n, S)
  BY RingNodes, ZenonT(60)
<1>2. /\ \A i \in 1 .. n : q[i] # head
      /\ l.next[head] = at(0)
      /\ \A i \in Nat \ {0} : i - 1 < n => l.next[q[i]] = at(i)
  <2>1. \A i \in 0 .. n : l.next[RingNode(p, q, n, i)] = RingNode(p, q, n, i + 1)
    BY ZenonT(60) DEF RingOf, LinkedAs
  <2>2. \A i \in 1 .. n : RingNode(p, q, n, i) = q[i] /\ q[i] # head
    BY <1>1, ZenonT(60) DEF RingFacts
  <2>3. RingNode(p, q, n, 0) = head /\ RingNode(p, q, n, n + 1) = head
    BY <1>1, ZenonT(60) DEF RingFacts
  <2>4. \A i \in 0 .. n : RingNode(p, q, n, i + 1) = at(i)
    BY <2>2, <2>3
  <2>5. \A i \in 0 .. n : l.next[RingNode(p, q, n, i)] = at(i)
    BY <2>1, <2>4, ZenonT(60)
  <2>6. l.next[head] = at(0)
    <3>1. 0 \in 0 .. n
      OBVIOUS
    <3> QED BY <3>1, <2>3, <2>5, ZenonT(60)
  <2>7. ASSUME NEW i \in Nat \ {0}, i - 1 < n PROVE l.next[q[i]] = at(i)
    <3>1. i \in 1 .. n /\ i \in 0 .. n
      BY <2>7
    <3> QED BY <3>1, <2>2, <2>5, ZenonT(60)
  <2> QED BY <2>2, <2>6, <2>7, ZenonT(60)
<1>3. Hops(l, p, w)
  <2>1. ASSUME NEW i \in Nat
        PROVE  w[i] = IF i = 0 THEN l.next[head]
                      ELSE IF w[i - 1] = head THEN head ELSE l.next[w[i - 1]]
    <3>1. CASE i = 0
      BY <3>1, <1>2, ZenonT(60)
    <3>2. CASE i # 0 /\ i - 1 < n
      <4>1. i \in 1 .. n /\ i - 1 \in Nat
        BY <3>2
      <4>2. w[i - 1] = q[i] /\ q[i] # head
        BY <4>1, <3>2, <1>2
      <4> QED BY <4>1, <4>2, <3>2, <1>2, ZenonT(60)
    <3>3. CASE i # 0 /\ ~ (i - 1 < n)
      <4>1. i - 1 \in Nat /\ ~ (i < n)
        BY <3>3
      <4> QED BY <4>1, <3>3, ZenonT(60)
    <3> QED BY <3>1, <3>2, <3>3, ZenonT(60)
  <2> HIDE DEF at
  <2> QED BY <2>1, ZenonT(60) DEF Hops
<1>4. Hops(l, p, hop)
  BY <1>3, HopsDefined, ZenonT(60)
<1>5. \A i \in Nat : hop[i] = IF i = 0 THEN l.next[head]
                              ELSE IF hop[i - 1] = head THEN head ELSE l.next[hop[i - 1]]
  BY <1>4, ZenonT(60) DEF Hops
<1>6. \A i \in Nat : w[i] = IF i = 0 THEN l.next[head]
                            ELSE IF w[i - 1] = head THEN head ELSE l.next[w[i - 1]]
  BY <1>3, ZenonT(60) DEF Hops
<1> DEFINE Bad == {i \in Nat : hop[i] # w[i]}
<1>7. Bad = {}
  <2> SUFFICES ASSUME Bad # {} PROVE FALSE
    BY ZenonT(60)
  <2> HIDE DEF w, hop, head
  <2>1. PICK i \in Bad : \A j \in Bad : i <= j
    BY LeastQueue, ZenonT(60)
  <2>2. i # 0
    BY <1>5, <1>6, <2>1, ZenonT(60)
  <2>3. i - 1 \in Nat /\ i - 1 \notin Bad
    BY <2>1, <2>2
  <2>4. hop[i - 1] = w[i - 1]
    BY <2>3, ZenonT(60)
  <2> QED BY <1>5, <1>6, <2>1, <2>2, <2>4, ZenonT(60)
<1> QED BY <1>7, ZenonT(60) DEF WalkedAs

\* The threads linked in a queue are the order of its ring.
LEMMA WalkIs ==
  ASSUME NEW l \in Lists, NEW p \in Queues, NEW S \in SUBSET Threads,
         NEW n \in Nat, NEW q \in [1 .. n -> S], RingOf(l, p, q, n, S),
         n = Cardinality(S)
  PROVE  Walk(l, p) = q
<1> DEFINE head == ReadyQueue[p]
           hop == Hop(l, p)
           back == {i \in 0 .. Cardinality(Threads) : hop[i] = head}
           m == CHOOSE i \in back : \A j \in back : i <= j
<1>1. \A i \in Nat : hop[i] = IF i < n THEN q[i + 1] ELSE head
  <2>1. WalkedAs(l, p, q, n)
    BY HopIs, ZenonT(60)
  <2> QED BY <2>1, ZenonT(60) DEF WalkedAs
<1>2. \A i \in 1 .. n : q[i] # head
  <2>1. RingFacts(p, q, n, S)
    BY RingNodes, ZenonT(60)
  <2> QED BY <2>1, ZenonT(60) DEF RingFacts
<1>3. Cardinality(Threads) \in Nat /\ n <= Cardinality(Threads)
  BY NodesAssumption, FS_Subset, FS_CardinalityType, ZenonT(60)
<1> HIDE DEF hop, head
<1>4. n \in back /\ \A i \in back : n <= i
  <2>1. n \in back
    BY <1>1, <1>3
  <2>2. ASSUME NEW i \in back, i < n PROVE FALSE
    <3>1. i \in Nat /\ i + 1 \in 1 .. n
      BY <1>3, <2>2
    <3>2. hop[i] = q[i + 1] /\ hop[i] = head
      BY <1>1, <2>2, <3>1, ZenonT(60)
    <3> QED BY <1>2, <3>1, <3>2, ZenonT(60)
  <2> QED BY <2>1, <2>2, <1>3
<1>5. m = n
  <2>1. back \subseteq Nat
    BY <1>3
  <2> HIDE DEF back
  <2>2. \E i \in back : \A j \in back : i <= j
    BY <1>4, ZenonT(60)
  <2>3. m \in back /\ \A j \in back : m <= j
    BY <2>2, ZenonT(60)
  <2> HIDE DEF m
  <2>4. m \in Nat /\ m <= n /\ n <= m
    BY <1>4, <2>1, <2>3, ZenonT(60)
  <2> QED BY <2>4
<1>6. Walk(l, p) = [i \in 1 .. n |-> hop[i - 1]]
  BY <1>4, <1>5, ZenonT(60) DEF Walk, hop, head
<1>7. \A i \in 1 .. n : hop[i - 1] = q[i]
  BY <1>1
<1> QED BY <1>6, <1>7, ZenonT(60)

\* Rings, with the walk as the order of each.
LEMMA WalkRing ==
  ASSUME NEW l, NEW W, Rings(l, W), NEW p \in Queues
  PROVE  /\ l \in Lists /\ W[p] \in SUBSET Threads /\ Cardinality(W[p]) \in Nat
         /\ Walk(l, p) \in [1 .. Cardinality(W[p]) -> W[p]]
         /\ RingOf(l, p, Walk(l, p), Cardinality(W[p]), W[p])
<1> DEFINE n == Cardinality(W[p])
<1>1. l \in Lists /\ W[p] \in SUBSET Threads
  BY ZenonT(60) DEF Rings
<1>2. n \in Nat
  BY <1>1, QueueLength, ZenonT(60)
<1>3. PICK q \in [1 .. n -> W[p]] : RingOf(l, p, q, n, W[p])
  BY ZenonT(60) DEF Rings
<1>4. Walk(l, p) = q
  BY <1>1, <1>2, <1>3, WalkIs, ZenonT(60)
<1> QED BY <1>1, <1>2, <1>3, <1>4, ZenonT(60)

\* What is read off a queue: a sequence of exactly its threads.
LEMMA WalkSeq ==
  ASSUME NEW l, NEW W, Rings(l, W), NEW p \in Queues
  PROVE  /\ Walk(l, p) \in Seq(Threads) /\ Len(Walk(l, p)) = Cardinality(W[p])
         /\ \A i \in 1 .. Len(Walk(l, p)) : Walk(l, p)[i] \in W[p]
         /\ Walk(l, p) = << >> <=> W[p] = {}
<1> DEFINE n == Cardinality(W[p])
           q == Walk(l, p)
<1>1. /\ W[p] \in SUBSET Threads /\ n \in Nat /\ q \in [1 .. n -> W[p]]
      /\ \A t \in W[p] : \E i \in 1 .. n : q[i] = t
  BY WalkRing DEF RingOf, IsOrder
<1> HIDE DEF n, q
<1>2. q \in Seq(W[p]) /\ q \in Seq(Threads) /\ Len(q) = n
  BY <1>1
<1>3. ASSUME q = << >> PROVE W[p] = {}
  BY <1>1, <1>2, <1>3
<1>4. ASSUME W[p] = {} PROVE q = << >>
  <2>1. n = 0
    BY <1>1, <1>4
  <2> QED BY <1>2, <2>1
<1> QED BY <1>1, <1>2, <1>3, <1>4, ZenonT(60) DEF n, q

\* list_add at the end of the ready queue of a priority.
AddedLast(l, t, p) == list_add(l, t, l.prev[ReadyQueue[p]])

\* rr_move_to_ready appends to one queue.
LEMMA WalkAdd ==
  ASSUME NEW l, NEW W, Rings(l, W), NEW p \in Queues,
         NEW t \in Threads, \A o \in Queues : t \notin W[o]
  PROVE  /\ Walk(AddedLast(l, t, p), p) = Append(Walk(l, p), t)
         /\ \A o \in Queues \ {p} : Walk(AddedLast(l, t, p), o) = Walk(l, o)
<1> DEFINE m == list_add(l, t, l.prev[ReadyQueue[p]])
           n == Cardinality(W[p])
           q == Walk(l, p)
           r == [i \in 1 .. n + 1 |-> IF i = n + 1 THEN t ELSE q[i]]
<1>1. /\ l \in Lists /\ W[p] \in SUBSET Threads /\ n \in Nat
      /\ q \in [1 .. n -> W[p]] /\ RingOf(l, p, q, n, W[p])
  BY WalkRing, ZenonT(60)
<1>2. m \in Lists /\ RingOf(m, p, r, n + 1, W[p] \union {t})
  BY <1>1, AddLast, ZenonT(60)
<1>3. Cardinality(W[p] \union {t}) = n + 1
  BY <1>1, QueueLength, ZenonT(60)
<1> HIDE DEF m, n, q
<1>4. r \in [1 .. n + 1 -> W[p] \union {t}] /\ W[p] \union {t} \in SUBSET Threads
  BY <1>1
<1>5. Walk(m, p) = r
  <2>1. n + 1 \in Nat
    BY <1>1
  <2> HIDE DEF r
  <2> QED BY <2>1, <1>2, <1>3, <1>4, WalkIs, ZenonT(60)
<1>6. r = Append(q, t)
  <2>1. q \in Seq(Threads) /\ Len(q) = n
    BY <1>1
  <2>2. /\ Append(q, t) \in Seq(Threads) /\ Len(Append(q, t)) = n + 1
        /\ \A i \in 1 .. n : Append(q, t)[i] = q[i]
        /\ Append(q, t)[n + 1] = t
    BY <1>1, <2>1
  <2>3. r \in Seq(Threads) /\ Len(r) = n + 1 /\ \A i \in 1 .. n + 1 : r[i] = Append(q, t)[i]
    BY <1>1, <1>4, <2>2
  <2> QED BY <2>2, <2>3, SameQueue, ZenonT(60)
<1>7. ASSUME NEW o \in Queues \ {p} PROVE Walk(m, o) = Walk(l, o)
  <2> DEFINE k == Cardinality(W[o])
             s == Walk(l, o)
  <2>1. /\ W[o] \in SUBSET Threads /\ k \in Nat
        /\ s \in [1 .. k -> W[o]] /\ RingOf(l, o, s, k, W[o])
    BY WalkRing, ZenonT(60)
  <2>2. W[p] \intersect W[o] = {} /\ t \notin W[p] /\ t \notin W[o]
    BY ZenonT(60) DEF Rings
  <2>3. RingOf(m, o, s, k, W[o])
    BY <1>1, <2>1, <2>2, AddOther, ZenonT(60) DEF m
  <2> HIDE DEF k, s
  <2>4. Walk(m, o) = s
    BY <1>2, <2>1, <2>3, WalkIs, ZenonT(60) DEF k
  <2> QED BY <2>4, ZenonT(60) DEF s
<1> QED BY <1>5, <1>6, <1>7, ZenonT(60) DEF m, q, AddedLast

\* list_next takes the first thread of one queue.
LEMMA WalkRemove ==
  ASSUME NEW l, NEW W, Rings(l, W), NEW p \in Queues, W[p] # {}
  PROVE  LET f == l.next[ReadyQueue[p]]
             m == list_remove(l, f)
         IN /\ f = Head(Walk(l, p))
            /\ Walk(m, p) = Tail(Walk(l, p))
            /\ \A o \in Queues \ {p} : Walk(m, o) = Walk(l, o)
<1> DEFINE f == l.next[ReadyQueue[p]]
           m == list_remove(l, f)
           n == Cardinality(W[p])
           q == Walk(l, p)
           r == [i \in 1 .. n - 1 |-> q[i + 1]]
<1>1. /\ l \in Lists /\ W[p] \in SUBSET Threads /\ n \in Nat
      /\ q \in [1 .. n -> W[p]] /\ RingOf(l, p, q, n, W[p])
  BY WalkRing, ZenonT(60)
<1>2. f \in W[p] /\ n > 0 /\ m \in Lists /\ RingOf(m, p, r, n - 1, W[p] \ {f})
  BY <1>1, RemoveFirst, ZenonT(60)
<1>3. f = q[1]
  <2>1. RemoveEffect(l, p, q, n, W[p])
    BY <1>1, RemoveWrites, ZenonT(60)
  <2> QED BY <2>1, ZenonT(60) DEF RemoveEffect
<1>4. Cardinality(W[p] \ {f}) = n - 1
  BY <1>1, <1>2, QueueLength, ZenonT(60)
<1> HIDE DEF f, m, n, q, r
<1>5. /\ r \in [1 .. n - 1 -> W[p] \ {f}] /\ W[p] \ {f} \in SUBSET Threads
      /\ n - 1 \in Nat
  BY <1>1, <1>2, ZenonT(60) DEF RingOf
<1>6. Walk(m, p) = r
  BY <1>2, <1>4, <1>5, WalkIs, ZenonT(60)
<1>7. Head(q) = f /\ Tail(q) = r
  <2>1. q \in Seq(Threads) /\ Len(q) = n /\ q # << >>
    BY <1>1, <1>2
  <2>2. r \in Seq(Threads) /\ Len(r) = n - 1
    BY <1>5
  <2>3. /\ Head(q) = q[1] /\ Tail(q) \in Seq(Threads) /\ Len(Tail(q)) = n - 1
        /\ \A i \in 1 .. n - 1 : Tail(q)[i] = q[i + 1]
    BY <2>1
  <2>4. \A i \in 1 .. n - 1 : Tail(q)[i] = r[i]
    BY <2>3, ZenonT(60) DEF r
  <2>5. Tail(q) = r
    BY ONLY <2>2, <2>3, <2>4
  <2> QED BY <1>3, <2>3, <2>5, ZenonT(60)
<1>8. ASSUME NEW o \in Queues \ {p} PROVE Walk(m, o) = Walk(l, o)
  <2> DEFINE k == Cardinality(W[o])
             s == Walk(l, o)
  <2>1. /\ W[o] \in SUBSET Threads /\ k \in Nat
        /\ s \in [1 .. k -> W[o]] /\ RingOf(l, o, s, k, W[o])
    BY WalkRing, ZenonT(60)
  <2>2. W[p] \intersect W[o] = {}
    BY ZenonT(60) DEF Rings
  <2>3. RingOf(m, o, s, k, W[o])
    BY <1>1, <2>1, <2>2, RemoveOther, ZenonT(60) DEF m, f
  <2> HIDE DEF k, s
  <2>4. Walk(m, o) = s
    BY <1>2, <2>1, <2>3, WalkIs, ZenonT(60) DEF k
  <2> QED BY <2>4, ZenonT(60) DEF s
<1> QED BY <1>6, <1>7, <1>8, ZenonT(60) DEF m, q, f

\* rr_get_next_ready dispatches the head of the most urgent queue.
LEMMA WalkNext ==
  ASSUME NEW l, NEW W, Rings(l, W), \E p \in Queues : W[p] # {}
  PROVE  LET q == [p \in Queues |-> Walk(l, p)]
         IN /\ \E p \in Queues : q[p] # << >>
            /\ RR!Urgent(q) \in Queues
            /\ rr_get_next_ready(l) = Head(q[RR!Urgent(q)])
            /\ [p \in Queues |-> Walk(AfterNextReady(l), p)]
                 = [q EXCEPT ![RR!Urgent(q)] = Tail(@)]
<1> DEFINE q == [p \in Queues |-> Walk(l, p)]
           u == CHOOSE x \in NonEmpty(l) : \A y \in NonEmpty(l) : x <= y
           v == RR!Urgent(q)
<1>1. \A p \in Queues : q[p] = Walk(l, p) /\ (q[p] # << >> <=> W[p] # {})
  BY WalkSeq, ZenonT(60)
<1>2. \A p \in Queues : list_is_empty(l, ReadyQueue[p]) <=> W[p] = {}
  <2> TAKE p \in Queues
  <2>1. /\ l \in Lists /\ W[p] \in SUBSET Threads /\ Cardinality(W[p]) \in Nat
        /\ Walk(l, p) \in [1 .. Cardinality(W[p]) -> W[p]]
        /\ RingOf(l, p, Walk(l, p), Cardinality(W[p]), W[p])
    BY WalkRing, ZenonT(60)
  <2> QED BY <2>1, EmptyRing, ZenonT(60)
<1> HIDE DEF q
<1>3. /\ NonEmpty(l) = {p \in Queues : q[p] # << >>} /\ NonEmpty(l) # {}
      /\ NonEmpty(l) \in SUBSET Nat /\ NonEmpty(l) \subseteq Queues
  BY <1>1, <1>2, NodesAssumption DEF NonEmpty, Queues
<1>4. \E x \in NonEmpty(l) : \A y \in NonEmpty(l) : x <= y
  BY <1>3, LeastQueue, ZenonT(60)
<1>5. u \in NonEmpty(l) /\ \A y \in NonEmpty(l) : u <= y
  BY <1>4, ZenonT(60)
<1>6. v \in NonEmpty(l) /\ \A y \in NonEmpty(l) : v <= y
  <2>1. v = CHOOSE p \in Queues : q[p] # << >> /\ \A o \in Queues : q[o] # << >> => p <= o
    BY ZenonT(60) DEF RR!Urgent, RR!Queues, Queues
  <2>2. \E p \in Queues : q[p] # << >> /\ \A o \in Queues : q[o] # << >> => p <= o
    BY <1>3, <1>4, ZenonT(60)
  <2> HIDE DEF v
  <2>3. v \in Queues /\ q[v] # << >> /\ \A o \in Queues : q[o] # << >> => v <= o
    BY <2>1, <2>2, ZenonT(60)
  <2> QED BY <1>3, <2>3, ZenonT(60)
<1> HIDE DEF u, v
<1>7. u = v
  <2>1. u \in Nat /\ v \in Nat /\ u <= v /\ v <= u
    BY <1>3, <1>5, <1>6, ZenonT(60)
  <2> QED BY <2>1
<1>8. rr_get_next_ready(l) = l.next[ReadyQueue[v]]
  BY <1>3, <1>7, ZenonT(60) DEF rr_get_next_ready, u
<1>9. AfterNextReady(l) = list_remove(l, l.next[ReadyQueue[v]])
  BY <1>3, <1>8, ZenonT(60) DEF AfterNextReady
<1>10. v \in Queues /\ W[v] # {} /\ q[v] # << >>
  BY <1>1, <1>3, <1>6, ZenonT(60)
<1>11. /\ l.next[ReadyQueue[v]] = Head(Walk(l, v))
       /\ Walk(AfterNextReady(l), v) = Tail(Walk(l, v))
       /\ \A o \in Queues \ {v} : Walk(AfterNextReady(l), o) = Walk(l, o)
  BY <1>9, <1>10, WalkRemove
<1>12. [p \in Queues |-> Walk(AfterNextReady(l), p)] = [q EXCEPT ![v] = Tail(@)]
  <2>1. \A p \in Queues : Walk(AfterNextReady(l), p) = [q EXCEPT ![v] = Tail(@)][p]
    BY <1>1, <1>10, <1>11, ZenonT(60) DEF q
  <2> QED BY <2>1, ZenonT(60) DEF q
<1>13. rr_get_next_ready(l) = Head(q[v])
  BY <1>1, <1>8, <1>10, <1>11, ZenonT(60)
<1> QED BY <1>10, <1>12, <1>13, ZenonT(60) DEF q, v

-----------------------------------------------------------------------------
(* The steps *)

\* Priorities as the policy sees them.
Prio == [t \in Threads |-> sched_ctx[t].priority]

\* rr_move_to_ready, as the policy sees it.
LEMMA ReadyAppend ==
  ASSUME Inv, rr_pc # "off", NEW t \in Threads,
         \A o \in Queues : t \notin Waiting(o)
  PROVE  /\ Prio[t] \in Queues /\ Prio[t] = sched_ctx[t].priority
         /\ [p \in Queues |-> Walk(ToReadyList(list, t), p)]
              = [ReadyQueues EXCEPT ![Prio[t]] = Append(@, t)]
         /\ Rings(ToReadyList(list, t),
                  [[p \in Queues |-> Waiting(p)] EXCEPT ![Prio[t]] = @ \union {t}])
<1> DEFINE W == [p \in Queues |-> Waiting(p)]
           m == ToReadyList(list, t)
           k == Prio[t]
<1>1. Rings(list, W)
  BY SoundRings, ZenonT(60) DEF Inv, SoundIsRings
<1>2. k \in Queues /\ k = sched_ctx[t].priority
  BY ZenonT(60) DEF Inv, TypeOK, SchedCtx, Prio
<1>3. m = list_add(list, t, list.prev[ReadyQueue[k]])
  BY <1>2, ZenonT(60) DEF ToReadyList
<1>4. \A o \in Queues : t \notin W[o]
  BY ZenonT(60)
<1> HIDE DEF m, k, W
<1>5. /\ Walk(m, k) = Append(Walk(list, k), t)
      /\ \A o \in Queues \ {k} : Walk(m, o) = Walk(list, o)
  <2>1. m = AddedLast(list, t, k)
    BY <1>3, ZenonT(60) DEF AddedLast
  <2>2. /\ Walk(AddedLast(list, t, k), k) = Append(Walk(list, k), t)
        /\ \A o \in Queues \ {k} : Walk(AddedLast(list, t, k), o) = Walk(list, o)
    BY <1>1, <1>2, <1>4, WalkAdd
  <2> QED BY <2>1, <2>2, ZenonT(60)
<1>6. Rings(m, [W EXCEPT ![k] = @ \union {t}])
  BY <1>1, <1>2, <1>3, <1>4, RingsAdd, ZenonT(60)
<1>7. ReadyQueues = [p \in Queues |-> Walk(list, p)]
  BY ZenonT(60) DEF ReadyQueues
<1>8. [p \in Queues |-> Walk(m, p)] = [ReadyQueues EXCEPT ![k] = Append(@, t)]
  <2>1. \A p \in Queues : Walk(m, p) = [ReadyQueues EXCEPT ![k] = Append(@, t)][p]
    BY <1>2, <1>5, <1>7, ZenonT(60)
  <2> QED BY <1>7, <2>1, ZenonT(60)
<1> QED BY <1>2, <1>6, <1>8, ZenonT(60) DEF m, k, W

\* The initial states of the scheduler are initial states of the policy.
LEMMA InitRefines == Init => RR!Init
<1> SUFFICES ASSUME Init PROVE RR!Init
  BY ZenonT(60)
<1>1. Prio \in [Threads -> Queues]
  BY TimeAssumption, ZenonT(60) DEF Init, Prio
<1>2. ReadyQueues = [p \in Queues |-> << >>]
  BY ZenonT(60) DEF Init, ReadyQueues
<1> QED BY <1>1, <1>2, ZenonT(60) DEF RR!Init, RR!Queues, Queues, Prio, Init

\* LIST_HEAD_INIT: the queues stay empty.
LEMMA QueuesRefines ==
  ASSUME Inv, Inv', rr_init_queues
  PROVE  UNCHANGED <<Prio, ReadyQueues, current_thread>>
<1>1. /\ rr_pc = "off" /\ rr_pc' = "enqueue" /\ enqueued' = 0
      /\ UNCHANGED <<sched_ctx, current_thread>>
  BY ZenonT(60) DEF Inv, Progress, rr_init_queues
<1>2. Rings(list', [p \in Queues |-> Waiting(p)'])
  BY <1>1, SoundRingsNext, ZenonT(60) DEF Inv, SoundIsRings
<1>3. \A p \in Queues : Waiting(p)' = {}
  BY <1>1 DEF Waiting
<1> DEFINE W == [p \in Queues |-> Waiting(p)']
<1>4. \A p \in Queues : W[p] = {}
  BY <1>3, ZenonT(60)
<1> HIDE DEF W
<1>5. \A p \in Queues : Walk(list', p) = << >>
  BY <1>2, <1>4, WalkSeq, ZenonT(60) DEF W
<1>6. ReadyQueues' = [p \in Queues |-> << >>] /\ ReadyQueues = [p \in Queues |-> << >>]
  BY <1>1, <1>5, ZenonT(60) DEF ReadyQueues
<1> QED BY <1>1, <1>6, ZenonT(60) DEF Prio

\* rr_enqueue admits a thread.
LEMMA EnqueueRefines ==
  ASSUME Inv, rr_init_enqueue
  PROVE  \E t \in Threads : RR!Admit(t)
<1> DEFINE t == Tasks[enqueued + 1]
<1>1. /\ TypeOK /\ rr_pc = "enqueue" /\ rr_pc' = "enqueue" /\ current_thread = NULL
      /\ current_thread' = NULL /\ sched_ctx \in [Threads -> SchedCtx]
      /\ enqueued \in 0 .. no_tasks /\ enqueued < no_tasks /\ no_tasks \in 1 .. Len(Tasks)
  BY ZenonT(60) DEF Inv, TypeOK, rr_init_enqueue
<1>2. enqueued + 1 \in 1 .. Len(Tasks) /\ Len(Tasks) \in Nat /\ t \in Threads
  BY <1>1, TasksAssumption
<1>3. list' = ToReadyList(list, t) /\ Prio' = Prio
  BY <1>1, <1>2, ZenonT(60) DEF rr_init_enqueue, ToReadyCtx, SchedCtx, Prio
<1>4. \A o \in Queues : t \notin Waiting(o)
  BY <1>1, <1>2, TasksAssumption DEF Waiting
<1> HIDE DEF t
<1>5. ReadyQueues' = [ReadyQueues EXCEPT ![Prio[t]] = Append(@, t)]
  <2>1. ReadyQueues' = [p \in Queues |-> Walk(list', p)]
    BY <1>1, ZenonT(60) DEF ReadyQueues
  <2> QED BY <1>1, <1>2, <1>3, <1>4, <2>1, ReadyAppend, ZenonT(60)
<1>6. ~ RR!Waiting(t)
  <2> DEFINE W == [p \in Queues |-> Waiting(p)]
  <2>1. Rings(list, W) /\ \A p \in Queues : ReadyQueues[p] = Walk(list, p)
    BY <1>1, SoundRings, ZenonT(60) DEF Inv, SoundIsRings, ReadyQueues
  <2>2. \A p \in Queues : W[p] = Waiting(p)
    BY ZenonT(60)
  <2> HIDE DEF W
  <2>3. ASSUME NEW p \in Queues, NEW i \in DOMAIN ReadyQueues[p], ReadyQueues[p][i] = t
        PROVE  FALSE
    <3>1. /\ Walk(list, p) \in Seq(Threads)
          /\ \A j \in 1 .. Len(Walk(list, p)) : Walk(list, p)[j] \in W[p]
      BY <2>1, WalkSeq, ZenonT(60)
    <3>2. i \in 1 .. Len(Walk(list, p)) /\ Walk(list, p)[i] = t
      BY <2>1, <2>3, <3>1
    <3> QED BY <1>4, <2>2, <3>1, <3>2, ZenonT(60)
  <2> QED BY <2>3, ZenonT(60) DEF RR!Waiting, RR!Queues, Queues
<1>7. RR!Admit(t)
  BY <1>1, <1>3, <1>5, <1>6, ZenonT(60) DEF RR!Admit, Prio
<1> QED BY <1>2, <1>7, ZenonT(60)

\* Taking the next thread from the links l is a dispatch from their queues.
LEMMA DispatchRefines ==
  ASSUME NEW l, NEW W, Rings(l, W), \E p \in Queues : W[p] # {},
         current_thread' = rr_get_next_ready(l), list' = AfterNextReady(l),
         rr_pc' = "run", Prio' = Prio
  PROVE  RR!Dispatch([p \in Queues |-> Walk(l, p)])
<1> DEFINE q == [p \in Queues |-> Walk(l, p)]
<1>1. /\ \E p \in Queues : q[p] # << >>
      /\ rr_get_next_ready(l) = Head(q[RR!Urgent(q)])
      /\ [p \in Queues |-> Walk(AfterNextReady(l), p)] = [q EXCEPT ![RR!Urgent(q)] = Tail(@)]
  BY WalkNext, ZenonT(60)
<1>2. ReadyQueues' = [p \in Queues |-> Walk(AfterNextReady(l), p)]
  BY ZenonT(60) DEF ReadyQueues
<1> HIDE DEF q
<1> QED BY <1>1, <1>2, ZenonT(60) DEF RR!Dispatch, RR!Queues, Queues, Prio, q

\* The end of rr_init starts the first thread.
LEMMA SelectRefines ==
  ASSUME Inv, rr_init_select
  PROVE  RR!Start
<1> DEFINE W == [p \in Queues |-> Waiting(p)]
<1>1. /\ TypeOK /\ rr_pc = "enqueue" /\ rr_pc' = "run" /\ current_thread = NULL
      /\ enqueued = no_tasks /\ no_tasks \in 1 .. Len(Tasks)
      /\ sched_ctx' = sched_ctx /\ sched_ctx \in [Threads -> SchedCtx]
      /\ current_thread' = rr_get_next_ready(list) /\ list' = AfterNextReady(list)
  BY ZenonT(60) DEF Inv, TypeOK, rr_init_select
<1>2. Rings(list, W)
  BY <1>1, SoundRings, ZenonT(60) DEF Inv, SoundIsRings
<1>3. \E p \in Queues : W[p] # {}
  <2>1. 1 \in 1 .. enqueued /\ Tasks[1] \in Threads /\ NULL \notin Threads
    BY <1>1, TasksAssumption, NodesAssumption DEF Nodes
  <2>2. sched_ctx[Tasks[1]].priority \in Queues
    BY <1>1, <2>1, ZenonT(60) DEF SchedCtx
  <2>3. Tasks[1] \in Waiting(sched_ctx[Tasks[1]].priority)
    BY <1>1, <2>1, ZenonT(60) DEF Waiting
  <2> QED BY <2>2, <2>3, ZenonT(60)
<1>4. Prio' = Prio
  BY <1>1, ZenonT(60) DEF Prio
<1> HIDE DEF W
<1>5. RR!Dispatch([p \in Queues |-> Walk(list, p)])
  BY <1>1, <1>2, <1>3, <1>4, DispatchRefines, ZenonT(60)
<1>6. ReadyQueues = [p \in Queues |-> Walk(list, p)]
  BY <1>1, ZenonT(60) DEF ReadyQueues
<1> QED BY <1>1, <1>5, <1>6, ZenonT(60) DEF RR!Start

\* A tick is a preemption when the quantum is over, and nothing otherwise.
LEMMA TickRefines ==
  ASSUME Inv, rr_tick_handler
  PROVE  RR!Preempt \/ UNCHANGED <<Prio, ReadyQueues, current_thread>>
<1> DEFINE t == current_thread
           left == time_sub_nsec(sched_ctx[t].quantum_nsec, TickNsec)
           ctx == [sched_ctx EXCEPT ![t].quantum_nsec = left]
           W == [p \in Queues |-> Waiting(p)]
<1>1. /\ TypeOK /\ rr_pc = "run" /\ rr_pc' = "run" /\ t \in Threads /\ t # NULL
      /\ sched_ctx \in [Threads -> SchedCtx] /\ rr_schedule(ctx)
  BY ZenonT(60) DEF Inv, TypeOK, rr_tick_handler, initVars
<1> HIDE DEF left
<1>2. \A u \in Threads : ctx[u].priority = sched_ctx[u].priority
  BY <1>1, ZenonT(60) DEF SchedCtx
<1>3. ctx \in [Threads -> [priority : Queues, state : {"NONE", "READY"}, quantum_nsec : Nat \union {left}]]
  BY <1>1, ZenonT(60) DEF SchedCtx
<1> HIDE DEF ctx
<1>4. CASE ctx[t].quantum_nsec # 0
  <2>1. sched_ctx' = ctx /\ UNCHANGED <<list, current_thread>>
    BY <1>1, <1>4, ZenonT(60) DEF rr_schedule
  <2>2. Prio' = Prio
    BY <1>2, <2>1, ZenonT(60) DEF Prio
  <2>3. ReadyQueues' = ReadyQueues
    BY <1>1, <2>1, ZenonT(60) DEF ReadyQueues
  <2> QED BY <2>1, <2>2, <2>3, ZenonT(60)
<1>5. CASE ctx[t].quantum_nsec = 0
  <2> DEFINE m == ToReadyList(list, t)
             V == [W EXCEPT ![Prio[t]] = @ \union {t}]
  <2>1. /\ sched_ctx' = ToReadyCtx(ctx, t) /\ list' = AfterNextReady(m)
        /\ current_thread' = rr_get_next_ready(m)
    BY <1>1, <1>5, ZenonT(60) DEF rr_schedule
  <2>2. Prio' = Prio
    <3>1. \A u \in Threads : sched_ctx'[u].priority = ctx[u].priority
      BY <1>1, <1>3, <2>1, ZenonT(60) DEF ToReadyCtx
    <3> QED BY <1>2, <3>1, ZenonT(60) DEF Prio
  <2>3. \A o \in Queues : t \notin Waiting(o)
    BY ZenonT(60) DEF Waiting
  <2>4. /\ Prio[t] \in Queues
        /\ [p \in Queues |-> Walk(m, p)] = [ReadyQueues EXCEPT ![Prio[t]] = Append(@, t)]
        /\ Rings(m, V)
    BY <1>1, <2>3, ReadyAppend, ZenonT(60)
  <2>5. \E p \in Queues : V[p] # {}
    BY <2>4, ZenonT(60)
  <2> HIDE DEF m, V
  <2>6. RR!Dispatch([p \in Queues |-> Walk(m, p)])
    BY <1>1, <2>1, <2>2, <2>4, <2>5, DispatchRefines, ZenonT(60)
  <2>7. RR!Dispatch([ReadyQueues EXCEPT ![Prio[t]] = Append(@, t)])
    BY <2>4, <2>6, ZenonT(60)
  <2> QED BY <1>1, <2>7, ZenonT(60) DEF RR!Preempt, Prio
<1> QED BY <1>4, <1>5, ZenonT(60)

-----------------------------------------------------------------------------
LEMMA PolicyStep == Inv /\ Inv' /\ [Next]_schedVars => [RR!Next]_(RR!rrVars)
<1> SUFFICES ASSUME Inv, Inv', [Next]_schedVars PROVE [RR!Next]_(RR!rrVars)
  BY ZenonT(60)
<1>1. CASE rr_init_queues
  BY <1>1, QueuesRefines, ZenonT(60) DEF RR!rrVars, Prio
<1>2. CASE rr_init_enqueue
  BY <1>2, EnqueueRefines, ZenonT(60) DEF RR!Next
<1>3. CASE rr_init_select
  BY <1>3, SelectRefines, ZenonT(60) DEF RR!Next
<1>4. CASE rr_tick_handler
  BY <1>4, TickRefines, ZenonT(60) DEF RR!Next, RR!rrVars, Prio
<1>5. CASE UNCHANGED schedVars
  <2>1. UNCHANGED <<Prio, ReadyQueues, current_thread>>
    BY <1>5, ZenonT(60) DEF schedVars, initVars, Prio, ReadyQueues
  <2> QED BY <2>1, ZenonT(60) DEF RR!rrVars, Prio
<1> QED BY <1>1, <1>2, <1>3, <1>4, <1>5, ZenonT(60) DEF Next, rr_init

\* The linked ready queues implement the round-robin policy: every step of
\* rr_init and rr_tick_handler is a step of the policy or changes nothing it
\* speaks of, for any number of threads, queues and priorities.
THEOREM ImplementsPolicy == Spec => ImplementsRoundRobin
BY PolicyStep, InitRefines, Invariance, PTL DEF Spec, ImplementsRoundRobin, RR!Spec

-----------------------------------------------------------------------------
(* Ways into the kernel *)

\* The registers of a thread, running or not, hold its own values.
Owns ==
  /\ mode = "user" => \A r \in Regs : regs[r] \in Owned(current_thread)
  /\ \A t \in Threads : \A r \in Regs : saved[t][r] \in Owned(t)

IInv == Inv /\ TrapTypeOK /\ Owns /\ OnlyMmanInformed

\* Without other devices and dropped interrupts.
Quiet == ~ SpuriousPossible /\ DeviceLines = {}

\* Only the timer asks for an interrupt, none is in service, and a thread that
\* does not run finds its registers in its context.
QInv ==
  /\ pic.irr \subseteq {0} /\ pic.isr = {}
  /\ RegistersKept
  /\ \A t \in Threads :
       mode = "boot" \/ t # current_thread => \A r \in KeptRegs : saved[t][r] = user[t][r]

-----------------------------------------------------------------------------
\* Where the stub and the contexts keep a general register.
LEMMA Layouts ==
  /\ \A r \in GpRegs : /\ PushaOrder[At(IrqLayout, r)] \in Regs
                       /\ GpLayout[At(PushaOrder, r)] \in Regs
  /\ \A r \in {"eax", "esi", "edi"} : /\ PushaOrder[At(IrqLayout, r)] = r
                                      /\ GpLayout[At(PushaOrder, r)] = r
<1>1. ASSUME NEW r \in GpRegs
      PROVE  /\ At(IrqLayout, r) \in 1 .. 8 /\ IrqLayout[At(IrqLayout, r)] = r
             /\ At(PushaOrder, r) \in 1 .. 8 /\ PushaOrder[At(PushaOrder, r)] = r
  <2>1. \E i \in 1 .. 8 : IrqLayout[i] = r
    BY DEF GpRegs, IrqLayout
  <2>2. \E i \in 1 .. 8 : PushaOrder[i] = r
    BY DEF GpRegs, PushaOrder
  <2> QED BY <2>1, <2>2, ZenonT(60) DEF At
<1>2. \A i \in 1 .. 8 : PushaOrder[i] \in Regs /\ GpLayout[i] \in Regs
  BY DEF PushaOrder, GpLayout, Regs, GpRegs, FrameRegs
<1>3. \A i \in 1 .. 8 : \A r \in {"eax", "esi", "edi"} :
        /\ IrqLayout[i] = r => PushaOrder[i] = r
        /\ PushaOrder[i] = r => GpLayout[i] = r
  BY DEF PushaOrder, IrqLayout, GpLayout
<1>4. {"eax", "esi", "edi"} \subseteq GpRegs
  BY ZenonT(60) DEF GpRegs
<1> QED BY <1>1, <1>2, <1>3, <1>4

\* irq_common and arch_return_to_user permute registers and keep some.
LEMMA Transfer ==
  ASSUME NEW S, NEW c \in [Regs -> S]
  PROVE  /\ irq_common(c) \in [Regs -> S]
         /\ arch_return_to_user(c) \in [Regs -> S]
         /\ \A r \in KeptRegs : /\ irq_common(c)[r] = c[r]
                                /\ arch_return_to_user(c)[r] = c[r]
<1>1. \A r \in Regs : r \in FrameRegs \/ r \in GpRegs
  BY ZenonT(60) DEF Regs
<1>2. \A r \in KeptRegs : r \in Regs /\ (r \in FrameRegs \/ r \in {"eax", "esi", "edi"})
  BY ZenonT(60) DEF KeptRegs, Regs, FrameRegs, GpRegs
<1>3. irq_common(c) \in [Regs -> S] /\ arch_return_to_user(c) \in [Regs -> S]
  BY <1>1, Layouts, ZenonT(60) DEF irq_common, arch_return_to_user
<1>4. \A r \in KeptRegs : irq_common(c)[r] = c[r] /\ arch_return_to_user(c)[r] = c[r]
  BY <1>2, Layouts, ZenonT(60) DEF irq_common, arch_return_to_user
<1> QED BY <1>3, <1>4, ZenonT(60)

\* A saved context mixes the old one and the interrupted registers.
LEMMA Update ==
  ASSUME NEW S, NEW c \in [Regs -> S], NEW i \in [Regs -> S]
  PROVE  arch_update_exec_ctx(c, i) \in [Regs -> S]
BY ZenonT(60) DEF arch_update_exec_ctx

\* The registers that are saved in place are those of the interrupted program.
LEMMA UpdateInPlace ==
  ASSUME NEW S, NEW c \in [Regs -> S], NEW i \in [Regs -> S], NEW r \in KeptRegs
  PROVE  arch_update_exec_ctx(c, i)[r] = i[r]
<1>1. r \in Regs /\ r # "ebp"
  BY ZenonT(60) DEF KeptRegs, Regs, FrameRegs, GpRegs
<1> QED BY <1>1, ZenonT(60) DEF arch_update_exec_ctx

\* A step of the trap paths is a step of the scheduler, or none.
LEMMA TrapStep ==
  ASSUME [TrapNext]_vars
  PROVE  rr_init \/ rr_tick_handler \/ UNCHANGED schedVars
BY ZenonT(60) DEF TrapNext, boot_sched, ktime_init, irq0, irq7_spurious, exception, kcall,
       user_step, pit_tick, device, vars

LEMMA SchedStep == ASSUME IInv, [TrapNext]_vars PROVE Inv'
<1>1. Inv
  BY ZenonT(60) DEF IInv
<1>2. rr_init \/ rr_tick_handler \/ UNCHANGED schedVars
  BY TrapStep, ZenonT(60)
<1>3. CASE UNCHANGED schedVars
  BY <1>1, <1>3, StutterInv, ZenonT(60)
<1> QED BY <1>1, <1>2, <1>3, InitQueuesInv, InitEnqueueInv, InitSelectInv, TickInv, ZenonT(60) DEF rr_init

\* Once a thread is selected, its context and its address space are in use.
LEMMA Selected ==
  Inv /\ rr_pc = "run" =>
    /\ current_thread \in Threads /\ exec_ctx = current_thread
    /\ cr3 = ProcOf[current_thread] /\ cr3 \in Procs
BY ProcsAssumption, ZenonT(60) DEF Inv, TypeOK, SpaceOfProc

LEMMA SelectedNext ==
  (Inv /\ rr_pc = "run" =>
    /\ current_thread \in Threads /\ exec_ctx = current_thread
    /\ cr3 = ProcOf[current_thread] /\ cr3 \in Procs)'
BY Selected, PTL

\* The values a thread may hold are register values.
LEMMA OwnedValues ==
  ASSUME NEW t \in Threads
  PROVE  /\ Owned(t) \subseteq Val /\ Zero \in Owned(t)
         /\ RetOk \in Owned(t) /\ RetErr \in Owned(t)
         /\ \A r \in FrameRegs : Entry[t][r] \in Owned(t)
         /\ \A f \in Files[t] : f \in [Regs -> Owned(t)]
<1>1. /\ {Zero, RetOk, RetErr} \subseteq Val
      /\ \A r \in FrameRegs : Entry[t][r] \in Val
      /\ \A f \in Files[t] : f \in [Regs -> Val]
  BY TrapAssumption, ZenonT(60)
<1>2. \A f \in Files[t] : \A r \in Regs : f[r] \in Owned(t) /\ f[r] \in Val
  BY <1>1 DEF Owned
<1>3. UNION {{f[r] : r \in Regs} : f \in Files[t]} \subseteq Val
  BY <1>2
<1> QED BY <1>1, <1>2, <1>3, ZenonT(60) DEF Owned

\* What the registers and contexts hold, as sets of functions.
LEMMA OwnContexts ==
  ASSUME IInv
  PROVE  /\ \A t \in Threads : saved[t] \in [Regs -> Owned(t)]
         /\ mode = "user" => /\ current_thread \in Threads /\ rr_pc = "run"
                             /\ exec_ctx = current_thread
                             /\ regs \in [Regs -> Owned(current_thread)]
<1>1. /\ saved \in [Threads -> [Regs -> Val]] /\ regs \in [Regs -> Val]
      /\ mode = "user" => rr_pc = "run"
  BY ZenonT(60) DEF IInv, TrapTypeOK
<1>2. \A t \in Threads : \A r \in Regs : saved[t][r] \in Owned(t)
  BY ZenonT(60) DEF IInv, Owns
<1>3. \A t \in Threads : saved[t] \in [Regs -> Owned(t)]
  BY <1>1, <1>2, ZenonT(60)
<1>4. ASSUME mode = "user"
      PROVE  /\ current_thread \in Threads /\ rr_pc = "run" /\ exec_ctx = current_thread
             /\ regs \in [Regs -> Owned(current_thread)]
  BY <1>1, <1>4, Selected, ZenonT(60) DEF IInv, Owns
<1> QED BY <1>3, <1>4, ZenonT(60)

\* Initially every context holds its thread's start values.
LEMMA TrapInitIInv == TrapInit => IInv
<1> SUFFICES ASSUME TrapInit PROVE IInv
  BY ZenonT(60)
<1>1. Inv
  BY InitInv, ZenonT(60) DEF TrapInit
<1>2. \A t \in Threads : native_create_thread(t) \in [Regs -> Owned(t)]
  BY OwnedValues, ZenonT(60) DEF native_create_thread, Regs
<1>3. /\ \A t \in Threads : saved[t] \in [Regs -> Owned(t)] /\ saved[t] \in [Regs -> Val]
      /\ saved \in [Threads -> [Regs -> Val]] /\ user = saved
  <2>1. \A t \in Threads : saved[t] = native_create_thread(t)
    BY ZenonT(60) DEF TrapInit
  <2>2. \A t \in Threads : native_create_thread(t) \in [Regs -> Val]
    BY <1>2, OwnedValues, ZenonT(60)
  <2> QED BY <1>2, <2>1, <2>2, ZenonT(60) DEF TrapInit
<1>4. Owns
  BY <1>3, ZenonT(60) DEF TrapInit, Owns
<1>5. TrapTypeOK
  <2>1. pic \in [irr : SUBSET Lines, isr : SUBSET Lines, imr : SUBSET Lines]
    BY ZenonT(60) DEF TrapInit, PIC_init_imr
  <2>2. regs \in [Regs -> Val] /\ work \in 0 .. MaxWork
    BY TrapAssumption DEF TrapInit
  <2> QED BY <1>1, <1>3, <2>1, <2>2, ZenonT(60) DEF TrapInit, TrapTypeOK, Inv
<1>6. OnlyMmanInformed
  BY ZenonT(60) DEF TrapInit, OnlyMmanInformed
<1> QED BY <1>1, <1>4, <1>5, <1>6, ZenonT(60) DEF IInv

\* A kernel call changes the controllers only where it faults.
LEMMA KcallPic ==
  ASSUME \E n \in 0 .. 2, ptr \in {"user", "kernel", "unmapped"} : kcall(n, ptr)
  PROVE  pic' = pic \/ pic' = AfterCheck(pic)
<1>1. PICK n \in 0 .. 2, ptr \in {"user", "kernel", "unmapped"} : kcall(n, ptr)
  BY ZenonT(60)
<1>2. CASE kcall_handler(n, ptr) = "fault"
  BY <1>1, <1>2, ZenonT(60) DEF kcall, KernelFault
<1>3. CASE kcall_handler(n, ptr) # "fault"
  BY <1>1, <1>3, ZenonT(60) DEF kcall
<1> QED BY <1>2, <1>3, ZenonT(60)

\* The controllers' registers stay sets of lines.
LEMMA PicStep ==
  ASSUME pic \in [irr : SUBSET Lines, isr : SUBSET Lines, imr : SUBSET Lines],
         [TrapNext]_vars
  PROVE  pic' \in [irr : SUBSET Lines, isr : SUBSET Lines, imr : SUBSET Lines]
<1> DEFINE Pic == [irr : SUBSET Lines, isr : SUBSET Lines, imr : SUBSET Lines]
<1>1. 0 \in Lines /\ \A n \in DeviceLines : n \in Lines
  BY TrapAssumption DEF Lines
<1>2. \A s, own : EOI(s, own) \subseteq s
  BY ZenonT(60) DEF EOI
<1>3. \A s, n : PIC_sendEOI(s, n) \subseteq s
  BY <1>2, ZenonT(60) DEF PIC_sendEOI
<1>4. \A p \in Pic : AfterCheck(p) \in Pic
  BY <1>2, ZenonT(60) DEF AfterCheck
<1>5. CASE ktime_init
  BY <1>5, ZenonT(60) DEF ktime_init, PIC_unmask_irq
<1>6. CASE irq0
  <2> DEFINE acked == [pic EXCEPT !.irr = @ \ {0}, !.isr = @ \union {0}]
  <2>1. acked \in Pic
    BY <1>1, ZenonT(60)
  <2>2. pic' = AfterCheck(acked) \/ pic' = [acked EXCEPT !.isr = PIC_sendEOI(@, 32)]
    BY <1>6, ZenonT(60) DEF irq0
  <2> HIDE DEF acked
  <2> QED BY <2>1, <2>2, <1>3, <1>4
<1>7. CASE irq7_spurious
  <2> DEFINE acked == [pic EXCEPT !.irr = @ \ {0}]
  <2>1. acked \in Pic
    BY ZenonT(60)
  <2>2. pic' = AfterCheck(acked) \/ pic' = [acked EXCEPT !.isr = PIC_sendEOI(@, 39)]
    BY <1>7, ZenonT(60) DEF irq7_spurious
  <2> HIDE DEF acked
  <2> QED BY <2>1, <2>2, <1>3, <1>4
<1>8. CASE \E n \in {6, 14} : exception(n)
  BY <1>8, <1>3, <1>4 DEF exception
<1>9. CASE pit_tick \/ \E n \in DeviceLines : device(n)
  BY <1>9, <1>1 DEF pit_tick, device
<1>10. CASE boot_sched \/ user_step \/ UNCHANGED vars
  BY <1>10, ZenonT(60) DEF boot_sched, user_step, trapVars, vars
<1>11. CASE \E n \in 0 .. 2, ptr \in {"user", "kernel", "unmapped"} : kcall(n, ptr)
  BY <1>4, <1>11, KcallPic, ZenonT(60)
<1> QED BY <1>5, <1>6, <1>7, <1>8, <1>9, <1>10, <1>11, ZenonT(60) DEF TrapNext

\* An interrupt saves the thread it interrupts and loads the one selected.
LEMMA InterruptStep ==
  ASSUME IInv, Inv', irq0 \/ irq7_spurious
  PROVE  /\ saved' \in [Threads -> [Regs -> Val]]
         /\ \A t \in Threads : saved'[t] \in [Regs -> Owned(t)]
         /\ current_thread' \in Threads /\ exec_ctx' = current_thread' /\ rr_pc' = "run"
         /\ regs' \in [Regs -> Owned(current_thread')]
<1>1. /\ current_thread \in Threads /\ rr_pc = "run" /\ exec_ctx = current_thread
      /\ regs \in [Regs -> Owned(current_thread)]
      /\ \A t \in Threads : saved[t] \in [Regs -> Owned(t)]
      /\ saved \in [Threads -> [Regs -> Val]]
  BY OwnContexts, ZenonT(60) DEF IInv, TrapTypeOK, irq0, irq7_spurious
<1>2. rr_pc' = "run"
  BY <1>1, ZenonT(60) DEF irq0, irq7_spurious, rr_tick_handler, schedVars, initVars
<1>3. current_thread' \in Threads /\ exec_ctx' = current_thread'
  BY <1>2, SelectedNext, ZenonT(60)
<1> DEFINE ctx == arch_update_exec_ctx(saved[current_thread], irq_common(regs))
<1>4. ctx \in [Regs -> Owned(current_thread)] /\ ctx \in [Regs -> Val]
  <2>1. irq_common(regs) \in [Regs -> Owned(current_thread)]
    BY <1>1, Transfer, ZenonT(60)
  <2>2. ctx \in [Regs -> Owned(current_thread)]
    BY <1>1, <2>1, Update, ZenonT(60)
  <2> QED BY <1>1, <2>2, OwnedValues, ZenonT(60)
<1>5. saved' = saved \/ saved' = [saved EXCEPT ![current_thread] = ctx]
  BY <1>1, ZenonT(60) DEF irq0, irq7_spurious
<1> HIDE DEF ctx
<1>6. /\ saved' \in [Threads -> [Regs -> Val]]
      /\ \A t \in Threads : saved'[t] \in [Regs -> Owned(t)]
  BY <1>1, <1>4, <1>5, ZenonT(60)
<1>7. regs' = arch_return_to_user(saved'[current_thread'])
  BY <1>1, <1>3, ZenonT(60) DEF irq0, irq7_spurious, schedVars, archVars
<1>8. regs' \in [Regs -> Owned(current_thread')]
  <2>1. saved'[current_thread'] \in [Regs -> Owned(current_thread')]
    BY <1>3, <1>6, ZenonT(60)
  <2> QED BY <1>7, <2>1, Transfer, ZenonT(60)
<1> QED BY <1>2, <1>3, <1>6, <1>8, ZenonT(60)

\* What a kernel call returns; meminfo succeeds for the memory manager only.
LEMMA KcallResult ==
  ASSUME NEW n \in 0 .. 2, NEW ptr
  PROVE  /\ kcall_handler(n, ptr) \in {RetOk, RetErr, "fault"}
         /\ n = 1 /\ kcall_handler(n, ptr) = RetOk /\ kcall_handler(n, ptr) # "fault"
              => Pid[ProcOf[current_thread]] = 1
BY TrapAssumption, ZenonT(60) DEF kcall_handler

\* A kernel call leaves the thread with its own values.
LEMMA KcallStep ==
  ASSUME IInv, NEW n \in 0 .. 2, NEW ptr, kcall(n, ptr)
  PROVE  /\ mode' \in {"user", "halted"} /\ work' \in 0 .. MaxWork
         /\ regs' \in [Regs -> Owned(current_thread)]
         /\ user' \in [Threads -> [Regs -> Val]]
         /\ informed' = informed \/ (informed' = informed \union {cr3} /\ Pid[cr3] = 1)
         /\ UNCHANGED <<schedVars, saved>>
<1> DEFINE ret == kcall_handler(n, ptr)
<1>1. /\ mode = "user" /\ current_thread \in Threads /\ rr_pc = "run"
      /\ regs \in [Regs -> Owned(current_thread)]
      /\ cr3 = ProcOf[current_thread]
      /\ user \in [Threads -> [Regs -> Val]] /\ work \in 0 .. MaxWork
  BY OwnContexts, Selected, ZenonT(60) DEF kcall, IInv, TrapTypeOK
<1>2. /\ ret \in {RetOk, RetErr, "fault"}
      /\ n = 1 /\ ret = RetOk /\ ret # "fault" => Pid[cr3] = 1
  BY <1>1, KcallResult, ZenonT(60)
<1>3. work' \in 0 .. MaxWork
  BY <1>1, TrapAssumption DEF kcall
<1>4. ASSUME ret # "fault"
      PROVE  regs' \in [Regs -> Owned(current_thread)] /\ user' \in [Threads -> [Regs -> Val]]
  <2>1. ret \in Owned(current_thread)
    BY <1>1, <1>2, <1>4, OwnedValues, ZenonT(60)
  <2>2. {"edi", "ebp"} \subseteq Regs
    BY ZenonT(60) DEF Regs, GpRegs
  <2>3. regs["edi"] \in Owned(current_thread) /\ regs["ebp"] \in Owned(current_thread)
    BY <1>1, <2>2, ZenonT(60)
  <2>4. regs' = [regs EXCEPT !["eax"] = ret, !["edx"] = regs["edi"], !["eip"] = regs["edi"],
                             !["ecx"] = regs["ebp"], !["esp"] = regs["ebp"]]
    BY <1>4, ZenonT(60) DEF kcall
  <2> HIDE DEF ret
  <2>5. regs' \in [Regs -> Owned(current_thread)]
    BY <1>1, <2>1, <2>3, <2>4, ZenonT(60)
  <2>6. regs' \in [Regs -> Val]
    BY <1>1, <2>5, OwnedValues, ZenonT(60)
  <2>7. user' = [user EXCEPT ![current_thread] = regs']
    BY <1>4, ZenonT(60) DEF kcall, ret
  <2> QED BY <1>1, <2>5, <2>6, <2>7, ZenonT(60)
<1>5. ASSUME ret = "fault" PROVE UNCHANGED <<regs, user, informed>> /\ mode' = "halted"
  BY <1>5, ZenonT(60) DEF kcall
<1>6. ASSUME ret # "fault"
      PROVE  /\ mode' = "user"
             /\ informed' = informed \/ (informed' = informed \union {cr3} /\ Pid[cr3] = 1)
  BY <1>1, <1>2, <1>6, ZenonT(60) DEF kcall
<1>7. UNCHANGED <<schedVars, saved>>
  BY ZenonT(60) DEF kcall
<1> HIDE DEF ret
<1> QED BY <1>1, <1>3, <1>4, <1>5, <1>6, <1>7, ZenonT(60)

\* Every step of the trap paths preserves the invariant.
LEMMA StepIInv == ASSUME IInv, [TrapNext]_vars PROVE IInv'
<1>1. /\ Inv' /\ TypeOK'
      /\ pic' \in [irr : SUBSET Lines, isr : SUBSET Lines, imr : SUBSET Lines]
  BY SchedStep, PicStep, ZenonT(60) DEF IInv, TrapTypeOK, Inv
<1>2. /\ Inv /\ mode \in {"boot", "user", "halted"} /\ (mode # "boot" => rr_pc = "run")
      /\ regs \in [Regs -> Val] /\ saved \in [Threads -> [Regs -> Val]]
      /\ user \in [Threads -> [Regs -> Val]]
      /\ informed \subseteq Procs /\ work \in 0 .. MaxWork
      /\ \A p \in informed : Pid[p] = 1
  BY ZenonT(60) DEF IInv, TrapTypeOK, OnlyMmanInformed
<1>3. /\ \A t \in Threads : saved[t] \in [Regs -> Owned(t)]
      /\ mode = "user" => /\ current_thread \in Threads /\ rr_pc = "run"
                          /\ regs \in [Regs -> Owned(current_thread)]
  BY OwnContexts, ZenonT(60)
<1> DEFINE Machine == /\ mode' \in {"boot", "user", "halted"}
                      /\ mode' # "boot" => rr_pc' = "run"
                      /\ regs' \in [Regs -> Val]
                      /\ mode' = "user" => regs' \in [Regs -> Owned(current_thread')]
           Contexts == /\ saved' \in [Threads -> [Regs -> Val]]
                       /\ \A t \in Threads : saved'[t] \in [Regs -> Owned(t)]
           History == /\ user' \in [Threads -> [Regs -> Val]]
                      /\ informed' \subseteq Procs /\ work' \in 0 .. MaxWork
                      /\ \A p \in informed' : Pid[p] = 1
<1>4. SUFFICES Machine /\ Contexts /\ History
  <2>1. TrapTypeOK'
    BY <1>1, <1>4, ZenonT(60) DEF TrapTypeOK
  <2>2. Owns'
    BY <1>4, ZenonT(60) DEF Owns
  <2> QED BY <1>1, <1>4, <2>1, <2>2, ZenonT(60) DEF IInv, OnlyMmanInformed
<1>5. CASE irq0 \/ irq7_spurious
  <2>1. Contexts /\ current_thread' \in Threads /\ rr_pc' = "run"
        /\ regs' \in [Regs -> Owned(current_thread')]
    BY <1>1, <1>5, InterruptStep, ZenonT(60)
  <2>2. regs' \in [Regs -> Val]
    BY <2>1, OwnedValues, ZenonT(60)
  <2> QED BY <1>2, <1>5, <2>1, <2>2, ZenonT(60) DEF irq0, irq7_spurious, historyVars
<1>6. CASE \E n \in 0 .. 2, ptr \in {"user", "kernel", "unmapped"} : kcall(n, ptr)
  <2>1. PICK n \in 0 .. 2, ptr \in {"user", "kernel", "unmapped"} : kcall(n, ptr)
    BY <1>6, ZenonT(60)
  <2>2. /\ mode' \in {"user", "halted"} /\ work' \in 0 .. MaxWork
        /\ regs' \in [Regs -> Owned(current_thread)]
        /\ user' \in [Threads -> [Regs -> Val]]
        /\ informed' = informed \/ (informed' = informed \union {cr3} /\ Pid[cr3] = 1)
        /\ UNCHANGED <<schedVars, saved>>
    BY <2>1, KcallStep, ZenonT(60)
  <2>3. mode = "user" /\ current_thread \in Threads /\ cr3 \in Procs /\ rr_pc = "run"
    BY <1>2, <2>1, Selected, ZenonT(60) DEF kcall
  <2>4. regs' \in [Regs -> Val]
    BY <2>2, <2>3, OwnedValues, ZenonT(60)
  <2> QED BY <1>2, <1>3, <2>2, <2>3, <2>4, ZenonT(60) DEF schedVars, initVars
<1>7. CASE user_step
  <2>1. /\ current_thread \in Threads /\ rr_pc = "run" /\ mode = "user"
        /\ regs' \in [Regs -> Owned(current_thread)]
    BY <1>3, <1>7, OwnedValues, ZenonT(60) DEF user_step
  <2>2. regs' \in [Regs -> Val]
    BY <2>1, OwnedValues, ZenonT(60)
  <2>3. user' \in [Threads -> [Regs -> Val]] /\ work' \in 0 .. MaxWork
    BY <1>2, <1>7, <2>1, <2>2, TrapAssumption DEF user_step
  <2>4. UNCHANGED <<mode, saved, informed, current_thread, rr_pc>>
    BY <1>7, ZenonT(60) DEF user_step, schedVars, initVars
  <2> QED BY <1>2, <1>3, <2>1, <2>2, <2>3, <2>4, ZenonT(60)
<1>8. CASE ktime_init
  <2>1. /\ current_thread \in Threads /\ exec_ctx = current_thread
        /\ UNCHANGED <<schedVars, saved, informed, work, user>> /\ mode' = "user"
        /\ rr_pc = "run" /\ regs' = arch_return_to_user(saved[exec_ctx])
    BY <1>2, <1>8, Selected, ZenonT(60) DEF ktime_init, historyVars
  <2>2. regs' \in [Regs -> Owned(current_thread)]
    BY <1>3, <2>1, Transfer, ZenonT(60)
  <2>3. regs' \in [Regs -> Val]
    BY <2>1, <2>2, OwnedValues, ZenonT(60)
  <2> QED BY <1>2, <1>3, <2>1, <2>2, <2>3, ZenonT(60) DEF schedVars, initVars
<1>9. CASE boot_sched
  BY <1>2, <1>3, <1>9, ZenonT(60) DEF boot_sched, trapVars, historyVars
<1>10. CASE \/ pit_tick \/ UNCHANGED vars
           \/ \E n \in {6, 14} : exception(n) \/ \E m \in DeviceLines : device(m)
  <2>1. /\ UNCHANGED <<schedVars, regs, saved, informed, work, user>>
        /\ mode' = mode \/ (mode = "user" /\ mode' = "halted")
    BY <1>10, ZenonT(60) DEF pit_tick, exception, device, vars, trapVars, historyVars
  <2> QED BY <1>2, <1>3, <2>1, ZenonT(60) DEF schedVars, initVars
<1> QED BY <1>5, <1>6, <1>7, <1>8, <1>9, <1>10, ZenonT(60) DEF TrapNext

-----------------------------------------------------------------------------
LEMMA TrapInitQInv == TrapInit => QInv
BY DEF TrapInit, QInv, RegistersKept

\* With the timer alone, a tick saves the interrupted thread whole and loads
\* the selected thread from where its own registers were saved.
LEMMA TickKeeps ==
  ASSUME IInv, QInv, Inv', irq0
  PROVE  QInv'
<1>1. /\ current_thread \in Threads /\ exec_ctx = current_thread /\ mode = "user"
      /\ regs \in [Regs -> Owned(current_thread)]
      /\ saved[current_thread] \in [Regs -> Owned(current_thread)]
      /\ saved \in [Threads -> [Regs -> Val]]
      /\ pic \in [irr : SUBSET Lines, isr : SUBSET Lines, imr : SUBSET Lines]
  BY OwnContexts, ZenonT(60) DEF irq0, IInv, TrapTypeOK
<1>2. /\ current_thread' \in Threads /\ exec_ctx' = current_thread'
      /\ saved'[current_thread'] \in [Regs -> Owned(current_thread')]
  BY InterruptStep, ZenonT(60)
<1> DEFINE acked == [pic EXCEPT !.irr = @ \ {0}, !.isr = @ \union {0}]
           ctx == arch_update_exec_ctx(saved[current_thread], irq_common(regs))
<1>3. acked.irr = {} /\ acked.isr = {0}
  BY <1>1, ZenonT(60) DEF QInv
<1>4. ~ PIC_check_spurious(acked.irr)
  BY <1>3, ZenonT(60) DEF PIC_check_spurious
<1>5. /\ saved' = [saved EXCEPT ![current_thread] = ctx]
      /\ pic' = [acked EXCEPT !.isr = PIC_sendEOI(@, 32)]
      /\ regs' = arch_return_to_user(saved'[current_thread'])
      /\ mode' = mode /\ user' = user
  BY <1>1, <1>2, <1>4, ZenonT(60) DEF irq0, historyVars
<1>6. pic'.irr = {} /\ pic'.isr = {}
  <2>1. PIC_sendEOI({0}, 32) = {}
    BY DEF PIC_sendEOI, EOI
  <2> QED BY <1>1, <1>3, <1>5, <2>1, ZenonT(60)
<1>7. \A r \in KeptRegs : ctx[r] = user[current_thread][r]
  <2>1. irq_common(regs) \in [Regs -> Owned(current_thread)]
        /\ \A r \in KeptRegs : irq_common(regs)[r] = regs[r]
    BY <1>1, Transfer, ZenonT(60)
  <2>2. \A r \in KeptRegs : ctx[r] = irq_common(regs)[r]
    <3>1. /\ saved[current_thread] \in [Regs -> Owned(current_thread)]
          /\ irq_common(regs) \in [Regs -> Owned(current_thread)]
      BY <1>1, <2>1, ZenonT(60)
    <3>2. \A c, i \in [Regs -> Owned(current_thread)] :
            \A r \in KeptRegs : arch_update_exec_ctx(c, i)[r] = i[r]
      BY UpdateInPlace, ZenonT(60)
    <3> QED BY <3>1, <3>2, ZenonT(60)
  <2>3. \A r \in KeptRegs : regs[r] = user[current_thread][r]
    BY <1>1, ZenonT(60) DEF QInv, RegistersKept
  <2> QED BY <2>1, <2>2, <2>3, ZenonT(60)
<1> HIDE DEF ctx, acked
<1>8. \A t \in Threads : \A r \in KeptRegs : saved'[t][r] = user'[t][r]
  BY <1>1, <1>5, <1>7, ZenonT(60) DEF QInv
<1>9. \A r \in KeptRegs : regs'[r] = saved'[current_thread'][r]
  BY <1>2, <1>5, Transfer, ZenonT(60)
<1>10. RegistersKept'
  BY <1>2, <1>8, <1>9, ZenonT(60) DEF RegistersKept
<1> QED BY <1>6, <1>8, <1>10, ZenonT(60) DEF QInv

\* Every step keeps the registers when the timer is the only device.
LEMMA StepQInv == ASSUME Quiet, IInv, QInv, [TrapNext]_vars PROVE QInv'
<1>1. /\ Inv' /\ Inv /\ pic.irr \subseteq {0} /\ pic.isr = {} /\ RegistersKept
      /\ \A t \in Threads :
           mode = "boot" \/ t # current_thread => \A r \in KeptRegs : saved[t][r] = user[t][r]
      /\ pic \in [irr : SUBSET Lines, isr : SUBSET Lines, imr : SUBSET Lines]
      /\ user \in [Threads -> [Regs -> Val]]
      /\ mode \in {"boot", "user", "halted"} /\ (mode # "boot" => rr_pc = "run")
  BY SchedStep, ZenonT(60) DEF IInv, QInv, TrapTypeOK
<1>2. CASE irq0
  BY <1>1, <1>2, TickKeeps, ZenonT(60)
<1>3. CASE ktime_init
  <2>1. /\ current_thread \in Threads /\ exec_ctx = current_thread
        /\ UNCHANGED <<current_thread, saved, user>> /\ mode = "boot" /\ mode' = "user"
        /\ regs' = arch_return_to_user(saved[current_thread])
    BY <1>1, <1>3, Selected, ZenonT(60) DEF ktime_init, historyVars, schedVars
  <2>2. saved[current_thread] \in [Regs -> Owned(current_thread)]
    BY <2>1, OwnContexts, ZenonT(60)
  <2>3. \A r \in KeptRegs : regs'[r] = saved[current_thread][r]
    BY <2>1, <2>2, Transfer, ZenonT(60)
  <2>4. RegistersKept'
    BY <1>1, <2>1, <2>3, ZenonT(60) DEF RegistersKept
  <2>5. pic'.irr = pic.irr /\ pic'.isr = pic.isr
    BY <1>1, <1>3, ZenonT(60) DEF ktime_init
  <2> QED BY <1>1, <2>1, <2>4, <2>5, ZenonT(60) DEF QInv
<1>4. CASE boot_sched
  BY <1>1, <1>4, ZenonT(60) DEF boot_sched, trapVars, historyVars, QInv, RegistersKept
<1>5. CASE \E n \in {6, 14} : exception(n)
  <2>1. PICK n \in {6, 14} : exception(n)
    BY <1>5, ZenonT(60)
  <2>2. ~ PIC_check_spurious(pic.irr)
    BY <1>1 DEF PIC_check_spurious
  <2>3. PIC_sendEOI({}, n) = {}
    BY ZenonT(60) DEF PIC_sendEOI, EOI
  <2>4. pic'.irr = pic.irr /\ pic'.isr = {}
    BY <1>1, <2>1, <2>2, <2>3 DEF exception
  <2>5. /\ UNCHANGED <<current_thread, regs, saved, user>>
        /\ mode = "user" /\ mode' \in {"user", "halted"}
    BY <2>1, <2>2, ZenonT(60) DEF exception, historyVars, schedVars
  <2> QED BY <1>1, <2>4, <2>5, ZenonT(60) DEF QInv, RegistersKept
<1>6. CASE user_step \/ \E n \in 0 .. 2, ptr \in {"user", "kernel", "unmapped"} : kcall(n, ptr)
  <2> DEFINE Ran == /\ mode = "user" /\ UNCHANGED <<current_thread, saved, pic>>
                    /\ \/ mode' = "halted" /\ UNCHANGED user
                       \/ mode' = "user" /\ user' = [user EXCEPT ![current_thread] = regs']
  <2>1. Ran
    <3>1. ASSUME NEW n \in 0 .. 2, NEW ptr, kcall(n, ptr) PROVE Ran
      <4>1. CASE kcall_handler(n, ptr) = "fault"
        <5>1. ~ PIC_check_spurious(pic.irr)
          BY <1>1 DEF PIC_check_spurious
        <5> QED BY <3>1, <4>1, <5>1, ZenonT(60) DEF kcall, KernelFault, schedVars
      <4>2. CASE kcall_handler(n, ptr) # "fault"
        BY <3>1, <4>2, ZenonT(60) DEF kcall, schedVars
      <4> QED BY <4>1, <4>2, ZenonT(60)
    <3>2. ASSUME user_step PROVE Ran
      BY <3>2, ZenonT(60) DEF user_step, schedVars
    <3> QED BY <1>6, <3>1, <3>2, ZenonT(60)
  <2>2. current_thread \in Threads
    BY <1>1, <2>1, Selected, ZenonT(60)
  <2>3. RegistersKept'
    BY <1>1, <2>1, <2>2, ZenonT(60) DEF RegistersKept
  <2> QED BY <1>1, <2>1, <2>2, <2>3 DEF QInv
<1>7. CASE pit_tick
  <2>1. pic'.irr \subseteq {0} /\ pic'.isr = {}
    BY <1>1, <1>7, ZenonT(60) DEF pit_tick
  <2> QED BY <1>1, <1>7, <2>1, ZenonT(60) DEF pit_tick, QInv, RegistersKept, historyVars, schedVars
<1>8. CASE UNCHANGED vars
  BY <1>1, <1>8, ZenonT(60) DEF vars, trapVars, historyVars, schedVars, QInv, RegistersKept
<1> QED BY <1>2, <1>3, <1>4, <1>5, <1>6, <1>7, <1>8, ZenonT(60) DEF TrapNext, Quiet, irq7_spurious

-----------------------------------------------------------------------------
LEMMA Always == TrapSpec => []IInv
<1>1. IInv /\ [TrapNext]_vars => IInv'
  BY StepIInv, ZenonT(60)
<1> QED BY <1>1, TrapInitIInv, PTL DEF TrapSpec

\* Under timer and other interrupts, exceptions and kernel calls the scheduler
\* still follows the round-robin policy: no way into the kernel touches the
\* ready queues, the priorities or current_thread but through rr_init and
\* rr_tick_handler.
THEOREM TrapsImplementPolicy == TrapSpec => ImplementsRoundRobin
<1>1. TrapInit => Init
  BY ZenonT(60) DEF TrapInit
<1>2. IInv => Inv
  BY ZenonT(60) DEF IInv
<1>3. [TrapNext]_vars => [Next]_schedVars
  BY TrapStep, ZenonT(60) DEF Next
<1> QED BY <1>1, <1>2, <1>3, PolicyStep, InitRefines, Always, PTL
      DEF TrapSpec, ImplementsRoundRobin, RR!Spec

\* Every variable keeps its type and no thread runs before one is selected.
THEOREM TrapTypeCorrect == TrapSpec => []TrapTypeOK
<1>1. IInv => TrapTypeOK
  BY ZenonT(60) DEF IInv
<1> QED BY <1>1, Always, PTL

\* No register value of one thread reaches another, for every set of threads
\* and device lines and whether or not interrupts are dropped: interrupt_handler
\* and arch_return_to_user only move values between a thread and its context.
THEOREM RegistersStayOwn == TrapSpec => []OwnRegisters
<1>1. IInv => OwnRegisters
  BY ZenonT(60) DEF IInv, Owns, OwnRegisters
<1> QED BY <1>1, Always, PTL

\* The memory map only reaches the memory manager's address space: the process
\* kcall_meminfo checks is the one whose page tables are in use.
THEOREM MapReachesMmanOnly == TrapSpec => []OnlyMmanInformed
<1>1. IInv => OnlyMmanInformed
  BY ZenonT(60) DEF IInv
<1> QED BY <1>1, Always, PTL

LEMMA AlwaysQuiet == ASSUME Quiet PROVE TrapSpec => []QInv
<1>1. IInv /\ QInv /\ [TrapNext]_vars => QInv'
  BY StepQInv, ZenonT(60)
<1> QED BY <1>1, TrapInitQInv, Always, PTL DEF TrapSpec

\* With the timer as the only source of interrupts, preemption and kernel calls
\* of other threads are invisible in the registers that are saved and restored
\* by the same name.
THEOREM PreemptionInvisible == ASSUME Quiet PROVE TrapSpec => []RegistersKept
<1>1. QInv => RegistersKept
  BY ZenonT(60) DEF QInv
<1> QED BY <1>1, AlwaysQuiet, PTL

\* Whatever devices request: unless line 7 is requested, no way into the kernel
\* leaves an interrupt in service that was not before.
LEMMA StepEnds ==
  ASSUME IInv, [TrapNext]_vars
  PROVE  pic'.isr \subseteq pic.isr \/ 7 \in pic.irr
<1>1. pic \in [irr : SUBSET Lines, isr : SUBSET Lines, imr : SUBSET Lines]
  BY ZenonT(60) DEF IInv, TrapTypeOK
<1>2. \A s, own : EOI(s, own) \subseteq s
  BY ZenonT(60) DEF EOI
<1>3. \A s, n : PIC_sendEOI(s, n) \subseteq s
  BY <1>2, ZenonT(60) DEF PIC_sendEOI
<1>4. \A p : p \in [irr : SUBSET Lines, isr : SUBSET Lines, imr : SUBSET Lines]
               => AfterCheck(p).isr \subseteq p.isr
  BY <1>2, ZenonT(60) DEF AfterCheck
<1>5. CASE irq0
  <2> DEFINE acked == [pic EXCEPT !.irr = @ \ {0}, !.isr = @ \union {0}]
  <2>1. \A s \in SUBSET Lines : EOI(s \union {0}, 0 .. 7) \subseteq s
    BY DEF EOI, Lines
  <2>2. acked.irr = pic.irr \ {0} /\ acked.isr = pic.isr \union {0}
        /\ acked \in [irr : SUBSET Lines, isr : SUBSET Lines, imr : SUBSET Lines]
    <3>1. 0 \in Lines
      BY DEF Lines
    <3> QED BY <1>1, <3>1, ZenonT(60)
  <2>3. IF PIC_check_spurious(acked.irr)
        THEN pic' = AfterCheck(acked)
        ELSE pic' = [acked EXCEPT !.isr = PIC_sendEOI(@, 32)]
    BY <1>5, ZenonT(60) DEF irq0
  <2>4. PIC_sendEOI(pic.isr \union {0}, 32) \subseteq pic.isr
    <3>1. ~ (32 >= 40)
      OBVIOUS
    <3> QED BY <1>1, <2>1, <3>1, ZenonT(60) DEF PIC_sendEOI
  <2> HIDE DEF acked
  <2>5. CASE 7 \notin pic.irr /\ PIC_check_spurious(acked.irr)
    <3>1. 7 \notin acked.irr /\ 15 \in acked.irr
      BY <2>2, <2>5, ZenonT(60) DEF PIC_check_spurious
    <3>2. AfterCheck(acked) = [acked EXCEPT !.isr = EOI(@, 0 .. 7)]
      BY <3>1, ZenonT(60) DEF AfterCheck
    <3>3. AfterCheck(acked).isr = EOI(pic.isr \union {0}, 0 .. 7)
      BY <2>2, <3>2, ZenonT(60)
    <3> QED BY <1>1, <2>1, <2>3, <2>5, <3>3, ZenonT(60)
  <2>6. CASE ~ PIC_check_spurious(acked.irr)
    <3>1. pic'.isr = PIC_sendEOI(pic.isr \union {0}, 32)
      BY <2>2, <2>3, <2>6, ZenonT(60)
    <3> QED BY <2>4, <3>1, ZenonT(60)
  <2> QED BY <2>5, <2>6, ZenonT(60)
<1>6. CASE irq7_spurious
  <2> DEFINE acked == [pic EXCEPT !.irr = @ \ {0}]
  <2>1. acked.isr = pic.isr
        /\ acked \in [irr : SUBSET Lines, isr : SUBSET Lines, imr : SUBSET Lines]
    BY <1>1, ZenonT(60)
  <2>2. pic' = AfterCheck(acked) \/ pic' = [acked EXCEPT !.isr = PIC_sendEOI(@, 39)]
    BY <1>6, ZenonT(60) DEF irq7_spurious
  <2> HIDE DEF acked
  <2>3. CASE pic' = AfterCheck(acked)
    BY <1>4, <2>1, <2>3, ZenonT(60)
  <2>4. CASE pic' = [acked EXCEPT !.isr = PIC_sendEOI(@, 39)]
    <3>1. pic'.isr = PIC_sendEOI(acked.isr, 39)
      BY <2>1, <2>4, ZenonT(60)
    <3>2. PIC_sendEOI(acked.isr, 39) \subseteq acked.isr
      BY <1>3, ZenonT(60)
    <3> QED BY <2>1, <3>1, <3>2, ZenonT(60)
  <2> QED BY <2>2, <2>3, <2>4, ZenonT(60)
<1>7. CASE \E n \in {6, 14} : exception(n)
  <2>1. PICK n \in {6, 14} : exception(n)
    BY <1>7, ZenonT(60)
  <2>2. pic' = pic \/ pic' = AfterCheck(pic) \/ pic' = [pic EXCEPT !.isr = PIC_sendEOI(@, n)]
    BY <2>1, ZenonT(60) DEF exception
  <2>3. CASE pic' = pic \/ pic' = AfterCheck(pic)
    BY <1>1, <1>4, <2>3, ZenonT(60)
  <2>4. CASE pic' = [pic EXCEPT !.isr = PIC_sendEOI(@, n)]
    <3>1. pic'.isr = PIC_sendEOI(pic.isr, n)
      BY <1>1, <2>4, ZenonT(60)
    <3>2. PIC_sendEOI(pic.isr, n) \subseteq pic.isr
      BY <1>3, ZenonT(60)
    <3> QED BY <3>1, <3>2, ZenonT(60)
  <2> QED BY <2>2, <2>3, <2>4, ZenonT(60)
<1>8. CASE \E n \in 0 .. 2, ptr \in {"user", "kernel", "unmapped"} : kcall(n, ptr)
  <2>1. pic' = pic \/ pic' = AfterCheck(pic)
    BY <1>8, KcallPic, ZenonT(60)
  <2> QED BY <1>1, <1>4, <2>1, ZenonT(60)
<1>9. CASE pit_tick \/ ktime_init \/ \E n \in DeviceLines : device(n)
  BY <1>1, <1>9, ZenonT(60) DEF pit_tick, ktime_init, device
<1>10. CASE boot_sched \/ user_step \/ UNCHANGED vars
  BY <1>10, ZenonT(60) DEF boot_sched, user_step, trapVars, vars
<1> QED BY <1>5, <1>6, <1>7, <1>8, <1>9, <1>10, ZenonT(60) DEF TrapNext

\* Every interrupt is ended with an EOI, whatever lines devices request and
\* whether or not interrupts are spurious, except where line 7 is requested
\* when the kernel is entered: interrupt_handler then returns without one.
THEOREM EveryInterruptEnds == TrapSpec => InServiceEnded
<1>1. IInv /\ [TrapNext]_vars => [pic.isr' \subseteq pic.isr \/ 7 \in pic.irr]_vars
  BY StepEnds, ZenonT(60)
<1> QED BY <1>1, Always, PTL DEF TrapSpec, InServiceEnded

=============================================================================
