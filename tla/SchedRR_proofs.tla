--------------------------- MODULE SchedRR_proofs ---------------------------
(***************************************************************************)
(* Proofs about the round-robin scheduler for any number of threads,       *)
(* queues and processes and any quantum.  First what list_add and          *)
(* list_remove do to a ring, then that every step keeps the rings.         *)
(***************************************************************************)
EXTENDS SchedRR, FiniteSetTheorems, TLAPS

\* Every step below is tried with the SMT solver, unless it names another prover.
USE SMTT(60)

Lists == [next : Links, prev : Links]

\* q lists the n threads of S, and the links of queue p are the ring of q.
RingOf(l, p, q, n, S) ==
  /\ n \in Nat
  /\ q \in [1 .. n -> S]
  /\ IsOrder(q, n, S)
  /\ LinkedAs(l, p, q, n)

\* The nodes of that ring: its head and its threads, each at one position.
RingFacts(p, q, n, S) ==
  /\ ReadyQueue[p] \in Nodes /\ ReadyQueue[p] \notin Threads
  /\ \A i \in 1 .. n : RingNode(p, q, n, i) = q[i] /\ q[i] \in S /\ q[i] # ReadyQueue[p]
  /\ RingNode(p, q, n, 0) = ReadyQueue[p]
  /\ RingNode(p, q, n, n + 1) = ReadyQueue[p]
  /\ \A i \in 0 .. n + 1 : RingNode(p, q, n, i) \in S \union {ReadyQueue[p]}
  /\ \A i, j \in 0 .. n : RingNode(p, q, n, i) = RingNode(p, q, n, j) => i = j

\* The four links rr_move_to_ready writes, and no other.
AddEffect(l, p, q, n, t) ==
  LET head == ReadyQueue[p]
      last == RingNode(p, q, n, n)
  IN list_add(l, t, l.prev[head]) =
       [next |-> [[l.next EXCEPT ![last] = t] EXCEPT ![t] = head],
        prev |-> [[l.prev EXCEPT ![head] = t] EXCEPT ![t] = last]]

\* The thread list_next takes from a queue, and the two links it writes.
RemoveEffect(l, p, q, n, S) ==
  LET head == ReadyQueue[p]
      f == l.next[head]
      second == RingNode(p, q, n, 2)
  IN /\ n > 0
     /\ f = q[1] /\ f \in S
     /\ second \in S \union {head} /\ second # f
     /\ list_remove(l, f) = [next |-> [l.next EXCEPT ![head] = second],
                             prev |-> [l.prev EXCEPT ![second] = head]]

-----------------------------------------------------------------------------
(* Rings *)

\* A ring, as rr_enqueue and list_next leave it, has its head and each of its
\* threads at exactly one position.
LEMMA RingNodes ==
  ASSUME NEW l \in Lists, NEW p \in Queues, NEW S \in SUBSET Threads,
         NEW n \in Nat, NEW q \in [1 .. n -> S], RingOf(l, p, q, n, S)
  PROVE  RingFacts(p, q, n, S)
<1>1. ReadyQueue[p] \in Heads /\ ReadyQueue[p] \notin Threads
  BY NodesAssumption, ZenonT(60) DEF Heads
<1>2. \A i \in 1 .. n : RingNode(p, q, n, i) = q[i] /\ q[i] \in S /\ q[i] # ReadyQueue[p]
  BY <1>1, ZenonT(60) DEF RingNode
<1>3. RingNode(p, q, n, 0) = ReadyQueue[p] /\ RingNode(p, q, n, n + 1) = ReadyQueue[p]
  BY DEF RingNode
<1>4. \A i \in 0 .. n + 1 : RingNode(p, q, n, i) \in S \union {ReadyQueue[p]}
  BY <1>2, <1>3
<1>5. \A i, j \in 0 .. n : RingNode(p, q, n, i) = RingNode(p, q, n, j) => i = j
  BY <1>2, <1>3 DEF RingOf, IsOrder
<1> QED
  BY <1>1, <1>2, <1>3, <1>4, <1>5, ZenonT(60) DEF Nodes, RingFacts

\* list_is_empty tells whether a queue has a waiting thread.
LEMMA EmptyRing ==
  ASSUME NEW l \in Lists, NEW p \in Queues, NEW S \in SUBSET Threads,
         NEW n \in Nat, NEW q \in [1 .. n -> S], RingOf(l, p, q, n, S)
  PROVE  list_is_empty(l, ReadyQueue[p]) <=> S = {}
<1>0. RingFacts(p, q, n, S)
  BY RingNodes, ZenonT(60)
<1>1. l.next[RingNode(p, q, n, 0)] = RingNode(p, q, n, 1)
  BY DEF RingOf, LinkedAs
<1>2. l.prev[RingNode(p, q, n, n + 1)] = RingNode(p, q, n, n)
  BY DEF RingOf, LinkedAs
<1>3. CASE n = 0
  <2>1. S = {}
    BY <1>3 DEF RingOf, IsOrder
  <2> QED
    BY <2>1, <1>1, <1>2, <1>3, <1>0 DEF RingFacts, list_is_empty
<1>4. CASE n # 0
  <2>1. 1 \in 1 .. n
    BY <1>4
  <2>2. l.next[ReadyQueue[p]] = q[1] /\ q[1] \in S /\ q[1] # ReadyQueue[p]
    BY <2>1, <1>1, <1>0, ZenonT(60) DEF RingFacts
  <2> QED
    BY <2>2, ZenonT(60) DEF list_is_empty
<1> QED
  BY <1>3, <1>4, ZenonT(60)

\* The four links rr_move_to_ready writes.
LEMMA AddWrites ==
  ASSUME NEW l \in Lists, NEW p \in Queues, NEW S \in SUBSET Threads,
         NEW n \in Nat, NEW q \in [1 .. n -> S], RingOf(l, p, q, n, S),
         NEW t \in Threads
  PROVE  AddEffect(l, p, q, n, t)
<1>0. RingFacts(p, q, n, S)
  BY RingNodes, ZenonT(60)
<1>1. /\ l.prev[ReadyQueue[p]] = RingNode(p, q, n, n)
      /\ l.next[RingNode(p, q, n, n)] = ReadyQueue[p]
  BY <1>0 DEF RingFacts, RingOf, LinkedAs
<1> QED
  BY <1>1, ZenonT(60) DEF list_add, AddEffect

\* rr_move_to_ready on a queue that does not hold the thread: the ring grows
\* by the thread, at its end.
LEMMA AddLast ==
  ASSUME NEW l \in Lists, NEW p \in Queues, NEW S \in SUBSET Threads,
         NEW n \in Nat, NEW q \in [1 .. n -> S], RingOf(l, p, q, n, S),
         NEW t \in Threads, t \notin S
  PROVE  LET m == list_add(l, t, l.prev[ReadyQueue[p]])
             r == [i \in 1 .. n + 1 |-> IF i = n + 1 THEN t ELSE q[i]]
         IN /\ m \in Lists
            /\ RingOf(m, p, r, n + 1, S \union {t})
<1> DEFINE head == ReadyQueue[p]
           last == RingNode(p, q, n, n)
           m == list_add(l, t, l.prev[ReadyQueue[p]])
           r == [i \in 1 .. n + 1 |-> IF i = n + 1 THEN t ELSE q[i]]
           N(i) == RingNode(p, q, n, i)
           R(i) == RingNode(p, r, n + 1, i)
<1> HIDE DEF m, last, head
<1>0. RingFacts(p, q, n, S)
  BY RingNodes, ZenonT(60)
<1>1. AddEffect(l, p, q, n, t)
  BY AddWrites, ZenonT(60)
<1>2. /\ last \in S \union {head} /\ head \in Nodes /\ head \notin Threads
      /\ head # t /\ last # t /\ last \in Nodes /\ t \in Nodes
  BY <1>0 DEF RingFacts, last, head, Nodes
<1>3. /\ m = [next |-> [[l.next EXCEPT ![last] = t] EXCEPT ![t] = head],
             prev |-> [[l.prev EXCEPT ![head] = t] EXCEPT ![t] = last]]
  BY <1>1, ZenonT(60) DEF AddEffect, m, head, last
<1>4. m \in Lists
  BY <1>2, <1>3, ZenonT(60) DEF Lists, Links
<1>5. /\ m.next[t] = head /\ m.next[last] = t
      /\ \A x \in Nodes : x # t /\ x # last => m.next[x] = l.next[x]
      /\ m.prev[t] = last /\ m.prev[head] = t
      /\ \A x \in Nodes : x # t /\ x # head => m.prev[x] = l.prev[x]
  BY <1>2, <1>3, ZenonT(60) DEF Lists, Links
<1>6. /\ \A i \in 0 .. n : R(i) = N(i)
      /\ R(n + 1) = t /\ R(n + 2) = head
  BY <1>0 DEF RingFacts, RingNode, head
<1>7. LinkedAs(m, p, r, n + 1)
  <2> SUFFICES ASSUME NEW i \in 0 .. n + 1
               PROVE  m.next[R(i)] = R(i + 1) /\ m.prev[R(i + 1)] = R(i)
    BY ZenonT(60) DEF LinkedAs
  <2>1. CASE i = n + 1
    BY <2>1, <1>5, <1>6
  <2>2. CASE i = n
    BY <2>2, <1>5, <1>6 DEF last
  <2>3. CASE i \in 0 .. n - 1
    <3>1. i \in 0 .. n /\ i + 1 \in 1 .. n /\ i # n
      BY <2>3
    <3>2. R(i) = N(i) /\ R(i + 1) = N(i + 1)
      BY <3>1, <1>6
    <3>3. N(i) # last /\ N(i) # t /\ N(i) \in Nodes
      BY <3>1, <1>0, <1>2 DEF RingFacts, last, head, Nodes
    <3>4. N(i + 1) # head /\ N(i + 1) # t /\ N(i + 1) \in Nodes
      BY <3>1, <1>0 DEF RingFacts, head, Nodes
    <3>5. l.next[N(i)] = N(i + 1) /\ l.prev[N(i + 1)] = N(i)
      BY <3>1, ZenonT(60) DEF RingOf, LinkedAs
    <3> QED
      BY <3>2, <3>3, <3>4, <3>5, <1>5, ZenonT(60)
  <2> QED
    BY <2>1, <2>2, <2>3
<1>8. r \in [1 .. n + 1 -> S \union {t}] /\ IsOrder(r, n + 1, S \union {t})
  <2>1. r \in [1 .. n + 1 -> S \union {t}]
    OBVIOUS
  <2>2. \A i, j \in 1 .. n + 1 : r[i] = r[j] => i = j
    BY DEF RingOf, IsOrder
  <2>3. ASSUME NEW u \in S \union {t} PROVE \E i \in 1 .. n + 1 : r[i] = u
    <3>1. CASE u = t
      <4>1. r[n + 1] = u /\ n + 1 \in 1 .. n + 1
        BY <3>1
      <4> QED
        BY <4>1, ZenonT(60)
    <3>2. CASE u # t
      <4>1. PICK i \in 1 .. n : q[i] = u
        BY <3>2, <2>3, ZenonT(60) DEF RingOf, IsOrder
      <4>2. r[i] = u /\ i \in 1 .. n + 1
        BY <4>1
      <4> QED
        BY <4>2, ZenonT(60)
    <3> QED
      BY <3>1, <3>2, ZenonT(60)
  <2> QED
    BY <2>1, <2>2, <2>3, ZenonT(60) DEF IsOrder
<1> QED
  BY <1>4, <1>7, <1>8 DEF RingOf, m

\* rr_move_to_ready writes no link of another queue.
LEMMA AddOther ==
  ASSUME NEW l \in Lists, NEW p \in Queues, NEW S \in SUBSET Threads,
         NEW n \in Nat, NEW q \in [1 .. n -> S], RingOf(l, p, q, n, S),
         NEW o \in Queues \ {p}, NEW T \in SUBSET Threads,
         NEW k \in Nat, NEW r \in [1 .. k -> T], RingOf(l, o, r, k, T),
         S \intersect T = {},
         NEW t \in Threads, t \notin S, t \notin T
  PROVE  RingOf(list_add(l, t, l.prev[ReadyQueue[p]]), o, r, k, T)
<1> DEFINE head == ReadyQueue[p]
           last == RingNode(p, q, n, n)
           m == list_add(l, t, l.prev[ReadyQueue[p]])
           R(i) == RingNode(o, r, k, i)
<1> HIDE DEF m, last, head
<1>0. RingFacts(p, q, n, S) /\ RingFacts(o, r, k, T)
  BY RingNodes, ZenonT(60)
<1>1. AddEffect(l, p, q, n, t)
  BY AddWrites, ZenonT(60)
<1>2. last \in S \union {head} /\ head \in Nodes /\ last \in Nodes /\ t \in Nodes
  BY <1>0 DEF RingFacts, last, head, Nodes
<1>3. m = [next |-> [[l.next EXCEPT ![last] = t] EXCEPT ![t] = head],
           prev |-> [[l.prev EXCEPT ![head] = t] EXCEPT ![t] = last]]
  BY <1>1, ZenonT(60) DEF AddEffect, m, head, last
<1>4. /\ \A x \in Nodes : x # t /\ x # last => m.next[x] = l.next[x]
      /\ \A x \in Nodes : x # t /\ x # head => m.prev[x] = l.prev[x]
  BY <1>2, <1>3, ZenonT(60) DEF Lists, Links
<1>5. ReadyQueue[o] # head
  BY NodesAssumption, ZenonT(60) DEF head
<1>6. \A i \in 0 .. k + 1 : R(i) \in Nodes /\ R(i) # t /\ R(i) # head /\ R(i) # last
  <2>1. \A i \in 0 .. k + 1 : R(i) \in T \union {ReadyQueue[o]}
    BY <1>0, ZenonT(60) DEF RingFacts
  <2>2. head \notin Threads /\ ReadyQueue[o] \notin Threads /\ ReadyQueue[o] \in Nodes
    BY <1>0, ZenonT(60) DEF RingFacts, head
  <2> QED
    BY <2>1, <2>2, <1>2, <1>5, ZenonT(60) DEF Nodes
<1>7. ASSUME NEW i \in 0 .. k PROVE m.next[R(i)] = R(i + 1) /\ m.prev[R(i + 1)] = R(i)
  <2>1. l.next[R(i)] = R(i + 1) /\ l.prev[R(i + 1)] = R(i)
    BY ZenonT(60) DEF RingOf, LinkedAs
  <2>2. i \in 0 .. k + 1 /\ i + 1 \in 0 .. k + 1
    OBVIOUS
  <2> QED
    BY <2>1, <2>2, <1>4, <1>6, ZenonT(60)
<1> QED
  BY <1>7, ZenonT(60) DEF RingOf, LinkedAs, m

\* The node list_next returns and the two links it writes.
LEMMA RemoveWrites ==
  ASSUME NEW l \in Lists, NEW p \in Queues, NEW S \in SUBSET Threads,
         NEW n \in Nat, NEW q \in [1 .. n -> S], RingOf(l, p, q, n, S), S # {}
  PROVE  RemoveEffect(l, p, q, n, S)
<1> DEFINE head == ReadyQueue[p]
           f == l.next[ReadyQueue[p]]
           N(i) == RingNode(p, q, n, i)
<1> HIDE DEF f, head
<1>0. RingFacts(p, q, n, S)
  BY RingNodes, ZenonT(60)
<1>1. n > 0
  BY DEF RingOf, IsOrder
<1>2. f = N(1) /\ f = q[1] /\ f \in S /\ l.next[f] = N(2) /\ l.prev[f] = head
  <2>1. 0 \in 0 .. n /\ 1 \in 0 .. n /\ 1 \in 1 .. n
    BY <1>1
  <2>2. l.next[N(0)] = N(1) /\ l.prev[N(1)] = N(0) /\ l.next[N(1)] = N(2)
    BY <2>1 DEF RingOf, LinkedAs
  <2> QED
    BY <2>1, <2>2, <1>0, ZenonT(60) DEF RingFacts, f, head
<1>3. N(2) \in S \union {head} /\ N(2) # f /\ f \in Nodes
  <2>1. 1 \in 0 .. n /\ 2 \in 0 .. n + 1
    BY <1>1
  <2>2. N(2) # N(1)
    BY <2>1, <1>0, <1>1, <1>2 DEF RingFacts
  <2> QED
    BY <2>1, <2>2, <1>0, <1>2, ZenonT(60) DEF RingFacts, Nodes, head
<1>4. [l.prev EXCEPT ![l.next[f]] = l.prev[f]][f] = head
  BY <1>2, <1>3, ZenonT(60) DEF Lists, Links
<1>5. list_remove(l, f) = [next |-> [l.next EXCEPT ![head] = N(2)],
                           prev |-> [l.prev EXCEPT ![N(2)] = head]]
  BY <1>4, <1>2, ZenonT(60) DEF list_remove
<1> QED
  BY <1>1, <1>2, <1>3, <1>5, ZenonT(60) DEF f, head, RemoveEffect

\* list_next on a queue with a waiting thread returns the first one, and the
\* ring shrinks by it.
LEMMA RemoveFirst ==
  ASSUME NEW l \in Lists, NEW p \in Queues, NEW S \in SUBSET Threads,
         NEW n \in Nat, NEW q \in [1 .. n -> S], RingOf(l, p, q, n, S), S # {}
  PROVE  LET f == l.next[ReadyQueue[p]]
             m == list_remove(l, f)
             r == [i \in 1 .. n - 1 |-> q[i + 1]]
         IN /\ f \in S
            /\ n > 0
            /\ m \in Lists
            /\ RingOf(m, p, r, n - 1, S \ {f})
<1> DEFINE head == ReadyQueue[p]
           f == l.next[ReadyQueue[p]]
           m == list_remove(l, f)
           r == [i \in 1 .. n - 1 |-> q[i + 1]]
           N(i) == RingNode(p, q, n, i)
           R(i) == RingNode(p, r, n - 1, i)
<1> HIDE DEF m, f, head
<1>0. RingFacts(p, q, n, S)
  BY RingNodes, ZenonT(60)
<1>1. RemoveEffect(l, p, q, n, S) /\ n > 0
  <2>1. RemoveEffect(l, p, q, n, S)
    BY RemoveWrites, ZenonT(60)
  <2> QED
    BY <2>1, ZenonT(60) DEF RemoveEffect
<1>2. f = q[1] /\ f \in S /\ N(2) \in S \union {head}
  BY <1>1, ZenonT(60) DEF RemoveEffect, f, head
<1>3. head \in Nodes /\ head \notin Threads /\ N(2) \in Nodes
  BY <1>0, <1>2, ZenonT(60) DEF RingFacts, Nodes, head
<1>4. m = [next |-> [l.next EXCEPT ![head] = N(2)],
           prev |-> [l.prev EXCEPT ![N(2)] = head]]
  BY <1>1, ZenonT(60) DEF RemoveEffect, m, f, head
<1>5. m \in Lists
  BY <1>3, <1>4, ZenonT(60) DEF Lists, Links
<1>6. /\ m.next[head] = N(2) /\ m.prev[N(2)] = head
      /\ \A x \in Nodes : x # head => m.next[x] = l.next[x]
      /\ \A x \in Nodes : x # N(2) => m.prev[x] = l.prev[x]
  BY <1>3, <1>4, ZenonT(60) DEF Lists, Links
<1>7. R(0) = head /\ \A i \in 1 .. n : R(i) = N(i + 1)
  BY <1>1 DEF RingNode, head
<1>8. LinkedAs(m, p, r, n - 1)
  <2> SUFFICES ASSUME NEW i \in 0 .. n - 1
               PROVE  m.next[R(i)] = R(i + 1) /\ m.prev[R(i + 1)] = R(i)
    BY ZenonT(60) DEF LinkedAs
  <2>1. CASE i = 0
    <3>1. R(0 + 1) = N(2) /\ R(0) = head
      BY <1>1, <1>7
    <3> QED
      BY <2>1, <3>1, <1>6, ZenonT(60)
  <2>2. CASE i > 0
    <3>1. i \in 1 .. n /\ i + 1 \in 1 .. n /\ i + 1 \in 0 .. n /\ 2 \in 1 .. n
      BY <2>2
    <3>2. R(i) = N(i + 1) /\ R(i + 1) = N(i + 1 + 1)
      BY <3>1, <1>7, ZenonT(60)
    <3>3. N(i + 1) \in Nodes /\ N(i + 1) # head
      BY <3>1, <1>0, ZenonT(60) DEF RingFacts, Nodes, head
    <3>4. N(i + 1 + 1) \in Nodes /\ N(i + 1 + 1) # N(2)
      <4>1. CASE i + 1 = n
        BY <4>1, <3>1, <1>0 DEF RingFacts, Nodes
      <4>2. CASE i + 1 # n
        <5>1. i + 1 + 1 \in 0 .. n /\ 2 \in 0 .. n /\ i + 1 + 1 # 2
          BY <4>2, <3>1, <2>2
        <5> QED
          BY <5>1, <1>0 DEF RingFacts, Nodes
      <4> QED
        BY <4>1, <4>2, ZenonT(60)
    <3>5. l.next[N(i + 1)] = N(i + 1 + 1) /\ l.prev[N(i + 1 + 1)] = N(i + 1)
      BY <3>1, ZenonT(60) DEF RingOf, LinkedAs
    <3>6. m.next[N(i + 1)] = l.next[N(i + 1)]
      BY <3>3, <1>6, ZenonT(60)
    <3>7. m.prev[N(i + 1 + 1)] = l.prev[N(i + 1 + 1)]
      BY <3>4, <1>6, ZenonT(60)
    <3> QED
      BY <3>2, <3>5, <3>6, <3>7, ZenonT(60)
  <2>3. i = 0 \/ i > 0
    OBVIOUS
  <2> QED
    BY <2>1, <2>2, <2>3, ZenonT(60)
<1>9. r \in [1 .. n - 1 -> S \ {f}] /\ IsOrder(r, n - 1, S \ {f})
  <2>1. \A i, j \in 1 .. n : q[i] = q[j] => i = j
    BY ZenonT(60) DEF RingOf, IsOrder
  <2>2. r \in [1 .. n - 1 -> S \ {f}]
    <3> SUFFICES ASSUME NEW i \in 1 .. n - 1 PROVE q[i + 1] \in S \ {f}
      BY ZenonT(60)
    <3>1. i + 1 \in 1 .. n /\ 1 \in 1 .. n /\ i + 1 # 1
      BY <1>1
    <3> QED
      BY <3>1, <2>1, <1>2, ZenonT(60)
  <2>3. \A i, j \in 1 .. n - 1 : r[i] = r[j] => i = j
    BY <2>1
  <2>4. ASSUME NEW u \in S \ {f} PROVE \E i \in 1 .. n - 1 : r[i] = u
    <3>1. PICK i \in 1 .. n : q[i] = u
      BY ZenonT(60) DEF RingOf, IsOrder
    <3>2. i # 1
      BY <3>1, <1>2, ZenonT(60)
    <3>3. i - 1 \in 1 .. n - 1 /\ r[i - 1] = u
      BY <3>1, <3>2
    <3> QED
      BY <3>3, ZenonT(60)
  <2> QED
    BY <2>2, <2>3, <2>4, ZenonT(60) DEF IsOrder
<1>10. n - 1 \in Nat
  BY <1>1
<1> QED
  BY <1>1, <1>2, <1>5, <1>8, <1>9, <1>10, ZenonT(60) DEF RingOf, m, f

\* list_next writes no link of another queue.
LEMMA RemoveOther ==
  ASSUME NEW l \in Lists, NEW p \in Queues, NEW S \in SUBSET Threads,
         NEW n \in Nat, NEW q \in [1 .. n -> S], RingOf(l, p, q, n, S), S # {},
         NEW o \in Queues \ {p}, NEW T \in SUBSET Threads,
         NEW k \in Nat, NEW r \in [1 .. k -> T], RingOf(l, o, r, k, T),
         S \intersect T = {}
  PROVE  RingOf(list_remove(l, l.next[ReadyQueue[p]]), o, r, k, T)
<1> DEFINE head == ReadyQueue[p]
           f == l.next[ReadyQueue[p]]
           m == list_remove(l, f)
           N(i) == RingNode(p, q, n, i)
           R(i) == RingNode(o, r, k, i)
<1> HIDE DEF m, f, head
<1>0. RingFacts(p, q, n, S) /\ RingFacts(o, r, k, T)
  BY RingNodes, ZenonT(60)
<1>1. RemoveEffect(l, p, q, n, S)
  BY RemoveWrites, ZenonT(60)
<1>3. head \in Nodes /\ head \notin Threads /\ N(2) \in S \union {head} /\ N(2) \in Nodes
  BY <1>0, <1>1, ZenonT(60) DEF RingFacts, RemoveEffect, Nodes, head, f
<1>4. m = [next |-> [l.next EXCEPT ![head] = N(2)],
           prev |-> [l.prev EXCEPT ![N(2)] = head]]
  BY <1>1, ZenonT(60) DEF RemoveEffect, m, f, head
<1>5. /\ \A x \in Nodes : x # head => m.next[x] = l.next[x]
      /\ \A x \in Nodes : x # N(2) => m.prev[x] = l.prev[x]
  BY <1>3, <1>4, ZenonT(60) DEF Lists, Links
<1>6. \A i \in 0 .. k + 1 : R(i) \in Nodes /\ R(i) # head /\ R(i) # N(2)
  <2>1. \A i \in 0 .. k + 1 : R(i) \in T \union {ReadyQueue[o]}
    BY <1>0, ZenonT(60) DEF RingFacts
  <2>2. ReadyQueue[o] \notin Threads /\ ReadyQueue[o] \in Nodes
    BY <1>0, ZenonT(60) DEF RingFacts
  <2>3. ReadyQueue[o] # head
    BY NodesAssumption, ZenonT(60) DEF head
  <2> QED
    BY <2>1, <2>2, <2>3, <1>3, ZenonT(60) DEF Nodes
<1>7. ASSUME NEW i \in 0 .. k PROVE m.next[R(i)] = R(i + 1) /\ m.prev[R(i + 1)] = R(i)
  <2>1. l.next[R(i)] = R(i + 1) /\ l.prev[R(i + 1)] = R(i)
    BY ZenonT(60) DEF RingOf, LinkedAs
  <2>2. i \in 0 .. k + 1 /\ i + 1 \in 0 .. k + 1
    OBVIOUS
  <2> QED
    BY <2>1, <2>2, <1>5, <1>6, ZenonT(60)
<1> QED
  BY <1>7, ZenonT(60) DEF RingOf, LinkedAs, m, f

-----------------------------------------------------------------------------
(* All queues together *)

\* The links l are rings of disjoint sets of threads, W[p] in queue p.
Rings(l, W) ==
  /\ l \in Lists
  /\ W \in [Queues -> SUBSET Threads]
  /\ \A p, o \in Queues : p # o => W[p] \intersect W[o] = {}
  /\ \A p \in Queues :
       \E q \in [1 .. Cardinality(W[p]) -> W[p]] :
         RingOf(l, p, q, Cardinality(W[p]), W[p])

\* Threads are finitely many, so queue lengths are natural numbers.
LEMMA QueueLength ==
  ASSUME NEW S \in SUBSET Threads, NEW t
  PROVE  /\ IsFiniteSet(S) /\ Cardinality(S) \in Nat
         /\ t \notin S => Cardinality(S \union {t}) = Cardinality(S) + 1
         /\ t \in S => Cardinality(S \ {t}) = Cardinality(S) - 1
<1>1. IsFiniteSet(S)
  BY FS_Subset, NodesAssumption, ZenonT(60)
<1> QED
  BY <1>1, FS_CardinalityType, FS_AddElement, FS_RemoveElement, ZenonT(60)

\* rr_move_to_ready on a thread that is in no queue.
LEMMA RingsAdd ==
  ASSUME NEW l, NEW W, Rings(l, W), NEW p \in Queues,
         NEW t \in Threads, \A o \in Queues : t \notin W[o]
  PROVE  Rings(list_add(l, t, l.prev[ReadyQueue[p]]), [W EXCEPT ![p] = @ \union {t}])
<1> DEFINE m == list_add(l, t, l.prev[ReadyQueue[p]])
           V == [W EXCEPT ![p] = @ \union {t}]
           n == Cardinality(W[p])
<1> HIDE DEF m
<1>1. l \in Lists /\ W \in [Queues -> SUBSET Threads] /\ W[p] \in SUBSET Threads
  BY ZenonT(60) DEF Rings
<1>2. n \in Nat /\ Cardinality(W[p] \union {t}) = n + 1
  BY <1>1, QueueLength, ZenonT(60)
<1>3. PICK q \in [1 .. n -> W[p]] : RingOf(l, p, q, n, W[p])
  BY ZenonT(60) DEF Rings
<1>4. /\ m \in Lists
      /\ RingOf(m, p, [i \in 1 .. n + 1 |-> IF i = n + 1 THEN t ELSE q[i]], n + 1, W[p] \union {t})
  BY <1>1, <1>2, <1>3, AddLast, ZenonT(60) DEF m
<1>5. /\ V \in [Queues -> SUBSET Threads]
      /\ V[p] = W[p] \union {t} /\ \A o \in Queues \ {p} : V[o] = W[o]
  BY <1>1, ZenonT(60)
<1>6. \A a, b \in Queues : a # b => V[a] \intersect V[b] = {}
  BY <1>5 DEF Rings
<1>7. ASSUME NEW o \in Queues
      PROVE  \E r \in [1 .. Cardinality(V[o]) -> V[o]] : RingOf(m, o, r, Cardinality(V[o]), V[o])
  <2>1. CASE o = p
    <3>1. Cardinality(V[o]) = n + 1 /\ V[o] = W[p] \union {t}
      BY <2>1, <1>2, <1>5, ZenonT(60)
    <3>2. [i \in 1 .. n + 1 |-> IF i = n + 1 THEN t ELSE q[i]] \in [1 .. n + 1 -> W[p] \union {t}]
      BY <1>4, ZenonT(60) DEF RingOf
    <3> QED
      BY <2>1, <3>1, <3>2, <1>4, ZenonT(60)
  <2>2. CASE o # p
    <3> DEFINE k == Cardinality(W[o])
    <3>1. V[o] = W[o] /\ W[o] \in SUBSET Threads /\ o \in Queues \ {p}
      BY <2>2, <1>1, <1>5, ZenonT(60)
    <3>2. k \in Nat
      BY <3>1, QueueLength, ZenonT(60)
    <3>3. PICK r \in [1 .. k -> W[o]] : RingOf(l, o, r, k, W[o])
      BY ZenonT(60) DEF Rings
    <3>4. W[p] \intersect W[o] = {} /\ t \notin W[p] /\ t \notin W[o]
      BY <3>1, ZenonT(60) DEF Rings
    <3>5. RingOf(m, o, r, k, W[o])
      BY <1>1, <1>2, <1>3, <3>1, <3>2, <3>3, <3>4, AddOther, ZenonT(60) DEF m
    <3> QED
      BY <3>1, <3>5, ZenonT(60)
  <2> QED
    BY <2>1, <2>2, ZenonT(60)
<1> QED
  BY <1>4, <1>5, <1>6, <1>7, ZenonT(60) DEF Rings, m

\* list_next on a queue in which a thread waits.
LEMMA RingsRemove ==
  ASSUME NEW l, NEW W, Rings(l, W), NEW p \in Queues, W[p] # {}
  PROVE  LET f == l.next[ReadyQueue[p]]
         IN f \in W[p] /\ Rings(list_remove(l, f), [W EXCEPT ![p] = @ \ {f}])
<1> DEFINE f == l.next[ReadyQueue[p]]
           m == list_remove(l, f)
           V == [W EXCEPT ![p] = @ \ {f}]
           n == Cardinality(W[p])
<1> HIDE DEF m, f
<1>1. l \in Lists /\ W \in [Queues -> SUBSET Threads] /\ W[p] \in SUBSET Threads
  BY ZenonT(60) DEF Rings
<1>2. n \in Nat /\ (f \in W[p] => Cardinality(W[p] \ {f}) = n - 1)
  BY <1>1, QueueLength, ZenonT(60)
<1>3. PICK q \in [1 .. n -> W[p]] : RingOf(l, p, q, n, W[p])
  BY ZenonT(60) DEF Rings
<1>4. /\ f \in W[p] /\ n > 0 /\ m \in Lists
      /\ RingOf(m, p, [i \in 1 .. n - 1 |-> q[i + 1]], n - 1, W[p] \ {f})
  BY <1>1, <1>2, <1>3, RemoveFirst, ZenonT(60) DEF m, f
<1>5. /\ V \in [Queues -> SUBSET Threads]
      /\ V[p] = W[p] \ {f} /\ \A o \in Queues \ {p} : V[o] = W[o]
  BY <1>1, ZenonT(60)
<1>6. \A a, b \in Queues : a # b => V[a] \intersect V[b] = {}
  BY <1>5, ZenonT(60) DEF Rings
<1>7. ASSUME NEW o \in Queues
      PROVE  \E r \in [1 .. Cardinality(V[o]) -> V[o]] : RingOf(m, o, r, Cardinality(V[o]), V[o])
  <2>1. CASE o = p
    <3>1. Cardinality(V[o]) = n - 1 /\ V[o] = W[p] \ {f}
      BY <2>1, <1>2, <1>4, <1>5, ZenonT(60)
    <3>2. [i \in 1 .. n - 1 |-> q[i + 1]] \in [1 .. n - 1 -> W[p] \ {f}]
      BY <1>4, ZenonT(60) DEF RingOf
    <3> QED
      BY <2>1, <3>1, <3>2, <1>4, ZenonT(60)
  <2>2. CASE o # p
    <3> DEFINE k == Cardinality(W[o])
    <3>1. V[o] = W[o] /\ W[o] \in SUBSET Threads /\ o \in Queues \ {p}
      BY <2>2, <1>1, <1>5, ZenonT(60)
    <3>2. k \in Nat
      BY <3>1, QueueLength, ZenonT(60)
    <3>3. PICK r \in [1 .. k -> W[o]] : RingOf(l, o, r, k, W[o])
      BY ZenonT(60) DEF Rings
    <3>4. W[p] \intersect W[o] = {}
      BY <3>1, ZenonT(60) DEF Rings
    <3>5. RingOf(m, o, r, k, W[o])
      BY <1>1, <1>2, <1>3, <3>1, <3>2, <3>3, <3>4, RemoveOther, ZenonT(60) DEF m, f
    <3> QED
      BY <3>1, <3>5, ZenonT(60)
  <2> QED
    BY <2>1, <2>2, ZenonT(60)
<1> QED
  BY <1>4, <1>5, <1>6, <1>7, ZenonT(60) DEF Rings, m, f

\* The search of rr_get_next_ready ends: some non-empty queue is the first.
LEMMA LeastQueue ==
  ASSUME NEW Q \in SUBSET Nat, Q # {}
  PROVE  \E p \in Q : \A o \in Q : p <= o
<1> DEFINE Less == OpToRel(<, Nat)
<1>1. IsWellFoundedOn(Less, Nat)
  BY NatLessThanWellFounded, ZenonT(60)
<1>2. \A x, y \in Nat : y < x => <<y, x>> \in Less
  BY ZenonT(60) DEF OpToRel
<1> HIDE DEF Less
<1>3. PICK p \in Q : \A y \in Q : ~ (<<y, p>> \in Less)
  BY <1>1, WFMin, ZenonT(60)
<1>4. ASSUME NEW o \in Q PROVE p <= o
  <2>1. p \in Nat /\ o \in Nat
    BY ZenonT(60)
  <2>2. ~ (o < p)
    BY <2>1, <1>2, <1>3, ZenonT(60)
  <2> QED
    BY <2>1, <2>2
<1> QED
  BY <1>4, ZenonT(60)

\* rr_get_next_ready takes a thread of the most urgent queue that has one.
LEMMA NextReady ==
  ASSUME NEW l, NEW W, Rings(l, W), \E p \in Queues : W[p] # {}
  PROVE  \E p \in Queues :
           /\ rr_get_next_ready(l) \in W[p]
           /\ \A o \in Queues : o < p => W[o] = {}
           /\ Rings(AfterNextReady(l), [W EXCEPT ![p] = @ \ {rr_get_next_ready(l)}])
<1>1. \A p \in Queues : list_is_empty(l, ReadyQueue[p]) <=> W[p] = {}
  <2> TAKE p \in Queues
  <2>1. l \in Lists /\ W[p] \in SUBSET Threads
    BY ZenonT(60) DEF Rings
  <2>2. Cardinality(W[p]) \in Nat
    BY <2>1, QueueLength, ZenonT(60)
  <2>3. PICK q \in [1 .. Cardinality(W[p]) -> W[p]] : RingOf(l, p, q, Cardinality(W[p]), W[p])
    BY ZenonT(60) DEF Rings
  <2> QED
    BY <2>1, <2>2, <2>3, EmptyRing, ZenonT(60)
<1>2. NonEmpty(l) = {p \in Queues : W[p] # {}} /\ NonEmpty(l) # {}
  BY <1>1, ZenonT(60) DEF NonEmpty
<1>3. NonEmpty(l) \in SUBSET Nat
  BY <1>2, NodesAssumption DEF Queues
<1> DEFINE p == CHOOSE x \in NonEmpty(l) : \A y \in NonEmpty(l) : x <= y
<1>4. p \in NonEmpty(l) /\ \A y \in NonEmpty(l) : p <= y
  BY <1>2, <1>3, LeastQueue, ZenonT(60)
<1> HIDE DEF p
<1>5. rr_get_next_ready(l) = l.next[ReadyQueue[p]]
  BY <1>2, ZenonT(60) DEF rr_get_next_ready, p
<1>6. AfterNextReady(l) = list_remove(l, rr_get_next_ready(l))
  BY <1>2, ZenonT(60) DEF AfterNextReady
<1>7. p \in Queues /\ W[p] # {}
  BY <1>2, <1>4, ZenonT(60)
<1>8. \A o \in Queues : o < p => W[o] = {}
  BY <1>2, <1>3, <1>4
<1>9. /\ rr_get_next_ready(l) \in W[p]
      /\ Rings(AfterNextReady(l), [W EXCEPT ![p] = @ \ {rr_get_next_ready(l)}])
  BY <1>5, <1>6, <1>7, RingsRemove
<1> QED
  BY <1>7, <1>8, <1>9, ZenonT(60)

-----------------------------------------------------------------------------
(* The inductive invariant *)

\* The started threads of priority p: those that wait and the current one.
Started(p) ==
  {t \in Threads : (\E i \in 1 .. enqueued : t = Tasks[i]) /\ sched_ctx[t].priority = p}

\* rr_init starts threads only after LIST_HEAD_INIT, and the current thread is
\* one of the started.
Progress ==
  /\ rr_pc = "off" => enqueued = 0
  /\ rr_pc = "run" => \E i \in 1 .. enqueued : current_thread = Tasks[i]

\* native_select_thread keeps the address space in step with current_proc.
SpaceOfProc ==
  IF rr_pc = "run"
  THEN /\ exec_ctx = current_thread
       /\ current_proc = ProcOf[current_thread]
       /\ cr3 = current_proc
  ELSE current_proc = NULL

Inv == TypeOK /\ QueuesSound /\ MostUrgentRuns /\ Progress /\ SpaceOfProc

SoundIsRings == QueuesSound <=> Rings(list, [p \in Queues |-> Waiting(p)])

\* QueuesSound says that the links list_add and list_remove leave are rings of
\* the waiting threads.
LEMMA SoundRings ==
  TypeOK /\ rr_pc # "off" => SoundIsRings
<1> SUFFICES ASSUME TypeOK, rr_pc # "off"
             PROVE  QueuesSound <=> Rings(list, [p \in Queues |-> Waiting(p)])
  BY ZenonT(60) DEF SoundIsRings
<1> DEFINE W == [p \in Queues |-> Waiting(p)]
<1>1. list \in Lists /\ W \in [Queues -> SUBSET Threads]
  BY ZenonT(60) DEF TypeOK, Lists, Waiting
<1>2. \A p, o \in Queues : p # o => W[p] \intersect W[o] = {}
  BY ZenonT(60) DEF Waiting
<1>3. \A p \in Queues : W[p] = Waiting(p) /\ Waiting(p) \in SUBSET Threads
  BY ZenonT(60) DEF Waiting
<1>4. \A p \in Queues : Cardinality(Waiting(p)) \in Nat
  BY <1>3, QueueLength, ZenonT(60)
<1> HIDE DEF W
<1>5. QueuesSound <=>
        \A p \in Queues :
          \E q \in [1 .. Cardinality(W[p]) -> W[p]] :
            RingOf(list, p, q, Cardinality(W[p]), W[p])
  BY <1>3, <1>4, ZenonT(60) DEF QueuesSound, RingOf
<1> QED
  BY <1>1, <1>2, <1>5, ZenonT(60) DEF Rings, W

\* The same of the state a step leads to.
LEMMA SoundRingsNext ==
  (TypeOK /\ rr_pc # "off" => SoundIsRings)'
BY SoundRings, PTL

\* Once all started threads are queued in l, taking the next one leaves the
\* others waiting and none of them more urgent than it.
LEMMA DispatchNext ==
  ASSUME NEW l, Rings(l, [p \in Queues |-> Started(p)]),
         \E p \in Queues : Started(p) # {},
         current_thread' = rr_get_next_ready(l),
         list' = AfterNextReady(l),
         enqueued' = enqueued,
         \A t \in Threads : sched_ctx'[t].priority = sched_ctx[t].priority
  PROVE  /\ current_thread' \in Threads
         /\ \E i \in 1 .. enqueued' : current_thread' = Tasks[i]
         /\ Rings(list', [p \in Queues |-> Waiting(p)'])
         /\ \A o \in Queues : o < sched_ctx'[current_thread'].priority => Waiting(o)' = {}
<1> DEFINE W == [p \in Queues |-> Started(p)]
<1>1. PICK p \in Queues :
        /\ rr_get_next_ready(l) \in W[p]
        /\ \A o \in Queues : o < p => W[o] = {}
        /\ Rings(AfterNextReady(l), [W EXCEPT ![p] = @ \ {rr_get_next_ready(l)}])
  BY NextReady, ZenonT(60)
<1>2. /\ current_thread' \in Threads
      /\ \E i \in 1 .. enqueued : current_thread' = Tasks[i]
      /\ sched_ctx[current_thread'].priority = p
  BY <1>1, ZenonT(60) DEF Started
<1>3. \A o \in Queues : Waiting(o)' = Started(o) \ {current_thread'}
  BY ZenonT(60) DEF Waiting, Started
<1>4. [W EXCEPT ![p] = @ \ {current_thread'}] = [o \in Queues |-> Waiting(o)']
  <2>1. \A o \in Queues \ {p} : current_thread' \notin Started(o)
    BY <1>2, ZenonT(60) DEF Started
  <2>2. \A o \in Queues : [W EXCEPT ![p] = @ \ {current_thread'}][o] = Waiting(o)'
    BY <1>3, <2>1
  <2> QED
    BY <2>2, ZenonT(60)
<1>5. \A o \in Queues : o < p => Waiting(o)' = {}
  BY <1>1, <1>3, ZenonT(60)
<1> QED
  BY <1>1, <1>2, <1>4, <1>5, ZenonT(60)

-----------------------------------------------------------------------------
(* Init and the steps *)

\* The invariant holds before rr_init.
LEMMA InitInv == Init => Inv
<1> SUFFICES ASSUME Init PROVE Inv
  BY ZenonT(60)
<1>1. TypeOK
  <2>1. list \in [next : Links, prev : Links]
    BY ZenonT(60) DEF Init, Links
  <2>2. sched_ctx \in [Threads -> SchedCtx]
    BY TimeAssumption DEF Init, SchedCtx
  <2>3. no_tasks \in 1 .. Len(Tasks) /\ enqueued \in 0 .. no_tasks
    BY TasksAssumption DEF Init
  <2> QED
    BY <2>1, <2>2, <2>3, ZenonT(60) DEF Init, TypeOK
<1>2. QueuesSound /\ MostUrgentRuns /\ Progress /\ SpaceOfProc
  BY ZenonT(60) DEF Init, QueuesSound, MostUrgentRuns, Progress, SpaceOfProc
<1> QED
  BY <1>1, <1>2, ZenonT(60) DEF Inv

\* LIST_HEAD_INIT makes every queue an empty ring.
LEMMA InitQueuesInv == Inv /\ rr_init_queues => Inv'
<1> SUFFICES ASSUME Inv, rr_init_queues PROVE Inv'
  BY ZenonT(60)
<1> USE DEF Inv, rr_init_queues
<1>1. list' \in [next : Links, prev : Links] /\ \A h \in Heads : list'.next[h] = h /\ list'.prev[h] = h
  BY ZenonT(60) DEF TypeOK, Links, Nodes
<1>2. TypeOK'
  BY <1>1, ZenonT(60) DEF TypeOK, archVars, Links, Nodes, SchedCtx
<1>3. QueuesSound'
  <2>1. \A p \in Queues : Waiting(p)' = {}
    BY DEF Progress, Waiting
  <2>2. ASSUME NEW p \in Queues
        PROVE  \E q \in [1 .. 0 -> {}] : IsOrder(q, 0, {}) /\ LinkedAs(list', p, q, 0)
    <3> DEFINE q == [i \in 1 .. 0 |-> p]
    <3>1. q \in [1 .. 0 -> {}]
      OBVIOUS
    <3>2. IsOrder(q, 0, {})
      BY DEF IsOrder
    <3>3. ReadyQueue[p] \in Heads
      BY ZenonT(60) DEF Heads
    <3>4. LinkedAs(list', p, q, 0)
      BY <1>1, <3>3 DEF LinkedAs, RingNode
    <3> QED
      BY <3>1, <3>2, <3>4, ZenonT(60)
  <2> QED
    BY <2>1, <2>2, FS_EmptySet, ZenonT(60) DEF QueuesSound
<1>4. MostUrgentRuns' /\ Progress' /\ SpaceOfProc'
  BY ZenonT(60) DEF MostUrgentRuns, Progress, SpaceOfProc, archVars
<1> QED
  BY <1>2, <1>3, <1>4, ZenonT(60)

\* rr_enqueue puts the next task behind the waiting threads of its priority.
LEMMA InitEnqueueInv == Inv /\ rr_init_enqueue => Inv'
<1> SUFFICES ASSUME Inv, rr_init_enqueue PROVE Inv'
  BY ZenonT(60)
<1> DEFINE t == Tasks[enqueued + 1]
           p == sched_ctx[t].priority
           W == [o \in Queues |-> Waiting(o)]
<1>1. /\ TypeOK /\ rr_pc = "enqueue" /\ current_thread = NULL
      /\ no_tasks \in 1 .. Len(Tasks) /\ enqueued \in 0 .. no_tasks /\ enqueued < no_tasks
  BY ZenonT(60) DEF Inv, TypeOK, rr_init_enqueue
<1>2. /\ enqueued + 1 \in 1 .. Len(Tasks) /\ Len(Tasks) \in Nat
      /\ t \in Threads /\ NULL \notin Threads
  BY <1>1, TasksAssumption, NodesAssumption DEF Nodes
<1>3. p \in Queues /\ sched_ctx \in [Threads -> SchedCtx]
  BY <1>1, <1>2, ZenonT(60) DEF TypeOK, SchedCtx
<1>4. /\ sched_ctx' \in [Threads -> SchedCtx]
      /\ \A u \in Threads : sched_ctx'[u].priority = sched_ctx[u].priority
  BY ZenonT(60), <1>3, TimeAssumption
     DEF rr_init_enqueue, ToReadyCtx, rr_quant_from_prio, SchedCtx
<1>5. Rings(list, W)
  BY <1>1, SoundRings, ZenonT(60) DEF Inv, SoundIsRings
<1>6. \A o \in Queues : t \notin W[o]
  BY <1>1, <1>2, TasksAssumption DEF Waiting
<1>7. list' = list_add(list, t, list.prev[ReadyQueue[p]])
  BY ZenonT(60) DEF rr_init_enqueue, ToReadyList
<1>8. Rings(list', [W EXCEPT ![p] = @ \union {t}])
  BY <1>2, <1>3, <1>5, <1>6, <1>7, RingsAdd, ZenonT(60)
<1>9. [W EXCEPT ![p] = @ \union {t}] = [o \in Queues |-> Waiting(o)']
  <2>1. enqueued' = enqueued + 1 /\ current_thread' = NULL
    BY <1>1, ZenonT(60) DEF rr_init_enqueue
  <2>2. \A u : (\E i \in 1 .. enqueued' : u = Tasks[i])
                 <=> u = t \/ (\E i \in 1 .. enqueued : u = Tasks[i])
    BY <1>1, <2>1
  <2>3. \A o \in Queues : Waiting(o)' = IF o = p THEN Waiting(o) \union {t} ELSE Waiting(o)
    BY <1>1, <1>2, <1>4, <2>1, <2>2 DEF Waiting
  <2> QED
    BY <2>3, ZenonT(60)
<1>10. TypeOK'
  <2>1. list' \in [next : Links, prev : Links]
    BY <1>8, ZenonT(60) DEF Rings, Lists
  <2>2. enqueued' \in 0 .. no_tasks'
    BY <1>1 DEF rr_init_enqueue
  <2> QED
    BY <1>1, <1>4, <2>1, <2>2, ZenonT(60) DEF TypeOK, rr_init_enqueue, archVars
<1>11. QueuesSound'
  <2>1. rr_pc' # "off"
    BY <1>1, ZenonT(60) DEF rr_init_enqueue
  <2>2. SoundIsRings'
    BY <1>10, <2>1, SoundRingsNext, ZenonT(60)
  <2> QED
    BY <1>8, <1>9, <2>2, ZenonT(60) DEF SoundIsRings
<1>12. MostUrgentRuns' /\ Progress' /\ SpaceOfProc'
  BY <1>1, ZenonT(60) DEF Inv, MostUrgentRuns, Progress, SpaceOfProc, rr_init_enqueue, archVars
<1> QED
  BY <1>10, <1>11, <1>12, ZenonT(60) DEF Inv

\* The first thread rr_init selects is the most urgent, and its address space
\* is loaded.
LEMMA InitSelectInv == Inv /\ rr_init_select => Inv'
<1> SUFFICES ASSUME Inv, rr_init_select PROVE Inv'
  BY ZenonT(60)
<1>1. /\ TypeOK /\ rr_pc = "enqueue" /\ current_thread = NULL /\ current_proc = NULL
      /\ no_tasks \in 1 .. Len(Tasks) /\ enqueued = no_tasks
      /\ rr_pc' = "run" /\ enqueued' = enqueued /\ no_tasks' = no_tasks
      /\ sched_ctx' = sched_ctx
  BY ZenonT(60) DEF Inv, TypeOK, SpaceOfProc, rr_init_select
<1>2. /\ 1 \in 1 .. enqueued /\ 1 \in 1 .. Len(Tasks) /\ Len(Tasks) \in Nat
      /\ Tasks[1] \in Threads /\ NULL \notin Threads
  BY <1>1, TasksAssumption, NodesAssumption DEF Nodes
<1>3. sched_ctx[Tasks[1]].priority \in Queues
  BY <1>1, <1>2, ZenonT(60) DEF TypeOK, SchedCtx
<1>4. \E p \in Queues : Started(p) # {}
  BY <1>2, <1>3, ZenonT(60) DEF Started
<1>5. \A p \in Queues : Waiting(p) = Started(p)
  BY <1>1, <1>2, ZenonT(60) DEF Waiting, Started
<1>6. Rings(list, [p \in Queues |-> Started(p)])
  <2>1. Rings(list, [p \in Queues |-> Waiting(p)])
    BY <1>1, SoundRings, ZenonT(60) DEF Inv, SoundIsRings
  <2>2. [p \in Queues |-> Waiting(p)] = [p \in Queues |-> Started(p)]
    BY <1>5, ZenonT(60)
  <2> QED
    BY <2>1, <2>2, ZenonT(60)
<1>7. current_thread' = rr_get_next_ready(list) /\ list' = AfterNextReady(list)
  BY ZenonT(60) DEF rr_init_select
<1>8. /\ current_thread' \in Threads
      /\ \E i \in 1 .. enqueued' : current_thread' = Tasks[i]
      /\ Rings(list', [p \in Queues |-> Waiting(p)'])
      /\ \A o \in Queues : o < sched_ctx'[current_thread'].priority => Waiting(o)' = {}
  BY <1>1, <1>4, <1>6, <1>7, DispatchNext, ZenonT(60)
<1>9. /\ exec_ctx' = current_thread'
      /\ current_proc' = ProcOf[current_thread'] /\ current_proc' \in Procs
      /\ cr3' = current_proc'
  BY <1>1, <1>7, <1>8, ProcsAssumption, ZenonT(60) DEF rr_init_select, native_select_thread
<1>10. TypeOK'
  <2>1. list' \in [next : Links, prev : Links]
    BY <1>8, ZenonT(60) DEF Rings, Lists
  <2> QED
    BY <1>1, <1>8, <1>9, <2>1, ZenonT(60) DEF TypeOK
<1>11. QueuesSound'
  BY <1>1, <1>8, <1>10, SoundRingsNext, ZenonT(60) DEF SoundIsRings
<1>12. MostUrgentRuns' /\ Progress' /\ SpaceOfProc'
  BY <1>1, <1>8, <1>9, ZenonT(60) DEF MostUrgentRuns, Progress, SpaceOfProc
<1> QED
  BY <1>10, <1>11, <1>12, ZenonT(60) DEF Inv

\* rr_schedule with an expired quantum: the current thread goes behind the
\* others of its priority and the most urgent one is selected.
LEMMA ExpiredInv ==
  ASSUME Inv, rr_tick_handler, NEW ctx \in [Threads -> SchedCtx],
         \A u \in Threads : ctx[u].priority = sched_ctx[u].priority,
         ctx[current_thread].quantum_nsec = 0, rr_schedule(ctx)
  PROVE  Inv'
<1> DEFINE t == current_thread
           p == sched_ctx[t].priority
           W == [o \in Queues |-> Waiting(o)]
           ready == ToReadyList(list, t)
<1>1. /\ TypeOK /\ rr_pc = "run" /\ rr_pc' = "run" /\ t \in Threads /\ t # NULL
      /\ no_tasks' = no_tasks /\ enqueued' = enqueued
      /\ no_tasks \in 1 .. Len(Tasks) /\ enqueued \in 0 .. no_tasks
      /\ \E i \in 1 .. enqueued : t = Tasks[i]
      /\ exec_ctx = t /\ current_proc = ProcOf[t] /\ cr3 = current_proc
  BY ZenonT(60) DEF Inv, TypeOK, Progress, SpaceOfProc, rr_tick_handler, initVars
<1>2. p \in Queues
  BY <1>1, ZenonT(60) DEF TypeOK, SchedCtx
<1>3. /\ sched_ctx' \in [Threads -> SchedCtx]
      /\ \A u \in Threads : sched_ctx'[u].priority = sched_ctx[u].priority
  <2>1. sched_ctx' = ToReadyCtx(ctx, t)
    BY ZenonT(60) DEF rr_schedule
  <2> QED
    BY <2>1, <1>1, ZenonT(60) DEF ToReadyCtx, SchedCtx
<1>4. /\ current_thread' = rr_get_next_ready(ready) /\ list' = AfterNextReady(ready)
      /\ IF current_thread' # t THEN native_select_thread(current_thread')
                                ELSE UNCHANGED archVars
  BY ZenonT(60) DEF rr_schedule
<1>5. Rings(list, W)
  BY <1>1, SoundRings, ZenonT(60) DEF Inv, SoundIsRings
<1>6. \A o \in Queues : t \notin W[o]
  BY ZenonT(60) DEF Waiting
<1>7. Rings(ready, [W EXCEPT ![p] = @ \union {t}])
  BY <1>1, <1>2, <1>5, <1>6, RingsAdd, ZenonT(60) DEF ToReadyList
<1>8. [W EXCEPT ![p] = @ \union {t}] = [o \in Queues |-> Started(o)]
  <2>1. \A o \in Queues : Started(o) = IF o = p THEN Waiting(o) \union {t} ELSE Waiting(o)
    BY <1>1, ZenonT(60) DEF Waiting, Started
  <2> QED
    BY <2>1, ZenonT(60)
<1>9. \E o \in Queues : Started(o) # {}
  BY <1>1, <1>2, ZenonT(60) DEF Started
<1>10. Rings(ready, [o \in Queues |-> Started(o)])
  BY <1>7, <1>8, ZenonT(60)
<1> HIDE DEF ready
<1>11. /\ current_thread' \in Threads
       /\ \E i \in 1 .. enqueued' : current_thread' = Tasks[i]
       /\ Rings(list', [o \in Queues |-> Waiting(o)'])
       /\ \A o \in Queues : o < sched_ctx'[current_thread'].priority => Waiting(o)' = {}
  BY <1>1, <1>3, <1>4, <1>9, <1>10, DispatchNext, ZenonT(60)
<1>12. /\ exec_ctx' = current_thread'
       /\ current_proc' = ProcOf[current_thread'] /\ current_proc' \in Procs
       /\ cr3' = current_proc'
  BY <1>1, <1>4, <1>11, ProcsAssumption DEF native_select_thread, archVars
<1>13. TypeOK'
  <2>1. list' \in [next : Links, prev : Links]
    BY <1>11, ZenonT(60) DEF Rings, Lists
  <2> QED
    BY <1>1, <1>3, <1>11, <1>12, <2>1, ZenonT(60) DEF TypeOK
<1>14. QueuesSound'
  BY <1>1, <1>11, <1>13, SoundRingsNext, ZenonT(60) DEF SoundIsRings
<1>15. MostUrgentRuns' /\ Progress' /\ SpaceOfProc'
  BY <1>1, <1>11, <1>12, ZenonT(60) DEF MostUrgentRuns, Progress, SpaceOfProc
<1> QED
  BY <1>13, <1>14, <1>15, ZenonT(60) DEF Inv

\* A tick that does not use up the quantum changes nothing but the quantum.
LEMMA TickInv == Inv /\ rr_tick_handler => Inv'
<1> SUFFICES ASSUME Inv, rr_tick_handler PROVE Inv'
  BY ZenonT(60)
<1> DEFINE left == time_sub_nsec(sched_ctx[current_thread].quantum_nsec, TickNsec)
           ctx == [sched_ctx EXCEPT ![current_thread].quantum_nsec = left]
<1>1. /\ TypeOK /\ rr_pc = "run" /\ current_thread \in Threads
      /\ sched_ctx \in [Threads -> SchedCtx]
  BY ZenonT(60) DEF Inv, TypeOK, rr_tick_handler
<1>2. left \in Nat
  BY <1>1, TimeAssumption DEF time_sub_nsec, SchedCtx
<1>3. rr_schedule(ctx) /\ UNCHANGED initVars
  BY ZenonT(60) DEF rr_tick_handler
<1> HIDE DEF left
<1>4. /\ ctx \in [Threads -> SchedCtx]
      /\ \A u \in Threads : ctx[u].priority = sched_ctx[u].priority
  BY <1>1, <1>2, ZenonT(60) DEF SchedCtx
<1> HIDE DEF ctx
<1>5. CASE ctx[current_thread].quantum_nsec = 0
  BY <1>3, <1>4, <1>5, ExpiredInv, ZenonT(60)
<1>6. CASE ctx[current_thread].quantum_nsec # 0
  <2>1. /\ sched_ctx' = ctx
        /\ UNCHANGED <<no_tasks, rr_pc, enqueued, list, current_thread,
                       exec_ctx, current_proc, cr3>>
    BY <1>3, <1>6, ZenonT(60) DEF rr_schedule, initVars, archVars
  <2>2. TypeOK'
    BY <1>1, <1>4, <2>1, ZenonT(60) DEF TypeOK
  <2>3. \A p \in Queues : Waiting(p)' = Waiting(p)
    BY <1>4, <2>1, ZenonT(60) DEF Waiting
  <2>4. QueuesSound'
    <3>1. [p \in Queues |-> Waiting(p)'] = [p \in Queues |-> Waiting(p)]
      BY <2>3, ZenonT(60)
    <3>2. Rings(list, [p \in Queues |-> Waiting(p)])
      BY <1>1, SoundRings, ZenonT(60) DEF Inv, SoundIsRings
    <3> QED
      BY <1>1, <2>1, <2>2, <3>1, <3>2, SoundRingsNext, ZenonT(60) DEF SoundIsRings
  <2>5. MostUrgentRuns' /\ Progress' /\ SpaceOfProc'
    BY <1>1, <1>4, <2>1, <2>3, ZenonT(60) DEF Inv, MostUrgentRuns, Progress, SpaceOfProc
  <2> QED
    BY <2>2, <2>4, <2>5, ZenonT(60) DEF Inv
<1> QED
  BY <1>5, <1>6, ZenonT(60)

\* A step that leaves the scheduler alone keeps its invariant.
LEMMA StutterInv == Inv /\ UNCHANGED schedVars => Inv'
<1> SUFFICES ASSUME Inv, UNCHANGED schedVars PROVE Inv'
  BY ZenonT(60)
<1> USE DEF schedVars, initVars, archVars
<1>1. TypeOK' /\ MostUrgentRuns' /\ Progress' /\ SpaceOfProc'
  BY ZenonT(60) DEF Inv, TypeOK, MostUrgentRuns, Waiting, Progress, SpaceOfProc
<1>2. CASE rr_pc = "off"
  BY <1>1, <1>2, ZenonT(60) DEF Inv, QueuesSound
<1>3. CASE rr_pc # "off"
  <2>1. [p \in Queues |-> Waiting(p)'] = [p \in Queues |-> Waiting(p)]
    BY ZenonT(60) DEF Waiting
  <2>2. Rings(list, [p \in Queues |-> Waiting(p)])
    BY <1>3, SoundRings, ZenonT(60) DEF Inv, SoundIsRings
  <2> QED
    BY <1>1, <1>3, <2>1, <2>2, SoundRingsNext, ZenonT(60) DEF Inv, SoundIsRings
<1> QED
  BY <1>2, <1>3, ZenonT(60)

-----------------------------------------------------------------------------
(* The theorems *)

\* The invariant holds in every state of the scheduler, however many threads
\* load_boot_modules creates and whatever their priorities.
THEOREM Invariance == Spec => []Inv
<1>1. Inv /\ [Next]_schedVars => Inv'
  BY StutterInv, InitQueuesInv, InitEnqueueInv, InitSelectInv, TickInv, ZenonT(60) DEF Next, rr_init
<1> QED
  BY <1>1, InitInv, PTL DEF Spec

\* Type correctness: in particular rr_get_next_ready never returns NULL while
\* the scheduler runs, and time_sub_nsec never goes below zero.
THEOREM TypeCorrect == Spec => []TypeOK
<1>1. Inv => TypeOK
  BY ZenonT(60) DEF Inv
<1> QED
  BY <1>1, Invariance, PTL

\* list_add and list_remove keep every ready queue a ring of exactly the threads
\* that wait in it.
THEOREM QueuesStaySound == Spec => []QueuesSound
<1>1. Inv => QueuesSound
  BY ZenonT(60) DEF Inv
<1> QED
  BY <1>1, Invariance, PTL

\* rr_get_next_ready never leaves a more urgent thread waiting.
THEOREM UrgencyRespected == Spec => []MostUrgentRuns
<1>1. Inv => MostUrgentRuns
  BY ZenonT(60) DEF Inv
<1> QED
  BY <1>1, Invariance, PTL

\* native_select_thread keeps the execution context and the address space those
\* of the current thread.
THEOREM SelectionCorrect == Spec => []SelectedIsCurrent
<1>1. Inv => SelectedIsCurrent
  BY ZenonT(60) DEF Inv, SpaceOfProc, SelectedIsCurrent
<1> QED
  BY <1>1, Invariance, PTL
=============================================================================
