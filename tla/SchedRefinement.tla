-------------------------- MODULE SchedRefinement --------------------------
(***************************************************************************)
(* SchedRR implements RoundRobin: the waiting threads of a priority are    *)
(* those met when the links are followed from the head of its queue.       *)
(***************************************************************************)
EXTENDS SchedRR

\* The nodes after the head of queue p in the links l, until the head is back.
Hop(l, p) ==
  LET head == ReadyQueue[p]
      hop[i \in Nat] == IF i = 0 THEN l.next[head]
                        ELSE IF hop[i - 1] = head THEN head ELSE l.next[hop[i - 1]]
  IN hop

\* The threads linked in queue p, first to last.
Walk(l, p) ==
  LET hop == Hop(l, p)
      back == {i \in 0 .. Cardinality(Threads) : hop[i] = ReadyQueue[p]}
      n == CHOOSE i \in back : \A j \in back : i <= j
  IN IF back = {} THEN <<>> ELSE [i \in 1 .. n |-> hop[i - 1]]

\* Before LIST_HEAD_INIT no thread is linked.
ReadyQueues == [p \in Queues |-> IF rr_pc = "off" THEN <<>> ELSE Walk(list, p)]

RR == INSTANCE RoundRobin WITH
        NumQueues <- READY_QUEUE_LEN,
        None      <- NULL,
        prio      <- [t \in Threads |-> sched_ctx[t].priority],
        ready     <- ReadyQueues,
        running   <- current_thread

\* The linked-list scheduler takes only steps of the queue policy: first in,
\* first out within a priority, the most urgent queue first, and a thread
\* whose quantum is over goes behind the others of its priority.
ImplementsRoundRobin == RR!Spec
=============================================================================
