----------------------------- MODULE RoundRobin -----------------------------
(***************************************************************************)
(* What the scheduler promises, with no lists, links or clock: every       *)
(* priority has a first-in first-out queue of waiting threads, one thread  *)
(* runs, and a preempted thread goes behind the others of its priority     *)
(* before the head of the most urgent non-empty queue runs.  Priority 0 is *)
(* the most urgent.  SchedRefinement shows that SchedRR implements this.   *)
(***************************************************************************)
EXTENDS Naturals, Sequences

CONSTANTS Threads,      \* the threads there are
          NumQueues,    \* number of priorities
          None          \* no thread

VARIABLES prio,         \* priority of each thread, fixed from the start
          ready,        \* the waiting threads of each priority, in order
          running       \* the thread that runs, None before the first one

rrVars == <<prio, ready, running>>

Queues == 0 .. NumQueues - 1

\* The most urgent priority that has a waiting thread.
Urgent(q) ==
  CHOOSE p \in Queues : q[p] # <<>> /\ \A o \in Queues : q[o] # <<>> => p <= o

Waiting(t) == \E p \in Queues : \E i \in DOMAIN ready[p] : ready[p][i] = t

Init == /\ prio \in [Threads -> Queues]
        /\ ready = [p \in Queues |-> <<>>]
        /\ running = None

\* A thread that is not known to the scheduler yet joins its queue.
Admit(t) == /\ running = None
            /\ ~ Waiting(t)
            /\ ready' = [ready EXCEPT ![prio[t]] = Append(@, t)]
            /\ UNCHANGED <<prio, running>>

\* The head of the most urgent queue of q runs; the rest of q waits.
Dispatch(q) == /\ \E p \in Queues : q[p] # <<>>
               /\ running' = Head(q[Urgent(q)])
               /\ ready' = [q EXCEPT ![Urgent(q)] = Tail(@)]
               /\ UNCHANGED prio

Start == running = None /\ Dispatch(ready)

Preempt == /\ running # None
           /\ Dispatch([ready EXCEPT ![prio[running]] = Append(@, running)])

Next == (\E t \in Threads : Admit(t)) \/ Start \/ Preempt

Spec == Init /\ [][Next]_rrVars
=============================================================================
