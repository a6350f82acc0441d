------------------------------ MODULE SchedRR ------------------------------
(***************************************************************************)
(* The round-robin scheduler (kern/sched_rr.c) on the intrusive list of    *)
(* kern/list.h, with the thread selection of arch/i686/thread.c.           *)
(*                                                                         *)
(* A list node is the lst_hdr_t inside a tcb_t.  The nodes are the         *)
(* READY_QUEUE_LEN queue heads and the threads, and all links are kept in  *)
(* one record "list" of two functions, so that the list operations read    *)
(* and write links in the order of the C statements.  The scheduler runs   *)
(* with interrupts disabled on one processor: a call of rr_tick_handler is *)
(* one step, and the loop of rr_init is one step per thread.               *)
(*                                                                         *)
(* current_sched_ctx (line 32) is written and never read; it is left out.  *)
(* nsec_to_next_tick (line 34) is never written; it is 0.                  *)
(***************************************************************************)
EXTENDS Naturals, Sequences, FiniteSets

CONSTANTS
  Threads,          \* boot_processes_threads
  Tasks,            \* the threads in the order of boot_processes
  Procs, ProcOf,    \* processes, and tcb->proc of every thread
  READY_QUEUE_LEN,  \* number of ready queues
  ReadyQueue,       \* ready_queue: the head node of every queue
  Priorities,       \* priorities threads are created with
  Quantum,          \* what rr_quant_from_prio returns, in nanoseconds
  TickNsec,         \* what sched_tick_nsec returns
  BootPageDir,      \* boot_page_directory
  NULL

Queues == 0 .. READY_QUEUE_LEN - 1
Heads == {ReadyQueue[p] : p \in Queues}
Nodes == Heads \union Threads

ASSUME NodesAssumption ==
  /\ READY_QUEUE_LEN \in Nat
  /\ IsFiniteSet(Threads)
  /\ DOMAIN ReadyQueue = Queues
  /\ \A p, q \in Queues : ReadyQueue[p] = ReadyQueue[q] => p = q
  /\ Heads \intersect Threads = {}
  /\ NULL \notin Nodes
ASSUME TasksAssumption ==
  /\ Tasks \in Seq(Threads)
  /\ \A i, j \in 1 .. Len(Tasks) : Tasks[i] = Tasks[j] => i = j
ASSUME ProcsAssumption ==
  /\ ProcOf \in [Threads -> Procs]
  /\ NULL \notin Procs
ASSUME TimeAssumption ==
  /\ Priorities \subseteq Queues
  /\ Quantum \in Nat \ {0}
  /\ TickNsec \in Nat \ {0}

VARIABLES
  no_tasks,         \* argument of sched_init: how many tasks are started
  rr_pc,            \* "off", "enqueue" (inside rr_init), "run"
  enqueued,         \* the loop counter of rr_init
  list,             \* the links of all nodes
  sched_ctx,        \* the tcb_sched_ctx_t of every thread
  current_thread,
  exec_ctx,         \* owner of __current_thread_execution_ctx
  current_proc,
  cr3               \* owner of the page directory the processor uses

initVars == <<no_tasks, rr_pc, enqueued>>
archVars == <<exec_ctx, current_proc, cr3>>
schedVars == <<initVars, list, sched_ctx, current_thread, archVars>>

-----------------------------------------------------------------------------
(* kern/list.h *)

list_add(l, new, head) ==
  LET head_next == l.next[head]
  IN [next |-> [[l.next EXCEPT ![head] = new] EXCEPT ![new] = head_next],
      prev |-> [[l.prev EXCEPT ![head_next] = new] EXCEPT ![new] = head]]

\* Mutant: the node before the removed one still points to it.
list_remove_HalfUnlinked(l, hdr) ==
  [next |-> l.next, prev |-> [l.prev EXCEPT ![l.next[hdr]] = l.prev[hdr]]]

\* The removed node keeps its own links.
list_remove(l, hdr) ==
  LET prev == [l.prev EXCEPT ![l.next[hdr]] = l.prev[hdr]]
  IN [next |-> [l.next EXCEPT ![prev[hdr]] = l.next[hdr]], prev |-> prev]

list_is_empty(l, hdr) == l.next[hdr] = hdr /\ l.prev[hdr] = hdr

-----------------------------------------------------------------------------
(* kern/sched_rr.c and kern/time.h *)

\* Mutant: the subtraction does not stop at zero.
time_sub_nsec_Unchecked(tv_nsec, nsec) == tv_nsec - nsec

time_sub_nsec(tv_nsec, nsec) == IF tv_nsec > nsec THEN tv_nsec - nsec ELSE 0

rr_quant_from_prio(priority) == Quantum

\* Mutant: the thread goes to the front of its queue.
ToReadyList_AtFront(l, tcb) ==
  list_add(l, tcb, ReadyQueue[sched_ctx[tcb].priority])

\* rr_move_to_ready links the thread behind the last node of its queue ...
ToReadyList(l, tcb) ==
  list_add(l, tcb, l.prev[ReadyQueue[sched_ctx[tcb].priority]])

\* ... and marks it.
ToReadyCtx(ctx, tcb) == [ctx EXCEPT ![tcb].state = "READY"]

NonEmpty(l) == {p \in Queues : ~ list_is_empty(l, ReadyQueue[p])}

\* Mutant: the queues are searched from the least urgent one.
rr_get_next_ready_LeastUrgent(l) ==
  IF NonEmpty(l) = {} THEN NULL
  ELSE l.next[ReadyQueue[CHOOSE p \in NonEmpty(l) : \A q \in NonEmpty(l) : p >= q]]

\* rr_get_next_ready: the first node of the first non-empty queue, which
\* list_next also removes (AfterNextReady), or NULL.
rr_get_next_ready(l) ==
  IF NonEmpty(l) = {} THEN NULL
  ELSE l.next[ReadyQueue[CHOOSE p \in NonEmpty(l) : \A q \in NonEmpty(l) : p <= q]]

AfterNextReady(l) ==
  IF NonEmpty(l) = {} THEN l ELSE list_remove(l, rr_get_next_ready(l))

\* Mutant: the address space is loaded for the first process only.
native_select_thread_StaleSpace(tcb) ==
  /\ exec_ctx' = tcb
  /\ current_proc' = ProcOf[tcb]
  /\ cr3' = IF current_proc = NULL THEN ProcOf[tcb] ELSE cr3

\* native_select_thread: the context the kernel returns to, and the address
\* space, loaded only when the process changes.
native_select_thread(tcb) ==
  /\ exec_ctx' = tcb
  /\ current_proc' = ProcOf[tcb]
  /\ cr3' = IF ProcOf[tcb] # current_proc THEN ProcOf[tcb] ELSE cr3

\* rr_schedule, called with the scheduling contexts ctx.
rr_schedule(ctx) ==
  IF ctx[current_thread].quantum_nsec = 0
  THEN LET ready == ToReadyList(list, current_thread)
           next == rr_get_next_ready(ready)
       IN /\ sched_ctx' = ToReadyCtx(ctx, current_thread)
          /\ list' = AfterNextReady(ready)
          /\ current_thread' = next
          /\ IF next # current_thread
             THEN native_select_thread(next)
             ELSE UNCHANGED archVars
  ELSE /\ sched_ctx' = ctx
       /\ UNCHANGED <<list, current_thread, archVars>>

-----------------------------------------------------------------------------
(* rr_init *)

\* LIST_HEAD_INIT on every queue.
rr_init_queues ==
  /\ rr_pc = "off"
  /\ rr_pc' = "enqueue"
  /\ LET self(links) == [n \in Nodes |-> IF n \in Heads THEN n ELSE links[n]]
     IN list' = [next |-> self(list.next), prev |-> self(list.prev)]
  /\ UNCHANGED <<no_tasks, enqueued, sched_ctx, current_thread, archVars>>

\* rr_enqueue on the next task.
rr_init_enqueue ==
  /\ rr_pc = "enqueue"
  /\ enqueued < no_tasks
  /\ LET tcb == Tasks[enqueued + 1]
         priority == sched_ctx[tcb].priority
         ctx == [sched_ctx EXCEPT ![tcb].quantum_nsec = rr_quant_from_prio(priority)]
     IN /\ list' = ToReadyList(list, tcb)
        /\ sched_ctx' = ToReadyCtx(ctx, tcb)
  /\ enqueued' = enqueued + 1
  /\ UNCHANGED <<no_tasks, rr_pc, current_thread, archVars>>

\* The first thread is taken from its queue and selected.
rr_init_select ==
  /\ rr_pc = "enqueue"
  /\ enqueued = no_tasks
  /\ rr_pc' = "run"
  /\ current_thread' = rr_get_next_ready(list)
  /\ list' = AfterNextReady(list)
  /\ native_select_thread(rr_get_next_ready(list))
  /\ UNCHANGED <<no_tasks, enqueued, sched_ctx>>

rr_init == rr_init_queues \/ rr_init_enqueue \/ rr_init_select

\* A timer interrupt.  Without a current thread the handler does nothing.
rr_tick_handler ==
  /\ rr_pc = "run"
  /\ current_thread # NULL
  /\ LET left == time_sub_nsec(sched_ctx[current_thread].quantum_nsec, TickNsec)
     IN rr_schedule([sched_ctx EXCEPT ![current_thread].quantum_nsec = left])
  /\ UNCHANGED initVars

-----------------------------------------------------------------------------
\* The tables load_boot_modules has filled: zeroed threads with a priority.
Init ==
  /\ no_tasks \in 1 .. Len(Tasks)
  /\ rr_pc = "off"
  /\ enqueued = 0
  /\ list = [next |-> [n \in Nodes |-> NULL], prev |-> [n \in Nodes |-> NULL]]
  /\ sched_ctx \in [Threads -> [priority : Priorities, state : {"NONE"}, quantum_nsec : {0}]]
  /\ current_thread = NULL
  /\ exec_ctx = NULL
  /\ current_proc = NULL
  /\ cr3 = BootPageDir

Next == rr_init \/ rr_tick_handler

Spec == Init /\ [][Next]_schedVars

\* rr_init runs to its end, and the timer keeps interrupting: the PIT is in a
\* periodic mode and no code of the kernel masks IRQ 0 again.
FairSpec == Spec /\ WF_schedVars(rr_init) /\ WF_schedVars(rr_tick_handler)

-----------------------------------------------------------------------------
(* Properties *)

SchedCtx == [priority : Queues, state : {"NONE", "READY"}, quantum_nsec : Nat]
Links == [Nodes -> Nodes \union {NULL}]

\* Every variable has its type; once rr_init is over there is a current thread.
TypeOK ==
  /\ no_tasks \in 1 .. Len(Tasks)
  /\ rr_pc \in {"off", "enqueue", "run"}
  /\ enqueued \in 0 .. no_tasks
  /\ list \in [next : Links, prev : Links]
  /\ sched_ctx \in [Threads -> SchedCtx]
  /\ IF rr_pc = "run" THEN current_thread \in Threads ELSE current_thread = NULL
  /\ exec_ctx \in Threads \union {NULL}
  /\ current_proc \in Procs \union {NULL}
  /\ cr3 \in Procs \union {BootPageDir}

\* The threads that have to wait in queue p.
Waiting(p) ==
  {t \in Threads : /\ \E i \in 1 .. enqueued : t = Tasks[i]
                   /\ t # current_thread
                   /\ sched_ctx[t].priority = p}

\* q lists the n members of S, each once.
IsOrder(q, n, S) ==
  /\ \A i, j \in 1 .. n : q[i] = q[j] => i = j
  /\ \A t \in S : \E i \in 1 .. n : q[i] = t

\* The node at position i of the ring of queue p that holds q (n long): its
\* head is both before the first and behind the last thread.
RingNode(p, q, n, i) == IF i \in 1 .. n THEN q[i] ELSE ReadyQueue[p]

LinkedAs(l, p, q, n) ==
  \A i \in 0 .. n :
    /\ l.next[RingNode(p, q, n, i)] = RingNode(p, q, n, i + 1)
    /\ l.prev[RingNode(p, q, n, i + 1)] = RingNode(p, q, n, i)

\* The links of every ready queue (list.h) are one ring through its head that
\* holds exactly the started threads of that priority except the current one,
\* each once: no sequence of rr_move_to_ready and rr_get_next_ready loses a
\* thread, links it twice or leaves the running thread linked, although
\* list_remove leaves stale links in the removed node.
QueuesSound ==
  rr_pc # "off" =>
    \A p \in Queues :
      LET n == Cardinality(Waiting(p))
      IN \E q \in [1 .. n -> Waiting(p)] :
           IsOrder(q, n, Waiting(p)) /\ LinkedAs(list, p, q, n)

\* No thread waits that is more urgent than the one that runs: rr_get_next_ready
\* serves priority 0 first, and a tick never prefers a less urgent thread.
MostUrgentRuns ==
  rr_pc = "run" =>
    \A p \in Queues : p < sched_ctx[current_thread].priority => Waiting(p) = {}

\* The context the kernel will return to and the address space in cr3 are those
\* of the thread the scheduler regards as current, although rr_schedule calls
\* native_select_thread only for a new thread and that reloads cr3 only for a
\* new process.
SelectedIsCurrent ==
  rr_pc = "run" => /\ exec_ctx = current_thread
                   /\ cr3 = ProcOf[current_thread]

\* A started thread that no started thread exceeds in urgency runs again and
\* again, for as long as the timer interrupts.
MostUrgent(t) ==
  \E i \in 1 .. no_tasks :
    /\ Tasks[i] = t
    /\ \A j \in 1 .. no_tasks :
         sched_ctx[t].priority <= sched_ctx[Tasks[j]].priority

MostUrgentNeverStarve ==
  \A t \in Threads : []<>(MostUrgent(t) => current_thread = t)

\* A thread that gets the processor has time left on its quantum: the scheduler
\* is documented as "RR scheduler with varying quantum sizes based on priority"
\* (sched_rr.c, line 9).
DispatchedWithQuantum ==
  [][current_thread' # current_thread /\ current_thread' # NULL
       => sched_ctx'[current_thread'].quantum_nsec > 0]_schedVars
=============================================================================
