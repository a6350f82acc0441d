------------------------------ MODULE MCSched ------------------------------
(* Instances of the scheduler for TLC: up to four boot tasks, one thread each. *)
EXTENDS SchedRefinement, TLC

CONSTANTS t1, t2, t3, t4, p1, p2, p3, p4, h0, h1, h2

MCTasks3 == <<t1, t2, t3>>
MCThreads3 == {t1, t2, t3}
MCProcOf3 == t1 :> p1 @@ t2 :> p2 @@ t3 :> p3

MCTasks4 == <<t1, t2, t3, t4>>
MCThreads4 == {t1, t2, t3, t4}
MCProcOf4 == MCProcOf3 @@ t4 :> p4

MCProcs == {p1, p2, p3, p4}
MCReadyQueue == 0 :> h0 @@ 1 :> h1 @@ 2 :> h2
=============================================================================
