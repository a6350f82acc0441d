------------------------------- MODULE MCTrap -------------------------------
(* Instances of the trap paths for TLC: three boot tasks, of which the first *)
(* is the memory manager; the code of a thread computes with two register    *)
(* files whose values name the thread, the register and the file.            *)
EXTENDS Trap, TLC

CONSTANTS t1, t2, t3, p1, p2, p3, h0, MaxFile

MCThreads == {t1, t2, t3}
MCTasks == <<t1, t2, t3>>
MCThreads2 == {t1, t2}
MCTasks2 == <<t1, t2>>
MCProcs == {p1, p2, p3}
MCProcOf == t1 :> p1 @@ t2 :> p2 @@ t3 :> p3
MCProcOf2 == t1 :> p1 @@ t2 :> p2
MCPid == p1 :> 1 @@ p2 :> 2 @@ p3 :> 3
MCReadyQueue == 0 :> h0

MCZero == <<"zero">>
MCRetOk == <<"ret", 0>>
MCRetErr == <<"ret", 1>>
MCVal == {MCZero, MCRetOk, MCRetErr}
           \union (Threads \X Regs \X (0 .. MaxFile))
MCEntry == [t \in Threads |-> [r \in FrameRegs |-> <<t, r, 0>>]]
MCFiles ==
  [t \in Threads |-> {[r \in Regs |-> <<t, r, k>>] : k \in 1 .. MaxFile}]
=============================================================================
