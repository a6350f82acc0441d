-------------------------------- MODULE Trap --------------------------------
(***************************************************************************)
(* User threads, the ways into the kernel and the way back: timer and      *)
(* spurious interrupts through the 8259 controllers (interrupt.asm,        *)
(* interrupt.c, pic.c, thread.c), exceptions, and kernel calls through     *)
(* sysenter (kcall.asm.S, kcall.c), composed with the scheduler.           *)
(*                                                                         *)
(* All gates are interrupt gates and sysenter masks interrupts, so the     *)
(* kernel is never interrupted: every entry is one step that ends back in  *)
(* user mode (or halted).  The processor is modelled by its user-visible   *)
(* registers; segment registers hold the same selectors for every thread   *)
(* and are left out, and so is current_clock (timer.c), which only the     *)
(* timer handler writes and no trap path reads.                            *)
(***************************************************************************)
EXTENDS SchedRR

CONSTANTS
  Val,              \* register values
  Zero,             \* the value native_create_thread clears registers to
  RetOk, RetErr,    \* return values of a kernel call: 0 or a length, and -1
  Entry,            \* initial eip, esp and eflags of every thread
  Files,            \* register files the code of a thread may compute
  Pid,              \* proc->id
  MaxWork,          \* bound: how often threads compute or call the kernel
  DeviceLines,      \* interrupt lines other devices may raise
  SpuriousPossible  \* whether IRQ 0 may drop before it is acknowledged

GpRegs == {"edi", "esi", "ebp", "ebx", "edx", "ecx", "eax"}
FrameRegs == {"eip", "esp", "eflags"}
Regs == GpRegs \union FrameRegs
Lines == 0 .. 15

ASSUME TrapAssumption ==
  /\ {Zero, RetOk, RetErr} \subseteq Val /\ RetOk # RetErr
  /\ Entry \in [Threads -> [FrameRegs -> Val]]
  /\ Files \in [Threads -> SUBSET [Regs -> Val]]
  /\ Pid \in [Procs -> Nat]
  /\ MaxWork \in Nat
  /\ DeviceLines \subseteq Lines \ {0, 2}
  /\ SpuriousPossible \in BOOLEAN

VARIABLES
  mode,             \* "boot", "user", "halted"
  regs,             \* registers of the processor in user mode
  saved,            \* arch_thread_context_t of every thread
  pic,              \* irr, isr and imr of both controllers, as sets of lines
  informed,         \* address spaces the memory map was copied into
  work,             \* how often threads have computed or called the kernel
  user              \* history: the registers each thread last had itself

historyVars == <<work, user>>
trapVars == <<mode, regs, saved, pic, informed, historyVars>>
vars == <<schedVars, trapVars>>

-----------------------------------------------------------------------------
(* The 8259 pair: lines 0-7 on the master, 8-15 on the slave (external). *)

\* Non-specific EOI: the most urgent line in service of one controller ends.
EOI(isr, own) ==
  {n \in isr : n \notin own \/ \E m \in isr \intersect own : m < n}

\* IRQ 0 is the most urgent line: it waits only for itself.
TimerDelivered == 0 \in pic.irr \ pic.imr /\ 0 \notin pic.isr

-----------------------------------------------------------------------------
(* pic.c *)

\* Mutant: the master gets no EOI unless the slave does.
PIC_sendEOI_SlaveOnly(isr, irqnum) ==
  IF irqnum >= 40 THEN EOI(EOI(isr, 8 .. 15), 0 .. 7) ELSE isr

PIC_sendEOI(isr, irqnum) ==
  EOI(IF irqnum >= 40 THEN EOI(isr, 8 .. 15) ELSE isr, 0 .. 7)

PIC_init_imr == Lines \ {2}

PIC_unmask_irq(imr, irqnum) == imr \ {irqnum - 32}

\* PIC_check_spurious looks at the request register ...
PIC_check_spurious(irr) == 7 \in irr \/ 15 \in irr

\* ... and ends the interrupt on the master only for line 15.
AfterCheck(p) ==
  IF 7 \notin p.irr /\ 15 \in p.irr THEN [p EXCEPT !.isr = EOI(@, 0 .. 7)] ELSE p

-----------------------------------------------------------------------------
(* thread.c and the end of interrupt.asm *)

\* The words pusha leaves on the stack, from the lowest address; popa loads
\* them back in this order and skips the fourth (external).
PushaOrder == <<"edi", "esi", "ebp", "esp", "ebx", "edx", "ecx", "eax">>

\* The names irq_context gives these words ...
IrqLayout == <<"edi", "esi", "ebp", "__unused", "ebx", "edx", "ecx", "eax">>

\* ... and those arch_gp_regs gives them in a saved context.
GpLayout == <<"edi", "esi", "ebp", "esp", "edx", "ecx", "ebx", "eax">>

At(layout, name) == CHOOSE i \in 1 .. 8 : layout[i] = name

\* The irq_context that irq_common builds from the registers of the processor.
irq_common(r) ==
  [f \in Regs |-> IF f \in FrameRegs THEN r[f] ELSE r[PushaOrder[At(IrqLayout, f)]]]

\* native_create_thread
native_create_thread(t) ==
  [r \in Regs |-> IF r \in FrameRegs THEN Entry[t][r] ELSE Zero]

\* Mutant: esi is forgotten as well.
arch_update_exec_ctx_NoEsi(ctx, irq_ctx) ==
  [r \in Regs |-> IF r \in {"ebp", "esi"} THEN ctx[r] ELSE irq_ctx[r]]

\* arch_update_exec_ctx: ebp is not among the registers it copies.
arch_update_exec_ctx(ctx, irq_ctx) ==
  [r \in Regs |-> IF r = "ebp" THEN ctx[r] ELSE irq_ctx[r]]

\* What the processor holds after arch_return_to_user.
arch_return_to_user(ctx) ==
  [r \in Regs |-> IF r \in FrameRegs THEN ctx[r] ELSE ctx[GpLayout[At(PushaOrder, r)]]]

-----------------------------------------------------------------------------
(* Ways into the kernel *)

\* The end of bootstrap: ktime_init (hwclock_init registers the timer handler
\* and unmasks IRQ 0), then the first return to user mode.
ktime_init ==
  /\ mode = "boot"
  /\ rr_pc = "run"
  /\ mode' = "user"
  /\ pic' = [pic EXCEPT !.imr = PIC_unmask_irq(@, 32)]
  /\ regs' = arch_return_to_user(saved[exec_ctx])
  /\ UNCHANGED <<schedVars, saved, informed, historyVars>>

boot_sched == mode = "boot" /\ rr_init /\ UNCHANGED trapVars

\* Mutant: the context is saved after the scheduler has switched.
irq0_SavesLate ==
  /\ mode = "user"
  /\ TimerDelivered
  /\ rr_tick_handler
  /\ saved' = [saved EXCEPT ![exec_ctx'] = arch_update_exec_ctx(@, irq_common(regs))]
  /\ pic' = [pic EXCEPT !.irr = @ \ {0}]
  /\ regs' = arch_return_to_user(saved'[exec_ctx'])
  /\ UNCHANGED <<mode, informed, historyVars>>

\* interrupt_handler for IRQ 0.  The callback is hwclock_irq_handler, which
\* calls rr_tick_handler; the context is saved before the scheduler switches.
irq0 ==
  /\ mode = "user"
  /\ TimerDelivered
  /\ LET acked == [pic EXCEPT !.irr = @ \ {0}, !.isr = @ \union {0}]
     IN IF PIC_check_spurious(acked.irr)
        THEN /\ pic' = AfterCheck(acked)
             /\ UNCHANGED <<schedVars, saved>>
        ELSE /\ saved' = [saved EXCEPT ![exec_ctx] = arch_update_exec_ctx(@, irq_common(regs))]
             /\ rr_tick_handler
             /\ pic' = [acked EXCEPT !.isr = PIC_sendEOI(@, 32)]
  /\ regs' = arch_return_to_user(saved'[exec_ctx'])
  /\ UNCHANGED <<mode, informed, historyVars>>

\* interrupt_handler for a spurious interrupt: IRQ 0 dropped before the
\* processor acknowledged it, the controller answers with the vector of IRQ 7
\* and sets no in-service bit.  No callback is registered for that vector.
irq7_spurious ==
  /\ SpuriousPossible
  /\ mode = "user"
  /\ TimerDelivered
  /\ LET acked == [pic EXCEPT !.irr = @ \ {0}]
     IN pic' = IF PIC_check_spurious(acked.irr) THEN AfterCheck(acked)
               ELSE [acked EXCEPT !.isr = PIC_sendEOI(@, 39)]
  /\ regs' = arch_return_to_user(saved[exec_ctx])
  /\ UNCHANGED <<schedVars, mode, saved, informed, historyVars>>

\* exception_handler, which returns through the stack it was entered with.
exception(interrupt_num) ==
  /\ mode = "user"
  /\ IF PIC_check_spurious(pic.irr)
     THEN pic' = AfterCheck(pic) /\ UNCHANGED mode
     ELSE IF interrupt_num = 14
          THEN mode' = "halted" /\ UNCHANGED pic       \* page_fault_handler
          ELSE pic' = [pic EXCEPT !.isr = PIC_sendEOI(@, interrupt_num)] /\ UNCHANGED mode
  /\ UNCHANGED <<schedVars, regs, saved, informed, historyVars>>

\* A page fault of the kernel itself goes through exception_handler as well.
\* Where PIC_check_spurious answers yes the instruction only faults again;
\* either way no program runs any more.
KernelFault(p) == IF PIC_check_spurious(p.irr) THEN AfterCheck(p) ELSE p

\* Mutant: meminfo serves every process.
kcall_handler_AnyProcess(kcall_number, usr_ptr) ==
  CASE kcall_number > 1 \/ usr_ptr = "kernel" -> RetErr
    [] OTHER -> IF usr_ptr = "unmapped" THEN "fault" ELSE RetOk

\* kcall_handler and the two kernel calls: the value returned, "fault" when the
\* pointer passes VALIDATE_USR_PTR and is not mapped.
kcall_handler(kcall_number, usr_ptr) ==
  CASE kcall_number > 1 \/ usr_ptr = "kernel" -> RetErr
    [] kcall_number = 1 /\ Pid[ProcOf[current_thread]] # 1 -> RetErr
    [] OTHER -> IF usr_ptr = "unmapped" THEN "fault" ELSE RetOk

\* arch_sysenter_stub: edi holds the return address and ebp the user stack;
\* sysexit takes them from edx and ecx.  meminfo writes through the page
\* tables in use.
kcall(kcall_number, usr_ptr) ==
  LET ret == kcall_handler(kcall_number, usr_ptr)
  IN /\ mode = "user"
     /\ work < MaxWork
     /\ work' = work + 1
     /\ IF ret = "fault"
        THEN mode' = "halted" /\ pic' = KernelFault(pic) /\ UNCHANGED <<regs, informed, user>>
        ELSE /\ regs' = [regs EXCEPT !["eax"] = ret,
                           !["edx"] = regs["edi"], !["eip"] = regs["edi"],
                           !["ecx"] = regs["ebp"], !["esp"] = regs["ebp"]]
             /\ user' = [user EXCEPT ![current_thread] = regs']
             /\ informed' = IF kcall_number = 1 /\ ret = RetOk
                            THEN informed \union {cr3} ELSE informed
             /\ UNCHANGED <<mode, pic>>
     /\ UNCHANGED <<schedVars, saved>>

-----------------------------------------------------------------------------
(* The world outside the kernel (external) *)

\* The code of the current thread computes.
user_step ==
  /\ mode = "user"
  /\ work < MaxWork
  /\ work' = work + 1
  /\ regs' \in Files[current_thread]
  /\ user' = [user EXCEPT ![current_thread] = regs']
  /\ UNCHANGED <<schedVars, mode, saved, pic, informed>>

\* The PIT reaches zero, also while the kernel boots or has halted.
pit_tick ==
  /\ pic' = [pic EXCEPT !.irr = @ \union {0}]
  /\ UNCHANGED <<schedVars, mode, regs, saved, informed, historyVars>>

\* Another device raises its line, or lowers it.
device(n) ==
  /\ pic' = [pic EXCEPT !.irr = IF n \in @ THEN @ \ {n} ELSE @ \union {n}]
  /\ UNCHANGED <<schedVars, mode, regs, saved, informed, historyVars>>

-----------------------------------------------------------------------------
TrapInit ==
  /\ Init
  /\ mode = "boot"
  /\ regs = [r \in Regs |-> Zero]
  /\ saved = [t \in Threads |-> native_create_thread(t)]
  /\ pic = [irr |-> {}, isr |-> {}, imr |-> PIC_init_imr]
  /\ informed = {}
  /\ work = 0
  /\ user = saved

TrapNext ==
  \/ boot_sched
  \/ ktime_init
  \/ irq0
  \/ irq7_spurious
  \/ \E n \in {6, 14} : exception(n)
  \/ \E n \in 0 .. 2, ptr \in {"user", "kernel", "unmapped"} : kcall(n, ptr)
  \/ user_step
  \/ pit_tick
  \/ \E n \in DeviceLines : device(n)

TrapSpec == TrapInit /\ [][TrapNext]_vars

\* Boot code runs to its end, the PIT is periodic, and a processor with
\* interrupts enabled takes the interrupt the controller asks for.
TrapFairSpec ==
  /\ TrapSpec
  /\ WF_vars(boot_sched) /\ WF_vars(ktime_init)
  /\ WF_vars(pit_tick) /\ WF_vars(irq0)

-----------------------------------------------------------------------------
(* Properties *)

\* Every variable has its type, and threads run only once one is selected.
TrapTypeOK ==
  /\ TypeOK
  /\ mode \in {"boot", "user", "halted"}
  /\ mode # "boot" => rr_pc = "run"
  /\ regs \in [Regs -> Val]
  /\ saved \in [Threads -> [Regs -> Val]]
  /\ pic \in [irr : SUBSET Lines, isr : SUBSET Lines, imr : SUBSET Lines]
  /\ informed \subseteq Procs
  /\ work \in 0 .. MaxWork
  /\ user \in [Threads -> [Regs -> Val]]

\* The registers both saved by arch_update_exec_ctx and loaded back from the
\* same place by arch_return_to_user.
KeptRegs == {"eip", "esp", "eflags", "eax", "esi", "edi"}

\* Preemption is invisible in these registers: whatever ticks, other threads,
\* exceptions and kernel calls came between, a running thread finds the values
\* it had when it last ran (irq_common, arch_update_exec_ctx, rr_schedule and
\* arch_return_to_user together).
RegistersKept ==
  mode = "user" => \A r \in KeptRegs : regs[r] = user[current_thread][r]

\* The same for every register a context holds, by the names irq_context
\* (arch_interrupt.h, line 14) and arch_gp_regs give the pushed words.
AllRegistersKept ==
  mode = "user" => \A r \in Regs : regs[r] = user[current_thread][r]

\* The values thread t starts with, computes or is given by a kernel call.
Owned(t) ==
  {Zero, RetOk, RetErr} \union {Entry[t][r] : r \in FrameRegs}
    \union UNION {{f[r] : r \in Regs} : f \in Files[t]}

\* No register value of one thread ever reaches another, whichever lines
\* devices raise and whichever interrupts are dropped or spurious: a context
\* is saved to and loaded from the thread that was interrupted or selected.
OwnRegisters ==
  mode = "user" => \A r \in Regs : regs[r] \in Owned(current_thread)

\* A trip through the kernel leaves no interrupt in service that was not
\* before, whatever lines devices request: every path through
\* interrupt_handler ends with the EOI its line needs, also the one on which
\* PIC_check_spurious finds line 15.  The exception is a request on line 7,
\* for which it returns without one.
InServiceEnded == [][pic.isr' \subseteq pic.isr \/ 7 \in pic.irr]_vars

\* meminfo checks the process of the scheduler's current thread and writes
\* through cr3: the memory map only ever reaches the address space of the
\* memory manager (PROC_MMAN_PID is 1).
OnlyMmanInformed == \A p \in informed : Pid[p] = 1

\* Unless a page fault halts the machine, every thread of the most urgent
\* priority runs again and again: ticks keep being delivered, acknowledged and
\* turned into switches.
TasksKeepRunning ==
  \A t \in Threads :
    []<>(mode = "halted" \/ (MostUrgent(t) => current_thread = t))
=============================================================================
