----------------------------- MODULE KernelEntry -----------------------------
(***************************************************************************)
(* The ways into the kernel word by word: the descriptor tables (gdt.c,    *)
(* idt.c, init.c), the stubs that build the frame a C handler reads        *)
(* (boot/interrupt.asm), the sysenter path with its user half (kcall.asm.S,*)
(* sys/arch/i686) and the ways back.  Trap takes for granted what is shown *)
(* here: that the kernel runs in ring 0 with interrupts disabled and that  *)
(* a handler finds the interrupted registers in its irq_context.           *)
(*                                                                         *)
(* A stack is a sequence of words with the last one pushed in front.  A    *)
(* word is a pair: a tag and a value.  The user stack is memory, which     *)
(* outlives what was on it; esp counts the words on it.  One thread runs;  *)
(* which one, and what the timer does, is in Trap.                         *)
(***************************************************************************)
EXTENDS Naturals, Sequences

CONSTANTS
  Exceptions,       \* exceptions the processor may raise in user mode
  Lines,            \* vectors of the interrupt lines that devices raise
  UserVectors,      \* operands of the INT instructions a program executes
  Files             \* names of the register contents a program computes

\* The kernel never sets CR0.AM, so the processor raises no alignment check.
ASSUME EntryAssumption ==
  /\ Exceptions \subseteq (0 .. 31) \ {17} /\ Lines \subseteq 32 .. 47
  /\ UserVectors \subseteq 0 .. 255

VARIABLES
  at,               \* "boot", "user", "exception", "irq", "kcall", "eh_ret",
                    \* "irq_ret", "sysexit"
  regs,             \* the processor's registers; in user mode eip tells the
                    \* program from the instructions of a kernel call
  kstack, ustack,   \* the kernel stack and the user stack
  exec_ctx,         \* arch_thread_context_t of the thread, by field
  event,            \* history: what led into the kernel, with the registers then
  seen,             \* history: what the C handler read of it
  call              \* history: the last kernel call, with the registers of its
                    \* caller; followed until a device interrupts it

entryVars == <<at, regs, kstack, ustack, exec_ctx, event, seen, call>>

GpRegs == {"edi", "esi", "ebp", "ebx", "edx", "ecx", "eax"}
Regs == GpRegs \union {"esp", "eip", "eflags", "cs", "ss", "ds"}

Sel(n) == <<"sel", n>>
Flags(if) == <<"eflags", if>>
Esp(n) == <<"esp", n>>
Code(label) == <<"code", label>>
Num(n) == <<"num", n>>
Nothing == <<"none", 0>>

NoEvent == [kind |-> "none", number |-> 0, code |-> Nothing, regs |-> <<>>]

NoCall ==
  [followed |-> FALSE, number |-> 0, ptr |-> Nothing, regs |-> <<>>, base |-> 0, ret |-> Nothing]

\* The program runs, outside of a kernel call.
InProgram == at = "user" /\ regs["eip"] \in {Code("entry"), Code("after_call")}

-----------------------------------------------------------------------------
(* Descriptor tables *)

\* init_gdt, the access bytes: null, kernel code and data, user code and
\* data, TSS.
gdt_entries == <<0, 154, 146, 250, 242, 137>>

tss == [ss0 |-> 16]
SysenterCs == 8     \* I386_SYSENTER_CS, arch_init

fill_idt_entry_User(num, type) ==
  [num |-> num, selector |-> 8, dpl |-> ((type + 96) \div 32) % 4, gate |-> type % 16]

fill_idt_entry_TrapGate(num, type) ==
  [num |-> num, selector |-> 8, dpl |-> (type \div 32) % 4, gate |-> (type % 16) + 1]

\* fill_idt_entry: what the type byte says of the gate.
fill_idt_entry(num, type) ==
  [num |-> num, selector |-> 8, dpl |-> (type \div 32) % 4, gate |-> type % 16]

\* init_idt: 32 exceptions and 16 interrupt lines; the other entries are not
\* present.
idt == [v \in 0 .. 47 |-> fill_idt_entry(v, 142)]

\* What a descriptor says (external): its privilege level, and whether it is
\* a code segment.
Dpl(sel) == (gdt_entries[(sel \div 8) + 1] \div 32) % 4
IsCode(sel) == (gdt_entries[(sel \div 8) + 1] \div 8) % 2 = 1

-----------------------------------------------------------------------------
(* Into the kernel *)

\* The words in the order in which they are pushed.
Push(stack, words) == [i \in 1 .. Len(words) |-> words[(Len(words) - i) + 1]] \o stack

\* Exceptions for which the processor pushes an error code (external).
HasErrorCode(v) == v \in {8, 10, 11, 12, 13, 14, 17}

\* The macros EH, EH_ERRCODE and IRQ.
StubWords(v) ==
  IF v \in {8, 10, 11, 12, 13, 14} THEN <<Num(v)>> ELSE <<Num(0), Num(v)>>

CommonWords_DsFirst(r) ==
  <<r["ds"], r["eax"], r["ecx"], r["edx"], r["ebx"], <<"kesp", 0>>, r["ebp"], r["esi"], r["edi"]>>

\* eh_common and irq_common: pusha and the data segment.
CommonWords(r) ==
  <<r["eax"], r["ecx"], r["edx"], r["ebx"], <<"kesp", 0>>, r["ebp"], r["esi"], r["edi"], r["ds"]>>

\* The names of the fields of a struct, given in the order of its layout.
FieldsOf(layout) == {layout[i] : i \in DOMAIN layout}

\* struct irq_context, from the lowest address.
irq_context ==
  <<"ds", "edi", "esi", "ebp", "__unused", "ebx", "edx", "ecx", "eax",
    "int_no", "err_code", "eip", "cs", "eflags", "esp", "ss">>

\* The processor goes through gate v (external), then the stub runs up to the
\* call of the handler.
Through(v, code) ==
  LET frame == <<regs["ss"], regs["esp"], regs["eflags"], regs["cs"], regs["eip"]>>
                 \o (IF HasErrorCode(v) THEN <<code>> ELSE <<>>)
  IN /\ kstack' = Push(<<>>, frame \o StubWords(idt[v].num) \o CommonWords(regs))
     /\ regs' = [regs EXCEPT
                   !["cs"] = Sel(idt[v].selector), !["ss"] = Sel(tss.ss0), !["ds"] = Sel(16),
                   !["eflags"] = IF idt[v].gate = 14 THEN Flags(FALSE) ELSE @]
     /\ at' = IF v < 32 THEN "exception" ELSE "irq"

Record(kind, number, code) ==
  event' = [kind |-> kind, number |-> number, code |-> code, regs |-> regs]

\* An exception, or an interrupt of a device, between any two instructions in
\* user mode.
hardware(v) ==
  /\ at = "user"
  /\ LET code == IF HasErrorCode(v) THEN <<"error", v>> ELSE Num(0)
     IN Through(v, code) /\ Record("hardware", v, code)
  /\ seen' = <<>>
  /\ UNCHANGED <<ustack, exec_ctx, call>>

\* A program executes INT n.  A gate that is absent or of a more privileged
\* level is a general protection fault (external).
software_int(n) ==
  /\ InProgram
  /\ LET v == IF n \in DOMAIN idt /\ idt[n].dpl = 3 THEN n ELSE 13
         code == IF v = 13 THEN <<"error", n>> ELSE Num(0)
     IN Through(v, code) /\ Record("software", n, code)
  /\ seen' = <<>>
  /\ UNCHANGED <<ustack, exec_ctx, call>>

\* exception_handler and interrupt_handler read the frame.  What they do with
\* it is in Trap; here only that the timer's callback may reach
\* arch_update_exec_ctx, which leaves out ebp, cs, ss and ds.
Frame == [f \in FieldsOf(irq_context) |-> kstack[CHOOSE i \in 1 .. 16 : irq_context[i] = f]]

exception_handler ==
  /\ at = "exception"
  /\ seen' = Frame
  /\ at' = "eh_ret"
  /\ UNCHANGED <<regs, kstack, ustack, exec_ctx, event, call>>

interrupt_handler(saves) ==
  /\ at = "irq"
  /\ saves => Frame["int_no"] = Num(32)
  /\ seen' = Frame
  /\ exec_ctx' = IF ~ saves THEN exec_ctx
                 ELSE [f \in DOMAIN exec_ctx |->
                         IF f \in {"eip", "esp", "eflags"} \union (GpRegs \ {"ebp"})
                         THEN Frame[f] ELSE exec_ctx[f]]
  /\ at' = "irq_ret"
  /\ UNCHANGED <<regs, kstack, ustack, event, call>>

-----------------------------------------------------------------------------
(* Back to user mode *)

\* pop ds, popa, `skip' more words, iret.
Restored(words, skip) ==
  [ds |-> words[1], edi |-> words[2], esi |-> words[3], ebp |-> words[4], ebx |-> words[6],
   edx |-> words[7], ecx |-> words[8], eax |-> words[9], eip |-> words[10 + skip],
   cs |-> words[11 + skip], eflags |-> words[12 + skip], esp |-> words[13 + skip],
   ss |-> words[14 + skip]]

eh_common_KeepsDs ==
  /\ at = "eh_ret"
  /\ regs' = [Restored(kstack, 2) EXCEPT !["ds"] = regs["ds"]]
  /\ kstack' = <<>>
  /\ at' = "user"
  /\ UNCHANGED <<ustack, exec_ctx, event, seen, call>>

\* The end of eh_common: error code and number are dropped.
eh_common ==
  /\ at = "eh_ret"
  /\ regs' = Restored(kstack, 2)
  /\ kstack' = <<>>
  /\ at' = "user"
  /\ UNCHANGED <<ustack, exec_ctx, event, seen, call>>

\* arch_thread_context_t, from the lowest address; gp_regs_state in it has
\* the order of arch_gp_regs.
arch_thread_context_t ==
  <<"ds", "edi", "esi", "ebp", "gp_esp", "edx", "ecx", "ebx", "eax", "err",
    "eip", "cs", "eflags", "esp", "ss">>

native_create_thread ==
  [f \in FieldsOf(arch_thread_context_t) |->
     CASE f \in {"ss", "ds"} -> Sel(35)
       [] f = "cs" -> Sel(27)
       [] f = "eflags" -> Flags(TRUE)
       [] f = "esp" -> Esp(0)
       [] f = "eip" -> Code("entry")
       [] OTHER -> Num(0)]

\* After an interrupt, and at the end of bootstrap: the stack is the context,
\* saved by this interrupt or by an earlier one.
arch_return_to_user ==
  /\ at \in {"irq_ret", "boot"}
  /\ regs' = Restored([i \in 1 .. 15 |-> exec_ctx[arch_thread_context_t[i]]], 1)
  /\ kstack' = <<>>
  /\ at' = "user"
  /\ call' = NoCall
  /\ UNCHANGED <<ustack, exec_ctx, event, seen>>

-----------------------------------------------------------------------------
(* Kernel calls *)

\* An instruction of user mode at place `here', and the next one (external).
\* A stack pointer that is not on the stack faults instead.
instruction(here) ==
  /\ at = "user" /\ regs["eip"] = Code(here)
  /\ event' = NoEvent /\ seen' = <<>>
  /\ UNCHANGED <<at, kstack, exec_ctx>>

push(word, r, next) ==
  \E n \in 0 .. 2 :
    /\ regs["esp"] = Esp(n)
    /\ ustack' = [ustack EXCEPT ![n + 1] = word]
    /\ regs' = [r EXCEPT !["esp"] = Esp(n + 1), !["eip"] = Code(next)]

mov(reg, word, next) ==
  regs' = [regs EXCEPT ![reg] = word, !["eip"] = Code(next)] /\ UNCHANGED ustack

pop(reg, next) ==
  \E n \in 1 .. 3 :
    /\ regs["esp"] = Esp(n)
    /\ regs' = [regs EXCEPT !["eip"] = next, ![reg] = ustack[n], !["esp"] = Esp(n - 1)]
    /\ UNCHANGED ustack

\* The functions of syscall.c, by the number of the call.
Function(number) == IF number = 0 THEN "kcall_debug" ELSE "kcall_meminfo"

\* A program calls kcall_debug or kcall_meminfo, which sets ebx; the compiler
\* is not told of it.
kcall(number, ptr) ==
  /\ InProgram
  /\ regs' = [regs EXCEPT !["ebx"] = ptr, !["eip"] = Code(Function(number))]
  /\ \E n \in 0 .. 2 :
       /\ regs["esp"] = Esp(n)
       /\ call' = [followed |-> TRUE, number |-> number, ptr |-> ptr, regs |-> regs,
                   base |-> n, ret |-> Nothing]
  /\ event' = NoEvent /\ seen' = <<>>
  /\ UNCHANGED <<at, kstack, ustack, exec_ctx>>

\* It sets eax and calls arch_invoke_kcall.
arch_invoke_kcall(number) ==
  /\ instruction(Function(number))
  /\ push(Code("after_call"), [regs EXCEPT !["eax"] = Num(number)], "push_ebp")
  /\ UNCHANGED call

\* The user half before sysenter.
usr_sysenter_stub ==
  /\ \/ instruction("push_ebp") /\ push(regs["ebp"], regs, "push_edi")
     \/ instruction("push_edi") /\ push(regs["edi"], regs, "mov_ebp")
     \/ instruction("mov_ebp") /\ mov("ebp", regs["esp"], "mov_edi")
     \/ instruction("mov_edi") /\ mov("edi", Code("pop_edi"), "sysenter")
  /\ UNCHANGED call

\* What arch_sysenter_stub pushes: stack, return address, arguments, number,
\* and the address of these.
SysenterWords(r) ==
  <<r["ebp"], r["edi"], r["esi"], r["edx"], r["ecx"], r["ebx"], r["eax"], <<"kesp", 0>>>>

\* sysenter disables interrupts and takes cs, ss and the stack from its own
\* registers (external); then the kernel's stub runs.
arch_sysenter_stub ==
  /\ at = "user" /\ regs["eip"] = Code("sysenter")
  /\ kstack' = Push(<<>>, SysenterWords(regs))
  /\ regs' = [regs EXCEPT !["cs"] = Sel(SysenterCs), !["ss"] = Sel(SysenterCs + 8),
                          !["eflags"] = Flags(FALSE)]
  /\ at' = "kcall"
  /\ event' = NoEvent /\ seen' = <<>>
  /\ UNCHANGED <<ustack, exec_ctx, call>>

\* kcall_handler reads kcall_number and args[0] through the pointer to the
\* word below it; which value it returns is in Trap.  A C function may change
\* eax, ecx and edx.
kcall_handler ==
  /\ at = "kcall"
  /\ seen' = [kcall_number |-> kstack[2], arg |-> kstack[3]]
  /\ regs' = [regs EXCEPT !["eax"] = <<"kernel", 0>>, !["ecx"] = <<"kernel", 1>>, !["edx"] = <<"kernel", 2>>]
  /\ call' = [call EXCEPT !.ret = <<"kernel", 0>>]
  /\ at' = "sysexit"
  /\ UNCHANGED <<kstack, ustack, exec_ctx, event>>

\* .ret of arch_sysenter_stub drops six words.  sysexit takes eip and esp from
\* edx and ecx and finds the user segments behind SysenterCs (external); sti
\* takes effect after it.
sysexit ==
  /\ at = "sysexit"
  /\ LET edx == kstack[7]
         ecx == kstack[8]
     IN regs' = [regs EXCEPT !["edx"] = edx, !["ecx"] = ecx, !["eip"] = edx, !["esp"] = ecx,
                             !["cs"] = Sel(SysenterCs + 16 + 3), !["ss"] = Sel(SysenterCs + 24 + 3),
                             !["eflags"] = Flags(TRUE)]
  /\ kstack' = <<>>
  /\ at' = "user"
  /\ UNCHANGED <<ustack, exec_ctx, event, seen, call>>

usr_sysenter_stub_ret_Swapped ==
  /\ \/ instruction("pop_edi") /\ pop("ebp", Code("pop_ebp"))
     \/ instruction("pop_ebp") /\ pop("edi", Code("ret"))
     \/ instruction("ret") /\ pop("eip", Nothing)
  /\ UNCHANGED call

\* The user half after sysexit, on the stack from where esp points; ret takes
\* eip from the stack.
usr_sysenter_stub_ret ==
  /\ \/ instruction("pop_edi") /\ pop("edi", Code("pop_ebp"))
     \/ instruction("pop_ebp") /\ pop("ebp", Code("ret"))
     \/ instruction("ret") /\ pop("eip", Nothing)
  /\ UNCHANGED call

\* The program computes (external).
user_step(file) ==
  /\ InProgram
  /\ regs' = [r \in Regs |-> IF r \in GpRegs THEN <<file, r>> ELSE regs[r]]
  /\ event' = NoEvent /\ seen' = <<>> /\ call' = NoCall
  /\ UNCHANGED <<at, kstack, ustack, exec_ctx>>

-----------------------------------------------------------------------------
\* bootstrap after load_gdt: kernel segments, interrupts disabled.
EntryInit ==
  /\ at = "boot"
  /\ regs = [r \in Regs |-> CASE r = "cs" -> Sel(8)
                              [] r \in {"ss", "ds"} -> Sel(16)
                              [] r = "eflags" -> Flags(FALSE)
                              [] OTHER -> Nothing]
  /\ kstack = <<>> /\ ustack = [i \in 1 .. 3 |-> Nothing]
  /\ exec_ctx = native_create_thread
  /\ event = NoEvent /\ seen = <<>> /\ call = NoCall

EntryNext ==
  \/ \E v \in Exceptions \union Lines : hardware(v)
  \/ \E n \in UserVectors : software_int(n)
  \/ exception_handler
  \/ \E saves \in BOOLEAN : interrupt_handler(saves)
  \/ eh_common
  \/ arch_return_to_user
  \/ \E number \in 0 .. 1, ptr \in {<<"ptr", f>> : f \in Files} : kcall(number, ptr)
  \/ \E number \in 0 .. 1 : arch_invoke_kcall(number)
  \/ usr_sysenter_stub
  \/ arch_sysenter_stub
  \/ kcall_handler
  \/ sysexit
  \/ usr_sysenter_stub_ret
  \/ \E f \in Files : user_step(f)

EntrySpec == EntryInit /\ [][EntryNext]_entryVars

-----------------------------------------------------------------------------
(* Properties *)

InUser == at = "user"

\* On every way in and out (gates, sysenter, sysexit, iret of a frame or of a
\* context) the processor ends up with matching segments: user code runs in
\* ring 3 with interrupts enabled, the kernel in ring 0 with interrupts
\* disabled.  The other modules rest on the last part: nothing interrupts the
\* kernel.
ModeConsistent ==
  LET ring == IF InUser THEN 3 ELSE 0
      cs == regs["cs"][2]
      ss == regs["ss"][2]
  IN /\ regs["cs"][1] = "sel" /\ regs["ss"][1] = "sel"
     /\ cs % 4 = ring /\ Dpl(cs) = ring /\ IsCode(cs)
     /\ ss % 4 = ring /\ Dpl(ss) = ring /\ ~ IsCode(ss)
     /\ regs["eflags"] = Flags(InUser)

\* Whatever the processor pushed, a C handler finds in its irq_context the
\* number of the event, its error code, and the registers of the interrupted
\* program under their names.
HandlerSeesEvent ==
  at \in {"eh_ret", "irq_ret"} =>
    /\ seen["int_no"] = Num(IF event.kind = "software" THEN 13 ELSE event.number)
    /\ seen["err_code"] = event.code
    /\ \A r \in Regs : seen[r] = event.regs[r]

\* An exception whose handler returns leaves no trace in the program.
ExceptionInvisible ==
  (/\ at = "user"
   /\ event.kind = "software" \/ (event.kind = "hardware" /\ event.number < 32))
     => regs = event.regs /\ kstack = <<>>

\* A program cannot call an interrupt handler: INT n always arrives as a
\* general protection fault, since no gate is open to ring 3.
OnlyDevicesInterrupt == at = "irq" => event.kind = "hardware"

\* To a program a kernel call is a function call, although sysenter saves
\* nothing and exceptions may come between any two instructions: the kernel
\* reads the number and the argument the caller set, and the call returns to
\* its caller with the kernel's value and with esi, edi, ebp, the stack pointer
\* and ds as they were; only ebx, which syscall.c does not declare, is left with
\* the argument.  Nothing is said of a call that a device interrupts: its
\* context does not have ebp, and ebx, ecx and edx in the order of the frame.
KernelCallIsACall ==
  call.followed =>
    /\ at = "sysexit" => seen["kcall_number"] = Num(call.number) /\ seen["arg"] = call.ptr
    /\ (at = "user" /\ regs["eip"] = Code("after_call")) =>
         /\ regs["eax"] = call.ret /\ regs["ebx"] = call.ptr
         /\ \A r \in {"esi", "edi", "ebp", "esp", "ds"} : regs[r] = call.regs[r]
=============================================================================
