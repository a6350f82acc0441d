# TLA+ models of mugo

mugo is a small microkernel for i686.  This directory holds TLA+ modules of its
boot, its scheduler, its ways into and out of the kernel, its clock, its
allocators and its console, TLC configurations that check them on small
instances, and TLAPS proofs, for all sizes, about the scheduler, the trap paths,
the entry stubs, the clock, the boot from the multiboot tags to the processes'
address spaces, the frame allocator and the heap.

## The system and its parts

| part | source | module | proofs |
|---|---|---|---|
| round-robin scheduler, intrusive list | `kern/sched_rr.c`, `kern/sched.c`, `kern/list.h`, `kern/time.h` | `SchedRR` | `SchedRR_proofs` |
| what the scheduler promises | – | `RoundRobin`, `SchedRefinement` | `Trap_proofs` |
| thread contexts, address-space switch | `arch/i686/thread.c` | `SchedRR`, `Trap` | `Trap_proofs` |
| interrupts, exceptions, 8259 controllers | `interrupt.c`, `drivers/pic.c`, `boot/interrupt.asm` | `Trap` | `Trap_proofs` |
| kernel calls | `kern/kcall.c` | `Trap` | `Trap_proofs` |
| descriptor tables, entry stubs, sysenter and its user half | `boot/gdt.c`, `idt.c`, `init.c`, `boot/interrupt.asm`, `kcall.asm.S`, `sys/arch/i686` | `KernelEntry` | `Kernel_proofs` |
| kernel heap | `kern/kmalloc.c` | `Kmalloc` | `Kmalloc_proofs` |
| frame allocator | `kern/mem/` | `FrameStack` | `Kernel_proofs` |
| what an allocator promises | – | `BlockAllocator`, `KmallocRefinement`, `FrameStackRefinement` | in the two above |
| multiboot scan, moving the boot modules | `early.c` | `Early` | `Early_proofs` |
| page tables, boot frame allocator | `paging_utils.c` | `PageTables`, `PrivateMemory` | `PageTables_proofs` |
| kernel mappings, loading the boot modules | `early.c`, `kmem.c`, `paging_utils.c`, `main.c`, `elf.c` | `BootPaging` | `BootPaging_proofs`, `Boot_proofs` |
| the boot as a whole | `early.c`, `main.c` | `Boot` | `Boot_proofs` |
| hardware clock | `drivers/timer.c`, `include/arch/time.h` | `HwClock` | `Kernel_proofs` |
| formatted output | `lib/stdlib/stdlib.c` | `Format` | |
| console, kernel messages, panic and stack trace | `drivers/vga.c`, `kprint.c`, `util.c`, `panic.c`, `trace.asm` | `Console` | |
| boot assembly, other ports | | not modelled | |

How they interact: `early_main` runs without paging, collects the memory map and
moves the boot modules behind the kernel.  With the tables it prepared,
`bootstrap` (kern/main.c) maps the kernel and its heap anew and loads the boot
modules, each a process with one thread and a page directory of its own.  Then
`sched_init` puts the threads into the ready queues and selects the first,
`ktime_init` unmasks IRQ 0, and `arch_return_to_user` leaves the kernel for
good.  From then on the kernel runs only on an interrupt, an exception or a
`sysenter`, always with interrupts disabled and on one processor.  A timer
interrupt saves the registers of the current thread, charges its quantum, may
switch to another thread and its address space, acknowledges the interrupt and
returns through the context of the thread that is now current.

## The modules

**SchedRR** has the ready queues as the links of `lst_hdr_t` nodes: `list.next`
and `list.prev` are functions on the queue heads and the threads, and `list_add`
and `list_remove` write them in the order of the C statements, so that stale
links of removed nodes exist in the model as they do in memory.  `sched_ctx` is
the scheduling part of every `tcb_t`; `exec_ctx`, `current_proc` and `cr3` are
the state of `native_select_thread`.  `rr_init` is split into its loop
iterations; `rr_tick_handler` is one step, because nothing can interrupt it.
`nsec_to_next_tick` is never written and is 0; `current_sched_ctx` is never
read and is left out.  `no_tasks` is at least 1: `early_main` stops the machine
when there is no module.  The kernel creates every thread with priority 0; the
model allows any, since the queues exist for them.

**RoundRobin** is the policy without links or time: first-in first-out queues,
the most urgent first, a preempted thread goes to the end of its queue.
**SchedRefinement** walks along the links of each queue from its head until the
head is back, takes the threads it meets for the queue, and states that
`SchedRR` implements the policy.

**Trap** extends `SchedRR` by the processor's user registers, the saved context
of every thread, and the request, in-service and mask registers of both
controllers.  Its actions are whole trips through the kernel: `irq0`,
`irq7_spurious`, `exception`, `kcall`; user code, the timer chip and other
devices are external actions.  The three layouts of the general registers (the
order of `pusha`, `struct irq_context` and `arch_gp_regs`) are sequences, and
saving and restoring go through them position by position.  `user` is a history
variable: the registers each thread had when it last ran.  `MaxWork` bounds how
often threads compute or call the kernel.  Segment registers, which are the same
for all threads, and `current_clock` are left out.

**KernelEntry** is below `Trap`: one thread, and every word that the processor,
the stubs and the C compiler's calls push and pop.  The access bytes of the
segment table and the type bytes of the interrupt table decide which ring, stack
and interrupt flag an event leads to; the stubs put an error code or a
placeholder so that `struct irq_context` fits.  A kernel call goes through the
function of `syscall.c`, the user's stub, `sysenter`, the dispatcher, `sysexit`
and back.  Its instructions in user mode are steps of their own, since they run
with interrupts enabled: an exception or a device may come between any two.
It shows what `Trap` takes for granted.  `Dpl`, `IsCode`, `HasErrorCode`, the
pushes of an interrupt and the instructions of user mode are the processor's.

**Kmalloc** has the page pool, the bags and, for every page, the freelist that
runs through the first word of its objects; `use_object` lets the owner of an
object overwrite all of it.  `Linked` follows the `next` pointers of pages as
the loop of `kfree` does.  Three things lead out of the heap, and the model ends
with a status of its own for each: `low` (`fetch_object` uses the header at
address 0), `index` (a class outside the array `bags`) and `spoilt` (a caller
wrote an object that covers the header of the next page).  `Intact` says that
none of them has happened.  **FrameStack** is the scan of the memory map that
pushes the frames of a region, and the stack operations; the map and its own
place in memory vary, and 64-bit addresses are cut to a word (`Word`) where the
code stores them in a `paddr_t`.  The kernel does not link it yet (the call of
its `init` is commented out).  **BlockAllocator** promises only that blocks in
use are disjoint, and only while the allocator is `sound`;
**KmallocRefinement** and **FrameStackRefinement** map an object or a frame to
the set of its addresses and say when it is: while the heap is `Intact`, and for
memory maps whose available entries are disjoint, of whole pages and below the
last page of a word.

**Early** is the loop over the multiboot tags.  The loader's tags come in any
order; memory is a function that says where each byte was when the kernel was
entered, so that a copy over something still needed shows.  `PlacedInOrder` and
`HoldsKernel` are what `early_main` relies on without checking: modules behind
the kernel and in the order of their tags, and a first memory region that holds
the kernel and has room for them (`early.c:262` is a TODO for that).  The magic
check, names and messages are left out.

**PageTables** has directories and tables as partial functions in physical
memory, the processor's translation, and `bootstrap_mmap` with its two loops in
closed form: the frame of a page is the next free frame plus the number of
frames taken before it (`Rank`).  `@@` and `:>` are defined there, as in the
module TLC, so that the provers can expand them.  Instead of running on after an
error, the machine gets a status: `fault` (a structure is reached through an
address that is not mapped), `null` (a directory entry that is 0 is used as a
table), `overrun` (an identity map runs past its table) and `panic`.  Assertions
are empty, as in a build without `DEBUG`.  **BootPaging** is the sequence
`kmem_init`, `bootstrap_identity_map_init_mem`, `load_boot_modules`,
`kmem_init_cleanup` from the state `early_page_map` leaves.  The program headers
are chosen as they are read.  `data` records which byte of which module lies
where.  Program headers are page-aligned, as the linker scripts make them;
`align` is the field `p_align`, which only a test looks at.  **Boot** composes
`Early`, in bytes, and `BootPaging`, in pages: the second starts from every
`kernel_info_t` the first ends with.

**HwClock** has the divisor in its two bytes, the chip's counter, the software
clock, and the calls through `hwclock_t` by position.  A period that ends while
IRQ 0 is still pending is lost to the handler; `lost` counts them.

**Format** is `vsprintf_s` as a fold over the tokens of a format, with the
variables its loop carries from one directive to the next, beside a reference
that renders every directive on its own.  **Console** prints such messages on a
page of cells the way `console_write_string` does, beside a terminal as its user
imagines one, and has `panic` with the stack walk of `trace.asm`.  The model ends
when a character is stored behind the mapped page (`stray`) or a message behind
the buffer of `kprintf`.

The modules whose names begin with **MC** are the instances for TLC; those that
end in **_proofs** hold the theorems.

## What the runs check

| run | shows |
|---|---|
| `sched_prio` | 4 tasks, 3 priorities in every assignment, any number of them started, a quantum of 2.5 ticks: links are sound, the policy is implemented, the most urgent tasks all keep running, the selected context and address space are those of the current thread |
| `trap_timer` | 3 tasks, only the timer interrupts: preemption is invisible in the registers that are saved and restored in place, all tasks keep running unless a page fault halts the machine |
| `trap_noise` | 2 tasks, requests on lines 7 and 15, spurious interrupts: no thread sees another's registers, the memory map reaches process 1 only, no trip through the kernel leaves an interrupt in service unless line 7 was requested |
| `kernel_entry` | exceptions with and without error code, two interrupt lines, `INT` instructions and kernel calls, between any two instructions of the program and of the user's stub: segments, ring and interrupt flag match the mode, C handlers find the frame of the event at hand, an exception leaves no trace in the thread, programs cannot imitate a device, a kernel call no device interrupts is a function call |
| `kmalloc_alloc` | objects of 8 bytes, which fill a page of 32 exactly, and of 16, whose last one reaches beyond it, a size without a class and one too small, on 3 pages: while the heap is intact freelists and page lists are exact, objects lie in their page but for the known excess, blocks in use are disjoint |
| `frame_stack` | 1296 memory maps, every order of alloc and free: the stack stays in its space and the counters are right for all; where entries do not overlap and end below the last page of a word, frames are conserved and lie in available memory, and with whole pages the abstract allocator is implemented |
| `early_scan` | every tag order, up to 3 modules in any ascending placement, 4 memory maps: modules arrive intact and packed in pages, `memmaps[0]` is free memory |
| `boot_servers` | the whole boot for 1 or 2 servers with up to 2 of 12 program headers each (partial pages, overlapping, empty, invalid, much larger in memory than in the file, across the end of a table, outside of the image, without alignment): it completes if the modules meet `Bootable`, both halves agree about what is handed over, user frames have one owner, every program finds the loader's bytes at its addresses with its permissions, the kernel is the same in every directory |
| `clock_ticks` | 3 divisors, any phase, 8 times to set: the clock and the chip agree, but for the periods that end before the handler has run for the one before |
| `console_print` | the kernel's message formats, texts with empty lines and texts longer than the buffer, in any order on a screen of 3 lines, a panic at any point: a message that fits is rendered exactly and one that does not overruns by its digits at most, the screen shows the last lines up to the characters an empty line costs, a store leaves the page only after a second empty line, the stack trace is complete and in order |

Two runs show a place where the code does not do what a comment or a definition
of the repository says.  Each is a finding of `PROJECT.json`:

| run | the code |
|---|---|
| `sched_quantum` | never refills the quantum of a thread it preempts: after its first turn a thread gets a single tick |
| `trap_registers` | saves registers by name into a layout that `popa` reads in another order, and does not save `ebp` |

The models reproduce further behaviour of this kind.  Where a property would not
hold because of it, the property names the case:

* `interrupt_handler` takes any request on line 7 for a spurious interrupt and
  drops the interrupt at hand without an EOI (the exception in
  `InServiceEnded`), and `PIC_check_spurious` does not recognise a spurious one,
  which then returns through a context nobody saved (`RegistersKept` is stated
  for the timer as only source of interrupts).
* A device that interrupts the user's half of a kernel call brings it back
  without `ebp` and with `ebx`, `ecx` and `edx` exchanged, as `trap_registers`
  shows of any code; `KernelCallIsACall` speaks of calls no device interrupts.
* `fetch_object` prepares a second page for a bag and does not link it, so that
  the next request of that size uses the header at address 0 (status `low`).
* `init_page` makes an object at the end of a page that does not fit into it
  when the size does not divide the room behind the header: on pages of 4096
  bytes from 16 on, where it covers the header of the next page (`Excess` in
  `ObjectInPage`, status `spoilt`).
* `kmalloc` computes a class index outside the array for sizes that are no power
  of two, and for 512 (status `index`).
* `bootstrap_mmap` counts one table too few when a range leaves a table that
  exists for one that does not, or ends in a table with part of a page
  (`Countable` in `Bootable`).
* The identity window is sized by the file size of the modules while loading
  takes frames for their memory size, and one table maps it wherever it begins
  (the first and the last condition of `Bootable`).
* `bootstrap_fetch_page` has no effective check for the end of memory: the
  assertion is compiled out and the result is never 0.
* `elf_ctx_load` tests alignments below 2 only, rejects none of them, and divides
  by 0 if a segment states none.  It does not clear the part of a segment that is
  not in the file, and skips a segment that has no file contents.
* The initialiser of `hwclock` has `get_time` and `set_time` exchanged, and
  reading the time stops the timer.
* `kcall_debug` and `kcall_meminfo` set `ebx` without declaring it clobbered.
* Vector 17 has an error code and a stub for events without one; the exception
  cannot happen, because CR0.AM is never set.
* The console advances the column before it stores a character: the last
  character of a full line lands in the first column of the next row and is lost
  on the bottom row.  A scroll moves one line: after an empty line at the bottom
  the next line loses its first character, and after two the console stores
  behind the page it is mapped to (`ScreenShowsText`, `TypeOK`).  The text of
  `kcall_debug` is printed as it is and may have such lines.
* `vsprintf_s` does not count digits, their padding and the terminator as
  written, so that a long message runs past the buffer of `kprintf`; `%%` prints
  nothing; a width stays in force for later directives (`FormatExact`).
* The frame stack pushes a frame that begins in an entry and ends behind it, and
  takes an entry above 4 GB for low memory (`FramesUsable`, `FramesConserved`).
  With the region sizes of `phys_alloc.c` it reserves room for a single frame.

**Bounds.**  Four threads in three queues give every case of list surgery: an
empty queue, a queue of one, a node removed at the head and added behind others,
and two queues changed by one tick.  25 time units of quantum with ticks of 10
make the last subtraction one that would go below zero.  In `Trap`, three units
of `MaxWork` let every thread compute or call once between any two ticks; the
number of ticks is not bounded.  `MCKernelEntry` has one exception of each kind,
the timer's line and one without a handler, and `INT` with the number of an
exception, of a line and of no gate; the stubs treat the vectors of a kind alike.
It needs one set of register contents, since every register has a value of its
own.  Pages of 32 bytes hold three objects of 8 bytes or two of 16, so that a
page fills and empties again within few calls.  Because `fetch_object` never
links a second page, a bag has at most one; the search loop of `kfree` is in the
model and not reached.  `MCFrameStack` has pages of 8 bytes, words of 128 and a
region of six pages, which asks for three frames: fewer than some maps offer and
more than others.  Entries lie across the start of the region, are reserved, hold
the map itself, have a page in part, overlap another one, and reach, cross and
exceed the end of the word.  `MCBoot`
has tables of 64 entries, which leaves the kernel, the window, the programs and
the stack (across a table boundary, as at 0x80000000) directory entries of their
own, and pages of 2 bytes, so that sizes are whole pages or not.  Its images
include two that bring the identity window, or the one of `early_page_map`, to the
end of a table.  The boot fails there with each of `fault`, `null` and `overrun`,
only in cases `Bootable` excludes.  In `MCEarly`
the capacity is 2 modules, so that it is exceeded; placements leave gaps of less
and more than a page, so that source and target of a copy overlap or not.  A
screen of 3 lines of 6 characters wraps and scrolls within one or two messages;
its page of 22 cells has room for some cells of the row below the screen and not
for the next row, as 2048 cells have for 25 rows of 80 (`ConsoleAssumption`).
Texts end in newlines, have empty lines inside, and exceed the buffer of 18
characters.  A panic may have fewer or more frames than `MAX_STACK_TRACE_SIZE`.

**Fairness.**  `FairSpec` and `TrapFairSpec` assume that `rr_init` and the rest
of the boot code run to their end (straight-line code with interrupts disabled),
that the timer keeps ticking (the PIT is programmed in a periodic mode and
nothing masks IRQ 0 again), and that a processor in user mode takes the
interrupt the controller presents.  Nothing is assumed of user code.

**Deadlock** is checked for the scheduler and for `KernelEntry`, where no word
on a stack may leave the processor without a next step.  In `Trap` and `Kmalloc`
the system may stop: `page_fault_handler` halts, `kmalloc` panics when pages run
out, and the model of the heap ends where the code leaves it.  `Early` and
`Boot` end when the boot is through, `FrameStack` may stop with a panic,
`Console` with the end of a panic's report or a store outside of its memory, and
`HwClock` at its bounds `MaxSeconds` and `MaxLost`.

## What is proved

All theorems hold for every value of the constants that meets the named
assumptions; TLC evaluates these on its instances.  Each rests on an inductive
invariant, which the initial states satisfy and every action preserves.

**Scheduler** (`SchedRR_proofs`), for every number of threads, queues and
priorities and any quantum and tick, from the assumptions of `SchedRR` (heads
and threads are distinct nodes, tasks are distinct threads, priorities name
queues): `TypeCorrect`, `QueuesStaySound`, `UrgencyRespected` and
`SelectionCorrect` prove the four invariants of `sched_prio`.  The inductive
invariant `Inv` adds `Progress` (no thread is started before the heads are
initialised, and the current thread is one of the started) and `SpaceOfProc`
(the cached `current_proc` is the process of the current thread and `cr3` agrees
with it; without it the test `tcb->proc != current_proc` says nothing about
`cr3`).  `RingOf` says that a queue's links are a ring through its head in some
order.  `AddLast` and `RemoveFirst` show that `list_add` behind the last node and
`list_remove` of the first keep it one; `AddOther` and `RemoveOther` that the
rings of other queues are not touched, because rings share no node.

**The policy is implemented** (`Trap_proofs`): `ImplementsPolicy` proves `Spec
=> ImplementsRoundRobin`, and `TrapsImplementPolicy` the same of `TrapSpec`,
where interrupts, exceptions and kernel calls drive the scheduler.  The walk
along the links is a recursive function; `HopIs` shows by least counterexample
that it meets the threads of the ring in order and then stays at the head.  From
there `list_add` is an `Append` and `list_remove` a `Tail` (`WalkAdd`,
`WalkRemove`), and every step of the lists is a step of the policy or a stutter.

**Trap paths** (`Trap_proofs`): `TrapTypeCorrect`, `RegistersStayOwn` and
`MapReachesMmanOnly` hold whatever lines devices raise and with spurious
interrupts.  A trip through the kernel is a step of the scheduler or none
(`TrapStep`), so `Inv` carries over; `Owns` adds that the saved context of every
thread, running or not, holds its own values.  `EveryInterruptEnds` proves
`InServiceEnded` in the same generality: each path through the handlers ends what
it put in service, with `PIC_sendEOI` or in `AfterCheck`, unless line 7 is
requested.  `PreemptionInvisible` assumes `Quiet` (no device but the timer, no
spurious interrupts), which it needs: see the first item of the list above.  Its
invariant `QInv` says that a thread which does not run finds its registers in
its context and that nothing is in service.  `TrapAssumption` has
`RetOk # RetErr`: the result of a kernel call tells whether the map was copied.

**Entry stubs** (`Kernel_proofs`): `ModesMatch`, `HandlersSeeEvents`,
`ExceptionsInvisible`, `DevicesInterrupt` and `KernelCallsAreCalls` prove the five
invariants of `kernel_entry` for any sets of exceptions, lines, `INT` operands and
register contents.  The invariant `EntryInv` says, for each place the processor
can be at, which words lie on the kernel stack and which ring the registers
belong to: behind a gate the frame of `struct irq_context` of the event
(`InGate`), in a kernel call the words of `arch_sysenter_stub` (`InCall`).
`GateStep` is the reason behind the frame: with the placeholder of the stubs for
vectors without an error code, every gate leaves the same sixteen words.
`CallInv` follows a kernel call: for each instruction of the user's stub, what it
has left so far in the registers and in the words of the user stack above the
caller's, also while an exception is handled in between; there is one lemma per
instruction.  `EntryAssumption` excludes vector 17, whose stub pushes the
placeholder although the exception has an error code; it needs CR0.AM, which the
kernel never sets.

**Clock** (`Kernel_proofs`): `KeepsPace` and `ClockTypeCorrect`, from
`FrequencyAssumption`: divisors fit two bytes and a period is at most a second,
because the handler carries only once.  The invariant adds that chip and handler
count with the same divisor (`TwoBytes`: the two bytes make up the number).

**Boot scan** (`Early_proofs`): `ModulesStayIntact`, `ModulesArePacked` and
`FreeMemoryStaysFree`, for every tag order, memory map and ascending placement.
The invariant's part `Moved` is the reason: the end of the modules moved so far
has not overtaken the start of any module still to come, so that copying from
the first byte on reads no byte that was written.  `LoaderAssumption` states
that maps and placements are sequences; it includes that `SelectSeq` of a
sequence of regions is one, which the provers cannot show.  `TypesKept` adds
that neither array of `kernel_info_t` overruns and that the length of
`memmaps[0]` stays a number.  Its invariant `Room` ties `total` to `Packed`, the
sum `HoldsKernel` speaks of: what has been moved is the sum so far
(`PackedSums`), the sum only grows (`PackedBounds`), and aligning the end of a
module that starts on a page adds its aligned size (`AlignAdds`).  That a
recursive sum exists at all is `SumsExist`, by least counterexample.

**Boot**: `FramesPrivate` (`Boot_proofs`) proves `UserFramesPrivate` for
`BootPaging`, for every page and table size, layout of the kernel, number and
size of modules and program headers, also where the boot ends with a fault.
`LayoutAssumption` and `ProgramAssumption` only give types, and that the stack
does not begin below address 0.  The invariant has two phases.  While the kernel
maps itself (`KernelPhase`), every paging structure lies below the next free
frame and no table is open to ring 3.  While modules are loaded (`LoadPhase`),
the memory of processes is `Private` above a floor, the end of the heap: a table
of a process has one entry in one directory, a page of a process one entry in
one table, none of them is a directory, and the kernel's tables are below the
floor. `PrivateMemory` defines these and what they ask of `bootstrap_mmap`
(`MmapKeepsKernel`, `MmapKeepsPrivate`), so that the two halves of the argument
do not see each other.  `PageTables_proofs` shows with `Mmap` that
`bootstrap_mmap` keeps both, whatever range it is called with: `AddTables` and
`MapPages` do, and that two fresh frames differ is a fact about `Rank` (the
count of smaller members is injective and below the cardinality).
`BootPaging_proofs` shows that every step of bootstrap keeps the invariant if
`bootstrap_mmap` does; `Boot_proofs` puts the two together.

`Handover` proves `HandoverAgrees` of the composition, and `BootFramesPrivate`
carries privacy over to it.  `Boot_proofs` instantiates `Early_proofs` for the
memory in bytes, shows that the assumptions of `Early` hold there (`ScanLoader`,
`ScanLayout`, from `ScanAssumption`), and takes from its invariant what
bootstrap relies on (`Walked`).  `BootInv` then holds through the end tag:
`PagesOfAdjacent` turns spans that lie one behind the other in bytes into the
sums of page numbers `ImageStart` uses.

**Frame stack** (`Kernel_proofs`): `FramesAreConserved`, `FramesAreUsable`,
`FrameTypes` and `ImplementsAllocator`, for every memory map, page size, word and
region; `FrameStackAssumption` only gives types.  The conditions on the map are
part of the properties.  The invariant says that the frames on the stack and
handed out come from the scan: each is an address the inner loop reached in an
entry the scan has passed, and where no address is cut to a word and entries do
not overlap, any two are a page apart.  `FrameTypes` needs in addition that the
region counts nothing before it is ready and that the total, the sum `Frames`
less the kernel's frames in unsigned arithmetic, is a number.

**Heap** (`Kmalloc_proofs`): `HeapTypeCorrect`, `FreelistsStayExact`,
`PagesStayPartitioned`, `ObjectsStayInPage` and `ImplementsAllocator`, for any
number of pages, page size and sizes asked for, those without a class included.
`PoolAssumption` asks that a page hold at least two objects of each size
(`fetch_object` does not move a first page that its only object fills) and that
the sizes with a class divide the page size, as they do 4096.  The invariant:
the pool is linked upwards, each bag has at most one page, on the list that its
freelist says, and the freelist runs through the objects not in use, each once
(`Exact`).  `ExactTake`, `ExactGive`, `ExactKept` and `ExactNew` are the four
things that happen to a freelist.  That blocks are disjoint although the last
object of a page may cover the header of the next one rests on the bound
`ObjectsStayInPage` proves: it covers no more than the header.

**Only model-checked.**  `MostUrgentNeverStarve` and `TasksKeepRunning`: liveness
under fairness is out of the provers' reach.  `BootCompletes` relates
the number of frames all modules take to the size of the window, cardinalities of
unions over recursive sums.  `ProgramInPlace`,
`ProgramDelivered` and `KernelInEveryDirectory` say which contents every page
table has after a sequence of overlapping calls of `bootstrap_mmap`; they hold for
kernels and programs that keep to their own directory entries, as the linker
scripts lay them out, and that layout is fixed in the instance.  `Console` and
`Format` compute with concrete texts, and `Format` folds over them: induction over
data cannot be proved here.

## Not modelled

* `boot.asm` and `multiboot.asm`: straight-line code before any C code runs.
  `early_console_write_string` prints one message before `early_panic` halts.
* The types of `multiboot.h`, `elf_base.h` and `elf_32.h` are layouts of input;
  the models take the fields the code reads.
* The packing of descriptor bases and limits into bit fields, console colours,
  symbol tables and error texts of `elf.c`.
* `memcpy`, `memset` and `strlen` are single steps of the modules that use them.
* `proc_create` and the kernel's `mmap` are stubs; the runtime's stack check only
  panics.  `arch/i686/kcall.asm` is a preprocessed copy of `kcall.asm.S`.
* The amd64 and riscv directories hold boot stubs without a kernel.
