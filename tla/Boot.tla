-------------------------------- MODULE Boot --------------------------------
(***************************************************************************)
(* The boot from the first tag to the last module: early_main (Early) up   *)
(* to its call of early_page_map, then bootstrap (BootPaging).  The two    *)
(* parts share no code; they agree through kernel_info_t, the images of    *)
(* the modules behind the kernel and memmaps[0].  Early counts in bytes,   *)
(* BootPaging in pages.                                                    *)
(***************************************************************************)
EXTENDS BootPaging

CONSTANTS MemorySize, NO_MEMMAPS, NO_MODULES, Maps, Placements

VARIABLES map, placed, memory, memmaps, mem_upper, modules, last_end, total, todo,
          early_pc      \* the pc of Early

scanVars == <<map, placed, memory, memmaps, mem_upper, modules, last_end, total, todo, early_pc>>

Scan == INSTANCE Early WITH
          LowEnd <- LowFrames * PAGE_SIZE,
          KernelStart <- KernelStart * PAGE_SIZE,
          KernelEnd <- KernelEnd * PAGE_SIZE,
          pc <- early_pc

\* The assumptions of Early on its inputs.
ASSUME ScanAssumption ==
    /\ NO_MODULES \in Nat \ {0} /\ NO_MEMMAPS \in Nat \ {0} /\ MemorySize \in Nat
    /\ KernelEnd * PAGE_SIZE <= MemorySize
    /\ \A entries \in Maps :
         Scan!UsableOf(entries) \in Seq([addr : Nat, len : Nat, available : BOOLEAN])
    /\ Placements \subseteq Seq([start : Nat, end : Nat])

BootInit ==
    /\ Scan!Init
    /\ images = <<>> /\ m = early_page_map /\ pc = "early"
    /\ NothingLoaded

\* A tag of early_main's loop.
tag ==
    /\ pc = "early"
    /\ \/ Scan!mmap_tag
       \/ \E some \in BOOLEAN : Scan!meminfo_tag(some)
       \/ Scan!module_tag
    /\ UNCHANGED vars

ImagesOf_Unrounded ==
    [i \in DOMAIN modules |-> Scan!SizeOf(placed[i]) \div PAGE_SIZE]

\* The images as kinfo describes them, in pages.
ImagesOf == [i \in DOMAIN modules |-> Scan!SizeOf(modules[i]) \div PAGE_SIZE]

\* The end of early_main: unless it panics, early_page_map, and the kernel.
enter_kernel ==
    /\ pc = "early"
    /\ Scan!end_tag
    /\ IF early_pc' = "kernel"
       THEN images' = ImagesOf /\ m' = early_page_map' /\ pc' = "map_modules"
       ELSE UNCHANGED <<images, m, pc>>
    /\ UNCHANGED <<step, heap, loaded, page_dir, data>>

\* bootstrap.
bootstrap == Next /\ UNCHANGED scanVars

BootNext == tag \/ enter_kernel \/ bootstrap

BootSpec == BootInit /\ [][BootNext]_<<vars, scanVars>>

-----------------------------------------------------------------------------
(* Properties *)

\* What early_main leaves in kernel_info_t describes the memory bootstrap takes
\* it to: the first frame handed out is the first of memmaps[0] and lies behind
\* the last image, and each image begins where its module was copied to.
HandoverAgrees ==
    pc = "map_modules" =>
        /\ m.next * PAGE_SIZE = memmaps[1].addr
        /\ \A i \in Modules : /\ ImageStart(i) * PAGE_SIZE = modules[i].start
                              /\ ImageStart(i + 1) * PAGE_SIZE = modules[i].end

\* A byte of a loaded program that its module's file contains, in the last
\* segment with it.
Delivered(i, a) ==
    LET s == loaded[i][LastWith(i, a)]
        k == s.offset + a - s.page * PAGE_SIZE
        page == PteOf(m, page_dir[i], a \div PAGE_SIZE)
    IN k < Scan!SizeOf(placed[i]) =>
         memory[data[(page.frame * PAGE_SIZE) + (a % PAGE_SIZE)]] = placed[i].start + k

\* End to end: through the move behind the kernel, the page tables and the
\* copies, every program finds at its addresses the bytes the boot loader had
\* placed for it, and no paging structure was built over an image in between.
ProgramDelivered ==
    m.status = "ok" =>
        /\ DOMAIN m.mem \intersect KernelEnd .. ImagesEnd - 1 = {}
        /\ \A i \in DOMAIN loaded : \A k \in InLoad(i) :
             \A a \in FileBytes(loaded[i][k]) : Delivered(i, a)
=============================================================================
