----------------------------- MODULE BootPaging -----------------------------
(***************************************************************************)
(* From early_page_map to the first user address spaces: the kernel maps   *)
(* itself and its heap (kern/kmem.c), opens an identity-mapped window on   *)
(* free memory (arch/i686/paging_utils.c) and loads the boot modules, each *)
(* into a page directory of its own (kern/main.c, lib/libelf/elf.c).       *)
(*                                                                         *)
(* Nothing runs concurrently here.  What varies is the input: how many     *)
(* modules there are, how large, and what their program headers say.       *)
(* Everything rests on three guesses the code makes in advance: how many   *)
(* frames early_page_map and bootstrap_identity_map_init_mem must make     *)
(* reachable, and how many tables bootstrap_mmap must create.              *)
(***************************************************************************)
EXTENDS PageTables

CONSTANTS
    LowFrames,      \* frames below 1 MB
    EarlyFrames,    \* frames of the .boot sections, loaded at 1 MB
    TextPages, BssPages, RodataPages, DataPages, StackPages, \* kernel sections
    HeapPages,      \* CONF_KHEAP_SIZE
    KernelPd,       \* directory index of K_HIGH_VMA
    UserStackTop,   \* page of ARCH_MAIN_THREAD_STACK_ADDR
    UserStackPages, \* ARCH_MAIN_THREAD_STACK_SIZE
    Images,         \* possible sequences of module sizes, in pages
    Segments,       \* possible PT_LOAD headers: [page, offset, filesz, memsz, align, prot]
    MaxSegments     \* bound on the PT_LOAD headers of one module

\* The .boot sections hold boot_pt; a stack begins above address 0.
ASSUME LayoutAssumption ==
    /\ {LowFrames, TextPages, BssPages, RodataPages, DataPages, StackPages,
        HeapPages, KernelPd, UserStackTop, UserStackPages} \subseteq Nat
    /\ EarlyFrames \in Nat \ {0}
    /\ UserStackPages <= UserStackTop

ASSUME ProgramAssumption ==
    /\ Images \subseteq Seq(Nat)
    /\ Segments \subseteq [page : Nat, offset : Nat, filesz : Nat, memsz : Nat,
                          align : Nat, prot : SUBSET {"r", "w", "x"}]

VARIABLES
    images,     \* the sizes of the modules that were loaded behind the kernel
    m,          \* the machine: see PageTables
    pc,         \* where bootstrap() is
    step,       \* index of the next kmap, or of the module being loaded
    heap,       \* frames [from, to) of the kernel heap, from the last kmap on
    loaded,     \* per module: the headers elf_ctx_load has processed
    page_dir,   \* per module: the page directory of its process
    data        \* per byte of memory: where memcpy took what it put there

vars == <<images, m, pc, step, heap, loaded, page_dir, data>>

-----------------------------------------------------------------------------
(* The physical layout the linker script gives. *)

BootPt        == LowFrames
KernelStart   == LowFrames + EarlyFrames
BootPd        == KernelStart          \* boot_page_directory
PageDirectory == KernelStart + 1      \* page_directory
KernelPt      == KernelStart + 2
BootKernelPt  == KernelStart + 3
BootstrapPt   == KernelStart + 4
ModulePt      == KernelStart + 5      \* module_bootstrap_pt
KtablePages   == 6

\* The sections in link order; the guard page and the console have one page.
SectionPages ==
    <<KtablePages, TextPages, BssPages, RodataPages, DataPages, 1, StackPages, 1>>
SectionStart(i) == KernelStart + Before(SectionPages, i)
KernelEnd == SectionStart(9)
KernelPage(frame) == KernelPd * E + frame
VgaFrame == LowFrames - 1

Modules == 1 .. Len(images)
ImageStart(i) == KernelEnd + Before(images, i)
ImagesEnd == ImageStart(Len(images) + 1)

-----------------------------------------------------------------------------
\* Frames that early_page_map identity maps behind the modules.
EarlyWindow == (HeapPages \div E) + 2

\* early_page_map: boot_pt and boot_kernel_pt, and the directory they hang on.
early_page_map ==
    [mem |->
        BootPd :> (0 :> Entry(BootPt, FALSE) @@ KernelPd :> Entry(BootKernelPt, FALSE))
        @@ BootPt :> (IdentityRun(KernelStart, KtablePages)
                      @@ IdentityRun(ImagesEnd, EarlyWindow)
                      @@ IdentityRun(LowFrames, EarlyFrames + 1)
                      @@ IdentityRun(0, LowFrames))
        @@ BootKernelPt :> (PtIndex(KernelPage(SectionStart(8))) :> Entry(VgaFrame, FALSE)
                            @@ IdentityRun(KernelStart, KernelEnd - KernelStart))
        @@ [f \in {PageDirectory, KernelPt, BootstrapPt, ModulePt} |-> <<>>],
     next |-> ImagesEnd,
     cr3 |-> BootPd,
     status |-> IF Overruns(ImagesEnd, EarlyWindow) THEN "overrun" ELSE "ok"]

NothingLoaded ==
    /\ step = 1
    /\ heap = [from |-> 0, to |-> 0]
    /\ loaded = <<>>
    /\ page_dir = <<>>
    /\ data = <<>>

Init ==
    /\ images \in Images
    /\ m = early_page_map
    /\ pc = "map_modules"
    /\ NothingLoaded

At(label) == pc = label /\ m.status = "ok"

\* The identity map of the first MB and of the first i module images.
ImageRuns[i \in Nat] ==
    IF i = 0 THEN IdentityRun(0, LowFrames)
    ELSE IdentityRun(ImageStart(i), images[i]) @@ ImageRuns[i - 1]

\* bootstrap_map_boot_modules: the kernel's directory gets its own table and
\* the identity map of the first MB and of the module images.
bootstrap_map_boot_modules ==
    /\ At("map_modules")
    /\ m' = [m EXCEPT
        !.mem = PageDirectory :> (0 :> Entry(BootstrapPt, FALSE)
                                  @@ KernelPd :> Entry(KernelPt, FALSE))
                @@ BootstrapPt :> ImageRuns[Len(images)]
                @@ @,
        !.status = IF \E i \in Modules : Overruns(ImageStart(i), images[i])
                   THEN "overrun" ELSE @]
    /\ pc' = "kmap"
    /\ UNCHANGED <<images, step, heap, loaded, page_dir, data>>

\* The arguments of the kmap calls of kmem_map_kernel_memory, in order.  The
\* guard page passes paddr 0 and so takes a free frame.
KernelMap ==
    LET Section(i, prot) == [page |-> KernelPage(SectionStart(i)),
                             paddr |-> SectionStart(i),
                             n |-> SectionPages[i], prot |-> prot]
    IN <<Section(1, {"r", "w"}), Section(2, {"r"}), Section(3, {"r", "w"}),
         Section(4, {"r"}), Section(5, {"r", "w"}),
         [Section(6, {}) EXCEPT !.paddr = PAGE_ALLOCATE],
         Section(7, {"r", "w"}),
         [Section(8, {"r", "w"}) EXCEPT !.paddr = VgaFrame],
         [page |-> KernelPage(KernelEnd), paddr |-> PAGE_ALLOCATE,
          n |-> HeapPages, prot |-> {"r", "w"}]>>

HeapStart == KernelPage(KernelEnd)

\* One kmap of kmem_map_kernel_memory.
kmap ==
    /\ At("kmap") /\ step <= Len(KernelMap)
    /\ LET k == KernelMap[step]
       IN m' = bootstrap_mmap(m, PageDirectory, k.paddr, k.page, k.n * PAGE_SIZE, k.prot, FALSE)
    /\ heap' = IF step = Len(KernelMap) THEN [from |-> m.next, to |-> m'.next] ELSE heap
    /\ step' = step + 1
    /\ UNCHANGED <<images, pc, loaded, page_dir, data>>

\* The rest of kmem_init: page_directory is loaded, kmalloc_init writes to the
\* header of every heap page.
kmem_init ==
    /\ At("kmap") /\ step > Len(KernelMap)
    /\ LET on == [m EXCEPT !.cr3 = PageDirectory]
       IN m' = IF \A k \in 0 .. HeapPages - 1 : Writable(on, HeapStart + k)
               THEN on ELSE Fail(on, "fault")
    /\ pc' = "window"
    /\ step' = 1
    /\ UNCHANGED <<images, heap, loaded, page_dir, data>>

\* phys_end - phys_start: per module 8 pages, its size and one page more.
WindowPages == Before([i \in Modules |-> 8 + images[i] + 1], Len(images) + 1)

\* bootstrap_identity_map_init_mem: the next WindowPages free frames, through
\* one table, in a copy of the kernel's directory.
bootstrap_identity_map_init_mem ==
    /\ At("window")
    /\ m' = [m EXCEPT
        !.mem = BootPd :> (PdIndex(m.next) :> Entry(ModulePt, FALSE) @@ @[PageDirectory])
                @@ ModulePt :> IdentityRun(m.next, WindowPages)
                @@ @,
        !.cr3 = BootPd,
        !.status = IF Overruns(m.next, WindowPages) THEN "overrun" ELSE @]
    /\ pc' = "load"
    /\ UNCHANGED <<images, step, heap, loaded, page_dir, data>>

-----------------------------------------------------------------------------
(* load_boot_modules *)

\* elf_ctx_create reads the image through the identity map.  The magic, class,
\* byte order, machine, version and type must be the supported ones; if not,
\* its caller panics.
elf_ctx_create(machine, image, valid) ==
    IF ~ Reachable(machine, image) THEN Fail(machine, "fault")
    ELSE IF ~ valid THEN Fail(machine, "panic")
    ELSE machine

DirectoryTemplate_Loaded(machine) == machine.mem[machine.cr3]

\* What a module's directory is a copy of.
DirectoryTemplate(machine) == machine.mem[BootPd]

\* Top of the loop: a directory for the next module, a copy of
\* boot_page_directory, is filled and loaded.
create_module_dir(valid) ==
    /\ At("load") /\ step \in Modules
    /\ LET pd == m.next
           fetched == bootstrap_fetch_page(m, 1)
           on == [fetched EXCEPT !.mem = pd :> DirectoryTemplate(m) @@ @, !.cr3 = pd]
       IN IF ~ Reachable(m, pd)
          THEN m' = Fail(m, "fault") /\ UNCHANGED <<loaded, page_dir>>
          ELSE /\ m' = elf_ctx_create(on, ImageStart(step), valid)
               /\ page_dir' = Append(page_dir, pd)
               /\ loaded' = Append(loaded, <<>>)
    /\ pc' = "segments"
    /\ UNCHANGED <<images, step, heap, data>>

\* The bytes of a segment, by address.
FileBytes(s) == s.page * PAGE_SIZE .. s.page * PAGE_SIZE + s.filesz - 1
SegmentPages(s) == s.page .. s.page + PagesOf(s.memsz) - 1

\* Where memcpy reads the byte for address a of segment s of module i.
Source(i, s, a) == (ImageStart(i) * PAGE_SIZE) + s.offset + (a - s.page * PAGE_SIZE)

\* memcpy of the file's bytes to their addresses, through the loaded directory.
CopyIn(machine, s) ==
    LET frame(a) == PteOf(machine, machine.cr3, a \div PAGE_SIZE).frame
        target(a) == (frame(a) * PAGE_SIZE) + (a % PAGE_SIZE)
    IN [t \in {target(a) : a \in FileBytes(s)} |->
            Source(step, s, CHOOSE a \in FileBytes(s) : target(a) = t)] @@ data

bootstrap_elf_mmap_KeepsWrite(machine, pd, page, size, prot) ==
    bootstrap_mmap(machine, pd, PAGE_ALLOCATE, page, size, prot \union {"u", "w"}, TRUE)

\* bootstrap_elf_mmap: the flags of a program header, for ring 3.  Both calls
\* of elf_ctx_load ask for fresh frames where there are none.
bootstrap_elf_mmap(machine, pd, page, size, prot) ==
    bootstrap_mmap(machine, pd, PAGE_ALLOCATE, page, size, prot \union {"u"}, TRUE)

\* One PT_LOAD header of elf_ctx_load: map it writable, copy, map it again
\* with its own flags.  filesz > memsz is an error, filesz = 0 is skipped.  The
\* test of the alignment rejects nothing, but divides by it if it is below 2.
load_segment(s) ==
    /\ At("segments") /\ Len(loaded[step]) < MaxSegments
    /\ LET pd == page_dir[step]
           writable == bootstrap_elf_mmap(m, pd, s.page, s.memsz, s.prot \union {"w"})
       IN IF s.filesz > s.memsz
          THEN m' = Fail(m, "panic") /\ UNCHANGED data
          ELSE IF s.align = 0
          THEN m' = Fail(m, "fault") /\ UNCHANGED data
          ELSE IF s.filesz = 0
          THEN UNCHANGED <<m, data>>
          ELSE IF writable.status # "ok"
          THEN m' = writable /\ UNCHANGED data
          ELSE IF \E a \in FileBytes(s) : ~ Reachable(writable, Source(step, s, a) \div PAGE_SIZE)
          THEN m' = Fail(writable, "fault") /\ UNCHANGED data
          ELSE /\ m' = bootstrap_elf_mmap(writable, pd, s.page, s.memsz, s.prot)
               /\ data' = CopyIn(writable, s)
    /\ loaded' = [loaded EXCEPT ![step] = Append(@, s)]
    /\ UNCHANGED <<images, pc, step, heap, page_dir>>

StackFirst == UserStackTop - UserStackPages

\* The rest of elf_ctx_load and of the loop body: the stack, one page more
\* than its size, and on to the next module.
map_stack ==
    /\ At("segments")
    /\ m' = bootstrap_elf_mmap(m, page_dir[step], StackFirst,
                               (UserStackPages + 1) * PAGE_SIZE, {"r", "w"})
    /\ pc' = "load"
    /\ step' = step + 1
    /\ UNCHANGED <<images, heap, loaded, page_dir, data>>

\* kmem_init_cleanup: back to boot_page_directory, boot memory is complete.
kmem_init_cleanup ==
    /\ At("load") /\ step \notin Modules
    /\ m' = [m EXCEPT !.cr3 = BootPd]
    /\ pc' = "done"
    /\ UNCHANGED <<images, step, heap, loaded, page_dir, data>>

Next ==
    \/ bootstrap_map_boot_modules
    \/ kmap
    \/ kmem_init
    \/ bootstrap_identity_map_init_mem
    \/ \E valid \in BOOLEAN : create_module_dir(valid)
    \/ \E s \in Segments : load_segment(s)
    \/ map_stack
    \/ kmem_init_cleanup

Spec == Init /\ [][Next]_vars

-----------------------------------------------------------------------------
(* Properties *)

\* The pages and the tables of a range, and the segments of module i that are
\* mapped so far.
RangePages(page, size) == page .. page + PagesOf(size) - 1
RangeTables(page, size) == {PdIndex(p) : p \in RangePages(page, size)}
StackSize == (UserStackPages + 1) * PAGE_SIZE
SegmentsOf(i) ==
    IF i \in DOMAIN loaded THEN SelectSeq(loaded[i], LAMBDA s : s.filesz > 0) ELSE <<>>
SegmentTables(i, n) ==
    UNION {RangeTables(s.page, s.memsz) : s \in {SegmentsOf(i)[k] : k \in 1 .. n}}

\* A range that the count of bootstrap_mmap is right for, in a directory with
\* the tables `used': it lies in one table, or is of whole pages and begins in
\* an absent one, or needs no new table.
Countable(page, size, used) ==
    \/ Cardinality(RangeTables(page, size)) = 1
    \/ size % PAGE_SIZE = 0 /\ PdIndex(page) \notin used
    \/ RangeTables(page, size) \subseteq used

\* The segments of module i are sound and lie in its image and in memory that
\* is neither the kernel's nor the window's.
Loadable(i) ==
    /\ \A k \in DOMAIN SegmentsOf(i) :
         LET s == SegmentsOf(i)[k]
         IN /\ s.offset + s.filesz <= images[i] * PAGE_SIZE
            /\ RangeTables(s.page, s.memsz) \cap DOMAIN m.mem[BootPd] = {}
            /\ Countable(s.page, s.memsz, SegmentTables(i, k - 1))
    /\ Countable(StackFirst, StackSize, SegmentTables(i, Len(SegmentsOf(i))))

\* What module i takes: a directory, the tables and the pages.
FramesOf(i) ==
    LET n == Len(SegmentsOf(i))
        pages == UNION {RangePages(s.page, s.memsz) : s \in {SegmentsOf(i)[k] : k \in 1 .. n}}
    IN 1 + Cardinality(SegmentTables(i, n) \union RangeTables(StackFirst, StackSize))
         + Cardinality(pages \union RangePages(StackFirst, StackSize))

\* What the code takes for granted of the modules.
Bootable ==
    /\ ~ Overruns(ImagesEnd, EarlyWindow) /\ ~ Overruns(heap.to, WindowPages)
    /\ \A i \in Modules : ~ Overruns(ImageStart(i), images[i])
    /\ \A i \in DOMAIN loaded : \A k \in DOMAIN loaded[i] : loaded[i][k].align # 0
    /\ \A i \in DOMAIN loaded : Loadable(i)
    /\ Before([i \in Modules |-> FramesOf(i)], Len(images) + 1) <= WindowPages

\* The boot goes through, or panics over an invalid module, if no window begins
\* so near the end of a table that it runs past it, the segments lie in
\* their images and do not lead from a table that exists to one that does not,
\* no alignment is 0, and all modules together take no more frames than the
\* window has: then no paging structure is used while it is unmapped or absent.
\* Nothing of this is tested by the code.
BootCompletes == Bootable => m.status \in {"ok", "panic"}

UserPages(pd) ==
    {page \in UNION {{q * E + i : i \in DOMAIN m.mem[m.mem[pd][q].frame]} :
                        q \in {p \in DOMAIN m.mem[pd] : m.mem[pd][p].user}} :
        UserPage(m, pd, page)}
UserFrames(pd) == {PteOf(m, pd, page).frame : page \in UserPages(pd)}
KernelFrames == 0 .. KernelEnd - 1 \union heap.from .. heap.to - 1

\* What bootstrap_fetch_page hands out has one owner: a frame a process can
\* reach is no paging structure, belongs to neither the kernel, its heap nor a
\* module image, is mapped once, and no other process can reach it.
UserFramesPrivate ==
    \A i \in DOMAIN page_dir :
        LET pd == page_dir[i]
        IN /\ UserFrames(pd) \cap (DOMAIN m.mem \union KernelFrames
                                     \union KernelEnd .. ImagesEnd - 1) = {}
           /\ \A p, q \in UserPages(pd) :
                PteOf(m, pd, p).frame = PteOf(m, pd, q).frame => p = q
           /\ \A j \in DOMAIN page_dir \ {i} :
                UserFrames(pd) \cap UserFrames(page_dir[j]) = {}

\* Segments of module i that have been mapped, the last one that covers a page.
InLoad(i) == {k \in DOMAIN loaded[i] : loaded[i][k].filesz > 0}
LastOn(i, page) == CHOOSE k \in InLoad(i) :
    /\ page \in SegmentPages(loaded[i][k])
    /\ \A j \in InLoad(i) : page \in SegmentPages(loaded[i][j]) => j <= k

\* The last one with file contents for an address.
LastWith(i, a) == CHOOSE k \in InLoad(i) :
    /\ a \in FileBytes(loaded[i][k])
    /\ \A j \in InLoad(i) : a \in FileBytes(loaded[i][j]) => j <= k

\* elf_ctx_load gives a module its program: as long as nothing failed, each
\* page of a loaded segment is reachable from ring 3 with the permissions of
\* the last segment on it, and each byte has the contents the last segment
\* with it has in the file, also after later segments and later modules were
\* loaded.
ProgramInPlace ==
    m.status = "ok" =>
    \A i \in DOMAIN loaded : \A k \in InLoad(i) :
        LET pd == page_dir[i]
            s == loaded[i][k]
        IN /\ \A page \in SegmentPages(s) :
                /\ UserPage(m, pd, page)
                /\ PteOf(m, pd, page).rw = ("w" \in loaded[i][LastOn(i, page)].prot)
           /\ \A a \in FileBytes(s) :
                LET f == PteOf(m, pd, a \div PAGE_SIZE).frame
                    t == (f * PAGE_SIZE) + (a % PAGE_SIZE)
                IN /\ t \in DOMAIN data
                   /\ LET l == loaded[i][LastWith(i, a)]
                      IN data[t] = ImageStart(i) * PAGE_SIZE + l.offset + a - l.page * PAGE_SIZE

\* Once kmem_init is through, every directory that is ever loaded maps the
\* kernel as kmem_map_kernel_memory laid it out: the sections to their frames,
\* text and rodata read-only, no access to the guard page, the heap to frames
\* of its own, and none of it for ring 3.
KernelInEveryDirectory ==
    (m.status = "ok" /\ pc \in {"load", "segments", "done"}) =>
    \A pd \in {PageDirectory, BootPd} \union {page_dir[i] : i \in DOMAIN page_dir} :
    \A c \in DOMAIN KernelMap : \A k \in 0 .. KernelMap[c].n - 1 :
        LET call == KernelMap[c]
            page == call.page + k
        IN IF call.prot = {}
           THEN ~ Mapped(m, pd, page)
           ELSE /\ Mapped(m, pd, page) /\ ~ UserPage(m, pd, page)
                /\ PteOf(m, pd, page).rw = ("w" \in call.prot)
                /\ PteOf(m, pd, page).frame =
                     IF call.paddr = PAGE_ALLOCATE
                     THEN heap.to - HeapPages + k
                     ELSE call.paddr + k

=============================================================================
