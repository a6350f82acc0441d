-------------------------------- MODULE Early --------------------------------
(***************************************************************************)
(* early_main (arch/i686/early.c): the walk over the multiboot tags that   *)
(* collects the memory map, moves the boot modules to the end of the       *)
(* kernel and leaves in memmaps[0] the memory that is still free.          *)
(*                                                                         *)
(* The boot loader (external) fixes the memory map and the placement of    *)
(* the modules; the order of the tags in between is not fixed.  Memory is  *)
(* modelled byte by byte: memory[a] is the address at which the byte now   *)
(* at `a' was when the kernel was entered.  The tags themselves, the       *)
(* module names and the messages are left out; a panic halts.              *)
(***************************************************************************)
EXTENDS Integers, Sequences, FiniteSets

CONSTANTS
    PAGE_SIZE,      \* bytes of a page
    LowEnd,         \* 1 MB
    KernelStart,    \* kernel_phys_range
    KernelEnd,
    MemorySize,     \* addresses are 0 .. MemorySize - 1
    NO_MEMMAPS,     \* capacity of kinfo.memmaps (20)
    NO_MODULES,     \* capacity of kinfo.modules (5)
    Maps,           \* possible memory maps: sequences of [addr, len, available]
    Placements      \* possible module placements: sequences of [start, end]

ASSUME EarlyAssumption ==
    /\ PAGE_SIZE \in Nat \ {0} /\ NO_MODULES \in Nat \ {0} /\ NO_MEMMAPS \in Nat \ {0}
    /\ LowEnd \in Nat /\ KernelStart \in Nat /\ KernelEnd \in Nat /\ MemorySize \in Nat
    /\ LowEnd <= KernelStart /\ KernelStart < KernelEnd /\ KernelEnd <= MemorySize
    /\ KernelEnd % PAGE_SIZE = 0

VARIABLES
    map,            \* the memory map of the loader
    placed,         \* where the loader put the modules, in tag order
    memory,         \* the bytes
    memmaps,        \* kinfo.memmaps[0 .. no_mmaps - 1], as a sequence
    mem_upper,      \* kinfo.mem_upper # 0
    modules,        \* kinfo.modules[0 .. no_modules - 1], as a sequence
    last_end,       \* last_module_end_addr
    total,          \* total_module_size
    todo,           \* kinds of tags still ahead, and the next module tag
    pc

vars == <<map, placed, memory, memmaps, mem_upper, modules, last_end, total, todo, pc>>

Address == 0 .. MemorySize - 1
SizeOf(x) == x.end - x.start

\* What a multiboot loader guarantees: the modules do not overlap each other
\* or the kernel and begin at page boundaries (the kernel's header asks for
\* that), and the map tells the truth.  What early_main also relies on: the
\* tags come in the order of the addresses and the modules lie behind the
\* kernel; the first entry at or above 1 MB holds the kernel and has room
\* for the modules behind it.
PlacedInOrder(p) ==
    /\ \A i \in DOMAIN p :
        /\ p[i].start % PAGE_SIZE = 0
        /\ KernelEnd <= p[i].start /\ p[i].start < p[i].end /\ p[i].end <= MemorySize
    /\ \A i, j \in DOMAIN p : i < j => p[i].end <= p[j].start

AlignUp_Down(a) == (a \div PAGE_SIZE) * PAGE_SIZE

\* Page alignment of a module's end.
AlignUp(a) == ((a + PAGE_SIZE - 1) \div PAGE_SIZE) * PAGE_SIZE

\* The entries early_main keeps.
Usable(entry) == entry.available /\ entry.addr >= LowEnd
UsableOf(entries) == SelectSeq(entries, Usable)

\* The maps and placements are sequences of regions and of spans.
ASSUME LoaderAssumption ==
    /\ \A m \in Maps : UsableOf(m) \in Seq([addr : Nat, len : Nat, available : BOOLEAN])
    /\ \A p \in Placements : p \in Seq([start : Nat, end : Nat])

\* Bytes of all modules, each rounded up to pages.
Packed(p) == LET sum[i \in 0 .. Len(p)] ==
                    IF i = 0 THEN 0 ELSE sum[i - 1] + AlignUp(SizeOf(p[i]))
             IN sum[Len(p)]

HoldsKernel(entries, p) ==
    LET first == UsableOf(entries)[1]
    IN UsableOf(entries) # <<>> =>
        /\ first.addr <= KernelStart
        /\ KernelEnd + Packed(p) <= first.addr + first.len

Init ==
    /\ map \in Maps /\ placed \in Placements
    /\ PlacedInOrder(placed) /\ HoldsKernel(map, placed)
    /\ memory = [a \in Address |-> a]
    /\ memmaps = <<>>
    /\ mem_upper = FALSE
    /\ modules = <<>>
    /\ last_end = KernelEnd
    /\ total = 0
    /\ todo = [mmap |-> TRUE, meminfo |-> TRUE, module |-> 1]
    /\ pc = "tags"

-----------------------------------------------------------------------------
mmap_tag_NoLimit ==
    /\ pc = "tags" /\ todo.mmap
    /\ memmaps' = UsableOf(map)
    /\ todo' = [todo EXCEPT !.mmap = FALSE]
    /\ UNCHANGED <<map, placed, memory, mem_upper, modules, last_end, total, pc>>

\* MULTIBOOT_TAG_TYPE_MMAP: usable entries are stored while
\* saved_mmap_index + 1 < NO_MEMMAPS, so the last slot stays empty.
mmap_tag ==
    /\ pc = "tags" /\ todo.mmap
    /\ LET kept == UsableOf(map)
       IN memmaps' = SubSeq(kept, 1, IF Len(kept) < NO_MEMMAPS - 1
                                     THEN Len(kept) ELSE NO_MEMMAPS - 1)
    /\ todo' = [todo EXCEPT !.mmap = FALSE]
    /\ UNCHANGED <<map, placed, memory, mem_upper, modules, last_end, total, pc>>

\* MULTIBOOT_TAG_TYPE_BASIC_MEMINFO.
meminfo_tag(some) ==
    /\ pc = "tags" /\ todo.meminfo
    /\ mem_upper' = some
    /\ todo' = [todo EXCEPT !.meminfo = FALSE]
    /\ UNCHANGED <<map, placed, memory, memmaps, modules, last_end, total, pc>>

\* The copy loop run from the last byte to the first.
CopyBytes_Downwards(bytes, dst, src, size) ==
    [a \in Address |->
        IF a \notin dst .. dst + size - 1 THEN bytes[a]
        ELSE IF dst >= src THEN bytes[src + (a - dst)]
        ELSE bytes[src + size - 1 - ((dst + size - 1 - a) % (src - dst))]]

\* The copy loop, from the first byte to the last.  Copying upwards within an
\* overlap repeats the first src .. dst bytes; copying downwards is exact.
CopyBytes(bytes, dst, src, size) ==
    [a \in Address |->
        IF a \notin dst .. dst + size - 1 THEN bytes[a]
        ELSE IF dst <= src THEN bytes[src + (a - dst)]
        ELSE bytes[src + ((a - dst) % (dst - src))]]

\* MULTIBOOT_TAG_TYPE_MODULE: the module goes to the end of the previous one;
\* modules beyond NO_MODULES are ignored.
module_tag ==
    /\ pc = "tags" /\ todo.module \in DOMAIN placed
    /\ todo' = [todo EXCEPT !.module = @ + 1]
    /\ LET src == placed[todo.module]
           end == AlignUp(last_end + SizeOf(src))
       IN IF Len(modules) + 1 > NO_MODULES
          THEN UNCHANGED <<memory, modules, last_end, total>>
          ELSE /\ memory' = CopyBytes(memory, last_end, src.start, SizeOf(src))
               /\ modules' = Append(modules, [start |-> last_end, end |-> end])
               /\ total' = total + (end - last_end)
               /\ last_end' = end
    /\ UNCHANGED <<map, placed, memmaps, mem_upper, pc>>

FreeRegion_KernelOnly(region) ==
    [region EXCEPT !.len = @ - (KernelEnd - region.addr), !.addr = last_end]

\* The last adjustment of memmaps[0].
FreeRegion(region) ==
    [region EXCEPT !.len = @ - (KernelEnd - region.addr) - total, !.addr = last_end]

NothingMissing == memmaps # <<>> /\ mem_upper /\ modules # <<>>

\* MULTIBOOT_TAG_TYPE_END: the three panics, else memmaps[0] is adjusted and
\* the kernel is entered (early_page_map is the start of BootPaging).  A tag
\* of the loader may be missing, except that all modules come.
end_tag ==
    /\ pc = "tags" /\ todo.module \notin DOMAIN placed
    /\ IF NothingMissing
       THEN /\ memmaps' = [memmaps EXCEPT ![1] = FreeRegion(@)]
            /\ pc' = "kernel"
       ELSE /\ pc' = "panic"
            /\ UNCHANGED memmaps
    /\ UNCHANGED <<map, placed, memory, mem_upper, modules, last_end, total, todo>>

Next ==
    \/ mmap_tag
    \/ \E some \in BOOLEAN : meminfo_tag(some)
    \/ module_tag
    \/ end_tag

Spec == Init /\ [][Next]_vars

-----------------------------------------------------------------------------
(* Properties *)

\* Type invariant of the scan; the length left in memmaps[0] does not wrap.
TypeOK ==
    /\ memory \in [Address -> Address]
    /\ pc \in {"tags", "kernel", "panic"}
    /\ mem_upper \in BOOLEAN
    /\ Len(memmaps) < NO_MEMMAPS /\ Len(modules) <= NO_MODULES
    /\ last_end \in Nat /\ total \in Nat
    /\ pc = "kernel" => memmaps[1].len \in Nat

\* Moving the modules together loses nothing: what was copied so far is, byte
\* for byte, what the loader put there, what is still to be copied has not been
\* touched, and neither has the kernel.
ModulesIntact ==
    /\ \A i \in DOMAIN modules : \A k \in 0 .. SizeOf(placed[i]) - 1 :
        memory[modules[i].start + k] = placed[i].start + k
    /\ \A i \in DOMAIN placed \ DOMAIN modules :
        \A a \in placed[i].start .. placed[i].end - 1 : memory[a] = a
    /\ \A a \in 0 .. KernelEnd - 1 : memory[a] = a

\* The modules that the kernel will find lie in whole pages, one behind the
\* other and behind the kernel, as bootstrap_identity_map_init_mem and
\* early_page_map take for granted.
ModulesPacked ==
    \A i \in DOMAIN modules :
        /\ modules[i].start = IF i = 1 THEN KernelEnd ELSE modules[i - 1].end
        /\ modules[i].end % PAGE_SIZE = 0
        /\ SizeOf(placed[i]) <= SizeOf(modules[i])

\* The frames the kernel will hand out are free memory: memmaps[0] ends where
\* the loader's region ends, begins behind the kernel and all modules, at a
\* page boundary, and the other regions are unchanged, in whatever order the
\* tags came.
FreeMemoryIsFree ==
    pc = "kernel" =>
        LET region == UsableOf(map)[1]
        IN /\ memmaps[1].addr + memmaps[1].len = region.addr + region.len
           /\ memmaps[1].addr % PAGE_SIZE = 0
           /\ \A i \in DOMAIN modules : modules[i].end <= memmaps[1].addr
           /\ KernelEnd <= memmaps[1].addr
           /\ \A i \in 2 .. Len(memmaps) : memmaps[i] = UsableOf(map)[i]

=============================================================================
