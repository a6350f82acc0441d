---------------------------- MODULE Boot_proofs ----------------------------
(***************************************************************************)
(* Proofs about BootPaging and Boot: what bootstrap_fetch_page hands out   *)
(* has one owner, for every size of the kernel, of the tables, of the      *)
(* modules and of their segments, also when the modules are those that     *)
(* early_main leaves; and bootstrap takes the memory to be what early_main *)
(* made of it.                                                             *)
(***************************************************************************)
EXTENDS Boot, PageTables_proofs, BootPaging_proofs

\* Every step below is tried with the SMT solver, unless it names another prover.
USE SMTT(60)

\* A step of bootstrap, or none, preserves the invariant.
LEMMA NextIInv == IInv /\ [Next]_vars => IInv'
<1>1. IInv /\ Next => IInv'
  BY StepIInv, Mmap, ZenonT(60)
<1> QED BY <1>1, Stutter, ZenonT(60)

\* Whatever the sizes of the kernel, of the modules and of their segments, and
\* wherever the boot stops: a frame that bootstrap_fetch_page gave a process is
\* no paging structure, does not belong to the kernel, its heap or an image, is
\* mapped once, and no other process reaches it.
THEOREM FramesPrivate == Spec => []UserFramesPrivate
BY NextIInv, InitIInv, FramesApart, PTL DEF Spec

-----------------------------------------------------------------------------
(* The boot, given what the walk over the tags knows *)

\* The modules found so far and where they were moved to.
Walked ==
    /\ modules \in Seq([start : Nat, end : Nat]) /\ placed \in Seq([start : Nat, end : Nat])
    /\ todo \in [mmap : BOOLEAN, meminfo : BOOLEAN, module : Nat \ {0}]
    /\ todo.module <= Len(placed) + 1
    /\ Len(modules) = IF todo.module - 1 < NO_MODULES THEN todo.module - 1 ELSE NO_MODULES
    /\ \A i \in DOMAIN modules :
         /\ modules[i].start = IF i = 1 THEN KernelEnd * PAGE_SIZE ELSE modules[i - 1].end
         /\ modules[i].end % PAGE_SIZE = 0
         /\ placed[i].end - placed[i].start <= modules[i].end - modules[i].start
    /\ \A i \in DOMAIN placed : placed[i].start < placed[i].end
    /\ last_end = IF modules = <<>> THEN KernelEnd * PAGE_SIZE ELSE modules[Len(modules)].end

Regions == memmaps \in Seq([addr : Nat, len : Int, available : BOOLEAN])

LEMMA WalkedAdjacent ==
  ASSUME Walked, KernelEnd \in Nat
  PROVE  Adjacent(modules, KernelEnd)
<1>1. /\ modules \in Seq([start : Nat, end : Nat]) /\ placed \in Seq([start : Nat, end : Nat])
      /\ Len(modules) <= Len(placed)
  <2>1. /\ modules \in Seq([start : Nat, end : Nat]) /\ placed \in Seq([start : Nat, end : Nat])
        /\ todo.module <= Len(placed) + 1 /\ NO_MODULES \in Nat
        /\ Len(modules) = IF todo.module - 1 < NO_MODULES THEN todo.module - 1 ELSE NO_MODULES
        /\ todo \in [mmap : BOOLEAN, meminfo : BOOLEAN, module : Nat \ {0}]
    BY ScanAssumption, ZenonT(60) DEF Walked
  <2>2. todo.module \in Nat
    BY ONLY <2>1, ZenonT(60)
  <2> QED BY ONLY <2>1, <2>2
<1>2. PICK n \in Nat, k \in Nat : /\ n = Len(modules) /\ DOMAIN modules = 1 .. n
                                /\ k = Len(placed) /\ DOMAIN placed = 1 .. k /\ n <= k
  BY ONLY <1>1
<1>3. \A i \in 1 .. n : i \in 1 .. k
  BY ONLY <1>2
<1>4. ASSUME NEW i \in 1 .. n
      PROVE  /\ modules[i].start = IF i = 1 THEN KernelEnd * PAGE_SIZE ELSE modules[i - 1].end
             /\ modules[i].end % PAGE_SIZE = 0
             /\ modules[i].start <= modules[i].end
  <2>1. /\ modules[i].start = IF i = 1 THEN KernelEnd * PAGE_SIZE ELSE modules[i - 1].end
        /\ modules[i].end % PAGE_SIZE = 0
        /\ placed[i].end - placed[i].start <= modules[i].end - modules[i].start
    BY <1>2, ZenonT(60) DEF Walked
  <2>2. placed[i].start < placed[i].end
    BY <1>2, <1>3, ZenonT(60) DEF Walked
  <2>3. modules[i].start \in Nat /\ modules[i].end \in Nat
        /\ placed[i].start \in Nat /\ placed[i].end \in Nat
    <3>1. modules[i] \in [start : Nat, end : Nat] /\ placed[i] \in [start : Nat, end : Nat]
      BY <1>1, <1>2, <1>3, Elements, ZenonT(60)
    <3> QED BY <3>1, ZenonT(60)
  <2>4. modules[i].start <= modules[i].end
    <3>1. PICK a, b, c, d : a = placed[i].start /\ b = placed[i].end
                            /\ c = modules[i].start /\ d = modules[i].end
      BY ZenonT(60)
    <3>2. a \in Nat /\ b \in Nat /\ c \in Nat /\ d \in Nat /\ a < b /\ b - a <= d - c
      BY <2>1, <2>2, <2>3, <3>1, ZenonT(60)
    <3>3. c <= d
      BY ONLY <3>2
    <3> QED BY <3>1, <3>3, ZenonT(60)
  <2> QED BY <2>1, <2>4, ZenonT(60)
<1> QED BY <1>1, <1>2, <1>4, ZenonT(60) DEF Adjacent

\* What enter_kernel leaves.
Handed ==
    /\ Walked /\ images = ImagesOf /\ m = early_page_map /\ pc = "map_modules" /\ NothingLoaded
    /\ modules # <<>> /\ memmaps[1].addr = last_end

\* It describes the memory of bootstrap, which may begin.
LEMMA HandedAgrees == images \in Seq(Nat) /\ Handed => IInv /\ HandoverAgrees
<1> SUFFICES ASSUME images \in Seq(Nat), Handed PROVE IInv /\ HandoverAgrees
  BY ZenonT(60)
<1>1. KernelEnd \in Nat /\ ImagesEnd \in Nat
  BY Frames, ZenonT(60)
<1>2. IInv
  <2>1. m = early_page_map /\ pc = "map_modules"
        /\ step = 1 /\ heap = [from |-> 0, to |-> 0] /\ page_dir = <<>>
    BY ZenonT(60) DEF Handed, NothingLoaded
  <2>2. Kernel(m, KernelDirs) /\ ImagesEnd <= m.next
    BY <2>1, InitKernel, ZenonT(60)
  <2>3. Typed
    BY ONLY <2>1, images \in Seq(Nat) DEF Typed
  <2>4. KernelPhase
    BY <2>1, <2>2, ZenonT(60) DEF KernelPhase
  <2> QED BY <2>3, <2>4, ZenonT(60) DEF IInv
<1>3. images = [i \in DOMAIN modules |-> PagesIn(modules[i])]
  BY ZenonT(60) DEF Handed, ImagesOf, Scan!SizeOf, PagesIn
<1>4. /\ Len(images) = Len(modules)
      /\ \A i \in 1 .. Len(modules) :
           /\ (KernelEnd + Before(images, i)) * PAGE_SIZE = modules[i].start
           /\ (KernelEnd + Before(images, i + 1)) * PAGE_SIZE = modules[i].end
  <2>1. Adjacent(modules, KernelEnd)
    BY <1>1, WalkedAdjacent, ZenonT(60) DEF Handed
  <2> QED BY <1>1, <1>3, <2>1, PagesOfAdjacent, ZenonT(60)
<1>5. \A i \in Modules : /\ ImageStart(i) * PAGE_SIZE = modules[i].start
                         /\ ImageStart(i + 1) * PAGE_SIZE = modules[i].end
  BY <1>4, ZenonT(60) DEF Modules, ImageStart
<1>6. m.next = ImagesEnd
  <2>1. m = early_page_map
    BY ZenonT(60) DEF Handed
  <2> QED BY <2>1, ZenonT(60) DEF early_page_map
<1>7. m.next * PAGE_SIZE = memmaps[1].addr
  <2>1. memmaps[1].addr = last_end /\ modules # <<>>
    BY ZenonT(60) DEF Handed
  <2>2. last_end = IF modules = <<>> THEN KernelEnd * PAGE_SIZE ELSE modules[Len(modules)].end
    BY ZenonT(60) DEF Handed, Walked
  <2>3. Len(images) \in Modules
    <3>1. modules \in Seq([start : Nat, end : Nat])
      BY ZenonT(60) DEF Handed, Walked
    <3>2. Len(modules) \in 1 .. Len(modules)
      BY ONLY <2>1, <3>1
    <3> QED BY <1>4, <3>2, ZenonT(60) DEF Modules
  <2>4. ImageStart(Len(images) + 1) * PAGE_SIZE = modules[Len(images)].end
    BY <1>5, <2>3, ZenonT(60)
  <2> QED BY <1>4, <1>6, <2>1, <2>2, <2>4, ZenonT(60) DEF ImagesEnd
<1> QED BY <1>2, <1>5, <1>7, ZenonT(60) DEF HandoverAgrees

-----------------------------------------------------------------------------
\* Before the kernel is entered nothing is loaded; then what early_main left
\* agrees with the memory, and the invariant of bootstrap holds.
BootInv ==
    /\ images \in Seq(Nat)
    /\ (pc = "early" /\ NothingLoaded) \/ IInv
    /\ HandoverAgrees

LEMMA BootInitInv == BootInit => BootInv
<1> SUFFICES ASSUME BootInit PROVE BootInv
  BY ZenonT(60)
<1>1. images = <<>> /\ pc = "early" /\ NothingLoaded
  BY ZenonT(60) DEF BootInit
<1>2. images \in Seq(Nat)
  BY ONLY <1>1
<1>3. HandoverAgrees
  BY <1>1, ZenonT(60) DEF HandoverAgrees
<1> QED BY <1>1, <1>2, <1>3, ZenonT(60) DEF BootInv

LEMMA TagKeeps == BootInv /\ tag => BootInv'
<1> SUFFICES ASSUME BootInv, tag PROVE BootInv'
  BY ZenonT(60)
<1>1. pc = "early" /\ UNCHANGED vars /\ images \in Seq(Nat)
  BY ZenonT(60) DEF tag, BootInv
<1>2. UNCHANGED <<images, m, pc, step, heap, loaded, page_dir, data>>
  BY <1>1, ZenonT(60) DEF vars
<1>3. NothingLoaded
  <2>1. ~ IInv
    BY <1>1, ZenonT(60) DEF IInv, KernelPhase, LoadPhase
  <2> QED BY <2>1, ZenonT(60) DEF BootInv
<1>4. pc' = "early" /\ NothingLoaded' /\ images' \in Seq(Nat)
  BY <1>1, <1>2, <1>3, ZenonT(60) DEF NothingLoaded
<1>5. HandoverAgrees'
  BY <1>4, ZenonT(60) DEF HandoverAgrees
<1> QED BY <1>4, <1>5, ZenonT(60) DEF BootInv

\* The end of early_main, where the two parts meet.
LEMMA EnterKeeps == BootInv /\ Walked /\ Regions /\ enter_kernel => BootInv'
<1> SUFFICES ASSUME BootInv, Walked, Regions, enter_kernel PROVE BootInv'
  BY ZenonT(60)
<1>1. pc = "early" /\ images \in Seq(Nat) /\ Scan!end_tag
      /\ UNCHANGED <<step, heap, loaded, page_dir, data>>
  BY ZenonT(60) DEF enter_kernel, BootInv
<1>2. UNCHANGED <<placed, modules, last_end, todo>>
  BY <1>1, ZenonT(60) DEF Scan!end_tag
<1>3. NothingLoaded'
  <2>1. ~ IInv
    BY <1>1, ZenonT(60) DEF IInv, KernelPhase, LoadPhase
  <2>2. NothingLoaded
    BY <2>1, ZenonT(60) DEF BootInv
  <2> QED BY <1>1, <2>2, ZenonT(60) DEF NothingLoaded
<1>4. CASE early_pc' = "kernel"
  <2>1. images' = ImagesOf /\ m' = early_page_map' /\ pc' = "map_modules"
    BY <1>4, ZenonT(60) DEF enter_kernel
  <2>2. /\ Scan!NothingMissing /\ memmaps' = [memmaps EXCEPT ![1] = Scan!FreeRegion(@)]
        /\ modules' = modules /\ last_end' = last_end
    <3>1. "panic" # "kernel"
      BY ZenonT(60)
    <3> QED BY <1>1, <1>4, <3>1, ZenonT(60) DEF Scan!end_tag
  <2>3. ImagesOf' = ImagesOf
    BY <2>2, ZenonT(60) DEF ImagesOf, Scan!SizeOf
  <2>4. memmaps'[1].addr = last_end'
    <3>1. memmaps \in Seq([addr : Nat, len : Int, available : BOOLEAN]) /\ memmaps # <<>>
      BY <2>2, ZenonT(60) DEF Regions, Scan!NothingMissing
    <3>2. 1 \in DOMAIN memmaps /\ memmaps[1] \in [addr : Nat, len : Int, available : BOOLEAN]
      BY <3>1, Elements, ZenonT(60)
    <3>3. memmaps'[1] = Scan!FreeRegion(memmaps[1])
      BY <2>2, <3>2, ZenonT(60)
    <3>4. Scan!FreeRegion(memmaps[1]).addr = last_end
      <4>1. PICK region \in [addr : Nat, len : Int, available : BOOLEAN] : region = memmaps[1]
        BY <3>2, ZenonT(60)
      <4>2. PICK x : x = region.len - (KernelEnd * PAGE_SIZE - region.addr) - total
        BY ZenonT(60)
      <4>3. Scan!FreeRegion(region) = [region EXCEPT !.len = x, !.addr = last_end]
        BY <4>2, ZenonT(60) DEF Scan!FreeRegion
      <4>4. [region EXCEPT !.len = x, !.addr = last_end].addr = last_end
        BY ONLY region \in [addr : Nat, len : Int, available : BOOLEAN], ZenonT(60)
      <4> QED BY <4>1, <4>3, <4>4, ZenonT(60)
    <3> QED BY <2>2, <3>3, <3>4, ZenonT(60)
  <2>5. modules' # <<>>
    BY <2>2, ZenonT(60) DEF Scan!NothingMissing
  <2>6. images' \in Seq(Nat)
    <3>1. KernelEnd \in Nat
      BY <1>1, Frames, ZenonT(60)
    <3>2. Adjacent(modules, KernelEnd)
      BY <1>1, <3>1, WalkedAdjacent, ZenonT(60)
    <3>3. images' = [i \in DOMAIN modules |-> PagesIn(modules[i])]
      BY <2>1, ZenonT(60) DEF ImagesOf, Scan!SizeOf, PagesIn
    <3> QED BY <3>1, <3>2, <3>3, PagesOfAdjacent, ZenonT(60)
  <2>7. Walked'
    BY <1>2, ZenonT(60) DEF Walked
  <2>8. Handed'
    BY <1>3, <2>7, <2>1, <2>3, <2>4, <2>5, ZenonT(60) DEF Handed
  <2>9. (images \in Seq(Nat) /\ Handed)' => (IInv /\ HandoverAgrees)'
    BY HandedAgrees, PTL
  <2> QED BY <2>6, <2>8, <2>9, ZenonT(60) DEF BootInv
<1>5. CASE early_pc' # "kernel"
  <2>1. images' = images /\ pc' = "early"
    BY <1>1, <1>5, ZenonT(60) DEF enter_kernel
  <2>2. HandoverAgrees'
    BY <2>1, ZenonT(60) DEF HandoverAgrees
  <2> QED BY <1>1, <1>3, <2>1, <2>2, ZenonT(60) DEF BootInv
<1> QED BY <1>4, <1>5, ZenonT(60)

LEMMA BootstrapKeeps == BootInv /\ bootstrap => BootInv'
<1> SUFFICES ASSUME BootInv, bootstrap PROVE BootInv'
  BY ZenonT(60)
<1>1. Next /\ images \in Seq(Nat)
  BY ZenonT(60) DEF bootstrap, BootInv
<1>2. pc' # "map_modules" /\ pc # "early"
  BY <1>1, BootstrapMoves, ZenonT(60)
<1>3. IInv'
  <2>1. IInv
    BY <1>2, ZenonT(60) DEF BootInv
  <2> QED BY <1>1, <2>1, StepIInv, Mmap, ZenonT(60)
<1>4. HandoverAgrees'
  BY <1>2, ZenonT(60) DEF HandoverAgrees
<1>5. images' \in Seq(Nat)
  BY <1>3, ZenonT(60) DEF IInv, Typed
<1> QED BY <1>3, <1>4, <1>5, ZenonT(60) DEF BootInv

LEMMA BootNextInv == BootInv /\ Walked /\ Regions /\ [BootNext]_<<vars, scanVars>> => BootInv'
<1>1. ASSUME BootInv, UNCHANGED <<vars, scanVars>> PROVE BootInv'
  <2>1. UNCHANGED vars /\ UNCHANGED scanVars /\ images \in Seq(Nat)
    BY <1>1, ZenonT(60) DEF BootInv
  <2>2. UNCHANGED <<images, m, pc, step, heap, loaded, page_dir, data, modules, memmaps>>
    BY <2>1, ZenonT(60) DEF vars, scanVars
  <2>3. IInv => IInv'
    BY <2>1, NextIInv, ZenonT(60)
  <2>4. pc = "early" /\ NothingLoaded => pc' = "early" /\ NothingLoaded'
    BY <2>2, ZenonT(60) DEF NothingLoaded
  <2>5. HandoverAgrees'
    <3>1. HandoverAgrees
      BY <1>1, ZenonT(60) DEF BootInv
    <3> QED BY <2>2, <3>1, ZenonT(60) DEF HandoverAgrees, Modules, ImageStart
  <2>6. images' \in Seq(Nat)
    BY <2>1, <2>2, ZenonT(60)
  <2> QED BY <1>1, <2>3, <2>4, <2>5, <2>6, ZenonT(60) DEF BootInv
<1> QED BY <1>1, TagKeeps, EnterKeeps, BootstrapKeeps, ZenonT(60) DEF BootNext

\* A frame a process can reach has one owner, before the kernel is entered
\* because there is no process.
LEMMA BootPrivate == BootInv => UserFramesPrivate
<1> SUFFICES ASSUME BootInv PROVE UserFramesPrivate
  BY ZenonT(60)
<1>1. CASE pc = "early" /\ NothingLoaded
  <2>1. page_dir = <<>>
    BY <1>1, ZenonT(60) DEF NothingLoaded
  <2>2. DOMAIN page_dir = {}
    BY ONLY <2>1
  <2> QED BY <2>2, ZenonT(60) DEF UserFramesPrivate
<1>2. CASE IInv
  BY <1>2, FramesApart, ZenonT(60)
<1> QED BY <1>1, <1>2, ZenonT(60) DEF BootInv

-----------------------------------------------------------------------------
(* The walk over the tags *)

\* The proofs about Early, for the memory of Boot.
P == INSTANCE Early_proofs WITH
          LowEnd <- LowFrames * PAGE_SIZE,
          KernelStart <- KernelStart * PAGE_SIZE,
          KernelEnd <- KernelEnd * PAGE_SIZE,
          pc <- early_pc

\* In bytes, the layout of BootPaging is one Early may be given.
LEMMA ScanLayout ==
  ASSUME images \in Seq(Nat)
  PROVE
  /\ PAGE_SIZE \in Nat \ {0} /\ NO_MODULES \in Nat \ {0} /\ NO_MEMMAPS \in Nat \ {0}
  /\ LowFrames * PAGE_SIZE \in Nat /\ KernelStart * PAGE_SIZE \in Nat
     /\ KernelEnd * PAGE_SIZE \in Nat /\ MemorySize \in Nat
  /\ LowFrames * PAGE_SIZE <= KernelStart * PAGE_SIZE
     /\ KernelStart * PAGE_SIZE < KernelEnd * PAGE_SIZE
     /\ KernelEnd * PAGE_SIZE <= MemorySize
  /\ (KernelEnd * PAGE_SIZE) % PAGE_SIZE = 0
BY LayoutInBytes, ScanAssumption, PagingAssumption, ZenonT(60)

\* The assumptions of Early hold for the scan.
LEMMA ScanLoader ==
  /\ \A entries \in Maps : P!UsableOf(entries) \in Seq([addr : Nat, len : Nat, available : BOOLEAN])
  /\ \A p \in Placements : p \in Seq([start : Nat, end : Nat])
<1>1. \A entries : P!UsableOf(entries) = Scan!UsableOf(entries)
  BY ZenonT(60) DEF P!UsableOf, Scan!UsableOf, P!Usable, Scan!Usable
<1> QED BY <1>1, ScanAssumption, ZenonT(60)

\* So its invariant holds of the scan from the start, and every step of the
\* boot keeps it.
LEMMA ScanInit ==
  ASSUME images \in Seq(Nat), Scan!Init
  PROVE  P!IInv
<1>1. Scan!Init => P!Init
  BY ZenonT(60) DEF Scan!Init, P!Init, Scan!PlacedInOrder, P!PlacedInOrder, Scan!HoldsKernel,
       P!HoldsKernel, Scan!UsableOf, P!UsableOf, Scan!Usable, P!Usable, Scan!Packed, P!Packed,
       Scan!AlignUp, P!AlignUp, Scan!SizeOf, P!SizeOf, Scan!Address, P!Address
<1>2. P!Init => P!IInv
  BY ScanLoader, ScanLayout, P!InitIInv, ZenonT(60)
<1> QED BY <1>1, <1>2, ZenonT(60)

LEMMA ScanNext ==
  ASSUME images \in Seq(Nat), P!IInv, [BootNext]_<<vars, scanVars>>
  PROVE  P!IInv'
<1>1. Scan!mmap_tag => P!mmap_tag
  BY ZenonT(60) DEF Scan!mmap_tag, P!mmap_tag, Scan!UsableOf, P!UsableOf, Scan!Usable, P!Usable
<1>2. \A some : Scan!meminfo_tag(some) => P!meminfo_tag(some)
  BY ZenonT(60) DEF Scan!meminfo_tag, P!meminfo_tag
<1>3. Scan!module_tag => P!module_tag
  BY ZenonT(60) DEF Scan!module_tag, P!module_tag, Scan!CopyBytes, P!CopyBytes, Scan!AlignUp,
       P!AlignUp, Scan!SizeOf, P!SizeOf, Scan!Address, P!Address
<1>4. Scan!end_tag => P!end_tag
  BY ZenonT(60) DEF Scan!end_tag, P!end_tag, Scan!FreeRegion, P!FreeRegion, Scan!NothingMissing,
       P!NothingMissing
<1>5. UNCHANGED scanVars => UNCHANGED P!vars
  BY ZenonT(60) DEF scanVars, P!vars
<1>6. tag => P!Next
  BY <1>1, <1>2, <1>3, ZenonT(60) DEF tag, P!Next
<1>7. [P!Next]_P!vars
  BY <1>4, <1>5, <1>6, ZenonT(60) DEF BootNext, enter_kernel, bootstrap, P!Next
<1>8. P!IInv /\ [P!Next]_P!vars => P!IInv'
  BY ScanLoader, ScanLayout, P!NextIInv, ZenonT(60)
<1> QED BY <1>7, <1>8, ZenonT(60)

\* What bootstrap needs of it.
LEMMA ScanWalked == P!IInv => Walked /\ Regions
BY ZenonT(60) DEF P!IInv, P!Walk, P!Span, P!Moved, P!MapKept, P!ModulesPacked, P!PlacedInOrder,
     P!SizeOf, Walked, Regions

BootIInv == P!IInv /\ BootInv

LEMMA BootInitIInv == BootInit => BootIInv
<1> SUFFICES ASSUME BootInit PROVE BootIInv
  BY ZenonT(60)
<1>1. BootInv /\ Scan!Init
  BY BootInitInv, ZenonT(60) DEF BootInit
<1>2. images \in Seq(Nat)
  BY <1>1, ZenonT(60) DEF BootInv
<1> QED BY <1>1, <1>2, ScanInit, ZenonT(60) DEF BootIInv

LEMMA BootNextIInv == BootIInv /\ [BootNext]_<<vars, scanVars>> => BootIInv'
<1> SUFFICES ASSUME BootIInv, [BootNext]_<<vars, scanVars>> PROVE BootIInv'
  BY ZenonT(60)
<1>1. BootInv /\ P!IInv /\ images \in Seq(Nat)
  BY ZenonT(60) DEF BootIInv, BootInv
<1>2. P!IInv'
  BY <1>1, ScanNext, ZenonT(60)
<1>3. BootInv'
  BY <1>1, ScanWalked, BootNextInv, ZenonT(60)
<1> QED BY <1>2, <1>3, ZenonT(60) DEF BootIInv

\* Of the whole boot: what early_main leaves in kernel_info_t describes the
\* memory bootstrap takes it to, wherever the loader placed the modules and
\* however many there are.
THEOREM Handover == BootSpec => []HandoverAgrees
<1>1. BootIInv => HandoverAgrees
  BY ZenonT(60) DEF BootIInv, BootInv
<1> QED BY <1>1, BootInitIInv, BootNextIInv, PTL DEF BootSpec

\* And of the whole boot: a frame a process can reach has one owner.
THEOREM BootFramesPrivate == BootSpec => []UserFramesPrivate
<1>1. BootIInv => UserFramesPrivate
  BY BootPrivate, ZenonT(60) DEF BootIInv
<1> QED BY <1>1, BootInitIInv, BootNextIInv, PTL DEF BootSpec

=============================================================================
