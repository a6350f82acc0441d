----------------------------- MODULE FrameStack -----------------------------
(***************************************************************************)
(* The frame allocator kept as a stack (kern/mem/stack_alloc.c) and the    *)
(* set-up of its region (kern/mem/phys_alloc.c).  The kernel does not link *)
(* it yet: the call of stack_allocator.init is commented out.              *)
(*                                                                         *)
(* Addresses are bytes; the memory map is a sequence of entries with 64    *)
(* bit addresses, which the code keeps in words of paddr_t.  One action is *)
(* one turn of the scan, one call of alloc, or one of free.                *)
(***************************************************************************)
EXTENDS Integers, Sequences

CONSTANTS
  PAGE_SIZE,
  Word,                     \* 2 to the number of bits of paddr_t
  RegionStart, RegionSize,  \* the kernel's memory region
  KernelFrames,             \* frames of the kernel and of the metadata region
  MetadataSize,             \* bytes of the metadata region
  MinimumSize,              \* DMA_REGION_MIN_SIZE + KERNEL_REGION_MIN_SIZE
  Maps                      \* memory maps: sequences of [addr, len, available],
                            \* with the address of the map itself

ASSUME FrameStackAssumption ==
  /\ PAGE_SIZE \in Nat \ {0} /\ Word \in Nat
  /\ RegionStart \in 1 .. Word - 1 /\ RegionSize \in Nat
  /\ KernelFrames \in Nat /\ MetadataSize \in Nat /\ MinimumSize \in Nat
  /\ \A m \in Maps :
       /\ m.at \in Nat /\ m.upper \in Nat
       /\ m.entries \in Seq([addr : Nat, len : Nat, available : BOOLEAN])

VARIABLES
  map,                      \* the memory map
  pc,                       \* "start", "reserve", "scan", "ready", "panic"
  total_frames_available,
  entry,                    \* the entry the scan looks at
  stack,                    \* free_frames_stack up to free_frames_stack_top
  region,                   \* no_frames_available and no_frames_in_use
  held                      \* the frames handed out and not given back, in a
                            \* sequence: one may have been handed out twice

vars == <<map, pc, total_frames_available, entry, stack, region, held>>

\* The first address of an entry and the one behind it, cut to a word.
Start(e) == map.entries[e].addr % Word
End(e) == (map.entries[e].addr + map.entries[e].len) % Word

\* The entries both scans look at: available, and not the one with the map.
Usable(e) == map.entries[e].available /\ ~ (Start(e) <= map.at /\ map.at <= End(e))

-----------------------------------------------------------------------------
\* no_frames_required of stack_alloc_init.
required ==
  LET n == ((RegionSize \div PAGE_SIZE) * 4) \div PAGE_SIZE IN IF n = 0 THEN 1 ELSE n

\* The first loop of init_free_memory: the frames of the entries up to e.
Frames[e \in 0 .. Len(map.entries)] ==
  IF e = 0 THEN 0
  ELSE Frames[e - 1] + (IF Usable(e) THEN (map.entries[e].len \div PAGE_SIZE) % Word ELSE 0)

\* init_free_memory.
init_free_memory ==
  /\ pc = "start"
  /\ IF MinimumSize > map.upper % Word
     THEN pc' = "panic" /\ UNCHANGED total_frames_available
     ELSE /\ total_frames_available' = (Frames[Len(map.entries)] - KernelFrames) % Word
          /\ pc' = "reserve"
  /\ UNCHANGED <<map, entry, stack, region, held>>

\* stack_alloc_init up to the scan, with reserve_metadata_space: room for one
\* word per frame.
reserve_metadata_space ==
  /\ pc = "reserve"
  /\ region' = [available |-> 0, in_use |-> 0]
  /\ pc' = IF required * 4 > MetadataSize THEN "panic" ELSE "scan"
  /\ UNCHANGED <<map, total_frames_available, entry, stack, held>>

Room_Unchecked == PAGE_SIZE

\* How many frames the inner loop may still take.
Room == required - Len(stack)

First_EntryOnly(e) == Start(e)

\* Where the inner loop starts.
First(e) == IF Start(e) > RegionStart THEN Start(e) ELSE RegionStart

Stride_Words == 4

\* addr += PAGE_SIZE
Stride == PAGE_SIZE

\* addr after i turns of the inner loop.
Addr(e, i) == (First(e) + i * Stride) % Word

\* The turns the inner loop makes.
Turns(e) ==
  CHOOSE n \in 0 .. Room : /\ n = Room \/ Addr(e, n) >= End(e)
                           /\ \A i \in 0 .. n - 1 : Addr(e, i) < End(e)

\* The addresses the inner loop pushes from entry e.
Pushed(e) == [i \in 1 .. Turns(e) |-> Addr(e, i - 1)]

\* The test of line 63, which fails only for an entry whose end was cut.
Meets(e) == RegionStart >= Start(e) \/ RegionStart < End(e)

\* One turn of the scan.
scan_entry ==
  /\ pc = "scan" /\ entry <= Len(map.entries) /\ Len(stack) < required
  /\ stack' = IF Usable(entry) /\ Meets(entry) THEN stack \o Pushed(entry) ELSE stack
  /\ entry' = entry + 1
  /\ UNCHANGED <<map, pc, total_frames_available, region, held>>

\* The end of the scan.
scan_end ==
  /\ pc = "scan" /\ ~ (entry <= Len(map.entries) /\ Len(stack) < required)
  /\ IF Len(stack) = required
     THEN pc' = "ready" /\ region' = [region EXCEPT !.available = Len(stack)]
     ELSE pc' = "panic" /\ UNCHANGED region
  /\ UNCHANGED <<map, total_frames_available, entry, stack, held>>

-----------------------------------------------------------------------------
Popped_Kept == stack

\* free_frames_stack_top--
Popped == SubSeq(stack, 1, Len(stack) - 1)

\* stack_alloc_frame; with an empty stack it returns 0 and changes nothing.
stack_alloc_frame ==
  /\ pc = "ready" /\ Len(stack) > 0
  /\ held' = Append(held, stack[Len(stack)])
  /\ stack' = Popped
  /\ region' = [available |-> region.available - 1, in_use |-> region.in_use + 1]
  /\ UNCHANGED <<map, pc, total_frames_available, entry>>

\* stack_free_frame of a frame a caller holds, the k-th of those handed out.
stack_free_frame(k) ==
  /\ pc = "ready"
  /\ held' = SubSeq(held, 1, k - 1) \o SubSeq(held, k + 1, Len(held))
  /\ stack' = Append(stack, held[k])
  /\ region' = [available |-> region.available + 1, in_use |-> region.in_use - 1]
  /\ UNCHANGED <<map, pc, total_frames_available, entry>>

-----------------------------------------------------------------------------
Init ==
  /\ map \in Maps
  /\ pc = "start" /\ total_frames_available = 0 /\ entry = 1
  /\ stack = <<>> /\ region = [available |-> 0, in_use |-> 0] /\ held = <<>>

Next ==
  \/ init_free_memory
  \/ reserve_metadata_space
  \/ scan_entry
  \/ scan_end
  \/ stack_alloc_frame
  \/ \E k \in 1 .. Len(held) : stack_free_frame(k)

Spec == Init /\ [][Next]_vars

-----------------------------------------------------------------------------
(* Memory maps *)

\* The entries the scan may take frames of.
Available == {e \in 1 .. Len(map.entries) : map.entries[e].available}

\* An entry that ends a page below the last address at the latest: no address
\* of it is cut to a word, and neither is addr behind its last frame.
Below(e) == map.entries[e].addr + map.entries[e].len + PAGE_SIZE <= Word

\* From the region on the entry consists of whole pages.
Whole(e) == End(e) > RegionStart => (End(e) - First(e)) % PAGE_SIZE = 0

MapBelow == \A e \in Available : Below(e)

MapApart == \A d, e \in Available : d = e \/ End(d) <= Start(e) \/ End(e) <= Start(d)

MapWhole == \A e \in Available : Whole(e)

-----------------------------------------------------------------------------
(* Properties *)

\* Every variable has its type; the stack stays within the words reserved for
\* it and the counters of the region never go below zero.
TypeOK ==
  /\ pc \in {"start", "reserve", "scan", "ready", "panic"}
  /\ total_frames_available \in Nat /\ entry \in Nat
  /\ stack \in Seq(0 .. Word - 1) /\ Len(stack) <= required
  /\ region \in [available : Nat, in_use : Nat]
  /\ held \in Seq(0 .. Word - 1)

\* Once the allocator is set up the region counts the frames on the stack and
\* the frames handed out, which make up the capacity.  They all differ when the
\* available entries of the map do not overlap and end a page below 4 GB; an
\* entry above 4 GB is cut to low addresses, which the scan then pushes again.
FramesConserved ==
  pc = "ready" =>
    /\ region.available = Len(stack) /\ region.in_use = Len(held)
    /\ region.available + region.in_use = required
    /\ MapBelow /\ MapApart =>
         /\ \A i, j \in 1 .. Len(stack) : stack[i] = stack[j] => i = j
         /\ \A i, j \in 1 .. Len(held) : held[i] = held[j] => i = j
         /\ \A i \in 1 .. Len(stack) : \A j \in 1 .. Len(held) : stack[i] # held[j]

\* When the available entries end a page below 4 GB every frame starts inside
\* one of them and above the kernel, so that frame 0 (no frame left) is none;
\* and it ends inside that entry when the entry consists of whole pages from
\* the region on (line 68 compares only the start of the frame).
FramesUsable ==
  MapBelow =>
    \A f \in {held[i] : i \in 1 .. Len(held)} \union {stack[i] : i \in 1 .. Len(stack)} :
      /\ f >= RegionStart
      /\ \E e \in Available :
           /\ Usable(e) /\ Start(e) <= f /\ f < End(e)
           /\ Whole(e) => f + PAGE_SIZE <= End(e)
=============================================================================
