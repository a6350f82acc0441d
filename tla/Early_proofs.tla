----------------------------- MODULE Early_proofs -----------------------------
(***************************************************************************)
(* early_main moves the modules without loss and leaves free memory free,  *)
(* for every memory map, every placement of any number of modules the      *)
(* loader guarantees, every page size and both capacities.                 *)
(***************************************************************************)
EXTENDS Early, WellFoundedInduction, TLAPS

\* Every step below is tried with the SMT solver, unless it names another prover.
USE SMTT(60)

\* A sequence over a set is one over any larger set.
LEMMA Widened ==
  ASSUME NEW S, NEW T, S \subseteq T
  PROVE  Seq(S) \subseteq Seq(T)
OBVIOUS

Span == [start : Nat, end : Nat]
Region == [addr : Nat, len : Nat, available : BOOLEAN]

\* Where the walk over the module tags has come to.
Walk ==
    /\ placed \in Seq(Span) /\ PlacedInOrder(placed)
    /\ todo \in [mmap : BOOLEAN, meminfo : BOOLEAN, module : Nat \ {0}]
    /\ modules \in Seq(Span)
    /\ todo.module <= Len(placed) + 1
    /\ Len(modules) = IF todo.module - 1 < NO_MODULES THEN todo.module - 1
                      ELSE NO_MODULES

\* The modules moved so far end at last_end, and last_end has not overtaken
\* the start of a module still to be moved: that is why copying from the
\* first byte to the last is exact.
Moved ==
    /\ last_end \in Nat /\ last_end % PAGE_SIZE = 0 /\ KernelEnd <= last_end
    /\ total = last_end - KernelEnd
    /\ last_end = IF modules = <<>> THEN KernelEnd ELSE modules[Len(modules)].end
    /\ \A i \in 1 .. Len(modules) : /\ KernelEnd <= modules[i].start
                                    /\ modules[i].end <= last_end
    /\ \A i \in 1 .. Len(placed) : i > Len(modules) => last_end <= placed[i].start

\* The memory map so far is the beginning of what the loader's map offers.
MapKept ==
    /\ map \in Maps
    /\ memmaps \in Seq([addr : Nat, len : Int, available : BOOLEAN])
    /\ pc = "tags" =>
        /\ Len(memmaps) <= Len(UsableOf(map))
        /\ \A i \in 1 .. Len(memmaps) : memmaps[i] = UsableOf(map)[i]

IInv ==
    /\ memory \in [Address -> Address]
    /\ pc \in {"tags", "kernel", "panic"}
    /\ Walk /\ Moved /\ MapKept
    /\ ModulesIntact /\ ModulesPacked /\ FreeMemoryIsFree

-----------------------------------------------------------------------------
\* Division with remainder.
LEMMA QuotientRemainder ==
    ASSUME NEW n \in Nat, NEW p \in Nat \ {0}
    PROVE  n \div p \in Nat /\ n % p \in 0 .. p - 1 /\ n = p * (n \div p) + (n % p)
OBVIOUS

\* A multiple leaves no remainder.
LEMMA MultipleOf ==
    ASSUME NEW P \in Nat \ {0}, NEW q \in Nat
    PROVE  (P * q) % P = 0
<1>1. PICK x \in Nat : x = P * q
  OBVIOUS
<1>2. PICK d \in Nat, r \in 0 .. P - 1 : d = x \div P /\ r = x % P /\ x = P * d + r
  BY QuotientRemainder, ZenonT(60)
<1>3. CASE q >= d + 1
  <2>1. P * q >= P * (d + 1)
    BY <1>3
  <2> QED BY <1>1, <1>2, <2>1
<1>4. CASE d >= q + 1
  <2>1. P * d >= P * (q + 1)
    BY <1>4
  <2> QED BY <1>1, <1>2, <2>1
<1>5. CASE q = d
  BY <1>1, <1>2, <1>5
<1> QED BY <1>3, <1>4, <1>5

\* Aligning up gives the least page boundary at or above an address.
LEMMA AlignUpLeast ==
    ASSUME NEW a \in Nat
    PROVE  /\ AlignUp(a) \in Nat /\ AlignUp(a) % PAGE_SIZE = 0 /\ a <= AlignUp(a)
           /\ \A b \in Nat : b % PAGE_SIZE = 0 /\ a <= b => AlignUp(a) <= b
<1> DEFINE P == PAGE_SIZE
           q == (a + P - 1) \div P
<1>1. P \in Nat \ {0}
  BY EarlyAssumption, ZenonT(60)
<1> HIDE DEF P
<1>2. /\ q \in Nat /\ (a + P - 1) % P \in 0 .. P - 1
      /\ a + P - 1 = P * q + ((a + P - 1) % P)
  BY <1>1
<1> HIDE DEF q
<1>3. AlignUp(a) = q * P
  BY ZenonT(60) DEF AlignUp, P, q
<1>4. q * P \in Nat /\ q * P = P * q /\ (q * P) % P = 0
  <2>1. q * P \in Nat /\ q * P = P * q
    BY <1>1, <1>2
  <2>2. (P * q) % P = 0
    BY <1>1, <1>2, MultipleOf, ZenonT(60)
  <2> QED BY <2>1, <2>2, ZenonT(60)
<1>5. a <= q * P
  BY <1>1, <1>2, <1>4
<1>6. ASSUME NEW b \in Nat, b % P = 0, a <= b PROVE q * P <= b
  <2> DEFINE r == b \div P
  <2>1. r \in Nat /\ b = P * r
    BY <1>1, <1>6
  <2> HIDE DEF r
  <2>2. P * q <= P * r + P - 1
    BY <1>1, <1>2, <1>6, <2>1
  <2>3. q <= r
    <3> SUFFICES ASSUME q >= r + 1 PROVE FALSE
      BY <1>2, <2>1
    <3>1. P * q >= P * (r + 1)
      BY <1>1, <1>2, <2>1
    <3> QED BY <1>1, <1>2, <2>1, <2>2, <3>1
  <2>4. P * q <= P * r
    BY <1>1, <1>2, <2>1, <2>3
  <2> QED BY <1>4, <2>1, <2>4, ZenonT(60)
<1> QED BY <1>3, <1>4, <1>5, <1>6, ZenonT(60) DEF P

\* An offset within a size that fits into start .. end stays below end.
LEMMA OffsetInside ==
    ASSUME NEW start \in Nat, NEW end \in Nat, NEW size \in Int,
           NEW k \in 0 .. size - 1, NEW limit \in Nat,
           size <= end - start, end <= limit
    PROVE  start + k \in Nat /\ start + k < limit
OBVIOUS

\* What the loader guarantees of each module, with the types at hand.
LEMMA PlacedFacts ==
    ASSUME NEW p \in Seq(Span), PlacedInOrder(p)
    PROVE  /\ Len(p) \in Nat /\ DOMAIN p = 1 .. Len(p)
           /\ \A j \in 1 .. Len(p) :
                /\ p[j].start \in Nat /\ p[j].end \in Nat
                /\ KernelEnd <= p[j].start /\ p[j].start < p[j].end
                /\ p[j].end <= MemorySize /\ p[j].start % PAGE_SIZE = 0
           /\ \A i, j \in 1 .. Len(p) : i < j => p[i].end <= p[j].start
<1>1. Len(p) \in Nat /\ DOMAIN p = 1 .. Len(p)
  OBVIOUS
<1>2. \A j \in 1 .. Len(p) : p[j] \in Span
  OBVIOUS
<1>3. \A j \in 1 .. Len(p) : p[j].start \in Nat /\ p[j].end \in Nat
  BY <1>2, ZenonT(60) DEF Span
<1> QED BY <1>1, <1>3, ZenonT(60) DEF PlacedInOrder

-----------------------------------------------------------------------------
\* The walk starts with nothing moved and the memory as the loader left it.
LEMMA InitIInv == Init => IInv
<1> SUFFICES ASSUME Init PROVE IInv
  BY ZenonT(60)
<1>1. placed \in Seq(Span) /\ UsableOf(map) \in Seq(Region)
  BY LoaderAssumption, ZenonT(60) DEF Init, Span, Region
<1>2. /\ Len(modules) = 0 /\ Len(memmaps) = 0
      /\ modules = <<>> /\ memmaps = <<>>
      /\ todo = [mmap |-> TRUE, meminfo |-> TRUE, module |-> 1]
  BY ZenonT(60) DEF Init
<1>3. Walk
  BY <1>1, <1>2, EarlyAssumption DEF Init, Walk
<1>4. Moved
  BY <1>1, <1>2, EarlyAssumption DEF Init, Moved, PlacedInOrder
<1>5. MapKept
  BY <1>1, <1>2 DEF Init, MapKept
<1>6. memory \in [Address -> Address] /\ \A a \in Address : memory[a] = a
  BY ZenonT(60) DEF Init
<1>7. ModulesIntact
  <2>1. \A i \in DOMAIN placed : \A a \in placed[i].start .. placed[i].end - 1 : a \in Address
    <3>1. PlacedInOrder(placed)
      BY ZenonT(60) DEF Init
    <3>2. KernelEnd \in Nat /\ MemorySize \in Nat
      BY EarlyAssumption, ZenonT(60)
    <3> QED BY <1>1, <3>1, <3>2, PlacedFacts DEF Address
  <2>2. \A a \in 0 .. KernelEnd - 1 : a \in Address
    BY EarlyAssumption DEF Address
  <2> QED BY <1>2, <1>6, <2>1, <2>2 DEF ModulesIntact
<1>8. ModulesPacked /\ FreeMemoryIsFree
  BY <1>2 DEF Init, ModulesPacked, FreeMemoryIsFree
<1> QED BY <1>3, <1>4, <1>5, <1>6, <1>7, <1>8, ZenonT(60) DEF Init, IInv

\* Stepping to the next module tag keeps the type of todo.
LEMMA TodoStep ==
    ASSUME NEW t \in [mmap : BOOLEAN, meminfo : BOOLEAN, module : Nat \ {0}]
    PROVE  /\ [t EXCEPT !.module = @ + 1]
                \in [mmap : BOOLEAN, meminfo : BOOLEAN, module : Nat \ {0}]
           /\ [t EXCEPT !.module = @ + 1].module = t.module + 1
<1>1. t.module + 1 \in Nat \ {0}
  OBVIOUS
<1> QED BY <1>1, ZenonT(60)

\* A module beyond the capacity is passed over.
LEMMA ModuleIgnored ==
    ASSUME IInv, module_tag, Len(modules) + 1 > NO_MODULES
    PROVE  IInv'
<1>1. /\ UNCHANGED <<memory, modules, last_end, total, map, placed, memmaps, mem_upper, pc>>
      /\ todo' = [todo EXCEPT !.module = @ + 1] /\ todo.module \in DOMAIN placed
  BY ZenonT(60) DEF module_tag
<1>2. Walk'
  <2>1. todo'.module = todo.module + 1 /\ todo.module <= Len(placed)
    BY <1>1 DEF IInv, Walk
  <2>2. todo' \in [mmap : BOOLEAN, meminfo : BOOLEAN, module : Nat \ {0}]
    BY <1>1, TodoStep, ZenonT(60) DEF IInv, Walk
  <2>3. Len(modules) \in Nat /\ NO_MODULES \in Nat
    BY EarlyAssumption DEF IInv, Walk
  <2> QED BY <1>1, <2>1, <2>2, <2>3 DEF IInv, Walk, PlacedInOrder
<1>3. Moved' /\ MapKept'
  BY <1>1, ZenonT(60) DEF IInv, Moved, MapKept
<1>4. ModulesIntact' /\ ModulesPacked' /\ FreeMemoryIsFree'
  BY <1>1 DEF IInv, ModulesIntact, ModulesPacked, FreeMemoryIsFree, SizeOf
<1> QED BY <1>1, <1>2, <1>3, <1>4, ZenonT(60) DEF IInv

\* Moving a module behind the last one damages neither the kernel, nor a
\* module already moved, nor one still to be moved.
LEMMA ModuleMoved ==
    ASSUME IInv, module_tag, Len(modules) + 1 <= NO_MODULES
    PROVE  IInv'
<1> DEFINE n == Len(modules)
           src == placed[n + 1]
           size == SizeOf(src)
           e == AlignUp(last_end + size)
<1>0. /\ n \in Nat /\ NO_MODULES \in Nat /\ PAGE_SIZE \in Nat \ {0}
      /\ KernelEnd \in Nat /\ MemorySize \in Nat /\ KernelEnd <= MemorySize
      /\ placed \in Seq(Span) /\ modules \in Seq(Span)
  BY EarlyAssumption DEF IInv, Walk
<1>1. todo.module = n + 1 /\ n + 1 \in 1 .. Len(placed)
  <2>1. todo.module \in DOMAIN placed
    BY ZenonT(60) DEF module_tag
  <2> QED BY <1>0, <2>1 DEF IInv, Walk
<1>2. /\ src.start \in Nat /\ src.end \in Nat
      /\ KernelEnd <= src.start /\ src.start < src.end /\ src.end <= MemorySize
      /\ \A j \in 1 .. Len(placed) : placed[j].start \in Nat /\ placed[j].end \in Nat
      /\ \A j \in 1 .. Len(placed) : n + 1 < j => src.end <= placed[j].start
  BY <1>0, <1>1, PlacedFacts, ZenonT(60) DEF IInv, Walk
<1>3. /\ size \in Nat \ {0} /\ size = src.end - src.start
      /\ last_end \in Nat /\ KernelEnd <= last_end /\ last_end <= src.start
  <2>1. last_end <= src.start
    BY <1>0, <1>1 DEF IInv, Moved
  <2>2. last_end \in Nat /\ KernelEnd <= last_end
    BY ZenonT(60) DEF IInv, Moved
  <2> QED BY <1>2, <2>1, <2>2 DEF SizeOf
<1>3a. /\ src.start \in Nat /\ src.end \in Nat /\ KernelEnd \in Nat /\ MemorySize \in Nat
       /\ size \in Nat /\ last_end \in Nat /\ src.start + size = src.end
       /\ KernelEnd <= last_end /\ last_end <= src.start /\ src.end <= MemorySize
       /\ KernelEnd <= MemorySize
  BY <1>0, <1>2, <1>3
<1>4. /\ e \in Nat /\ e % PAGE_SIZE = 0 /\ last_end + size <= e
      /\ \A j \in 1 .. Len(placed) : n + 1 < j => e <= placed[j].start
  <2>1. last_end + size \in Nat /\ last_end + size <= src.end
    BY <1>2, <1>3
  <2>2. /\ e \in Nat /\ e % PAGE_SIZE = 0 /\ last_end + size <= e
        /\ \A b \in Nat : b % PAGE_SIZE = 0 /\ last_end + size <= b => e <= b
    BY <2>1, AlignUpLeast, ZenonT(60)
  <2>3. \A j \in 1 .. Len(placed) : placed[j].start % PAGE_SIZE = 0
    BY <1>0, PlacedFacts, ZenonT(60) DEF IInv, Walk
  <2> HIDE DEF src, size, e
  <2> QED BY <1>2, <2>1, <2>2, <2>3
<1>5. /\ memory' = CopyBytes(memory, last_end, src.start, size)
      /\ modules' = Append(modules, [start |-> last_end, end |-> e])
      /\ total' = total + (e - last_end)
      /\ last_end' = e
      /\ UNCHANGED <<map, placed, memmaps, mem_upper, pc>>
      /\ todo' = [todo EXCEPT !.module = @ + 1]
      /\ pc = "tags"
  BY <1>0, <1>1 DEF module_tag
<1> HIDE DEF n, src, size, e
<1>6. /\ modules' \in Seq(Span) /\ Len(modules') = n + 1
      /\ \A i \in 1 .. n : modules'[i] = modules[i]
      /\ modules'[n + 1] = [start |-> last_end, end |-> e]
  BY <1>0, <1>3, <1>4, <1>5 DEF Span, n
<1>7. Walk'
  <2>1. /\ todo' \in [mmap : BOOLEAN, meminfo : BOOLEAN, module : Nat \ {0}]
        /\ todo'.module = n + 2
    BY <1>0, <1>1, <1>5, TodoStep DEF IInv, Walk
  <2>2. n + 1 <= NO_MODULES
    BY ZenonT(60) DEF n
  <2> QED BY <1>0, <1>1, <1>5, <1>6, <2>1, <2>2 DEF IInv, Walk, PlacedInOrder
<1>8. Moved'
  <2>1. total' = last_end' - KernelEnd
    BY <1>0, <1>3, <1>4, <1>5 DEF IInv, Moved
  <2>2. modules' # <<>>
    BY <1>0, <1>6
  <2>3. \A i \in 1 .. n + 1 : KernelEnd <= modules'[i].start /\ modules'[i].end <= e
    <3> SUFFICES ASSUME NEW i \in 1 .. n + 1
                 PROVE  KernelEnd <= modules'[i].start /\ modules'[i].end <= e
      BY ZenonT(60)
    <3>1. CASE i = n + 1
      BY <1>4, <1>6, <1>3a, <3>1
    <3>2. CASE i \in 1 .. n
      <4>1. modules'[i] = modules[i] /\ modules[i] \in Span
        BY <1>0, <1>6, <3>2 DEF n
      <4>2. /\ KernelEnd <= modules[i].start /\ modules[i].end <= last_end
            /\ modules[i].end \in Nat
        BY <3>2, <4>1, ZenonT(60) DEF IInv, Moved, Span, n
      <4>3. last_end <= e
        BY <1>4, <1>3a
      <4> QED BY <1>4, <1>3a, <4>1, <4>2, <4>3
    <3> QED BY <1>0, <3>1, <3>2
  <2>4. last_end' = modules'[Len(modules')].end
    BY <1>5, <1>6
  <2>5. \A i \in 1 .. Len(placed) : i > n + 1 => e <= placed[i].start
    BY <1>4, ZenonT(60)
  <2>6. last_end' \in Nat /\ last_end' % PAGE_SIZE = 0 /\ KernelEnd <= last_end'
    BY <1>3a, <1>4, <1>5
  <2>7. /\ \A i \in 1 .. Len(modules') : /\ KernelEnd <= modules'[i].start
                                         /\ modules'[i].end <= last_end'
        /\ \A i \in 1 .. Len(placed') : i > Len(modules') => last_end' <= placed'[i].start
    BY <1>5, <1>6, <2>3, <2>5, ZenonT(60)
  <2> QED BY <2>1, <2>2, <2>4, <2>6, <2>7, ZenonT(60) DEF Moved
<1>9. MapKept'
  BY <1>5, ZenonT(60) DEF IInv, MapKept
<1>10. /\ memory' \in [Address -> Address]
       /\ \A a \in Address : memory'[a] = IF a \in last_end .. last_end + size - 1
                                         THEN memory[src.start + (a - last_end)]
                                         ELSE memory[a]
  <2>1. \A a \in last_end .. last_end + size - 1 : src.start + (a - last_end) \in Address
    BY <1>3a DEF Address
  <2>2. memory \in [Address -> Address]
    BY ZenonT(60) DEF IInv
  <2> QED BY <1>3, <1>5, <2>1, <2>2, ZenonT(60) DEF CopyBytes
<1>11. ModulesIntact'
  <2>1. ASSUME NEW i \in 1 .. n, NEW k \in 0 .. SizeOf(placed[i]) - 1
        PROVE  memory'[modules'[i].start + k] = placed[i].start + k
    <3>1. /\ i \in 1 .. Len(modules) /\ i \in DOMAIN modules /\ i \in 1 .. Len(placed)
          /\ modules[i] \in Span
      BY <1>0, <1>1 DEF n
    <3>1a. /\ placed[i].start \in Nat /\ placed[i].end \in Nat
          /\ modules[i].start \in Nat /\ modules[i].end \in Nat
      BY <1>2, <3>1, ZenonT(60) DEF Span
    <3>1b. SizeOf(placed[i]) <= SizeOf(modules[i]) /\ modules[i].end <= last_end
      BY <3>1, ZenonT(60) DEF IInv, ModulesPacked, Moved
    <3>2. modules[i].start + k < last_end /\ modules[i].start + k \in Nat
      <4>1. SizeOf(placed[i]) \in Int /\ SizeOf(modules[i]) = modules[i].end - modules[i].start
        BY <3>1a DEF SizeOf
      <4> QED BY <1>3a, <3>1a, <3>1b, <4>1, OffsetInside, ZenonT(60)
    <3>3. modules[i].start + k \in Address
      BY <1>3a, <3>2 DEF Address
    <3>4. memory'[modules[i].start + k] = memory[modules[i].start + k]
      BY <1>3, <1>10, <3>2, <3>3
    <3> QED BY <1>6, <3>1, <3>4, ZenonT(60) DEF IInv, ModulesIntact
  <2>2. ASSUME NEW k \in 0 .. size - 1
        PROVE  memory'[last_end + k] = src.start + k
    <3>1. /\ last_end + k \in Address /\ last_end + k \in last_end .. last_end + size - 1
          /\ src.start + k \in src.start .. src.end - 1
          /\ src.start + ((last_end + k) - last_end) = src.start + k
      BY <1>3a DEF Address
    <3>2. memory'[last_end + k] = memory[src.start + k]
      BY <1>10, <3>1, ZenonT(60)
    <3>3. n + 1 \in DOMAIN placed \ DOMAIN modules
      BY <1>0, <1>1 DEF n
    <3>4. memory[src.start + k] = src.start + k
      BY <3>1, <3>3, ZenonT(60) DEF IInv, ModulesIntact, src
    <3> QED BY <3>2, <3>4, ZenonT(60)
  <2>3. ASSUME NEW i \in 1 .. Len(placed), i > n + 1,
               NEW a \in placed[i].start .. placed[i].end - 1
        PROVE  memory'[a] = a
    <3>1. /\ src.end <= placed[i].start /\ placed[i].end <= MemorySize
          /\ placed[i].start \in Nat /\ placed[i].end \in Nat
      BY <1>0, <1>2, <2>3, PlacedFacts, ZenonT(60) DEF IInv, Walk
    <3>1a. a \in Nat /\ placed[i].start <= a /\ a < placed[i].end
      BY <3>1
    <3>1b. src.start + size <= a /\ a < MemorySize
      BY <1>3a, <3>1, <3>1a
    <3>2. a \in Address /\ a \notin last_end .. last_end + size - 1
      BY <1>3a, <3>1a, <3>1b DEF Address
    <3>3. i \in DOMAIN placed \ DOMAIN modules
      BY <1>0, <2>3 DEF n
    <3> QED BY <1>10, <3>2, <3>3, ZenonT(60) DEF IInv, ModulesIntact
  <2>4. ASSUME NEW a \in 0 .. KernelEnd - 1 PROVE memory'[a] = a
    <3>1. a \in Address /\ a \notin last_end .. last_end + size - 1
      BY <1>0, <1>3 DEF Address
    <3> QED BY <1>10, <3>1, ZenonT(60) DEF IInv, ModulesIntact
  <2>5. /\ DOMAIN modules' = 1 .. n + 1 /\ DOMAIN placed' = 1 .. Len(placed)
        /\ placed' = placed /\ SizeOf(placed[n + 1]) = size
        /\ src = placed[n + 1]
    BY <1>0, <1>5, <1>6 DEF size, src
  <2>6. \A i \in 1 .. n + 1 : \A k \in 0 .. SizeOf(placed[i]) - 1 :
            memory'[modules'[i].start + k] = placed[i].start + k
    <3> SUFFICES ASSUME NEW i \in 1 .. n + 1, NEW k \in 0 .. SizeOf(placed[i]) - 1
                 PROVE  memory'[modules'[i].start + k] = placed[i].start + k
      BY ZenonT(60)
    <3>1. CASE i \in 1 .. n
      BY <2>1, <3>1, ZenonT(60)
    <3>2. CASE i = n + 1
      BY <1>6, <2>2, <2>5, <3>2
    <3> QED BY <1>0, <3>1, <3>2
  <2>7. \A i \in DOMAIN placed' \ DOMAIN modules' :
            \A a \in placed[i].start .. placed[i].end - 1 : memory'[a] = a
    BY <1>0, <2>3, <2>5
  <2> QED BY <2>4, <2>5, <2>6, <2>7, ZenonT(60) DEF ModulesIntact, SizeOf
<1>12. ModulesPacked'
  <2> SUFFICES ASSUME NEW i \in 1 .. n + 1
               PROVE  /\ modules'[i].start = IF i = 1 THEN KernelEnd ELSE modules'[i - 1].end
                      /\ modules'[i].end % PAGE_SIZE = 0
                      /\ SizeOf(placed[i]) <= SizeOf(modules'[i])
    BY <1>5, <1>6 DEF ModulesPacked, SizeOf
  <2>1. CASE i \in 1 .. n
    <3>1. i \in DOMAIN modules /\ (i = 1 \/ i - 1 \in 1 .. n)
      BY <1>0, <2>1 DEF n
    <3> QED BY <1>6, <2>1, <3>1, ZenonT(60) DEF IInv, ModulesPacked, SizeOf
  <2>2. CASE i = n + 1
    <3>1. modules'[i].start = last_end /\ modules'[i].end = e
      BY <1>6, <2>2
    <3>2. SizeOf(placed[i]) = size /\ SizeOf(modules'[i]) = e - last_end
      BY <2>2, <3>1, ZenonT(60) DEF SizeOf, size, src
    <3>3. last_end = IF i = 1 THEN KernelEnd ELSE modules'[i - 1].end
      BY <1>0, <1>6, <2>2 DEF IInv, Moved, n
    <3> QED BY <1>3, <1>4, <3>1, <3>2, <3>3
  <2> QED BY <1>0, <2>1, <2>2
<1>13. FreeMemoryIsFree'
  BY <1>5, ZenonT(60) DEF FreeMemoryIsFree
<1> QED BY <1>5, <1>7, <1>8, <1>9, <1>10, <1>11, <1>12, <1>13, ZenonT(60) DEF IInv

\* The map's tag stores the beginning of the usable entries.
LEMMA MapTag == ASSUME IInv, mmap_tag PROVE IInv'
<1> DEFINE U == UsableOf(map)
           k == IF Len(U) < NO_MEMMAPS - 1 THEN Len(U) ELSE NO_MEMMAPS - 1
<1>1. /\ memmaps' = SubSeq(U, 1, k) /\ pc = "tags"
      /\ todo' = [todo EXCEPT !.mmap = FALSE]
      /\ UNCHANGED <<map, placed, memory, mem_upper, modules, last_end, total, pc>>
  BY ZenonT(60) DEF mmap_tag
<1>2. U \in Seq(Region) /\ NO_MEMMAPS \in Nat
  BY LoaderAssumption, EarlyAssumption, ZenonT(60) DEF IInv, MapKept, Region
<1> HIDE DEF U
<1>3. k \in Int /\ k <= Len(U) /\ Len(U) \in Nat
  BY <1>2
<1> HIDE DEF k
<1>4. /\ memmaps' \in Seq(Region) /\ Len(memmaps') <= Len(U)
      /\ \A i \in 1 .. Len(memmaps') : memmaps'[i] = U[i]
  <2>1. CASE k < 1
    <3>1. memmaps' = <<>>
      BY <1>1, <1>2, <1>3, <2>1
    <3> QED BY <1>3, <3>1
  <2>2. CASE k >= 1
    <3>1. Len(memmaps') = k /\ \A i \in 1 .. k : memmaps'[i] = U[i]
      BY <1>1, <1>2, <1>3, <2>2
    <3>2. memmaps' \in Seq(Region)
      BY <1>1, <1>2, <1>3, <2>2
    <3> QED BY <1>3, <3>1, <3>2, ZenonT(60)
  <2> QED BY <1>3, <2>1, <2>2
<1>5. MapKept'
  <2>1. memmaps' \in Seq([addr : Nat, len : Int, available : BOOLEAN])
    <3>1. Region \subseteq [addr : Nat, len : Int, available : BOOLEAN]
      BY DEF Region
    <3> QED BY <1>4, <3>1, Widened, ZenonT(60)
  <2> QED BY <1>1, <1>4, <2>1, ZenonT(60) DEF IInv, MapKept, U
<1>6. Walk'
  BY <1>1, ZenonT(60) DEF IInv, Walk, PlacedInOrder
<1>7. Moved'
  BY <1>1, ZenonT(60) DEF IInv, Moved
<1>8. ModulesIntact' /\ ModulesPacked' /\ FreeMemoryIsFree'
  BY <1>1, ZenonT(60) DEF IInv, ModulesIntact, ModulesPacked, FreeMemoryIsFree, SizeOf
<1> QED BY <1>1, <1>5, <1>6, <1>7, <1>8, ZenonT(60) DEF IInv

\* The size tag touches nothing the invariant speaks of.
LEMMA SizeTag == ASSUME IInv, NEW some \in BOOLEAN, meminfo_tag(some) PROVE IInv'
<1>1. /\ pc = "tags" /\ todo' = [todo EXCEPT !.meminfo = FALSE]
      /\ UNCHANGED <<map, placed, memory, memmaps, modules, last_end, total, pc>>
  BY ZenonT(60) DEF meminfo_tag
<1>2. Walk'
  BY <1>1, ZenonT(60) DEF IInv, Walk, PlacedInOrder
<1>3. Moved' /\ MapKept'
  BY <1>1, ZenonT(60) DEF IInv, Moved, MapKept
<1>4. ModulesIntact' /\ ModulesPacked' /\ FreeMemoryIsFree'
  BY <1>1, ZenonT(60) DEF IInv, ModulesIntact, ModulesPacked, FreeMemoryIsFree, SizeOf
<1> QED BY <1>1, <1>2, <1>3, <1>4, ZenonT(60) DEF IInv

\* At the end tag the first region gives up exactly the kernel and the
\* modules.
LEMMA EndTag == ASSUME IInv, end_tag PROVE IInv'
<1>1. /\ pc = "tags" /\ pc' \in {"kernel", "panic"}
      /\ UNCHANGED <<map, placed, memory, mem_upper, modules, last_end, total, todo>>
  BY ZenonT(60) DEF end_tag
<1>2. Walk' /\ Moved'
  BY <1>1, ZenonT(60) DEF IInv, Walk, Moved, PlacedInOrder
<1>3. ModulesIntact' /\ ModulesPacked'
  BY <1>1, ZenonT(60) DEF IInv, ModulesIntact, ModulesPacked, SizeOf
<1>4. CASE ~ NothingMissing
  <2>1. pc' = "panic" /\ memmaps' = memmaps
    BY <1>4, ZenonT(60) DEF end_tag
  <2>2. MapKept' /\ FreeMemoryIsFree'
    BY <1>1, <2>1, ZenonT(60) DEF IInv, MapKept, FreeMemoryIsFree
  <2> QED BY <1>1, <1>2, <1>3, <2>2, ZenonT(60) DEF IInv
<1>5. CASE NothingMissing
  <2> DEFINE r == UsableOf(map)[1]
             f == FreeRegion(memmaps[1])
  <2>1. pc' = "kernel" /\ memmaps' = [memmaps EXCEPT ![1] = f] /\ memmaps # <<>>
    BY <1>5, ZenonT(60) DEF end_tag, NothingMissing
  <2>2. /\ UsableOf(map) \in Seq(Region) /\ Len(memmaps) \in Nat
        /\ memmaps \in Seq([addr : Nat, len : Int, available : BOOLEAN])
        /\ 1 \in 1 .. Len(memmaps) /\ 1 \in 1 .. Len(UsableOf(map))
        /\ \A i \in 1 .. Len(memmaps) : memmaps[i] = UsableOf(map)[i]
    BY <1>1, <2>1, LoaderAssumption DEF IInv, MapKept, Region
  <2>3. r \in Region /\ memmaps[1] = r
    BY <2>2
  <2>4. /\ r.addr \in Nat /\ r.len \in Nat /\ KernelEnd \in Nat
        /\ last_end \in Nat /\ KernelEnd <= last_end /\ total = last_end - KernelEnd
    BY <2>3, EarlyAssumption, ZenonT(60) DEF IInv, Moved, Region
  <2>5. /\ f.addr = last_end /\ f.len = r.len - (KernelEnd - r.addr) - total
        /\ f \in [addr : Nat, len : Int, available : BOOLEAN]
    <3>1. f = [r EXCEPT !.len = r.len - (KernelEnd - r.addr) - total, !.addr = last_end]
      BY <2>3, ZenonT(60) DEF FreeRegion
    <3>2. r.len - (KernelEnd - r.addr) - total \in Int
      BY <2>4
    <3> HIDE DEF r, f
    <3> QED BY <2>3, <2>4, <3>1, <3>2, ZenonT(60) DEF Region
  <2>6. f.addr + f.len = r.addr + r.len
    <3> HIDE DEF r, f
    <3> QED BY <2>4, <2>5
  <2> HIDE DEF f
  <2>7. /\ memmaps' \in Seq([addr : Nat, len : Int, available : BOOLEAN])
        /\ Len(memmaps') = Len(memmaps) /\ memmaps'[1] = f
        /\ \A i \in 2 .. Len(memmaps) : memmaps'[i] = memmaps[i]
    BY <2>1, <2>2, <2>5
  <2>8. MapKept'
    BY <1>1, <2>1, <2>7, ZenonT(60) DEF IInv, MapKept
  <2>9. \A i \in DOMAIN modules : modules[i].end <= last_end
    BY DEF IInv, Moved, Walk
  <2>10. last_end % PAGE_SIZE = 0
    BY ZenonT(60) DEF IInv, Moved
  <2>11. \A i \in 2 .. Len(memmaps) : memmaps'[i] = UsableOf(map)[i]
    BY <2>2, <2>7
  <2>12. FreeMemoryIsFree'
    BY <1>1, <2>4, <2>5, <2>6, <2>7, <2>9, <2>10, <2>11, ZenonT(60) DEF FreeMemoryIsFree
  <2> QED BY <1>1, <1>2, <1>3, <2>8, <2>12, ZenonT(60) DEF IInv
<1> QED BY <1>4, <1>5, ZenonT(60)

\* Every step of the walk keeps the inductive invariant.
LEMMA NextIInv == IInv /\ [Next]_vars => IInv'
<1> SUFFICES ASSUME IInv, [Next]_vars PROVE IInv'
  BY ZenonT(60)
<1>1. CASE module_tag
  <2>1. Len(modules) \in Nat /\ NO_MODULES \in Nat
    BY EarlyAssumption DEF IInv, Walk
  <2> QED BY <1>1, <2>1, ModuleIgnored, ModuleMoved
<1>2. CASE UNCHANGED vars
  <2>1. Walk' /\ Moved' /\ MapKept'
    BY <1>2, ZenonT(60) DEF vars, IInv, Walk, Moved, MapKept, PlacedInOrder
  <2>2. ModulesIntact' /\ ModulesPacked' /\ FreeMemoryIsFree'
    BY <1>2, ZenonT(60) DEF vars, IInv, ModulesIntact, ModulesPacked, FreeMemoryIsFree, SizeOf
  <2> QED BY <1>2, <2>1, <2>2, ZenonT(60) DEF vars, IInv
<1> QED BY <1>1, <1>2, MapTag, SizeTag, EndTag, ZenonT(60) DEF Next

-----------------------------------------------------------------------------
\* However many modules the loader placed, and wherever, moving them together
\* byte by byte from the first loses nothing and leaves the kernel alone.
THEOREM ModulesStayIntact == Spec => []ModulesIntact
<1>1. IInv => ModulesIntact
  BY ZenonT(60) DEF IInv
<1> QED BY <1>1, InitIInv, NextIInv, PTL DEF Spec

\* The modules the kernel will find are packed in whole pages behind it.
THEOREM ModulesArePacked == Spec => []ModulesPacked
<1>1. IInv => ModulesPacked
  BY ZenonT(60) DEF IInv
<1> QED BY <1>1, InitIInv, NextIInv, PTL DEF Spec

\* In whatever order the tags come, the memory early_main leaves in memmaps[0]
\* is what the loader's region has behind the kernel and the modules.
THEOREM FreeMemoryStaysFree == Spec => []FreeMemoryIsFree
<1>1. IInv => FreeMemoryIsFree
  BY ZenonT(60) DEF IInv
<1> QED BY <1>1, InitIInv, NextIInv, PTL DEF Spec

-----------------------------------------------------------------------------
(* Room for the modules *)

\* A set of numbers has a least member.
LEMMA Least ==
    ASSUME NEW S \in SUBSET Nat, S # {}
    PROVE  \E n \in S : \A k \in S : n <= k
<1> DEFINE Less == OpToRel(<, Nat)
<1>1. IsWellFoundedOn(Less, Nat)
  BY NatLessThanWellFounded, ZenonT(60)
<1>2. \A x, y \in Nat : y < x => <<y, x>> \in Less
  BY ZenonT(60) DEF OpToRel
<1> HIDE DEF Less
<1>3. PICK n \in S : \A y \in S : ~ (<<y, n>> \in Less)
  BY <1>1, WFMin, ZenonT(60)
<1>4. ASSUME NEW k \in S PROVE n <= k
  <2>1. ~ (k < n)
    BY <1>2, <1>3, ZenonT(60)
  <2> QED BY <2>1
<1> QED BY <1>4, ZenonT(60)

\* f holds the bytes of the first k modules, each rounded up to pages.
AddsUp(p, k, f) ==
    /\ f \in [0 .. k -> Nat]
    /\ f[0] = 0
    /\ \A j \in 1 .. k : f[j] = f[j - 1] + AlignUp(SizeOf(p[j]))

\* Sums exist.
LEMMA SumsExist ==
    ASSUME NEW p, NEW n \in Nat, \A j \in 1 .. n : AlignUp(SizeOf(p[j])) \in Nat
    PROVE  \E f : AddsUp(p, n, f)
<1> DEFINE Bad == {k \in 0 .. n : ~ \E f : AddsUp(p, k, f)}
<1>0. n \in 0 .. n
  OBVIOUS
<1>1. SUFFICES ASSUME Bad # {} PROVE FALSE
  BY <1>0, <1>1, ZenonT(60)
<1>2. PICK k \in Bad : \A j \in Bad : k <= j
  <2>1. Bad \in SUBSET Nat
    OBVIOUS
  <2> HIDE DEF Bad
  <2> QED BY <1>1, <2>1, Least, ZenonT(60)
<1>3. k \in 0 .. n /\ ~ \E f : AddsUp(p, k, f)
  BY <1>2, ZenonT(60)
<1>4. k # 0
  <2>1. AddsUp(p, 0, [j \in 0 .. 0 |-> 0])
    BY DEF AddsUp
  <2> QED BY <1>3, <2>1, ZenonT(60)
<1>5. k - 1 \in 0 .. n /\ ~ (k <= k - 1) /\ k \in 1 .. n
  BY <1>3, <1>4
<1>6. PICK f : AddsUp(p, k - 1, f)
  BY <1>2, <1>5, ZenonT(60)
<1>7. PICK w \in Nat : w = AlignUp(SizeOf(p[k]))
  BY <1>5, ZenonT(60)
<1> DEFINE g == [j \in 0 .. k |-> IF j < k THEN f[j] ELSE f[k - 1] + w]
<1>8. /\ f \in [0 .. k - 1 -> Nat] /\ f[0] = 0
      /\ \A j \in 1 .. k - 1 : f[j] = f[j - 1] + AlignUp(SizeOf(p[j]))
  BY <1>6, ZenonT(60) DEF AddsUp
<1>9. g \in [0 .. k -> Nat] /\ g[0] = 0 /\ g[k] = g[k - 1] + w
      /\ \A j \in 1 .. k - 1 : g[j] = f[j] /\ g[j - 1] = f[j - 1]
  BY ONLY <1>5, <1>8, w \in Nat, n \in Nat
<1> HIDE DEF g
<1>10. \A j \in 1 .. k : g[j] = g[j - 1] + AlignUp(SizeOf(p[j]))
  <2>1. \A j \in 1 .. k : j = k \/ j \in 1 .. k - 1
    BY ONLY <1>5, n \in Nat
  <2> QED BY <1>7, <1>8, <1>9, <2>1, ZenonT(60)
<1>11. AddsUp(p, k, g)
  BY <1>9, <1>10, ZenonT(60) DEF AddsUp
<1> QED BY <1>3, <1>11, ZenonT(60)

\* The bytes of the modules up to each of them.
PackedTo(p) == CHOOSE f : AddsUp(p, Len(p), f)

LEMMA PackedSums ==
    ASSUME NEW p \in Seq(Span), PlacedInOrder(p)
    PROVE  /\ AddsUp(p, Len(p), PackedTo(p))
           /\ Packed(p) = PackedTo(p)[Len(p)]
           /\ \A j \in 1 .. Len(p) : AlignUp(SizeOf(p[j])) \in Nat
<1>1. PICK n \in Nat : n = Len(p)
  OBVIOUS
<1>2. \A j \in 1 .. n : AlignUp(SizeOf(p[j])) \in Nat
  <2>1. TAKE j \in 1 .. n
  <2>2. p[j].start \in Nat /\ p[j].end \in Nat /\ p[j].start < p[j].end
    BY <1>1, PlacedFacts, ZenonT(60)
  <2>3. PICK a \in Nat : a = SizeOf(p[j])
    <3>1. p[j].end - p[j].start \in Nat
      BY ONLY <2>2
    <3> QED BY <3>1, ZenonT(60) DEF SizeOf
  <2> QED BY <2>3, AlignUpLeast, ZenonT(60)
<1>3. AddsUp(p, n, PackedTo(p))
  <2>1. \E f : AddsUp(p, n, f)
    BY <1>2, SumsExist, ZenonT(60)
  <2> QED BY <1>1, <2>1, ZenonT(60) DEF PackedTo
<1> DEFINE IsSum(f) == f = [i \in 0 .. n |-> IF i = 0 THEN 0 ELSE f[i - 1] + AlignUp(SizeOf(p[i]))]
<1>4. PICK f : f = PackedTo(p)
  BY ZenonT(60)
<1>5. /\ f \in [0 .. n -> Nat] /\ f[0] = 0
      /\ \A j \in 1 .. n : f[j] = f[j - 1] + AlignUp(SizeOf(p[j]))
  BY <1>3, <1>4, ZenonT(60) DEF AddsUp
<1>6. PICK w : w = [j \in 1 .. n |-> AlignUp(SizeOf(p[j]))]
  BY Zenon
<1>7. \A j \in 1 .. n : w[j] = AlignUp(SizeOf(p[j])) /\ w[j] \in Nat
  BY <1>2, <1>6, ZenonT(60)
<1> DEFINE AddsW(g) == g = [i \in 0 .. n |-> IF i = 0 THEN 0 ELSE g[i - 1] + w[i]]
<1>8. \A g : IsSum(g) <=> AddsW(g)
  <2>1. \A i \in 0 .. n : i # 0 => i \in 1 .. n
    OBVIOUS
  <2>2. \A i \in 0 .. n : i # 0 => w[i] = AlignUp(SizeOf(p[i]))
    BY <1>7, <2>1, ZenonT(60)
  <2>3. ASSUME NEW g
        PROVE  [i \in 0 .. n |-> IF i = 0 THEN 0 ELSE g[i - 1] + AlignUp(SizeOf(p[i]))]
                 = [i \in 0 .. n |-> IF i = 0 THEN 0 ELSE g[i - 1] + w[i]]
    BY <2>2, ZenonT(60)
  <2> QED BY <2>3, ZenonT(60)
<1>9. AddsW(f)
  <2>1. \A j \in 1 .. n : f[j] = f[j - 1] + w[j]
    BY <1>5, <1>7, ZenonT(60)
  <2> QED BY ONLY <1>5, <2>1, n \in Nat
<1>10. PICK g : g = (CHOOSE h : IsSum(h)) /\ AddsW(g)
  <2>1. IsSum(f)
    BY <1>8, <1>9, ZenonT(60)
  <2>2. PICK g : g = (CHOOSE h : IsSum(h))
    BY ZenonT(60)
  <2> HIDE DEF IsSum
  <2>3. IsSum(g)
    BY <2>1, <2>2, ZenonT(60)
  <2> HIDE DEF AddsW
  <2> QED BY <1>8, <2>2, <2>3, ZenonT(60)
<1>11. Packed(p) = g[n]
  BY <1>1, <1>10, ZenonT(60) DEF Packed
<1>12. g[n] = f[n]
  <2> DEFINE Bad == {j \in 0 .. n : g[j] # f[j]}
  <2>1. /\ g[0] = 0 /\ \A j \in 1 .. n : g[j] = g[j - 1] + w[j]
        /\ f[0] = 0 /\ \A j \in 1 .. n : f[j] = f[j - 1] + w[j]
    <3>1. AddsW(g)
      BY <1>10, Zenon
    <3>2. g[0] = 0 /\ \A j \in 1 .. n : g[j] = g[j - 1] + w[j]
      BY ONLY <3>1, n \in Nat
    <3>3. \A j \in 1 .. n : f[j] = f[j - 1] + w[j]
      BY <1>5, <1>7, ZenonT(60)
    <3> QED BY <1>5, <3>2, <3>3, ZenonT(60)
  <2>2. SUFFICES ASSUME Bad # {} PROVE FALSE
    BY <2>2
  <2>3. PICK k \in Bad : \A j \in Bad : k <= j
    <3>1. Bad \in SUBSET Nat
      OBVIOUS
    <3> HIDE DEF Bad
    <3> QED BY <2>2, <3>1, Least, ZenonT(60)
  <2>4. k \in 1 .. n /\ g[k] # f[k]
    BY ONLY <2>1, <2>3, n \in Nat
  <2>5. k - 1 \in 0 .. n /\ ~ (k <= k - 1)
    BY ONLY <2>4, n \in Nat
  <2>6. g[k - 1] = f[k - 1]
    BY <2>3, <2>5, ZenonT(60)
  <2> QED BY <2>1, <2>4, <2>6, ZenonT(60)
<1> QED BY <1>1, <1>2, <1>3, <1>4, <1>11, <1>12, ZenonT(60)

\* A part of the modules takes no more than all of them.
LEMMA PackedBounds ==
    ASSUME NEW p \in Seq(Span), PlacedInOrder(p), NEW i \in 0 .. Len(p)
    PROVE  PackedTo(p)[i] \in Nat /\ PackedTo(p)[i] <= Packed(p) /\ Packed(p) \in Nat
<1>1. PICK n \in Nat : n = Len(p)
  OBVIOUS
<1>2. PICK f : f = PackedTo(p)
  BY ZenonT(60)
<1>3. PICK w : w = [j \in 1 .. n |-> AlignUp(SizeOf(p[j]))]
  BY Zenon
<1>4. /\ f \in [0 .. n -> Nat] /\ Packed(p) = f[n]
      /\ \A j \in 1 .. n : f[j] = f[j - 1] + AlignUp(SizeOf(p[j]))
      /\ \A j \in 1 .. n : AlignUp(SizeOf(p[j])) \in Nat
  BY <1>1, <1>2, PackedSums, ZenonT(60) DEF AddsUp
<1>5. \A j \in 1 .. n : f[j] = f[j - 1] + w[j] /\ w[j] \in Nat
  BY <1>3, <1>4, ZenonT(60)
<1> DEFINE Bad == {d \in 0 .. n : ~ (f[n - d] <= f[n])}
<1>6. Bad = {}
  <2>1. SUFFICES ASSUME Bad # {} PROVE FALSE
    BY ZenonT(60)
  <2>2. PICK d \in Bad : \A e \in Bad : d <= e
    <3>1. Bad \in SUBSET Nat
      OBVIOUS
    <3> HIDE DEF Bad
    <3> QED BY <2>1, <3>1, Least, ZenonT(60)
  <2>3. d \in 0 .. n /\ ~ (f[n - d] <= f[n])
    BY <2>2, ZenonT(60)
  <2>4. f[n] <= f[n]
    BY ONLY <1>4, n \in Nat
  <2>5. d # 0
    BY ONLY <2>3, <2>4, n \in Nat
  <2>6. d - 1 \in 0 .. n /\ ~ (d <= d - 1) /\ (n - (d - 1)) - 1 = n - d /\ n - (d - 1) \in 1 .. n
    BY ONLY <2>3, <2>5, n \in Nat
  <2>7. f[n - (d - 1)] <= f[n]
    BY <2>2, <2>6, ZenonT(60)
  <2>8. PICK k \in 1 .. n : k = n - (d - 1) /\ k - 1 = n - d
    BY <2>6, ZenonT(60)
  <2>9. f[k] = f[k - 1] + w[k] /\ w[k] \in Nat
    BY <1>5, ZenonT(60)
  <2>10. f[k] \in Nat /\ f[k - 1] \in Nat /\ f[n] \in Nat
    BY ONLY <1>4, k \in 1 .. n, n \in Nat
  <2>11. f[k - 1] <= f[n]
    <3>1. f[k] <= f[n]
      BY <2>7, <2>8, ZenonT(60)
    <3> QED BY ONLY <2>9, <2>10, <3>1
  <2> QED BY <2>3, <2>8, <2>11, ZenonT(60)
<1>7. n - i \in 0 .. n /\ n - (n - i) = i /\ i \in 0 .. n
  BY <1>1
<1>8. f[i] <= f[n]
  BY <1>6, <1>7, ZenonT(60)
<1>9. f[i] \in Nat /\ f[n] \in Nat
  BY ONLY <1>4, <1>7, n \in Nat
<1> QED BY <1>2, <1>4, <1>8, <1>9, ZenonT(60)

\* Aligning the end of a module that begins at a page adds no more than aligning
\* its size does.
LEMMA AlignAdds ==
    ASSUME NEW a \in Nat, NEW b \in Nat, a % PAGE_SIZE = 0
    PROVE  AlignUp(a + b) <= a + AlignUp(b)
<1>1. PICK P \in Nat \ {0} : P = PAGE_SIZE
  BY EarlyAssumption, ZenonT(60)
<1>2. PICK c \in Nat : c = AlignUp(b) /\ c % P = 0 /\ b <= c
  BY <1>1, AlignUpLeast, ZenonT(60)
<1>3. (a + c) % P = 0
  <2>1. PICK q \in Nat : a = P * q
    <3>1. a \div P \in Nat /\ a = P * (a \div P) + (a % P)
      BY QuotientRemainder, ZenonT(60)
    <3>2. a = P * (a \div P)
      BY ONLY <1>1, <3>1, a % PAGE_SIZE = 0, P \in Nat \ {0}, a \in Nat
    <3> QED BY <3>1, <3>2, Zenon
  <2>2. PICK r \in Nat : c = P * r
    <3>1. c \div P \in Nat /\ c = P * (c \div P) + (c % P)
      BY QuotientRemainder, ZenonT(60)
    <3>2. c = P * (c \div P)
      BY ONLY <1>2, <3>1, P \in Nat \ {0}, c \in Nat
    <3> QED BY <3>1, <3>2, Zenon
  <2>3. PICK k \in Nat : k = q + r
    OBVIOUS
  <2>4. a + c = P * k
    BY ONLY <2>1, <2>2, <2>3, P \in Nat \ {0}, q \in Nat, r \in Nat
  <2> QED BY <2>4, MultipleOf, ZenonT(60)
<1>4. a + b \in Nat /\ a + c \in Nat /\ a + b <= a + c
  BY ONLY <1>2, a \in Nat, b \in Nat, c \in Nat
<1>5. AlignUp(a + b) <= a + c
  BY <1>1, <1>3, <1>4, AlignUpLeast, ZenonT(60)
<1> QED BY <1>2, <1>5, ZenonT(60)

\* What the type invariant adds to the inductive one: the modules moved so far
\* have taken no more than the pages they need, for all of which the first region
\* has room.
Room ==
    /\ HoldsKernel(map, placed)
    /\ total <= PackedTo(placed)[Len(modules)]
    /\ Len(memmaps) < NO_MEMMAPS
    /\ mem_upper \in BOOLEAN
    /\ pc = "kernel" => memmaps[1].len \in Nat

LEMMA InitRoom == Init => Room
<1> SUFFICES ASSUME Init PROVE Room
  BY ZenonT(60)
<1>1. /\ total = 0 /\ Len(modules) = 0 /\ Len(memmaps) = 0
      /\ mem_upper = FALSE /\ pc = "tags" /\ HoldsKernel(map, placed)
  BY ZenonT(60) DEF Init
<1>2. placed \in Seq(Span) /\ PlacedInOrder(placed)
  BY LoaderAssumption, ZenonT(60) DEF Init, Span
<1>3. PackedTo(placed)[0] = 0
  BY <1>2, PackedSums, ZenonT(60) DEF AddsUp
<1>4. 0 < NO_MEMMAPS /\ 0 <= 0
  BY EarlyAssumption
<1> QED BY <1>1, <1>3, <1>4, ZenonT(60) DEF Room

LEMMA ModuleRoom ==
    ASSUME IInv, Room, module_tag, Len(modules) + 1 <= NO_MODULES
    PROVE  total' <= PackedTo(placed)[Len(modules')]
<1>1. PICK n \in Nat : /\ n = Len(modules) /\ todo.module = n + 1 /\ n + 1 \in 1 .. Len(placed)
                      /\ placed \in Seq(Span) /\ PlacedInOrder(placed)
                      /\ modules \in Seq(Span) /\ NO_MODULES \in Nat
  <2>1. Len(modules) \in Nat /\ NO_MODULES \in Nat /\ todo.module \in DOMAIN placed
    BY EarlyAssumption DEF IInv, Walk, module_tag
  <2> QED BY <2>1 DEF IInv, Walk
<1>2. PICK size \in Nat : size = SizeOf(placed[n + 1])
  <2>1. /\ placed[n + 1].start \in Nat /\ placed[n + 1].end \in Nat
        /\ placed[n + 1].start < placed[n + 1].end
    BY <1>1, PlacedFacts, ZenonT(60)
  <2>2. placed[n + 1].end - placed[n + 1].start \in Nat
    BY ONLY <2>1
  <2> QED BY <2>2, ZenonT(60) DEF SizeOf
<1>3. last_end \in Nat /\ last_end % PAGE_SIZE = 0 /\ total = last_end - KernelEnd
      /\ KernelEnd \in Nat
  BY EarlyAssumption, ZenonT(60) DEF IInv, Moved
<1>4. PICK e \in Nat : e = AlignUp(last_end + size)
  <2>1. last_end + size \in Nat
    BY ONLY <1>3, size \in Nat
  <2> QED BY <2>1, AlignUpLeast, ZenonT(60)
<1>5. total' = total + (e - last_end) /\ Len(modules') = n + 1
  <2>1. ~ (Len(modules) + 1 > NO_MODULES)
    BY <1>1
  <2>2. /\ total' = total + (e - last_end)
        /\ modules' = Append(modules, [start |-> last_end, end |-> e])
    BY <1>1, <1>2, <1>4, <2>1, ZenonT(60) DEF module_tag
  <2> QED BY <1>1, <2>2
<1>6. PICK s \in Nat : s = AlignUp(size)
  BY AlignUpLeast, ZenonT(60)
<1>7. e <= last_end + s
  BY <1>3, <1>4, <1>6, AlignAdds, ZenonT(60)
<1>8. /\ PackedTo(placed)[n + 1] = PackedTo(placed)[n] + s
      /\ PackedTo(placed)[n] \in Nat
  <2>1. (n + 1) - 1 = n /\ n \in 0 .. Len(placed)
    BY <1>1
  <2>2. PackedTo(placed)[n] \in Nat
    BY <1>1, <2>1, PackedBounds, ZenonT(60)
  <2> QED BY <1>1, <1>2, <1>6, <2>1, <2>2, PackedSums, ZenonT(60) DEF AddsUp
<1>9. total <= PackedTo(placed)[n]
  BY <1>1, ZenonT(60) DEF Room
<1>10. total' <= PackedTo(placed)[n + 1]
  BY ONLY <1>3, <1>5, <1>7, <1>8, <1>9, e \in Nat, s \in Nat
<1> QED BY <1>5, <1>10, ZenonT(60)

LEMMA EndRoom ==
    ASSUME IInv, Room, end_tag
    PROVE  /\ Len(memmaps') = Len(memmaps)
           /\ pc' = "kernel" => memmaps'[1].len \in Nat
<1>1. pc = "tags" /\ memmaps \in Seq([addr : Nat, len : Int, available : BOOLEAN])
  BY ZenonT(60) DEF end_tag, IInv, MapKept
<1>2. CASE ~ NothingMissing
  <2>1. pc' = "panic" /\ memmaps' = memmaps
    BY <1>2, ZenonT(60) DEF end_tag
  <2> QED BY <2>1, ZenonT(60)
<1>3. CASE NothingMissing
  <2>1. memmaps' = [memmaps EXCEPT ![1] = FreeRegion(memmaps[1])] /\ memmaps # <<>>
    BY <1>3, ZenonT(60) DEF end_tag, NothingMissing
  <2>2. /\ UsableOf(map) \in Seq(Region) /\ Len(memmaps) \in Nat
        /\ 1 \in 1 .. Len(memmaps) /\ 1 \in 1 .. Len(UsableOf(map))
        /\ \A i \in 1 .. Len(memmaps) : memmaps[i] = UsableOf(map)[i]
    BY <1>1, <2>1, LoaderAssumption DEF IInv, MapKept, Region
  <2>3. PICK r \in Region : r = UsableOf(map)[1] /\ r = memmaps[1]
    BY <2>2
  <2>4. /\ r.addr \in Nat /\ r.len \in Nat /\ KernelEnd \in Nat
        /\ last_end \in Nat /\ KernelEnd <= last_end /\ total = last_end - KernelEnd
    BY EarlyAssumption, ZenonT(60) DEF IInv, Moved, Region
  <2>5. PICK n \in Nat : n = Len(modules) /\ n \in 0 .. Len(placed)
    <3>1. /\ Len(modules) \in Nat /\ NO_MODULES \in Nat /\ Len(placed) \in Nat
          /\ todo.module \in Nat \ {0} /\ todo.module <= Len(placed) + 1
          /\ Len(modules) = IF todo.module - 1 < NO_MODULES THEN todo.module - 1 ELSE NO_MODULES
      BY EarlyAssumption DEF IInv, Walk
    <3> QED BY ONLY <3>1
  <2>6. total <= Packed(placed) /\ Packed(placed) \in Nat
    <3>1. placed \in Seq(Span) /\ PlacedInOrder(placed)
      BY ZenonT(60) DEF IInv, Walk
    <3>2. PackedTo(placed)[n] \in Nat /\ PackedTo(placed)[n] <= Packed(placed)
          /\ Packed(placed) \in Nat
      BY <2>5, <3>1, PackedBounds, ZenonT(60)
    <3>3. total <= PackedTo(placed)[n]
      BY <2>5, ZenonT(60) DEF Room
    <3> QED BY ONLY <2>4, <3>2, <3>3
  <2>7. KernelEnd + Packed(placed) <= r.addr + r.len
    <3>1. UsableOf(map) # <<>>
      BY <2>2
    <3> QED BY <2>3, <3>1, ZenonT(60) DEF Room, HoldsKernel
  <2>8. PICK left : left = r.len - (KernelEnd - r.addr) - total
    BY ZenonT(60)
  <2>9. left \in Nat
    BY ONLY <2>4, <2>6, <2>7, <2>8
  <2>10. FreeRegion(r).len = left
    <3>1. FreeRegion(r) = [r EXCEPT !.len = left, !.addr = last_end]
      BY <2>8, ZenonT(60) DEF FreeRegion
    <3> QED BY <3>1, ZenonT(60) DEF Region
  <2>11. Len(memmaps') = Len(memmaps) /\ memmaps'[1] = FreeRegion(r)
    BY <1>1, <2>1, <2>2, <2>3
  <2> QED BY <2>9, <2>10, <2>11, ZenonT(60)
<1> QED BY <1>2, <1>3, ZenonT(60)

LEMMA NextRoom == IInv /\ Room /\ [Next]_vars => Room'
<1> SUFFICES ASSUME IInv, Room, [Next]_vars PROVE Room'
  BY ZenonT(60)
<1>1. HoldsKernel(map', placed') /\ map' = map /\ placed' = placed
  BY ZenonT(60) DEF Room, Next, vars, mmap_tag, meminfo_tag, module_tag, end_tag
<1>2. CASE mmap_tag
  <2> DEFINE U == UsableOf(map)
             k == IF Len(U) < NO_MEMMAPS - 1 THEN Len(U) ELSE NO_MEMMAPS - 1
  <2>1. /\ memmaps' = SubSeq(U, 1, k) /\ pc = "tags"
        /\ UNCHANGED <<mem_upper, modules, total, pc>>
    BY <1>2, ZenonT(60) DEF mmap_tag
  <2>2. U \in Seq(Region) /\ NO_MEMMAPS \in Nat \ {0}
    BY LoaderAssumption, EarlyAssumption, ZenonT(60) DEF IInv, MapKept, Region
  <2> HIDE DEF U
  <2>3. Len(memmaps') < NO_MEMMAPS
    <3>1. k \in Nat /\ k <= Len(U) /\ k < NO_MEMMAPS
      BY <2>2
    <3> HIDE DEF k
    <3>2. Len(SubSeq(U, 1, k)) = k
      BY <2>2, <3>1
    <3> QED BY <2>1, <3>1, <3>2, ZenonT(60)
  <2> QED BY <1>1, <2>1, <2>3, ZenonT(60) DEF Room
<1>3. ASSUME NEW some \in BOOLEAN, meminfo_tag(some) PROVE Room'
  BY <1>1, <1>3, ZenonT(60) DEF Room, meminfo_tag
<1>4. CASE module_tag
  <2>1. UNCHANGED <<memmaps, mem_upper, pc>>
    BY <1>4, ZenonT(60) DEF module_tag
  <2>2. total' <= PackedTo(placed)[Len(modules')]
    <3>1. CASE Len(modules) + 1 > NO_MODULES
      BY <1>4, <3>1, ZenonT(60) DEF module_tag, Room
    <3>2. CASE Len(modules) + 1 <= NO_MODULES
      BY <1>4, <3>2, ModuleRoom, ZenonT(60)
    <3>3. Len(modules) \in Nat /\ NO_MODULES \in Nat
      BY EarlyAssumption DEF IInv, Walk
    <3> QED BY <3>1, <3>2, <3>3
  <2> QED BY <1>1, <2>1, <2>2, ZenonT(60) DEF Room
<1>5. CASE end_tag
  <2>1. UNCHANGED <<mem_upper, modules, total>>
    BY <1>5, ZenonT(60) DEF end_tag
  <2>2. Len(memmaps') = Len(memmaps) /\ (pc' = "kernel" => memmaps'[1].len \in Nat)
    BY <1>5, EndRoom, ZenonT(60)
  <2> QED BY <1>1, <2>1, <2>2, ZenonT(60) DEF Room
<1>6. CASE UNCHANGED vars
  BY <1>1, <1>6, ZenonT(60) DEF Room, vars
<1> QED BY <1>2, <1>3, <1>4, <1>5, <1>6, ZenonT(60) DEF Next

\* However the loader placed the modules and however many entries its map has,
\* the two arrays of kernel_info_t are not overrun, and the length early_main
\* leaves in memmaps[0] does not wrap below zero.
THEOREM TypesKept == Spec => []TypeOK
<1>1. IInv /\ Room => TypeOK
  <2> SUFFICES ASSUME IInv, Room PROVE TypeOK
    BY ZenonT(60)
  <2>1. last_end \in Nat /\ total \in Nat
    <3>1. last_end \in Nat /\ KernelEnd \in Nat /\ KernelEnd <= last_end /\ total = last_end - KernelEnd
      BY EarlyAssumption, ZenonT(60) DEF IInv, Moved
    <3> QED BY ONLY <3>1
  <2>2. Len(modules) <= NO_MODULES
    <3>1. /\ NO_MODULES \in Nat /\ todo.module \in Nat
          /\ Len(modules) = IF todo.module - 1 < NO_MODULES THEN todo.module - 1 ELSE NO_MODULES
      BY EarlyAssumption, ZenonT(60) DEF IInv, Walk
    <3> QED BY ONLY <3>1
  <2> QED BY <2>1, <2>2, ZenonT(60) DEF IInv, Room, TypeOK
<1> QED BY <1>1, InitIInv, InitRoom, NextIInv, NextRoom, PTL DEF Spec

=============================================================================
