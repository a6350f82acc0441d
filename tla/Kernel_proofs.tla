---------------------------- MODULE Kernel_proofs ----------------------------
(***************************************************************************)
(* Proofs about three parts of the kernel that share no state.  The clock  *)
(* keeps pace with the chip for every frequency of the chip, length of a   *)
(* count and set of frequencies asked for whose divisors fit the two bytes *)
(* and whose periods are at most a second.  The ways into the kernel       *)
(* guarantee what the handlers and the programs rely on, for every set of  *)
(* exceptions, interrupt lines, INT operands and register contents.  The   *)
(* frame stack conserves its frames, keeps them inside usable memory and   *)
(* implements BlockAllocator, for every memory map, page size and region.  *)
(***************************************************************************)
EXTENDS HwClock, KernelEntry, FrameStackRefinement, WellFoundedInduction, TLAPS

\* Every step below is tried with the SMT solver, unless it names another prover.
USE SMTT(60)

-----------------------------------------------------------------------------
(* The clock *)

\* The chip and the handler count with the same divisor, and nothing is
\* pending before the chip is programmed.
ClockInv ==
    /\ current_clock \in [sec : Nat, nsec : 0 .. SECOND]
    /\ current_ctr_val \in Nat
    /\ current_ctr_val * NSEC_PER_TICK <= SECOND
    /\ pit \in [mode : {"off", "counting", "waiting"},
                reload : 0 .. BYTE * BYTE, count : Nat]
    /\ pit.count <= pit.reload
    /\ pit.reload = current_ctr_val
    /\ irq \in BOOLEAN
    /\ pit.mode = "off" => ~ irq
    /\ base \in Nat /\ counted \in Nat /\ lost \in Nat
    /\ ClockKeepsPace

\* A number below BYTE^2 is what its low and high bytes make up.
LEMMA TwoBytes ==
    ASSUME NEW B \in Nat \ {0}, NEW d \in 1 .. B * B - 1
    PROVE  (d % B) + B * ((d \div B) % B) = d
<1> DEFINE q == d \div B
<1>1. q \in Nat /\ d % B \in 0 .. B - 1 /\ d = B * q + (d % B)
  OBVIOUS
<1>2. q < B
  <2> SUFFICES ASSUME q >= B PROVE FALSE
    BY <1>1
  <2>1. B * q >= B * B
    BY <1>1
  <2> QED BY <1>1, <2>1
<1>3. q % B = q
  BY <1>1, <1>2
<1> QED BY <1>1, <1>3

\* Writing a divisor byte by byte hands the chip that divisor.
LEMMA DivisorExact ==
    ASSUME NEW f \in Frequencies
    PROVE  /\ PIT_FREQ \div f \in Nat
           /\ PIT_FREQ \div f \in 0 .. BYTE * BYTE
           /\ Divisor(PIT_FREQ \div f) = PIT_FREQ \div f
           /\ (PIT_FREQ \div f) * NSEC_PER_TICK <= SECOND
<1> DEFINE d == PIT_FREQ \div f
<1>1. d \in 1 .. BYTE * BYTE - 1 /\ d * NSEC_PER_TICK <= SECOND
  BY FrequencyAssumption
<1>2. BYTE \in Nat \ {0} /\ BYTE * BYTE \in Nat
  BY ClockAssumption
<1>3. (d % BYTE) + BYTE * ((d \div BYTE) % BYTE) = d
  BY <1>1, <1>2, TwoBytes
<1> HIDE DEF d
<1>4. Divisor(d) = d
  BY <1>1, <1>2, <1>3 DEF Divisor
<1> QED BY <1>1, <1>2, <1>4 DEF d

\* One carry is enough for a period of at most a second.
LEMMA AdvanceAdds ==
    ASSUME NEW t \in [sec : Nat, nsec : 0 .. SECOND],
           NEW n \in Nat, n <= SECOND
    PROVE  /\ Advance(t, n) \in [sec : Nat, nsec : 0 .. SECOND]
           /\ Total(Advance(t, n)) = Total(t) + n
<1>1. SECOND \in Nat /\ t.sec \in Nat /\ t.nsec \in 0 .. SECOND
  BY ClockAssumption
<1>2. (t.sec + 1) * SECOND = t.sec * SECOND + SECOND /\ t.sec * SECOND \in Nat
  BY <1>1
<1>3. CASE t.nsec + n > SECOND
  <2>1. Advance(t, n) = [sec |-> t.sec + 1, nsec |-> t.nsec + n - SECOND]
    BY <1>1, <1>3 DEF Advance
  <2> QED BY <1>1, <1>2, <1>3, <2>1 DEF Total
<1>4. CASE ~ (t.nsec + n > SECOND)
  <2>1. Advance(t, n) = [sec |-> t.sec, nsec |-> t.nsec + n]
    BY <1>1, <1>4 DEF Advance
  <2> QED BY <1>1, <1>2, <1>4, <2>1 DEF Total
<1> QED BY <1>3, <1>4

\* The clock's initial state satisfies the inductive invariant.
LEMMA ClockInitInv == ClockInit => ClockInv
<1> SUFFICES ASSUME ClockInit PROVE ClockInv
  OBVIOUS
<1>1. /\ SECOND \in Nat /\ NSEC_PER_TICK \in Nat
      /\ BYTE * BYTE \in Nat /\ 0 * SECOND = 0 /\ 0 * NSEC_PER_TICK = 0
  BY ClockAssumption
<1>2. ClockKeepsPace
  BY <1>1 DEF ClockInit, ClockKeepsPace, Total
<1>3. pit \in [mode : {"off", "counting", "waiting"},
                reload : 0 .. BYTE * BYTE, count : Nat]
  BY <1>1 DEF ClockInit
<1>4. /\ current_clock \in [sec : Nat, nsec : 0 .. SECOND]
      /\ current_ctr_val * NSEC_PER_TICK <= SECOND
  BY <1>1 DEF ClockInit
<1>5. /\ current_ctr_val \in Nat /\ pit.count <= pit.reload
      /\ pit.reload = current_ctr_val /\ base \in Nat /\ counted \in Nat /\ lost \in Nat
  BY DEF ClockInit
<1>6. irq \in BOOLEAN /\ ~ irq
  BY ZenonT(60) DEF ClockInit
<1> QED BY <1>2, <1>3, <1>4, <1>5, <1>6 DEF ClockInv

\* Setting the clock keeps the invariant, whether or not IRQ 0 is pending.
LEMMA SetTimeInv ==
    ASSUME ClockInv, pit.mode # "off", NEW time \in Times, hwclock_set_time(time)
    PROVE  ClockInv'
<1>1. time \in [sec : Nat, nsec : 0 .. SECOND] /\ SECOND \in Nat /\ NSEC_PER_TICK \in Nat
  BY ClockAssumption
<1>2. Total(time) \in Nat
  BY <1>1 DEF Total
<1>3. ClockKeepsPace'
  BY <1>1, <1>2 DEF ClockInv, hwclock_set_time, ClockKeepsPace, Total
<1> QED BY <1>1, <1>2, <1>3 DEF ClockInv, hwclock_set_time

\* Reading the clock keeps the invariant: it leaves the clock alone.
LEMMA GetTimeInv ==
    ASSUME ClockInv, pit.mode # "off", hwclock_get_time
    PROVE  ClockInv'
BY DEF ClockInv, hwclock_get_time, ClockKeepsPace, Total

\* Every step keeps the inductive invariant.
LEMMA ClockNextInv == ClockInv /\ [ClockNext]_clockVars => ClockInv'
<1> SUFFICES ASSUME ClockInv, [ClockNext]_clockVars PROVE ClockInv'
  OBVIOUS
<1>0. /\ SECOND \in Nat /\ NSEC_PER_TICK \in Nat /\ BYTE * BYTE \in Nat
      /\ current_clock.sec * SECOND \in Nat /\ Total(current_clock) \in Nat
  BY ClockAssumption DEF ClockInv, Total
<1>1. ASSUME NEW f \in Frequencies, hwclock_init(f) PROVE ClockInv'
  <2> DEFINE d == PIT_FREQ \div f
  <2>1. /\ d \in Nat /\ d \in 0 .. BYTE * BYTE /\ Divisor(d) = d
        /\ d * NSEC_PER_TICK <= SECOND
    BY DivisorExact
  <2> HIDE DEF d
  <2>2. /\ pit' = [mode |-> "counting", reload |-> d, count |-> d]
        /\ current_ctr_val' = d /\ ~ irq
    BY <1>1, <2>1 DEF hwclock_init, ClockInv, d
  <2>3. UNCHANGED <<current_clock, irq, base, counted, lost>>
    BY <1>1 DEF hwclock_init
  <2> QED BY <2>1, <2>2, <2>3 DEF ClockInv, ClockKeepsPace, Total
<1>2. CASE pit_count
  <2>1. CASE pit.count > 1
    BY <1>2, <2>1 DEF pit_count, ClockInv, ClockKeepsPace, Total
  <2>2. CASE ~ (pit.count > 1)
    <3>1. /\ irq' = TRUE /\ pit' = [pit EXCEPT !.count = pit.reload]
          /\ counted' = counted + pit.reload
          /\ lost' = IF irq THEN lost + pit.reload ELSE lost
          /\ UNCHANGED <<current_clock, current_ctr_val, tv, base>>
      BY <1>2, <2>2 DEF pit_count
    <3>2. /\ pit.reload \in Nat /\ pit'.reload = pit.reload
          /\ counted \in Nat /\ lost \in Nat /\ irq \in BOOLEAN
      BY <1>0, <3>1 DEF ClockInv
    <3>3. ClockKeepsPace'
      <4>1. Total(current_clock)' = Total(current_clock)
        BY <3>1 DEF Total
      <4>2. CASE irq
        <5>1. counted' - lost' = counted - lost
          BY <3>1, <3>2, <4>2
        <5> QED BY <3>1, <3>2, <4>1, <4>2, <5>1 DEF ClockInv, ClockKeepsPace
      <4>3. CASE ~ irq
        <5>1. counted' - lost' = (counted - lost) + pit.reload
          BY <3>1, <3>2, <4>3
        <5>2. ((counted - lost) + pit.reload) * NSEC_PER_TICK
                = (counted - lost) * NSEC_PER_TICK + pit.reload * NSEC_PER_TICK
          BY <1>0, <3>2
        <5> QED BY <1>0, <3>1, <3>2, <4>1, <4>3, <5>1, <5>2 DEF ClockInv, ClockKeepsPace
      <4> QED BY <4>2, <4>3
    <3>4. pit.mode = "counting" /\ pit'.mode = pit.mode /\ pit'.reload = pit.reload
      BY <1>2, <3>1 DEF pit_count, ClockInv
    <3>5. /\ pit' \in [mode : {"off", "counting", "waiting"},
                       reload : 0 .. BYTE * BYTE, count : Nat]
          /\ pit'.count <= pit'.reload /\ counted' \in Nat /\ lost' \in Nat
      BY <3>1, <3>2 DEF ClockInv
    <3> QED BY <3>1, <3>3, <3>4, <3>5 DEF ClockInv
  <2> QED BY <2>1, <2>2
<1>3. CASE hwclock_irq_handler
  <2> DEFINE n == current_ctr_val * NSEC_PER_TICK
  <2>1. n \in Nat /\ n <= SECOND
    BY <1>0 DEF ClockInv
  <2>2. /\ Advance(current_clock, n) \in [sec : Nat, nsec : 0 .. SECOND]
        /\ Total(Advance(current_clock, n)) = Total(current_clock) + n
    BY <2>1, AdvanceAdds DEF ClockInv
  <2>3. /\ current_clock' = Advance(current_clock, n)
        /\ irq = TRUE /\ irq' = FALSE
        /\ UNCHANGED <<current_ctr_val, pit, tv, base, counted, lost>>
    BY <1>3 DEF hwclock_irq_handler, ClockInv
  <2>4. Total(current_clock)' = Total(current_clock) + n
    BY <2>2, <2>3 DEF Total
  <2>5. ClockKeepsPace'
    BY <1>0, <2>3, <2>4 DEF ClockInv, ClockKeepsPace
  <2> QED BY <2>2, <2>3, <2>5, ZenonT(60) DEF ClockInv
<1>4. ASSUME NEW member \in {"set_time", "get_time"}, NEW time \in Times,
             call_hwclock(member, time)
      PROVE  ClockInv'
  BY <1>4, SetTimeInv, GetTimeInv DEF call_hwclock
<1>5. CASE UNCHANGED clockVars
  BY <1>5 DEF clockVars, ClockInv, ClockKeepsPace, Total
<1> QED BY <1>1, <1>2, <1>3, <1>4, <1>5 DEF ClockNext

\* current_clock and the pending period always make up the time since the
\* clock was set: no period is lost or added twice by the handler, its carry,
\* or a call that sets the clock with IRQ 0 pending, but for those that end
\* before the handler has run for the one before.
THEOREM KeepsPace == ClockSpec => []ClockKeepsPace
<1>1. ClockInv => ClockKeepsPace
  BY DEF ClockInv
<1> QED BY <1>1, ClockInitInv, ClockNextInv, PTL DEF ClockSpec

\* The nanoseconds never exceed a second, so the handler's single carry is
\* enough, and the chip's counter stays within the divisor it was given.
THEOREM ClockTypeCorrect == ClockSpec => []ClockTypeOK
<1>1. ClockInv => ClockTypeOK
  BY ClockAssumption DEF ClockInv, ClockTypeOK
<1> QED BY <1>1, ClockInitInv, ClockNextInv, PTL DEF ClockSpec

-----------------------------------------------------------------------------
(* The frame stack *)

\* The elements of a sequence, and the sequence as a function.
LEMMA Members ==
  ASSUME NEW S, NEW s \in Seq(S)
  PROVE  Len(s) \in Nat /\ \A i \in 1 .. Len(s) : s[i] \in S
OBVIOUS

\* What is left of a stack when the last elements are taken off.
LEMMA Shortened ==
  ASSUME NEW S, NEW s \in Seq(S), NEW k \in 0 .. Len(s)
  PROVE  /\ SubSeq(s, 1, k) \in Seq(S) /\ Len(SubSeq(s, 1, k)) = k
         /\ \A i \in 1 .. k : SubSeq(s, 1, k)[i] = s[i]
OBVIOUS

\* Two sequences one behind the other.
LEMMA Concatenated ==
  ASSUME NEW S, NEW u \in Seq(S), NEW v \in Seq(S)
  PROVE  /\ u \o v \in Seq(S) /\ Len(u \o v) = Len(u) + Len(v)
         /\ \A i \in 1 .. Len(u) : (u \o v)[i] = u[i]
         /\ \A i \in Len(u) + 1 .. Len(u) + Len(v) : (u \o v)[i] = v[i - Len(u)]
OBVIOUS

\* Where the i-th element was before the k-th one was taken out.
Skip(k, i) == IF i < k THEN i ELSE i + 1

Without(s, k) == SubSeq(s, 1, k - 1) \o SubSeq(s, k + 1, Len(s))

\* What is left of a sequence when one element is taken out.
LEMMA Removed ==
  ASSUME NEW S, NEW s \in Seq(S), NEW k \in 1 .. Len(s)
  PROVE  /\ Without(s, k) \in Seq(S) /\ Len(Without(s, k)) = Len(s) - 1
         /\ Len(s) - 1 \in Nat
         /\ \A i \in 1 .. Len(s) - 1 : Without(s, k)[i] = s[Skip(k, i)]
<1> DEFINE t == Without(s, k)
<1>1. Len(s) \in Nat /\ k \in Nat \ {0} /\ k <= Len(s)
  OBVIOUS
<1> DEFINE u == SubSeq(s, 1, k - 1)
           v == SubSeq(s, k + 1, Len(s))
<1>2. u \in Seq(S) /\ Len(u) = k - 1 /\ \A i \in 1 .. k - 1 : u[i] = s[i]
  BY <1>1
<1>3. v \in Seq(S) /\ Len(v) = Len(s) - k /\ \A i \in 1 .. Len(s) - k : v[i] = s[k + i]
  BY <1>1
<1>4. t = u \o v
  BY ZenonT(60) DEF Without
<1> HIDE DEF t, u, v
<1>5. /\ t \in Seq(S) /\ Len(t) = Len(u) + Len(v)
      /\ \A i \in 1 .. Len(u) : t[i] = u[i]
      /\ \A i \in Len(u) + 1 .. Len(u) + Len(v) : t[i] = v[i - Len(u)]
  <2>1. /\ u \o v \in Seq(S) /\ Len(u \o v) = Len(u) + Len(v)
        /\ \A i \in 1 .. Len(u) : (u \o v)[i] = u[i]
        /\ \A i \in Len(u) + 1 .. Len(u) + Len(v) : (u \o v)[i] = v[i - Len(u)]
    <3>1. u \in Seq(S) /\ v \in Seq(S)
      BY <1>2, <1>3, ZenonT(60)
    <3> QED BY ONLY <3>1, Concatenated
  <2> QED BY ONLY <1>4, <2>1, ZenonT(60)
<1>6. Len(t) = Len(s) - 1 /\ Len(t) \in Nat
  BY ONLY <1>1, <1>2, <1>3, <1>5
<1>7. ASSUME NEW i \in 1 .. Len(t) PROVE t[i] = s[Skip(k, i)]
  <2>1. CASE i < k
    <3>1. i \in 1 .. k - 1
      BY <1>1, <1>6, <2>1
    <3> QED BY <1>2, <1>5, <2>1, <3>1, ZenonT(60) DEF Skip
  <2>2. CASE ~ (i < k)
    <3>1. PICK j \in 1 .. Len(s) - k : j = i - Len(u) /\ k + j = i + 1
      BY ONLY <1>1, <1>2, <1>6, <2>2, i \in 1 .. Len(t)
    <3>2. i \in Len(u) + 1 .. Len(u) + Len(v)
      BY ONLY <1>1, <1>2, <1>3, <1>6, <2>2, i \in 1 .. Len(t)
    <3> QED BY <1>3, <1>5, <2>2, <3>1, <3>2, ZenonT(60) DEF Skip
  <2> QED BY <2>1, <2>2, ZenonT(60)
<1> QED BY <1>5, <1>6, <1>7, ZenonT(60) DEF t

\* The other elements keep a place, and no two share one.
LEMMA Skipped ==
  ASSUME NEW n \in Nat, NEW k \in 1 .. n
  PROVE  /\ \A i \in 1 .. n - 1 : Skip(k, i) \in 1 .. n /\ Skip(k, i) # k
         /\ \A i, j \in 1 .. n - 1 : Skip(k, i) = Skip(k, j) => i = j
         /\ \A j \in 1 .. n : j # k => \E i \in 1 .. n - 1 : Skip(k, i) = j
<1>1. ASSUME NEW j \in 1 .. n, j # k PROVE \E i \in 1 .. n - 1 : Skip(k, i) = j
  <2>1. CASE j < k
    <3>1. j \in 1 .. n - 1 /\ Skip(k, j) = j
      BY <2>1 DEF Skip
    <3> QED BY <3>1, ZenonT(60)
  <2>2. CASE j > k
    <3>1. j - 1 \in 1 .. n - 1 /\ Skip(k, j - 1) = j
      BY <2>2 DEF Skip
    <3> QED BY <3>1, ZenonT(60)
  <2> QED BY <1>1, <2>1, <2>2
<1>2. \A i \in 1 .. n - 1 : Skip(k, i) \in 1 .. n /\ Skip(k, i) # k
  BY DEF Skip
<1>3. \A i, j \in 1 .. n - 1 : Skip(k, i) = Skip(k, j) => i = j
  BY DEF Skip
<1> QED BY <1>1, <1>2, <1>3, ZenonT(60)

\* What a frame has to itself: its first address, or the whole page when the
\* entries of the map consist of whole pages.
Width == IF MapWhole THEN PAGE_SIZE ELSE 1

Apart(f, g) == f + Width <= g \/ g + Width <= f

\* Entry e has room for a frame at f.
Holds(e, f) ==
  /\ Start(e) <= f /\ f < End(e) /\ f + Width <= End(e)
  /\ Whole(e) => f + PAGE_SIZE <= End(e)

\* Where a frame may lie: in an entry that the scan has passed.
Spots ==
  {f \in Nat :
     f >= RegionStart /\ \E e \in Available : e < entry /\ Usable(e) /\ Holds(e, f)}

Types ==
  /\ map \in Maps
  /\ pc \in {"start", "reserve", "scan", "ready", "panic"}
  /\ entry \in Nat \ {0}
  /\ stack \in Seq(0 .. Word - 1) /\ Len(stack) <= required
  /\ region \in [available : Int, in_use : Int]
  /\ held \in Seq(0 .. Word - 1)

AllInside ==
  MapBelow =>
    /\ \A i \in 1 .. Len(stack) : stack[i] \in Spots
    /\ \A i \in 1 .. Len(held) : held[i] \in Spots

AllApart ==
  MapBelow /\ MapApart =>
    /\ \A i, j \in 1 .. Len(stack) : i # j => Apart(stack[i], stack[j])
    /\ \A i \in 1 .. Len(stack) : \A j \in 1 .. Len(held) : Apart(stack[i], held[j])
    /\ \A i, j \in 1 .. Len(held) : i # j => Apart(held[i], held[j])

Counted ==
  /\ region.in_use = Len(held)
  /\ pc # "ready" => held = <<>>
  /\ pc = "ready" => /\ region.available = Len(stack)
                     /\ region.available + region.in_use = required

\* Frames never overlap, which is more than that they differ; the scan keeps
\* that because every frame lies in one of the entries already passed and the
\* entries do not overlap.
IInv == Types /\ AllInside /\ AllApart /\ Counted

\* The map stays the same, and with it all that is said of it.
LEMMA SameMap ==
  ASSUME map' = map
  PROVE  /\ MapBelow' <=> MapBelow
         /\ MapApart' <=> MapApart
         /\ MapWhole' <=> MapWhole
         /\ Width' = Width
         /\ \A f, g : Apart(f, g)' <=> Apart(f, g)
         /\ Available' = Available
         /\ \A e : (Usable(e)' <=> Usable(e)) /\ Start(e)' = Start(e) /\ End(e)' = End(e)
         /\ \A e, f : Holds(e, f)' <=> Holds(e, f)
<1>1. Available' = Available
  BY ZenonT(60) DEF Available
<1>2. /\ \A e : Start(e)' = Start(e) /\ End(e)' = End(e)
      /\ \A e : Usable(e)' <=> Usable(e)
      /\ \A e : First(e)' = First(e)
      /\ \A e : Below(e)' <=> Below(e)
  BY ZenonT(60) DEF Start, End, Usable, First, Below
<1>3. \A e : Whole(e)' <=> Whole(e)
  BY <1>2, ZenonT(60) DEF Whole
<1>4. (MapBelow' <=> MapBelow) /\ (MapApart' <=> MapApart) /\ (MapWhole' <=> MapWhole)
  BY <1>1, <1>2, <1>3, ZenonT(60) DEF MapBelow, MapApart, MapWhole
<1>5. Width' = Width
  BY <1>4, ZenonT(60) DEF Width
<1>6. \A f, g : Apart(f, g)' <=> Apart(f, g)
  BY <1>5, ZenonT(60) DEF Apart
<1>7. \A e, f : Holds(e, f)' <=> Holds(e, f)
  BY <1>2, <1>3, <1>5, ZenonT(60) DEF Holds
<1> QED BY <1>1, <1>2, <1>4, <1>5, <1>6, <1>7, ZenonT(60)

-----------------------------------------------------------------------------
\* A set of numbers has a least member.
LEMMA Least ==
    ASSUME NEW S \in SUBSET Nat, S # {}
    PROVE  \E n \in S : \A k \in S : n <= k
<1> DEFINE Less == OpToRel(<, Nat)
<1>1. IsWellFoundedOn(Less, Nat)
  BY NatLessThanWellFounded, ZenonT(60)
<1>2. \A x, y \in Nat : y < x => <<y, x>> \in Less
  BY ZenonT(60) DEF OpToRel
<1> HIDE DEF Less
<1>3. PICK n \in S : \A y \in S : ~ (<<y, n>> \in Less)
  BY <1>1, WFMin, ZenonT(60)
<1>4. ASSUME NEW k \in S PROVE n <= k
  <2>1. ~ (k < n)
    BY <1>2, <1>3, ZenonT(60)
  <2> QED BY <2>1
<1> QED BY <1>4, ZenonT(60)

\* Division with remainder.
LEMMA QuotientRemainder ==
    ASSUME NEW n \in Nat, NEW p \in Nat \ {0}
    PROVE  n \div p \in Nat /\ n % p \in 0 .. p - 1 /\ n = p * (n \div p) + (n % p)
OBVIOUS

\* A number that fits the word is not cut.
LEMMA NotCut ==
    ASSUME NEW n \in Nat, NEW w \in Nat, n < w
    PROVE  n % w = n
OBVIOUS

\* The capacity is a positive number of frames.
LEMMA RequiredPositive == required \in Nat \ {0}
<1>1. PAGE_SIZE \in Nat \ {0} /\ RegionSize \in Nat
  BY FrameStackAssumption, ZenonT(60)
<1>2. RegionSize \div PAGE_SIZE \in Nat
  BY <1>1, QuotientRemainder, ZenonT(60)
<1>3. (RegionSize \div PAGE_SIZE) * 4 \in Nat
  BY <1>2
<1>4. ((RegionSize \div PAGE_SIZE) * 4) \div PAGE_SIZE \in Nat
  BY <1>1, <1>3, QuotientRemainder, ZenonT(60)
<1> QED BY <1>4 DEF required

\* A frame that starts in whole pages ends in them.
LEMMA FramesFit ==
    ASSUME NEW P \in Nat \ {0}, NEW b \in Nat, b % P = 0, NEW i \in Nat, i * P < b
    PROVE  i * P + P <= b
<1> DEFINE k == b \div P
<1>1. k \in Nat /\ b = P * k
  BY QuotientRemainder
<1> HIDE DEF k
<1>2. i < k
  <2> SUFFICES ASSUME k <= i PROVE FALSE
    BY <1>1
  <2>1. P * k <= P * i
    BY <1>1
  <2> QED BY <1>1, <2>1
<1>3. P * (i + 1) <= P * k
  BY <1>1, <1>2
<1> QED BY <1>1, <1>3

\* Two frames of one entry do not overlap.
LEMMA StridesApart ==
    ASSUME NEW P \in Nat \ {0}, NEW i \in Nat, NEW j \in Nat, i < j
    PROVE  i * P + P <= j * P
<1>1. i * P + P = (i + 1) * P
  OBVIOUS
<1>2. (i + 1) * P <= j * P
  OBVIOUS
<1> QED BY <1>1, <1>2, ZenonT(60)

\* The addresses of an entry are words; they are the entry's own when it ends
\* below the last address.
LEMMA EntryFacts ==
    ASSUME Types, NEW e \in 1 .. Len(map.entries)
    PROVE  /\ Start(e) \in 0 .. Word - 1 /\ End(e) \in 0 .. Word - 1
           /\ First(e) \in 0 .. Word - 1
           /\ Start(e) <= First(e) /\ RegionStart <= First(e)
           /\ Below(e) => End(e) + PAGE_SIZE <= Word
<1>1. /\ PAGE_SIZE \in Nat \ {0} /\ RegionStart \in 1 .. Word - 1 /\ Word \in Nat
      /\ map.entries \in Seq([addr : Nat, len : Nat, available : BOOLEAN])
  BY FrameStackAssumption, ZenonT(60) DEF Types
<1>2. map.entries[e] \in [addr : Nat, len : Nat, available : BOOLEAN]
  BY <1>1, Members, ZenonT(60)
<1>3. PICK a \in Nat, l \in Nat : a = map.entries[e].addr /\ l = map.entries[e].len
  BY <1>2, ZenonT(60)
<1>4. Word \in Nat \ {0} /\ a + l \in Nat
  BY <1>1
<1>5. Start(e) \in 0 .. Word - 1 /\ End(e) \in 0 .. Word - 1
  BY <1>3, <1>4, QuotientRemainder, ZenonT(60) DEF Start, End
<1>6. First(e) \in 0 .. Word - 1 /\ Start(e) <= First(e) /\ RegionStart <= First(e)
  BY <1>1, <1>5 DEF First
<1>7. ASSUME Below(e) PROVE End(e) + PAGE_SIZE <= Word
  <2>1. a + l + PAGE_SIZE <= Word
    BY <1>3, <1>7, ZenonT(60) DEF Below
  <2>2. a + l < Word
    BY <1>1, <1>4, <2>1
  <2>3. End(e) = a + l
    BY <1>3, <1>4, <2>2, NotCut, ZenonT(60) DEF End
  <2> QED BY <2>1, <2>3, ZenonT(60)
<1> QED BY <1>5, <1>6, <1>7, ZenonT(60)

\* How far the inner loop gets: at most to the capacity, and every address it
\* pushes is below the end of the entry.
LEMMA TurnsFacts ==
    ASSUME Types, NEW e \in 1 .. Len(map.entries)
    PROVE  /\ Turns(e) \in Nat /\ Turns(e) <= required - Len(stack)
           /\ \A i \in Nat : Addr(e, i) \in 0 .. Word - 1
           /\ \A i \in 0 .. Turns(e) - 1 : Addr(e, i) < End(e)
<1>1. Room \in Nat /\ Room = required - Len(stack)
  BY RequiredPositive DEF Types, Room
<1>2. ASSUME NEW i \in Nat PROVE Addr(e, i) \in 0 .. Word - 1
  <2>1. Word \in Nat \ {0} /\ First(e) + i * PAGE_SIZE \in Nat
    <3>1. i * PAGE_SIZE \in Nat /\ Word \in Nat /\ First(e) \in 0 .. Word - 1
      BY EntryFacts, FrameStackAssumption
    <3>2. PICK x \in Nat : x = i * PAGE_SIZE
      BY <3>1, ZenonT(60)
    <3>3. Word \in Nat \ {0} /\ First(e) + x \in Nat
      BY <3>1
    <3> QED BY <3>2, <3>3, ZenonT(60)
  <2> QED BY <2>1, QuotientRemainder, ZenonT(60) DEF Addr, Stride
<1> DEFINE Done(n) == n = Room \/ Addr(e, n) >= End(e)
           S == {n \in 0 .. Room : Done(n)}
<1>3. PICK n \in S : \A k \in S : n <= k
  <2>1. S \in SUBSET Nat /\ Room \in S
    BY <1>1
  <2> HIDE DEF S
  <2> QED BY <2>1, Least, ZenonT(60)
<1>4. n \in 0 .. Room /\ Done(n) /\ \A i \in 0 .. n - 1 : i \in 0 .. Room /\ i \in Nat /\ ~ (n <= i)
  BY <1>1, <1>3
<1>5. \A i \in 0 .. n - 1 : ~ Done(i)
  BY <1>3, <1>4, ZenonT(60)
<1>6. \A i \in 0 .. n - 1 : Addr(e, i) < End(e)
  <2>1. \A i \in 0 .. n - 1 : ~ (Addr(e, i) >= End(e)) /\ Addr(e, i) \in 0 .. Word - 1
    BY <1>2, <1>4, <1>5, ZenonT(60)
  <2>2. End(e) \in 0 .. Word - 1
    BY EntryFacts, ZenonT(60)
  <2> QED BY <2>1, <2>2
<1>7. \E k \in 0 .. Room : Done(k) /\ \A i \in 0 .. k - 1 : Addr(e, i) < End(e)
  BY <1>4, <1>6, ZenonT(60)
<1>8. Turns(e) \in 0 .. Room /\ \A i \in 0 .. Turns(e) - 1 : Addr(e, i) < End(e)
  BY <1>7, ZenonT(60) DEF Turns
<1>9. Turns(e) \in Nat /\ Turns(e) <= required - Len(stack)
  BY <1>1, <1>8
<1> QED BY <1>2, <1>8, <1>9, ZenonT(60)

\* Below the last address addr does not wrap.
LEMMA NoWrap ==
    ASSUME Types, NEW e \in 1 .. Len(map.entries), Below(e), NEW i \in 0 .. Turns(e) - 1
    PROVE  i * PAGE_SIZE \in Nat /\ Addr(e, i) = First(e) + i * PAGE_SIZE
<1> DEFINE P == PAGE_SIZE
           n == Turns(e)
           F == First(e)
<1>1. P \in Nat \ {0} /\ Word \in Nat
  BY FrameStackAssumption, ZenonT(60)
<1>2. /\ F \in 0 .. Word - 1 /\ End(e) \in 0 .. Word - 1 /\ End(e) + P <= Word
      /\ n \in Nat /\ \A k \in 0 .. n - 1 : Addr(e, k) < End(e)
  BY EntryFacts, TurnsFacts, ZenonT(60)
<1> DEFINE Bad == {k \in 0 .. n - 1 : F + k * P >= Word}
<1>3. \A k \in Nat : Addr(e, k) = (F + k * P) % Word /\ k * P \in Nat
  BY <1>1 DEF Addr, Stride
<1> HIDE DEF P, n, F
<1>4. Bad = {}
  <2> SUFFICES ASSUME Bad # {} PROVE FALSE
    BY ZenonT(60)
  <2>1. PICK k \in Bad : \A j \in Bad : k <= j
    <3>1. Bad \in SUBSET Nat
      BY <1>2
    <3> HIDE DEF Bad
    <3> QED BY <3>1, Least, ZenonT(60)
  <2>2. k \in Nat /\ k <= n - 1 /\ F + k * P >= Word
    BY <1>2, <2>1
  <2>3. k # 0
    BY <1>1, <1>2, <2>2
  <2>4. PICK j \in Nat : j = k - 1 /\ j \in 0 .. n - 1 /\ ~ (k <= j)
    BY <1>2, <2>2, <2>3
  <2>5. PICK x \in Nat : x = j * P
    BY <1>3, ZenonT(60)
  <2>6. ~ (F + x >= Word)
    BY <2>1, <2>4, <2>5, ZenonT(60)
  <2>7. F + x \in Nat /\ F + x < Word
    BY <1>1, <1>2, <2>6
  <2>8. F + x < End(e)
    <3>1. (F + x) % Word = F + x
      BY <1>1, <2>7, NotCut, ZenonT(60)
    <3>2. Addr(e, j) = F + x
      BY <1>3, <2>4, <2>5, <3>1, ZenonT(60)
    <3> QED BY <1>2, <2>4, <3>2, ZenonT(60)
  <2>9. k * P = x + P
    BY <1>1, <2>2, <2>4, <2>5
  <2> QED BY <1>1, <1>2, <2>2, <2>8, <2>9
<1>5. i \in Nat
  BY <1>2 DEF n
<1>6. PICK x \in Nat : x = i * P
  BY <1>3, <1>5, ZenonT(60)
<1>7. ~ (F + x >= Word)
  BY <1>4, <1>6, ZenonT(60) DEF n
<1>8. F + x \in Nat /\ F + x < Word
  BY <1>1, <1>2, <1>7
<1>9. (F + x) % Word = F + x
  BY <1>1, <1>8, NotCut, ZenonT(60)
<1> QED BY <1>3, <1>5, <1>6, <1>9, ZenonT(60) DEF P, F

\* What one turn of the scan pushes: words, as many as there is room for; they
\* lie in the entry and apart from each other when it ends below the last
\* address.
LEMMA PushedFacts ==
    ASSUME Types, NEW e \in Available
    PROVE  /\ Pushed(e) \in Seq(0 .. Word - 1) /\ Len(Pushed(e)) <= required - Len(stack)
           /\ Below(e) =>
                /\ \A i \in 1 .. Len(Pushed(e)) :
                     RegionStart <= Pushed(e)[i] /\ Holds(e, Pushed(e)[i])
                /\ \A i, j \in 1 .. Len(Pushed(e)) :
                     i # j => Apart(Pushed(e)[i], Pushed(e)[j])
<1> DEFINE P == PAGE_SIZE
           n == Turns(e)
           F == First(e)
<1>1. P \in Nat \ {0} /\ Word \in Nat /\ RegionStart \in 1 .. Word - 1
  BY FrameStackAssumption, ZenonT(60)
<1>2. e \in 1 .. Len(map.entries)
  BY ZenonT(60) DEF Available
<1>3. /\ F \in 0 .. Word - 1 /\ End(e) \in 0 .. Word - 1 /\ Start(e) \in 0 .. Word - 1
      /\ Start(e) <= F /\ RegionStart <= F
  BY <1>2, EntryFacts, ZenonT(60)
<1>4. /\ n \in Nat /\ n <= required - Len(stack)
      /\ \A i \in Nat : Addr(e, i) \in 0 .. Word - 1
      /\ \A i \in 0 .. n - 1 : Addr(e, i) < End(e)
  BY <1>2, TurnsFacts, ZenonT(60)
<1>5. \A i \in 1 .. n : i - 1 \in Nat /\ i - 1 \in 0 .. n - 1
  BY <1>4
<1>6. Pushed(e) = [i \in 1 .. n |-> Addr(e, i - 1)]
  BY ZenonT(60) DEF Pushed
<1> HIDE DEF P, n, F
<1>7. /\ Pushed(e) \in Seq(0 .. Word - 1) /\ Len(Pushed(e)) = n
      /\ \A i \in 1 .. n : Pushed(e)[i] = Addr(e, i - 1)
  BY <1>4, <1>5, <1>6
<1>8. Width \in Nat \ {0} /\ Width <= P /\ (MapWhole => Whole(e)) /\ (~ MapWhole => Width = 1)
  <2>1. MapWhole => Whole(e)
    BY ZenonT(60) DEF MapWhole
  <2> QED BY <1>1, <2>1 DEF Width, P
<1>9. ASSUME Below(e), NEW i \in 1 .. n
      PROVE  RegionStart <= Pushed(e)[i] /\ Holds(e, Pushed(e)[i])
  <2>1. PICK k \in Nat : k = i - 1 /\ k \in 0 .. n - 1
    BY <1>5
  <2>2. k * P \in Nat /\ Addr(e, k) = F + k * P
    BY <1>2, <1>9, <2>1, NoWrap, ZenonT(60) DEF n, P, F
  <2>3. PICK x \in Nat : x = k * P
    BY <2>2, ZenonT(60)
  <2>4. Pushed(e)[i] = F + x
    BY <1>7, <2>1, <2>2, <2>3, ZenonT(60)
  <2>5. F + x < End(e)
    BY <1>4, <2>1, <2>2, <2>3, ZenonT(60)
  <2>6. /\ RegionStart <= F + x /\ Start(e) <= F + x /\ F + x + 1 <= End(e)
        /\ RegionStart < End(e)
    BY <1>1, <1>3, <2>5
  <2>7. ASSUME Whole(e) PROVE F + x + P <= End(e)
    <3>1. PICK b \in Nat : b = End(e) - F /\ x < b
      BY <1>1, <1>3, <2>5
    <3>2. b % P = 0
      <4>1. End(e) > RegionStart
        BY <1>1, <1>3, <2>6
      <4>2. (End(e) - F) % P = 0
        BY <2>7, <4>1, ZenonT(60) DEF Whole, F, P
      <4> QED BY <3>1, <4>2, ZenonT(60)
    <3>3. x + P <= b
      BY <1>1, <2>3, <3>1, <3>2, FramesFit, ZenonT(60)
    <3> QED BY <1>1, <1>3, <3>1, <3>3
  <2>8. F + x + Width <= End(e)
    <3>1. CASE MapWhole
      BY <1>1, <1>3, <1>8, <2>7, <3>1
    <3>2. CASE ~ MapWhole
      BY <1>8, <2>6, <3>2, ZenonT(60)
    <3> QED BY <3>1, <3>2, ZenonT(60)
  <2> QED BY <2>4, <2>5, <2>6, <2>7, <2>8, ZenonT(60) DEF Holds, P
<1>10. ASSUME Below(e), NEW i \in 1 .. n, NEW j \in 1 .. n, i < j
       PROVE  Apart(Pushed(e)[i], Pushed(e)[j]) /\ Apart(Pushed(e)[j], Pushed(e)[i])
  <2>1. PICK k \in Nat, l \in Nat : /\ k = i - 1 /\ k \in 0 .. n - 1
                                    /\ l = j - 1 /\ l \in 0 .. n - 1 /\ k < l
    BY <1>4, <1>5, <1>10
  <2>2. /\ k * P \in Nat /\ Addr(e, k) = F + k * P
        /\ l * P \in Nat /\ Addr(e, l) = F + l * P
    BY <1>2, <1>10, <2>1, NoWrap, ZenonT(60) DEF n, P, F
  <2>3. PICK x \in Nat, y \in Nat : x = k * P /\ y = l * P
    BY <2>2, ZenonT(60)
  <2>4. Pushed(e)[i] = F + x /\ Pushed(e)[j] = F + y
    BY <1>7, <2>1, <2>2, <2>3, ZenonT(60)
  <2>5. x + P <= y
    BY <1>1, <2>1, <2>3, StridesApart, ZenonT(60)
  <2>6. F + x + Width <= F + y
    BY <1>1, <1>3, <1>8, <2>5
  <2> QED BY <2>4, <2>6, ZenonT(60) DEF Apart
<1>11. \A i, j \in 1 .. n : i # j => i < j \/ j < i
  BY <1>4
<1> QED BY <1>4, <1>7, <1>9, <1>10, <1>11, ZenonT(60)

-----------------------------------------------------------------------------
\* Initially there are no frames.
LEMMA InitIInv == Init => IInv
<1> SUFFICES ASSUME Init PROVE IInv
  BY ZenonT(60)
<1>1. /\ Len(stack) = 0 /\ stack \in Seq(0 .. Word - 1)
      /\ Len(held) = 0 /\ held \in Seq(0 .. Word - 1)
      /\ \A i \in 1 .. 0 : FALSE
  BY DEF Init
<1>2. Types
  BY <1>1, RequiredPositive DEF Init, Types
<1>3. Counted
  BY <1>1, ZenonT(60) DEF Init, Counted
<1>4. AllInside /\ AllApart
  BY <1>1, ZenonT(60) DEF AllInside, AllApart
<1> QED BY <1>2, <1>3, <1>4, ZenonT(60) DEF IInv

\* A frame in a passed entry stays there.
LEMMA SpotsGrow ==
    ASSUME map' = map, entry \in Nat, entry' \in Nat, entry' >= entry
    PROVE  Spots \subseteq Spots'
<1> SUFFICES ASSUME NEW f \in Spots PROVE f \in Spots'
  BY ZenonT(60)
<1>1. PICK e \in Available : e < entry /\ Usable(e) /\ Holds(e, f)
  BY ZenonT(60) DEF Spots
<1>2. e \in Available' /\ Usable(e)' /\ Holds(e, f)'
  BY <1>1, SameMap, ZenonT(60)
<1>3. e < entry'
  BY <1>1 DEF Available
<1>4. f \in Nat /\ f >= RegionStart
  BY ZenonT(60) DEF Spots
<1> QED BY <1>2, <1>3, <1>4, ZenonT(60) DEF Spots

\* A step that moves no frame keeps them inside and apart.
LEMMA FramesKept ==
    ASSUME IInv, UNCHANGED <<map, stack, held, entry>>
    PROVE  AllInside' /\ AllApart'
<1>1. Spots \subseteq Spots'
  BY SpotsGrow DEF IInv, Types
<1>2. AllInside'
  BY <1>1, SameMap, ZenonT(60) DEF IInv, AllInside
<1>3. AllApart'
  BY SameMap, ZenonT(60) DEF IInv, AllApart
<1> QED BY <1>2, <1>3, ZenonT(60)

\* Frames of entries that do not overlap are apart.
LEMMA EntriesApart ==
    ASSUME Types, MapApart, NEW d \in Available, NEW e \in Available, d # e,
           NEW f \in Nat, NEW g \in Nat, Holds(d, f), Holds(e, g)
    PROVE  Apart(f, g) /\ Apart(g, f)
<1>1. End(d) <= Start(e) \/ End(e) <= Start(d)
  BY ZenonT(60) DEF MapApart
<1>2. /\ Start(d) \in Nat /\ End(d) \in Nat /\ Start(e) \in Nat /\ End(e) \in Nat
  <2>1. d \in 1 .. Len(map.entries) /\ e \in 1 .. Len(map.entries) /\ Word \in Nat
    BY FrameStackAssumption, ZenonT(60) DEF Available
  <2>2. /\ Start(d) \in 0 .. Word - 1 /\ End(d) \in 0 .. Word - 1
        /\ Start(e) \in 0 .. Word - 1 /\ End(e) \in 0 .. Word - 1
    BY <2>1, EntryFacts, ZenonT(60)
  <2> QED BY <2>1, <2>2
<1>3. /\ Start(d) <= f /\ f + Width <= End(d)
      /\ Start(e) <= g /\ g + Width <= End(e)
  BY ZenonT(60) DEF Holds
<1>4. Width \in Nat
  BY FrameStackAssumption DEF Width
<1>5. f + Width <= g \/ g + Width <= f
  BY <1>1, <1>2, <1>3, <1>4
<1> QED BY <1>5, ZenonT(60) DEF Apart

\* A turn of the scan adds frames of one more entry.
LEMMA ScanIInv == ASSUME IInv, scan_entry PROVE IInv'
<1> DEFINE n == Len(stack)
           new == Pushed(entry)
<1>1. /\ pc = "scan" /\ entry <= Len(map.entries) /\ entry' = entry + 1
      /\ UNCHANGED <<map, pc, total_frames_available, region, held>>
      /\ stack' = IF Usable(entry) /\ Meets(entry) THEN stack \o new ELSE stack
  BY ZenonT(60) DEF scan_entry
<1>2. /\ Types /\ n \in Nat /\ required \in Nat /\ entry \in Nat \ {0}
      /\ Len(held) = 0 /\ \A i \in 1 .. 0 : FALSE
  BY <1>1, RequiredPositive DEF IInv, Types, Counted
<1>3. map.entries \in Seq([addr : Nat, len : Nat, available : BOOLEAN])
  BY <1>2, FrameStackAssumption, ZenonT(60) DEF Types
<1>4. entry \in 1 .. Len(map.entries) /\ entry < entry' /\ entry' \in Nat \ {0} /\ entry' >= entry
  BY <1>1, <1>2, <1>3
<1>5. Spots \subseteq Spots'
  BY <1>1, <1>2, <1>4, SpotsGrow, ZenonT(60)
<1>6. Counted'
  BY <1>1, ZenonT(60) DEF IInv, Counted
<1>7. CASE ~ (Usable(entry) /\ Meets(entry))
  <2>1. stack' = stack
    BY <1>1, <1>7, ZenonT(60)
  <2>2. Types'
    <3>1. pc' = pc /\ map' = map /\ region' = region /\ held' = held
      BY <1>1, ZenonT(60)
    <3> QED BY <1>2, <1>4, <2>1, <3>1, ZenonT(60) DEF Types
  <2>3. AllInside'
    BY <1>1, <1>5, <2>1, SameMap, ZenonT(60) DEF IInv, AllInside
  <2>4. AllApart'
    BY <1>1, <2>1, SameMap, ZenonT(60) DEF IInv, AllApart
  <2> QED BY <1>6, <2>2, <2>3, <2>4, ZenonT(60) DEF IInv
<1>8. CASE Usable(entry) /\ Meets(entry)
  <2>1. entry \in Available /\ Usable(entry)
    BY <1>4, <1>8, ZenonT(60) DEF Usable, Available
  <2>2. /\ new \in Seq(0 .. Word - 1) /\ Len(new) <= required - n
        /\ Below(entry) =>
             /\ \A i \in 1 .. Len(new) : RegionStart <= new[i] /\ Holds(entry, new[i])
             /\ \A i, j \in 1 .. Len(new) : i # j => Apart(new[i], new[j])
    BY <1>2, <2>1, PushedFacts, ZenonT(60)
  <2> HIDE DEF n, new
  <2>3. stack' = stack \o new /\ stack \in Seq(0 .. Word - 1)
    BY <1>1, <1>2, <1>8, ZenonT(60) DEF Types
  <2>4. /\ stack' \in Seq(0 .. Word - 1) /\ Len(stack') = n + Len(new) /\ Len(new) \in Nat
        /\ \A i \in 1 .. n : stack'[i] = stack[i]
        /\ \A i \in n + 1 .. n + Len(new) : stack'[i] = new[i - n]
    <3>1. Len(new) \in Nat
      BY <2>2
    <3> QED BY <2>2, <2>3, <3>1, Concatenated, ZenonT(60) DEF n
  <2>5. \A i \in n + 1 .. n + Len(new) : i - n \in 1 .. Len(new)
    BY <1>2, <2>4
  <2>6. \A i \in 1 .. Len(stack') : i \in 1 .. n \/ i \in n + 1 .. n + Len(new)
    BY <1>2, <2>4
  <2>7. Types'
    <3>1. Len(stack') <= required
      BY <1>2, <2>2, <2>4
    <3>2. pc' = pc /\ map' = map /\ region' = region /\ held' = held
      BY <1>1, ZenonT(60)
    <3> QED BY <1>2, <1>4, <2>4, <3>1, <3>2, ZenonT(60) DEF Types
  <2>8. ASSUME MapBelow, NEW i \in 1 .. Len(new)
        PROVE  new[i] \in Spots' /\ new[i] \in Nat /\ Holds(entry, new[i])
    <3>1. Below(entry)
      BY <2>1, <2>8, ZenonT(60) DEF MapBelow
    <3>2. RegionStart <= new[i] /\ Holds(entry, new[i])
      BY <2>2, <3>1, ZenonT(60)
    <3>3. new[i] \in 0 .. Word - 1
      BY <2>2, Members, ZenonT(60)
    <3>4. new[i] \in Nat /\ new[i] >= RegionStart
      BY <3>2, <3>3, FrameStackAssumption
    <3>5. PICK e \in Available, g \in Nat : e = entry /\ g = new[i]
      BY <2>1, <3>4, ZenonT(60)
    <3>6. e \in Available' /\ Usable(e)' /\ Holds(e, g)' /\ e < entry' /\ g >= RegionStart
      BY <1>1, <1>4, <2>1, <3>2, <3>4, <3>5, SameMap, ZenonT(60)
    <3>7. g \in Spots'
      BY <3>6, ZenonT(60) DEF Spots
    <3> QED BY <3>2, <3>4, <3>5, <3>7, ZenonT(60)
  <2>9. AllInside'
    <3>1. ASSUME MapBelow PROVE \A i \in 1 .. Len(stack') : stack'[i] \in Spots'
      <4>1. \A i \in 1 .. n : stack[i] \in Spots
        BY <3>1, ZenonT(60) DEF IInv, AllInside, n
      <4> QED BY <1>5, <2>4, <2>5, <2>6, <2>8, <3>1, <4>1, ZenonT(60)
    <3>2. \A i \in 1 .. Len(held') : FALSE
      BY <1>1, <1>2, ZenonT(60)
    <3> QED BY <1>1, <3>1, <3>2, SameMap, ZenonT(60) DEF AllInside
  <2>10. AllApart'
    <3>1. ASSUME MapBelow, MapApart,
                 NEW i \in 1 .. Len(stack'), NEW j \in 1 .. Len(stack'), i # j
          PROVE  Apart(stack'[i], stack'[j])
      <4>1. CASE i \in 1 .. n /\ j \in 1 .. n
        BY <2>4, <3>1, <4>1, ZenonT(60) DEF IInv, AllApart, n
      <4>2. CASE i \in n + 1 .. n + Len(new) /\ j \in n + 1 .. n + Len(new)
        <5>1. i - n # j - n
          BY <1>2, <2>4, <3>1, <4>2
        <5>2. Below(entry)
          BY <2>1, <3>1, ZenonT(60) DEF MapBelow
        <5> QED BY <2>2, <2>4, <2>5, <4>2, <5>1, <5>2, ZenonT(60)
      <4>3. ASSUME NEW a \in 1 .. n, NEW c \in n + 1 .. n + Len(new)
            PROVE  Apart(stack'[a], stack'[c]) /\ Apart(stack'[c], stack'[a])
        <5>1. stack'[a] = stack[a] /\ stack[a] \in Spots
          BY <2>4, <3>1, ZenonT(60) DEF IInv, AllInside, n
        <5>2. PICK g \in Nat : g = stack'[c] /\ Holds(entry, g)
          BY <2>4, <2>5, <2>8, <3>1, ZenonT(60)
        <5>3. PICK d \in Available : d < entry /\ Holds(d, stack[a])
          BY <5>1, ZenonT(60) DEF Spots
        <5>4. d # entry /\ stack[a] \in Nat
          <6>1. d # entry
            BY <1>2, <5>3 DEF Available
          <6> QED BY <5>1, <6>1, ZenonT(60) DEF Spots
        <5> QED BY <1>2, <2>1, <3>1, <5>1, <5>2, <5>3, <5>4, EntriesApart, ZenonT(60)
      <4> QED BY <2>6, <4>1, <4>2, <4>3, ZenonT(60)
    <3>2. \A i \in 1 .. Len(held') : FALSE
      BY <1>1, <1>2, ZenonT(60)
    <3> QED BY <1>1, <3>1, <3>2, SameMap, ZenonT(60) DEF AllApart
  <2> QED BY <1>6, <2>7, <2>9, <2>10, ZenonT(60) DEF IInv
<1> QED BY <1>7, <1>8, ZenonT(60)

\* An allocation moves the top of the stack to the caller.
LEMMA AllocIInv == ASSUME IInv, stack_alloc_frame PROVE IInv'
<1> DEFINE n == Len(stack)
           m == Len(held)
           top == stack[n]
<1>1. /\ pc = "ready" /\ n > 0 /\ held' = Append(held, top)
      /\ stack' = SubSeq(stack, 1, n - 1)
      /\ region' = [available |-> region.available - 1, in_use |-> region.in_use + 1]
      /\ UNCHANGED <<map, pc, total_frames_available, entry>>
  BY ZenonT(60) DEF stack_alloc_frame, Popped
<1>2. /\ n \in Nat /\ m \in Nat /\ n \in 1 .. n /\ top \in 0 .. Word - 1
      /\ stack \in Seq(0 .. Word - 1) /\ held \in Seq(0 .. Word - 1)
  <2>1. stack \in Seq(0 .. Word - 1) /\ held \in Seq(0 .. Word - 1)
    BY ZenonT(60) DEF IInv, Types
  <2>2. n \in Nat /\ m \in Nat
    BY <2>1, Members, ZenonT(60)
  <2>3. n \in 1 .. n
    BY <1>1, <2>2
  <2> QED BY <2>1, <2>2, <2>3, Members, ZenonT(60)
<1>3. /\ stack' \in Seq(0 .. Word - 1) /\ Len(stack') = n - 1 /\ n - 1 \in Nat
      /\ \A i \in 1 .. n - 1 : stack'[i] = stack[i] /\ i \in 1 .. n /\ i # n
  <2>1. n = Len(stack) /\ n - 1 \in 0 .. n /\ n - 1 \in Nat
    BY <1>2
  <2>2. \A i \in 1 .. n - 1 : i \in 1 .. n /\ i # n
    BY <1>2
  <2> HIDE DEF n
  <2>3. PICK l \in 0 .. Len(stack) : l = n - 1
    BY <2>1, ZenonT(60)
  <2>4. /\ SubSeq(stack, 1, l) \in Seq(0 .. Word - 1) /\ Len(SubSeq(stack, 1, l)) = l
        /\ \A i \in 1 .. l : SubSeq(stack, 1, l)[i] = stack[i]
    BY <1>2, Shortened, ZenonT(60)
  <2> QED BY <1>1, <2>1, <2>2, <2>3, <2>4, ZenonT(60)
<1>4. /\ held' \in Seq(0 .. Word - 1) /\ Len(held') = m + 1 /\ held'[m + 1] = top
      /\ \A i \in 1 .. m : held'[i] = held[i]
      /\ \A i \in 1 .. m + 1 : i \in 1 .. m \/ i = m + 1
  <2>1. held' = Append(held, top)
    BY <1>1, ZenonT(60)
  <2> HIDE DEF top
  <2> QED BY ONLY <1>2, <2>1
<1> HIDE DEF n, m, top
<1>5. /\ region.available = n /\ region.in_use = m /\ n + m = required
      /\ n <= required /\ required \in Nat
  BY <1>1, RequiredPositive, ZenonT(60) DEF IInv, Types, Counted, n, m
<1>6. region' = [available |-> n - 1, in_use |-> m + 1]
  BY <1>1, <1>5, ZenonT(60)
<1>7. Types'
  <2>1. n - 1 <= required /\ region' \in [available : Int, in_use : Int]
    BY <1>2, <1>5, <1>6
  <2> QED BY <1>1, <1>3, <1>4, <2>1, ZenonT(60) DEF IInv, Types
<1>8. Counted'
  <2>1. (n - 1) + (m + 1) = required
    BY <1>2, <1>5
  <2>2. region'.available = n - 1 /\ region'.in_use = m + 1
    BY <1>6, ZenonT(60)
  <2> QED BY <1>1, <1>3, <1>4, <2>1, <2>2, ZenonT(60) DEF Counted
<1>9. AllInside'
  <2>1. Spots \subseteq Spots'
    BY <1>1, SpotsGrow DEF IInv, Types
  <2> SUFFICES ASSUME MapBelow
               PROVE  /\ \A i \in 1 .. n - 1 : stack'[i] \in Spots'
                      /\ \A i \in 1 .. m + 1 : held'[i] \in Spots'
    BY <1>1, <1>3, <1>4, SameMap, ZenonT(60) DEF AllInside
  <2>2. /\ \A i \in 1 .. n : stack[i] \in Spots
        /\ \A i \in 1 .. m : held[i] \in Spots
    BY ZenonT(60) DEF IInv, AllInside, n, m
  <2>3. top \in Spots
    BY <1>2, <2>2, ZenonT(60) DEF top
  <2> QED BY <1>3, <1>4, <2>1, <2>2, <2>3, ZenonT(60)
<1>10. AllApart'
  <2> SUFFICES ASSUME MapBelow, MapApart
               PROVE  /\ \A i, j \in 1 .. n - 1 : i # j => Apart(stack'[i], stack'[j])
                      /\ \A i \in 1 .. n - 1 : \A j \in 1 .. m + 1 : Apart(stack'[i], held'[j])
                      /\ \A i, j \in 1 .. m + 1 : i # j => Apart(held'[i], held'[j])
    BY <1>1, <1>3, <1>4, SameMap, ZenonT(60) DEF AllApart
  <2>1. /\ \A i, j \in 1 .. n : i # j => Apart(stack[i], stack[j])
        /\ \A i \in 1 .. n : \A j \in 1 .. m : Apart(stack[i], held[j])
        /\ \A i, j \in 1 .. m : i # j => Apart(held[i], held[j])
    BY ZenonT(60) DEF IInv, AllApart, n, m
  <2>2. \A i \in 1 .. n - 1 : Apart(stack[i], top)
    BY <1>2, <1>3, <2>1, ZenonT(60) DEF top
  <2>3. \A j \in 1 .. m : Apart(top, held[j]) /\ Apart(held[j], top)
    BY <1>2, <2>1, ZenonT(60) DEF top, Apart
  <2>4. \A i, j \in 1 .. n - 1 : i # j => Apart(stack'[i], stack'[j])
    BY <1>3, <2>1, ZenonT(60)
  <2>5. \A i \in 1 .. n - 1 : \A j \in 1 .. m + 1 : Apart(stack'[i], held'[j])
    BY <1>3, <1>4, <2>1, <2>2, ZenonT(60)
  <2>6. \A i, j \in 1 .. m + 1 : i # j => Apart(held'[i], held'[j])
    BY <1>4, <2>1, <2>3, ZenonT(60)
  <2> QED BY <2>4, <2>5, <2>6, ZenonT(60)
<1> QED BY <1>7, <1>8, <1>9, <1>10, ZenonT(60) DEF IInv

\* A frame given back goes to the top of the stack, which has room for it:
\* the frame was counted as in use.
LEMMA FreeIInv == ASSUME IInv, NEW k \in 1 .. Len(held), stack_free_frame(k) PROVE IInv'
<1> DEFINE n == Len(stack)
           m == Len(held)
           f == held[k]
<1>1. /\ pc = "ready" /\ stack' = Append(stack, f)
      /\ held' = SubSeq(held, 1, k - 1) \o SubSeq(held, k + 1, Len(held))
      /\ region' = [available |-> region.available + 1, in_use |-> region.in_use - 1]
      /\ UNCHANGED <<map, pc, total_frames_available, entry>>
  BY ZenonT(60) DEF stack_free_frame
<1>2. /\ n \in Nat /\ m \in Nat /\ k \in 1 .. m /\ f \in 0 .. Word - 1
      /\ stack \in Seq(0 .. Word - 1) /\ held \in Seq(0 .. Word - 1)
  BY Members, ZenonT(60) DEF IInv, Types
<1>3. /\ stack' \in Seq(0 .. Word - 1) /\ Len(stack') = n + 1 /\ stack'[n + 1] = f
      /\ \A i \in 1 .. n : stack'[i] = stack[i]
      /\ \A i \in 1 .. n + 1 : i \in 1 .. n \/ i = n + 1
  <2>1. stack' = Append(stack, f)
    BY <1>1, ZenonT(60)
  <2> HIDE DEF f
  <2> QED BY ONLY <1>2, <2>1
<1>4. /\ held' \in Seq(0 .. Word - 1) /\ Len(held') = m - 1 /\ m - 1 \in Nat
      /\ \A i \in 1 .. m - 1 : held'[i] = held[Skip(k, i)]
  <2>1. held' = Without(held, k)
    BY <1>1, ZenonT(60) DEF Without
  <2>2. /\ Without(held, k) \in Seq(0 .. Word - 1) /\ Len(Without(held, k)) = m - 1
        /\ m - 1 \in Nat /\ \A i \in 1 .. m - 1 : Without(held, k)[i] = held[Skip(k, i)]
    BY <1>2, Removed, ZenonT(60)
  <2> QED BY <2>1, <2>2, ZenonT(60)
<1> HIDE DEF n, m, f
<1>5. /\ \A i \in 1 .. m - 1 : Skip(k, i) \in 1 .. m /\ Skip(k, i) # k
      /\ \A i, j \in 1 .. m - 1 : Skip(k, i) = Skip(k, j) => i = j
  BY <1>2, Skipped, ZenonT(60)
<1>6. region.available = n /\ region.in_use = m /\ n + m = required /\ required \in Nat
  BY <1>1, RequiredPositive, ZenonT(60) DEF IInv, Types, Counted, n, m
<1>7. region' = [available |-> n + 1, in_use |-> m - 1]
  BY <1>1, <1>6, ZenonT(60)
<1>8. Types'
  <2>1. n + 1 <= required /\ region' \in [available : Int, in_use : Int]
    BY <1>2, <1>4, <1>6, <1>7
  <2> QED BY <1>1, <1>3, <1>4, <2>1, ZenonT(60) DEF IInv, Types
<1>9. Counted'
  <2>1. (n + 1) + (m - 1) = required
    BY <1>2, <1>6
  <2>2. region'.available = n + 1 /\ region'.in_use = m - 1
    BY <1>7, ZenonT(60)
  <2> QED BY <1>1, <1>3, <1>4, <2>1, <2>2, ZenonT(60) DEF Counted
<1>10. AllInside'
  <2>1. Spots \subseteq Spots'
    BY <1>1, SpotsGrow DEF IInv, Types
  <2> SUFFICES ASSUME MapBelow
               PROVE  /\ \A i \in 1 .. n + 1 : stack'[i] \in Spots'
                      /\ \A i \in 1 .. m - 1 : held'[i] \in Spots'
    BY <1>1, <1>3, <1>4, SameMap, ZenonT(60) DEF AllInside
  <2>2. /\ \A i \in 1 .. n : stack[i] \in Spots
        /\ \A i \in 1 .. m : held[i] \in Spots
    BY ZenonT(60) DEF IInv, AllInside, n, m
  <2>3. f \in Spots
    BY <1>2, <2>2, ZenonT(60) DEF f
  <2> QED BY <1>3, <1>4, <1>5, <2>1, <2>2, <2>3, ZenonT(60)
<1>11. AllApart'
  <2> SUFFICES ASSUME MapBelow, MapApart
               PROVE  /\ \A i, j \in 1 .. n + 1 : i # j => Apart(stack'[i], stack'[j])
                      /\ \A i \in 1 .. n + 1 : \A j \in 1 .. m - 1 : Apart(stack'[i], held'[j])
                      /\ \A i, j \in 1 .. m - 1 : i # j => Apart(held'[i], held'[j])
    BY <1>1, <1>3, <1>4, SameMap, ZenonT(60) DEF AllApart
  <2>1. /\ \A i, j \in 1 .. n : i # j => Apart(stack[i], stack[j])
        /\ \A i \in 1 .. n : \A j \in 1 .. m : Apart(stack[i], held[j])
        /\ \A i, j \in 1 .. m : i # j => Apart(held[i], held[j])
    BY ZenonT(60) DEF IInv, AllApart, n, m
  <2>2. \A i \in 1 .. n : Apart(stack[i], f) /\ Apart(f, stack[i])
    BY <1>2, <2>1, ZenonT(60) DEF f, Apart
  <2>3. \A i \in 1 .. m - 1 : Apart(f, held'[i])
    BY <1>2, <1>4, <1>5, <2>1, ZenonT(60) DEF f
  <2>4. \A i, j \in 1 .. n + 1 : i # j => Apart(stack'[i], stack'[j])
    BY <1>3, <2>1, <2>2, ZenonT(60)
  <2>5. \A i \in 1 .. n + 1 : \A j \in 1 .. m - 1 : Apart(stack'[i], held'[j])
    BY <1>3, <1>4, <1>5, <2>1, <2>3, ZenonT(60)
  <2>6. \A i, j \in 1 .. m - 1 : i # j => Apart(held'[i], held'[j])
    BY <1>4, <1>5, <2>1, ZenonT(60)
  <2> QED BY <2>4, <2>5, <2>6, ZenonT(60)
<1> QED BY <1>8, <1>9, <1>10, <1>11, ZenonT(60) DEF IInv

\* Every step keeps the inductive invariant.
LEMMA NextIInv == IInv /\ [Next]_vars => IInv'
<1> SUFFICES ASSUME IInv, [Next]_vars PROVE IInv'
  BY ZenonT(60)
<1>1. CASE init_free_memory
  <2>1. /\ pc = "start" /\ pc' \in {"panic", "reserve"}
        /\ UNCHANGED <<map, entry, stack, region, held>>
    BY <1>1, ZenonT(60) DEF init_free_memory
  <2>2. Types' /\ Counted'
    BY <2>1, ZenonT(60) DEF IInv, Types, Counted
  <2> QED BY <2>1, <2>2, FramesKept, ZenonT(60) DEF IInv
<1>2. CASE reserve_metadata_space
  <2>1. /\ pc = "reserve" /\ pc' \in {"panic", "scan"}
        /\ region' = [available |-> 0, in_use |-> 0]
        /\ UNCHANGED <<map, entry, stack, held>>
    BY <1>2, ZenonT(60) DEF reserve_metadata_space
  <2>2. Types'
    BY <2>1 DEF IInv, Types
  <2>3. Counted'
    <3>1. held' = held /\ held = <<>> /\ region'.in_use = 0 /\ pc' # "ready"
      BY <2>1, ZenonT(60) DEF IInv, Counted
    <3>2. Len(held') = 0
      BY <3>1
    <3> QED BY <3>1, <3>2, ZenonT(60) DEF Counted
  <2> QED BY <2>1, <2>2, <2>3, FramesKept, ZenonT(60) DEF IInv
<1>3. CASE scan_end
  <2>1. /\ pc = "scan" /\ UNCHANGED <<map, entry, stack, held>> /\ held = <<>>
        /\ \/ pc' = "panic" /\ region' = region
           \/ /\ pc' = "ready" /\ Len(stack) = required
              /\ region' = [region EXCEPT !.available = Len(stack)]
    BY <1>3, ZenonT(60) DEF scan_end, IInv, Counted
  <2>2. /\ Len(stack) \in Nat /\ region \in [available : Int, in_use : Int]
        /\ required \in Nat /\ Len(held) = 0
    BY <2>1, RequiredPositive DEF IInv, Types
  <2>3. Types'
    BY <2>1, <2>2 DEF IInv, Types
  <2>4. Counted'
    <3>1. region.in_use = 0 /\ region'.in_use = 0
      BY <2>1, <2>2, ZenonT(60) DEF IInv, Counted
    <3> QED BY <2>1, <2>2, <3>1 DEF Counted
  <2> QED BY <2>1, <2>3, <2>4, FramesKept, ZenonT(60) DEF IInv
<1>4. CASE UNCHANGED vars
  <2>1. Types' /\ Counted'
    BY <1>4, ZenonT(60) DEF vars, IInv, Types, Counted
  <2> QED BY <1>4, <2>1, FramesKept, ZenonT(60) DEF vars, IInv
<1> QED BY <1>1, <1>2, <1>3, <1>4, ScanIInv, AllocIInv, FreeIInv, ZenonT(60) DEF Next

-----------------------------------------------------------------------------
\* The region's counters count the frames on the stack and those handed out,
\* which make up the capacity, whatever the memory map and the order of calls;
\* no frame is there twice when the available entries of the map do not
\* overlap and end a page below the last address of a word.
THEOREM FramesAreConserved == Spec => []FramesConserved
<1>1. IInv => FramesConserved
  <2> SUFFICES ASSUME IInv, pc = "ready" PROVE FramesConserved
    BY ZenonT(60) DEF FramesConserved
  <2>1. /\ \A i \in 1 .. Len(stack) : stack[i] \in 0 .. Word - 1
        /\ \A i \in 1 .. Len(held) : held[i] \in 0 .. Word - 1
    BY Members, ZenonT(60) DEF IInv, Types
  <2>2. \A f \in 0 .. Word - 1 : ~ Apart(f, f)
    BY FrameStackAssumption DEF Apart, Width
  <2>3. ASSUME MapBelow, MapApart
        PROVE  /\ \A i, j \in 1 .. Len(stack) : stack[i] = stack[j] => i = j
               /\ \A i, j \in 1 .. Len(held) : held[i] = held[j] => i = j
               /\ \A i \in 1 .. Len(stack) : \A j \in 1 .. Len(held) : stack[i] # held[j]
    BY <2>1, <2>2, <2>3, ZenonT(60) DEF IInv, AllApart
  <2> QED BY <2>3, ZenonT(60) DEF IInv, Counted, FramesConserved
<1> QED BY <1>1, InitIInv, NextIInv, PTL DEF Spec

\* When the available entries end a page below the last address of a word,
\* every frame on the stack or handed out starts in one of them and above the
\* kernel, and it ends there too if that entry consists of whole pages.
THEOREM FramesAreUsable == Spec => []FramesUsable
<1>1. IInv => FramesUsable
  <2> SUFFICES ASSUME IInv, MapBelow,
                      NEW f \in {held[i] : i \in 1 .. Len(held)}
                                  \union {stack[i] : i \in 1 .. Len(stack)}
               PROVE  /\ f >= RegionStart
                      /\ \E e \in Available :
                           /\ Usable(e) /\ Start(e) <= f /\ f < End(e)
                           /\ Whole(e) => f + PAGE_SIZE <= End(e)
    BY ZenonT(60) DEF FramesUsable
  <2>1. f \in Spots
    BY ZenonT(60) DEF IInv, AllInside
  <2> QED BY <2>1, ZenonT(60) DEF Spots, Holds
<1> QED BY <1>1, InitIInv, NextIInv, PTL DEF Spec

-----------------------------------------------------------------------------
(* What init_free_memory counts *)

\* f holds the sums of w up to n.
AddsUp(w, n, f) ==
    /\ f \in [0 .. n -> Nat]
    /\ f[0] = 0
    /\ \A j \in 1 .. n : f[j] = f[j - 1] + w[j]

\* Sums exist.
LEMMA SumsExist ==
    ASSUME NEW n \in Nat, NEW w \in [1 .. n -> Nat]
    PROVE  \E f : AddsUp(w, n, f)
<1> DEFINE Bad == {k \in 0 .. n : ~ \E f : AddsUp(w, k, f)}
<1>0. n \in 0 .. n
  OBVIOUS
<1>1. SUFFICES ASSUME Bad # {} PROVE FALSE
  BY <1>0, <1>1, ZenonT(60)
<1>2. PICK k \in Bad : \A j \in Bad : k <= j
  <2>1. Bad \in SUBSET Nat
    OBVIOUS
  <2> HIDE DEF Bad
  <2> QED BY <1>1, <2>1, Least, ZenonT(60)
<1>3. k \in 0 .. n /\ ~ \E f : AddsUp(w, k, f)
  BY <1>2, ZenonT(60)
<1>4. k # 0
  <2>1. AddsUp(w, 0, [j \in 0 .. 0 |-> 0])
    BY DEF AddsUp
  <2> QED BY <1>3, <2>1, ZenonT(60)
<1>5. k - 1 \in 0 .. n /\ ~ (k <= k - 1)
  BY <1>3, <1>4
<1>6. PICK f : AddsUp(w, k - 1, f)
  BY <1>2, <1>5, ZenonT(60)
<1> DEFINE g == [j \in 0 .. k |-> IF j < k THEN f[j] ELSE f[k - 1] + w[k]]
<1>7. f[k - 1] + w[k] \in Nat
  BY <1>3, <1>4, <1>6 DEF AddsUp
<1>8. AddsUp(w, k, g)
  BY <1>3, <1>4, <1>6, <1>7 DEF AddsUp
<1> QED BY <1>3, <1>8, ZenonT(60)

\* The frames of an entry, as init_free_memory counts them.
Share(e) == IF Usable(e) THEN (map.entries[e].len \div PAGE_SIZE) % Word ELSE 0

\* The first loop of init_free_memory counts a number of frames.
LEMMA FramesCounted == ASSUME Types PROVE Frames[Len(map.entries)] \in Int
<1>1. PICK n \in Nat : /\ n = Len(map.entries)
                      /\ \A e \in 1 .. n : map.entries[e] \in [addr : Nat, len : Nat, available : BOOLEAN]
  <2>1. map.entries \in Seq([addr : Nat, len : Nat, available : BOOLEAN])
    BY FrameStackAssumption, ZenonT(60) DEF Types
  <2> QED BY <2>1, Members, ZenonT(60)
<1>2. \A e \in 1 .. n : Share(e) \in Nat
  <2>1. TAKE e \in 1 .. n
  <2>2. map.entries[e].len \in Nat /\ PAGE_SIZE \in Nat \ {0}
    BY <1>1, FrameStackAssumption, ZenonT(60)
  <2>3. map.entries[e].len \div PAGE_SIZE \in Nat
    BY <2>2, QuotientRemainder, ZenonT(60)
  <2>4. Word \in Nat \ {0}
    BY FrameStackAssumption
  <2>5. (map.entries[e].len \div PAGE_SIZE) % Word \in Nat
    BY <2>3, <2>4
  <2> QED BY <2>5, ZenonT(60) DEF Share
<1>3. PICK w : w = [e \in 1 .. n |-> Share(e)]
  BY Zenon
<1>4. w \in [1 .. n -> Nat]
  BY <1>2, <1>3, ZenonT(60)
<1> DEFINE IsCount(f) == f = [e \in 0 .. n |-> IF e = 0 THEN 0 ELSE f[e - 1] + Share(e)]
           IsSum(f) == f = [e \in 0 .. n |-> IF e = 0 THEN 0 ELSE f[e - 1] + w[e]]
<1>5. PICK f : AddsUp(w, n, f)
  BY <1>4, SumsExist, ZenonT(60)
<1>6. IsSum(f)
  BY ONLY <1>5, n \in Nat DEF AddsUp
<1>7. \A g : IsCount(g) <=> IsSum(g)
  <2>1. \A e \in 0 .. n : e # 0 => e \in 1 .. n
    OBVIOUS
  <2>2. \A e \in 0 .. n : e # 0 => w[e] = Share(e)
    BY <1>3, <2>1, ZenonT(60)
  <2>3. ASSUME NEW g
        PROVE  [e \in 0 .. n |-> IF e = 0 THEN 0 ELSE g[e - 1] + Share(e)]
                 = [e \in 0 .. n |-> IF e = 0 THEN 0 ELSE g[e - 1] + w[e]]
    BY <2>2, ZenonT(60)
  <2> QED BY <2>3, ZenonT(60)
<1>8. Frames = CHOOSE g : IsCount(g)
  BY <1>1, ZenonT(60) DEF Frames, Share
<1>9. PICK g : g = Frames /\ IsSum(g)
  <2>1. IsCount(Frames)
    BY <1>6, <1>7, <1>8, ZenonT(60)
  <2> QED BY <1>7, <2>1, ZenonT(60)
<1>10. g[n] \in Nat
  <2> DEFINE Bad == {j \in 0 .. n : g[j] \notin Nat}
  <2>1. g[0] = 0 /\ \A j \in 1 .. n : g[j] = g[j - 1] + w[j] /\ w[j] \in Nat
    BY ONLY <1>4, <1>9, n \in Nat
  <2>2. SUFFICES ASSUME Bad # {} PROVE FALSE
    BY <2>2
  <2>3. PICK k \in Bad : \A j \in Bad : k <= j
    <3>1. Bad \in SUBSET Nat
      OBVIOUS
    <3> HIDE DEF Bad
    <3> QED BY <2>2, <3>1, Least, ZenonT(60)
  <2>4. k \in 1 .. n /\ g[k] \notin Nat
    BY ONLY <2>1, <2>3, n \in Nat
  <2>5. k - 1 \in 0 .. n /\ ~ (k <= k - 1)
    BY ONLY <2>4, n \in Nat
  <2>6. g[k - 1] \in Nat
    BY <2>3, <2>5, ZenonT(60)
  <2> QED BY ONLY <2>1, <2>4, <2>6
<1> QED BY <1>1, <1>9, <1>10

\* What the type invariant adds to the inductive one: until the scan has ended
\* no frame is counted.
Uncounted ==
    /\ total_frames_available \in Nat
    /\ pc # "ready" => region.available = 0

LEMMA NextUncounted == IInv /\ Uncounted /\ [Next]_vars => Uncounted'
<1> SUFFICES ASSUME IInv, Uncounted, [Next]_vars PROVE Uncounted'
  BY ZenonT(60)
<1>1. CASE init_free_memory
  <2>1. pc = "start" /\ UNCHANGED region
    BY <1>1, ZenonT(60) DEF init_free_memory
  <2>2. region.available = 0
    BY <2>1, ZenonT(60) DEF Uncounted
  <2>3. total_frames_available' \in Nat
    <3>1. PICK c : c = Frames[Len(map.entries)]
      BY ZenonT(60)
    <3>2. c \in Int
      BY <3>1, FramesCounted, ZenonT(60) DEF IInv
    <3>3. PICK x \in Int : x = c - KernelFrames
      BY <3>2, FrameStackAssumption
    <3>4. x % Word \in Nat
      BY FrameStackAssumption
    <3>5. total_frames_available' = x % Word \/ total_frames_available' = total_frames_available
      BY <1>1, <3>1, <3>3, ZenonT(60) DEF init_free_memory
    <3> QED BY <3>4, <3>5, ZenonT(60) DEF Uncounted
  <2> QED BY <2>1, <2>2, <2>3, ZenonT(60) DEF Uncounted
<1>2. CASE reserve_metadata_space
  BY <1>2, ZenonT(60) DEF reserve_metadata_space, Uncounted
<1>3. CASE scan_entry
  BY <1>3, ZenonT(60) DEF scan_entry, Uncounted
<1>4. CASE scan_end
  BY <1>4, ZenonT(60) DEF scan_end, Uncounted
<1>5. CASE stack_alloc_frame
  BY <1>5, ZenonT(60) DEF stack_alloc_frame, Uncounted
<1>6. ASSUME NEW k \in 1 .. Len(held), stack_free_frame(k) PROVE Uncounted'
  BY <1>6, ZenonT(60) DEF stack_free_frame, Uncounted
<1>7. CASE UNCHANGED vars
  BY <1>7, ZenonT(60) DEF vars, Uncounted
<1> QED BY <1>1, <1>2, <1>3, <1>4, <1>5, <1>6, <1>7, ZenonT(60) DEF Next

\* Every variable of the allocator keeps its type: the stack never outgrows the
\* words reserve_metadata_space set aside for it, neither counter of the region
\* goes below zero, however often frames are taken and given back, and the
\* unsigned total is a number even where the kernel is larger than the memory.
THEOREM FrameTypes == Spec => []TypeOK
<1>1. Init => Uncounted
  BY DEF Init, Uncounted
<1>2. IInv /\ Uncounted => TypeOK
  <2> SUFFICES ASSUME IInv, Uncounted PROVE TypeOK
    BY ZenonT(60)
  <2>1. region.in_use \in Nat
    <3>1. held \in Seq(0 .. Word - 1) /\ region.in_use = Len(held)
      BY ZenonT(60) DEF IInv, Types, Counted
    <3> QED BY <3>1
  <2>2. region.available \in Nat
    <3>1. Len(stack) \in Nat
      BY DEF IInv, Types
    <3> QED BY <3>1 DEF IInv, Counted, Uncounted
  <2>3. region \in [available : Nat, in_use : Nat]
    BY <2>1, <2>2, ZenonT(60) DEF IInv, Types
  <2> QED BY <2>3, ZenonT(60) DEF IInv, Types, Uncounted, TypeOK
<1> QED BY <1>1, <1>2, InitIInv, NextIInv, NextUncounted, PTL DEF Spec

-----------------------------------------------------------------------------
\* Frames with a page of their own have disjoint blocks, and blocks name
\* frames.
LEMMA BlocksDisjoint ==
    ASSUME MapWhole, NEW f \in 0 .. Word - 1, NEW g \in 0 .. Word - 1, Apart(f, g)
    PROVE  Block(f) \intersect Block(g) = {} /\ Block(f) # Block(g)
<1>1. PAGE_SIZE \in Nat \ {0} /\ Word \in Nat /\ Width = PAGE_SIZE
  BY FrameStackAssumption, ZenonT(60) DEF Width
<1>2. f \in Nat /\ g \in Nat /\ (f + PAGE_SIZE <= g \/ g + PAGE_SIZE <= f)
  BY <1>1 DEF Apart
<1>3. f \in Block(f) /\ f \notin Block(g)
  BY <1>1, <1>2 DEF Block
<1>4. \A x \in Block(f) : x \notin Block(g)
  BY <1>1, <1>2 DEF Block
<1> QED BY <1>3, <1>4, ZenonT(60)

\* The blocks in use.
Used == {Block(held[i]) : i \in 1 .. Len(held)}

\* Every step of the frame stack is a step of the abstract allocator or
\* leaves its state alone.
LEMMA StepRefines ==
    IInv /\ [Next]_vars
      => [BA!Next]_<<{Block(held[i]) : i \in 1 .. Len(held)}, region.in_use, Plain>>
<1> SUFFICES ASSUME IInv, [Next]_vars
             PROVE  [BA!Next]_<<Used, region.in_use, Plain>>
  BY ZenonT(60) DEF Used
<1>1. map' = map
  BY ZenonT(60) DEF Next, vars, init_free_memory, reserve_metadata_space, scan_entry,
                    scan_end, stack_alloc_frame, stack_free_frame
<1>2. Plain' <=> Plain
  BY <1>1, SameMap, ZenonT(60) DEF Plain
<1>3. CASE ~ Plain
  <2>1. ~ Plain'
    BY <1>2, <1>3, ZenonT(60)
  <2> QED BY <2>1 DEF BA!Next
<1>4. ASSUME Plain, stack_alloc_frame PROVE BA!Next
  <2> DEFINE top == stack[Len(stack)]
             m == Len(held)
  <2>1. /\ held' = Append(held, top) /\ region'.in_use = region.in_use + 1
        /\ Len(stack) \in 1 .. Len(stack)
    BY <1>4 DEF stack_alloc_frame, IInv, Types
  <2>2. /\ top \in 0 .. Word - 1 /\ held \in Seq(0 .. Word - 1) /\ m \in Nat
        /\ \A i \in 1 .. m : held[i] \in 0 .. Word - 1
    BY <2>1, Members, ZenonT(60) DEF IInv, Types
  <2>3. \A i \in 1 .. m : Apart(top, held[i])
    BY <1>4, <2>1, ZenonT(60) DEF IInv, AllApart, Plain
  <2> HIDE DEF top
  <2>4. /\ Len(held') = m + 1 /\ held'[m + 1] = top
        /\ \A i \in 1 .. m : held'[i] = held[i]
        /\ \A i \in 1 .. m + 1 : i \in 1 .. m \/ i = m + 1
        /\ \A i \in 1 .. m : i \in 1 .. m + 1
        /\ m + 1 \in 1 .. m + 1
    BY ONLY <2>1, <2>2
  <2> HIDE DEF m
  <2>5. \A o \in Used : Block(top) \intersect o = {}
    BY <1>4, <2>2, <2>3, BlocksDisjoint, ZenonT(60) DEF Used, Plain, m
  <2>6. Used' = Used \union {Block(top)}
    <3>1. \A i \in 1 .. m : Block(held'[i]) = Block(held[i])
      BY <2>4, ZenonT(60)
    <3>2. Block(held'[m + 1]) = Block(top)
      BY <2>4, ZenonT(60)
    <3>3. Used' = {Block(held'[i]) : i \in 1 .. m + 1}
      BY <2>4, ZenonT(60) DEF Used, Block
    <3> QED BY <2>4, <3>1, <3>2, <3>3, ZenonT(60) DEF Used, m
  <2>7. Block(top) \in {Block(a) : a \in 0 .. Word - 1}
    BY <2>2, ZenonT(60)
  <2>8. BA!Alloc(Block(top))
    BY <2>1, <2>5, <2>6 DEF BA!Alloc, Used
  <2> QED BY <1>2, <1>4, <2>7, <2>8 DEF BA!Next
<1>5. ASSUME Plain, NEW k \in 1 .. Len(held), stack_free_frame(k) PROVE BA!Next
  <2> DEFINE f == held[k]
             m == Len(held)
  <2>1. /\ region'.in_use = region.in_use - 1
        /\ held' = SubSeq(held, 1, k - 1) \o SubSeq(held, k + 1, Len(held))
    BY <1>5, ZenonT(60) DEF stack_free_frame
  <2>2. /\ held \in Seq(0 .. Word - 1) /\ m \in Nat /\ k \in 1 .. m
        /\ \A i \in 1 .. m : held[i] \in 0 .. Word - 1
    BY Members, ZenonT(60) DEF IInv, Types
  <2>3. \A i \in 1 .. m : i # k => Apart(held[i], f)
    BY <1>5, ZenonT(60) DEF IInv, AllApart, Plain
  <2>4. \A i \in 1 .. m : i # k => Block(held[i]) # Block(f)
    BY <1>5, <2>2, <2>3, BlocksDisjoint, ZenonT(60) DEF Plain
  <2>5. Len(held') = m - 1 /\ \A i \in 1 .. m - 1 : held'[i] = held[Skip(k, i)]
    <3>1. held' = Without(held, k)
      BY <2>1, ZenonT(60) DEF Without
    <3>2. /\ Len(Without(held, k)) = m - 1
          /\ \A i \in 1 .. m - 1 : Without(held, k)[i] = held[Skip(k, i)]
      BY <2>2, Removed, ZenonT(60)
    <3> QED BY <3>1, <3>2, ZenonT(60)
  <2>6. /\ \A i \in 1 .. m - 1 : Skip(k, i) \in 1 .. m /\ Skip(k, i) # k
        /\ \A j \in 1 .. m : j # k => \E i \in 1 .. m - 1 : Skip(k, i) = j
    BY <2>2, Skipped, ZenonT(60)
  <2> HIDE DEF m
  <2>7. Used' = Used \ {Block(f)}
    <3>1. Used' = {Block(held'[i]) : i \in 1 .. m - 1}
      BY <2>5, ZenonT(60) DEF Used, Block
    <3>2. \A i \in 1 .. m - 1 : Block(held'[i]) = Block(held[Skip(k, i)])
      BY <2>5, ZenonT(60)
    <3>3. Used = {Block(held[i]) : i \in 1 .. m}
      BY ZenonT(60) DEF Used, m
    <3>4. ASSUME NEW b \in Used' PROVE b \in Used \ {Block(f)}
      <4>1. PICK i \in 1 .. m - 1 : b = Block(held[Skip(k, i)])
        BY <3>1, <3>2, ZenonT(60)
      <4> QED BY <2>4, <2>6, <3>3, <4>1, ZenonT(60)
    <3>5. ASSUME NEW b \in Used \ {Block(f)} PROVE b \in Used'
      <4>1. PICK j \in 1 .. m : b = Block(held[j])
        BY <3>3, ZenonT(60)
      <4>2. j # k
        BY <3>5, <4>1, ZenonT(60)
      <4>3. PICK i \in 1 .. m - 1 : Skip(k, i) = j
        BY <2>6, <4>2, ZenonT(60)
      <4> QED BY <3>1, <3>2, <4>1, <4>3, ZenonT(60)
    <3> QED BY <3>4, <3>5, ZenonT(60)
  <2>8. Block(f) \in Used /\ Block(f) \in {Block(a) : a \in 0 .. Word - 1}
    BY <2>2, ZenonT(60) DEF Used, m
  <2> HIDE DEF f
  <2>9. BA!Free(Block(f))
    BY <2>1, <2>7, <2>8, ZenonT(60) DEF BA!Free, Used
  <2> QED BY <1>2, <1>5, <2>8, <2>9 DEF BA!Next
<1>6. CASE init_free_memory \/ scan_entry \/ UNCHANGED vars
  <2>1. held' = held /\ region' = region
    BY <1>6, ZenonT(60) DEF init_free_memory, scan_entry, vars
  <2>2. Used' = Used
    BY <2>1, ZenonT(60) DEF Used, Block
  <2>3. Plain' = Plain
    BY <1>1, ZenonT(60) DEF Plain, MapBelow, MapApart, MapWhole, Available, Below, Start, End,
                            Whole, First
  <2> QED BY <2>1, <2>2, <2>3, ZenonT(60)
<1>7. CASE reserve_metadata_space \/ scan_end
  <2>1. held' = held /\ held = <<>> /\ region.in_use = Len(held)
    BY <1>7, ZenonT(60) DEF reserve_metadata_space, scan_end, IInv, Counted
  <2>2. region.in_use = 0
    BY <2>1
  <2>3. region'.in_use \in {0, region.in_use}
    BY <1>7 DEF reserve_metadata_space, scan_end, IInv, Types
  <2>4. Used' = Used
    BY <2>1, ZenonT(60) DEF Used, Block
  <2>5. Plain' = Plain
    BY <1>1, ZenonT(60) DEF Plain, MapBelow, MapApart, MapWhole, Available, Below, Start, End,
                            Whole, First
  <2> QED BY <2>2, <2>3, <2>4, <2>5, ZenonT(60)
<1> QED BY <1>3, <1>4, <1>5, <1>6, <1>7, ZenonT(60) DEF Next

\* The frame stack keeps an allocator's promise for every map whose available
\* entries do not overlap, end a page below the last address of a word and
\* consist of whole pages from the region on: a block it hands out overlaps none
\* in use, only a block in use is taken back, and no_frames_in_use counts the
\* blocks handed out.
THEOREM ImplementsAllocator == Spec => ImplementsBlockAllocator
<1>1. Init => BA!Init
  <2> SUFFICES ASSUME Init PROVE BA!Init
    BY ZenonT(60)
  <2>1. Len(held) = 0 /\ region.in_use = 0
    BY DEF Init
  <2>2. {Block(held[i]) : i \in 1 .. Len(held)} = {}
    BY <2>1
  <2>3. Plain \in BOOLEAN
    BY ZenonT(60) DEF Plain
  <2> QED BY <2>1, <2>2, <2>3, ZenonT(60) DEF BA!Init
<1> QED BY <1>1, InitIInv, NextIInv, StepRefines, PTL
      DEF Spec, ImplementsBlockAllocator, BA!Spec

-----------------------------------------------------------------------------
(* The words of a frame *)

\* Vectors with a gate, without the alignment check.
Vectors == (0 .. 47) \ {17}

\* The frame of struct irq_context for a program with registers r.
OnStack(k, r, number, code) ==
  /\ k[1] = r["ds"] /\ k[2] = r["edi"] /\ k[3] = r["esi"] /\ k[4] = r["ebp"]
  /\ k[6] = r["ebx"] /\ k[7] = r["edx"] /\ k[8] = r["ecx"] /\ k[9] = r["eax"]
  /\ k[10] = Num(number) /\ k[11] = code
  /\ k[12] = r["eip"] /\ k[13] = r["cs"] /\ k[14] = r["eflags"]
  /\ k[15] = r["esp"] /\ k[16] = r["ss"]

\* w is t behind s.
Joined(S, s, t, w) ==
  /\ w \in Seq(S) /\ Len(w) = Len(s) + Len(t)
  /\ \A i \in 1 .. Len(s) : w[i] = s[i]
  /\ \A i \in 1 .. Len(t) : w[Len(s) + i] = t[i]

LEMMA Catenation ==
  ASSUME NEW S, NEW s \in Seq(S), NEW t \in Seq(S)
  PROVE  Joined(S, s, t, s \o t)
BY DEF Joined

\* k is w turned around.
TurnedAround(S, w, k) ==
  /\ k \in Seq(S) /\ Len(k) = Len(w)
  /\ \A i \in 1 .. Len(w) : k[i] = w[(Len(w) - i) + 1]

\* Pushing words on an empty stack turns them around.
LEMMA PushOnEmpty ==
  ASSUME NEW S, NEW w \in Seq(S)
  PROVE  TurnedAround(S, w, Push(<<>>, w))
<1> DEFINE r == [i \in 1 .. Len(w) |-> w[(Len(w) - i) + 1]]
<1>1. r \in Seq(S) /\ Len(r) = Len(w)
  OBVIOUS
<1>2. \A i \in 1 .. Len(w) : r[i] = w[(Len(w) - i) + 1]
  BY ZenonT(60)
<1>3. <<>> \in Seq(S) /\ Len(<<>>) = 0
  OBVIOUS
<1> HIDE DEF r
<1>4. Joined(S, r, <<>>, r \o <<>>)
  BY <1>1, <1>3, Catenation, ZenonT(60)
<1>5. TurnedAround(S, w, r \o <<>>)
  BY <1>1, <1>2, <1>3, <1>4 DEF Joined, TurnedAround
<1> QED BY <1>5, ZenonT(60) DEF r, Push

\* The words the processor and the stub of a vector push before pusha: with
\* and without an error code of the processor they are seven.
HeadWords(r, v, code) ==
  (<<r["ss"], r["esp"], r["eflags"], r["cs"], r["eip"]>>
     \o (IF HasErrorCode(v) THEN <<code>> ELSE <<>>)) \o StubWords(v)

\* Three runs of words, behind one another.
Joined3(S, a, b, c, h) ==
  /\ h \in Seq(S) /\ Len(h) = Len(a) + Len(b) + Len(c)
  /\ \A i \in 1 .. Len(a) : h[i] = a[i]
  /\ \A i \in 1 .. Len(b) : h[Len(a) + i] = b[i]
  /\ \A i \in 1 .. Len(c) : h[Len(a) + Len(b) + i] = c[i]

LEMMA ThreeRuns ==
  ASSUME NEW S, NEW a \in Seq(S), NEW b \in Seq(S), NEW c \in Seq(S)
  PROVE  Joined3(S, a, b, c, (a \o b) \o c)
<1> DEFINE ab == a \o b
           h == ab \o c
<1>1. Joined(S, a, b, ab)
  BY Catenation, ZenonT(60)
<1> HIDE DEF ab
<1>2. ab \in Seq(S)
  BY <1>1, ZenonT(60) DEF Joined
<1>3. Joined(S, ab, c, h)
  BY <1>2, Catenation, ZenonT(60)
<1> HIDE DEF h
<1>4. h \in Seq(S) /\ Len(h) = Len(a) + Len(b) + Len(c) /\ Len(ab) = Len(a) + Len(b)
  BY <1>1, <1>3 DEF Joined
<1>5. ASSUME NEW i \in 1 .. Len(a) PROVE h[i] = a[i]
  <2>1. i \in 1 .. Len(ab)
    BY <1>4
  <2> QED BY <1>1, <1>3, <2>1, ZenonT(60) DEF Joined
<1>6. ASSUME NEW i \in 1 .. Len(b) PROVE h[Len(a) + i] = b[i]
  <2>1. Len(a) + i \in 1 .. Len(ab)
    BY <1>4
  <2> QED BY <1>1, <1>3, <2>1, ZenonT(60) DEF Joined
<1>7. ASSUME NEW i \in 1 .. Len(c) PROVE h[Len(a) + Len(b) + i] = c[i]
  BY <1>3, <1>4, ZenonT(60) DEF Joined
<1>8. Joined3(S, a, b, c, h)
  BY <1>4, <1>5, <1>6, <1>7, ZenonT(60) DEF Joined3
<1> QED BY <1>8, ZenonT(60) DEF h, ab

\* S holds the words of a frame.
AllWords(S, r, v, code) ==
  /\ \A x \in Regs : r[x] \in S
  /\ code \in S /\ Num(v) \in S /\ Num(0) \in S /\ <<"kesp", 0>> \in S

SevenWords(S, r, v, code, h) ==
  /\ h \in Seq(S) /\ Len(h) = 7
  /\ h[1] = r["ss"] /\ h[2] = r["esp"] /\ h[3] = r["eflags"]
  /\ h[4] = r["cs"] /\ h[5] = r["eip"] /\ h[6] = code /\ h[7] = Num(v)

LEMMA HeadIsSeven ==
  ASSUME NEW r, NEW v \in Vectors, NEW code, ~ HasErrorCode(v) => code = Num(0),
         NEW S, AllWords(S, r, v, code)
  PROVE  SevenWords(S, r, v, code, HeadWords(r, v, code))
<1> DEFINE h == HeadWords(r, v, code)
           a == <<r["ss"], r["esp"], r["eflags"], r["cs"], r["eip"]>>
<1>1. a \in Seq(S) /\ Len(a) = 5
  BY DEF AllWords, Regs
<1>2. a[1] = r["ss"] /\ a[2] = r["esp"] /\ a[3] = r["eflags"] /\ a[4] = r["cs"] /\ a[5] = r["eip"]
  BY ZenonT(60)
<1>3. CASE HasErrorCode(v)
  <2> DEFINE b == <<code>>
             c == <<Num(v)>>
  <2>1. v \in {8, 10, 11, 12, 13, 14}
    BY <1>3, ZenonT(60) DEF HasErrorCode, Vectors
  <2>2. h = (a \o b) \o c
    BY <1>3, <2>1, ZenonT(60) DEF HeadWords, StubWords
  <2>3. b \in Seq(S) /\ c \in Seq(S) /\ Len(b) = 1 /\ Len(c) = 1 /\ b[1] = code /\ c[1] = Num(v)
    BY DEF AllWords
  <2> HIDE DEF a, b, c, h
  <2>4. Joined3(S, a, b, c, (a \o b) \o c)
    BY <1>1, <2>3, ThreeRuns, ZenonT(60)
  <2>5. h \in Seq(S) /\ Len(h) = 7
    BY <1>1, <2>2, <2>3, <2>4 DEF Joined3
  <2>6. h[1] = a[1] /\ h[2] = a[2] /\ h[3] = a[3] /\ h[4] = a[4] /\ h[5] = a[5]
    BY <1>1, <2>2, <2>4 DEF Joined3
  <2>7. h[6] = b[1] /\ h[7] = c[1]
    BY <1>1, <2>2, <2>3, <2>4 DEF Joined3
  <2> QED BY <1>2, <2>3, <2>5, <2>6, <2>7, ZenonT(60) DEF SevenWords, h
<1>4. CASE ~ HasErrorCode(v)
  <2> DEFINE b == <<>>
             c == <<Num(0), Num(v)>>
  <2>1. v \notin {8, 10, 11, 12, 13, 14}
    BY <1>4, ZenonT(60) DEF HasErrorCode
  <2>2. h = (a \o b) \o c
    BY <1>4, <2>1, ZenonT(60) DEF HeadWords, StubWords
  <2>3. b \in Seq(S) /\ c \in Seq(S) /\ Len(b) = 0 /\ Len(c) = 2 /\ c[1] = code /\ c[2] = Num(v)
    BY <1>4 DEF AllWords
  <2> HIDE DEF a, b, c, h
  <2>4. Joined3(S, a, b, c, (a \o b) \o c)
    BY <1>1, <2>3, ThreeRuns, ZenonT(60)
  <2>5. h \in Seq(S) /\ Len(h) = 7
    BY <1>1, <2>2, <2>3, <2>4 DEF Joined3
  <2>6. h[1] = a[1] /\ h[2] = a[2] /\ h[3] = a[3] /\ h[4] = a[4] /\ h[5] = a[5]
    BY <1>1, <2>2, <2>4 DEF Joined3
  <2>7. h[6] = c[1] /\ h[7] = c[2]
    BY <1>1, <2>2, <2>3, <2>4 DEF Joined3
  <2> QED BY <1>2, <2>3, <2>5, <2>6, <2>7, ZenonT(60) DEF SevenWords, h
<1> QED BY <1>3, <1>4, ZenonT(60)

\* The macros EH, EH_ERRCODE and IRQ with eh_common and irq_common build a
\* struct irq_context, whether the processor pushed an error code or not.
LEMMA FrameBuilt ==
  ASSUME NEW r, NEW v \in Vectors, NEW code, ~ HasErrorCode(v) => code = Num(0)
  PROVE  OnStack(Push(<<>>, HeadWords(r, v, code) \o CommonWords(r)), r, v, code)
<1> DEFINE S == {r[x] : x \in Regs} \union {code, Num(v), Num(0), <<"kesp", 0>>}
           h == HeadWords(r, v, code)
           c == CommonWords(r)
           w == h \o c
           k == Push(<<>>, w)
<1>1. AllWords(S, r, v, code)
  BY ZenonT(60) DEF AllWords
<1> HIDE DEF S
<1>2. SevenWords(S, r, v, code, h) /\ h \in Seq(S) /\ Len(h) = 7
  <2>1. SevenWords(S, r, v, code, h)
    BY <1>1, HeadIsSeven, ZenonT(60)
  <2> QED BY <2>1, ZenonT(60) DEF SevenWords
<1>3. c \in Seq(S) /\ Len(c) = 9
  BY <1>1 DEF AllWords, CommonWords, Regs, GpRegs
<1>4. /\ c[1] = r["eax"] /\ c[2] = r["ecx"] /\ c[3] = r["edx"] /\ c[4] = r["ebx"]
      /\ c[6] = r["ebp"] /\ c[7] = r["esi"] /\ c[8] = r["edi"] /\ c[9] = r["ds"]
  BY ZenonT(60) DEF CommonWords
<1> HIDE DEF h, c
<1>5. Joined(S, h, c, w)
  BY <1>2, <1>3, Catenation, ZenonT(60)
<1> HIDE DEF w
<1>6. TurnedAround(S, w, k)
  <2>1. w \in Seq(S)
    BY <1>5, ZenonT(60) DEF Joined
  <2> QED BY <2>1, PushOnEmpty, ZenonT(60)
<1> HIDE DEF k
<1>7. /\ k[1] = c[9] /\ k[2] = c[8] /\ k[3] = c[7] /\ k[4] = c[6]
      /\ k[6] = c[4] /\ k[7] = c[3] /\ k[8] = c[2] /\ k[9] = c[1]
  BY <1>2, <1>3, <1>5, <1>6 DEF Joined, TurnedAround
<1>8. /\ k[10] = h[7] /\ k[11] = h[6] /\ k[12] = h[5] /\ k[13] = h[4]
      /\ k[14] = h[3] /\ k[15] = h[2] /\ k[16] = h[1]
  BY <1>2, <1>3, <1>5, <1>6 DEF Joined, TurnedAround
<1>9. OnStack(k, r, v, code)
  BY <1>2, <1>4, <1>7, <1>8, ZenonT(60) DEF SevenWords, OnStack
<1> QED BY <1>9, ZenonT(60) DEF k, w, h, c

-----------------------------------------------------------------------------
(* The inductive invariant *)

IsRegs(r) == r = [x \in Regs |-> r[x]]

\* Registers in user mode.
UserRegs(r) ==
  /\ IsRegs(r)
  /\ r["cs"] = Sel(27) /\ r["ss"] = Sel(35) /\ r["ds"] = Sel(35)
  /\ r["eflags"] = Flags(TRUE)

\* Registers while the kernel runs.
KernelRegs(r) ==
  /\ IsRegs(r)
  /\ r["cs"] = Sel(8) /\ r["ss"] = Sel(16) /\ r["eflags"] = Flags(FALSE)

\* A saved context goes back to user mode.
UserContext(c) ==
  /\ c["cs"] = Sel(27) /\ c["ss"] = Sel(35) /\ c["ds"] = Sel(35)
  /\ c["eflags"] = Flags(TRUE)
  /\ DOMAIN c = FieldsOf(arch_thread_context_t)

IsException(e) == e.kind = "software" \/ (e.kind = "hardware" /\ e.number < 32)
IsIrq(e) == e.kind = "hardware" /\ e.number \in 32 .. 47
VectorOf(e) == IF e.kind = "software" THEN 13 ELSE e.number

\* Between a gate and the return from it the frame holds the program.
InGate ==
  /\ KernelRegs(regs) /\ UserRegs(event.regs)
  /\ OnStack(kstack, event.regs, VectorOf(event), event.code)

\* Between sysenter and sysexit.
InCall == KernelRegs(regs) /\ regs["ds"] = Sel(35) /\ event = NoEvent

\* Where the handler is done with an event, user mode may see of it only this.
InRing3 ==
  /\ UserRegs(regs) /\ kstack = <<>>
  /\ IsException(event) => regs = event.regs

EntryInv ==
  /\ UserContext(exec_ctx)
  /\ \/ at = "boot" /\ KernelRegs(regs) /\ event = NoEvent
     \/ at = "user" /\ InRing3
     \/ at = "exception" /\ InGate /\ IsException(event)
     \/ at = "eh_ret" /\ InGate /\ IsException(event) /\ HandlerSeesEvent
     \/ at = "irq" /\ InGate /\ IsIrq(event)
     \/ at = "irq_ret" /\ InGate /\ IsIrq(event) /\ HandlerSeesEvent
     \/ at \in {"kcall", "sysexit"} /\ InCall

LEMMA NoException == ~ IsException(NoEvent)
BY DEF NoEvent, IsException

-----------------------------------------------------------------------------
(* Steps into the kernel *)

\* init_idt: every gate is an interrupt gate of ring 0 for the kernel's code.
LEMMA Gates ==
  ASSUME NEW v \in 0 .. 47
  PROVE  idt[v].num = v /\ idt[v].selector = 8 /\ idt[v].dpl = 0 /\ idt[v].gate = 14
BY DEF idt, fill_idt_entry

LEMMA GateStep ==
  ASSUME at = "user", InRing3, NEW v \in Vectors, NEW code,
         ~ HasErrorCode(v) => code = Num(0), Through(v, code),
         event'.regs = regs, event'.code = code, VectorOf(event)' = v
  PROVE  InGate'
<1>1. /\ idt[v].num = v /\ idt[v].selector = 8 /\ idt[v].gate = 14
  BY Gates, ZenonT(60) DEF Vectors
<1>2. UserRegs(regs)
  BY ZenonT(60) DEF InRing3
<1>3. regs' = [regs EXCEPT !["cs"] = Sel(8), !["ss"] = Sel(16), !["ds"] = Sel(16),
                           !["eflags"] = Flags(FALSE)]
  BY <1>1, ZenonT(60) DEF Through, tss
<1>4. KernelRegs(regs)'
  BY <1>2, <1>3, ZenonT(60) DEF UserRegs, KernelRegs, IsRegs, Regs
<1>5. kstack' = Push(<<>>, HeadWords(regs, v, code) \o CommonWords(regs))
  BY <1>1, ZenonT(60) DEF Through, HeadWords
<1>6. OnStack(kstack', regs, v, code)
  BY <1>5, FrameBuilt, ZenonT(60)
<1> QED BY <1>2, <1>4, <1>6, ZenonT(60) DEF InGate, UserRegs

LEMMA HardwareInv ==
  ASSUME EntryInv, NEW v \in Exceptions \union Lines, hardware(v)
  PROVE  EntryInv'
<1> DEFINE code == IF HasErrorCode(v) THEN <<"error", v>> ELSE Num(0)
<1>1. at = "user" /\ InRing3
  BY ZenonT(60) DEF EntryInv, hardware
<1>2. v \in Vectors /\ v \in 0 .. 47
  BY EntryAssumption DEF Vectors
<1>3. event' = [kind |-> "hardware", number |-> v, code |-> code, regs |-> regs]
  BY ZenonT(60) DEF hardware, Record
<1>4. Through(v, code) /\ (~ HasErrorCode(v) => code = Num(0))
  BY ZenonT(60) DEF hardware
<1> HIDE DEF code
<1>5. event'.regs = regs /\ event'.code = code /\ VectorOf(event)' = v
  BY <1>3, ZenonT(60) DEF VectorOf
<1>6. exec_ctx' = exec_ctx
  BY ZenonT(60) DEF hardware
<1>7. InGate'
  BY <1>1, <1>2, <1>4, <1>5, GateStep, ZenonT(60)
<1>8. UserContext(exec_ctx)'
  BY <1>6, ZenonT(60) DEF EntryInv
<1>9. CASE v < 32
  <2>1. at' = "exception" /\ IsException(event)'
    BY <1>3, <1>4, <1>9, ZenonT(60) DEF Through, IsException
  <2> QED BY <1>7, <1>8, <2>1, ZenonT(60) DEF EntryInv
<1>10. CASE v >= 32
  <2>1. ~ (v < 32) /\ v \in 32 .. 47
    BY <1>2, <1>10
  <2>2. at' = "irq"
    BY <1>4, <2>1, ZenonT(60) DEF Through
  <2>3. IsIrq(event)'
    BY <1>3, <2>1, ZenonT(60) DEF IsIrq
  <2> QED BY <1>7, <1>8, <2>2, <2>3, ZenonT(60) DEF EntryInv
<1> QED BY <1>2, <1>9, <1>10

\* INT n: no gate has the privilege level of a program.
LEMMA SoftwareInv ==
  ASSUME EntryInv, NEW n \in UserVectors, software_int(n)
  PROVE  EntryInv'
<1> DEFINE v == IF n \in DOMAIN idt /\ idt[n].dpl = 3 THEN n ELSE 13
           code == <<"error", n>>
<1>1. at = "user" /\ InRing3
  BY ZenonT(60) DEF EntryInv, software_int, InProgram
<1>2. v = 13
  <2>1. DOMAIN idt = 0 .. 47
    BY ZenonT(60) DEF idt
  <2> QED BY <2>1, Gates
<1>3. /\ Through(13, code)
      /\ event' = [kind |-> "software", number |-> n, code |-> code, regs |-> regs]
  BY <1>2, ZenonT(60) DEF software_int, Record
<1> HIDE DEF v, code
<1>4. event'.regs = regs /\ event'.code = code /\ VectorOf(event)' = 13
  BY <1>3, ZenonT(60) DEF VectorOf
<1>5. exec_ctx' = exec_ctx
  BY ZenonT(60) DEF software_int
<1>6. 13 \in Vectors /\ HasErrorCode(13)
  BY DEF Vectors, HasErrorCode
<1>7. InGate'
  BY <1>1, <1>3, <1>4, <1>6, GateStep, ZenonT(60)
<1>8. UserContext(exec_ctx)'
  BY <1>5, ZenonT(60) DEF EntryInv
<1>9. at' = "exception" /\ IsException(event)'
  BY <1>3 DEF Through, IsException
<1> QED BY <1>7, <1>8, <1>9, ZenonT(60) DEF EntryInv

-----------------------------------------------------------------------------
(* The handlers *)

\* The fields of struct irq_context have different names.
LEMMA Position ==
  ASSUME NEW i \in 1 .. 16
  PROVE  /\ irq_context[i] \in FieldsOf(irq_context)
         /\ (CHOOSE j \in 1 .. 16 : irq_context[j] = irq_context[i]) = i
<1>1. DOMAIN irq_context = 1 .. 16
  BY DEF irq_context
<1>2. \A j \in 1 .. 16 : irq_context[j] = irq_context[i] => j = i
  BY DEF irq_context
<1> QED BY <1>1, <1>2, ZenonT(60) DEF FieldsOf

LEMMA FrameAt ==
  ASSUME NEW i \in 1 .. 16
  PROVE  Frame[irq_context[i]] = kstack[i]
BY Position, ZenonT(60) DEF Frame

\* A handler that reads the frame by name finds the program.
LEMMA FrameRead ==
  ASSUME NEW r, NEW n, NEW code, OnStack(kstack, r, n, code)
  PROVE  /\ Frame["int_no"] = Num(n) /\ Frame["err_code"] = code
         /\ \A x \in Regs : Frame[x] = r[x]
<1>1. /\ Frame["ds"] = kstack[1] /\ Frame["edi"] = kstack[2] /\ Frame["esi"] = kstack[3]
      /\ Frame["ebp"] = kstack[4] /\ Frame["ebx"] = kstack[6] /\ Frame["edx"] = kstack[7]
      /\ Frame["ecx"] = kstack[8] /\ Frame["eax"] = kstack[9]
  BY FrameAt DEF irq_context
<1>2. /\ Frame["int_no"] = kstack[10] /\ Frame["err_code"] = kstack[11]
      /\ Frame["eip"] = kstack[12] /\ Frame["cs"] = kstack[13] /\ Frame["eflags"] = kstack[14]
      /\ Frame["esp"] = kstack[15] /\ Frame["ss"] = kstack[16]
  BY FrameAt DEF irq_context
<1> HIDE DEF Frame
<1> QED BY <1>1, <1>2, ZenonT(60) DEF OnStack, Regs, GpRegs

LEMMA HandlerInv ==
  ASSUME InGate, seen' = Frame, event' = event, at' \in {"eh_ret", "irq_ret"}
  PROVE  HandlerSeesEvent'
<1>1. /\ Frame["int_no"] = Num(VectorOf(event)) /\ Frame["err_code"] = event.code
      /\ \A x \in Regs : Frame[x] = event.regs[x]
  BY FrameRead, ZenonT(60) DEF InGate
<1> HIDE DEF Frame
<1> QED BY <1>1, ZenonT(60) DEF HandlerSeesEvent, VectorOf

LEMMA ExceptionInv ==
  ASSUME EntryInv, exception_handler
  PROVE  EntryInv'
<1>1. InGate /\ IsException(event) /\ UserContext(exec_ctx)
  BY ZenonT(60) DEF EntryInv, exception_handler
<1>2. /\ seen' = Frame /\ at' = "eh_ret"
      /\ UNCHANGED <<regs, kstack, ustack, exec_ctx, event>>
  BY ZenonT(60) DEF exception_handler
<1>3. InGate' /\ IsException(event)' /\ UserContext(exec_ctx)'
  BY <1>1, <1>2, ZenonT(60) DEF InGate, IsException, VectorOf
<1>4. HandlerSeesEvent'
  BY <1>1, <1>2, HandlerInv, ZenonT(60)
<1> QED BY <1>2, <1>3, <1>4, ZenonT(60) DEF EntryInv

\* arch_update_exec_ctx stores the words of a program: the context stays one
\* that returns to a program.
LEMMA InterruptInv ==
  ASSUME EntryInv, NEW saves \in BOOLEAN, interrupt_handler(saves)
  PROVE  EntryInv'
<1>1. InGate /\ IsIrq(event) /\ UserContext(exec_ctx)
  BY ZenonT(60) DEF EntryInv, interrupt_handler
<1>2. seen' = Frame /\ at' = "irq_ret" /\ UNCHANGED <<regs, kstack, ustack, event>>
  BY ZenonT(60) DEF interrupt_handler
<1>3. InGate' /\ IsIrq(event)'
  BY <1>1, <1>2, ZenonT(60) DEF InGate, IsIrq, VectorOf
<1>4. HandlerSeesEvent'
  BY <1>1, <1>2, HandlerInv, ZenonT(60)
<1>5. UserContext(exec_ctx)'
  <2>1. CASE ~ saves
    BY <1>1, <2>1, ZenonT(60) DEF interrupt_handler
  <2>2. CASE saves
    <3>1. exec_ctx' = [f \in DOMAIN exec_ctx |->
                         IF f \in {"eip", "esp", "eflags"} \union (GpRegs \ {"ebp"})
                         THEN Frame[f] ELSE exec_ctx[f]]
      BY <2>2, ZenonT(60) DEF interrupt_handler
    <3>2. \A x \in Regs : Frame[x] = event.regs[x]
      BY <1>1, FrameRead, ZenonT(60) DEF InGate
    <3>3. Frame["eflags"] = Flags(TRUE)
      BY <1>1, <3>2, ZenonT(60) DEF InGate, UserRegs, Regs
    <3>4. /\ "cs" \in DOMAIN exec_ctx /\ "ss" \in DOMAIN exec_ctx /\ "ds" \in DOMAIN exec_ctx
          /\ "eflags" \in DOMAIN exec_ctx
      BY <1>1 DEF UserContext, FieldsOf, arch_thread_context_t
    <3> HIDE DEF Frame
    <3> QED BY <1>1, <3>1, <3>3, <3>4, ZenonT(60) DEF UserContext, GpRegs
  <2> QED BY <2>1, <2>2, ZenonT(60)
<1> QED BY <1>2, <1>3, <1>4, <1>5, ZenonT(60) DEF EntryInv

-----------------------------------------------------------------------------
(* Steps back to the program *)

LEMMA RestoredRegs ==
  ASSUME NEW w, NEW k
  PROVE  IsRegs(Restored(w, k))
<1>1. DOMAIN Restored(w, k) = Regs
  BY ZenonT(60) DEF Restored, Regs, GpRegs
<1> QED BY <1>1, ZenonT(60) DEF IsRegs, Restored

\* eh_common: the frame holds every register.
LEMMA EhRestores ==
  ASSUME InGate
  PROVE  Restored(kstack, 2) = event.regs
<1>1. /\ OnStack(kstack, event.regs, VectorOf(event), event.code) /\ IsRegs(event.regs)
  BY ZenonT(60) DEF InGate, UserRegs
<1> DEFINE r == event.regs
           q == Restored(kstack, 2)
<1>2. /\ q["ds"] = r["ds"] /\ q["edi"] = r["edi"] /\ q["esi"] = r["esi"]
      /\ q["ebp"] = r["ebp"] /\ q["ebx"] = r["ebx"] /\ q["edx"] = r["edx"]
      /\ q["ecx"] = r["ecx"] /\ q["eax"] = r["eax"] /\ q["eip"] = r["eip"]
      /\ q["cs"] = r["cs"] /\ q["eflags"] = r["eflags"] /\ q["esp"] = r["esp"]
      /\ q["ss"] = r["ss"]
  <2>1. 10 + 2 = 12 /\ 11 + 2 = 13 /\ 12 + 2 = 14 /\ 13 + 2 = 15 /\ 14 + 2 = 16
    OBVIOUS
  <2> QED BY <1>1, <2>1, ZenonT(60) DEF Restored, OnStack
<1>3. q = [x \in Regs |-> q[x]]
  BY RestoredRegs, ZenonT(60) DEF IsRegs
<1> HIDE DEF r, q
<1>4. \A x \in Regs : q[x] = r[x]
  BY <1>2, ZenonT(60) DEF Regs, GpRegs
<1>5. r = [x \in Regs |-> r[x]]
  BY <1>1, ZenonT(60) DEF IsRegs, r
<1>6. q = r
  BY <1>3, <1>4, <1>5, ZenonT(60)
<1> QED BY <1>6, ZenonT(60) DEF q, r

LEMMA EhReturnInv ==
  ASSUME EntryInv, eh_common
  PROVE  EntryInv' /\ regs' = event.regs
<1>1. InGate /\ IsException(event) /\ UserContext(exec_ctx)
  BY ZenonT(60) DEF EntryInv, eh_common
<1>2. /\ regs' = Restored(kstack, 2) /\ kstack' = <<>> /\ at' = "user"
      /\ UNCHANGED <<ustack, exec_ctx, event, seen>>
  BY ZenonT(60) DEF eh_common
<1>3. Restored(kstack, 2) = event.regs
  BY <1>1, EhRestores, ZenonT(60)
<1>4. InRing3'
  BY <1>1, <1>2, <1>3, ZenonT(60) DEF InRing3, InGate, IsException
<1>5. UserContext(exec_ctx)'
  BY <1>1, <1>2, ZenonT(60)
<1> QED BY <1>2, <1>3, <1>4, <1>5, ZenonT(60) DEF EntryInv

\* arch_return_to_user takes every register from the context.
LEMMA ReturnInv ==
  ASSUME EntryInv, arch_return_to_user
  PROVE  EntryInv'
<1> DEFINE c == [i \in 1 .. 15 |-> exec_ctx[arch_thread_context_t[i]]]
<1>1. UserContext(exec_ctx) /\ ~ IsException(event)
  <2>1. CASE at = "boot"
    <3>1. UserContext(exec_ctx) /\ event = NoEvent
      BY <2>1, ZenonT(60) DEF EntryInv
    <3> QED BY <3>1, NoException, ZenonT(60)
  <2>2. CASE at = "irq_ret"
    <3>1. IsIrq(event) /\ UserContext(exec_ctx)
      BY <2>2, ZenonT(60) DEF EntryInv
    <3>2. event.kind = "hardware" /\ ~ (event.number < 32)
      BY <3>1 DEF IsIrq
    <3> QED BY <3>1, <3>2, ZenonT(60) DEF IsException
  <2> QED BY <2>1, <2>2, ZenonT(60) DEF arch_return_to_user
<1>2. /\ regs' = Restored(c, 1) /\ kstack' = <<>> /\ at' = "user"
      /\ UNCHANGED <<ustack, exec_ctx, event, seen>>
  BY ZenonT(60) DEF arch_return_to_user
<1>3. /\ c[1] = exec_ctx["ds"] /\ c[12] = exec_ctx["cs"] /\ c[13] = exec_ctx["eflags"]
      /\ c[15] = exec_ctx["ss"]
  BY DEF arch_thread_context_t
<1> HIDE DEF c
<1>4. UserRegs(Restored(c, 1))
  <2>1. LET r == Restored(c, 1)
        IN r["ds"] = c[1] /\ r["cs"] = c[12] /\ r["eflags"] = c[13] /\ r["ss"] = c[15]
    <3>1. 11 + 1 = 12 /\ 12 + 1 = 13 /\ 13 + 1 = 14 /\ 14 + 1 = 15
      OBVIOUS
    <3> QED BY <3>1, ZenonT(60) DEF Restored
  <2> QED BY <1>1, <1>3, <2>1, RestoredRegs, ZenonT(60) DEF UserRegs, UserContext
<1>5. InRing3'
  BY <1>1, <1>2, <1>4, ZenonT(60) DEF InRing3, IsException
<1>6. UserContext(exec_ctx)'
  BY <1>1, <1>2, ZenonT(60)
<1> QED BY <1>2, <1>5, <1>6, ZenonT(60) DEF EntryInv

-----------------------------------------------------------------------------
(* Kernel calls *)

\* The eight words of arch_sysenter_stub, as its C handler and its end see them.
LEMMA StubStack ==
  ASSUME NEW r
  PROVE  LET k == Push(<<>>, SysenterWords(r))
         IN k[2] = r["eax"] /\ k[3] = r["ebx"] /\ k[7] = r["edi"] /\ k[8] = r["ebp"]
<1> DEFINE w == SysenterWords(r)
           k == Push(<<>>, w)
           S == {r[x] : x \in GpRegs} \union {<<"kesp", 0>>}
<1>1. w \in Seq(S) /\ Len(w) = 8
  BY DEF SysenterWords, GpRegs
<1>2. w[7] = r["eax"] /\ w[6] = r["ebx"] /\ w[2] = r["edi"] /\ w[1] = r["ebp"]
  BY ZenonT(60) DEF SysenterWords
<1> HIDE DEF w, S
<1>3. TurnedAround(S, w, k)
  BY <1>1, PushOnEmpty, ZenonT(60)
<1> HIDE DEF k
<1>4. k[2] = w[7] /\ k[3] = w[6] /\ k[7] = w[2] /\ k[8] = w[1]
  BY <1>1, <1>3 DEF TurnedAround
<1> QED BY <1>2, <1>4, ZenonT(60) DEF k, w

\* An instruction of user mode leaves it in user mode.
LEMMA Ring3Step ==
  ASSUME EntryInv, at = "user", UserRegs(regs)', event' = NoEvent,
         UNCHANGED <<at, kstack, exec_ctx>>
  PROVE  EntryInv'
<1>1. InRing3 /\ UserContext(exec_ctx)
  BY ZenonT(60) DEF EntryInv
<1>2. InRing3'
  BY <1>1, NoException, ZenonT(60) DEF InRing3
<1> QED BY <1>1, <1>2, ZenonT(60) DEF EntryInv

LEMMA InUserMode ==
  ASSUME EntryInv, at = "user"
  PROVE  UserRegs(regs)
BY ZenonT(60) DEF EntryInv, InRing3

LEMMA PushKeepsMode ==
  ASSUME NEW r, UserRegs(r), NEW w, NEW next, push(w, r, next)
  PROVE  UserRegs(regs)'
<1>1. PICK n \in 0 .. 2 : regs' = [r EXCEPT !["esp"] = Esp(n + 1), !["eip"] = Code(next)]
  BY ZenonT(60) DEF push
<1> QED BY <1>1, ZenonT(60) DEF UserRegs, IsRegs, Regs, GpRegs

LEMMA MovKeepsMode ==
  ASSUME UserRegs(regs), NEW reg \in {"ebp", "edi"}, NEW w, NEW next, mov(reg, w, next)
  PROVE  UserRegs(regs)'
<1>1. regs' = [regs EXCEPT ![reg] = w, !["eip"] = Code(next)]
  BY ZenonT(60) DEF mov
<1> QED BY <1>1, ZenonT(60) DEF UserRegs, IsRegs, Regs, GpRegs

LEMMA PopKeepsMode ==
  ASSUME UserRegs(regs), NEW reg \in {"ebp", "edi", "eip"}, NEW next, pop(reg, next)
  PROVE  UserRegs(regs)'
<1>1. PICK n \in 1 .. 3 :
        regs' = [regs EXCEPT !["eip"] = next, ![reg] = ustack[n], !["esp"] = Esp(n - 1)]
  BY ZenonT(60) DEF pop
<1> QED BY <1>1, ZenonT(60) DEF UserRegs, IsRegs, Regs, GpRegs

LEMMA InvokeInv ==
  ASSUME EntryInv, NEW number, arch_invoke_kcall(number)
  PROVE  EntryInv'
<1>1. /\ at = "user" /\ event' = NoEvent /\ UNCHANGED <<at, kstack, exec_ctx>>
      /\ push(Code("after_call"), [regs EXCEPT !["eax"] = Num(number)], "push_ebp")
  BY ZenonT(60) DEF arch_invoke_kcall, instruction
<1>2. UserRegs([regs EXCEPT !["eax"] = Num(number)])
  BY <1>1, InUserMode, ZenonT(60) DEF UserRegs, IsRegs, Regs, GpRegs
<1>3. UserRegs(regs)'
  BY <1>1, <1>2, PushKeepsMode, ZenonT(60)
<1> QED BY <1>1, <1>3, Ring3Step, ZenonT(60)

LEMMA StubInv ==
  ASSUME EntryInv, usr_sysenter_stub
  PROVE  EntryInv'
<1>1. at = "user" /\ event' = NoEvent /\ UNCHANGED <<at, kstack, exec_ctx>>
  BY ZenonT(60) DEF usr_sysenter_stub, instruction
<1>2. UserRegs(regs)
  BY <1>1, InUserMode, ZenonT(60)
<1>3. UserRegs(regs)'
  BY <1>2, PushKeepsMode, MovKeepsMode, ZenonT(60) DEF usr_sysenter_stub
<1> QED BY <1>1, <1>3, Ring3Step, ZenonT(60)

LEMMA StubReturnInv ==
  ASSUME EntryInv, usr_sysenter_stub_ret
  PROVE  EntryInv'
<1>1. at = "user" /\ event' = NoEvent /\ UNCHANGED <<at, kstack, exec_ctx>>
  BY ZenonT(60) DEF usr_sysenter_stub_ret, instruction
<1>2. UserRegs(regs)
  BY <1>1, InUserMode, ZenonT(60)
<1>3. UserRegs(regs)'
  BY <1>2, PopKeepsMode, ZenonT(60) DEF usr_sysenter_stub_ret
<1> QED BY <1>1, <1>3, Ring3Step, ZenonT(60)

LEMMA KcallInv ==
  ASSUME EntryInv, NEW number, NEW ptr, kcall(number, ptr)
  PROVE  EntryInv'
<1>1. /\ at = "user" /\ event' = NoEvent /\ UNCHANGED <<at, kstack, exec_ctx>>
      /\ regs' = [regs EXCEPT !["ebx"] = ptr, !["eip"] = Code(Function(number))]
  BY ZenonT(60) DEF kcall, InProgram
<1>2. UserRegs(regs)'
  BY <1>1, InUserMode, ZenonT(60) DEF UserRegs, IsRegs, Regs, GpRegs
<1> QED BY <1>1, <1>2, Ring3Step, ZenonT(60)

LEMMA UserStepInv ==
  ASSUME EntryInv, NEW f, user_step(f)
  PROVE  EntryInv'
<1>1. /\ regs' = [r \in Regs |-> IF r \in GpRegs THEN <<f, r>> ELSE regs[r]]
      /\ event' = NoEvent /\ UNCHANGED <<at, kstack, exec_ctx>> /\ at = "user"
  BY ZenonT(60) DEF user_step, InProgram
<1>2. UserRegs(regs)'
  BY <1>1, InUserMode, ZenonT(60) DEF UserRegs, IsRegs, Regs, GpRegs
<1> QED BY <1>1, <1>2, Ring3Step, ZenonT(60)

LEMMA SysenterInv ==
  ASSUME EntryInv, arch_sysenter_stub
  PROVE  EntryInv'
<1>1. /\ at = "user" /\ at' = "kcall" /\ event' = NoEvent /\ exec_ctx' = exec_ctx
      /\ regs' = [regs EXCEPT !["cs"] = Sel(8), !["ss"] = Sel(16), !["eflags"] = Flags(FALSE)]
  BY DEF arch_sysenter_stub, SysenterCs
<1>2. UserRegs(regs) /\ UserContext(exec_ctx)
  BY <1>1, ZenonT(60) DEF EntryInv, InRing3
<1>3. KernelRegs(regs)' /\ regs'["ds"] = Sel(35)
  BY <1>1, <1>2, ZenonT(60) DEF UserRegs, KernelRegs, IsRegs, Regs, GpRegs
<1>4. InCall'
  BY <1>1, <1>3, ZenonT(60) DEF InCall
<1> QED BY <1>1, <1>2, <1>4, ZenonT(60) DEF EntryInv

LEMMA KcallHandlerInv ==
  ASSUME EntryInv, kcall_handler
  PROVE  EntryInv'
<1>1. /\ regs' = [regs EXCEPT !["eax"] = <<"kernel", 0>>, !["ecx"] = <<"kernel", 1>>,
                              !["edx"] = <<"kernel", 2>>]
      /\ at = "kcall" /\ at' = "sysexit" /\ UNCHANGED <<exec_ctx, event>>
  BY ZenonT(60) DEF kcall_handler
<1>2. InCall /\ UserContext(exec_ctx)
  BY <1>1, ZenonT(60) DEF EntryInv
<1>3. KernelRegs(regs)' /\ regs'["ds"] = regs["ds"]
  BY <1>1, <1>2, ZenonT(60) DEF InCall, KernelRegs, IsRegs, Regs, GpRegs
<1>4. InCall'
  BY <1>1, <1>2, <1>3, ZenonT(60) DEF InCall
<1> QED BY <1>1, <1>2, <1>4, ZenonT(60) DEF EntryInv

LEMMA SysexitInv ==
  ASSUME EntryInv, sysexit
  PROVE  EntryInv'
<1>1. /\ regs' = [regs EXCEPT !["edx"] = kstack[7], !["ecx"] = kstack[8], !["eip"] = kstack[7],
                              !["esp"] = kstack[8], !["cs"] = Sel(27), !["ss"] = Sel(35),
                              !["eflags"] = Flags(TRUE)]
      /\ kstack' = <<>> /\ at = "sysexit" /\ at' = "user" /\ UNCHANGED <<exec_ctx, event>>
  BY DEF sysexit, SysenterCs
<1>2. InCall /\ UserContext(exec_ctx)
  BY <1>1, ZenonT(60) DEF EntryInv
<1>3. UserRegs(regs)'
  BY <1>1, <1>2, ZenonT(60) DEF InCall, KernelRegs, UserRegs, IsRegs, Regs, GpRegs
<1>4. InRing3'
  BY <1>1, <1>2, <1>3, NoException, ZenonT(60) DEF InRing3, InCall
<1> QED BY <1>1, <1>2, <1>4, ZenonT(60) DEF EntryInv

-----------------------------------------------------------------------------
(* The theorems *)

LEMMA EntryInitInv == EntryInit => EntryInv
<1> SUFFICES ASSUME EntryInit PROVE EntryInv
  BY ZenonT(60)
<1>1. KernelRegs(regs)
  BY ZenonT(60) DEF EntryInit, KernelRegs, IsRegs, Regs, GpRegs
<1>2. /\ "cs" \in DOMAIN exec_ctx /\ "ss" \in DOMAIN exec_ctx /\ "ds" \in DOMAIN exec_ctx
      /\ "eflags" \in DOMAIN exec_ctx
      /\ DOMAIN exec_ctx = FieldsOf(arch_thread_context_t)
  BY DEF EntryInit, native_create_thread, FieldsOf, arch_thread_context_t
<1>3. UserContext(exec_ctx)
  BY <1>2, ZenonT(60) DEF EntryInit, native_create_thread, UserContext
<1> QED BY <1>1, <1>3, ZenonT(60) DEF EntryInit, EntryInv

LEMMA EntryNextInv == EntryInv /\ [EntryNext]_entryVars => EntryInv'
<1> SUFFICES ASSUME EntryInv, [EntryNext]_entryVars PROVE EntryInv'
  BY ZenonT(60)
<1>1. CASE UNCHANGED entryVars
  BY <1>1, ZenonT(60) DEF entryVars, EntryInv, InRing3, InGate, InCall, HandlerSeesEvent, VectorOf
<1>2. CASE EntryNext
  BY <1>2, HardwareInv, SoftwareInv, ExceptionInv, InterruptInv, EhReturnInv, ReturnInv,
     KcallInv, InvokeInv, StubInv, SysenterInv, KcallHandlerInv, SysexitInv, StubReturnInv,
     UserStepInv, ZenonT(60) DEF EntryNext
<1> QED BY <1>1, <1>2, ZenonT(60)

LEMMA EntryAlways == EntrySpec => []EntryInv
BY EntryInitInv, EntryNextInv, PTL DEF EntrySpec

\* What each theorem needs of the registers in one of the two modes.
LEMMA Modes ==
  /\ 27 % 4 = 3 /\ Dpl(27) = 3 /\ IsCode(27) /\ 35 % 4 = 3 /\ Dpl(35) = 3 /\ ~ IsCode(35)
  /\ 8 % 4 = 0 /\ Dpl(8) = 0 /\ IsCode(8) /\ 16 % 4 = 0 /\ Dpl(16) = 0 /\ ~ IsCode(16)
<1>1. gdt_entries[2] = 154 /\ gdt_entries[3] = 146 /\ gdt_entries[4] = 250 /\ gdt_entries[5] = 242
  BY ZenonT(60) DEF gdt_entries
<1> QED BY <1>1 DEF Dpl, IsCode

\* Segments and interrupt flag match the code that runs, on every way in and
\* out of the kernel (interrupt.asm, kcall.asm.S, arch_return_to_user).
THEOREM ModesMatch == EntrySpec => []ModeConsistent
<1>1. ASSUME EntryInv PROVE ModeConsistent
  <2>1. CASE InUser
    <3>1. /\ regs["cs"] = Sel(27) /\ regs["ss"] = Sel(35) /\ regs["eflags"] = Flags(TRUE)
      BY <1>1, <2>1, ZenonT(60) DEF EntryInv, InUser, InRing3, UserRegs
    <3>2. /\ regs["cs"][1] = "sel" /\ regs["cs"][2] = 27 /\ regs["ss"][1] = "sel"
          /\ regs["ss"][2] = 35 /\ regs["eflags"] = Flags(InUser)
      BY <2>1, <3>1 DEF Sel
    <3> QED BY <2>1, <3>2, Modes DEF ModeConsistent
  <2>2. CASE ~ InUser
    <3>1. /\ regs["cs"] = Sel(8) /\ regs["ss"] = Sel(16) /\ regs["eflags"] = Flags(FALSE)
      BY <1>1, <2>2, ZenonT(60) DEF EntryInv, InUser, InGate, InCall, KernelRegs
    <3>2. /\ regs["cs"][1] = "sel" /\ regs["cs"][2] = 8 /\ regs["ss"][1] = "sel"
          /\ regs["ss"][2] = 16
      BY <3>1 DEF Sel
    <3>3. InUser = FALSE
      BY <2>2 DEF InUser
    <3>4. regs["eflags"] = Flags(InUser)
      BY <3>1, <3>3, ZenonT(60)
    <3> QED BY <2>2, <3>2, <3>4, Modes, ZenonT(60) DEF ModeConsistent
  <2> QED BY <2>1, <2>2, ZenonT(60)
<1> QED BY <1>1, EntryAlways, PTL

\* exception_handler and interrupt_handler find in irq_context the number, the
\* error code and the registers of the event, with or without an error code
\* of the processor.
THEOREM HandlersSeeEvents == EntrySpec => []HandlerSeesEvent
<1>1. ASSUME EntryInv PROVE HandlerSeesEvent
  BY <1>1, ZenonT(60) DEF EntryInv, HandlerSeesEvent
<1> QED BY <1>1, EntryAlways, PTL

\* eh_common gives the program back all its registers.
THEOREM ExceptionsInvisible == EntrySpec => []ExceptionInvisible
<1>1. ASSUME EntryInv PROVE ExceptionInvisible
  BY <1>1, ZenonT(60) DEF EntryInv, ExceptionInvisible, InRing3, IsException
<1> QED BY <1>1, EntryAlways, PTL

\* interrupt_handler runs for devices only: the gates of init_idt are closed
\* to INT n.
THEOREM DevicesInterrupt == EntrySpec => []OnlyDevicesInterrupt
<1>1. ASSUME EntryInv PROVE OnlyDevicesInterrupt
  BY <1>1, ZenonT(60) DEF EntryInv, OnlyDevicesInterrupt, IsIrq
<1> QED BY <1>1, EntryAlways, PTL

-----------------------------------------------------------------------------
(* A kernel call, followed from its caller to the return *)

\* The words the call has put on the stack u: one, two, three of them.
OneWord(u, c) == u[c.base + 1] = Code("after_call")
TwoWords(u, c) == OneWord(u, c) /\ u[c.base + 2] = c.regs["ebp"]
ThreeWords(u, c) == TwoWords(u, c) /\ u[c.base + 3] = c.regs["edi"]

\* What holds at each place of call c with registers r and stack u.
Called(r, u, c) ==
  /\ r["edi"] = c.regs["edi"] /\ r["ebp"] = c.regs["ebp"] /\ r["esp"] = Esp(c.base)
Invoked(r, u, c) ==
  /\ r["eax"] = Num(c.number) /\ r["edi"] = c.regs["edi"] /\ r["ebp"] = c.regs["ebp"]
  /\ r["esp"] = Esp(c.base + 1) /\ OneWord(u, c)
PushedEbp(r, u, c) ==
  /\ r["eax"] = Num(c.number) /\ r["edi"] = c.regs["edi"]
  /\ r["esp"] = Esp(c.base + 2) /\ TwoWords(u, c)
PushedEdi(r, u, c) ==
  r["eax"] = Num(c.number) /\ r["esp"] = Esp(c.base + 3) /\ ThreeWords(u, c)
StackInEbp(r, u, c) == PushedEdi(r, u, c) /\ r["ebp"] = Esp(c.base + 3)
Ready(r, u, c) == StackInEbp(r, u, c) /\ r["edi"] = Code("pop_edi")
Answered(r, u, c) ==
  r["eax"] = c.ret /\ r["esp"] = Esp(c.base + 3) /\ ThreeWords(u, c)
PoppedEdi(r, u, c) ==
  /\ r["eax"] = c.ret /\ r["edi"] = c.regs["edi"]
  /\ r["esp"] = Esp(c.base + 2) /\ TwoWords(u, c)
PoppedEbp(r, u, c) ==
  /\ r["eax"] = c.ret /\ r["edi"] = c.regs["edi"] /\ r["ebp"] = c.regs["ebp"]
  /\ r["esp"] = Esp(c.base + 1) /\ OneWord(u, c)
Returned(r, u, c) ==
  /\ r["eax"] = c.ret /\ r["edi"] = c.regs["edi"] /\ r["ebp"] = c.regs["ebp"]
  /\ r["esp"] = Esp(c.base)

Place(r, u, c) ==
  \/ r["eip"] = Code(Function(c.number)) /\ Called(r, u, c)
  \/ r["eip"] = Code("push_ebp") /\ Invoked(r, u, c)
  \/ r["eip"] = Code("push_edi") /\ PushedEbp(r, u, c)
  \/ r["eip"] = Code("mov_ebp") /\ PushedEdi(r, u, c)
  \/ r["eip"] = Code("mov_edi") /\ StackInEbp(r, u, c)
  \/ r["eip"] = Code("sysenter") /\ Ready(r, u, c)
  \/ r["eip"] = Code("pop_edi") /\ Answered(r, u, c)
  \/ r["eip"] = Code("pop_ebp") /\ PoppedEdi(r, u, c)
  \/ r["eip"] = Code("ret") /\ PoppedEbp(r, u, c)
  \/ r["eip"] = Code("after_call") /\ Returned(r, u, c)

\* What the call never changes, and where it started.
Kept(r, c) ==
  /\ r["esi"] = c.regs["esi"] /\ r["ds"] = c.regs["ds"] /\ r["ebx"] = c.ptr
  /\ c.base \in 0 .. 2 /\ c.number \in 0 .. 1 /\ c.regs["esp"] = Esp(c.base)

Followed(r, u, c) == Kept(r, c) /\ Place(r, u, c)

\* Between sysenter and sysexit, with the kernel stack k.
InKernel(r, k, u, c) ==
  /\ Kept(r, c) /\ ThreeWords(u, c)
  /\ k[2] = Num(c.number) /\ k[3] = c.ptr
  /\ k[7] = Code("pop_edi") /\ k[8] = Esp(c.base + 3)

IsCall(c) == DOMAIN c = {"followed", "number", "ptr", "regs", "base", "ret"}
IsStack(u) == DOMAIN u = 1 .. 3

CallInv ==
  /\ IsCall(call) /\ IsStack(ustack)
  /\ call.followed =>
       /\ at = "user" => Followed(regs, ustack, call)
       /\ at \in {"exception", "eh_ret"} => Followed(event.regs, ustack, call)
       /\ at \in {"kcall", "sysexit"} => InKernel(regs, kstack, ustack, call)
       /\ at = "sysexit" => /\ regs["eax"] = call.ret
                            /\ seen["kcall_number"] = Num(call.number)
                            /\ seen["arg"] = call.ptr

LEMMA SamePlace == \A x, y : Code(x) = Code(y) => x = y
BY DEF Code

LEMMA SameHeight == \A m, n : Esp(m) = Esp(n) => m = n
BY DEF Esp

\* One step of the stack: what is below stays.
LEMMA PushStep ==
  ASSUME IsStack(ustack), NEW m \in Nat, regs["esp"] = Esp(m), NEW w, NEW r, NEW next,
         push(w, r, next)
  PROVE  /\ IsStack(ustack)' /\ ustack'[m + 1] = w /\ \A i \in 1 .. m : ustack'[i] = ustack[i]
         /\ regs' = [r EXCEPT !["esp"] = Esp(m + 1), !["eip"] = Code(next)]
<1>1. PICK n \in 0 .. 2 :
        /\ regs["esp"] = Esp(n) /\ ustack' = [ustack EXCEPT ![n + 1] = w]
        /\ regs' = [r EXCEPT !["esp"] = Esp(n + 1), !["eip"] = Code(next)]
  BY ZenonT(60) DEF push
<1>2. n = m
  BY <1>1, SameHeight, ZenonT(60)
<1>3. m + 1 \in 1 .. 3 /\ m \in 0 .. 2
  BY <1>2
<1>4. DOMAIN ustack' = 1 .. 3 /\ ustack'[m + 1] = w
  BY <1>1, <1>2, <1>3, ZenonT(60) DEF IsStack
<1>5. ASSUME NEW i \in 1 .. m PROVE ustack'[i] = ustack[i]
  <2>1. i \in 1 .. 3 /\ i # m + 1
    BY <1>3
  <2> QED BY <1>1, <1>2, <2>1, ZenonT(60) DEF IsStack
<1> QED BY <1>1, <1>2, <1>4, <1>5, ZenonT(60) DEF IsStack

LEMMA PopStep ==
  ASSUME NEW m \in Nat, regs["esp"] = Esp(m), NEW reg, NEW next, pop(reg, next)
  PROVE  /\ ustack' = ustack
         /\ regs' = [regs EXCEPT !["eip"] = next, ![reg] = ustack[m], !["esp"] = Esp(m - 1)]
<1>1. PICK n \in 1 .. 3 :
        /\ regs["esp"] = Esp(n) /\ ustack' = ustack
        /\ regs' = [regs EXCEPT !["eip"] = next, ![reg] = ustack[n], !["esp"] = Esp(n - 1)]
  BY ZenonT(60) DEF pop
<1>2. n = m
  BY <1>1, SameHeight, ZenonT(60)
<1> QED BY <1>1, <1>2, ZenonT(60)

\* Sums of the height at which the call started.
LEMMA Heights ==
  ASSUME NEW b \in 0 .. 2
  PROVE  /\ b \in Nat /\ b + 1 \in Nat /\ b + 2 \in Nat /\ b + 3 \in Nat
         /\ (b + 1) + 1 = b + 2 /\ (b + 2) + 1 = b + 3
         /\ (b + 3) - 1 = b + 2 /\ (b + 2) - 1 = b + 1 /\ (b + 1) - 1 = b
         /\ b + 1 \in 1 .. b + 1 /\ b + 1 \in 1 .. b + 2 /\ b + 2 \in 1 .. b + 2
OBVIOUS

\* An instruction of the call, once its effect on the registers is known.
LEMMA Progress ==
  ASSUME CallInv, IsStack(ustack)', call' = call, at = "user", at' = "user",
         call.followed => Followed(regs, ustack, call)'
  PROVE  CallInv'
BY ZenonT(60) DEF CallInv

LEMMA InvokeFollowed ==
  ASSUME EntryInv, CallInv, NEW number \in 0 .. 1, arch_invoke_kcall(number)
  PROVE  CallInv'
<1> DEFINE r == [regs EXCEPT !["eax"] = Num(number)]
<1>1. /\ at = "user" /\ at' = "user" /\ call' = call /\ regs["eip"] = Code(Function(number))
      /\ push(Code("after_call"), r, "push_ebp")
  BY ZenonT(60) DEF arch_invoke_kcall, instruction
<1>2. UserRegs(regs) /\ IsStack(ustack)
  BY <1>1, InUserMode, ZenonT(60) DEF CallInv
<1>3. IsStack(ustack)'
  <2>1. PICK n \in 0 .. 2 : regs["esp"] = Esp(n)
    BY <1>1, ZenonT(60) DEF push
  <2>2. n \in Nat
    BY <2>1
  <2> QED BY <1>1, <1>2, <2>1, <2>2, PushStep, ZenonT(60)
<1>4. ASSUME call.followed PROVE Followed(regs, ustack, call)'
  <2>1. PICK b : b = call.base
    BY ZenonT(60)
  <2>2. Kept(regs, call) /\ Place(regs, ustack, call) /\ b \in 0 .. 2
    BY <1>1, <1>4, <2>1, ZenonT(60) DEF CallInv, Followed, Kept
  <2>3. Called(regs, ustack, call) /\ Function(call.number) = Function(number)
    BY <1>1, <2>2, SamePlace, ZenonT(60) DEF Place, Function
  <2>4. number = call.number
    BY <2>2, <2>3 DEF Kept, Function
  <2>5. regs["esp"] = Esp(b) /\ b \in Nat
    BY <2>1, <2>2, <2>3, Heights, ZenonT(60) DEF Called
  <2>6. /\ ustack'[b + 1] = Code("after_call")
        /\ regs' = [r EXCEPT !["esp"] = Esp(b + 1), !["eip"] = Code("push_ebp")]
    BY <1>1, <1>2, <2>5, PushStep, ZenonT(60)
  <2>7. /\ regs'["eip"] = Code("push_ebp") /\ regs'["esp"] = Esp(b + 1)
        /\ regs'["eax"] = Num(number)
        /\ \A x \in {"esi", "ds", "ebx", "edi", "ebp"} : regs'[x] = regs[x]
    BY <1>2, <2>6, ZenonT(60) DEF UserRegs, IsRegs, Regs, GpRegs
  <2> HIDE DEF r
  <2>8. Invoked(regs, ustack, call)'
    BY <1>1, <2>1, <2>3, <2>4, <2>6, <2>7, ZenonT(60) DEF Invoked, Called, OneWord
  <2>9. Kept(regs, call)'
    BY <1>1, <2>2, <2>7, ZenonT(60) DEF Kept
  <2> QED BY <2>7, <2>8, <2>9, ZenonT(60) DEF Followed, Place
<1> QED BY <1>1, <1>3, <1>4, Progress, ZenonT(60)

LEMMA PushKeepsStack ==
  ASSUME IsStack(ustack), NEW w, NEW r, NEW next, push(w, r, next)
  PROVE  IsStack(ustack)'
<1>1. PICK n \in 0 .. 2 : regs["esp"] = Esp(n)
  BY ZenonT(60) DEF push
<1>2. n \in Nat
  BY <1>1
<1> QED BY <1>1, <1>2, PushStep, ZenonT(60)

LEMMA StubFollowed ==
  ASSUME EntryInv, CallInv, usr_sysenter_stub
  PROVE  CallInv'
<1>1. at = "user" /\ at' = "user" /\ call' = call
  BY ZenonT(60) DEF usr_sysenter_stub, instruction
<1>2. UserRegs(regs) /\ IsStack(ustack)
  BY <1>1, InUserMode, ZenonT(60) DEF CallInv
<1>3. IsStack(ustack)'
  BY <1>2, PushKeepsStack, ZenonT(60) DEF usr_sysenter_stub, mov
<1>4. ASSUME call.followed PROVE Followed(regs, ustack, call)'
  <2>1. PICK b : b = call.base
    BY ZenonT(60)
  <2>2. Kept(regs, call) /\ Place(regs, ustack, call) /\ b \in 0 .. 2
    BY <1>1, <1>4, <2>1, ZenonT(60) DEF CallInv, Followed, Kept
  <2>3. CASE regs["eip"] = Code("push_ebp") /\ push(regs["ebp"], regs, "push_edi")
    <3>1. Invoked(regs, ustack, call)
      BY <2>2, <2>3, SamePlace, ZenonT(60) DEF Place, Function
    <3>2. regs["esp"] = Esp(b + 1) /\ b + 1 \in Nat
      BY <2>1, <2>2, <3>1, Heights, ZenonT(60) DEF Invoked
    <3>3. /\ ustack'[(b + 1) + 1] = regs["ebp"] /\ \A i \in 1 .. b + 1 : ustack'[i] = ustack[i]
          /\ regs' = [regs EXCEPT !["esp"] = Esp((b + 1) + 1), !["eip"] = Code("push_edi")]
      BY <1>2, <2>3, <3>2, PushStep, ZenonT(60)
    <3>4. ustack'[b + 2] = regs["ebp"] /\ ustack'[b + 1] = ustack[b + 1] /\ Esp((b + 1) + 1) = Esp(b + 2)
      BY <2>2, <3>3, Heights, ZenonT(60)
    <3>5. /\ regs'["eip"] = Code("push_edi") /\ regs'["esp"] = Esp(b + 2)
          /\ \A x \in {"esi", "ds", "ebx", "edi", "eax"} : regs'[x] = regs[x]
      BY <1>2, <3>3, <3>4, ZenonT(60) DEF UserRegs, IsRegs, Regs, GpRegs
    <3>6. PushedEbp(regs, ustack, call)'
      BY <1>1, <2>1, <3>1, <3>4, <3>5, ZenonT(60) DEF Invoked, PushedEbp, OneWord, TwoWords
    <3>7. Kept(regs, call)'
      BY <1>1, <2>2, <3>5, ZenonT(60) DEF Kept
    <3> QED BY <3>5, <3>6, <3>7, ZenonT(60) DEF Followed, Place
  <2>4. CASE regs["eip"] = Code("push_edi") /\ push(regs["edi"], regs, "mov_ebp")
    <3>1. PushedEbp(regs, ustack, call)
      BY <2>2, <2>4, SamePlace, ZenonT(60) DEF Place, Function
    <3>2. regs["esp"] = Esp(b + 2) /\ b + 2 \in Nat
      BY <2>1, <2>2, <3>1, Heights, ZenonT(60) DEF PushedEbp
    <3>3. /\ ustack'[(b + 2) + 1] = regs["edi"] /\ \A i \in 1 .. b + 2 : ustack'[i] = ustack[i]
          /\ regs' = [regs EXCEPT !["esp"] = Esp((b + 2) + 1), !["eip"] = Code("mov_ebp")]
      BY <1>2, <2>4, <3>2, PushStep, ZenonT(60)
    <3>4. /\ ustack'[b + 3] = regs["edi"] /\ ustack'[b + 1] = ustack[b + 1]
          /\ ustack'[b + 2] = ustack[b + 2] /\ Esp((b + 2) + 1) = Esp(b + 3)
      BY <2>2, <3>3, Heights, ZenonT(60)
    <3>5. /\ regs'["eip"] = Code("mov_ebp") /\ regs'["esp"] = Esp(b + 3)
          /\ \A x \in {"esi", "ds", "ebx", "eax"} : regs'[x] = regs[x]
      BY <1>2, <3>3, <3>4, ZenonT(60) DEF UserRegs, IsRegs, Regs, GpRegs
    <3>6. PushedEdi(regs, ustack, call)'
      BY <1>1, <2>1, <3>1, <3>4, <3>5, ZenonT(60)
         DEF PushedEbp, PushedEdi, OneWord, TwoWords, ThreeWords
    <3>7. Kept(regs, call)'
      BY <1>1, <2>2, <3>5, ZenonT(60) DEF Kept
    <3> QED BY <3>5, <3>6, <3>7, ZenonT(60) DEF Followed, Place
  <2>5. CASE regs["eip"] = Code("mov_ebp") /\ mov("ebp", regs["esp"], "mov_edi")
    <3>1. PushedEdi(regs, ustack, call)
      BY <2>2, <2>5, SamePlace, ZenonT(60) DEF Place, Function
    <3>2. /\ regs'["eip"] = Code("mov_edi") /\ regs'["ebp"] = regs["esp"] /\ ustack' = ustack
          /\ \A x \in {"esi", "ds", "ebx", "eax", "esp"} : regs'[x] = regs[x]
      BY <1>2, <2>5, ZenonT(60) DEF mov, UserRegs, IsRegs, Regs, GpRegs
    <3>3. StackInEbp(regs, ustack, call)'
      BY <1>1, <3>1, <3>2, ZenonT(60) DEF PushedEdi, StackInEbp
    <3>4. Kept(regs, call)'
      BY <1>1, <2>2, <3>2, ZenonT(60) DEF Kept
    <3> QED BY <3>2, <3>3, <3>4, ZenonT(60) DEF Followed, Place
  <2>6. CASE regs["eip"] = Code("mov_edi") /\ mov("edi", Code("pop_edi"), "sysenter")
    <3>1. StackInEbp(regs, ustack, call)
      BY <2>2, <2>6, SamePlace, ZenonT(60) DEF Place, Function
    <3>2. /\ regs'["eip"] = Code("sysenter") /\ regs'["edi"] = Code("pop_edi") /\ ustack' = ustack
          /\ \A x \in {"esi", "ds", "ebx", "eax", "esp", "ebp"} : regs'[x] = regs[x]
      BY <1>2, <2>6, ZenonT(60) DEF mov, UserRegs, IsRegs, Regs, GpRegs
    <3>3. Ready(regs, ustack, call)'
      BY <1>1, <3>1, <3>2, ZenonT(60) DEF PushedEdi, StackInEbp, Ready
    <3>4. Kept(regs, call)'
      BY <1>1, <2>2, <3>2, ZenonT(60) DEF Kept
    <3> QED BY <3>2, <3>3, <3>4, ZenonT(60) DEF Followed, Place
  <2> QED BY <2>3, <2>4, <2>5, <2>6, ZenonT(60) DEF usr_sysenter_stub, instruction
<1> QED BY <1>1, <1>3, <1>4, Progress, ZenonT(60)

LEMMA StubReturnFollowed ==
  ASSUME EntryInv, CallInv, usr_sysenter_stub_ret
  PROVE  CallInv'
<1>1. at = "user" /\ at' = "user" /\ call' = call /\ ustack' = ustack
  BY ZenonT(60) DEF usr_sysenter_stub_ret, instruction, pop
<1>2. UserRegs(regs) /\ IsStack(ustack)'
  BY <1>1, InUserMode, ZenonT(60) DEF CallInv
<1>3. ASSUME call.followed PROVE Followed(regs, ustack, call)'
  <2>1. PICK b : b = call.base
    BY ZenonT(60)
  <2>2. Kept(regs, call) /\ Place(regs, ustack, call) /\ b \in 0 .. 2
    BY <1>1, <1>3, <2>1, ZenonT(60) DEF CallInv, Followed, Kept
  <2>3. CASE regs["eip"] = Code("pop_edi") /\ pop("edi", Code("pop_ebp"))
    <3>1. Answered(regs, ustack, call)
      BY <2>2, <2>3, SamePlace, ZenonT(60) DEF Place, Function
    <3>2. regs["esp"] = Esp(b + 3) /\ b + 3 \in Nat /\ Esp((b + 3) - 1) = Esp(b + 2)
      BY <2>1, <2>2, <3>1, Heights, ZenonT(60) DEF Answered
    <3>3. regs' = [regs EXCEPT !["eip"] = Code("pop_ebp"), !["edi"] = ustack[b + 3],
                               !["esp"] = Esp((b + 3) - 1)]
      BY <2>3, <3>2, PopStep, ZenonT(60)
    <3>4. /\ regs'["eip"] = Code("pop_ebp") /\ regs'["esp"] = Esp(b + 2)
          /\ regs'["edi"] = ustack[b + 3]
          /\ \A x \in {"esi", "ds", "ebx", "eax"} : regs'[x] = regs[x]
      BY <1>2, <3>2, <3>3, ZenonT(60) DEF UserRegs, IsRegs, Regs, GpRegs
    <3>5. PoppedEdi(regs, ustack, call)'
      BY <1>1, <2>1, <3>1, <3>4, ZenonT(60) DEF Answered, PoppedEdi, ThreeWords
    <3>6. Kept(regs, call)'
      BY <1>1, <2>2, <3>4, ZenonT(60) DEF Kept
    <3> QED BY <3>4, <3>5, <3>6, ZenonT(60) DEF Followed, Place
  <2>4. CASE regs["eip"] = Code("pop_ebp") /\ pop("ebp", Code("ret"))
    <3>1. PoppedEdi(regs, ustack, call)
      BY <2>2, <2>4, SamePlace, ZenonT(60) DEF Place, Function
    <3>2. regs["esp"] = Esp(b + 2) /\ b + 2 \in Nat /\ Esp((b + 2) - 1) = Esp(b + 1)
      BY <2>1, <2>2, <3>1, Heights, ZenonT(60) DEF PoppedEdi
    <3>3. regs' = [regs EXCEPT !["eip"] = Code("ret"), !["ebp"] = ustack[b + 2],
                               !["esp"] = Esp((b + 2) - 1)]
      BY <2>4, <3>2, PopStep, ZenonT(60)
    <3>4. /\ regs'["eip"] = Code("ret") /\ regs'["esp"] = Esp(b + 1)
          /\ regs'["ebp"] = ustack[b + 2]
          /\ \A x \in {"esi", "ds", "ebx", "eax", "edi"} : regs'[x] = regs[x]
      BY <1>2, <3>2, <3>3, ZenonT(60) DEF UserRegs, IsRegs, Regs, GpRegs
    <3>5. PoppedEbp(regs, ustack, call)'
      BY <1>1, <2>1, <3>1, <3>4, ZenonT(60) DEF PoppedEdi, PoppedEbp, TwoWords
    <3>6. Kept(regs, call)'
      BY <1>1, <2>2, <3>4, ZenonT(60) DEF Kept
    <3> QED BY <3>4, <3>5, <3>6, ZenonT(60) DEF Followed, Place
  <2>5. CASE regs["eip"] = Code("ret") /\ pop("eip", Nothing)
    <3>1. PoppedEbp(regs, ustack, call)
      BY <2>2, <2>5, SamePlace, ZenonT(60) DEF Place, Function
    <3>2. regs["esp"] = Esp(b + 1) /\ b + 1 \in Nat /\ Esp((b + 1) - 1) = Esp(b)
      BY <2>1, <2>2, <3>1, Heights, ZenonT(60) DEF PoppedEbp
    <3>3. regs' = [regs EXCEPT !["eip"] = Nothing, !["eip"] = ustack[b + 1],
                               !["esp"] = Esp((b + 1) - 1)]
      BY <2>5, <3>2, PopStep, ZenonT(60)
    <3>4. /\ regs'["eip"] = ustack[b + 1] /\ regs'["esp"] = Esp(b)
          /\ \A x \in {"esi", "ds", "ebx", "eax", "edi", "ebp"} : regs'[x] = regs[x]
      BY <1>2, <3>2, <3>3, ZenonT(60) DEF UserRegs, IsRegs, Regs, GpRegs
    <3>5. Returned(regs, ustack, call)' /\ regs'["eip"] = Code("after_call")
      BY <1>1, <2>1, <3>1, <3>4, ZenonT(60) DEF PoppedEbp, Returned, OneWord
    <3>6. Kept(regs, call)'
      BY <1>1, <2>2, <3>4, ZenonT(60) DEF Kept
    <3> QED BY <3>5, <3>6, ZenonT(60) DEF Followed, Place
  <2> QED BY <2>3, <2>4, <2>5, ZenonT(60) DEF usr_sysenter_stub_ret, instruction
<1> QED BY <1>1, <1>2, <1>3, Progress, ZenonT(60)

LEMMA KcallFollowed ==
  ASSUME EntryInv, CallInv, NEW number \in 0 .. 1, NEW ptr, kcall(number, ptr)
  PROVE  CallInv'
<1>1. PICK n \in 0 .. 2 :
        /\ regs["esp"] = Esp(n)
        /\ call' = [followed |-> TRUE, number |-> number, ptr |-> ptr, regs |-> regs,
                    base |-> n, ret |-> Nothing]
  BY ZenonT(60) DEF kcall
<1>2. /\ at = "user" /\ at' = "user" /\ ustack' = ustack
      /\ regs' = [regs EXCEPT !["ebx"] = ptr, !["eip"] = Code(Function(number))]
  BY ZenonT(60) DEF kcall, InProgram
<1>3. UserRegs(regs)
  BY <1>2, InUserMode, ZenonT(60)
<1>4. /\ call'.number = number /\ call'.ptr = ptr /\ call'.regs = regs /\ call'.base = n
      /\ IsCall(call)'
  <2>1. DOMAIN call' = {"followed", "number", "ptr", "regs", "base", "ret"}
    BY <1>1
  <2> QED BY <1>1, <2>1, ZenonT(60) DEF IsCall
<1>5. /\ regs'["ebx"] = ptr /\ regs'["eip"] = Code(Function(number))
      /\ \A x \in {"esi", "ds", "edi", "ebp", "esp"} : regs'[x] = regs[x]
  BY <1>2, <1>3, ZenonT(60) DEF UserRegs, IsRegs, Regs, GpRegs
<1>6. Kept(regs, call)'
  BY <1>1, <1>4, <1>5, ZenonT(60) DEF Kept
<1>7. Called(regs, ustack, call)'
  BY <1>1, <1>4, <1>5, ZenonT(60) DEF Called
<1>8. Followed(regs, ustack, call)'
  BY <1>4, <1>5, <1>6, <1>7, ZenonT(60) DEF Followed, Place
<1>9. IsStack(ustack)'
  BY <1>2, ZenonT(60) DEF CallInv
<1> QED BY <1>2, <1>4, <1>8, <1>9, ZenonT(60) DEF CallInv

LEMMA SysenterFollowed ==
  ASSUME EntryInv, CallInv, arch_sysenter_stub
  PROVE  CallInv'
<1>1. /\ at = "user" /\ at' = "kcall" /\ UNCHANGED <<ustack, call>>
      /\ regs["eip"] = Code("sysenter") /\ kstack' = Push(<<>>, SysenterWords(regs))
      /\ regs' = [regs EXCEPT !["cs"] = Sel(SysenterCs), !["ss"] = Sel(SysenterCs + 8),
                              !["eflags"] = Flags(FALSE)]
  BY ZenonT(60) DEF arch_sysenter_stub
<1>2. ASSUME call.followed PROVE InKernel(regs, kstack, ustack, call)'
  <2>1. Kept(regs, call) /\ Place(regs, ustack, call)
    BY <1>1, <1>2, ZenonT(60) DEF CallInv, Followed
  <2>2. Ready(regs, ustack, call)
    BY <1>1, <2>1, SamePlace, ZenonT(60) DEF Place, Function
  <2>3. /\ kstack'[2] = regs["eax"] /\ kstack'[3] = regs["ebx"]
        /\ kstack'[7] = regs["edi"] /\ kstack'[8] = regs["ebp"]
    BY <1>1, StubStack, ZenonT(60)
  <2>4. \A x \in {"esi", "ds", "ebx"} : regs'[x] = regs[x]
    BY <1>1, InUserMode, ZenonT(60) DEF UserRegs, IsRegs, Regs, GpRegs
  <2>5. Kept(regs, call)'
    BY <1>1, <2>1, <2>4, ZenonT(60) DEF Kept
  <2> QED BY <1>1, <2>1, <2>2, <2>3, <2>5, ZenonT(60)
             DEF InKernel, Kept, Ready, StackInEbp, PushedEdi
<1> QED BY <1>1, <1>2, ZenonT(60) DEF CallInv

LEMMA KcallHandlerFollowed ==
  ASSUME EntryInv, CallInv, kcall_handler
  PROVE  CallInv'
<1>1. /\ at = "kcall" /\ at' = "sysexit" /\ UNCHANGED <<kstack, ustack>>
      /\ call' = [call EXCEPT !.ret = <<"kernel", 0>>]
      /\ seen' = [kcall_number |-> kstack[2], arg |-> kstack[3]]
      /\ regs' = [regs EXCEPT !["eax"] = <<"kernel", 0>>, !["ecx"] = <<"kernel", 1>>,
                              !["edx"] = <<"kernel", 2>>]
  BY ZenonT(60) DEF kcall_handler
<1>2. /\ IsCall(call)' /\ call'.ret = <<"kernel", 0>> /\ call'.followed = call.followed
      /\ call'.number = call.number /\ call'.ptr = call.ptr /\ call'.regs = call.regs
      /\ call'.base = call.base
  BY <1>1, ZenonT(60) DEF CallInv, IsCall
<1>3. InCall
  BY <1>1, ZenonT(60) DEF EntryInv
<1>4. regs'["eax"] = <<"kernel", 0>> /\ \A x \in {"esi", "ds", "ebx"} : regs'[x] = regs[x]
  BY <1>1, <1>3, ZenonT(60) DEF InCall, KernelRegs, IsRegs, Regs, GpRegs
<1>5. seen'["kcall_number"] = kstack[2] /\ seen'["arg"] = kstack[3]
  BY <1>1, ZenonT(60)
<1>6. ASSUME call.followed PROVE InKernel(regs, kstack, ustack, call)'
                                 /\ kstack[2] = Num(call.number) /\ kstack[3] = call.ptr
  <2>1. InKernel(regs, kstack, ustack, call)
    BY <1>1, <1>6, ZenonT(60) DEF CallInv
  <2>2. Kept(regs, call)'
    BY <1>2, <1>4, <2>1, ZenonT(60) DEF InKernel, Kept
  <2>3. ThreeWords(ustack, call)'
    BY <1>1, <1>2, <2>1, ZenonT(60) DEF InKernel, ThreeWords, TwoWords, OneWord
  <2> QED BY <1>1, <1>2, <2>1, <2>2, <2>3, ZenonT(60) DEF InKernel
<1>7. IsStack(ustack)'
  BY <1>1, ZenonT(60) DEF CallInv
<1> QED BY <1>1, <1>2, <1>4, <1>5, <1>6, <1>7, ZenonT(60) DEF CallInv

LEMMA SysexitFollowed ==
  ASSUME EntryInv, CallInv, sysexit
  PROVE  CallInv'
<1>1. /\ regs' = [regs EXCEPT !["edx"] = kstack[7], !["ecx"] = kstack[8], !["eip"] = kstack[7],
                              !["esp"] = kstack[8], !["cs"] = Sel(SysenterCs + 16 + 3),
                              !["ss"] = Sel(SysenterCs + 24 + 3), !["eflags"] = Flags(TRUE)]
      /\ at = "sysexit" /\ at' = "user" /\ UNCHANGED <<ustack, call>>
  BY ZenonT(60) DEF sysexit
<1>2. InCall
  BY <1>1, ZenonT(60) DEF EntryInv
<1>3. /\ regs'["eip"] = kstack[7] /\ regs'["esp"] = kstack[8]
      /\ \A x \in {"esi", "ds", "ebx", "eax"} : regs'[x] = regs[x]
  BY <1>1, <1>2, ZenonT(60) DEF InCall, KernelRegs, IsRegs, Regs, GpRegs
<1>4. ASSUME call.followed PROVE Followed(regs, ustack, call)'
  <2>1. InKernel(regs, kstack, ustack, call) /\ regs["eax"] = call.ret
    BY <1>1, <1>4, ZenonT(60) DEF CallInv
  <2>2. Kept(regs, call)'
    BY <1>1, <1>3, <2>1, ZenonT(60) DEF InKernel, Kept
  <2>3. Answered(regs, ustack, call)' /\ regs'["eip"] = Code("pop_edi")
    BY <1>1, <1>3, <2>1, ZenonT(60) DEF InKernel, Answered
  <2> QED BY <2>2, <2>3, ZenonT(60) DEF Followed, Place
<1> QED BY <1>1, <1>4, ZenonT(60) DEF CallInv

\* A gate keeps the registers of the program in the history, and eh_common
\* brings them back.
LEMMA GateFollowed ==
  ASSUME CallInv, at = "user", at' \in {"exception", "irq"}, event'.regs = regs,
         UNCHANGED <<ustack, call>>
  PROVE  CallInv'
BY ZenonT(60) DEF CallInv

LEMMA HardwareFollowed ==
  ASSUME CallInv, NEW v, hardware(v)
  PROVE  CallInv'
<1>1. at = "user" /\ at' \in {"exception", "irq"} /\ UNCHANGED <<ustack, call>>
  BY ZenonT(60) DEF hardware, Through
<1>2. event'.regs = regs
  BY ZenonT(60) DEF hardware, Record
<1> QED BY <1>1, <1>2, GateFollowed, ZenonT(60)

LEMMA SoftwareFollowed ==
  ASSUME CallInv, NEW n, software_int(n)
  PROVE  CallInv'
<1>1. at = "user" /\ at' \in {"exception", "irq"} /\ UNCHANGED <<ustack, call>>
  BY ZenonT(60) DEF software_int, Through, InProgram
<1>2. event'.regs = regs
  BY ZenonT(60) DEF software_int, Record
<1> QED BY <1>1, <1>2, GateFollowed, ZenonT(60)

LEMMA HandlersFollowed ==
  ASSUME CallInv, exception_handler \/ \E saves \in BOOLEAN : interrupt_handler(saves)
  PROVE  CallInv'
<1>1. CASE exception_handler
  <2>1. at = "exception" /\ at' = "eh_ret" /\ UNCHANGED <<ustack, call, event>>
    BY <1>1, ZenonT(60) DEF exception_handler
  <2> QED BY <2>1, ZenonT(60) DEF CallInv
<1>2. CASE \E saves \in BOOLEAN : interrupt_handler(saves)
  <2>1. at' = "irq_ret" /\ UNCHANGED <<ustack, call>>
    BY <1>2, ZenonT(60) DEF interrupt_handler
  <2> QED BY <2>1, ZenonT(60) DEF CallInv
<1> QED BY <1>1, <1>2, ZenonT(60)

LEMMA EhReturnFollowed ==
  ASSUME EntryInv, CallInv, eh_common
  PROVE  CallInv'
<1>1. at = "eh_ret" /\ at' = "user" /\ UNCHANGED <<ustack, call>>
  BY ZenonT(60) DEF eh_common
<1>2. regs' = event.regs
  BY EhReturnInv, ZenonT(60)
<1> QED BY <1>1, <1>2, ZenonT(60) DEF CallInv

LEMMA NoCallFollowed ==
  ASSUME CallInv, call' = NoCall, ustack' = ustack
  PROVE  CallInv'
<1>1. DOMAIN NoCall = {"followed", "number", "ptr", "regs", "base", "ret"}
  BY DEF NoCall
<1>2. ~ NoCall.followed
  BY ZenonT(60) DEF NoCall
<1> QED BY <1>1, <1>2, ZenonT(60) DEF CallInv, IsCall

LEMMA CallInitInv == EntryInit => CallInv
<1> SUFFICES ASSUME EntryInit PROVE CallInv
  BY ZenonT(60)
<1>1. IsCall(call)
  BY DEF EntryInit, IsCall, NoCall
<1>2. ~ call.followed
  BY ZenonT(60) DEF EntryInit, NoCall
<1>3. IsStack(ustack)
  BY ZenonT(60) DEF EntryInit, IsStack
<1> QED BY <1>1, <1>2, <1>3, ZenonT(60) DEF CallInv

LEMMA CallNextInv == EntryInv /\ CallInv /\ [EntryNext]_entryVars => CallInv'
<1> SUFFICES ASSUME EntryInv, CallInv, [EntryNext]_entryVars PROVE CallInv'
  BY ZenonT(60)
<1>1. CASE UNCHANGED entryVars
  BY <1>1, ZenonT(60) DEF entryVars, CallInv
<1>2. CASE arch_return_to_user \/ \E f \in Files : user_step(f)
  <2>1. call' = NoCall /\ ustack' = ustack
    BY <1>2, ZenonT(60) DEF arch_return_to_user, user_step
  <2> QED BY <2>1, NoCallFollowed, ZenonT(60)
<1>3. CASE EntryNext
  BY <1>2, <1>3, HardwareFollowed, SoftwareFollowed, HandlersFollowed, EhReturnFollowed,
     KcallFollowed, InvokeFollowed, StubFollowed, SysenterFollowed, KcallHandlerFollowed,
     SysexitFollowed, StubReturnFollowed, ZenonT(60) DEF EntryNext
<1> QED BY <1>1, <1>3, ZenonT(60)

\* The two halves of the sysenter path (syscall.c, usr_sysenter_stub and
\* arch_sysenter_stub) make a kernel call a function call, with exceptions
\* between any two of its instructions in user mode, as long as no device
\* interrupts it.
THEOREM KernelCallsAreCalls == EntrySpec => []KernelCallIsACall
<1>1. ASSUME CallInv PROVE KernelCallIsACall
  <2>1. ASSUME call.followed, at = "user", regs["eip"] = Code("after_call")
        PROVE  /\ regs["eax"] = call.ret /\ regs["ebx"] = call.ptr
               /\ \A r \in {"esi", "edi", "ebp", "esp", "ds"} : regs[r] = call.regs[r]
    <3>1. Kept(regs, call) /\ Place(regs, ustack, call)
      BY <1>1, <2>1, ZenonT(60) DEF CallInv, Followed
    <3>2. Returned(regs, ustack, call)
      BY <2>1, <3>1, SamePlace, ZenonT(60) DEF Place, Function
    <3> QED BY <3>1, <3>2, ZenonT(60) DEF Kept, Returned
  <2> QED BY <1>1, <2>1, ZenonT(60) DEF CallInv, KernelCallIsACall
<1>2. EntrySpec => []CallInv
  BY CallInitInv, CallNextInv, EntryAlways, PTL DEF EntrySpec
<1> QED BY <1>1, <1>2, PTL

=============================================================================
