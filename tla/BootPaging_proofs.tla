------------------------- MODULE BootPaging_proofs -------------------------
(***************************************************************************)
(* Proofs about BootPaging: what bootstrap_fetch_page hands out has one    *)
(* owner, for every size of the kernel, of the tables, of the modules and  *)
(* of their segments, given what bootstrap_mmap owes its callers.          *)
(***************************************************************************)
EXTENDS BootPaging, PrivateMemory, WellFoundedInduction, TLAPS

\* Every step below is tried with the SMT solver, unless it names another prover.
USE SMTT(60)

-----------------------------------------------------------------------------
(* The layout *)

LEMMA Least ==
  ASSUME NEW S \in SUBSET Nat, S # {}
  PROVE  \E n \in S : \A k \in S : n <= k
<1> DEFINE Less == OpToRel(<, Nat)
<1>1. IsWellFoundedOn(Less, Nat)
  BY NatLessThanWellFounded, ZenonT(60)
<1>2. \A x, y \in Nat : y < x => <<y, x>> \in Less
  BY ZenonT(60) DEF OpToRel
<1> HIDE DEF Less
<1>3. PICK n \in S : \A y \in S : ~ (<<y, n>> \in Less)
  BY <1>1, WFMin, ZenonT(60)
<1>4. ASSUME NEW k \in S PROVE n <= k
  <2>1. ~ (k < n)
    BY <1>2, <1>3, ZenonT(60)
  <2> QED BY <2>1
<1> QED BY <1>4, ZenonT(60)

\* f holds the sums of the first members of s.
AddsUp(s, n, f) ==
  /\ f \in [0 .. n -> Nat]
  /\ f[0] = 0
  /\ \A j \in 1 .. n : f[j] = f[j - 1] + s[j]

LEMMA SumsExist ==
  ASSUME NEW s \in Seq(Nat), NEW n \in 0 .. Len(s)
  PROVE  \E f : AddsUp(s, n, f)
<1> DEFINE Bad == {k \in 0 .. Len(s) : ~ \E f : AddsUp(s, k, f)}
<1>1. SUFFICES ASSUME Bad # {} PROVE FALSE
  BY <1>1, ZenonT(60)
<1>2. PICK k \in Bad : \A j \in Bad : k <= j
  <2>1. Bad \in SUBSET Nat OBVIOUS
  <2> HIDE DEF Bad
  <2> QED BY <1>1, <2>1, Least, ZenonT(60)
<1>3. k \in 0 .. Len(s) /\ ~ \E f : AddsUp(s, k, f)
  BY <1>2, ZenonT(60)
<1>4. k # 0
  <2>1. AddsUp(s, 0, [j \in 0 .. 0 |-> 0])
    BY DEF AddsUp
  <2> QED BY <1>3, <2>1, ZenonT(60)
<1>5. k - 1 \in 0 .. Len(s) /\ ~ (k <= k - 1)
  BY <1>3, <1>4
<1>6. PICK f : AddsUp(s, k - 1, f)
  BY <1>2, <1>5, ZenonT(60)
<1> DEFINE g == [j \in 0 .. k |-> IF j < k THEN f[j] ELSE f[k - 1] + s[k]]
<1>7. f[k - 1] + s[k] \in Nat
  BY <1>3, <1>4, <1>6 DEF AddsUp
<1>8. AddsUp(s, k, g)
  BY <1>3, <1>4, <1>6, <1>7 DEF AddsUp
<1> QED BY <1>3, <1>8, ZenonT(60)

\* What lies in front of an item.
LEMMA Layout ==
  ASSUME NEW s \in Seq(Nat)
  PROVE  /\ Before(s, 1) = 0
         /\ \A i \in 1 .. Len(s) + 1 : Before(s, i) \in Nat
         /\ \A i \in 1 .. Len(s) : Before(s, i + 1) = Before(s, i) + s[i]
<1> DEFINE n == Len(s)
           IsSum(f) == f = [j \in 0 .. n |-> IF j = 0 THEN 0 ELSE f[j - 1] + s[j]]
<1>1. n \in Nat /\ n \in 0 .. n
  OBVIOUS
<1>2. PICK f : AddsUp(s, n, f)
  BY <1>1, SumsExist, ZenonT(60)
<1>3. IsSum(f)
  BY <1>1, <1>2 DEF AddsUp
<1>4. Sums(s) = CHOOSE g : IsSum(g)
  BY ZenonT(60) DEF Sums
<1>5. IsSum(Sums(s))
  BY <1>3, <1>4, ZenonT(60)
<1>6. PICK sum : sum = Sums(s) /\ IsSum(sum)
  BY <1>5, ZenonT(60)
<1>7. sum[0] = 0 /\ \A j \in 1 .. n : sum[j] = sum[j - 1] + s[j]
  BY <1>1, <1>6
<1> DEFINE Bad == {j \in 0 .. n : sum[j] \notin Nat}
<1>8. Bad = {}
  <2>1. SUFFICES ASSUME Bad # {} PROVE FALSE
    BY ZenonT(60)
  <2>2. Bad \in SUBSET Nat
    BY <1>1
  <2>3. PICK k \in Bad : \A j \in Bad : k <= j
    <3> HIDE DEF Bad
    <3> QED BY <2>1, <2>2, Least, ZenonT(60)
  <2>4. k \in 1 .. n /\ sum[k] \notin Nat
    BY <1>1, <1>7, <2>3
  <2>5. k - 1 \in 0 .. n /\ ~ (k <= k - 1)
    BY <1>1, <2>4
  <2>6. sum[k - 1] \in Nat
    BY <2>3, <2>5, ZenonT(60)
  <2>7. s[k] \in Nat
    BY <2>4
  <2> QED BY <1>7, <2>4, <2>6, <2>7
<1> HIDE DEF IsSum
<1>9. \A i \in 1 .. n + 1 : Before(s, i) = sum[i - 1] /\ i - 1 \in 0 .. n
  BY <1>1, <1>6 DEF Before
<1>10. ASSUME NEW i \in 1 .. n + 1 PROVE Before(s, i) \in Nat
  BY <1>8, <1>9, ZenonT(60)
<1>11. ASSUME NEW i \in 1 .. n PROVE Before(s, i + 1) = Before(s, i) + s[i]
  <2>1. i \in 1 .. n + 1 /\ i + 1 \in 1 .. n + 1 /\ (i + 1) - 1 = i
    BY <1>1
  <2>2. Before(s, i + 1) = sum[i] /\ Before(s, i) = sum[i - 1]
    BY <1>9, <2>1, ZenonT(60)
  <2> QED BY <1>7, <2>2, ZenonT(60)
<1>12. Before(s, 1) = 0
  <2>1. 1 \in 1 .. n + 1 /\ 1 - 1 = 0
    BY <1>1
  <2> QED BY <1>7, <1>9, <2>1, ZenonT(60)
<1> QED BY <1>10, <1>11, <1>12, ZenonT(60)

\* Later items begin later.
LEMMA LayoutOrder ==
  ASSUME NEW s \in Seq(Nat)
  PROVE  \A i \in 1 .. Len(s) + 1 : Before(s, i) <= Before(s, Len(s) + 1)
<1> DEFINE n == Len(s)
           Good == {d \in 0 .. n : Before(s, n + 1 - d) <= Before(s, n + 1)}
           Bad == (0 .. n) \ Good
<1>1. n \in Nat
  OBVIOUS
<1>2. /\ \A i \in 1 .. n + 1 : Before(s, i) \in Nat
      /\ \A i \in 1 .. n : Before(s, i + 1) = Before(s, i) + s[i] /\ s[i] \in Nat
  BY Layout
<1>3. Bad = {}
  <2>1. SUFFICES ASSUME Bad # {} PROVE FALSE
    BY ZenonT(60)
  <2>2. Bad \in SUBSET Nat
    BY <1>1
  <2>3. PICK d \in Bad : \A e \in Bad : d <= e
    <3> HIDE DEF Bad
    <3> QED BY <2>1, <2>2, Least, ZenonT(60)
  <2>4. d \in 0 .. n /\ ~ (Before(s, n + 1 - d) <= Before(s, n + 1))
    BY <2>3, ZenonT(60)
  <2>5. d # 0
    BY <1>1, <1>2, <2>4
  <2>6. d - 1 \in 0 .. n /\ ~ (d <= d - 1) /\ n + 1 - d \in 1 .. n
        /\ n + 1 - (d - 1) = (n + 1 - d) + 1
        /\ n + 1 - d \in 1 .. n + 1 /\ n + 1 \in 1 .. n + 1
    BY <1>1, <2>4, <2>5
  <2>7. Before(s, (n + 1 - d) + 1) <= Before(s, n + 1)
    BY <2>3, <2>6, ZenonT(60)
  <2>8. /\ Before(s, (n + 1 - d) + 1) = Before(s, n + 1 - d) + s[n + 1 - d]
        /\ s[n + 1 - d] \in Nat /\ Before(s, n + 1 - d) \in Nat /\ Before(s, n + 1) \in Nat
    BY <1>2, <2>6, ZenonT(60)
  <2> QED BY <2>4, <2>7, <2>8
<1>4. ASSUME NEW i \in 1 .. n + 1 PROVE Before(s, i) <= Before(s, n + 1)
  <2>1. n + 1 - i \in 0 .. n /\ n + 1 - (n + 1 - i) = i
    BY <1>1
  <2> QED BY <1>3, <2>1, ZenonT(60)
<1> QED BY <1>4, ZenonT(60)

\* The tables at the start of the kernel lie below its end, and the images
\* behind that.
LEMMA Frames ==
  ASSUME images \in Seq(Nat)
  PROVE  /\ {BootPt, BootPd, PageDirectory, KernelPt, BootKernelPt, BootstrapPt, ModulePt}
               \subseteq 0 .. KernelEnd - 1
         /\ KernelEnd \in Nat /\ ImagesEnd \in Nat /\ KernelEnd <= ImagesEnd
         /\ \A i \in 1 .. 9 : SectionStart(i) \in Nat
<1>1. SectionPages \in Seq(Nat) /\ Len(SectionPages) = 8 /\ SectionPages[1] = 6
  BY LayoutAssumption DEF SectionPages, KtablePages
<1>2. KernelStart \in Nat
  BY LayoutAssumption DEF KernelStart
<1>3. \A i \in 1 .. 9 : Before(SectionPages, i) \in Nat /\ Before(SectionPages, i) <= Before(SectionPages, 9)
  <2>1. Len(SectionPages) + 1 = 9
    BY <1>1
  <2>2. \A i \in 1 .. Len(SectionPages) + 1 :
          /\ Before(SectionPages, i) \in Nat
          /\ Before(SectionPages, i) <= Before(SectionPages, Len(SectionPages) + 1)
    BY <1>1, Layout, LayoutOrder, ZenonT(60)
  <2> QED BY <2>1, <2>2, ZenonT(60)
<1>4. Before(SectionPages, 2) = 6
  <2>1. /\ Before(SectionPages, 1) = 0
        /\ \A i \in 1 .. Len(SectionPages) :
             Before(SectionPages, i + 1) = Before(SectionPages, i) + SectionPages[i]
    BY <1>1, Layout, ZenonT(60)
  <2>2. Before(SectionPages, 1 + 1) = Before(SectionPages, 1) + SectionPages[1]
    BY <1>1, <2>1
  <2> QED BY <1>1, <2>1, <2>2
<1>5. \A i \in 1 .. 9 : SectionStart(i) \in Nat
  BY ONLY <1>2, <1>3 DEF SectionStart
<1>6. KernelEnd \in Nat /\ KernelStart + 6 <= KernelEnd
  <2>1. Before(SectionPages, 2) <= Before(SectionPages, 9) /\ Before(SectionPages, 9) \in Nat
    BY <1>3
  <2> QED BY ONLY <1>2, <1>4, <2>1 DEF SectionStart, KernelEnd
<1>7. Before(images, Len(images) + 1) \in Nat
  BY Layout
<1>8. ImagesEnd \in Nat /\ KernelEnd <= ImagesEnd
  BY <1>6, <1>7 DEF ImagesEnd, ImageStart
<1>9. LowFrames \in Nat /\ LowFrames < KernelStart
  BY LayoutAssumption DEF KernelStart
<1>10. BootPt \in Nat /\ BootPt < KernelStart
  BY <1>9, ZenonT(60) DEF BootPt
<1>11. {BootPd, PageDirectory, KernelPt, BootKernelPt, BootstrapPt, ModulePt}
         \subseteq KernelStart .. KernelStart + 5
  BY <1>2 DEF BootPd, PageDirectory, KernelPt, BootKernelPt, BootstrapPt, ModulePt
<1>12. KernelStart .. KernelStart + 5 \subseteq 0 .. KernelEnd - 1 /\ BootPt \in 0 .. KernelEnd - 1
  BY <1>2, <1>6, <1>10
<1> QED BY <1>5, <1>6, <1>8, <1>11, <1>12, ZenonT(60)


-----------------------------------------------------------------------------
(* The layout in bytes *)

\* Division with remainder is unique.
LEMMA Unique ==
  ASSUME NEW d \in Nat \ {0}, NEW q \in Nat, NEW r \in Nat, NEW i \in Nat, NEW j \in Nat, i < d, j < d,
         d * q + i = d * r + j
  PROVE  q = r
<1>1. ASSUME NEW a \in Nat, NEW b \in Nat, a < b PROVE d * a + d <= d * b
  <2>1. PICK c \in Nat : b = a + 1 + c
    <3>1. b - a - 1 \in Nat /\ b = a + 1 + (b - a - 1) BY <1>1
    <3> QED BY <3>1, ZenonT(60)
  <2>2. d * c \in Nat /\ d * a \in Nat OBVIOUS
  <2>3. d * b = d * a + d + d * c BY <2>1
  <2> QED BY <2>2, <2>3
<1>2. d * q \in Nat /\ d * r \in Nat OBVIOUS
<1>3. ~ (q < r) BY <1>1, <1>2
<1>4. ~ (r < q) BY <1>1, <1>2
<1> QED BY <1>3, <1>4

LEMMA Division ==
  ASSUME NEW n \in Nat, NEW d \in Nat \ {0}
  PROVE  n \div d \in Nat /\ n % d \in Nat /\ n % d < d /\ n = d * (n \div d) + (n % d)
OBVIOUS

\* A multiple is divided without remainder.
LEMMA Multiples ==
  ASSUME NEW d \in Nat \ {0}, NEW c \in Nat
  PROVE  d * c \in Nat /\ (d * c) \div d = c /\ (d * c) % d = 0
<1>1. d * c \in Nat
  OBVIOUS
<1>2. PICK n \in Nat : n = d * c
  BY <1>1, ZenonT(60)
<1>3. n \div d \in Nat /\ n % d \in Nat /\ n % d < d /\ n = d * (n \div d) + (n % d)
  BY Division, ZenonT(60)
<1>4. d * (n \div d) + (n % d) = d * c + 0 /\ 0 \in Nat /\ 0 < d
  BY <1>1, <1>2, <1>3
<1>5. n \div d = c
  BY <1>3, <1>4, Unique, ZenonT(60)
<1>6. n % d = 0
  BY <1>1, <1>2, <1>3, <1>5
<1> QED BY <1>1, <1>2, <1>5, <1>6, ZenonT(60)

\* What the type of a sequence says of its elements.
LEMMA Elements ==
  ASSUME NEW S, NEW s \in Seq(S)
  PROVE  /\ Len(s) \in Nat /\ DOMAIN s = 1 .. Len(s) /\ (\A i \in 1 .. Len(s) : s[i] \in S)
         /\ s # <<>> => 1 \in 1 .. Len(s)
OBVIOUS

\* Modules that lie in whole pages one behind the other, from page base on:
\* their sizes in pages add up to where each of them begins and ends.
Adjacent(ms, base) ==
    /\ ms \in Seq([start : Nat, end : Nat])
    /\ \A i \in 1 .. Len(ms) :
         /\ ms[i].start = IF i = 1 THEN base * PAGE_SIZE ELSE ms[i - 1].end
         /\ ms[i].end % PAGE_SIZE = 0
         /\ ms[i].start <= ms[i].end

PagesIn(span) == (span.end - span.start) \div PAGE_SIZE

LEMMA WholePages ==
  ASSUME NEW a \in Nat, NEW b \in Nat, a * PAGE_SIZE <= b, b % PAGE_SIZE = 0
  PROVE  /\ (b - a * PAGE_SIZE) \div PAGE_SIZE \in Nat
         /\ (a + ((b - a * PAGE_SIZE) \div PAGE_SIZE)) * PAGE_SIZE = b
<1>1. PICK d \in Nat \ {0} : d = PAGE_SIZE
  BY PagingAssumption, ZenonT(60)
<1>2. PICK q \in Nat : b = d * q
  <2>1. b \div d \in Nat /\ b = d * (b \div d) + (b % d)
    BY Division, ZenonT(60)
  <2>2. d * (b \div d) \in Nat /\ b = d * (b \div d)
    BY ONLY <1>1, <2>1, b % PAGE_SIZE = 0, d \in Nat \ {0}, b \in Nat
  <2> QED BY <2>1, <2>2, ZenonT(60)
<1>3. a <= q
  <2>1. SUFFICES ASSUME q < a PROVE FALSE
    BY ONLY <2>1, q \in Nat, a \in Nat
  <2>2. PICK c \in Nat : a = q + 1 + c
    <3>1. a - q - 1 \in Nat /\ a = q + 1 + (a - q - 1)
      BY ONLY <2>1, q \in Nat, a \in Nat
    <3> QED BY <3>1, ZenonT(60)
  <2>3. d * a = d * q + d + d * c /\ d * c \in Nat /\ d * q \in Nat
    BY ONLY <2>2, d \in Nat \ {0}, c \in Nat, q \in Nat
  <2>4. a * PAGE_SIZE = d * a
    BY ONLY <1>1, d \in Nat \ {0}, a \in Nat
  <2> QED BY ONLY <1>2, <2>3, <2>4, a * PAGE_SIZE <= b, d \in Nat \ {0}
<1>4. PICK c \in Nat : q = a + c
  <2>1. q - a \in Nat /\ q = a + (q - a)
    BY ONLY <1>3, q \in Nat, a \in Nat
  <2> QED BY <2>1, ZenonT(60)
<1>5. b - a * PAGE_SIZE = d * c
  BY ONLY <1>1, <1>2, <1>4, d \in Nat \ {0}, c \in Nat, a \in Nat
<1>6. (d * c) \div d = c
  BY Multiples, ZenonT(60)
<1>7. (a + c) * PAGE_SIZE = b
  BY ONLY <1>1, <1>2, <1>4, d \in Nat \ {0}, c \in Nat, a \in Nat
<1> QED BY <1>1, <1>5, <1>6, <1>7, ZenonT(60)

\* Each module ends at a page that the one before it and its size give.
LEMMA PagesOfAdjacent ==
  ASSUME NEW ms, NEW base \in Nat, Adjacent(ms, base),
         NEW im, im = [i \in DOMAIN ms |-> PagesIn(ms[i])]
  PROVE  /\ im \in Seq(Nat) /\ Len(im) = Len(ms)
         /\ \A i \in 1 .. Len(ms) : /\ (base + Before(im, i)) * PAGE_SIZE = ms[i].start
                                    /\ (base + Before(im, i + 1)) * PAGE_SIZE = ms[i].end
<1>1. PICK n \in Nat : n = Len(ms) /\ DOMAIN ms = 1 .. n
  BY DEF Adjacent
<1>2. \A i \in 1 .. n : /\ ms[i].start \in Nat /\ ms[i].end \in Nat
                        /\ ms[i].start = IF i = 1 THEN base * PAGE_SIZE ELSE ms[i - 1].end
                        /\ ms[i].end % PAGE_SIZE = 0 /\ ms[i].start <= ms[i].end
  <2>1. ms \in Seq([start : Nat, end : Nat])
    BY ZenonT(60) DEF Adjacent
  <2>2. \A i \in 1 .. n : ms[i] \in [start : Nat, end : Nat]
    BY <1>1, <2>1, Elements, ZenonT(60)
  <2>3. \A i \in 1 .. n : ms[i].start \in Nat /\ ms[i].end \in Nat
    BY <2>2, ZenonT(60)
  <2> QED BY <1>1, <2>3, ZenonT(60) DEF Adjacent
<1>3. \A i \in 1 .. n : \E k \in Nat : ms[i].start = k * PAGE_SIZE
  <2>1. TAKE i \in 1 .. n
  <2>2. CASE i = 1
    <3>1. ms[i].start = base * PAGE_SIZE
      BY <1>2, <2>2, ZenonT(60)
    <3> QED BY <3>1, ZenonT(60)
  <2>3. CASE i # 1
    <3>1. i - 1 \in 1 .. n
      BY ONLY <2>1, <2>3, n \in Nat
    <3>2. PICK b \in Nat : b = ms[i - 1].end /\ b % PAGE_SIZE = 0 /\ ms[i].start = b
      BY <1>2, <2>1, <2>3, <3>1, ZenonT(60)
    <3>3. 0 \in Nat /\ 0 * PAGE_SIZE <= b /\ b - 0 * PAGE_SIZE = b
      BY PagingAssumption, b \in Nat
    <3>4. (b - 0 * PAGE_SIZE) \div PAGE_SIZE \in Nat
          /\ (0 + ((b - 0 * PAGE_SIZE) \div PAGE_SIZE)) * PAGE_SIZE = b
      BY <3>2, <3>3, WholePages, ZenonT(60)
    <3>5. PICK k : k = (b - 0 * PAGE_SIZE) \div PAGE_SIZE
      BY ZenonT(60)
    <3>6. k \in Nat /\ (0 + k) * PAGE_SIZE = b
      BY <3>4, <3>5, ZenonT(60)
    <3>7. 0 + k = k
      BY ONLY <3>6
    <3> QED BY <3>2, <3>6, <3>7, ZenonT(60)
  <2> QED BY <2>2, <2>3, ZenonT(60)
<1>4. \A i \in 1 .. n : /\ PagesIn(ms[i]) \in Nat
                        /\ \A a \in Nat : ms[i].start = a * PAGE_SIZE
                              => (a + PagesIn(ms[i])) * PAGE_SIZE = ms[i].end
  <2>1. TAKE i \in 1 .. n
  <2>2. PICK b \in Nat : b = ms[i].end /\ b % PAGE_SIZE = 0 /\ ms[i].start <= b
    BY <1>2, <2>1, ZenonT(60)
  <2>3. ASSUME NEW a \in Nat, ms[i].start = a * PAGE_SIZE
        PROVE  PagesIn(ms[i]) \in Nat /\ (a + PagesIn(ms[i])) * PAGE_SIZE = ms[i].end
    <3>1. PagesIn(ms[i]) = (b - a * PAGE_SIZE) \div PAGE_SIZE /\ a * PAGE_SIZE <= b
      BY <2>2, <2>3, ZenonT(60) DEF PagesIn
    <3> QED BY <2>2, <3>1, WholePages, ZenonT(60)
  <2> QED BY <1>3, <2>1, <2>3, ZenonT(60)
<1>5. im \in Seq(Nat) /\ Len(im) = n /\ \A i \in 1 .. n : im[i] = PagesIn(ms[i])
  <2>1. im = [i \in 1 .. n |-> PagesIn(ms[i])]
    BY <1>1, ZenonT(60)
  <2> QED BY ONLY <1>4, <2>1, n \in Nat
<1>6. /\ Before(im, 1) = 0 /\ \A i \in 1 .. n + 1 : Before(im, i) \in Nat
      /\ \A i \in 1 .. n : Before(im, i + 1) = Before(im, i) + im[i]
  BY <1>5, Layout, ZenonT(60)
<1> DEFINE Bad == {i \in 1 .. n : (base + Before(im, i)) * PAGE_SIZE # ms[i].start}
<1>7. ASSUME NEW i \in 1 .. n, (base + Before(im, i)) * PAGE_SIZE = ms[i].start
      PROVE  (base + Before(im, i + 1)) * PAGE_SIZE = ms[i].end
  <2>1. i \in 1 .. n + 1
    BY ONLY i \in 1 .. n, n \in Nat
  <2>2. PICK x \in Nat : x = Before(im, i)
    BY <1>6, <2>1, ZenonT(60)
  <2>3. PICK y \in Nat : y = PagesIn(ms[i])
    BY <1>4, ZenonT(60)
  <2>4. Before(im, i + 1) = x + y
    BY <1>5, <1>6, <2>2, <2>3, ZenonT(60)
  <2>5. base + x \in Nat /\ (base + x) + y = base + (x + y)
    BY ONLY base \in Nat, x \in Nat, y \in Nat
  <2>6. ((base + x) + y) * PAGE_SIZE = ms[i].end
    BY <1>4, <1>7, <2>2, <2>3, <2>5, ZenonT(60)
  <2> QED BY <2>4, <2>5, <2>6, ZenonT(60)
<1>8. Bad = {}
  <2>1. SUFFICES ASSUME Bad # {} PROVE FALSE
    BY ZenonT(60)
  <2>2. PICK i \in Bad : \A j \in Bad : i <= j
    <3>1. Bad \in SUBSET Nat
      OBVIOUS
    <3> HIDE DEF Bad
    <3> QED BY <2>1, <3>1, Least, ZenonT(60)
  <2>3. i \in 1 .. n /\ (base + Before(im, i)) * PAGE_SIZE # ms[i].start
    BY <2>2, ZenonT(60)
  <2>4. CASE i = 1
    <3>1. base + 0 = base
      BY ONLY base \in Nat
    <3> QED BY <1>2, <1>6, <2>3, <2>4, <3>1, ZenonT(60)
  <2>5. CASE i # 1
    <3>1. i - 1 \in 1 .. n /\ (i - 1) + 1 = i /\ ~ (i <= i - 1)
      BY ONLY <2>3, <2>5, n \in Nat
    <3>2. (base + Before(im, i - 1)) * PAGE_SIZE = ms[i - 1].start
      BY <2>2, <3>1, ZenonT(60)
    <3>3. (base + Before(im, i)) * PAGE_SIZE = ms[i - 1].end
      BY <1>7, <3>1, <3>2, ZenonT(60)
    <3> QED BY <1>2, <2>3, <2>5, <3>3, ZenonT(60)
  <2> QED BY <2>4, <2>5, ZenonT(60)
<1> QED BY <1>1, <1>5, <1>7, <1>8, ZenonT(60)

\* In bytes, the layout of BootPaging is one Early may be given.
LEMMA LayoutInBytes ==
  ASSUME images \in Seq(Nat)
  PROVE
  /\ LowFrames * PAGE_SIZE \in Nat /\ KernelStart * PAGE_SIZE \in Nat
     /\ KernelEnd * PAGE_SIZE \in Nat
  /\ LowFrames * PAGE_SIZE <= KernelStart * PAGE_SIZE
     /\ KernelStart * PAGE_SIZE < KernelEnd * PAGE_SIZE
  /\ (KernelEnd * PAGE_SIZE) % PAGE_SIZE = 0
<1>1. LowFrames \in Nat /\ KernelStart \in Nat /\ LowFrames <= KernelStart
  BY LayoutAssumption DEF KernelStart
<1>2. KernelEnd \in Nat /\ KernelStart < KernelEnd
  <2>1. BootPd \in 0 .. KernelEnd - 1 /\ KernelEnd \in Nat
    BY Frames, ZenonT(60)
  <2> QED BY ONLY <1>1, <2>1 DEF BootPd
<1>3. PAGE_SIZE \in Nat \ {0}
  BY PagingAssumption, ZenonT(60)
<1>4. ASSUME NEW a \in Nat, NEW b \in Nat, a <= b
      PROVE  a * PAGE_SIZE \in Nat /\ a * PAGE_SIZE <= b * PAGE_SIZE
             /\ (a < b => a * PAGE_SIZE < b * PAGE_SIZE)
  <2>1. PICK c \in Nat : b = a + c
    <3>1. b - a \in Nat /\ b = a + (b - a) BY ONLY <1>4
    <3> QED BY <3>1, ZenonT(60)
  <2>2. c * PAGE_SIZE \in Nat /\ a * PAGE_SIZE \in Nat /\ (c # 0 => c * PAGE_SIZE > 0)
    BY ONLY <1>3, c \in Nat, a \in Nat
  <2>3. b * PAGE_SIZE = a * PAGE_SIZE + c * PAGE_SIZE
    BY ONLY <2>1, <1>3, c \in Nat, a \in Nat
  <2>4. a < b => c # 0
    BY ONLY <2>1, a \in Nat, c \in Nat
  <2> QED BY ONLY <2>2, <2>3, <2>4
<1>5. LowFrames * PAGE_SIZE \in Nat /\ LowFrames * PAGE_SIZE <= KernelStart * PAGE_SIZE
  BY <1>1, <1>4, ZenonT(60)
<1>6. KernelStart * PAGE_SIZE \in Nat /\ KernelStart * PAGE_SIZE < KernelEnd * PAGE_SIZE
  <2>1. KernelStart <= KernelEnd
    BY ONLY <1>1, <1>2
  <2> QED BY <1>1, <1>2, <1>4, <2>1, ZenonT(60)
<1>7. PAGE_SIZE * KernelEnd \in Nat /\ (PAGE_SIZE * KernelEnd) % PAGE_SIZE = 0
  BY <1>2, <1>3, Multiples, ZenonT(60)
<1>8. PAGE_SIZE * KernelEnd = KernelEnd * PAGE_SIZE
  BY ONLY <1>2, <1>3
<1>9. KernelEnd * PAGE_SIZE \in Nat /\ (KernelEnd * PAGE_SIZE) % PAGE_SIZE = 0
  BY <1>7, <1>8, ZenonT(60)
<1> QED BY <1>5, <1>6, <1>9, ZenonT(60)

-----------------------------------------------------------------------------
(* The inductive invariant *)

\* What an update of the machine's fields gives.
IsState(r, store, next) == Machine(r) /\ r.mem = store /\ r.next = next

LEMMA StateMem ==
  ASSUME NEW mm, Machine(mm), NEW store, NEW r, r = [mm EXCEPT !.mem = store]
  PROVE  IsState(r, store, mm.next) /\ r.status = mm.status
BY ZenonT(60) DEF Machine, IsState

LEMMA StateStatus ==
  ASSUME NEW mm, Machine(mm), NEW st, NEW r, r = [mm EXCEPT !.status = st]
  PROVE  IsState(r, mm.mem, mm.next)
BY ZenonT(60) DEF Machine, IsState

LEMMA StateCr3 ==
  ASSUME NEW mm, Machine(mm), NEW c, NEW r, r = [mm EXCEPT !.cr3 = c]
  PROVE  IsState(r, mm.mem, mm.next) /\ r.status = mm.status
BY ZenonT(60) DEF Machine, IsState

LEMMA StateFetched ==
  ASSUME NEW mm, Machine(mm), NEW n, NEW r, r = bootstrap_fetch_page(mm, n)
  PROVE  IsState(r, mm.mem, mm.next + n) /\ r.status = mm.status
BY ZenonT(60) DEF Machine, IsState, bootstrap_fetch_page

LEMMA StateMemStatus ==
  ASSUME NEW mm, Machine(mm), NEW store, NEW st, NEW r,
         r = [mm EXCEPT !.mem = store, !.status = st]
  PROVE  IsState(r, store, mm.next)
<1>1. PICK r1 : r1 = [mm EXCEPT !.mem = store]
  BY ZenonT(60)
<1>2. r = [r1 EXCEPT !.status = st]
  BY <1>1, ZenonT(60)
<1>3. IsState(r1, store, mm.next)
  BY <1>1, StateMem, ZenonT(60)
<1>4. Machine(r1)
  BY <1>3, ZenonT(60) DEF IsState
<1>5. IsState(r, r1.mem, r1.next)
  BY <1>2, <1>4, StateStatus, ZenonT(60)
<1> QED BY <1>3, <1>5, ZenonT(60) DEF IsState

LEMMA StateMemCr3 ==
  ASSUME NEW mm, Machine(mm), NEW store, NEW c, NEW r,
         r = [mm EXCEPT !.mem = store, !.cr3 = c]
  PROVE  IsState(r, store, mm.next) /\ r.status = mm.status
<1>1. PICK r1 : r1 = [mm EXCEPT !.mem = store]
  BY ZenonT(60)
<1>2. r = [r1 EXCEPT !.cr3 = c]
  BY <1>1, ZenonT(60)
<1>3. IsState(r1, store, mm.next) /\ r1.status = mm.status
  BY <1>1, StateMem, ZenonT(60)
<1>4. Machine(r1)
  BY <1>3, ZenonT(60) DEF IsState
<1>5. IsState(r, r1.mem, r1.next) /\ r.status = r1.status
  BY <1>2, <1>4, StateCr3, ZenonT(60)
<1> QED BY <1>3, <1>5, ZenonT(60) DEF IsState

LEMMA StateMemCr3Status ==
  ASSUME NEW mm, Machine(mm), NEW store, NEW c, NEW st, NEW r,
         r = [mm EXCEPT !.mem = store, !.cr3 = c, !.status = st]
  PROVE  IsState(r, store, mm.next)
<1>1. PICK r1 : r1 = [mm EXCEPT !.mem = store, !.cr3 = c]
  BY ZenonT(60)
<1>2. r = [r1 EXCEPT !.status = st]
  BY <1>1, ZenonT(60)
<1>3. IsState(r1, store, mm.next)
  BY <1>1, StateMemCr3, ZenonT(60)
<1>4. Machine(r1)
  BY <1>3, ZenonT(60) DEF IsState
<1>5. IsState(r, r1.mem, r1.next)
  BY <1>2, <1>4, StateStatus, ZenonT(60)
<1> QED BY <1>3, <1>5, ZenonT(60) DEF IsState

\* A directory with two entries, or with these laid over another.
IsEntryTo(e, f) == e.frame = f /\ ~ e.user

LEMMA EntryTo == ASSUME NEW f PROVE IsEntryTo(Entry(f, FALSE), f)
BY ZenonT(60) DEF Entry, IsEntryTo

HasTwo(d, x, y, f, g) ==
  \A q \in DOMAIN d : q \in {x, y} /\ (IsEntryTo(d[q], f) \/ IsEntryTo(d[q], g))
HasMore(d, x, f, old) ==
  \A q \in DOMAIN d : (q = x /\ IsEntryTo(d[q], f)) \/ (q \in DOMAIN old /\ d[q] = old[q])

LEMMA OneMore ==
  ASSUME NEW x, NEW f, NEW old, NEW d, d = x :> Entry(f, FALSE) @@ old
  PROVE  HasMore(d, x, f, old)
<1>1. PICK e : e = x :> Entry(f, FALSE)
  BY ZenonT(60)
<1>2. DOMAIN e = {x} /\ e[x] = Entry(f, FALSE)
  BY ONLY <1>1, ZenonT(60) DEF :>
<1>3. d = e @@ old
  BY <1>1, ZenonT(60)
<1>4. \A q \in DOMAIN d : (q \in DOMAIN e /\ d[q] = e[q]) \/ (q \in DOMAIN old /\ d[q] = old[q])
  BY ONLY <1>3, ZenonT(60) DEF @@
<1> SUFFICES ASSUME NEW q \in DOMAIN d
             PROVE  (q = x /\ IsEntryTo(d[q], f)) \/ (q \in DOMAIN old /\ d[q] = old[q])
  BY ZenonT(60) DEF HasMore
<1>5. CASE q \in DOMAIN e /\ d[q] = e[q]
  <2>1. q = x /\ d[q] = Entry(f, FALSE)
    BY <1>2, <1>5, ZenonT(60)
  <2> QED BY <2>1, EntryTo, ZenonT(60)
<1> QED BY <1>4, <1>5, ZenonT(60)

LEMMA TwoEntries ==
  ASSUME NEW x, NEW y, NEW f, NEW g, NEW d,
         d = x :> Entry(f, FALSE) @@ y :> Entry(g, FALSE)
  PROVE  HasTwo(d, x, y, f, g)
<1>1. PICK old : old = y :> Entry(g, FALSE)
  BY ZenonT(60)
<1>2. DOMAIN old = {y} /\ old[y] = Entry(g, FALSE)
  BY ONLY <1>1, ZenonT(60) DEF :>
<1>3. HasMore(d, x, f, old)
  BY <1>1, OneMore, ZenonT(60)
<1> SUFFICES ASSUME NEW q \in DOMAIN d
             PROVE  q \in {x, y} /\ (IsEntryTo(d[q], f) \/ IsEntryTo(d[q], g))
  BY ZenonT(60) DEF HasTwo
<1>4. CASE q = x /\ IsEntryTo(d[q], f)
  BY <1>4, ZenonT(60)
<1>5. CASE q \in DOMAIN old /\ d[q] = old[q]
  <2>1. q = y /\ d[q] = Entry(g, FALSE)
    BY <1>2, <1>5, ZenonT(60)
  <2> QED BY <2>1, EntryTo, ZenonT(60)
<1> QED BY <1>3, <1>4, <1>5, ZenonT(60) DEF HasMore

\* Structures replaced.
WritesTwo(r, mem, a, b, c, d) ==
  /\ DOMAIN r = {a, b} \union DOMAIN mem
  /\ r[a] = c /\ r[b] = d
  /\ \A x \in DOMAIN mem : x \notin {a, b} => r[x] = mem[x]
WritesOne(r, mem, a, c) ==
  /\ DOMAIN r = {a} \union DOMAIN mem
  /\ r[a] = c
  /\ \A x \in DOMAIN mem : x # a => r[x] = mem[x]

LEMMA TwoWritten ==
  ASSUME NEW a, NEW b, NEW c, NEW d, NEW mem, a # b, NEW r, r = a :> c @@ b :> d @@ mem
  PROVE  WritesTwo(r, mem, a, b, c, d)
BY ZenonT(60) DEF @@, :>, WritesTwo

LEMMA OneWritten ==
  ASSUME NEW a, NEW c, NEW mem, NEW r, r = a :> c @@ mem
  PROVE  WritesOne(r, mem, a, c)
BY ZenonT(60) DEF @@, :>, WritesOne

IsEarlyMemory(r, a, b, c, D, Z) ==
  /\ DOMAIN r = {a, b, c} \union Z
  /\ r[a] = D
  /\ \A z \in Z : z \notin {a, b, c} => r[z] = <<>>

LEMMA EarlyMemory ==
  ASSUME NEW a, NEW b, NEW c, NEW D, NEW X, NEW Y, NEW Z, NEW r,
         r = a :> D @@ b :> X @@ c :> Y @@ [f \in Z |-> <<>>]
  PROVE  IsEarlyMemory(r, a, b, c, D, Z)
BY ZenonT(60) DEF @@, :>, IsEarlyMemory

\* The directories of the kernel.
KernelDirs == {PageDirectory, BootPd}
Roots == KernelDirs \union {page_dir[i] : i \in DOMAIN page_dir}

\* While the kernel maps itself nothing belongs to a process.
KernelPhase ==
  /\ pc \in {"map_modules", "kmap", "window"}
  /\ page_dir = <<>> /\ Kernel(m, KernelDirs) /\ ImagesEnd <= m.next
  /\ pc = "map_modules" => step = 1
  /\ pc = "kmap" /\ step > 9 => heap.to = m.next
  /\ pc = "window" => heap.to = m.next /\ step = 1

\* While modules are loaded the memory of processes lies above the heap and is
\* private.
LoadPhase ==
  /\ pc \in {"load", "segments", "done"}
  /\ User(m, Roots, heap.to) /\ NoUserTable(m.mem, KernelDirs) /\ ImagesEnd <= heap.to
  /\ page_dir \in Seq(Nat)
  /\ \A i \in DOMAIN page_dir : page_dir[i] \notin KernelDirs
  /\ \A i, j \in DOMAIN page_dir : page_dir[i] = page_dir[j] => i = j
  /\ m.status = "ok" /\ pc = "segments" => Len(page_dir) = step
  /\ m.status = "ok" /\ pc = "load" => Len(page_dir) = step - 1

Typed == images \in Seq(Nat) /\ step \in Nat \ {0} /\ heap.from \in Nat /\ heap.to \in Nat

IInv == Typed /\ (KernelPhase \/ LoadPhase)

\* The tables of the kernel are no directories.
LEMMA Apart ==
  /\ {BootPt, KernelPt, BootKernelPt, BootstrapPt, ModulePt} \intersect KernelDirs = {}
  /\ PageDirectory # BootPd
<1>1. KernelStart \in Nat /\ LowFrames \in Nat /\ LowFrames < KernelStart
  BY LayoutAssumption DEF KernelStart
<1> QED BY ONLY <1>1
      DEF BootPt, BootPd, PageDirectory, KernelPt, BootKernelPt, BootstrapPt, ModulePt, KernelDirs

\* What makes a kernel: entries that lead to tables of its own.
IsKernelEntry(mem, next, A, a, q) ==
  /\ q \in Nat /\ Table(mem, a, q) \in Nat /\ Table(mem, a, q) < next
  /\ Table(mem, a, q) \notin A /\ ~ mem[a][q].user

LEMMA KernelMade ==
  ASSUME NEW mm, NEW A, Machine(mm), mm.next \in Nat,
         \A f \in DOMAIN mm.mem : f \in Nat /\ f < mm.next, A \subseteq DOMAIN mm.mem,
         \A a \in A : \A q \in DOMAIN mm.mem[a] : IsKernelEntry(mm.mem, mm.next, A, a, q)
  PROVE  Kernel(mm, A)
BY ZenonT(60) DEF Kernel, Structures, NoUserTable, IsKernelEntry

LEMMA KernelHas ==
  ASSUME NEW mm, NEW A, Kernel(mm, A)
  PROVE  /\ Machine(mm) /\ mm.next \in Nat
         /\ (\A f \in DOMAIN mm.mem : f \in Nat /\ f < mm.next) /\ A \subseteq DOMAIN mm.mem
         /\ \A a \in A : \A q \in DOMAIN mm.mem[a] : IsKernelEntry(mm.mem, mm.next, A, a, q)
BY ZenonT(60) DEF Kernel, Structures, NoUserTable, IsKernelEntry

\* A kernel without processes has private memory.
LEMMA KernelPrivate ==
  ASSUME NEW mm, NEW A, Kernel(mm, A)
  PROVE  User(mm, A, mm.next)
<1>1. Machine(mm) /\ Structures(mm.mem, mm.next, A) /\ NoUserTable(mm.mem, A) /\ mm.next \in Nat
  BY ZenonT(60) DEF Kernel, Structures
<1>2. \A a \in A : \A q : ~ UserTable(mm.mem, a, q)
  BY <1>1, ZenonT(60) DEF NoUserTable, UserTable
<1>3. mm.next <= mm.next
  BY ONLY <1>1
<1>4. TablesPlaced(mm.mem, A, mm.next)
  BY <1>1, ZenonT(60) DEF TablesPlaced, NoUserTable, Structures
<1>5. TablesOnce(mm.mem, A)
  BY <1>2, ZenonT(60) DEF TablesOnce
<1>6. LeavesPlaced(mm.mem, mm.next, A, mm.next)
  BY <1>2, ZenonT(60) DEF LeavesPlaced, UserLeaf
<1>7. LeavesOnce(mm.mem, A)
  BY <1>2, ZenonT(60) DEF LeavesOnce, UserLeaf
<1> QED BY <1>1, <1>3, <1>4, <1>5, <1>6, <1>7, ZenonT(60) DEF User, Private

-----------------------------------------------------------------------------
(* The steps *)

LEMMA InitKernel ==
  ASSUME images \in Seq(Nat), NEW mm, mm = early_page_map
  PROVE  Kernel(mm, KernelDirs) /\ ImagesEnd <= mm.next
<1>1. /\ {BootPt, BootPd, PageDirectory, KernelPt, BootKernelPt, BootstrapPt, ModulePt}
            \subseteq 0 .. KernelEnd - 1
      /\ KernelEnd \in Nat /\ ImagesEnd \in Nat /\ KernelEnd <= ImagesEnd
  BY Frames, ZenonT(60)
<1> DEFINE D == 0 :> Entry(BootPt, FALSE) @@ KernelPd :> Entry(BootKernelPt, FALSE)
           X == IdentityRun(KernelStart, KtablePages) @@ IdentityRun(ImagesEnd, EarlyWindow)
                @@ IdentityRun(LowFrames, EarlyFrames + 1) @@ IdentityRun(0, LowFrames)
           Y == PtIndex(KernelPage(SectionStart(8))) :> Entry(VgaFrame, FALSE)
                @@ IdentityRun(KernelStart, KernelEnd - KernelStart)
           Z == {PageDirectory, KernelPt, BootstrapPt, ModulePt}
           store == BootPd :> D @@ BootPt :> X @@ BootKernelPt :> Y @@ [f \in Z |-> <<>>]
           st == IF Overruns(ImagesEnd, EarlyWindow) THEN "overrun" ELSE "ok"
<1>2. mm = [mem |-> store, next |-> ImagesEnd, cr3 |-> BootPd, status |-> st]
  BY ZenonT(60) DEF early_page_map
<1> HIDE DEF st, D, X, Y
<1>3. /\ DOMAIN store = {BootPd, BootPt, BootKernelPt} \union Z
      /\ store[BootPd] = D
      /\ \A z \in Z : z \notin {BootPd, BootPt, BootKernelPt} => store[z] = <<>>
  <2> HIDE DEF Z
  <2>1. PICK r : r = store
    BY ZenonT(60)
  <2>2. IsEarlyMemory(r, BootPd, BootPt, BootKernelPt, D, Z)
    BY <2>1, EarlyMemory, ZenonT(60)
  <2> HIDE DEF store
  <2> QED BY <2>1, <2>2, ZenonT(60) DEF IsEarlyMemory
<1> HIDE DEF store
<1>4. Machine(mm) /\ mm.mem = store /\ mm.next = ImagesEnd
  BY ONLY <1>2, ZenonT(60) DEF Machine
<1>5. store[PageDirectory] = <<>>
  BY <1>3, Apart, ZenonT(60) DEF KernelDirs
<1>6. KernelDirs \subseteq DOMAIN store
  BY <1>3, ZenonT(60) DEF KernelDirs
<1>7. \A f \in DOMAIN store : f \in Nat /\ f < ImagesEnd
  <2>1. DOMAIN store \subseteq 0 .. KernelEnd - 1
    BY <1>1, <1>3, ZenonT(60)
  <2> QED BY ONLY <1>1, <2>1
<1>8. ASSUME NEW a \in KernelDirs, NEW q \in DOMAIN store[a]
      PROVE  IsKernelEntry(store, ImagesEnd, KernelDirs, a, q)
  <2>1. a = BootPd
    <3>1. DOMAIN <<>> = {}
      OBVIOUS
    <3> QED BY <1>5, <1>8, <3>1, ZenonT(60) DEF KernelDirs
  <2>2. store[a] = D
    BY <1>3, <2>1, ZenonT(60)
  <2>3. q \in {0, KernelPd} /\ (IsEntryTo(D[q], BootPt) \/ IsEntryTo(D[q], BootKernelPt))
    <3>1. HasTwo(D, 0, KernelPd, BootPt, BootKernelPt)
      BY TwoEntries, ZenonT(60) DEF D
    <3> QED BY <1>8, <2>2, <3>1, ZenonT(60) DEF HasTwo
  <2>4. 0 \in Nat /\ KernelPd \in Nat
    BY LayoutAssumption, ZenonT(60)
  <2>5. Table(store, a, q) \in {BootPt, BootKernelPt} /\ ~ store[a][q].user
    BY <2>2, <2>3, ZenonT(60) DEF Table, IsEntryTo
  <2>6. Table(store, a, q) \notin KernelDirs
    BY <2>5, Apart, ZenonT(60)
  <2>7. Table(store, a, q) \in 0 .. KernelEnd - 1
    BY <1>1, <2>5, ZenonT(60)
  <2>8. Table(store, a, q) \in Nat /\ Table(store, a, q) < ImagesEnd
    BY ONLY <1>1, <2>7
  <2> QED BY <2>3, <2>4, <2>5, <2>6, <2>8, ZenonT(60) DEF IsKernelEntry
<1>9. ImagesEnd <= ImagesEnd
  BY ONLY <1>1
<1>10. Kernel(mm, KernelDirs)
  <2>1. \A a \in KernelDirs : \A q \in DOMAIN store[a] :
          IsKernelEntry(store, ImagesEnd, KernelDirs, a, q)
    BY <1>8, ZenonT(60)
  <2>2. /\ mm.next \in Nat /\ KernelDirs \subseteq DOMAIN mm.mem
        /\ \A f \in DOMAIN mm.mem : f \in Nat /\ f < mm.next
        /\ \A a \in KernelDirs : \A q \in DOMAIN mm.mem[a] :
             IsKernelEntry(mm.mem, mm.next, KernelDirs, a, q)
    BY <1>1, <1>4, <1>6, <1>7, <2>1, ZenonT(60)
  <2> QED BY <1>4, <2>2, KernelMade, ZenonT(60)
<1> QED BY <1>4, <1>9, <1>10, ZenonT(60)

LEMMA InitIInv == Init => IInv
<1> SUFFICES ASSUME Init PROVE IInv
  BY ZenonT(60)
<1>1. images \in Seq(Nat) /\ m = early_page_map /\ pc = "map_modules"
      /\ step = 1 /\ heap = [from |-> 0, to |-> 0] /\ page_dir = <<>>
  BY ProgramAssumption, ZenonT(60) DEF Init, NothingLoaded
<1>2. Kernel(m, KernelDirs) /\ ImagesEnd <= m.next
  BY <1>1, InitKernel, ZenonT(60)
<1>3. Typed
  BY ONLY <1>1 DEF Typed
<1>4. KernelPhase
  BY <1>1, <1>2, ZenonT(60) DEF KernelPhase
<1> QED BY <1>3, <1>4, ZenonT(60) DEF IInv

\* The kernel fills one of its directories and one of its tables.
LEMMA KernelRewritten ==
  ASSUME NEW mm, NEW A, Kernel(mm, A), NEW a \in A, NEW b, NEW c, NEW d,
         b \notin A, b \in Nat, b < mm.next, NEW r, NEW store,
         IsState(r, store, mm.next), WritesTwo(store, mm.mem, a, b, c, d),
         \A q \in DOMAIN c : q \in Nat /\ c[q].frame \in Nat /\ c[q].frame < mm.next
                           /\ c[q].frame \notin A /\ ~ c[q].user
  PROVE  Kernel(r, A)
<1>1. /\ Machine(mm) /\ mm.next \in Nat
      /\ (\A f \in DOMAIN mm.mem : f \in Nat /\ f < mm.next) /\ A \subseteq DOMAIN mm.mem
      /\ \A x \in A : \A q \in DOMAIN mm.mem[x] : IsKernelEntry(mm.mem, mm.next, A, x, q)
  BY KernelHas, ZenonT(60)
<1>2. Machine(r) /\ r.mem = store /\ r.next = mm.next
  BY ZenonT(60) DEF IsState
<1>3. /\ DOMAIN store = {a, b} \union DOMAIN mm.mem /\ store[a] = c
      /\ \A x \in A : x # a => store[x] = mm.mem[x]
  BY <1>1, ZenonT(60) DEF WritesTwo
<1>4. A \subseteq DOMAIN store /\ \A f \in DOMAIN store : f \in Nat /\ f < mm.next
  BY <1>1, <1>3, ZenonT(60)
<1>5. ASSUME NEW x \in A, NEW q \in DOMAIN store[x]
      PROVE  IsKernelEntry(store, mm.next, A, x, q)
  <2>1. CASE x = a
    BY <1>3, <2>1, ZenonT(60) DEF IsKernelEntry, Table
  <2>2. CASE x # a
    BY <1>1, <1>3, <2>2, ZenonT(60) DEF IsKernelEntry, Table
  <2> QED BY <2>1, <2>2, ZenonT(60)
<1>6. /\ r.next \in Nat /\ A \subseteq DOMAIN r.mem
      /\ \A f \in DOMAIN r.mem : f \in Nat /\ f < r.next
      /\ \A x \in A : \A q \in DOMAIN r.mem[x] : IsKernelEntry(r.mem, r.next, A, x, q)
  BY <1>1, <1>2, <1>4, <1>5, ZenonT(60)
<1> QED BY <1>2, <1>6, KernelMade, ZenonT(60)

LEMMA MapModulesStep ==
  ASSUME IInv, bootstrap_map_boot_modules
  PROVE  IInv'
<1>1. Typed /\ pc = "map_modules" /\ pc' = "kmap" /\ UNCHANGED <<images, step, heap, page_dir>>
  BY ZenonT(60) DEF IInv, bootstrap_map_boot_modules, At
<1>2. page_dir = <<>> /\ Kernel(m, KernelDirs) /\ ImagesEnd <= m.next /\ step = 1
  BY <1>1, ZenonT(60) DEF IInv, KernelPhase, LoadPhase
<1> DEFINE D == 0 :> Entry(BootstrapPt, FALSE) @@ KernelPd :> Entry(KernelPt, FALSE)
           R == ImageRuns[Len(images)]
           store == PageDirectory :> D @@ BootstrapPt :> R @@ m.mem
           st == IF \E i \in Modules : Overruns(ImageStart(i), images[i]) THEN "overrun" ELSE m.status
<1>3. m' = [m EXCEPT !.mem = store, !.status = st]
  BY ZenonT(60) DEF bootstrap_map_boot_modules
<1> HIDE DEF st
<1>4. PICK stored : stored = store
  BY ZenonT(60)
<1>5. IsState(m', stored, m.next)
  <2>1. m' = [m EXCEPT !.mem = stored, !.status = st]
    BY <1>3, <1>4, ZenonT(60)
  <2>2. Machine(m)
    BY <1>2, ZenonT(60) DEF Kernel
  <2> QED BY ONLY <2>1, <2>2, StateMemStatus, ZenonT(60)
<1>6. PageDirectory # BootstrapPt /\ PageDirectory \in KernelDirs
      /\ {BootstrapPt, KernelPt} \intersect KernelDirs = {}
  BY Apart, ZenonT(60) DEF KernelDirs
<1>7. BootstrapPt \in Nat /\ BootstrapPt < m.next /\ KernelPt \in Nat /\ KernelPt < m.next
  <2>1. /\ {BootstrapPt, KernelPt} \subseteq 0 .. KernelEnd - 1
        /\ KernelEnd \in Nat /\ ImagesEnd \in Nat /\ KernelEnd <= ImagesEnd
    BY <1>1, Frames, ZenonT(60) DEF Typed
  <2>2. m.next \in Nat
    BY <1>2, ZenonT(60) DEF Kernel, Structures
  <2> QED BY ONLY <1>2, <2>1, <2>2
<1>8. WritesTwo(stored, m.mem, PageDirectory, BootstrapPt, D, R)
  <2> HIDE DEF D, R
  <2> QED BY <1>4, <1>6, TwoWritten, ZenonT(60)
<1>9. HasTwo(D, 0, KernelPd, BootstrapPt, KernelPt)
  BY TwoEntries, ZenonT(60)
<1> HIDE DEF D, R, store
<1>10. \A q \in DOMAIN D : q \in Nat /\ D[q].frame \in Nat /\ D[q].frame < m.next
                          /\ D[q].frame \notin KernelDirs /\ ~ D[q].user
  <2>1. 0 \in Nat /\ KernelPd \in Nat
    BY LayoutAssumption, ZenonT(60)
  <2> QED BY <1>6, <1>7, <1>9, <2>1, ZenonT(60) DEF HasTwo, IsEntryTo
<1>11. Kernel(m', KernelDirs)
  BY <1>2, <1>5, <1>6, <1>7, <1>8, <1>10, KernelRewritten, ZenonT(60)
<1>12. ImagesEnd' <= m'.next
  <2>1. ImagesEnd' = ImagesEnd
    BY <1>1, ZenonT(60) DEF ImagesEnd, ImageStart
  <2> QED BY <1>2, <1>5, <2>1, ZenonT(60) DEF IsState
<1>13. Typed'
  BY <1>1, ZenonT(60) DEF Typed
<1>14. ~ (step' > 9)
  BY <1>1, <1>2
<1> QED BY <1>1, <1>2, <1>11, <1>12, <1>13, <1>14, ZenonT(60) DEF IInv, KernelPhase

\* The arguments of kmap.
LEMMA KernelMapArguments ==
  ASSUME images \in Seq(Nat), NEW i \in 1 .. 9
  PROVE  Len(KernelMap) = 9 /\ KernelMap[i].page \in Nat /\ KernelMap[i].n * PAGE_SIZE \in Nat
<1>1. /\ \A j \in 1 .. 9 : SectionStart(j) \in Nat
      /\ KernelEnd \in Nat
  BY Frames, ZenonT(60)
<1>2. \A j \in 1 .. 8 : SectionPages[j] \in Nat
  <2>1. SectionPages \in Seq(Nat) /\ Len(SectionPages) = 8
    BY LayoutAssumption DEF SectionPages, KtablePages
  <2>2. ASSUME NEW s \in Seq(Nat), NEW j \in 1 .. Len(s) PROVE s[j] \in Nat
    OBVIOUS
  <2> QED BY <2>1, <2>2, ZenonT(60)
<1>3. \A f \in Nat : KernelPage(f) \in Nat
  <2>1. KernelPd * E \in Nat
    BY LayoutAssumption, PagingAssumption
  <2> QED BY <2>1 DEF KernelPage
<1>4. Len(KernelMap) = 9
  BY ZenonT(60) DEF KernelMap
<1>5. KernelMap[i].page \in Nat
  <2>1. \A j \in 1 .. 8 : KernelMap[j].page = KernelPage(SectionStart(j))
    BY DEF KernelMap
  <2>2. KernelMap[9].page = KernelPage(KernelEnd)
    BY ZenonT(60) DEF KernelMap
  <2>3. i \in 1 .. 8 \/ i = 9
    OBVIOUS
  <2>4. \A j \in 1 .. 8 : j \in 1 .. 9
    OBVIOUS
  <2> QED BY <1>1, <1>3, <2>1, <2>2, <2>3, <2>4, ZenonT(60)
<1>6. KernelMap[i].n \in Nat
  <2>1. HeapPages \in Nat
    BY LayoutAssumption, ZenonT(60)
  <2>2. \A j \in 1 .. 8 : KernelMap[j].n = SectionPages[j]
    <3>1. KernelMap[1].n = SectionPages[1] /\ KernelMap[2].n = SectionPages[2]
          /\ KernelMap[3].n = SectionPages[3] /\ KernelMap[4].n = SectionPages[4]
      BY ZenonT(60) DEF KernelMap
    <3>2. KernelMap[5].n = SectionPages[5] /\ KernelMap[6].n = SectionPages[6]
          /\ KernelMap[7].n = SectionPages[7] /\ KernelMap[8].n = SectionPages[8]
      BY ZenonT(60) DEF KernelMap
    <3>3. \A j \in 1 .. 8 : j \in {1, 2, 3, 4, 5, 6, 7, 8}
      OBVIOUS
    <3> QED BY <3>1, <3>2, <3>3, ZenonT(60)
  <2>3. KernelMap[9].n = HeapPages
    BY ZenonT(60) DEF KernelMap
  <2>4. i \in 1 .. 8 \/ i = 9
    OBVIOUS
  <2> QED BY <1>2, <2>1, <2>2, <2>3, <2>4, ZenonT(60)
<1> QED BY <1>4, <1>5, <1>6, PagingAssumption

LEMMA KmapStep ==
  ASSUME IInv, kmap, MmapKeepsKernel
  PROVE  IInv'
<1>1. Typed /\ pc = "kmap" /\ UNCHANGED <<images, pc, page_dir>> /\ step' = step + 1
      /\ step <= Len(KernelMap)
  BY ZenonT(60) DEF IInv, kmap, At
<1>2. page_dir = <<>> /\ Kernel(m, KernelDirs) /\ ImagesEnd <= m.next
  BY <1>1, ZenonT(60) DEF IInv, KernelPhase, LoadPhase
<1>3. images \in Seq(Nat) /\ step \in Nat \ {0}
  BY <1>1, ZenonT(60) DEF Typed
<1>4. Len(KernelMap) = 9
  <2>1. 1 \in 1 .. 9
    OBVIOUS
  <2> QED BY <1>3, <2>1, KernelMapArguments, ZenonT(60)
<1>5. step \in 1 .. 9
  BY ONLY <1>1, <1>3, <1>4
<1>6. PICK k : k = KernelMap[step]
  BY ZenonT(60)
<1>7. k.page \in Nat /\ k.n * PAGE_SIZE \in Nat
  BY <1>3, <1>5, <1>6, KernelMapArguments, ZenonT(60)
<1>8. m' = bootstrap_mmap(m, PageDirectory, k.paddr, k.page, k.n * PAGE_SIZE, k.prot, FALSE)
  BY <1>6, ZenonT(60) DEF kmap
<1>9. PageDirectory \in KernelDirs
  BY ZenonT(60) DEF KernelDirs
<1>10. Kernel(m', KernelDirs) /\ m.next <= m'.next
  <2>1. MmapKeepsKernel
    BY ZenonT(60)
  <2> QED BY ONLY <1>2, <1>7, <1>8, <1>9, <2>1, ZenonT(60) DEF MmapKeepsKernel
<1>11. m.next \in Nat /\ m'.next \in Nat
  BY <1>2, <1>10, ZenonT(60) DEF Kernel, Structures
<1>12. ImagesEnd \in Nat /\ ImagesEnd' = ImagesEnd
  <2>1. ImagesEnd \in Nat
    BY <1>3, Frames, ZenonT(60)
  <2>2. ImagesEnd' = ImagesEnd
    BY <1>1, ZenonT(60) DEF ImagesEnd, ImageStart
  <2> QED BY <2>1, <2>2, ZenonT(60)
<1>13. ImagesEnd' <= m'.next
  BY ONLY <1>2, <1>10, <1>11, <1>12
<1>14. heap' = IF step = 9 THEN [from |-> m.next, to |-> m'.next] ELSE heap
  BY <1>4, ZenonT(60) DEF kmap
<1>15. Typed' /\ (step' > 9 => heap'.to = m'.next)
  <2>1. CASE step = 9
    <3>1. heap'.from = m.next /\ heap'.to = m'.next
      <4>1. heap' = [from |-> m.next, to |-> m'.next]
        BY <1>14, <2>1, ZenonT(60)
      <4> QED BY ONLY <4>1, ZenonT(60)
    <3>2. step' \in Nat \ {0}
      BY ONLY <1>1, <1>3
    <3> QED BY <1>1, <1>3, <1>11, <3>1, <3>2, ZenonT(60) DEF Typed
  <2>2. CASE step # 9
    <3>1. heap' = heap
      BY <1>14, <2>2, ZenonT(60)
    <3>2. step' \in Nat \ {0} /\ ~ (step' > 9)
      BY ONLY <1>1, <1>5, <2>2
    <3> QED BY <1>1, <1>3, <3>1, <3>2, ZenonT(60) DEF Typed
  <2> QED BY <2>1, <2>2, ZenonT(60)
<1> QED BY <1>1, <1>2, <1>10, <1>13, <1>15, ZenonT(60) DEF IInv, KernelPhase

LEMMA KmemInitStep ==
  ASSUME IInv, kmem_init
  PROVE  IInv'
<1>1. Typed /\ pc = "kmap" /\ pc' = "window" /\ step' = 1 /\ UNCHANGED <<images, heap, page_dir>>
      /\ step > Len(KernelMap)
  BY ZenonT(60) DEF IInv, kmem_init, At
<1>2. Len(KernelMap) = 9
  <2>1. 1 \in 1 .. 9
    OBVIOUS
  <2>2. images \in Seq(Nat)
    BY <1>1, ZenonT(60) DEF Typed
  <2> QED BY <2>1, <2>2, KernelMapArguments, ZenonT(60)
<1>3. page_dir = <<>> /\ Kernel(m, KernelDirs) /\ ImagesEnd <= m.next /\ heap.to = m.next
  BY <1>1, <1>2, ZenonT(60) DEF IInv, KernelPhase, LoadPhase
<1>4. PICK on : on = [m EXCEPT !.cr3 = PageDirectory]
  BY ZenonT(60)
<1>5. Machine(on) /\ on.mem = m.mem /\ on.next = m.next
  <2>1. Machine(m)
    BY <1>3, ZenonT(60) DEF Kernel
  <2>2. IsState(on, m.mem, m.next)
    BY ONLY <1>4, <2>1, StateCr3, ZenonT(60)
  <2> QED BY <2>2, ZenonT(60) DEF IsState
<1>6. m' = on \/ m' = Fail(on, "fault")
  BY <1>4, ZenonT(60) DEF kmem_init
<1>7. Machine(m') /\ m'.mem = m.mem /\ m'.next = m.next
  <2>1. CASE m' = on
    BY <1>5, <2>1, ZenonT(60)
  <2>2. CASE m' = Fail(on, "fault")
    <3>1. m' = [on EXCEPT !.status = "fault"]
      BY <2>2, ZenonT(60) DEF Fail
    <3>2. IsState(m', on.mem, on.next)
      BY <1>5, <3>1, StateStatus, ZenonT(60)
    <3> QED BY <1>5, <3>2, ZenonT(60) DEF IsState
  <2> QED BY <1>6, <2>1, <2>2, ZenonT(60)
<1>8. Kernel(m', KernelDirs)
  BY <1>3, <1>7, ZenonT(60) DEF Kernel
<1>9. ImagesEnd' = ImagesEnd
  BY <1>1, ZenonT(60) DEF ImagesEnd, ImageStart
<1>10. Typed'
  <2>1. 1 \in Nat \ {0}
    OBVIOUS
  <2> QED BY <1>1, <2>1, ZenonT(60) DEF Typed
<1> QED BY <1>1, <1>3, <1>7, <1>8, <1>9, <1>10, ZenonT(60) DEF IInv, KernelPhase

\* The memory of processes is private, and the kernel's directories, which new
\* ones are copies of, lead to none of it.
Loading(mm, A, floor) == User(mm, A, floor) /\ NoUserTable(mm.mem, KernelDirs)

LEMMA FailLoading ==
  ASSUME NEW mm, NEW A, NEW floor, Loading(mm, A, floor), NEW reason, NEW r, r = Fail(mm, reason)
  PROVE  Loading(r, A, floor) /\ r.status = reason
<1>1. Machine(mm)
  BY ZenonT(60) DEF Loading, User
<1>2. Machine(r) /\ r.mem = mm.mem /\ r.next = mm.next /\ r.status = reason
  BY <1>1, ZenonT(60) DEF Fail, Machine
<1> QED BY <1>2, ZenonT(60) DEF Loading, User

LEMMA ElfMmapLoading ==
  ASSUME NEW mm, NEW A, NEW floor, Loading(mm, A, floor), KernelDirs \subseteq A,
         NEW pd \in A, pd \notin KernelDirs,
         NEW page \in Nat, NEW size \in Nat, NEW prot, NEW r,
         r = bootstrap_elf_mmap(mm, pd, page, size, prot), MmapKeepsPrivate
  PROVE  Loading(r, A, floor)
<1>1. PICK p : p = prot \union {"u"}
  BY ZenonT(60)
<1>2. r = bootstrap_mmap(mm, pd, PAGE_ALLOCATE, page, size, p, TRUE)
  BY <1>1, ZenonT(60) DEF bootstrap_elf_mmap
<1>3. User(mm, A, floor) /\ NoUserTable(mm.mem, KernelDirs)
  BY ZenonT(60) DEF Loading
<1>5. User(r, A, floor) /\ Others(mm, r, pd, A)
  BY <1>2, <1>3, ZenonT(60) DEF MmapKeepsPrivate
<1>6. \A a \in KernelDirs : r.mem[a] = mm.mem[a]
  BY <1>5, ZenonT(60) DEF Others
<1>7. NoUserTable(r.mem, KernelDirs)
  BY <1>3, <1>6, ZenonT(60) DEF NoUserTable
<1> QED BY <1>5, <1>7, ZenonT(60) DEF Loading

LEMMA WindowStep ==
  ASSUME IInv, bootstrap_identity_map_init_mem
  PROVE  IInv'
<1>1. Typed /\ pc = "window" /\ pc' = "load" /\ UNCHANGED <<images, step, heap, page_dir>>
  BY ZenonT(60) DEF IInv, bootstrap_identity_map_init_mem, At
<1>2. page_dir = <<>> /\ Kernel(m, KernelDirs) /\ ImagesEnd <= m.next /\ heap.to = m.next /\ step = 1
  BY <1>1, ZenonT(60) DEF IInv, KernelPhase, LoadPhase
<1> DEFINE D == PdIndex(m.next) :> Entry(ModulePt, FALSE) @@ m.mem[PageDirectory]
           R == IdentityRun(m.next, WindowPages)
           store == BootPd :> D @@ ModulePt :> R @@ m.mem
           st == IF Overruns(m.next, WindowPages) THEN "overrun" ELSE m.status
<1>3. m' = [m EXCEPT !.mem = store, !.cr3 = BootPd, !.status = st]
  BY ZenonT(60) DEF bootstrap_identity_map_init_mem
<1> HIDE DEF st
<1>4. PICK stored : stored = store
  BY ZenonT(60)
<1>5. IsState(m', stored, m.next)
  <2>1. m' = [m EXCEPT !.mem = stored, !.cr3 = BootPd, !.status = st]
    BY <1>3, <1>4, ZenonT(60)
  <2>2. Machine(m)
    BY <1>2, ZenonT(60) DEF Kernel
  <2> QED BY ONLY <2>1, <2>2, StateMemCr3Status, ZenonT(60)
<1>6. BootPd # ModulePt /\ BootPd \in KernelDirs /\ PageDirectory \in KernelDirs
      /\ ModulePt \notin KernelDirs
  BY Apart, ZenonT(60) DEF KernelDirs
<1>7. ModulePt \in Nat /\ ModulePt < m.next /\ PdIndex(m.next) \in Nat
  <2>1. /\ ModulePt \in 0 .. KernelEnd - 1
        /\ KernelEnd \in Nat /\ ImagesEnd \in Nat /\ KernelEnd <= ImagesEnd
    BY <1>1, Frames, ZenonT(60) DEF Typed
  <2>2. m.next \in Nat
    BY <1>2, ZenonT(60) DEF Kernel, Structures
  <2>3. PdIndex(m.next) \in Nat
    BY <2>2, PagingAssumption DEF PdIndex
  <2>4. ModulePt \in Nat /\ ModulePt < m.next
    BY ONLY <1>2, <2>1, <2>2
  <2> QED BY <2>3, <2>4, ZenonT(60)
<1>8. WritesTwo(stored, m.mem, BootPd, ModulePt, D, R)
  <2> HIDE DEF D, R
  <2> QED BY <1>4, <1>6, TwoWritten, ZenonT(60)
<1>9. HasMore(D, PdIndex(m.next), ModulePt, m.mem[PageDirectory])
  BY OneMore, ZenonT(60)
<1> HIDE DEF D, R, store
<1>10. \A q \in DOMAIN m.mem[PageDirectory] : IsKernelEntry(m.mem, m.next, KernelDirs, PageDirectory, q)
  BY <1>2, <1>6, KernelHas, ZenonT(60)
<1>11. ASSUME NEW q \in DOMAIN D
       PROVE  q \in Nat /\ D[q].frame \in Nat /\ D[q].frame < m.next
              /\ D[q].frame \notin KernelDirs /\ ~ D[q].user
  <2>1. CASE q = PdIndex(m.next) /\ IsEntryTo(D[q], ModulePt)
    BY <1>6, <1>7, <2>1, ZenonT(60) DEF IsEntryTo
  <2>2. CASE q \in DOMAIN m.mem[PageDirectory] /\ D[q] = m.mem[PageDirectory][q]
    BY <1>10, <2>2, ZenonT(60) DEF IsKernelEntry, Table
  <2> QED BY <1>9, <2>1, <2>2, ZenonT(60) DEF HasMore
<1>12. Kernel(m', KernelDirs)
  BY <1>2, <1>5, <1>6, <1>7, <1>8, <1>11, KernelRewritten, ZenonT(60)
<1>13. User(m', KernelDirs, m'.next) /\ NoUserTable(m'.mem, KernelDirs)
  BY <1>12, KernelPrivate, ZenonT(60) DEF Kernel
<1>14. m'.next = heap.to /\ ImagesEnd' = ImagesEnd
  BY <1>1, <1>2, <1>5, ZenonT(60) DEF IsState, ImagesEnd, ImageStart
<1>15. DOMAIN page_dir' = {} /\ page_dir' \in Seq(Nat) /\ Len(page_dir') = 0 /\ step' - 1 = 0
  BY <1>1, <1>2
<1>16. Roots' = KernelDirs
  BY <1>15, ZenonT(60) DEF Roots
<1>17. Typed'
  BY <1>1, ZenonT(60) DEF Typed
<1>18. pc' # "segments"
  BY <1>1, ZenonT(60)
<1>19. LoadPhase'
  BY <1>1, <1>2, <1>13, <1>14, <1>15, <1>16, <1>18, ZenonT(60) DEF LoadPhase
<1> QED BY <1>17, <1>19, ZenonT(60) DEF IInv

\* A fresh frame becomes a copy of a directory that leads to no process.
LEMMA NewDirectory ==
  ASSUME NEW mm, NEW A, NEW floor, User(mm, A, floor), NEW b \in A,
         \A q \in DOMAIN mm.mem[b] : ~ mm.mem[b][q].user,
         NEW r, NEW store, IsState(r, store, mm.next + 1),
         WritesOne(store, mm.mem, mm.next, mm.mem[b])
  PROVE  User(r, A \union {mm.next}, floor)
<1> DEFINE pd == mm.next
           B == A \union {pd}
<1>1. /\ Machine(r) /\ r.mem = store /\ r.next = mm.next + 1
      /\ DOMAIN store = {pd} \union DOMAIN mm.mem /\ store[pd] = mm.mem[b]
      /\ \A x \in DOMAIN mm.mem : x # pd => store[x] = mm.mem[x]
  BY ZenonT(60) DEF IsState, WritesOne
<1>2. /\ Structures(mm.mem, mm.next, A) /\ TablesPlaced(mm.mem, A, floor) /\ TablesOnce(mm.mem, A)
      /\ LeavesPlaced(mm.mem, mm.next, A, floor) /\ LeavesOnce(mm.mem, A)
      /\ floor \in Nat /\ floor <= mm.next
  BY ZenonT(60) DEF User, Private
<1>3. /\ mm.next \in Nat /\ A \subseteq DOMAIN mm.mem
      /\ \A f \in DOMAIN mm.mem : f \in Nat /\ f < mm.next
      /\ \A a \in A : \A q \in DOMAIN mm.mem[a] :
           q \in Nat /\ Table(mm.mem, a, q) \in Nat /\ Table(mm.mem, a, q) < mm.next
           /\ Table(mm.mem, a, q) \notin A
  BY <1>2, ZenonT(60) DEF Structures
<1>4. \A f \in Nat : f < mm.next => f # pd /\ f < mm.next + 1
  BY ONLY <1>3
<1>5. mm.next + 1 \in Nat /\ mm.next < mm.next + 1 /\ floor <= mm.next + 1
  BY ONLY <1>2, <1>3
<1>6. \A a \in A : a # pd /\ store[a] = mm.mem[a]
  BY <1>1, <1>3, <1>4, ZenonT(60)
\* Every directory is one that was there.
<1>7. ASSUME NEW a \in B
      PROVE  \E o \in A :
               /\ store[a] = mm.mem[o]
               /\ a = o \/ (a = pd /\ \A q \in DOMAIN store[a] : ~ store[a][q].user)
  BY <1>1, <1>6, ZenonT(60)
<1> HIDE DEF B, pd
<1>8. ASSUME NEW a \in B, NEW q \in DOMAIN store[a]
      PROVE  /\ q \in Nat /\ Table(store, a, q) \in Nat /\ Table(store, a, q) < mm.next + 1
             /\ Table(store, a, q) \notin B
             /\ IF store[a][q].user
                THEN Table(store, a, q) \in DOMAIN store /\ floor <= Table(store, a, q)
                ELSE Table(store, a, q) < floor
  <2>1. PICK o \in A :
          /\ store[a] = mm.mem[o]
          /\ a = o \/ (a = pd /\ \A x \in DOMAIN store[a] : ~ store[a][x].user)
    BY <1>7, ZenonT(60)
  <2>2. Table(store, a, q) = Table(mm.mem, o, q) /\ q \in DOMAIN mm.mem[o]
        /\ store[a][q] = mm.mem[o][q]
    BY <2>1, ZenonT(60) DEF Table
  <2>3. q \in Nat /\ Table(store, a, q) \in Nat /\ Table(store, a, q) < mm.next
        /\ Table(store, a, q) \notin A
    BY <1>3, <2>2, ZenonT(60)
  <2>4. Table(store, a, q) < mm.next + 1 /\ Table(store, a, q) \notin B
    BY <1>4, <2>3, ZenonT(60) DEF B
  <2>5. IF store[a][q].user
        THEN Table(store, a, q) \in DOMAIN mm.mem /\ floor <= Table(store, a, q)
        ELSE Table(store, a, q) < floor
    BY <1>2, <2>2, ZenonT(60) DEF TablesPlaced
  <2> QED BY <1>1, <2>3, <2>4, <2>5, ZenonT(60)
<1>9. Structures(store, mm.next + 1, B)
  <2>1. B \subseteq DOMAIN store
    BY <1>1, <1>3, ZenonT(60) DEF B
  <2>2. \A f \in DOMAIN store : f \in Nat /\ f < mm.next + 1
    BY <1>1, <1>3, <1>4, <1>5, ZenonT(60) DEF pd
  <2> QED BY <1>5, <1>8, <2>1, <2>2, ZenonT(60) DEF Structures
<1>10. TablesPlaced(store, B, floor)
  BY <1>8, ZenonT(60) DEF TablesPlaced
<1>11. ASSUME NEW a \in B, NEW q, UserTable(store, a, q)
       PROVE  a \in A /\ UserTable(mm.mem, a, q) /\ Table(store, a, q) = Table(mm.mem, a, q)
  <2>1. a \in A
    BY <1>7, <1>11, ZenonT(60) DEF UserTable
  <2>2. store[a] = mm.mem[a]
    BY <1>6, <2>1, ZenonT(60)
  <2> QED BY <1>11, <2>1, <2>2, ZenonT(60) DEF UserTable, Table
<1>12. TablesOnce(store, B)
  <2>1. SUFFICES ASSUME NEW pd1 \in B, NEW pd2 \in B, NEW q1, NEW q2,
                        UserTable(store, pd1, q1), UserTable(store, pd2, q2),
                        Table(store, pd1, q1) = Table(store, pd2, q2)
                 PROVE  pd1 = pd2 /\ q1 = q2
    BY ZenonT(60) DEF TablesOnce
  <2>2. /\ pd1 \in A /\ UserTable(mm.mem, pd1, q1) /\ Table(store, pd1, q1) = Table(mm.mem, pd1, q1)
        /\ pd2 \in A /\ UserTable(mm.mem, pd2, q2) /\ Table(store, pd2, q2) = Table(mm.mem, pd2, q2)
    BY <1>11, <2>1, ZenonT(60)
  <2> QED BY <1>2, <2>1, <2>2, ZenonT(60) DEF TablesOnce
<1>13. ASSUME NEW a \in B, NEW q, NEW i, UserLeaf(store, a, q, i)
       PROVE  a \in A /\ UserLeaf(mm.mem, a, q, i) /\ Leaf(store, a, q, i) = Leaf(mm.mem, a, q, i)
  <2>1. /\ a \in A /\ UserTable(mm.mem, a, q) /\ Table(store, a, q) = Table(mm.mem, a, q)
        /\ i \in DOMAIN store[Table(store, a, q)]
    BY <1>11, <1>13, ZenonT(60) DEF UserLeaf
  <2>2. Table(mm.mem, a, q) \in DOMAIN mm.mem
    BY <1>2, <2>1, ZenonT(60) DEF TablesPlaced, UserTable
  <2>3. store[Table(mm.mem, a, q)] = mm.mem[Table(mm.mem, a, q)]
    BY <1>1, <1>3, <1>4, <2>2, ZenonT(60)
  <2> QED BY <2>1, <2>3, ZenonT(60) DEF UserLeaf, Leaf
<1>14. LeavesPlaced(store, mm.next + 1, B, floor)
  <2>1. SUFFICES ASSUME NEW a \in B, NEW q, NEW i, UserLeaf(store, a, q, i)
                 PROVE  /\ i \in Nat /\ i < E
                        /\ Leaf(store, a, q, i) \in Nat /\ floor <= Leaf(store, a, q, i)
                        /\ Leaf(store, a, q, i) < mm.next + 1 /\ Leaf(store, a, q, i) \notin DOMAIN store
    BY ZenonT(60) DEF LeavesPlaced
  <2>2. a \in A /\ UserLeaf(mm.mem, a, q, i) /\ Leaf(store, a, q, i) = Leaf(mm.mem, a, q, i)
    BY <1>13, <2>1, ZenonT(60)
  <2>3. /\ i \in Nat /\ i < E
        /\ Leaf(store, a, q, i) \in Nat /\ floor <= Leaf(store, a, q, i)
        /\ Leaf(store, a, q, i) < mm.next /\ Leaf(store, a, q, i) \notin DOMAIN mm.mem
    BY <1>2, <2>2, ZenonT(60) DEF LeavesPlaced
  <2> QED BY <1>1, <1>4, <2>3, ZenonT(60)
<1>15. LeavesOnce(store, B)
  <2>1. SUFFICES ASSUME NEW pd1 \in B, NEW pd2 \in B, NEW q1, NEW q2, NEW i1, NEW i2,
                        UserLeaf(store, pd1, q1, i1), UserLeaf(store, pd2, q2, i2),
                        Leaf(store, pd1, q1, i1) = Leaf(store, pd2, q2, i2)
                 PROVE  pd1 = pd2 /\ q1 = q2 /\ i1 = i2
    BY DEF LeavesOnce
  <2>2. /\ pd1 \in A /\ UserLeaf(mm.mem, pd1, q1, i1)
        /\ Leaf(store, pd1, q1, i1) = Leaf(mm.mem, pd1, q1, i1)
        /\ pd2 \in A /\ UserLeaf(mm.mem, pd2, q2, i2)
        /\ Leaf(store, pd2, q2, i2) = Leaf(mm.mem, pd2, q2, i2)
    BY <1>13, <2>1, ZenonT(60)
  <2>3. Leaf(mm.mem, pd1, q1, i1) = Leaf(mm.mem, pd2, q2, i2)
    BY <2>1, <2>2, ZenonT(60)
  <2> QED BY <1>2, <2>2, <2>3, ZenonT(60) DEF LeavesOnce
<1> QED BY <1>1, <1>2, <1>5, <1>9, <1>10, <1>12, <1>14, <1>15, ZenonT(60) DEF User, Private, B, pd

\* What Append does.
IsAppend(t, s, x) ==
  /\ t \in Seq(Nat) /\ Len(t) = Len(s) + 1
  /\ Len(s) + 1 \in DOMAIN t /\ t[Len(s) + 1] = x
  /\ \A i \in DOMAIN s : i \in DOMAIN t /\ t[i] = s[i]
  /\ \A i \in DOMAIN t : (i \in DOMAIN s /\ t[i] = s[i]) \/ (i = Len(s) + 1 /\ t[i] = x)

LEMMA Appended ==
  ASSUME NEW s \in Seq(Nat), NEW x \in Nat, NEW t, t = Append(s, x)
  PROVE  IsAppend(t, s, x)
BY DEF IsAppend

\* The parts of the invariant while modules are loaded.
Directories ==
  /\ page_dir \in Seq(Nat)
  /\ \A i \in DOMAIN page_dir : page_dir[i] \notin KernelDirs
  /\ \A i, j \in DOMAIN page_dir : page_dir[i] = page_dir[j] => i = j

LEMMA LoadParts ==
  LoadPhase <=>
    /\ pc \in {"load", "segments", "done"}
    /\ Loading(m, Roots, heap.to) /\ ImagesEnd <= heap.to /\ Directories
    /\ (m.status = "ok" /\ pc = "segments" => Len(page_dir) = step)
    /\ (m.status = "ok" /\ pc = "load" => Len(page_dir) = step - 1)
BY ZenonT(60) DEF LoadPhase, Loading, Directories

LEMMA CreateStep ==
  ASSUME IInv, NEW valid \in BOOLEAN, create_module_dir(valid)
  PROVE  IInv'
<1>1. Typed /\ pc = "load" /\ m.status = "ok" /\ pc' = "segments" /\ UNCHANGED <<images, step, heap>>
  BY ZenonT(60) DEF IInv, create_module_dir, At
<1>2. LoadPhase
  BY <1>1, ZenonT(60) DEF IInv, KernelPhase
<1>3. /\ Loading(m, Roots, heap.to) /\ ImagesEnd <= heap.to /\ Directories
      /\ Len(page_dir) = step - 1
  BY <1>1, <1>2, LoadParts, ZenonT(60)
<1>4. ImagesEnd' = ImagesEnd /\ Typed'
  BY <1>1, ZenonT(60) DEF ImagesEnd, ImageStart, Typed
<1> DEFINE pd == m.next
           template == DirectoryTemplate(m)
           fetched == bootstrap_fetch_page(m, 1)
           store == pd :> template @@ fetched.mem
           on == [fetched EXCEPT !.mem = store, !.cr3 = pd]
<1>5. CASE ~ Reachable(m, pd)
  <2>1. m' = Fail(m, "fault") /\ page_dir' = page_dir
    BY <1>5, ZenonT(60) DEF create_module_dir
  <2>2. Loading(m', Roots, heap.to) /\ m'.status = "fault"
    BY <1>3, <2>1, FailLoading, ZenonT(60)
  <2>3. Roots' = Roots /\ Directories' /\ m'.status # "ok"
    BY <1>3, <2>1, <2>2, ZenonT(60) DEF Roots, Directories
  <2>4. LoadPhase'
    BY <1>1, <1>3, <1>4, <2>2, <2>3, ZenonT(60) DEF LoadPhase, Loading, Directories
  <2> QED BY <1>4, <2>4, ZenonT(60) DEF IInv
<1>6. CASE Reachable(m, pd)
  <2>1. m' = elf_ctx_create(on, ImageStart(step), valid) /\ page_dir' = Append(page_dir, pd)
    BY <1>6, ZenonT(60) DEF create_module_dir
  <2>2. User(m, Roots, heap.to) /\ NoUserTable(m.mem, KernelDirs) /\ Machine(m)
    BY <1>3, ZenonT(60) DEF Loading, User
  <2>3. IsState(fetched, m.mem, m.next + 1)
    BY <2>2, StateFetched, ZenonT(60)
  <2>4. PICK old, stored, r : old = fetched /\ stored = store /\ r = on
    BY ZenonT(60)
  <2>5. Machine(old) /\ old.mem = m.mem /\ old.next = m.next + 1 /\ stored = pd :> template @@ m.mem
        /\ r = [old EXCEPT !.mem = stored, !.cr3 = pd]
    BY <2>3, <2>4, ZenonT(60) DEF IsState
  <2> HIDE DEF fetched, store, on
  <2>6. IsState(r, stored, m.next + 1)
    <3>1. IsState(r, stored, old.next)
      BY ONLY <2>5, StateMemCr3, ZenonT(60)
    <3> QED BY <2>5, <3>1, ZenonT(60)
  <2>7. WritesOne(stored, m.mem, m.next, m.mem[BootPd])
    <3>1. template = m.mem[BootPd]
      BY ZenonT(60) DEF DirectoryTemplate
    <3> QED BY <2>5, <3>1, OneWritten, ZenonT(60)
  <2>8. BootPd \in Roots /\ BootPd \in KernelDirs /\ KernelDirs \subseteq Roots
    BY ZenonT(60) DEF Roots, KernelDirs
  <2>9. User(r, Roots \union {pd}, heap.to)
    <3>1. \A q \in DOMAIN m.mem[BootPd] : ~ m.mem[BootPd][q].user
      BY <2>2, <2>8, ZenonT(60) DEF NoUserTable
    <3> QED BY <2>2, <2>6, <2>7, <2>8, <3>1, NewDirectory, ZenonT(60)
  <2>10. pd \in Nat /\ \A a \in Roots : a \in DOMAIN m.mem /\ a # pd
    <3>1. m.next \in Nat /\ Roots \subseteq DOMAIN m.mem
          /\ \A f \in DOMAIN m.mem : f \in Nat /\ f < m.next
      BY <2>2, ZenonT(60) DEF User, Private, Structures
    <3> QED BY ONLY <3>1
  <2>11. NoUserTable(r.mem, KernelDirs)
    <3>1. \A a \in KernelDirs : r.mem[a] = m.mem[a]
      BY <2>6, <2>7, <2>8, <2>10, ZenonT(60) DEF WritesOne, IsState
    <3> QED BY <2>2, <3>1, ZenonT(60) DEF NoUserTable
  <2>12. Loading(r, Roots \union {pd}, heap.to)
    BY <2>9, <2>11, ZenonT(60) DEF Loading
  <2>13. Loading(m', Roots \union {pd}, heap.to)
    <3>1. m' = r \/ m' = Fail(r, "fault") \/ m' = Fail(r, "panic")
      BY <2>1, <2>4, ZenonT(60) DEF elf_ctx_create
    <3>2. CASE m' = r
      BY <2>12, <3>2, ZenonT(60)
    <3>3. ASSUME NEW reason, m' = Fail(r, reason)
          PROVE  Loading(m', Roots \union {pd}, heap.to)
      BY <2>12, <3>3, FailLoading, ZenonT(60)
    <3> QED BY <3>1, <3>2, <3>3, ZenonT(60)
  <2>14. IsAppend(page_dir', page_dir, pd)
    BY <1>3, <2>1, <2>10, Appended, ZenonT(60) DEF Directories
  <2>15. Roots' = Roots \union {pd}
    BY <2>14, ZenonT(60) DEF Roots, IsAppend
  <2>16. \A i \in DOMAIN page_dir : page_dir[i] \in Roots
    BY ZenonT(60) DEF Roots
  <2>17. Directories'
    <3>1. pd \notin KernelDirs /\ \A i \in DOMAIN page_dir : page_dir[i] # pd
      BY <2>8, <2>10, <2>16, ZenonT(60)
    <3>2. page_dir' \in Seq(Nat) /\ \A i \in DOMAIN page_dir' : page_dir'[i] \notin KernelDirs
      BY <1>3, <2>14, <3>1, ZenonT(60) DEF Directories, IsAppend
    <3>3. \A i, j \in DOMAIN page_dir' : page_dir'[i] = page_dir'[j] => i = j
      BY <1>3, <2>14, <3>1, ZenonT(60) DEF Directories, IsAppend
    <3> QED BY <3>2, <3>3, ZenonT(60) DEF Directories
  <2>18. Len(page_dir') = step'
    <3>1. Len(page_dir') = Len(page_dir) + 1
      BY <2>14, ZenonT(60) DEF IsAppend
    <3>2. step \in Nat
      BY <1>1, ZenonT(60) DEF Typed
    <3> QED BY ONLY <1>1, <1>3, <3>1, <3>2
  <2>19. LoadPhase'
    BY <1>1, <1>3, <1>4, <2>13, <2>15, <2>17, <2>18, ZenonT(60) DEF LoadPhase, Loading, Directories
  <2> QED BY <1>4, <2>19, ZenonT(60) DEF IInv
<1> QED BY <1>5, <1>6, ZenonT(60)

\* The directory of the module that is being loaded.
LEMMA Current ==
  ASSUME IInv, At("segments")
  PROVE  /\ Typed /\ Loading(m, Roots, heap.to) /\ ImagesEnd <= heap.to /\ Directories
         /\ Len(page_dir) = step /\ KernelDirs \subseteq Roots
         /\ page_dir[step] \in Roots /\ page_dir[step] \notin KernelDirs
<1>1. Typed /\ pc = "segments" /\ m.status = "ok"
  BY ZenonT(60) DEF IInv, At
<1>2. LoadPhase
  BY <1>1, ZenonT(60) DEF IInv, KernelPhase
<1>3. /\ Loading(m, Roots, heap.to) /\ ImagesEnd <= heap.to /\ Directories
      /\ Len(page_dir) = step
  BY <1>1, <1>2, LoadParts, ZenonT(60)
<1>4. step \in DOMAIN page_dir
  <2>1. page_dir \in Seq(Nat) /\ step \in Nat \ {0}
    BY <1>1, <1>3, ZenonT(60) DEF Directories, Typed
  <2> QED BY ONLY <1>3, <2>1
<1>5. page_dir[step] \in Roots /\ page_dir[step] \notin KernelDirs /\ KernelDirs \subseteq Roots
  BY <1>3, <1>4, ZenonT(60) DEF Roots, Directories
<1> QED BY <1>1, <1>3, <1>5, ZenonT(60)

LEMMA SegmentStep ==
  ASSUME IInv, NEW s \in Segments, load_segment(s), MmapKeepsPrivate
  PROVE  IInv'
<1>1. At("segments") /\ UNCHANGED <<images, pc, step, heap, page_dir>> /\ pc = "segments"
  BY ZenonT(60) DEF load_segment, At
<1>2. /\ Typed /\ Loading(m, Roots, heap.to) /\ ImagesEnd <= heap.to /\ Directories
      /\ Len(page_dir) = step /\ KernelDirs \subseteq Roots
      /\ page_dir[step] \in Roots /\ page_dir[step] \notin KernelDirs
  BY <1>1, Current, ZenonT(60)
<1>3. s.page \in Nat /\ s.memsz \in Nat
  BY ProgramAssumption, ZenonT(60)
<1>4. PICK pd : pd = page_dir[step]
  BY ZenonT(60)
<1>5. PICK writable : writable = bootstrap_elf_mmap(m, pd, s.page, s.memsz, s.prot \union {"w"})
  BY ZenonT(60)
<1>6. Loading(writable, Roots, heap.to)
  BY <1>2, <1>3, <1>4, <1>5, ElfMmapLoading, ZenonT(60)
<1>7. \/ m' = Fail(m, "panic") \/ m' = Fail(m, "fault")
      \/ m' = m
      \/ m' = writable
      \/ m' = Fail(writable, "fault")
      \/ m' = bootstrap_elf_mmap(writable, pd, s.page, s.memsz, s.prot)
  BY <1>4, <1>5, ZenonT(60) DEF load_segment
<1>8. Loading(m', Roots, heap.to)
  <2>1. CASE m' = Fail(m, "panic") \/ m' = Fail(m, "fault")
    BY <1>2, <2>1, FailLoading, ZenonT(60)
  <2>2. CASE m' = m \/ m' = writable
    BY <1>2, <1>6, <2>2, ZenonT(60)
  <2>3. CASE m' = Fail(writable, "fault")
    BY <1>6, <2>3, FailLoading, ZenonT(60)
  <2>4. CASE m' = bootstrap_elf_mmap(writable, pd, s.page, s.memsz, s.prot)
    BY <1>2, <1>3, <1>4, <1>6, <2>4, ElfMmapLoading, ZenonT(60)
  <2> QED BY <1>7, <2>1, <2>2, <2>3, <2>4, ZenonT(60)
<1>9. Typed' /\ ImagesEnd' = ImagesEnd /\ Roots' = Roots /\ Directories'
  BY <1>1, <1>2, ZenonT(60) DEF Typed, ImagesEnd, ImageStart, Roots, Directories
<1>10. LoadPhase'
  BY <1>1, <1>2, <1>8, <1>9, ZenonT(60) DEF LoadPhase, Loading, Directories
<1> QED BY <1>9, <1>10, ZenonT(60) DEF IInv

LEMMA StackStep ==
  ASSUME IInv, map_stack, MmapKeepsPrivate
  PROVE  IInv'
<1>1. At("segments") /\ UNCHANGED <<images, heap, page_dir>> /\ pc' = "load" /\ step' = step + 1
  BY ZenonT(60) DEF map_stack
<1>2. /\ Typed /\ Loading(m, Roots, heap.to) /\ ImagesEnd <= heap.to /\ Directories
      /\ Len(page_dir) = step /\ KernelDirs \subseteq Roots
      /\ page_dir[step] \in Roots /\ page_dir[step] \notin KernelDirs
  BY <1>1, Current, ZenonT(60)
<1>3. StackFirst \in Nat /\ (UserStackPages + 1) * PAGE_SIZE \in Nat
  <2>1. UserStackTop \in Nat /\ UserStackPages \in Nat /\ UserStackPages <= UserStackTop
    BY LayoutAssumption, ZenonT(60)
  <2> QED BY <2>1, PagingAssumption DEF StackFirst
<1>4. PICK pd, size, prot : pd = page_dir[step] /\ size = (UserStackPages + 1) * PAGE_SIZE
                            /\ prot = {"r", "w"}
  BY ZenonT(60)
<1>5. m' = bootstrap_elf_mmap(m, pd, StackFirst, size, prot)
  BY <1>4, ZenonT(60) DEF map_stack
<1>6. Loading(m', Roots, heap.to)
  BY <1>2, <1>3, <1>4, <1>5, ElfMmapLoading, ZenonT(60)
<1>7. step' \in Nat \ {0} /\ step' - 1 = step
  <2>1. step \in Nat
    BY <1>2, ZenonT(60) DEF Typed
  <2> QED BY ONLY <1>1, <2>1
<1>8. Typed' /\ ImagesEnd' = ImagesEnd /\ Roots' = Roots /\ Directories'
  BY <1>1, <1>2, <1>7, ZenonT(60) DEF Typed, ImagesEnd, ImageStart, Roots, Directories
<1>9. pc' # "segments"
  BY <1>1, ZenonT(60)
<1>10. LoadPhase'
  BY <1>1, <1>2, <1>6, <1>7, <1>8, <1>9, ZenonT(60) DEF LoadPhase, Loading, Directories
<1> QED BY <1>8, <1>10, ZenonT(60) DEF IInv

LEMMA CleanupStep ==
  ASSUME IInv, kmem_init_cleanup
  PROVE  IInv'
<1>1. Typed /\ pc = "load" /\ pc' = "done" /\ UNCHANGED <<images, step, heap, page_dir>>
      /\ m' = [m EXCEPT !.cr3 = BootPd]
  BY ZenonT(60) DEF IInv, kmem_init_cleanup, At
<1>2. LoadPhase
  BY <1>1, ZenonT(60) DEF IInv, KernelPhase
<1>3. Loading(m, Roots, heap.to) /\ ImagesEnd <= heap.to /\ Directories
  BY <1>2, LoadParts, ZenonT(60)
<1>4. IsState(m', m.mem, m.next)
  <2>1. Machine(m)
    BY <1>3, ZenonT(60) DEF Loading, User
  <2> QED BY ONLY <1>1, <2>1, StateCr3, ZenonT(60)
<1>5. Loading(m', Roots, heap.to)
  BY <1>3, <1>4, ZenonT(60) DEF Loading, User, IsState
<1>6. Typed' /\ ImagesEnd' = ImagesEnd /\ Roots' = Roots /\ Directories'
  BY <1>1, <1>3, ZenonT(60) DEF Typed, ImagesEnd, ImageStart, Roots, Directories
<1>7. pc' # "segments" /\ pc' # "load"
  BY <1>1, ZenonT(60)
<1>8. LoadPhase'
  BY <1>1, <1>3, <1>5, <1>6, <1>7, ZenonT(60) DEF LoadPhase, Loading, Directories
<1> QED BY <1>6, <1>8, ZenonT(60) DEF IInv

\* Every step of bootstrap preserves the invariant.
LEMMA StepIInv ==
  ASSUME IInv, Next, MmapKeepsKernel, MmapKeepsPrivate
  PROVE  IInv'
<1>1. CASE bootstrap_map_boot_modules
  BY <1>1, MapModulesStep, ZenonT(60)
<1>2. CASE kmap
  BY <1>2, KmapStep, ZenonT(60)
<1>3. CASE kmem_init
  BY <1>3, KmemInitStep, ZenonT(60)
<1>4. CASE bootstrap_identity_map_init_mem
  BY <1>4, WindowStep, ZenonT(60)
<1>5. ASSUME NEW valid \in BOOLEAN, create_module_dir(valid) PROVE IInv'
  BY <1>5, CreateStep, ZenonT(60)
<1>6. ASSUME NEW s \in Segments, load_segment(s) PROVE IInv'
  BY <1>6, SegmentStep, ZenonT(60)
<1>7. CASE map_stack
  BY <1>7, StackStep, ZenonT(60)
<1>8. CASE kmem_init_cleanup
  BY <1>8, CleanupStep, ZenonT(60)
<1> QED BY <1>1, <1>2, <1>3, <1>4, <1>5, <1>6, <1>7, <1>8, ZenonT(60) DEF Next

LEMMA Stutter == IInv /\ UNCHANGED vars => IInv'
<1> SUFFICES ASSUME IInv, UNCHANGED vars PROVE IInv'
  BY ZenonT(60)
<1>1. UNCHANGED <<images, m, pc, step, heap, page_dir>>
  BY ZenonT(60) DEF vars
<1>2. ImagesEnd' = ImagesEnd /\ Roots' = Roots /\ Typed'
  BY <1>1, ZenonT(60) DEF ImagesEnd, ImageStart, Roots, IInv, Typed
<1>3. KernelPhase => KernelPhase'
  BY <1>1, <1>2, ZenonT(60) DEF KernelPhase
<1>4. LoadPhase => LoadPhase'
  BY <1>1, <1>2, ZenonT(60) DEF LoadPhase
<1> QED BY <1>2, <1>3, <1>4, ZenonT(60) DEF IInv

\* bootstrap never returns to the walk over the tags or to its own start.
LEMMA BootstrapMoves ==
  ASSUME Next
  PROVE  pc' # "map_modules" /\ pc # "early"
<1>1. CASE bootstrap_map_boot_modules
  BY <1>1, ZenonT(60) DEF bootstrap_map_boot_modules, At
<1>2. CASE kmap
  BY <1>2, ZenonT(60) DEF kmap, At
<1>3. CASE kmem_init
  BY <1>3, ZenonT(60) DEF kmem_init, At
<1>4. CASE bootstrap_identity_map_init_mem
  BY <1>4, ZenonT(60) DEF bootstrap_identity_map_init_mem, At
<1>5. ASSUME NEW valid \in BOOLEAN, create_module_dir(valid) PROVE pc' # "map_modules" /\ pc # "early"
  BY <1>5, ZenonT(60) DEF create_module_dir, At
<1>6. ASSUME NEW s \in Segments, load_segment(s) PROVE pc' # "map_modules" /\ pc # "early"
  BY <1>6, ZenonT(60) DEF load_segment, At
<1>7. CASE map_stack
  BY <1>7, ZenonT(60) DEF map_stack, At
<1>8. CASE kmem_init_cleanup
  BY <1>8, ZenonT(60) DEF kmem_init_cleanup, At
<1> QED BY <1>1, <1>2, <1>3, <1>4, <1>5, <1>6, <1>7, <1>8, ZenonT(60) DEF Next

-----------------------------------------------------------------------------
(* What a process can reach *)

\* A page that ring 3 reaches, in terms of its two indices.
LEMMA PageReached ==
  ASSUME IInv, LoadPhase, NEW pd \in Roots, NEW page \in UserPages(pd)
  PROVE  /\ page \in Nat
         /\ UserLeaf(m.mem, pd, PdIndex(page), PtIndex(page))
         /\ PteOf(m, pd, page).frame = Leaf(m.mem, pd, PdIndex(page), PtIndex(page))
<1>1. Private(m.mem, m.next, Roots, heap.to)
  BY ZenonT(60) DEF LoadPhase, User
<1>2. UserPage(m, pd, page)
  BY ZenonT(60) DEF UserPages
<1>3. PICK q \in DOMAIN m.mem[pd] : m.mem[pd][q].user
            /\ \E i \in DOMAIN m.mem[m.mem[pd][q].frame] : page = q * E + i
  BY ZenonT(60) DEF UserPages
<1>4. PICK i \in DOMAIN m.mem[m.mem[pd][q].frame] : page = q * E + i
  BY <1>3, ZenonT(60)
<1>5. UserLeaf(m.mem, pd, q, i)
  BY <1>3, <1>4, ZenonT(60) DEF UserLeaf, UserTable, Table
<1>6. q \in Nat /\ i \in Nat
  BY <1>1, <1>5, ZenonT(60) DEF Private, Structures, LeavesPlaced
<1>7. page \in Nat
  BY ONLY <1>4, <1>6, PagingAssumption
<1>8. UserLeaf(m.mem, pd, PdIndex(page), PtIndex(page))
  BY <1>2, ZenonT(60) DEF UserPage, Mapped, UserLeaf, UserTable, Table
<1>9. PteOf(m, pd, page).frame = Leaf(m.mem, pd, PdIndex(page), PtIndex(page))
  BY ZenonT(60) DEF PteOf, Leaf, Table
<1> QED BY <1>7, <1>8, <1>9, ZenonT(60)

LEMMA FrameReached ==
  ASSUME IInv, LoadPhase, NEW pd \in Roots, NEW f \in UserFrames(pd)
  PROVE  /\ f \notin DOMAIN m.mem \union KernelFrames \union KernelEnd .. ImagesEnd - 1
         /\ \E q, i : UserLeaf(m.mem, pd, q, i) /\ f = Leaf(m.mem, pd, q, i)
<1>1. PICK page \in UserPages(pd) : f = PteOf(m, pd, page).frame
  BY ZenonT(60) DEF UserFrames
<1>2. PICK q, i : UserLeaf(m.mem, pd, q, i) /\ f = Leaf(m.mem, pd, q, i)
  BY <1>1, PageReached, ZenonT(60)
<1>3. f \in Nat /\ heap.to <= f /\ f \notin DOMAIN m.mem
  <2>1. LeavesPlaced(m.mem, m.next, Roots, heap.to)
    BY ZenonT(60) DEF LoadPhase, User, Private
  <2> QED BY <1>2, <2>1, ZenonT(60) DEF LeavesPlaced
<1>4. images \in Seq(Nat) /\ heap.from \in Nat /\ heap.to \in Nat /\ ImagesEnd <= heap.to
  BY ZenonT(60) DEF IInv, Typed, LoadPhase
<1>5. KernelEnd \in Nat /\ ImagesEnd \in Nat /\ KernelEnd <= ImagesEnd
  BY <1>4, Frames, ZenonT(60)
<1>6. f \notin KernelFrames /\ f \notin KernelEnd .. ImagesEnd - 1
  <2>1. \A a, b, c, d, e : /\ a \in Nat /\ b \in Nat /\ c \in Nat /\ d \in Nat /\ e \in Nat
                           /\ a <= b /\ b <= d /\ d <= e
                           => /\ e \notin 0 .. a - 1 /\ e \notin c .. d - 1
                              /\ e \notin a .. b - 1
    BY ONLY SMTT(60)
  <2> QED BY ONLY <1>3, <1>4, <1>5, <2>1, ZenonT(60) DEF KernelFrames
<1> QED BY <1>2, <1>3, <1>6, ZenonT(60)

LEMMA FramesApart == IInv => UserFramesPrivate
<1> SUFFICES ASSUME IInv PROVE UserFramesPrivate
  BY ZenonT(60)
<1>1. CASE KernelPhase
  <2>1. DOMAIN page_dir = {}
    <3>1. page_dir = <<>>
      BY <1>1, ZenonT(60) DEF KernelPhase
    <3> QED BY ONLY <3>1
  <2> QED BY <2>1, ZenonT(60) DEF UserFramesPrivate
<1>2. CASE LoadPhase
  <2>1. LeavesOnce(m.mem, Roots) /\ Directories
    BY <1>2, ZenonT(60) DEF LoadPhase, User, Private, Directories
  <2>2. \A i \in DOMAIN page_dir : page_dir[i] \in Roots
    BY ZenonT(60) DEF Roots
  <2>3. SUFFICES ASSUME NEW i \in DOMAIN page_dir, NEW pd, pd = page_dir[i]
        PROVE  /\ UserFrames(pd) \cap (DOMAIN m.mem \union KernelFrames
                                         \union KernelEnd .. ImagesEnd - 1) = {}
               /\ \A p, q \in UserPages(pd) :
                    PteOf(m, pd, p).frame = PteOf(m, pd, q).frame => p = q
               /\ \A j \in DOMAIN page_dir \ {i} :
                    UserFrames(pd) \cap UserFrames(page_dir[j]) = {}
    BY ZenonT(60) DEF UserFramesPrivate
  <2>4. pd \in Roots
    BY <2>2, <2>3, ZenonT(60)
  <2>5. UserFrames(pd) \cap (DOMAIN m.mem \union KernelFrames
                               \union KernelEnd .. ImagesEnd - 1) = {}
    BY <1>2, <2>4, FrameReached, ZenonT(60)
  <2>6. ASSUME NEW p \in UserPages(pd), NEW q \in UserPages(pd),
               PteOf(m, pd, p).frame = PteOf(m, pd, q).frame
        PROVE  p = q
    <3>1. /\ p \in Nat /\ q \in Nat
          /\ UserLeaf(m.mem, pd, PdIndex(p), PtIndex(p))
          /\ UserLeaf(m.mem, pd, PdIndex(q), PtIndex(q))
          /\ PteOf(m, pd, p).frame = Leaf(m.mem, pd, PdIndex(p), PtIndex(p))
          /\ PteOf(m, pd, q).frame = Leaf(m.mem, pd, PdIndex(q), PtIndex(q))
      BY <1>2, <2>4, PageReached, ZenonT(60)
    <3>2. PdIndex(p) = PdIndex(q) /\ PtIndex(p) = PtIndex(q)
      BY <2>1, <2>4, <2>6, <3>1, ZenonT(60) DEF LeavesOnce
    <3>3. /\ p = PdIndex(p) * E + PtIndex(p)
          /\ q = PdIndex(q) * E + PtIndex(q)
      BY <3>1, PagingAssumption DEF PdIndex, PtIndex
    <3> QED BY <3>2, <3>3, ZenonT(60)
  <2>7. ASSUME NEW j \in DOMAIN page_dir \ {i}, NEW f \in UserFrames(pd),
               f \in UserFrames(page_dir[j])
        PROVE  FALSE
    <3>1. PICK q1, i1 : UserLeaf(m.mem, pd, q1, i1) /\ f = Leaf(m.mem, pd, q1, i1)
      BY <1>2, <2>4, FrameReached, ZenonT(60)
    <3>2. page_dir[j] \in Roots
      BY <2>2, ZenonT(60)
    <3>3. PICK q2, i2 : UserLeaf(m.mem, page_dir[j], q2, i2) /\ f = Leaf(m.mem, page_dir[j], q2, i2)
      BY <1>2, <2>7, <3>2, FrameReached, ZenonT(60)
    <3>4. pd = page_dir[j]
      BY <2>1, <2>4, <3>1, <3>2, <3>3, ZenonT(60) DEF LeavesOnce
    <3> QED BY <2>1, <2>3, <3>4, ZenonT(60) DEF Directories
  <2> QED BY <2>5, <2>6, <2>7, ZenonT(60)
<1> QED BY <1>1, <1>2, ZenonT(60) DEF IInv

=============================================================================
