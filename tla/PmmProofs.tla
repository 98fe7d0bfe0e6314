----------------------------- MODULE PmmProofs -----------------------------
(***************************************************************************)
(* Proofs about the physical memory manager: for every page size, byte     *)
(* width, stack size and memory map the boot loader may hand over, no page *)
(* is granted twice, none is leaked, and the manager implements the        *)
(* abstract allocator.                                                     *)
(***************************************************************************)
EXTENDS Pmm, TLAPS, WellFoundedInduction

-----------------------------------------------------------------------------
(* Arithmetic.                                                             *)

\* A set of natural numbers has a least element, and Least finds it: what the
\* upward scans of pmm_init and pmm_alloc_pages stop at.
LEMMA LeastFound ==
  ASSUME NEW T, T \subseteq Nat, T # {}
  PROVE  Least(T) \in T /\ \A y \in T : Least(T) <= y
<1> DEFINE R == OpToRel(<, Nat)
<1>1. IsWellFoundedOn(R, Nat)
  BY NatLessThanWellFounded
<1>2. \A x, y \in Nat : <<x, y>> \in R <=> x < y
  BY Zenon DEF OpToRel
<1> HIDE DEF R
<1>3. PICK x \in T : \A y \in T : <<y, x>> \notin R
  BY <1>1, WFMin, Zenon
<1>4. ASSUME NEW y \in T PROVE x <= y
  <2>1. x \in Nat /\ y \in Nat
    OBVIOUS
  <2>2. ~(y < x)
    BY <1>2, <1>3, <2>1, Zenon
  <2> QED BY <2>1, <2>2
<1> QED
  BY <1>4 DEF Least

\* Finitely many naturals have a greatest: what the scan for highest_addr finds.
LEMMA GreatestExists ==
  ASSUME NEW n \in Nat \ {0}, NEW f, \A i \in 1 .. n : f[i] \in Nat
  PROVE  \E i \in 1 .. n : \A j \in 1 .. n : f[j] <= f[i]
<1> DEFINE Bad == {k \in 1 .. n : ~ \E i \in 1 .. k : \A j \in 1 .. k : f[j] <= f[i]}
<1>1. SUFFICES Bad = {}
  OBVIOUS
<1>2. SUFFICES ASSUME Bad # {} PROVE FALSE
  OBVIOUS
<1>3. /\ Least(Bad) \in Bad
      /\ \A y \in Bad : Least(Bad) <= y
  <2>1. Bad \subseteq Nat
    OBVIOUS
  <2> HIDE DEF Bad
  <2> QED BY <1>2, <2>1, LeastFound
<1> DEFINE k == Least(Bad)
<1>4. k \in 1 .. n /\ k \in Bad
  BY <1>3
<1> HIDE DEF k
<1>5. CASE k = 1
  BY <1>4, <1>5
<1>6. CASE k # 1
  <2>1. k - 1 \in 1 .. n /\ k - 1 \notin Bad
    <3>1. k \in Nat /\ k \in 1 .. n
      BY <1>4
    <3>2. \A y \in Bad : k <= y
      BY <1>3 DEF k
    <3> QED BY <1>6, <3>1, <3>2
  <2>2. PICK i \in 1 .. k - 1 : \A j \in 1 .. k - 1 : f[j] <= f[i]
    BY <2>1
  <2>3. CASE f[k] <= f[i]
    <3>1. \A j \in 1 .. k : j = k \/ j \in 1 .. k - 1
      BY <1>4
    <3> QED BY <1>4, <2>2, <2>3, <3>1
  <2>4. CASE ~(f[k] <= f[i])
    <3>1. \A j \in 1 .. k : j = k \/ j \in 1 .. k - 1
      BY <1>4
    <3>2. \A j \in 1 .. k : f[j] <= f[k]
      BY <1>4, <2>1, <2>2, <2>4, <3>1
    <3> QED BY <1>4, <3>2
  <2> QED BY <2>3, <2>4
<1> QED BY <1>5, <1>6

\* A number without remainder is its quotient's multiple.
LEMMA Multiple ==
  ASSUME NEW k \in Nat, NEW m \in Nat \ {0}
  PROVE  (k * m) % m = 0 /\ (k * m) \div m = k
OBVIOUS

\* Quotient and remainder rebuild a number.
LEMMA DivMod ==
  ASSUME NEW v \in Nat, NEW m \in Nat \ {0}
  PROVE  /\ v \div m \in Nat /\ v % m \in 0 .. m - 1
         /\ v = (v \div m) * m + (v % m)
OBVIOUS

\* A smaller number has no larger quotient.
LEMMA DivMonotone ==
  ASSUME NEW a \in Nat, NEW b \in Nat, a <= b, NEW m \in Nat \ {0}
  PROVE  a \div m \in Nat /\ b \div m \in Nat /\ a \div m <= b \div m
OBVIOUS

\* Multiplication distributes over the next multiple.
LEMMA Distribute ==
  ASSUME NEW k \in Nat, NEW d \in Nat, NEW m \in Nat
  PROVE  (k + d) * m = k * m + d * m /\ d * m \in Nat /\ k * m \in Nat
OBVIOUS

\* round_up is the number of multiples begun, times the multiple.
LEMMA RoundUpIs ==
  ASSUME NEW v \in Nat, NEW m \in Nat \ {0}
  PROVE  round_up(v, m) = (IF v % m = 0 THEN v \div m ELSE v \div m + 1) * m
<1>1. CASE v % m = 0
  BY <1>1, DivMod DEF round_up
<1>2. CASE v % m # 0
  <2> DEFINE k == v \div m
  <2>1. k \in Nat /\ v = k * m + (v % m) /\ v % m \in 0 .. m - 1
    BY DivMod
  <2>2. (k + 1) * m = k * m + 1 * m /\ k * m \in Nat
    BY <2>1, Distribute
  <2> HIDE DEF k
  <2>3. round_up(v, m) = (k + 1) * m
    BY <1>2, <2>1, <2>2 DEF round_up, round_down
  <2> QED BY <1>2, <2>3 DEF k
<1> QED BY <1>1, <1>2

\* round_up yields the next multiple.
LEMMA RoundUp ==
  ASSUME NEW v \in Nat, NEW m \in Nat \ {0}
  PROVE  /\ round_up(v, m) \in Nat
         /\ v <= round_up(v, m) /\ round_up(v, m) < v + m
         /\ round_up(v, m) % m = 0
<1>1. round_up(v, m) \in Nat /\ v <= round_up(v, m) /\ round_up(v, m) < v + m
  BY DEF round_up, round_down
<1> DEFINE k == IF v % m = 0 THEN v \div m ELSE v \div m + 1
<1>2. k \in Nat
  BY DivMod
<1>3. round_up(v, m) = k * m
  BY RoundUpIs
<1> HIDE DEF k
<1> QED BY <1>1, <1>2, <1>3, Multiple

\* round_up never passes a multiple that is no smaller than its argument.
LEMMA RoundUpLeast ==
  ASSUME NEW v \in Nat, NEW m \in Nat \ {0}, NEW w \in Nat, w % m = 0, v <= w
  PROVE  round_up(v, m) <= w
<1>1. CASE v % m = 0
  BY <1>1 DEF round_up
<1>2. CASE v % m # 0
  <2> DEFINE p == v \div m
             q == w \div m
  <2>1. /\ p \in Nat /\ v = p * m + (v % m) /\ v % m \in 0 .. m - 1
        /\ q \in Nat /\ w = q * m + (w % m)
    BY DivMod
  <2>2. p <= q
    BY DivMonotone
  <2>3. round_up(v, m) = (p + 1) * m
    BY <1>2, RoundUpIs
  <2> HIDE DEF p, q
  <2>4. p # q
    BY <1>2, <2>1
  <2>5. PICK d \in Nat : q = p + 1 + d
    <3>1. q - p - 1 \in Nat /\ q = p + 1 + (q - p - 1)
      BY <2>1, <2>2, <2>4
    <3> QED BY <3>1
  <2>6. /\ (p + 1 + d) * m = (p + 1) * m + d * m
        /\ d * m \in Nat /\ (p + 1) * m \in Nat
    BY <2>1, <2>5, Distribute
  <2>7. w = q * m
    BY <2>1
  <2> QED BY <2>3, <2>5, <2>6, <2>7
<1> QED BY <1>1, <1>2

\* A size in bytes takes a number of pages (kalloc).
LEMMA PageCountNat ==
  ASSUME NEW size \in Nat
  PROVE  /\ PageCount(size) \in Nat
         /\ size \div PAGE_SIZE <= PageCount(size)
BY RoundUp, DivMonotone, PmmAssumption DEF PageCount

-----------------------------------------------------------------------------
(* The bitmap.                                                             *)

Bitmaps(pages) == [0 .. BitmapSize(pages) - 1 -> SUBSET (0 .. CHAR_BIT - 1)]

FreeOf(bm, pages) == {p \in 0 .. pages - 1 : pmm_query_page(bm, p)}

\* A number of pages takes a number of bytes of bitmap (pmm_init).
LEMMA BitmapSizeNat ==
  ASSUME NEW pages \in Nat
  PROVE  BitmapSize(pages) \in Nat
<1>1. CHAR_BIT \in Nat \ {0}
  BY PmmAssumption
<1>2. round_up(pages, CHAR_BIT) \in Nat
  BY <1>1, RoundUp
<1> QED BY <1>1, <1>2, DivMod DEF BitmapSize

\* Every page has a bit of its own, and the bitmap has a byte for it.
LEMMA Location ==
  ASSUME NEW pages \in Nat, NEW p \in 0 .. pages - 1
  PROVE  /\ ByteOf(p) \in 0 .. BitmapSize(pages) - 1
         /\ BitOf(p) \in 0 .. CHAR_BIT - 1
         /\ \A q \in Nat : ByteOf(q) = ByteOf(p) /\ BitOf(q) = BitOf(p) => q = p
<1>1. p \in Nat /\ CHAR_BIT \in Nat \ {0}
  BY PmmAssumption
<1>2. BitOf(p) \in 0 .. CHAR_BIT - 1 /\ ByteOf(p) \in Nat
  BY <1>1, DivMod DEF BitOf, ByteOf
<1>3. ASSUME NEW q \in Nat, ByteOf(q) = ByteOf(p), BitOf(q) = BitOf(p)
      PROVE  q = p
  <2>1. q = ByteOf(q) * CHAR_BIT + BitOf(q) /\ p = ByteOf(p) * CHAR_BIT + BitOf(p)
    BY <1>1, DivMod DEF BitOf, ByteOf
  <2> QED BY <2>1, <1>3
<1>4. ByteOf(p) < BitmapSize(pages)
  <2> DEFINE k == IF pages % CHAR_BIT = 0 THEN pages \div CHAR_BIT
                                         ELSE pages \div CHAR_BIT + 1
  <2>1. k \in Nat
    BY <1>1, DivMod
  <2>2. BitmapSize(pages) = k
    <3>1. round_up(pages, CHAR_BIT) = k * CHAR_BIT
      BY <1>1, RoundUpIs
    <3> HIDE DEF k
    <3> QED BY <1>1, <2>1, <3>1, Multiple DEF BitmapSize
  <2>3. ByteOf(p) <= pages \div CHAR_BIT
    BY <1>1, DivMonotone DEF ByteOf
  <2>4. CASE pages % CHAR_BIT # 0
    BY <1>1, <1>2, <2>2, <2>3, <2>4, DivMod
  <2>5. CASE pages % CHAR_BIT = 0
    <3>1. pages = (pages \div CHAR_BIT) * CHAR_BIT /\ pages \div CHAR_BIT \in Nat
      BY <1>1, <2>5, DivMod
    <3>2. p = ByteOf(p) * CHAR_BIT + BitOf(p)
      BY <1>1, DivMod DEF BitOf, ByteOf
    <3>3. ByteOf(p) # pages \div CHAR_BIT
      <4> SUFFICES ASSUME ByteOf(p) = pages \div CHAR_BIT PROVE FALSE
        OBVIOUS
      <4>1. p = pages + BitOf(p)
        BY <3>1, <3>2
      <4> QED BY <4>1, <1>2
    <3> QED BY <1>2, <2>2, <2>3, <2>5, <3>1, <3>3
  <2> QED BY <2>4, <2>5
<1>5. BitmapSize(pages) \in Nat
  BY BitmapSizeNat
<1> QED BY <1>2, <1>3, <1>4, <1>5

\* Marking pages keeps the bitmap's bytes and each byte's bits.
LEMMA MarkType ==
  ASSUME NEW pages \in Nat, NEW bm \in Bitmaps(pages), NEW S, S \subseteq Nat,
         NEW usable \in BOOLEAN
  PROVE  pmm_mark_pages(bm, S, usable) \in Bitmaps(pages)
<1>1. \A q \in Nat : BitOf(q) \in 0 .. CHAR_BIT - 1
  BY PmmAssumption, DivMod DEF BitOf
<1> QED BY <1>1 DEF pmm_mark_pages, Bitmaps

\* Marking sets or clears the bits of the pages named, and of no other page.
LEMMA MarkEffect ==
  ASSUME NEW pages \in Nat, NEW bm \in Bitmaps(pages), NEW S, S \subseteq Nat
  PROVE  /\ FreeOf(pmm_mark_pages(bm, S, TRUE), pages)
              = FreeOf(bm, pages) \cup (S \cap (0 .. pages - 1))
         /\ FreeOf(pmm_mark_pages(bm, S, FALSE), pages) = FreeOf(bm, pages) \ S
<1> SUFFICES ASSUME NEW p \in 0 .. pages - 1
             PROVE  /\ pmm_query_page(pmm_mark_pages(bm, S, TRUE), p)
                         <=> pmm_query_page(bm, p) \/ p \in S
                    /\ pmm_query_page(pmm_mark_pages(bm, S, FALSE), p)
                         <=> pmm_query_page(bm, p) /\ p \notin S
  BY DEF FreeOf
<1> DEFINE bits == {BitOf(x) : x \in {q \in S : ByteOf(q) = ByteOf(p)}}
<1>1. ByteOf(p) \in DOMAIN bm
  BY Location DEF Bitmaps
<1>2. BitOf(p) \in bits <=> p \in S
  <2>1. \A q \in S : ByteOf(q) = ByteOf(p) /\ BitOf(q) = BitOf(p) => q = p
    BY Location
  <2> QED BY <2>1, Zenon
<1>3. /\ pmm_mark_pages(bm, S, TRUE)[ByteOf(p)] = bm[ByteOf(p)] \cup bits
      /\ pmm_mark_pages(bm, S, FALSE)[ByteOf(p)] = bm[ByteOf(p)] \ bits
  BY <1>1 DEF pmm_mark_pages
<1> HIDE DEF bits
<1> QED BY <1>2, <1>3 DEF pmm_query_page

-----------------------------------------------------------------------------
(* The memory map.                                                         *)

Entries == DOMAIN layout.memmap

\* What WellFormed says of an entry of the memory map in use.
LEMMA EntryFacts ==
  ASSUME layout \in Layouts
  PROVE  /\ Entries = 1 .. Len(layout.memmap) /\ Len(layout.memmap) \in Nat \ {0}
         /\ \A i \in Entries : layout.memmap[i] \in Entry
         /\ \A i \in Entries : EndOf(layout.memmap[i]) \in Nat
<1>1. WellFormed(layout)
  BY PmmAssumption
<1>2. layout.memmap \in Seq(Entry) /\ layout.memmap # <<>>
  BY <1>1 DEF WellFormed
<1>3. /\ Entries = 1 .. Len(layout.memmap) /\ Len(layout.memmap) \in Nat \ {0}
      /\ \A i \in Entries : layout.memmap[i] \in Entry
  BY <1>2 DEF Entries
<1> QED BY <1>3 DEF Entry, EndOf

\* The scan of pmm_init for highest_addr finds an address no entry passes.
LEMMA Highest ==
  ASSUME layout \in Layouts
  PROVE  /\ HighestAddr \in Nat
         /\ \A i \in Entries : EndOf(layout.memmap[i]) <= HighestAddr
<1> DEFINE n == Len(layout.memmap)
           f == [i \in 1 .. n |-> EndOf(layout.memmap[i])]
           ends == {EndOf(layout.memmap[i]) : i \in DOMAIN layout.memmap}
<1>1. n \in Nat \ {0} /\ Entries = 1 .. n /\ \A i \in 1 .. n : f[i] \in Nat
  BY EntryFacts
<1> HIDE DEF f
<1>2. PICK i \in 1 .. n : \A j \in 1 .. n : f[j] <= f[i]
  BY <1>1, GreatestExists
<1>3. f[i] \in ends /\ \A y \in ends : y <= f[i]
  BY <1>1, <1>2 DEF f, Entries
<1>4. HighestAddr \in ends /\ \A y \in ends : y <= HighestAddr
  BY <1>3 DEF HighestAddr
<1> QED BY <1>4, EntryFacts DEF Entries

\* The pages of an aligned range are those between its ends.
LEMMA PagesOfMember ==
  ASSUME NEW base \in Nat, NEW len \in Nat
  PROVE  /\ PagesOf(base, len) \subseteq Nat
         /\ \A p \in Nat : p \in PagesOf(base, len)
                 <=> base \div PAGE_SIZE <= p /\ p < (base + len) \div PAGE_SIZE
<1>1. base \div PAGE_SIZE \in Nat /\ (base + len) \div PAGE_SIZE \in Nat
  BY DivMod, PmmAssumption
<1> QED BY <1>1 DEF PagesOf

\* The pages of a type are the pages of its entries.
LEMMA PagesOfTypeMember ==
  ASSUME NEW T, NEW p
  PROVE  p \in PagesOfType(T)
           <=> \E i \in Entries : layout.memmap[i].type \in T
                                /\ p \in EntryPages(layout.memmap[i])
BY Zenon DEF PagesOfType, Entries

\* Entries that do not overlap share no page.
LEMMA ApartPages ==
  ASSUME NEW e \in Entry, NEW f \in Entry, Apart(e, f)
  PROVE  EntryPages(e) \cap EntryPages(f) = {}
<1>1. PAGE_SIZE \in Nat \ {0}
  BY PmmAssumption
<1>2. /\ e.base \in Nat /\ e.length \in Nat /\ EndOf(e) = e.base + e.length
      /\ f.base \in Nat /\ f.length \in Nat /\ EndOf(f) = f.base + f.length
  BY DEF Entry, EndOf
<1>3. /\ EntryPages(e) \subseteq Nat
      /\ \A p \in Nat : p \in EntryPages(e)
           <=> e.base \div PAGE_SIZE <= p /\ p < EndOf(e) \div PAGE_SIZE
      /\ \A p \in Nat : p \in EntryPages(f)
           <=> f.base \div PAGE_SIZE <= p /\ p < EndOf(f) \div PAGE_SIZE
  BY <1>2, PagesOfMember DEF EntryPages
<1>4. /\ e.base \div PAGE_SIZE \in Nat /\ EndOf(e) \div PAGE_SIZE \in Nat
      /\ f.base \div PAGE_SIZE \in Nat /\ EndOf(f) \div PAGE_SIZE \in Nat
  <2>1. EndOf(e) \in Nat /\ EndOf(f) \in Nat
    BY <1>2
  <2> QED BY <1>1, <1>2, <2>1, DivMod
<1>5. CASE EndOf(e) <= f.base
  <2>1. EndOf(e) \div PAGE_SIZE <= f.base \div PAGE_SIZE
    BY <1>1, <1>2, <1>5, DivMonotone
  <2> QED BY <1>3, <1>4, <2>1
<1>6. CASE EndOf(f) <= e.base
  <2>1. EndOf(f) \div PAGE_SIZE <= e.base \div PAGE_SIZE
    BY <1>1, <1>2, <1>6, DivMonotone
  <2> QED BY <1>3, <1>4, <2>1
<1> QED BY <1>5, <1>6 DEF Apart

\* Usable memory shares no page with the memory pmm_reclaim adds.
LEMMA UsableApart ==
  ASSUME layout \in Layouts
  PROVE  PagesOfType({"USABLE"}) \cap PagesOfType(ReclaimTypes) = {}
<1> SUFFICES ASSUME NEW p \in PagesOfType({"USABLE"}), p \in PagesOfType(ReclaimTypes)
             PROVE  FALSE
  OBVIOUS
<1>1. PICK i \in Entries : /\ layout.memmap[i].type = "USABLE"
                           /\ p \in EntryPages(layout.memmap[i])
  BY PagesOfTypeMember
<1>2. PICK j \in Entries : /\ layout.memmap[j].type \in ReclaimTypes
                           /\ p \in EntryPages(layout.memmap[j])
  BY PagesOfTypeMember
<1>3. i # j
  BY <1>1, <1>2 DEF ReclaimTypes
<1>4. Apart(layout.memmap[i], layout.memmap[j])
  BY <1>1, <1>3, PmmAssumption DEF WellFormed, RamTypes, Entries
<1> QED BY <1>1, <1>2, <1>4, EntryFacts, ApartPages

\* Every page of the memory map has a bit once the bitmap is sized.
LEMMA MapInRange ==
  ASSUME layout \in Layouts, NEW T
  PROVE  /\ PageCount(HighestAddr) \in Nat
         /\ PagesOfType(T) \subseteq 0 .. PageCount(HighestAddr) - 1
<1> DEFINE N == PageCount(HighestAddr)
<1>1. PAGE_SIZE \in Nat \ {0} /\ HighestAddr \in Nat
  BY PmmAssumption, Highest
<1>2. N \in Nat /\ HighestAddr \div PAGE_SIZE <= N
  BY <1>1, PageCountNat
<1>3. ASSUME NEW p \in PagesOfType(T) PROVE p \in 0 .. N - 1
  <2>1. PICK i \in Entries : p \in EntryPages(layout.memmap[i])
    BY PagesOfTypeMember
  <2> DEFINE e == layout.memmap[i]
  <2>2. e.base \in Nat /\ e.length \in Nat /\ EndOf(e) = e.base + e.length
    BY EntryFacts DEF Entry, EndOf
  <2>3. EndOf(e) \in Nat /\ EndOf(e) <= HighestAddr
    BY EntryFacts, Highest
  <2> HIDE DEF e
  <2>4. p \in EntryPages(e)
    BY <2>1 DEF e
  <2>5. p \in Nat /\ p < EndOf(e) \div PAGE_SIZE
    BY <2>2, <2>4, PagesOfMember DEF EntryPages
  <2>6. /\ EndOf(e) \div PAGE_SIZE \in Nat /\ HighestAddr \div PAGE_SIZE \in Nat
        /\ EndOf(e) \div PAGE_SIZE <= HighestAddr \div PAGE_SIZE
    BY <1>1, <2>3, DivMonotone
  <2> HIDE DEF N
  <2> QED BY <1>2, <2>5, <2>6
<1> QED BY <1>2, <1>3

\* The stack pmm_reclaim spares lies in the memory it adds.
LEMMA StackInReclaimed ==
  ASSUME layout \in Layouts
  PROVE  StackPages \subseteq PagesOfType(ReclaimTypes) /\ StackPages \subseteq Nat
<1>1. PAGE_SIZE \in Nat \ {0} /\ STACK_SIZE \in Nat /\ layout.stack_top \in Nat
  BY PmmAssumption DEF WellFormed
<1>2. PICK i \in Entries : /\ layout.memmap[i].type = "BOOTLOADER_RECLAIMABLE"
                           /\ layout.memmap[i].base + STACK_SIZE <= layout.stack_top
                           /\ layout.stack_top <= EndOf(layout.memmap[i])
  BY PmmAssumption DEF WellFormed, Entries
<1> DEFINE e == layout.memmap[i]
           bottom == layout.stack_top - STACK_SIZE
<1>3. e.base \in Nat /\ e.length \in Nat /\ EndOf(e) = e.base + e.length
  BY EntryFacts DEF Entry, EndOf
<1>4. /\ bottom \in Nat /\ e.base <= bottom /\ bottom + STACK_SIZE = layout.stack_top
      /\ EndOf(e) \in Nat /\ layout.stack_top <= EndOf(e)
  BY <1>1, <1>2, <1>3
<1>5. /\ e.base \div PAGE_SIZE \in Nat /\ bottom \div PAGE_SIZE \in Nat
      /\ e.base \div PAGE_SIZE <= bottom \div PAGE_SIZE
      /\ layout.stack_top \div PAGE_SIZE \in Nat /\ EndOf(e) \div PAGE_SIZE \in Nat
      /\ layout.stack_top \div PAGE_SIZE <= EndOf(e) \div PAGE_SIZE
  <2> HIDE DEF e, bottom
  <2> QED BY <1>1, <1>3, <1>4, DivMonotone
<1>6. ASSUME NEW p \in StackPages PROVE p \in Nat /\ p \in EntryPages(e)
  <2> HIDE DEF e
  <2>1. /\ p \in Nat /\ bottom \div PAGE_SIZE <= p
        /\ p < (bottom + STACK_SIZE) \div PAGE_SIZE
    <3>1. p \in PagesOf(bottom, STACK_SIZE)
      BY DEF StackPages
    <3> HIDE DEF bottom
    <3> QED BY <1>1, <1>4, <3>1, PagesOfMember
  <2>2. e.base \div PAGE_SIZE <= p /\ p < (e.base + e.length) \div PAGE_SIZE
    <3> HIDE DEF bottom
    <3> QED BY <1>3, <1>4, <1>5, <2>1
  <2> QED BY <1>3, <2>1, <2>2, PagesOfMember DEF EntryPages
<1>7. \A p \in EntryPages(e) : p \in PagesOfType(ReclaimTypes)
  BY <1>2, PagesOfTypeMember DEF ReclaimTypes
<1> QED BY <1>6, <1>7

-----------------------------------------------------------------------------
(* The inductive invariant.                                                *)

\* The properties need two facts besides themselves: no block is out before the
\* bitmap exists, and the bitmap is sized for the highest address of the map.
Sized == stage # "boot" => num_pages = PageCount(HighestAddr)

NothingHeldAtBoot == stage = "boot" => held = {}

IInv ==
  /\ TypeOK /\ NothingHeldAtBoot /\ Sized
  /\ HeldExclusively /\ Conserved /\ BitmapInsideUsable

\* A held page is a page of a held block.
LEMMA HeldMember ==
  ASSUME NEW p
  PROVE  p \in HeldPages <=> \E b \in held : p \in PagesHeldBy(b)
BY Zenon DEF HeldPages

\* Managed pages, and so free and held ones, have a bit in the bitmap.
LEMMA InRange ==
  ASSUME IInv, stage # "boot"
  PROVE  /\ num_pages \in Nat /\ bitmap \in Bitmaps(num_pages)
         /\ FreePages = FreeOf(bitmap, num_pages)
         /\ Managed \subseteq 0 .. num_pages - 1
         /\ HeldPages \subseteq 0 .. num_pages - 1
         /\ PagesOfType(ReclaimTypes) \subseteq 0 .. num_pages - 1
<1>1. num_pages \in Nat /\ bitmap \in Bitmaps(num_pages) /\ layout \in Layouts
  BY DEF IInv, TypeOK, Bitmaps
<1>2. num_pages = PageCount(HighestAddr)
  BY DEF IInv, Sized
<1>3. /\ PagesOfType({"USABLE"}) \subseteq 0 .. num_pages - 1
      /\ PagesOfType(ReclaimTypes) \subseteq 0 .. num_pages - 1
  BY <1>1, <1>2, MapInRange
<1>4. Managed \subseteq 0 .. num_pages - 1
  BY <1>3 DEF Managed
<1>5. HeldPages \subseteq Managed
  BY DEF IInv, Conserved
<1>6. FreePages = FreeOf(bitmap, num_pages)
  BY DEF FreePages, FreeOf
<1> QED BY <1>1, <1>3, <1>4, <1>5, <1>6

\* What pmm_alloc_pages finds: the least page at which a free run begins.
LEMMA RunFound ==
  ASSUME NEW n \in Nat, num_pages \in Nat, FreeRuns(n) # {}
  PROVE  /\ Least(FreeRuns(n)) \in Nat
         /\ Run(Least(FreeRuns(n)), n) \subseteq FreePages
<1>1. FreeRuns(n) \subseteq Nat
  BY DEF FreeRuns
<1>2. Least(FreeRuns(n)) \in FreeRuns(n)
  BY <1>1, LeastFound
<1> QED BY <1>1, <1>2 DEF FreeRuns

\* pmm_init: every usable page but the bitmap's becomes free, none is held.
LEMMA InitStep ==
  ASSUME IInv, pmm_init
  PROVE  IInv'
<1>1. layout \in Layouts /\ held = {} /\ layout' = layout /\ held' = held
  BY DEF IInv, TypeOK, NothingHeldAtBoot, pmm_init, Panic
<1> DEFINE N == PageCount(HighestAddr)
           size == BitmapSize(N)
           found == BitmapEntries(size)
           where == IF found = {} THEN 0 ELSE layout.memmap[Least(found)].base
           own == PagesOf(where, round_up(size, PAGE_SIZE))
<1>2. N \in Nat /\ num_pages' = N /\ stage = "boot" /\ panic = "none"
  BY <1>1, MapInRange DEF pmm_init, Running
<1>3. CASE panic' # "none"
  <2>1. stage' = stage /\ bitmap_phy' = bitmap_phy /\ panic' = "no_bitmap_region"
    BY <1>2, <1>3 DEF pmm_init, Panic
  <2> QED
    BY <1>1, <1>2, <2>1 DEF IInv, TypeOK, NothingHeldAtBoot, Sized, HeldExclusively,
       Conserved, BitmapInsideUsable
<1>4. CASE panic' = "none"
  <2> DEFINE clear == [b \in 0 .. size - 1 |-> {}]
             marked == pmm_mark_pages(clear, PagesOfType({"USABLE"}), TRUE)
  <2>1. /\ where # 0 /\ bitmap_phy' = where /\ stage' = "ready"
        /\ bitmap' = pmm_mark_pages(marked, own, FALSE)
    BY <1>2, <1>4 DEF pmm_init, Panic
  <2>2. PICK i \in Entries : /\ layout.memmap[i].type = "USABLE"
                             /\ layout.memmap[i].length > size
                             /\ layout.memmap[i].base = where
    <3>1. found # {} /\ found \subseteq Nat
      BY <1>1, <2>1, EntryFacts DEF BitmapEntries, Entries
    <3>2. Least(found) \in found
      BY <3>1, LeastFound
    <3> QED BY <3>1, <3>2 DEF BitmapEntries, Entries
  <2> DEFINE e == layout.memmap[i]
             U == PagesOfType({"USABLE"})
  <2>3. size \in Nat
    BY <1>2, BitmapSizeNat
  <2>4. /\ e.base = where /\ where \in Nat /\ e.length \in Nat /\ size < e.length
        /\ Aligned(e.length)
    <3>1. Aligned(e.length)
      BY <1>1, <2>2, PmmAssumption DEF WellFormed, RamTypes, Entries
    <3> QED BY <1>1, <2>2, <2>3, <3>1, EntryFacts DEF Entry
  <2>5. /\ round_up(size, PAGE_SIZE) \in Nat
        /\ round_up(size, PAGE_SIZE) <= e.length
    <3> DEFINE len == e.length
    <3>1. PAGE_SIZE \in Nat \ {0} /\ len \in Nat /\ len % PAGE_SIZE = 0 /\ size < len
      BY <2>4, PmmAssumption DEF Aligned
    <3> HIDE DEF e, size, len
    <3>2. size <= len
      BY <2>3, <3>1
    <3>3. round_up(size, PAGE_SIZE) <= len
      BY <2>3, <3>1, <3>2, RoundUpLeast
    <3> QED BY <2>3, <3>1, <3>3, RoundUp DEF len
  <2>6. own \subseteq Nat /\ own \subseteq EntryPages(e)
    <3> DEFINE len == round_up(size, PAGE_SIZE)
    <3> HIDE DEF e, where, len
    <3>1. own \subseteq Nat
      BY <2>4, <2>5, PagesOfMember DEF len
    <3>2. (where + len) \div PAGE_SIZE <= (where + e.length) \div PAGE_SIZE
      BY <2>4, <2>5, DivMonotone, PmmAssumption DEF len
    <3>3. ASSUME NEW p \in own PROVE p \in PagesOf(where, e.length)
      <4>1. /\ p \in Nat /\ where \div PAGE_SIZE <= p
            /\ p < (where + len) \div PAGE_SIZE
        BY <2>4, <2>5, <3>1, <3>3, PagesOfMember DEF len
      <4>2. /\ (where + len) \div PAGE_SIZE \in Nat
            /\ (where + e.length) \div PAGE_SIZE \in Nat
        <5>1. where + len \in Nat /\ where + e.length \in Nat /\ PAGE_SIZE \in Nat \ {0}
          BY <2>4, <2>5, PmmAssumption DEF len
        <5> QED BY <5>1, DivMod
      <4>3. p < (where + e.length) \div PAGE_SIZE
        BY <3>2, <4>1, <4>2
      <4> QED BY <2>4, <4>1, <4>3, PagesOfMember
    <3> QED BY <2>4, <3>1, <3>3 DEF EntryPages
  <2>7. U \subseteq 0 .. N - 1 /\ U \subseteq Nat
    BY <1>1, <1>2, MapInRange
  <2>8. /\ bitmap' \in Bitmaps(N)
        /\ FreeOf(bitmap', N) = U \ own
    <3>1. clear \in Bitmaps(N)
      BY DEF Bitmaps
    <3>2. FreeOf(clear, N) = {}
      <4> SUFFICES ASSUME NEW p \in 0 .. N - 1 PROVE ~pmm_query_page(clear, p)
        BY DEF FreeOf
      <4>1. ByteOf(p) \in 0 .. size - 1
        BY <1>2, Location
      <4> HIDE DEF size
      <4> QED BY <4>1 DEF pmm_query_page
    <3> HIDE DEF clear, N, own
    <3>3. marked \in Bitmaps(N) /\ FreeOf(marked, N) = U
      <4> HIDE DEF U
      <4>1. FreeOf(marked, N) = FreeOf(clear, N) \cup (U \cap (0 .. N - 1))
        BY <1>2, <2>7, <3>1, MarkEffect DEF U
      <4>2. marked \in Bitmaps(N)
        BY <1>2, <2>7, <3>1, MarkType DEF U
      <4> QED BY <2>7, <3>2, <4>1, <4>2
    <3> HIDE DEF marked, U
    <3>4. FreeOf(bitmap', N) = FreeOf(marked, N) \ own
      BY <1>2, <2>1, <2>6, <3>3, MarkEffect
    <3>5. bitmap' \in Bitmaps(N)
      BY <1>2, <2>1, <2>6, <3>3, MarkType
    <3> QED BY <3>3, <3>4, <3>5
  <2>9. FreePages' = U \ own /\ HeldPages' = {} /\ BitmapPages' = own
    <3>1. FreePages' = FreeOf(bitmap', N)
      BY <1>2 DEF FreePages, FreeOf
    <3>2. HeldPages' = {}
      BY <1>1 DEF HeldPages
    <3>3. BitmapPages' = own
      BY <1>2, <2>1 DEF BitmapPages
    <3> QED BY <2>8, <3>1, <3>2, <3>3
  <2> HIDE DEF own, where, size, e
  <2>10. TypeOK'
    BY <1>1, <1>2, <1>4, <2>1, <2>4, <2>8 DEF TypeOK, IInv, Bitmaps
  <2>11. Sized' /\ NothingHeldAtBoot'
    BY <1>1, <1>2 DEF Sized, NothingHeldAtBoot, HighestAddr
  <2>12. HeldExclusively'
    BY <1>1, <2>9 DEF HeldExclusively
  <2>13. Conserved'
    <3>1. Managed' = (U \ own)
      BY <1>1, <2>1, <2>9 DEF Managed, PagesOfType
    <3> QED BY <2>9, <3>1 DEF Conserved
  <2>14. BitmapInsideUsable'
    BY <1>1, <2>2, <2>6, <2>9 DEF BitmapInsideUsable, e, Entries
  <2> QED BY <2>10, <2>11, <2>12, <2>13, <2>14 DEF IInv
<1> QED BY <1>3, <1>4

\* Steps that leave the map, the sizing and the stage alone keep what is managed.
LEMMA SameManaged ==
  ASSUME IInv, UNCHANGED <<layout, num_pages, bitmap_phy, stage>>
  PROVE  /\ Managed' = Managed /\ BitmapPages' = BitmapPages
         /\ Sized' /\ BitmapInsideUsable'
<1>1. BitmapPages' = BitmapPages
  BY DEF BitmapPages
<1>2. Managed' = Managed
  BY <1>1 DEF Managed, PagesOfType, StackPages
<1>3. Sized'
  BY DEF IInv, Sized, HighestAddr
<1>4. BitmapInsideUsable'
  BY <1>1 DEF IInv, BitmapInsideUsable
<1> QED BY <1>1, <1>2, <1>3, <1>4

\* A check that fails stops the machine and changes none of the books.
LEMMA PanicStep ==
  ASSUME IInv, UNCHANGED <<layout, stage, num_pages, bitmap, bitmap_phy, held>>,
         panic' \in {"none", "no_bitmap_region", "not_aligned",
                     "no_contiguous_pages", "page_out_of_range"}
  PROVE  IInv'
<1>1. Managed' = Managed /\ Sized' /\ BitmapInsideUsable'
  BY SameManaged
<1>2. FreePages' = FreePages /\ HeldPages' = HeldPages
  BY DEF FreePages, HeldPages
<1>3. TypeOK' /\ NothingHeldAtBoot'
  BY DEF IInv, TypeOK, NothingHeldAtBoot
<1>4. HeldExclusively' /\ Conserved'
  BY <1>1, <1>2 DEF IInv, HeldExclusively, Conserved
<1> QED BY <1>1, <1>3, <1>4 DEF IInv

\* What a successful kalloc does: it moves a block of free pages into a new
\* caller's hands.
LEMMA Granted ==
  ASSUME IInv, NEW size \in KallocSizes, kalloc(size), FreeRuns(PageCount(size)) # {}
  PROVE  \E block \in [page : Nat, size : KallocSizes] :
           /\ block.size = size
           /\ PagesHeldBy(block) \subseteq FreePages
           /\ held' = held \cup {block}
           /\ bitmap' \in Bitmaps(num_pages)
           /\ FreePages' = FreePages \ PagesHeldBy(block)
           /\ stage # "boot"
           /\ UNCHANGED <<layout, stage, panic, num_pages, bitmap_phy>>
<1> DEFINE n == PageCount(size)
           page == Least(FreeRuns(n))
           block == [page |-> page, size |-> size]
<1>1. size \in Nat /\ n \in Nat
  BY PmmAssumption, PageCountNat
<1>2. /\ stage # "boot" /\ held' = held \cup {block}
      /\ bitmap' = pmm_mark_pages(bitmap, Run(page, n), FALSE)
      /\ UNCHANGED <<layout, stage, panic, num_pages, bitmap_phy>>
  BY DEF kalloc, pmm_alloc_pages
<1>3. num_pages \in Nat /\ bitmap \in Bitmaps(num_pages) /\ FreePages = FreeOf(bitmap, num_pages)
  BY <1>2, InRange
<1>4. page \in Nat /\ Run(page, n) \subseteq FreePages
  BY <1>1, <1>3, RunFound
<1>5. Run(page, n) \subseteq Nat
  BY <1>4 DEF FreePages
<1> HIDE DEF page, n
<1>6. bitmap' \in Bitmaps(num_pages)
  BY <1>2, <1>3, <1>5, MarkType
<1>7. FreeOf(bitmap', num_pages) = FreePages \ Run(page, n)
  <2>1. FreeOf(pmm_mark_pages(bitmap, Run(page, n), FALSE), num_pages)
          = FreeOf(bitmap, num_pages) \ Run(page, n)
    BY <1>3, <1>5, MarkEffect
  <2> QED BY <1>2, <1>3, <2>1
<1>8. FreePages' = FreePages \ Run(page, n)
  BY <1>2, <1>7 DEF FreePages, FreeOf
<1>9. PagesHeldBy(block) = Run(page, n)
  BY DEF PagesHeldBy, n
<1>10. block \in [page : Nat, size : KallocSizes] /\ block.size = size
  BY <1>4
<1> HIDE DEF block
<1> QED BY <1>2, <1>4, <1>6, <1>8, <1>9, <1>10

\* kalloc keeps the inductive invariant, granted or not.
LEMMA KallocStep ==
  ASSUME IInv, NEW size \in KallocSizes, kalloc(size)
  PROVE  IInv'
<1>1. CASE FreeRuns(PageCount(size)) = {}
  BY <1>1, PanicStep DEF kalloc, pmm_alloc_pages, Panic
<1>2. CASE FreeRuns(PageCount(size)) # {}
  <2>1. PICK block \in [page : Nat, size : KallocSizes] :
           /\ block.size = size
           /\ PagesHeldBy(block) \subseteq FreePages
           /\ held' = held \cup {block}
           /\ bitmap' \in Bitmaps(num_pages)
           /\ FreePages' = FreePages \ PagesHeldBy(block)
           /\ stage # "boot"
           /\ UNCHANGED <<layout, stage, panic, num_pages, bitmap_phy>>
    BY <1>2, Granted
  <2>2. HeldPages' = HeldPages \cup PagesHeldBy(block)
    BY <2>1, Zenon DEF HeldPages, PagesHeldBy
  <2>3. TypeOK' /\ NothingHeldAtBoot'
    BY <2>1 DEF IInv, TypeOK, NothingHeldAtBoot, Bitmaps
  <2>4. Managed' = Managed /\ Sized' /\ BitmapInsideUsable'
    BY <2>1, SameManaged
  <2>5. HeldExclusively'
    <3>1. /\ HeldPages \cap FreePages = {}
          /\ \A b, c \in held : b # c => PagesHeldBy(b) \cap PagesHeldBy(c) = {}
      BY <2>1 DEF IInv, HeldExclusively
    <3>2. HeldPages' \cap FreePages' = {}
      BY <2>1, <2>2, <3>1
    <3>3. \A b \in held : PagesHeldBy(b) \cap PagesHeldBy(block) = {}
      BY <2>1, <3>1, HeldMember
    <3>4. ASSUME NEW b \in held', NEW c \in held', b # c
          PROVE  PagesHeldBy(b) \cap PagesHeldBy(c) = {}
      BY <2>1, <3>1, <3>3, <3>4
    <3> QED BY <3>2, <3>4 DEF HeldExclusively, PagesHeldBy
  <2>6. Conserved'
    BY <2>1, <2>2, <2>4 DEF IInv, Conserved
  <2> QED BY <2>3, <2>4, <2>5, <2>6 DEF IInv
<1> QED BY <1>1, <1>2

\* What kfree does: the pages of the block, and no others, become free again.
LEMMA Returned ==
  ASSUME IInv, NEW block \in held, kfree(block)
  PROVE  /\ held' = held \ {block}
         /\ bitmap' \in Bitmaps(num_pages)
         /\ FreePages' = FreePages \cup PagesHeldBy(block)
         /\ HeldPages' = HeldPages \ PagesHeldBy(block)
         /\ PagesHeldBy(block) \subseteq HeldPages
         /\ stage # "boot"
         /\ UNCHANGED <<layout, stage, panic, num_pages, bitmap_phy>>
<1>1. /\ held' = held \ {block}
      /\ bitmap' = pmm_mark_pages(bitmap, PagesHeldBy(block), TRUE)
      /\ UNCHANGED <<layout, stage, panic, num_pages, bitmap_phy>>
  BY DEF kfree, pmm_free_pages, PagesHeldBy
<1>2. stage # "boot"
  BY DEF IInv, NothingHeldAtBoot
<1>3. /\ num_pages \in Nat /\ bitmap \in Bitmaps(num_pages)
      /\ FreePages = FreeOf(bitmap, num_pages) /\ HeldPages \subseteq 0 .. num_pages - 1
  BY <1>2, InRange
<1>4. PagesHeldBy(block) \subseteq HeldPages
  BY HeldMember
<1>5. PagesHeldBy(block) \subseteq Nat /\ PagesHeldBy(block) \subseteq 0 .. num_pages - 1
  <2>1. PagesHeldBy(block) \subseteq 0 .. num_pages - 1
    BY <1>3, <1>4, Zenon
  <2>2. 0 .. num_pages - 1 \subseteq Nat
    BY <1>3
  <2> QED BY <2>1, <2>2, Zenon
<1>6. bitmap' \in Bitmaps(num_pages)
  BY <1>1, <1>3, <1>5, MarkType
<1>7. FreeOf(bitmap', num_pages)
        = FreePages \cup (PagesHeldBy(block) \cap (0 .. num_pages - 1))
  BY <1>1, <1>3, <1>5, MarkEffect
<1>8. FreePages' = FreePages \cup PagesHeldBy(block)
  BY <1>1, <1>5, <1>7 DEF FreePages, FreeOf
<1>9. HeldPages' = HeldPages \ PagesHeldBy(block)
  <2>1. \A b \in held : b # block => PagesHeldBy(b) \cap PagesHeldBy(block) = {}
    BY <1>2 DEF IInv, HeldExclusively
  <2>2. HeldPages' = UNION {PagesHeldBy(b) : b \in held \ {block}}
    BY <1>1 DEF HeldPages, PagesHeldBy
  <2> QED BY <2>1, <2>2, Zenon DEF HeldPages
<1> QED BY <1>1, <1>2, <1>4, <1>6, <1>8, <1>9

\* kfree keeps the inductive invariant.
LEMMA KfreeStep ==
  ASSUME IInv, NEW block \in held, kfree(block)
  PROVE  IInv'
<1>1. /\ held' = held \ {block}
      /\ bitmap' \in Bitmaps(num_pages)
      /\ FreePages' = FreePages \cup PagesHeldBy(block)
      /\ HeldPages' = HeldPages \ PagesHeldBy(block)
      /\ PagesHeldBy(block) \subseteq HeldPages
      /\ stage # "boot"
      /\ UNCHANGED <<layout, stage, panic, num_pages, bitmap_phy>>
  BY Returned
<1>2. TypeOK' /\ NothingHeldAtBoot'
  BY <1>1 DEF IInv, TypeOK, NothingHeldAtBoot, Bitmaps
<1>3. Managed' = Managed /\ Sized' /\ BitmapInsideUsable'
  BY <1>1, SameManaged
<1>4. HeldExclusively'
  BY <1>1 DEF IInv, HeldExclusively, PagesHeldBy
<1>5. Conserved'
  BY <1>1, <1>3 DEF IInv, Conserved
<1> QED BY <1>2, <1>3, <1>4, <1>5 DEF IInv

\* What pmm_reclaim does when no check stops it: the loader's and the ACPI
\* tables' pages become free, all but the stack's, and none of them was managed.
LEMMA Reclaimed ==
  ASSUME IInv, pmm_reclaim, ~Unaligned
  PROVE  /\ stage = "ready" /\ stage' = "reclaimed"
         /\ bitmap' \in Bitmaps(num_pages)
         /\ FreePages' = FreePages \cup (PagesOfType(ReclaimTypes) \ StackPages)
         /\ HeldPages' = HeldPages
         /\ HeldPages \cap PagesOfType(ReclaimTypes) = {}
         /\ Managed' = Managed \cup (PagesOfType(ReclaimTypes) \ StackPages)
         /\ UNCHANGED <<layout, panic, num_pages, bitmap_phy, held>>
<1> DEFINE R == PagesOfType(ReclaimTypes)
           U == PagesOfType({"USABLE"})
           freed == pmm_mark_pages(bitmap, R, TRUE)
<1>1. /\ stage = "ready" /\ stage' = "reclaimed"
      /\ bitmap' = pmm_mark_pages(freed, StackPages, FALSE)
      /\ UNCHANGED <<layout, panic, num_pages, bitmap_phy, held>>
  BY DEF pmm_reclaim
<1>2. /\ num_pages \in Nat /\ bitmap \in Bitmaps(num_pages) /\ layout \in Layouts
      /\ FreePages = FreeOf(bitmap, num_pages) /\ R \subseteq 0 .. num_pages - 1
  BY <1>1, InRange DEF IInv, TypeOK
<1>3. U \cap R = {} /\ StackPages \subseteq R /\ StackPages \subseteq Nat
  BY <1>2, UsableApart, StackInReclaimed
<1>4. HeldPages \subseteq U /\ FreePages \subseteq U /\ Managed = U \ BitmapPages
  <2>1. FreePages \cup HeldPages = Managed /\ Managed = U \ BitmapPages
    BY <1>1 DEF IInv, Conserved, Managed
  <2> HIDE DEF U
  <2> QED BY <2>1
<1>5. HeldPages' = HeldPages
  BY <1>1 DEF HeldPages, PagesHeldBy
<1>6. Managed' = (U \ BitmapPages) \cup (R \ StackPages)
  BY <1>1 DEF Managed, PagesOfType, BitmapPages, StackPages
<1> HIDE DEF R, U
<1>7. R \subseteq Nat
  BY <1>2
<1>8. freed \in Bitmaps(num_pages)
  BY <1>2, <1>7, MarkType
<1>9. FreeOf(freed, num_pages) = FreePages \cup R
  <2>1. FreeOf(freed, num_pages)
          = FreeOf(bitmap, num_pages) \cup (R \cap (0 .. num_pages - 1))
    BY <1>2, <1>7, MarkEffect
  <2> HIDE DEF freed
  <2> QED BY <1>2, <2>1
<1> HIDE DEF freed
<1>10. bitmap' \in Bitmaps(num_pages)
  BY <1>1, <1>2, <1>3, <1>8, MarkType
<1>11. FreePages' = (FreePages \cup R) \ StackPages
  <2>1. FreeOf(pmm_mark_pages(freed, StackPages, FALSE), num_pages)
          = FreeOf(freed, num_pages) \ StackPages
    BY <1>2, <1>3, <1>8, MarkEffect
  <2>2. FreePages' = FreeOf(bitmap', num_pages)
    BY <1>1 DEF FreePages, FreeOf
  <2> QED BY <1>1, <1>9, <2>1, <2>2
<1>12. FreePages' = FreePages \cup (R \ StackPages)
  BY <1>3, <1>4, <1>11
<1>13. HeldPages \cap R = {} /\ Managed' = Managed \cup (R \ StackPages)
  BY <1>3, <1>4, <1>6
<1> QED BY <1>1, <1>5, <1>10, <1>12, <1>13 DEF R

\* pmm_reclaim keeps the inductive invariant, stopped or not.
LEMMA ReclaimStep ==
  ASSUME IInv, pmm_reclaim
  PROVE  IInv'
<1>1. CASE Unaligned
  BY <1>1, PanicStep DEF pmm_reclaim, Panic
<1>2. CASE ~Unaligned
  <2> DEFINE R == PagesOfType(ReclaimTypes)
  <2>1. /\ stage = "ready" /\ stage' = "reclaimed"
        /\ bitmap' \in Bitmaps(num_pages)
        /\ FreePages' = FreePages \cup (R \ StackPages)
        /\ HeldPages' = HeldPages /\ HeldPages \cap R = {}
        /\ Managed' = Managed \cup (R \ StackPages)
        /\ UNCHANGED <<layout, panic, num_pages, bitmap_phy, held>>
    BY <1>2, Reclaimed
  <2> HIDE DEF R
  <2>2. TypeOK' /\ NothingHeldAtBoot'
    BY <2>1 DEF IInv, TypeOK, NothingHeldAtBoot, Bitmaps
  <2>3. Sized'
    BY <2>1 DEF IInv, Sized, HighestAddr
  <2>4. HeldExclusively'
    <3>1. /\ HeldPages \cap FreePages = {}
          /\ \A b, c \in held : b # c => PagesHeldBy(b) \cap PagesHeldBy(c) = {}
      BY <2>1 DEF IInv, HeldExclusively
    <3> QED BY <2>1, <3>1 DEF HeldExclusively, PagesHeldBy
  <2>5. Conserved'
    BY <2>1 DEF IInv, Conserved
  <2>6. BitmapInsideUsable'
    <3>1. BitmapPages' = BitmapPages
      BY <2>1 DEF BitmapPages
    <3> QED BY <2>1, <3>1 DEF IInv, BitmapInsideUsable
  <2> QED BY <2>2, <2>3, <2>4, <2>5, <2>6 DEF IInv
<1> QED BY <1>1, <1>2

-----------------------------------------------------------------------------
(* The theorems.                                                           *)

\* IInv holds at boot and every operation of the manager keeps it.
THEOREM Inductive == Spec => []IInv
<1>1. Init => IInv
  BY DEF Init, IInv, TypeOK, NothingHeldAtBoot, Sized, HeldExclusively, Conserved,
     BitmapInsideUsable
<1>2. IInv /\ [Next]_pmmVars => IInv'
  <2> SUFFICES ASSUME IInv, [Next]_pmmVars PROVE IInv'
    OBVIOUS
  <2>1. CASE pmm_init
    BY <2>1, InitStep
  <2>2. CASE pmm_reclaim
    BY <2>2, ReclaimStep
  <2>3. ASSUME NEW size \in KallocSizes, kalloc(size) PROVE IInv'
    BY <2>3, KallocStep
  <2>4. ASSUME NEW block \in held, kfree(block) PROVE IInv'
    BY <2>4, KfreeStep
  <2>5. CASE UNCHANGED pmmVars
    BY <2>5, PanicStep DEF pmmVars, IInv, TypeOK
  <2> QED BY <2>1, <2>2, <2>3, <2>4, <2>5 DEF Next
<1> QED BY <1>1, <1>2, PTL DEF Spec

\* The manager's variables stay in their types, on every machine.
THEOREM Typed == Spec => []TypeOK
BY Inductive, PTL DEF IInv

\* pmm_alloc_pages never grants a page that is held, and never could.
THEOREM Exclusively == Spec => []HeldExclusively
BY Inductive, PTL DEF IInv

\* No page leaks out of the manager or appears from nowhere.
THEOREM Conservation == Spec => []Conserved
BY Inductive, PTL DEF IInv

\* The pages pmm_init withdraws for the bitmap lie inside one usable entry.
THEOREM BitmapPlaced == Spec => []BitmapInsideUsable
BY Inductive, PTL DEF IInv

\* Each operation of the manager is a step of the abstract allocator, or none.
THEOREM Implementation == Spec => ImplementsFrameAllocator
<1> DEFINE free == IF stage = "boot" THEN {} ELSE FreePages
           granted == {PagesHeldBy(block) : block \in held}
<1>1. Init => FA!Init
  BY DEF Init, FA!Init
<1>2. IInv /\ [Next]_pmmVars => [FA!Next]_(FA!vars)
  <2> SUFFICES ASSUME IInv, [Next]_pmmVars PROVE [FA!Next]_(FA!vars)
    OBVIOUS
  <2>0. ASSUME UNCHANGED <<stage, held>>,
               stage = "boot" \/ UNCHANGED <<num_pages, bitmap>>
        PROVE  UNCHANGED FA!vars
    BY <2>0 DEF FA!vars, FreePages, PagesHeldBy
  <2>1. CASE pmm_init
    <3>1. CASE panic' # "none"
      BY <2>0, <2>1, <3>1 DEF pmm_init, Panic, Running
    <3>2. CASE panic' = "none"
      <4>1. stage = "boot" /\ held = {} /\ held' = {}
        BY <2>1, <3>2 DEF pmm_init, Panic, Running, IInv, NothingHeldAtBoot
      <4>2. free = {} /\ granted = {} /\ granted' = {}
        BY <4>1
      <4> HIDE DEF free, granted
      <4>3. free \subseteq free' /\ (free' \ free) \cap UNION granted = {} /\ granted' = granted
        BY <4>2
      <4> QED BY <4>3 DEF FA!Next, FA!Contribute, free, granted
    <3> QED BY <3>1, <3>2
  <2>2. CASE pmm_reclaim
    <3>1. CASE Unaligned
      BY <2>0, <2>2, <3>1 DEF pmm_reclaim, Panic
    <3>2. CASE ~Unaligned
      <4>1. /\ free = FreePages /\ free' = FreePages'
            /\ FreePages' = FreePages \cup (PagesOfType(ReclaimTypes) \ StackPages)
            /\ HeldPages \cap PagesOfType(ReclaimTypes) = {}
            /\ held' = held
        BY <2>2, <3>2, Reclaimed
      <4>2. UNION granted = HeldPages /\ granted' = granted
        BY <4>1 DEF HeldPages, PagesHeldBy
      <4> HIDE DEF free, granted
      <4>3. free \subseteq free' /\ (free' \ free) \cap UNION granted = {} /\ granted' = granted
        BY <4>1, <4>2
      <4> QED BY <4>3 DEF FA!Next, FA!Contribute, free, granted
    <3> QED BY <3>1, <3>2
  <2>3. ASSUME NEW size \in KallocSizes, kalloc(size) PROVE [FA!Next]_(FA!vars)
    <3>1. CASE FreeRuns(PageCount(size)) = {}
      BY <2>0, <2>3, <3>1 DEF kalloc, pmm_alloc_pages, Panic
    <3>2. CASE FreeRuns(PageCount(size)) # {}
      <4>1. PICK block \in [page : Nat, size : KallocSizes] :
               /\ PagesHeldBy(block) \subseteq FreePages
               /\ held' = held \cup {block}
               /\ FreePages' = FreePages \ PagesHeldBy(block)
               /\ stage # "boot" /\ stage' = stage
        BY <2>3, <3>2, Granted
      <4> DEFINE S == PagesHeldBy(block)
      <4>2. free = FreePages /\ free' = FreePages'
        BY <4>1
      <4>3. granted' = granted \cup {S}
        BY <4>1 DEF PagesHeldBy
      <4> HIDE DEF free, granted, S
      <4>4. S \in SUBSET free /\ free' = free \ S
        BY <4>1, <4>2 DEF S
      <4> QED BY <4>3, <4>4 DEF FA!Next, FA!Grant, free, granted
    <3> QED BY <3>1, <3>2
  <2>4. ASSUME NEW block \in held, kfree(block) PROVE [FA!Next]_(FA!vars)
    <3>1. /\ held' = held \ {block}
          /\ FreePages' = FreePages \cup PagesHeldBy(block)
          /\ stage # "boot" /\ stage' = stage
      BY <2>4, Returned
    <3> DEFINE S == PagesHeldBy(block)
    <3>2. free = FreePages /\ free' = FreePages \cup S /\ S \in granted
      BY <3>1
    <3>3. granted' = {PagesHeldBy(b) : b \in held \ {block}}
      BY <3>1 DEF PagesHeldBy
    <3>4. CASE \E b \in held \ {block} : PagesHeldBy(b) = S
      <4>1. \A b \in held \ {block} : PagesHeldBy(b) \cap S = {}
        BY <3>1 DEF IInv, HeldExclusively
      <4>2. S = {}
        BY <3>4, <4>1
      <4>3. granted' = granted
        BY <3>3, <3>4
      <4>4. free' = free
        BY <3>2, <4>2
      <4> QED BY <4>3, <4>4 DEF FA!vars
    <3>5. CASE \A b \in held \ {block} : PagesHeldBy(b) # S
      <4>1. granted' = granted \ {S}
        BY <3>3, <3>5
      <4> HIDE DEF free, granted, S
      <4> QED BY <3>2, <4>1 DEF FA!Next, FA!Return, free, granted
    <3> QED BY <3>4, <3>5
  <2>5. CASE UNCHANGED pmmVars
    BY <2>0, <2>5 DEF pmmVars
  <2> QED BY <2>1, <2>2, <2>3, <2>4, <2>5 DEF Next
<1> QED BY <1>1, <1>2, Inductive, PTL DEF Spec, ImplementsFrameAllocator, FA!Spec
=============================================================================
