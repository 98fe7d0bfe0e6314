-------------------------------- MODULE Pmm --------------------------------
(***************************************************************************)
(* The physical memory manager (src/src/mm.c): a bitmap with one bit per   *)
(* page frame, set when the frame is free, kept in memory the manager takes *)
(* from the boot loader's memory map.                                      *)
(*                                                                         *)
(* Addresses are natural numbers of bytes and keep their alignment; a page *)
(* is PAGE_SIZE of them.  A byte of the bitmap is the set of its set bits. *)
(* What callers hold (held) is not stored by the program: it is a history  *)
(* variable, and it says which blocks a caller may give back.              *)
(***************************************************************************)
EXTENDS Integers, Sequences

CONSTANTS
  PAGE_SIZE,     \* 0x1000
  CHAR_BIT,      \* 8
  STACK_SIZE,    \* DEFAULT_STACK_SIZE of main.c, what pmm_reclaim spares
  Layouts,       \* what the boot loader may hand over: memory map, stack top
  KallocSizes    \* sizes in bytes that callers ask for

VARIABLES
  layout,        \* the hand-over: [memmap, stack_top], never changed
  stage,         \* how far main has taken the manager: boot, ready, reclaimed
  panic,         \* "none", or the check that stopped the machine
  num_pages,     \* PMM_DATA.num_pages
  bitmap,        \* PMM_DATA.bitmap, as a function from byte index to bits set
  bitmap_phy,    \* where the bitmap itself lives
  held           \* blocks granted and not yet freed: [page, size]

pmmVars == <<layout, stage, panic, num_pages, bitmap, bitmap_phy, held>>

-----------------------------------------------------------------------------
(* The memory map, as the Limine protocol promises it.                     *)

RamTypes == {"USABLE", "BOOTLOADER_RECLAIMABLE"}

\* Mutant: usable memory falls through into the reclaimed cases.
ReclaimTypes_Usable ==
  {"ACPI_RECLAIMABLE", "BOOTLOADER_RECLAIMABLE", "USABLE"}

ReclaimTypes == {"ACPI_RECLAIMABLE", "BOOTLOADER_RECLAIMABLE"}

EntryTypes ==
  RamTypes \cup ReclaimTypes \cup
    {"RESERVED", "ACPI_NVS", "BAD_MEMORY", "EXECUTABLE_AND_MODULES",
     "FRAMEBUFFER", "RESERVED_MAPPED"}

Entry == [base : Nat, length : Nat, type : EntryTypes]

Aligned(x) == x % PAGE_SIZE = 0

EndOf(e) == e.base + e.length

Apart(e, f) == EndOf(e) <= f.base \/ EndOf(f) <= e.base

\* Usable and boot loader memory is aligned and overlaps no other entry; the
\* loader's stack lies in boot loader memory.
WellFormed(l) ==
  /\ l.memmap \in Seq(Entry)
  /\ l.stack_top \in Nat
  /\ l.memmap # <<>>
  /\ \A i \in DOMAIN l.memmap :
       l.memmap[i].type \in RamTypes =>
         /\ Aligned(l.memmap[i].base) /\ Aligned(l.memmap[i].length)
         /\ \A j \in DOMAIN l.memmap \ {i} : Apart(l.memmap[i], l.memmap[j])
  /\ \E i \in DOMAIN l.memmap :
       /\ l.memmap[i].type = "BOOTLOADER_RECLAIMABLE"
       /\ l.memmap[i].base + STACK_SIZE <= l.stack_top
       /\ l.stack_top <= EndOf(l.memmap[i])

ASSUME PmmAssumption ==
  /\ PAGE_SIZE \in Nat \ {0}
  /\ CHAR_BIT \in Nat \ {0}
  /\ STACK_SIZE \in Nat
  /\ KallocSizes \subseteq Nat
  /\ \A l \in Layouts : WellFormed(l)

-----------------------------------------------------------------------------
(* Arithmetic on addresses.                                                *)

round_down(value, multiple) == value - (value % multiple)

round_up(value, multiple) ==
  IF value % multiple = 0 THEN value
                          ELSE round_down(value, multiple) + multiple

PageCount(size) == round_up(size, PAGE_SIZE) \div PAGE_SIZE

\* The pages of an aligned range of addresses.
PagesOf(base, len) ==
  {p \in 0 .. (base + len) \div PAGE_SIZE : base \div PAGE_SIZE <= p
                                         /\ p < (base + len) \div PAGE_SIZE}

EntryPages(e) == PagesOf(e.base, e.length)

PagesOfType(T) ==
  UNION {EntryPages(layout.memmap[i]) :
           i \in {k \in DOMAIN layout.memmap : layout.memmap[k].type \in T}}

-----------------------------------------------------------------------------
(* The bitmap.                                                             *)

\* Mutant: the bit index is not reduced modulo the byte.
BitOf_NoModulo(page) == page

\* pmm_addr_to_bitmap_location: the byte and the bit of a page.
ByteOf(page) == page \div CHAR_BIT
BitOf(page) == page % CHAR_BIT

BitmapSize(pages) == round_up(pages, CHAR_BIT) \div CHAR_BIT

pmm_query_page(bm, page) == BitOf(page) \in bm[ByteOf(page)]

\* pmm_mark_page, over every page of a set.
pmm_mark_pages(bm, pages, usable) ==
  [b \in DOMAIN bm |->
     LET bits == {BitOf(p) : p \in {q \in pages : ByteOf(q) = b}}
     IN  IF usable THEN bm[b] \cup bits ELSE bm[b] \ bits]

FreePages == {p \in 0 .. num_pages - 1 : pmm_query_page(bitmap, p)}

Run(page, n) == page .. page + n - 1

\* Where the search of pmm_alloc_pages can succeed.
FreeRuns(n) ==
  {i \in 0 .. num_pages - 1 : i + n <= num_pages /\ Run(i, n) \subseteq FreePages}

Least(S) == CHOOSE x \in S : \A y \in S : x <= y

-----------------------------------------------------------------------------
(* Operations.                                                             *)

Running == panic = "none"

\* The machine stops: what a half-done operation left in the bitmap or in
\* PMM_DATA is read by nobody any more and stays out of the model.
Panic(message) ==
  /\ panic' = message
  /\ UNCHANGED <<layout, stage, bitmap, bitmap_phy, held>>

\* Mutant: the last page of the run is left marked free.
pmm_alloc_pages_ShortMark(n, size) ==
  /\ FreeRuns(n) # {}
  /\ LET page == Least(FreeRuns(n))
     IN  /\ bitmap' = pmm_mark_pages(bitmap, Run(page, n - 1), FALSE)
         /\ held' = held \cup {[page |-> page, size |-> size]}
  /\ UNCHANGED <<layout, stage, panic, bitmap_phy>>

\* The search stops at the first run of free pages.  It asks for every page of
\* a candidate run before it decides, so with two pages or more and no such run
\* it first leaves the bitmap, and the range check panics in its stead.
pmm_alloc_pages(n, size) ==
  \/ /\ FreeRuns(n) # {}
     /\ LET page == Least(FreeRuns(n))
        IN  /\ bitmap' = pmm_mark_pages(bitmap, Run(page, n), FALSE)
            /\ held' = held \cup {[page |-> page, size |-> size]}
     /\ UNCHANGED <<layout, stage, panic, bitmap_phy>>
  \/ /\ FreeRuns(n) = {}
     /\ Panic(IF n < 2 THEN "no_contiguous_pages" ELSE "page_out_of_range")

\* Mutant: only the first page of a block is freed.
pmm_free_pages_FirstOnly(page, n) ==
  bitmap' = pmm_mark_pages(bitmap, Run(page, 1), TRUE)

pmm_free_pages(page, n) ==
  bitmap' = pmm_mark_pages(bitmap, Run(page, n), TRUE)

HighestAddr ==
  LET ends == {EndOf(layout.memmap[i]) : i \in DOMAIN layout.memmap}
  IN  CHOOSE x \in ends : \A y \in ends : y <= x

\* Mutant: any usable entry is taken, whatever its size.
BitmapEntries_AnySize(size) ==
  {i \in DOMAIN layout.memmap : layout.memmap[i].type = "USABLE"}

\* Entries large enough for a bitmap of the given size; the code takes the first.
BitmapEntries(size) ==
  {i \in DOMAIN layout.memmap : /\ layout.memmap[i].type = "USABLE"
                                /\ layout.memmap[i].length > size}

BitmapPages ==
  PagesOf(bitmap_phy, round_up(BitmapSize(num_pages), PAGE_SIZE))

\* Address 0 stands for "not found", so an entry that starts there counts as none.
pmm_init ==
  /\ Running /\ stage = "boot"
  /\ num_pages' = PageCount(HighestAddr)
  /\ LET size  == BitmapSize(num_pages')
         found == BitmapEntries(size)
         where == IF found = {} THEN 0 ELSE layout.memmap[Least(found)].base
         clear == [b \in 0 .. size - 1 |-> {}]
         marked == pmm_mark_pages(clear, PagesOfType({"USABLE"}), TRUE)
     IN  \/ where = 0 /\ Panic("no_bitmap_region")
         \/ /\ where # 0
            /\ bitmap_phy' = where
            /\ bitmap' = pmm_mark_pages(marked,
                           PagesOf(where, round_up(size, PAGE_SIZE)), FALSE)
            /\ stage' = "ready"
            /\ UNCHANGED <<layout, panic, held>>

StackPages == PagesOf(layout.stack_top - STACK_SIZE, STACK_SIZE)

Unaligned ==
  \/ \E i \in DOMAIN layout.memmap :
       /\ layout.memmap[i].type \in ReclaimTypes
       /\ ~(Aligned(layout.memmap[i].base) /\ Aligned(layout.memmap[i].length))
  \/ ~(Aligned(layout.stack_top - STACK_SIZE) /\ Aligned(STACK_SIZE))

\* Mutant: the stack is not withdrawn again.
pmm_reclaim_LosesStack ==
  /\ Running /\ stage = "ready"
  /\ bitmap' = pmm_mark_pages(bitmap, PagesOfType(ReclaimTypes), TRUE)
  /\ stage' = "reclaimed"
  /\ UNCHANGED <<layout, panic, num_pages, bitmap_phy, held>>

\* The stack main runs on is boot loader memory: it is freed with the rest and
\* withdrawn again before the function returns.
pmm_reclaim ==
  /\ Running /\ stage = "ready"
  /\ UNCHANGED num_pages
  /\ \/ Unaligned /\ Panic("not_aligned")
     \/ /\ ~Unaligned
        /\ LET freed == pmm_mark_pages(bitmap, PagesOfType(ReclaimTypes), TRUE)
           IN  bitmap' = pmm_mark_pages(freed, StackPages, FALSE)
        /\ stage' = "reclaimed"
        /\ UNCHANGED <<layout, panic, bitmap_phy, held>>

kalloc(size) ==
  /\ Running /\ stage # "boot"
  /\ pmm_alloc_pages(PageCount(size), size)
  /\ UNCHANGED num_pages

\* Callers give back what they were granted, with the size they asked for.
kfree(block) ==
  /\ Running
  /\ pmm_free_pages(block.page, PageCount(block.size))
  /\ held' = held \ {block}
  /\ UNCHANGED <<layout, stage, panic, num_pages, bitmap_phy>>

Init ==
  /\ layout \in Layouts
  /\ stage = "boot" /\ panic = "none"
  /\ num_pages = 0 /\ bitmap = [b \in {} |-> {}] /\ bitmap_phy = 0
  /\ held = {}

Next ==
  \/ pmm_init
  \/ pmm_reclaim
  \/ \E size \in KallocSizes : kalloc(size)
  \/ \E block \in held : kfree(block)

Spec == Init /\ [][Next]_pmmVars

-----------------------------------------------------------------------------
(* Properties.                                                             *)

PagesHeldBy(block) == Run(block.page, PageCount(block.size))

HeldPages == UNION {PagesHeldBy(block) : block \in held}

\* Every variable stays in its type; the bitmap has exactly the bytes its page
\* count needs, and a byte no bit beyond CHAR_BIT (pmm_addr_to_bitmap_location).
TypeOK ==
  /\ layout \in Layouts
  /\ stage \in {"boot", "ready", "reclaimed"}
  /\ panic \in {"none", "no_bitmap_region", "not_aligned",
                "no_contiguous_pages", "page_out_of_range"}
  /\ num_pages \in Nat /\ bitmap_phy \in Nat
  /\ stage # "boot" =>
       bitmap \in [0 .. BitmapSize(num_pages) - 1 -> SUBSET (0 .. CHAR_BIT - 1)]
  /\ held \subseteq [page : Nat, size : KallocSizes]

\* pmm_alloc_pages grants no page that someone holds or that it could grant
\* again: two blocks share no page, and no page of a block is marked free.
HeldExclusively ==
  stage # "boot" =>
    /\ \A b, c \in held : b # c => PagesHeldBy(b) \cap PagesHeldBy(c) = {}
    /\ HeldPages \cap FreePages = {}

\* The pages the manager answers for: usable memory without the bitmap and,
\* once reclaimed, the loader's and ACPI memory without main's stack.
Managed ==
  (PagesOfType({"USABLE"}) \ BitmapPages) \cup
    (IF stage = "reclaimed" THEN PagesOfType(ReclaimTypes) \ StackPages ELSE {})

\* Nothing is leaked and nothing is invented: through every sequence of
\* pmm_init, kalloc, kfree and pmm_reclaim the managed pages are exactly those
\* marked free and those held.
Conserved == stage # "boot" => FreePages \cup HeldPages = Managed

\* pmm_init tests length > bitmap_size but withdraws whole pages: those pages
\* still lie inside the usable entry it took.
BitmapInsideUsable ==
  stage # "boot" =>
    \E i \in DOMAIN layout.memmap :
      /\ layout.memmap[i].type = "USABLE"
      /\ BitmapPages \subseteq EntryPages(layout.memmap[i])

\* The manager implements the abstract allocator: each of its steps gives, grants,
\* takes back, or leaves alone.
FA == INSTANCE FrameAllocator WITH
        free    <- IF stage = "boot" THEN {} ELSE FreePages,
        granted <- {PagesHeldBy(block) : block \in held}

ImplementsFrameAllocator == FA!Spec

\* What mm.c:113 announces: an allocation that finds no room is reported as
\* "Could not find ... contiguous pages".
FailureIsReported == panic # "page_out_of_range"
=============================================================================
