-------------------------------- MODULE Vmm --------------------------------
(***************************************************************************)
(* The virtual memory manager (src/src/mm.c) on top of the physical one: a *)
(* tree of four levels of tables, built in frames of pmm_alloc_page and    *)
(* reached through the higher half direct map.                             *)
(*                                                                         *)
(* vmm_map runs one page at a time, and a page one level at a time: each   *)
(* vmm_ensure_present and each leaf written is a step, because each is a   *)
(* write to tables the processor may already be walking.                   *)
(***************************************************************************)
EXTENDS Pmm, TLC

CONSTANTS
  ENTRIES,       \* slots of a table: 512
  FRAMES,        \* frames whose contents are modelled
  HHDM,          \* pHHDM: where the direct map begins
  Contents       \* what a slot of memory nobody cleared may hold

VARIABLES
  mem,           \* frame contents, read as tables
  PML4,          \* frame of the root table, 0 before vmm_init
  cr3,           \* frame the processor walks from, 0 for the loader's tables
  pat_msr,       \* MSR_IA32_PAT: slot to memory type
  call           \* the vmm_map call in progress, or the last one made

vmmVars == <<mem, PML4, cr3, pat_msr, call>>
allVars == <<pmmVars, vmmVars>>

-----------------------------------------------------------------------------
(* Tables.                                                                 *)

Slots == 0 .. ENTRIES - 1
Frames == 0 .. FRAMES - 1

\* struct page_directory_entry_subdirectory and struct page_table_entry.
PageEntry == [p : BOOLEAN, rw : BOOLEAN, us : BOOLEAN, xd : BOOLEAN,
              pat : 0 .. 7, addr : Nat]

Clear == [p |-> FALSE, rw |-> FALSE, us |-> FALSE, xd |-> FALSE, pat |-> 0, addr |-> 0]

\* The frames modelled hold all of the memory the manager can grant; a table takes
\* one page, so that is a size callers ask for.
ASSUME VmmAssumption ==
  /\ ENTRIES \in Nat \ {0} /\ FRAMES \in Nat \ {0} /\ HHDM \in Nat
  /\ Contents \subseteq PageEntry
  /\ PAGE_SIZE \in KallocSizes
  /\ \A l \in Layouts : \A i \in DOMAIN l.memmap :
       l.memmap[i].type \in RamTypes \cup ReclaimTypes =>
         EndOf(l.memmap[i]) <= FRAMES * PAGE_SIZE

ZeroTable == [i \in Slots |-> Clear]

memzero(frames) == [f \in Frames |-> IF f \in frames THEN ZeroTable ELSE mem[f]]

\* Mutant: the third level is indexed by the bits of the fourth.
Shift_Repeated(depth) == <<ENTRIES * ENTRIES * ENTRIES, ENTRIES * ENTRIES, 1, 1>>[depth + 1]

\* The bits of the address each level looks at: >> 39, 30, 21 and 12.
Shift(depth) == <<ENTRIES * ENTRIES * ENTRIES, ENTRIES * ENTRIES, ENTRIES, 1>>[depth + 1]

Index(where, depth) == ((where \div PAGE_SIZE) \div Shift(depth)) % ENTRIES

\* The processor's walk, from a root table: the four entries it reads, each
\* picked by its digit of the page number.
Walk(root, where) ==
  LET page == where \div PAGE_SIZE
      upper == page \div ENTRIES
      top == upper \div ENTRIES
      e0 == mem[root][(top \div ENTRIES) % ENTRIES]
      e1 == mem[e0.addr][top % ENTRIES]
      e2 == mem[e1.addr][upper % ENTRIES]
      e3 == mem[e2.addr][page % ENTRIES]
  IN  <<e0, e1, e2, e3>>

Mapped(root, where) ==
  LET e == Walk(root, where) IN e[1].p /\ e[2].p /\ e[3].p /\ e[4].p

\* What an access through the walk meets: a right counts when every level grants it.
Translation(root, where) ==
  LET e == Walk(root, where)
  IN  [frame |-> e[4].addr,
       w |-> \A d \in 1 .. 4 : e[d].rw,
       x |-> \A d \in 1 .. 4 : ~e[d].xd,
       u |-> \A d \in 1 .. 4 : e[d].us,
       cache |-> pat_msr[e[4].pat]]

-----------------------------------------------------------------------------
(* Flags.                                                                  *)

CacheFlags == {"M_CACHE_UC", "M_CACHE_WC"}
MemoryFlags == {"M_W", "M_X", "M_U"} \cup CacheFlags

\* Mutant: write-combining memory uses the slot after the one programmed.
PatIndex_OffByOne(flags) ==
  CASE flags \cap CacheFlags = {} -> 0
    [] flags \cap CacheFlags = {"M_CACHE_UC"} -> 2
    [] flags \cap CacheFlags = {"M_CACHE_WC"} -> 6

\* pat, pcd and pwt of a leaf, as one number.
PatIndex(flags) ==
  CASE flags \cap CacheFlags = {} -> 0
    [] flags \cap CacheFlags = {"M_CACHE_UC"} -> 2
    [] flags \cap CacheFlags = {"M_CACHE_WC"} -> 5

PatReset ==
  [i \in 0 .. 7 |-> <<"WB", "WT", "UC-", "UC", "WB", "WT", "UC-", "UC">>[i + 1]]

PatLayout ==
  [i \in 0 .. 7 |-> <<"WB", "WT", "UC-", "UC", "WP", "WC", "UC", "UC">>[i + 1]]

-----------------------------------------------------------------------------
(* Mapping.                                                                *)

NoCall ==
  [what |-> 0, where |-> 0, size |-> 0, flags |-> {}, done |-> 0, depth |-> 0, table |-> 0]

Idle == call.done = call.size

phy_to_virt(paddr) == HHDM + paddr

\* Mutant: the size is not checked.
vmm_map_AnySize(what, where, size, flags) ==
  /\ Running /\ Idle /\ PML4 # 0
  /\ call' = [what |-> what, where |-> where, size |-> size, flags |-> flags,
              done |-> 0, depth |-> 0, table |-> PML4]
  /\ UNCHANGED <<pmmVars, mem, PML4, cr3, pat_msr>>

\* Entry checks of vmm_map; its pages are mapped by the steps that follow.
vmm_map(what, where, size, flags) ==
  /\ Running /\ Idle /\ PML4 # 0
  /\ UNCHANGED <<num_pages, mem, PML4, cr3, pat_msr>>
  /\ IF Aligned(what) /\ Aligned(where) /\ Aligned(size)
     THEN /\ call' = [what |-> what, where |-> where, size |-> size, flags |-> flags,
                      done |-> 0, depth |-> 0, table |-> PML4]
          /\ UNCHANGED <<layout, stage, panic, bitmap, bitmap_phy, held>>
     ELSE UNCHANGED call /\ Panic("map_not_aligned")

vmm_map_unaligned(what, where, size, flags) ==
  LET aligned_what == round_down(what, PAGE_SIZE)
      aligned_end  == round_up(what + size, PAGE_SIZE)
  IN  vmm_map(aligned_what, round_down(where, PAGE_SIZE),
              aligned_end - aligned_what, flags)

\* The page vmm_map has come to.
What == call.what + call.done
Where == call.where + call.done

\* The checks of vmm_map_page, in their order; "none" when the page may be mapped.
Refusal ==
  IF Where = 0 THEN "null_page"
  ELSE IF {"M_W", "M_X"} \subseteq call.flags THEN "w_and_x"
  ELSE IF CacheFlags \subseteq call.flags THEN "cache_mode" ELSE "none"

Directory(page) ==
  [p |-> TRUE, rw |-> TRUE, us |-> FALSE, xd |-> FALSE, pat |-> 0, addr |-> page]

\* Mutant: a table is linked with what its frame held before.
Linked_NotCleared(table, i, page) ==
  [mem EXCEPT ![table][i] = Directory(page)]

Linked(table, i, page) ==
  [memzero({page}) EXCEPT ![table][i] = Directory(page)]

AtPage == Running /\ ~Idle /\ call.depth = 0

refuse_page ==
  /\ AtPage /\ Refusal # "none"
  /\ Panic(Refusal)
  /\ UNCHANGED <<num_pages, vmmVars>>

\* One level of vmm_map_page: follow the entry, or hang a cleared table below it.
vmm_ensure_present ==
  /\ Running /\ ~Idle /\ call.depth < 3
  /\ call.depth = 0 => Refusal = "none"
  /\ UNCHANGED <<num_pages, PML4, cr3, pat_msr>>
  /\ LET i == Index(Where, call.depth)
         entry == mem[call.table][i]
         page == Least(FreeRuns(1))
         Below(table) == [call EXCEPT !.depth = @ + 1, !.table = table]
     IN  \/ entry.p /\ call' = Below(entry.addr) /\ UNCHANGED <<pmmVars, mem>>
         \/ /\ ~entry.p
            /\ pmm_alloc_pages(1, PAGE_SIZE)
            /\ \/ panic' # "none" /\ UNCHANGED <<mem, call>>
               \/ /\ panic' = "none"
                  /\ mem' = Linked(call.table, i, page)
                  /\ call' = Below(page)

Leaf(what, flags) ==
  [p |-> TRUE, rw |-> "M_W" \in flags, us |-> "M_U" \in flags,
   xd |-> "M_X" \notin flags, pat |-> PatIndex(flags), addr |-> what \div PAGE_SIZE]

\* Mutant: vmm_map does not move on.
vmm_set_leaf_Stays ==
  /\ Running /\ ~Idle /\ call.depth = 3
  /\ mem' = [mem EXCEPT ![call.table][Index(Where, 3)] = Leaf(What, call.flags)]
  /\ call' = [call EXCEPT !.depth = 0, !.table = PML4]
  /\ UNCHANGED <<pmmVars, PML4, cr3, pat_msr>>

\* The end of vmm_map_page, and vmm_map's turn to the next page.
vmm_set_leaf ==
  /\ Running /\ ~Idle /\ call.depth = 3
  /\ mem' = [mem EXCEPT ![call.table][Index(Where, 3)] = Leaf(What, call.flags)]
  /\ call' = [call EXCEPT !.done = @ + PAGE_SIZE, !.depth = 0, !.table = PML4]
  /\ UNCHANGED <<pmmVars, PML4, cr3, pat_msr>>

\* vmm_init up to its loops: the PAT, then an empty root table.
vmm_init ==
  /\ Running /\ stage = "ready" /\ PML4 = 0
  /\ UNCHANGED <<num_pages, cr3, call>>
  /\ \/ Panic("no_pat") /\ UNCHANGED <<mem, PML4, pat_msr>>
     \/ /\ pat_msr' = PatLayout
        /\ pmm_alloc_pages(1, PAGE_SIZE)
        /\ \/ panic' # "none" /\ UNCHANGED <<mem, PML4>>
           \/ /\ panic' = "none"
              /\ PML4' = Least(FreeRuns(1)) /\ mem' = memzero({PML4'})

\* The end of vmm_init.
load_cr3 ==
  /\ Running /\ Idle /\ PML4 # 0 /\ cr3 = 0
  /\ cr3' = PML4
  /\ UNCHANGED <<pmmVars, mem, PML4, pat_msr, call>>

\* Code that knows nothing of tables: it allocates, writes what it likes to the
\* memory it was granted, and gives it back.
allocate(size, content) ==
  /\ Idle
  /\ kalloc(size)
  /\ mem' = [f \in Frames |-> IF f \in FreePages \ FreePages'
                             THEN [i \in Slots |-> content] ELSE mem[f]]
  /\ UNCHANGED <<PML4, cr3, pat_msr, call>>

-----------------------------------------------------------------------------
(* The tables as a whole.                                                  *)

Below(tables) ==
  {mem[link[1]][link[2]].addr :
     link \in {l \in tables \X Slots : mem[l[1]][l[2]].p}}

\* Directories are the tables of the first three levels, TableFrames all four.
Directories == LET first == {PML4} \ {0}
                   second == Below(first)
               IN  first \cup second \cup Below(second)

TableFrames == Directories \cup Below(Directories)

TableBlocks == {[page |-> f, size |-> PAGE_SIZE] : f \in TableFrames}

release(block) ==
  /\ Idle
  /\ kfree(block)
  /\ UNCHANGED vmmVars

VmmInit ==
  /\ Init
  /\ \E content \in Contents : mem = [f \in Frames |-> [i \in Slots |-> content]]
  /\ PML4 = 0 /\ cr3 = 0 /\ pat_msr = PatReset /\ call = NoCall

-----------------------------------------------------------------------------
(* The manager by itself, under any sequence of requests.                  *)

CONSTANTS
  MapRequests,         \* arguments of vmm_map: [what, where, size, flags]
  UnalignedRequests    \* arguments of vmm_map_unaligned

\* No range wraps around at the end of the address space.
InSpace(where, size) ==
  where + size <= ENTRIES * ENTRIES * ENTRIES * ENTRIES * PAGE_SIZE

ASSUME RequestAssumption ==
  \A r \in MapRequests \cup UnalignedRequests :
    /\ r.what \in Nat /\ r.where \in Nat /\ r.size \in Nat /\ r.flags \subseteq MemoryFlags
    /\ r \in MapRequests => InSpace(r.where, r.size)
    /\ r \in UnalignedRequests =>
         InSpace(round_down(r.where, PAGE_SIZE),
                 round_up(r.what + r.size, PAGE_SIZE) - round_down(r.what, PAGE_SIZE))

VmmNext ==
  \/ pmm_init /\ UNCHANGED vmmVars
  \/ vmm_init
  \/ load_cr3
  \/ \E r \in MapRequests : vmm_map(r.what, r.where, r.size, r.flags)
  \/ \E r \in UnalignedRequests : vmm_map_unaligned(r.what, r.where, r.size, r.flags)
  \/ refuse_page
  \/ vmm_ensure_present
  \/ vmm_set_leaf
  \/ cr3 # 0 /\ \E size \in KallocSizes, content \in Contents : allocate(size, content)
  \/ \E block \in held \ TableBlocks : release(block)
  \/ cr3 # 0 /\ Idle /\ pmm_reclaim /\ UNCHANGED vmmVars

VmmSpec == VmmInit /\ [][VmmNext]_allVars

-----------------------------------------------------------------------------
(* Properties.                                                             *)

Panics ==
  {"none", "no_bitmap_region", "not_aligned", "no_contiguous_pages",
   "page_out_of_range", "no_pat", "map_not_aligned", "null_page", "w_and_x",
   "cache_mode"}

\* Every variable stays in its type: the tables and the walk in progress never
\* leave the memory modelled, and no slot index leaves its table.
VmmTypeOK ==
  /\ mem \in [Frames -> [Slots -> PageEntry]]
  /\ PML4 \in Frames /\ cr3 \in {0, PML4} /\ panic \in Panics
  /\ pat_msr \in {PatReset, PatLayout}
  /\ call.depth \in 0 .. 3 /\ call.table \in Frames
  /\ call.done \in 0 .. call.size /\ call.flags \subseteq MemoryFlags

\* The kernel gets what it asked vmm_map for: each page of the range it has come
\* through translates to its frame, with the kernel's rights and the memory type of
\* the flags, until another call is made, whatever was mapped there before.  User
\* mode reaches no page at all, M_U or not: no directory gives it the right.
KernelGetsWhatWasAsked ==
  PML4 # 0 =>
    \A k \in {n \in 0 .. call.size - 1 : n < call.done /\ Aligned(n)} :
      /\ Mapped(PML4, call.where + k)
      /\ Translation(PML4, call.where + k) =
           [frame |-> (call.what + k) \div PAGE_SIZE,
            w |-> "M_W" \in call.flags, x |-> "M_X" \in call.flags, u |-> FALSE,
            cache |-> IF "M_CACHE_UC" \in call.flags THEN "UC-"
                      ELSE IF "M_CACHE_WC" \in call.flags THEN "WC" ELSE "WB"]

\* The tables are a tree: every directory entry leads to a frame of its own, and
\* none back to the root.  Each frame of it was granted by pmm_alloc_page and is
\* still held, so no caller of kalloc can be given it.
TablesFormTree ==
  PML4 # 0 =>
    LET links == {l \in Directories \X Slots : mem[l[1]][l[2]].p}
        Target(l) == mem[l[1]][l[2]].addr
    IN  /\ \A l, m \in links : l # m => Target(l) # Target(m)
        /\ \A l \in links : Target(l) # PML4
        /\ TableBlocks \subseteq held

VirtualPages == 0 .. ENTRIES * ENTRIES * ENTRIES * ENTRIES - 1

MappedPages ==
  IF PML4 = 0 THEN {} ELSE {v \in VirtualPages : Mapped(PML4, v * PAGE_SIZE)}

CachingTypes == {"WB", "WT", "UC-", "UC", "WP", "WC"}

AS == INSTANCE AddressSpace WITH
        Translations <- [frame : Nat, w : BOOLEAN, x : BOOLEAN, u : BOOLEAN,
                         cache : CachingTypes],
        map <- [v \in MappedPages |-> Translation(PML4, v * PAGE_SIZE)]

\* What the processor sees of the tables changes one page at a time: new tables
\* show through nowhere, a leaf shows at its page only, NULL stays unmapped and
\* nothing becomes writable and executable.
ImplementsAddressSpace == AS!Spec
=============================================================================
