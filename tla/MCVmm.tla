------------------------------- MODULE MCVmm -------------------------------
(***************************************************************************)
(* Vmm with tables of two slots: sixteen virtual pages under four levels,  *)
(* so two neighbouring pages differ at every level somewhere.              *)
(***************************************************************************)
EXTENDS Vmm

Area(first, pages, type) ==
  [base |-> first * PAGE_SIZE, length |-> pages * PAGE_SIZE, type |-> type]

\* Room for most of the requests, not for all of them in every order.
Machine(usable) ==
  [memmap |-> << Area(1, usable, "USABLE"),
                 Area(usable + 1, 2, "BOOTLOADER_RECLAIMABLE") >>,
   stack_top |-> (usable + 2) * PAGE_SIZE]

MCLayouts == {Machine(8), Machine(4)}

\* Memory nobody cleared may look like a present entry that leads to page 0.
MCContents ==
  {[p |-> TRUE, rw |-> TRUE, us |-> TRUE, xd |-> FALSE, pat |-> 0, addr |-> 0]}

Request(what, where, size, flags) ==
  [what |-> what, where |-> where, size |-> size, flags |-> flags]

MCMapRequests ==
  { \* Two pages that share no table below the root.
    Request(2 * PAGE_SIZE, 7 * PAGE_SIZE, 2 * PAGE_SIZE, {"M_W"}),
    \* One of them again, read-only, as for RELRO; and as code for user mode.
    Request(2 * PAGE_SIZE, 7 * PAGE_SIZE, PAGE_SIZE, {}),
    Request(3 * PAGE_SIZE, 8 * PAGE_SIZE, PAGE_SIZE, {"M_X", "M_U", "M_CACHE_WC"}),
    \* What vmm_map and vmm_map_page refuse.
    Request(0, 0, PAGE_SIZE, {"M_W"}),
    Request(2 * PAGE_SIZE, 8 * PAGE_SIZE, PAGE_SIZE, {"M_W", "M_X"}),
    Request(2 * PAGE_SIZE, 8 * PAGE_SIZE, PAGE_SIZE, CacheFlags),
    Request(2 * PAGE_SIZE, 8 * PAGE_SIZE, 1, {"M_W"}) }

\* Registers of a device that straddle two pages.
MCUnalignedRequests ==
  { Request(30 * PAGE_SIZE + 1, 5 * PAGE_SIZE + 1, PAGE_SIZE, {"M_W", "M_CACHE_UC"}) }
=============================================================================
