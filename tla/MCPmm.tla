------------------------------- MODULE MCPmm -------------------------------
(***************************************************************************)
(* Pmm on a machine of two-byte pages and four-bit bytes: a bitmap of nine *)
(* pages needs three bytes, the last partly used, and two pages to live in. *)
(***************************************************************************)
EXTENDS Pmm

Area(first, pages, type) ==
  [base |-> first * PAGE_SIZE, length |-> pages * PAGE_SIZE, type |-> type]

\* A machine of nine pages: page 0 reserved, a gap at page 5, the stack in the
\* loader's two pages at the end.
Plain ==
  [memmap |-> << Area(0, 1, "RESERVED"), Area(1, 4, "USABLE"),
                 Area(6, 1, "ACPI_RECLAIMABLE"),
                 Area(7, 2, "BOOTLOADER_RECLAIMABLE") >>,
   stack_top |-> 9 * PAGE_SIZE]

\* The first usable entry is too small for the bitmap, and RAM is in two pieces.
TwoPieces ==
  [memmap |-> << Area(1, 1, "USABLE"), Area(2, 2, "BOOTLOADER_RECLAIMABLE"),
                 Area(4, 1, "FRAMEBUFFER"), Area(5, 4, "USABLE") >>,
   stack_top |-> 3 * PAGE_SIZE]

\* The only usable entry starts at address 0.
FromZero ==
  [memmap |-> << Area(0, 4, "USABLE"), Area(4, 2, "BOOTLOADER_RECLAIMABLE") >>,
   stack_top |-> 5 * PAGE_SIZE]

\* ACPI tables are not promised to be aligned.
OddAcpi ==
  [memmap |-> << Area(1, 3, "USABLE"),
                 [base |-> 4 * PAGE_SIZE + 1, length |-> 2, type |-> "ACPI_RECLAIMABLE"],
                 Area(6, 2, "BOOTLOADER_RECLAIMABLE") >>,
   stack_top |-> 7 * PAGE_SIZE]

\* The stack top is not a page boundary.
OddStack == [Plain EXCEPT !.stack_top = @ - 1]

MCLayouts == {Plain, TwoPieces, FromZero, OddAcpi, OddStack}
=============================================================================
