------------------------------- MODULE MCBoot -------------------------------
(***************************************************************************)
(* Boot on machines of 39 page frames with tables of four slots: the direct *)
(* map begins in the second quarter of the address space, the kernel is in  *)
(* the last.  Machines differ in the order of their memory map, in where    *)
(* the loader put itself, and in what is missing.                           *)
(***************************************************************************)
EXTENDS Boot

Area(pages, type) == [pages |-> pages, type |-> type]

\* A memory map from areas that follow each other from the given page.
RECURSIVE Areas(_, _)
Areas(first, areas) ==
  IF areas = <<>> THEN <<>>
  ELSE << [base |-> first * PAGE_SIZE, length |-> Head(areas).pages * PAGE_SIZE,
           type |-> Head(areas).type] >>
       \o Areas(first + Head(areas).pages, Tail(areas))

\* The kernel as the linker script lays it out, a page for each segment; .bss
\* makes the last one longer than a page.
Header(type, vaddr, memsz, flags) ==
  [type |-> type, vaddr |-> vaddr, memsz |-> memsz, flags |-> flags]

Kernel ==
  << Header("PT_PHDR", 0, 1, {"PF_R"}),
     Header("PT_LOAD", 0, PAGE_SIZE - 1, {"PF_R"}),
     Header("PT_LOAD", PAGE_SIZE, PAGE_SIZE, {"PF_R", "PF_X"}),
     Header("PT_GNU_RELRO", 2 * PAGE_SIZE, PAGE_SIZE, {"PF_R"}),
     Header("PT_LOAD", 2 * PAGE_SIZE, PAGE_SIZE, {"PF_R", "PF_W"}),
     Header("PT_LOAD", 3 * PAGE_SIZE, PAGE_SIZE + 1, {"PF_R", "PF_W"}) >>

First == Area(1, "RESERVED")
Image == Area(5, "EXECUTABLE_AND_MODULES")
Screen == Area(1, "FRAMEBUFFER")
Firmware == Area(1, "RESERVED_MAPPED")

\* Pieces of memory, in any order.
Pieces == { Area(23, "USABLE"), Area(4, "USABLE"), Area(2, "BOOTLOADER_RECLAIMABLE"),
            Area(1, "ACPI_RECLAIMABLE") }

Orders == {<<a, b, c, d>> : a, b, c, d \in Pieces}

Machine(areas, x2apic, sizes) ==
  LET memmap == Areas(0, areas)
      Of(type) == CHOOSE i \in DOMAIN memmap : memmap[i].type = type
  IN  [memmap |-> memmap,
       stack_top |-> EndOf(memmap[Of("BOOTLOADER_RECLAIMABLE")]),
       physical_base |-> memmap[Of("EXECUTABLE_AND_MODULES")].base,
       virtual_base |-> 192 * PAGE_SIZE,
       phdrs |-> Kernel,
       x2apic |-> x2apic, lapic |-> 41 * PAGE_SIZE, lapic_size |-> PAGE_SIZE - 1,
       has_ioapic |-> TRUE, ioapic |-> 42 * PAGE_SIZE + 1, ioapic_size |-> 1,
       console |-> sizes]

MCLayouts ==
  {Machine(<<First>> \o o \o <<Image, Screen, Firmware>>, FALSE, <<3, 9>>) :
     o \in {p \in Orders : {p[i] : i \in 1 .. 4} = Pieces}}
  \cup
  { Machine(<<First, Image, Area(2, "BOOTLOADER_RECLAIMABLE"), Area(20, "USABLE")>>,
            TRUE, <<>>),
    [Machine(<<First, Area(2, "BOOTLOADER_RECLAIMABLE"), Area(20, "USABLE"), Image>>,
             FALSE, <<3>>) EXCEPT !.has_ioapic = FALSE],
    \* Too little memory for the tables, and a memory map nobody aligned.
    Machine(<<First, Area(2, "BOOTLOADER_RECLAIMABLE"), Area(9, "USABLE"), Image>>,
            FALSE, <<>>),
    [Machine(<<First, Area(2, "BOOTLOADER_RECLAIMABLE"), Area(17, "USABLE"), Image, Firmware>>,
             FALSE, <<>>) EXCEPT !.memmap[5].base = @ + 1] }

MCContents ==
  {[p |-> TRUE, rw |-> TRUE, us |-> TRUE, xd |-> FALSE, pat |-> 0, addr |-> 0]}
=============================================================================
