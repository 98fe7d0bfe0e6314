-------------------------------- MODULE Boot --------------------------------
(***************************************************************************)
(* main (src/src/main.c) as far as it concerns memory: the boot processor  *)
(* takes the machine from the loader's address space to the kernel's own,  *)
(* hands memory to the console, maps the interrupt controllers, and takes  *)
(* the loader's memory over.  It composes Pmm and Vmm; the loader, the     *)
(* linker script and the console library appear as what they hand over.    *)
(***************************************************************************)
EXTENDS Vmm

VARIABLES
  pc,            \* what main does next
  todo           \* what is left of the loop main is in: calls of vmm_map or kalloc

bootVars == <<allVars, pc, todo>>

-----------------------------------------------------------------------------
(* What the calls of main ask to be mapped.                                *)

\* unaligned tells a call of vmm_map_unaligned from one of vmm_map.
Request(what, where, size, flags, unaligned) ==
  [what |-> what, where |-> where, size |-> size, flags |-> flags,
   unaligned |-> unaligned]

\* How the elements of the first n places are kept that a loop does not skip.
Kept(s, types) ==
  LET kept[n \in 0 .. Len(s)] ==
        IF n = 0 THEN <<>>
        ELSE IF s[n].type \in types THEN Append(kept[n - 1], s[n]) ELSE kept[n - 1]
  IN  kept

OfTypes(s, types) == Kept(s, types)[Len(s)]

\* Mutant: the loader's memory is mapped, but not for writing.
HhdmFlags_NoLoader(type) ==
  CASE type \in {"USABLE", "ACPI_RECLAIMABLE"} -> {"M_W"}
    [] type = "FRAMEBUFFER" -> {"M_W", "M_CACHE_WC"}
    [] OTHER -> {}

\* The flags with which vmm_init maps an entry of the memory map at the HHDM.
HhdmFlags(type) ==
  CASE type \in RamTypes \cup ReclaimTypes -> {"M_W"}
    [] type = "FRAMEBUFFER" -> {"M_W", "M_CACHE_WC"}
    [] OTHER -> {}

HhdmTypes == RamTypes \cup ReclaimTypes \cup {"FRAMEBUFFER", "RESERVED_MAPPED"}

\* Mutant: every entry is mapped alike.
HhdmRequests_All ==
  [i \in DOMAIN layout.memmap |->
     Request(layout.memmap[i].base, phy_to_virt(layout.memmap[i].base),
             layout.memmap[i].length, {"M_W"}, FALSE)]

HhdmRequests ==
  LET entries == OfTypes(layout.memmap, HhdmTypes)
  IN  [i \in DOMAIN entries |->
         Request(entries[i].base, phy_to_virt(entries[i].base),
                 entries[i].length, HhdmFlags(entries[i].type), FALSE)]

elf_to_memory_flags(elf_flags) ==
  (IF "PF_W" \in elf_flags THEN {"M_W"} ELSE {})
    \cup (IF "PF_X" \in elf_flags THEN {"M_X"} ELSE {})

\* A pass over the program headers of the given type.
SegmentRequests(type) ==
  LET phdrs == OfTypes(layout.phdrs, {type})
  IN  [i \in DOMAIN phdrs |->
         Request(layout.physical_base + phdrs[i].vaddr,
                 layout.virtual_base + phdrs[i].vaddr,
                 phdrs[i].memsz, elf_to_memory_flags(phdrs[i].flags), TRUE)]

\* Mutant: one pass, in an order in which PT_LOAD undoes PT_GNU_RELRO.
VmmInitRequests_RelroFirst ==
  HhdmRequests \o SegmentRequests("PT_GNU_RELRO") \o SegmentRequests("PT_LOAD")

\* The three loops of vmm_init.
VmmInitRequests ==
  HhdmRequests \o SegmentRequests("PT_LOAD") \o SegmentRequests("PT_GNU_RELRO")

\* lapic_init_begin maps the registers of an xAPIC,
LapicRequests ==
  IF layout.x2apic THEN <<>>
  ELSE <<Request(layout.lapic, phy_to_virt(layout.lapic), layout.lapic_size, {"M_W"}, TRUE)>>

\* ioapic_init_register those of the I/O APIC.
IoapicRequests ==
  IF ~layout.has_ioapic THEN <<>>
  ELSE <<Request(layout.ioapic, phy_to_virt(layout.ioapic), layout.ioapic_size,
                 {"M_W", "M_CACHE_UC"}, TRUE)>>

\* acpi_parse_madt calls the first at once and the second at the record of an I/O
\* APIC, if there is one; the checks that stop it, a second record's included, are
\* Acpi's.  Without a MADT neither is called: as with x2APIC and no I/O APIC.
AcpiRequests == LapicRequests \o IoapicRequests

-----------------------------------------------------------------------------
(* What the loader, the linker script and the hardware hand over.          *)

\* The frames that hold a byte of a range of addresses.
FramesOf(base, size) == base \div PAGE_SIZE .. PageCount(base + size) - 1

EntryFrames(l, i) == FramesOf(l.memmap[i].base, l.memmap[i].length)

LinkedFrames(l, i) == FramesOf(l.physical_base + l.phdrs[i].vaddr, l.phdrs[i].memsz)

LapicFrames(l) == IF l.x2apic THEN {} ELSE FramesOf(l.lapic, l.lapic_size)

IoapicFrames(l) == IF l.has_ioapic THEN FramesOf(l.ioapic, l.ioapic_size) ELSE {}

Phdr == [type : STRING, vaddr : Nat, memsz : Nat, flags : SUBSET {"PF_R", "PF_W", "PF_X"}]

Segments(l, types) == {i \in DOMAIN l.phdrs : l.phdrs[i].type \in types}

HandedOver(l) ==
  /\ l.phdrs \in Seq(Phdr) /\ l.console \in Seq(KallocSizes)
  /\ l.x2apic \in BOOLEAN /\ l.has_ioapic \in BOOLEAN
  /\ {l.physical_base, l.virtual_base, l.lapic, l.lapic_size, l.ioapic} \subseteq Nat
  /\ l.ioapic_size \in Nat \ {0}

\* The direct map ends below the kernel, and the kernel before the end of the
\* address space.
LaidOut(l) ==
  /\ Aligned(HHDM) /\ Aligned(l.physical_base) /\ Aligned(l.virtual_base)
  /\ InSpace(l.virtual_base, 0)
  /\ \A i \in DOMAIN l.memmap :
       l.memmap[i].type \in HhdmTypes => HHDM + EndOf(l.memmap[i]) <= l.virtual_base
  /\ l.has_ioapic => HHDM + round_up(l.ioapic + l.ioapic_size, PAGE_SIZE) <= l.virtual_base
  /\ l.x2apic \/ HHDM + round_up(l.lapic + l.lapic_size, PAGE_SIZE) <= l.virtual_base
  /\ \A i \in Segments(l, {"PT_LOAD", "PT_GNU_RELRO"}) :
       InSpace(l.virtual_base + l.phdrs[i].vaddr, l.phdrs[i].memsz)

\* Memory of different use shares no frame: what is handed out again, frame
\* buffers, the kernel, the registers of the controllers.
UsedOnce(l) ==
  /\ \A i, j \in DOMAIN l.memmap :
       /\ i # j /\ l.memmap[j].type \in HhdmTypes
       /\ l.memmap[i].type \in ReclaimTypes \cup {"FRAMEBUFFER", "EXECUTABLE_AND_MODULES"}
       => EntryFrames(l, i) \cap EntryFrames(l, j) = {}
  /\ \A i \in DOMAIN l.memmap :
       l.memmap[i].type \in HhdmTypes \cup {"EXECUTABLE_AND_MODULES"} =>
         EntryFrames(l, i) \cap (LapicFrames(l) \cup IoapicFrames(l)) = {}
  /\ LapicFrames(l) \cap IoapicFrames(l) = {}

\* The linker script puts segments of different rights on pages of their own, all
\* of them in the image, and relocates only data.
LinkedApart(l) ==
  /\ \A i \in Segments(l, {"PT_LOAD", "PT_GNU_RELRO"}) :
       \E k \in DOMAIN l.memmap :
         /\ l.memmap[k].type = "EXECUTABLE_AND_MODULES"
         /\ LinkedFrames(l, i) \subseteq EntryFrames(l, k)
  /\ \A i, j \in Segments(l, {"PT_LOAD"}) :
       i # j => LinkedFrames(l, i) \cap LinkedFrames(l, j) = {}
  /\ \A i \in Segments(l, {"PT_GNU_RELRO"}) :
       /\ l.phdrs[i].flags \cap {"PF_W", "PF_X"} = {}
       /\ \A j \in Segments(l, {"PT_LOAD"}) :
            LinkedFrames(l, i) \cap LinkedFrames(l, j) # {} => "PF_X" \notin l.phdrs[j].flags

ASSUME BootAssumption ==
  \A l \in Layouts : HandedOver(l) /\ LaidOut(l) /\ UsedOnce(l) /\ LinkedApart(l)

-----------------------------------------------------------------------------
(* main.                                                                   *)

At(label) == pc = label /\ Running

Goto(label) == pc' = label

\* The vmm_map calls of a loop, one after the other.
map_next ==
  /\ At("vmm_init") \/ At("acpi")
  /\ PML4 # 0 /\ Idle /\ todo # <<>>
  /\ LET r == Head(todo)
     IN  \/ r.unaligned /\ vmm_map_unaligned(r.what, r.where, r.size, r.flags)
         \/ ~r.unaligned /\ vmm_map(r.what, r.where, r.size, r.flags)
  /\ todo' = Tail(todo)
  /\ UNCHANGED pc

map_page ==
  /\ refuse_page \/ vmm_ensure_present \/ vmm_set_leaf
  /\ UNCHANGED <<pc, todo>>

boot_pmm_init ==
  /\ At("pmm_init") /\ pmm_init /\ Goto("vmm_init")
  /\ UNCHANGED <<vmmVars, todo>>

boot_vmm_init ==
  /\ At("vmm_init") /\ vmm_init
  /\ todo' = VmmInitRequests
  /\ UNCHANGED pc

boot_load_cr3 ==
  /\ At("vmm_init") /\ todo = <<>>
  /\ load_cr3
  /\ Goto("console")
  /\ todo' = layout.console

\* When there is a framebuffer, the console library takes what memory
\* it needs and fills it.
flanterm_fb_init ==
  /\ At("console")
  /\ \/ /\ todo # <<>>
        /\ \E content \in Contents : allocate(Head(todo), content)
        /\ todo' = Tail(todo)
        /\ UNCHANGED pc
     \/ /\ todo = <<>>
        /\ Goto("acpi") /\ todo' = AcpiRequests
        /\ UNCHANGED allVars

\* acpi_parse_rsdp returns and interrupts are enabled.
acpi_done ==
  /\ At("acpi") /\ todo = <<>> /\ Idle
  /\ Goto("pmm_reclaim")
  /\ UNCHANGED <<allVars, todo>>

boot_pmm_reclaim ==
  /\ At("pmm_reclaim") /\ pmm_reclaim /\ Goto("pmm_zero")
  /\ UNCHANGED <<vmmVars, todo>>

\* Mutant: the bitmap is not asked.
pmm_zero_All ==
  /\ At("pmm_zero") /\ Goto("done")
  /\ mem' = memzero(Frames)
  /\ UNCHANGED <<pmmVars, PML4, cr3, pat_msr, call, todo>>

\* DEBUG_CHECKS: every page marked free is cleared through the direct map.
pmm_zero ==
  /\ At("pmm_zero") /\ Goto("done")
  /\ mem' = memzero(FreePages)
  /\ UNCHANGED <<pmmVars, PML4, cr3, pat_msr, call, todo>>

BootInit == VmmInit /\ pc = "pmm_init" /\ todo = <<>>

BootNext ==
  \/ boot_pmm_init \/ boot_vmm_init \/ boot_load_cr3
  \/ map_next \/ map_page
  \/ flanterm_fb_init \/ acpi_done
  \/ boot_pmm_reclaim \/ pmm_zero

BootSpec == BootInit /\ [][BootNext]_bootVars

\* The boot processor runs main and nothing makes it wait.
FairBootSpec == BootSpec /\ WF_bootVars(BootNext)

-----------------------------------------------------------------------------
(* Properties.                                                             *)

KernelPages == PagesOfType({"EXECUTABLE_AND_MODULES"})

LoaderPages == PagesOfType({"BOOTLOADER_RECLAIMABLE"})

\* Frames that something still reads or writes without asking the allocator.
LiveFrames ==
  BitmapPages \cup TableFrames \cup KernelPages \cup StackPages
    \cup (IF stage = "reclaimed" THEN {} ELSE LoaderPages)

\* No live frame is ever marked free, so none is granted or cleared: the bitmap,
\* the tables, the kernel, the stack main runs on, and until pmm_reclaim has read
\* the loader's answers for the last time, all of the loader's memory.
LiveNeverFree == stage # "boot" => LiveFrames \cap FreePages = {}

\* From the moment the kernel's tables are loaded, every frame the allocator
\* may hand out or has handed out, and the bitmap, the stack and the loader's
\* data, is reached through the direct map: writable, not executable, cached, and not
\* by user mode.
DirectMapReaches ==
  cr3 # 0 =>
    \A f \in FreePages \cup HeldPages \cup BitmapPages \cup StackPages \cup LoaderPages :
      LET where == phy_to_virt(f * PAGE_SIZE)
      IN  Mapped(cr3, where) /\
          Translation(cr3, where) =
            [frame |-> f, w |-> TRUE, x |-> FALSE, u |-> FALSE, cache |-> "WB"]

Reaches(frame) == {v \in MappedPages : Translation(PML4, v * PAGE_SIZE).frame = frame}

\* Whatever address it is reached by: a frame that holds code is written through
\* none, so the refusal of W|X pages is not undone by a second mapping.
NoWritableAlias ==
  cr3 # 0 =>
    \A v \in MappedPages :
      Translation(cr3, v * PAGE_SIZE).x =>
        \A u \in Reaches(Translation(cr3, v * PAGE_SIZE).frame) :
          ~Translation(cr3, u * PAGE_SIZE).w

\* The frames a segment's bytes lie in, and the page each is linked to run at.
SegmentFrames(h) ==
  {f \in Frames : /\ (layout.physical_base + h.vaddr) \div PAGE_SIZE <= f
                  /\ f < PageCount(layout.physical_base + h.vaddr + h.memsz)}

LinkedAt(f) == layout.virtual_base + (f * PAGE_SIZE - layout.physical_base)

\* Once the kernel's tables are loaded, every byte of a loaded segment is where it
\* was linked, with no right its program header does not give, and executable if
\* it is code; what PT_GNU_RELRO covers is written through no address at all.
SegmentsProtected ==
  cr3 # 0 =>
    \A i \in DOMAIN layout.phdrs :
      LET h == layout.phdrs[i]
      IN  \A f \in SegmentFrames(h) :
            LET t == Translation(cr3, LinkedAt(f))
            IN  /\ h.type = "PT_LOAD" =>
                     /\ Mapped(cr3, LinkedAt(f)) /\ t.frame = f
                     /\ t.x <=> "PF_X" \in h.flags
                     /\ t.w => "PF_W" \in h.flags
                /\ h.type = "PT_GNU_RELRO" =>
                     \A v \in Reaches(f) : ~Translation(cr3, v * PAGE_SIZE).w

\* Nothing flushes the processor's cached translations: once the kernel's tables
\* are loaded, a page that translates keeps its translation, whatever is mapped,
\* granted, freed or cleared.
NoStaleTranslation ==
  [][cr3 # 0 =>
       \A v \in MappedPages :
         Mapped(cr3, v * PAGE_SIZE)' /\
         Translation(cr3, v * PAGE_SIZE)' = Translation(cr3, v * PAGE_SIZE)]_bootVars

\* Frame buffer pages are write-combining and the I/O APIC is uncached, by the
\* PAT entry the processor looks up, not only by the index in the leaf.
DevicesCachedAsAsked ==
  /\ cr3 # 0 => \A f \in PagesOfType({"FRAMEBUFFER"}) :
       Translation(cr3, phy_to_virt(f * PAGE_SIZE)).cache = "WC"
  /\ pc \in {"pmm_reclaim", "pmm_zero", "done"} /\ layout.has_ioapic =>
       Translation(cr3, phy_to_virt(layout.ioapic)).cache = "UC-"

\* No memory map makes main loop or wait for ever: it ends, or a check stops it.
BootCompletes == <>(pc = "done" \/ panic # "none")
=============================================================================
