# UmbralOS in TLA+

UmbralOS is a small x86-64 kernel. The Limine boot loader starts it on one
processor; it builds its own memory management, programs the interrupt
controllers from the ACPI tables, brings up a serial console and a PS/2
controller, prints "Boot Complete!" and halts, serving interrupts from then on.
This directory models it: TLA+ modules translated from the C and assembly
source, TLC configurations that check them on small machines, and theorems
checked by TLAPS. Paths below are relative to the repository (`src/` here
stands for the repository's own `src/` directory).

## 1. The system

One processor runs `main` (`src/main.c`) from start to halt. From
`enable_interrupts` (main.c:114) on, interrupt handlers run on the same
processor and the same stack, between any two instructions of `main`. There
are no threads and no locks, so every race there is is between `main` and a
handler, or between the program and a device.

| component | state | operations | talks to |
|---|---|---|---|
| physical memory manager, `src/mm.c` 16-197 | bitmap of free pages, page count | `pmm_init`, `pmm_alloc_pages`, `pmm_free_pages`, `pmm_reclaim`, `pmm_zero`, `kalloc`, `kfree` | loader's memory map; the VMM and the console library allocate from it |
| virtual memory manager, `src/mm.c` 199-357 | tree of page tables, CR3, PAT | `vmm_init`, `vmm_map`, `vmm_map_unaligned` | takes table frames from the PMM; ACPI and APIC code ask it for mappings |
| boot sequence, `src/main.c` | where `main` is | `main`, `fp_init` | everything |
| interrupt entry and exit, `src/interrupt.s` | registers and stack | 256 stubs, `generic_interrupt_stub` | processor on one side, `interrupt_handler` on the other |
| interrupt dispatch, `src/interrupt.c` | IDT | `load_idt`, `interrupt_handler` | serial, PS/2, local APIC, kprint, panic |
| local APIC, `src/drivers/pic/lapic.c` | APIC mode, LVT entries, in-service vectors | `lapic_init_begin`, `lapic_init_nmi`, `lapic_eoi` | VMM, handlers |
| I/O APIC, `src/drivers/pic/ioapic.c` | redirection table, ISA overrides | `ioapic_init_register`, `..._source_override`, `..._nmisource`, `ioapic_enable_isa_interrupt` | MADT, serial, PS/2, VMM |
| 8259, `src/drivers/pic/8259.c` | nothing kept | `legacy_pic_init_and_disable` | MADT |
| ACPI, `src/drivers/acpi/` | `has_i8042` | `acpi_parse_rsdp`, MADT and FADT parsers | APICs, 8259, `main` |
| serial console, `src/drivers/serial.c` | UART registers and FIFOs | `serial_early_init`, `serial_init`, `serial_write`, `serial_handle_interrupt` | kprint, I/O APIC |
| PS/2, `src/drivers/ps2.c` | controller configuration, drivers | `ps2_init`, two handlers | I/O APIC, kprint |
| kprint and panic, `src/common.c` | the writer in use | `kprint_configure`, `kprint`, `panic`, `halt` | serial, console library |
| processor set-up, `src/gdt.c`, `gdt.s`, `security.c`, `intel.c` | GDT, TSS, CR4 | run once | - |
| Limine, flanterm | external (empty submodules) | hand-over; `flanterm_fb_init`, `flanterm_write` | - |

What makes each of them correct, and what is hard about it:

* **PMM.** No page has two owners; none is lost; the bitmap's own pages and
  the stack are never given away. The memory map is foreign input in any order;
  memory joins in two instalments with allocations in between; the arithmetic
  mixes bytes, pages, bits and bytes of bitmap.
* **VMM.** A mapping does what the flags say and nothing else; tables live in
  frames nobody else can get; nothing is both writable and executable. Tables
  are written while the processor walks them, in frames nobody cleared, and no
  stale translation is ever flushed.
* **Boot.** The new address space must hold everything still in use at the
  instant CR3 is loaded; the memory `pmm_reclaim` gives away contains the stack
  it runs on; `pmm_zero` erases whatever the bitmap calls free.
* **Interrupt entry.** For all 256 vectors the C code must see the frame its
  struct declares, be called as compiled code expects, and the interrupted
  code must get every register back.
* **Dispatch, APICs, serial, PS/2.** Handlers interleave with `main` on shared
  ports; edges are lost while a pin is masked; EOI must match what is in
  service; devices answer late or never.
* **ACPI.** Records arrive in the order firmware chose; every register write
  is visible to the hardware at once, and some are legal in one order only.
* **Processor set-up.** Written once in a straight line, on processors that
  lack any of three features, with non-maskable interrupts possible from
  `load_idt` on.
* **kprint.** Digits, directives, and a panic from within the function that
  prints panics.

The full list of hazards, each at its line, is in `PROJECT.json`.

## 2. Modules

| module | models | state |
|---|---|---|
| `FrameAllocator` | what the PMM promises | `free`, `granted` |
| `Pmm` | `src/mm.c` 16-187 | `bitmap`, `num_pages`, `bitmap_phy`, the loader's `layout`, `panic`, how far `main` is (`stage`); history: `held` |
| `PmmProofs` | theorems about `Pmm` | |
| `AddressSpace` | what the VMM promises | `map` |
| `Vmm` (extends `Pmm`) | `src/mm.c` 199-357, `intel.h` 168-216, `mm.h` 9-20 | `mem` (frames read as tables), `PML4`, `cr3`, `pat_msr`, `call` (the `vmm_map` in progress) |
| `VmmProofs` (extends `PmmProofs`) | theorems about `Vmm` | |
| `Boot` (extends `Vmm`) | `src/main.c` 88-119 and what its calls ask of the VMM | `pc`, `todo` |
| `BootProofs` (extends `VmmProofs`) | theorems about `Boot` | |
| `InterruptEntry` | `src/interrupt.s`, `struct stack_frame` | registers, stack, position in the stub |
| `InterruptEntryProofs` | theorems about `InterruptEntry` | |
| `Interrupts` | `interrupt_handler`, `lapic_eoi`, delivery through both APICs | `frames` (activations main first), `iflag`, `unmasked`, `irr`, `isr` |
| `Serial` (extends `Interrupts`) | `src/drivers/serial.c` with `main` printing | UART: `ier`, `fifos`, `rx`, `timeout`, `tx`; `EARLY_INIT_COMPLETE` |
| `SerialProofs` | theorems about `Serial` and what it takes from `Interrupts` | |
| `Apic` | `lapic.c`, `ioapic.c`, `8259.c`, one write a step | `apic_base`, `lapic`, `pic`, `redir`, `ISA_REDIRECTION_ENTRY`, `IOAPIC_BASE`, `HAS_X2APIC`; `todo` (steps left), `panic` |
| `Acpi` (extends `Apic`) | `acpi.c`, `madt.c`, `fadt.c`, `main.c` 113-122 | `firmware` (the tables, the state of the 8042), `has_i8042`, `iflag` |
| `AcpiProofs`, `AcpiPinsProofs` (extends it) | theorems about `Acpi` | |
| `Ps2` (extends `Interrupts`) | `src/drivers/ps2.c`, `main.c` 114-128, with controller, keyboard and mouse | local variables `config`, `has_mouse`; controller: `ibf`, `obf`, `out`, `ccb`, `next_data`; devices: `queue`, `scanning`; history: `sent`, `verdict`, `inputs`, `early` |
| `Startup` (extends `Interrupts`) | `main.c` 58-128, `security.c`, `gdt.c`, `gdt.s`, `load_idt`, `kprint_configure` | `cr0`, `cr4`, `HAS_SMAP`, `gdtr`, `GDT`, `cs`, `ss`, `tr`, `idtr`, `g_writer`, `flanterm_context`; `fault` |
| `StartupProofs` | theorems about `Startup` | |
| `Kprint` | `print_unsigned`, `print_escape`, `kprintv`, `panic` of `common.c`, as functions | |

`MCPmm`, `MCVmm`, `MCBoot`, `MCSerial`, `MCInterruptEntry`, `MCAcpi`, `MCPs2`
and `MCStartup` give the constants their values for TLC. How they compose:
`Boot` extends `Vmm`, which extends `Pmm`, and runs `main`'s memory work on both;
`Acpi` extends `Apic` and runs `main` from the tables to the pins; `Serial`, `Ps2` and
`Startup` each put their part of `main` on the stack that `Interrupts` models, so
its handlers come between any two of their steps.

**Pmm.** One action for each of `pmm_init`, `pmm_reclaim`, `kalloc` and
`kfree`, whole functions because nothing runs in between (no handler
allocates). `pmm_mark_pages` is the loop of `pmm_mark_range` or of
`pmm_free_pages`; the search of `pmm_alloc_pages` is the least member of
`FreeRuns`. A panic is a value of `panic` after which nothing happens; what the
stopped operation left half done stays out of the model, since nobody reads it.
`held` records what callers were granted; `kfree` is called with a block that
was granted and the size that was asked for, which is the contract of its
callers, not something the code checks. Bits, bytes of bitmap and pages have
their sizes as constants.

**Vmm.** `vmm_map` checks and records the call; then one step for every
`vmm_ensure_present` and one for the leaf, because every one is a write the
processor may see at once. `mem` reads every frame as a table: memory nobody
cleared holds arbitrary entries (`Contents`). Address bits are scaled:
`ENTRIES` slots a table, so the shifts 39, 30, 21 and 12 become powers of
`ENTRIES` times a page. The walk, the rights that count only when every level
grants them and the PAT look-up are the processor's. The alignment checks
vmm_map_page repeats can no longer fail and are left out.

**Boot.** `pc` is the call of `main` in progress. The requests of `vmm_init`'s
three loops and of the ACPI code are computed from the layout as sequences and
carried out one `vmm_map` at a time. The console library appears as allocations
it fills with anything. ACPI parsing appears as the mappings it makes, of the local
APIC without x2APIC and of the I/O APIC if the tables describe one (`has_ioapic`).

**InterruptEntry.** One step is one instruction; the stack is an array of
words, a register value says whose it was. The handler is one step that
destroys everything the calling convention lets it destroy. The red zone is
not used by the code (`-mno-red-zone`), and vector registers are not saved
because the code is compiled without them (`-mno-sse`).

**Interrupts.** The processor's stack is a sequence of frames, each with the
steps its function has left. `interrupt_handler` gives the steps for a vector.
An interrupt is taken between any two steps when `iflag` allows it, from what
the local APIC has accepted (`irr`) and no vector in service holds back: the
three device vectors are in one priority class. An edge on a masked pin is not
remembered, as the I/O APIC's specification has it. `NMI` stands for every
vector without a case of its own and may come at any time.

**Serial.** The UART has both FIFOs, the trigger level and the character
timeout; its line is computed from them (`Line`) and every rise of it is an
edge (`Signal`). `serial_putc` is two steps, `serial_wait` and the write,
because an interrupt can come between them. What is printed is counted in
bytes; input bytes are told apart by how they are echoed. `main` is the list of
its steps that print or concern interrupts.

**Apic.** A register is the set of its bits that are 1. Functions put their
writes in front of `todo`, and each write is a step, so the two halves of a
redirection entry (`ioapic_write64`) and the four words of an 8259's
initialization are seen one by one. The local vector table has all seven entries of
lapic.c:10-18, the CMCI entry included, which `lapic_init_begin` leaves as it is. The rules of the hardware are external: which
APIC modes follow which, that MSR access needs x2APIC mode, that vector table
entries stay masked until the APIC is enabled by software, that ICW1 clears an
8259's mask. `LAPIC_LVT_TRIGGER` is bit 5 as in the source; that bit does nothing.

**Acpi.** A table is the sum of its bytes and what the code reads of it. Records
are parsed in the order they are listed; a null `IOAPIC_BASE` faults. The three
panics of the validators share one message here, and so do the two of `ps2_init`,
of which the module has the outcomes (nothing enabled after a failed self test, a
panic, one or two pins) and `Ps2` the dialogue.

**Ps2.** Every port access of `ps2_init` is a step, and so is what the
controller makes of a write and every byte a device sends. The model remembers
who sent the byte in the output buffer and what it answers, which the code cannot
know; properties compare that with what was asked. Handlers and delivery are those
of `Interrupts`; what is printed on the way is left to `Serial`.

**Startup.** One step for every instruction that changes what later ones rely on.
Selector loads, `ltr`, the far return, writes of CR4 and each entry into a handler
are checked as the processor checks them, and `fault` holds the exception a failed
one would be. The console library may give no context (`machine.context`), which `main`
does not look at. Addresses have eight bits for sixty-four and fields in proportion,
so that every address is tried. What faults before `load_idt` do is the loader's.

**Kprint.** The result of a call as a sequence of characters; "halt" ends the
output of a function that does not return, and `Then` is what the caller of one
makes of it. `kprintv` and `print_escape` are recursive operators, so the module is
used by `MCStartup` alone.

## 3. Runs

| run | question | bounds |
|---|---|---|
| `pmm` | every order of `pmm_init`, `kalloc`, `kfree`, `pmm_reclaim`: `HeldExclusively`, `Conserved`, `BitmapInsideUsable`, and `FrameAllocator` implemented | five machines of up to 9 pages of 2 bytes, bytes of 4 bits, so the bitmap has a part-used byte and itself needs more than a page; requests of 0, 1, 3, 4 bytes: none, less than a page, more than a page, whole pages; usable memory at address 0, unaligned ACPI memory and an unaligned stack included |
| `pmm_failure` | the message for a failed allocation is the one printed (it is not) | as `pmm` |
| `vmm` | any interleaving of mapping, allocation and freeing, `M_U` requests among them: `KernelGetsWhatWasAsked`, `TablesFormTree`, and `AddressSpace` implemented | 16 virtual pages under four levels of two slots, 12 frames: requests share tables at every level, collide, repeat, cross table boundaries, and run out of frames half way through a page |
| `boot` | the whole of `main`'s memory work: the properties of section 4 | 39 frames, tables of four slots; all 24 orders of the pieces of a memory map, a machine with x2APIC and no framebuffer, one without an I/O APIC, one with too little memory, one with an unaligned entry; no PAT as a choice of the processor |
| `interrupt_entry` | the frame, the call and the return, for all 256 vectors | two stack alignments, one interrupt after the other on the stack the last one left |
| `serial` | `main` printing under interrupts: the properties of section 4 | FIFOs of three bytes that interrupt at two, up to four bytes of input that are echoed as one or three, messages of two bytes, one spurious and any non-maskable interrupt: input passes the trigger level, overflows, and meets every step of `main` and of the handlers |
| `serial_input` | input is read once `serial_init` is done (it is not) | as `serial` |
| `acpi` | 150 machines: all orders of the records of an I/O APIC, an override, an NMI source and an NMI line; tables in any order; every mode firmware may leave the local APIC in; one thing broken or missing at a time, the 8042 included | sixteen ISA interrupts on 15, 16 or 18 pins, one override onto the last pin, one that is level-triggered and active low; table sums on both sides of 256 |
| `acpi_sixteen` | an I/O APIC refused for too few pins has too few (it may have sixteen) | as `acpi` |
| `ps2` | `ps2_init` on 44 machines, then both handlers: each byte goes where it belongs, the devices end up working, their input is read | every firmware configuration of the controller that matters, a missing channel, missing devices, each self test failing, a controller that forgets its configuration; two bytes of input at any time |
| `ps2_late` | the self-test message is true (it is not) | one machine whose controller takes its time |
| `startup` | main's set-up faults only where the console library gave no context, keeps every protection, ends with the kernel's tables; kprint and panic print what printf would, where decimal numbers fit | eight sets of features, each with and without framebuffer, context and RSDP; every eight-bit address; numbers of three hexadecimal digits (four decimal) instead of sixteen (twenty), all of them, and all formats of three directives from seventeen known and broken ones |

Deadlock is not checked where the program really stops: after a panic, at the
halt at the end of `main`, in `serial` and `ps2` when `main` has halted and no input is left.

Every property of a passing run has a mutant or two, plausible slips in mapped
definitions which TLC refutes under the same configuration. `PrintsWhatFits`
speaks of functions and of every state alike; it is checked in `startup` wherever `main` or
a handler prints.

## 4. Properties worth knowing

* `Conserved`: free and held pages together are exactly `Managed`, a set
  computed from the memory map alone. It fails on a leak as well as on a page
  from nowhere, across the two instalments in which memory arrives.
* `BitmapInsideUsable`: `pmm_init` tests `length > bitmap_size` in bytes and
  withdraws whole pages; that this is enough rests on entries being aligned.
* `KernelGetsWhatWasAsked`: every page of the last call, through whatever was mapped
  there before, has its frame, its memory type and the kernel's rights; `x` and `w` as
  asked, user mode none, since no directory entry gives it any (section 7).
* `TablesFormTree`: no frame is reached twice in the tree and none of its
  frames can be granted, through failures half way through a page.
* `LiveNeverFree`: bitmap, tables, kernel, the stack and, until it is
  reclaimed, the loader's memory are never free; `pmm_zero` therefore clears
  nothing in use.
* `DirectMapReaches`: from the moment CR3 is loaded, everything the allocator
  may hand out is reached through the direct map, writable and cached.
* `NoWritableAlias`, `SegmentsProtected`: code is writable through no address,
  RELRO data through none, each segment has what its header gives it.
* `NoStaleTranslation`: nothing is flushed, and nothing ever needs to be.
* `TransmitterKeepsUp`: `main` writes on a poll that is stale when a handler
  has printed in between. It is harmless because the poll waits for the whole
  FIFO to be empty and each activation has at most one write outstanding;
  without the FIFOs a byte is lost.
* `NeverReadsEmpty`: each edge stands for a byte still there when the handler
  reads, although it never asks.
* `InServiceMatches`, `EoiMatches`: EOI is sent once for each interrupt in
  service and never for a spurious one.
* `InputRead`: input is read to the last byte as long as none arrives before
  the pin is unmasked and never more than the trigger level wait. The two
  conditions are exactly what `serial_input` shows to be needed.
* `FrameAsDeclared`, `CallAsCompiled`, `Resumes`: section 2.
* `NoStrayVector`: at every instant, also between the halves of an entry, a pin
  that delivers is one a driver asked for, with its vector and for this processor;
  the 8259s never have an unmasked line over the vectors of exceptions. Any stray
  vector would panic in `interrupt_handler`.
* `IsaPinsRouted`, `NmisAsFirmwareSays`: at the end exactly the pins and lines the
  tables name are live, whatever the order of tables and records. Of the lines of the
  local APIC all others are masked but CMCI, which is as firmware left it.
* `StopsForAReason`: every message the machine stops with is true of its tables or its
  8042, interrupts are never enabled on a table whose checksum is wrong, and no I/O
  APIC with fewer pins than ISA interrupts is used. The message about pins is left to
  `TooFewPinsIsTrue`, which is false (section 7).
  Its part `FaultsOnlyAtNull`: no write is illegal in the APIC mode of the moment, and
  the one fault is a write through `IOAPIC_BASE` where it is still null: an NMI source before
  its I/O APIC, or no I/O APIC in any table.
* `RepliesMatch`: what is read is the answer to what was asked, in `ps2_init` and in
  the handlers; it rests on two assumptions, see below.
* `DevicesReady`, `InputRead` (of `Ps2`): as in `Serial`, input is read if none comes
  before the pins are unmasked.
* `NoOtherFault`: the order `load_gdt`, `load_idt` matters although nothing in the code
  says so: a non-maskable interrupt through the new gates would find the wrong
  segment in the loader's table. What does fault is the first print after a console
  library gave no context.
* `ProtectionKept`: CR4 is written in two places, and neither takes back a bit.
* `PrintsWhatFits`: also when a panic's own format is bad: one message more, one
  halt, and no return to the first. Decimal numbers have at most as many digits as
  `print_unsigned` has turns; of longer ones it is false (section 7).

## 5. Fairness

`Boot` has the liveness property `BootCompletes`, under weak fairness of its
next-state relation: the processor runs `main`, whose steps in this part
wait for nothing. Memory maps are finite and every loop advances by a page; a
map that stops the boot does so in a panic.

`Serial` has `InputRead` and `BootFinishes`, under weak fairness of `Processor`
(it executes the next instruction of whichever function runs, or takes an
interrupt when there is nothing to execute), of `transmit` (the UART sends what
it was given; no flow control is enabled) and of `receive_timeout` (its
character timer). Nothing is assumed of input, of spurious or of non-maskable
interrupts except that input and spurious interrupts are finitely many: a line
that never falls silent could keep `main` from its end, since a carriage return
takes three bytes to echo.

`Acpi` has `AcpiFinishes` under weak fairness of its next-state relation, which is
one processor executing `main`. The length of a record is at least 1 in every
table: with a length of 0 the loop of madt.c:20 does not end, and nothing but
firmware rules that out.

`Ps2` has `InputRead` and `Ps2Finishes` under weak fairness of the processor, of
the controller (it handles what was written to it) and of each device (it sends
what it has when there is room). `Ps2Finishes` assumes that each port that is
found has a device, since `poll_reply` waits without a limit, and that the user is
quiet until it ends. In run `ps2` the controller has handled a command before the
processor's next access (`prompt`); run `ps2_late` drops that.

`Startup` has `StartupFinishes` under weak fairness of the processor's own steps, for
machines whose console library gives a context if there is a framebuffer;
non-maskable interrupts may come at most as often as `Interrupts` allows and are
never assumed.

## 6. Proofs

Eight modules of theorems. Each states its component's inductive invariant, which
TLC checked on the run's instance (those of `Acpi` with `IsSeq` read as "its domain is
1 to its length", as TLC cannot build the set of all kinds of steps), and derives the properties
of the runs from it for every value of the constants the assumptions allow.

| module | theorem | property it establishes |
|---|---|---|
| `PmmProofs` | `Typed`, `Exclusively`, `Conservation`, `BitmapPlaced` | `TypeOK`, `HeldExclusively`, `Conserved`, `BitmapInsideUsable` |
| | `Implementation` | `ImplementsFrameAllocator` |
| `VmmProofs` | `VmmTyped`, `TreeAlways`, `MappedAsAsked` | `VmmTypeOK`, `TablesFormTree`, `KernelGetsWhatWasAsked` |
| | `BooksKept` | the PMM's invariants under the VMM's steps |
| | `AddressSpaceKept` | `ImplementsAddressSpace` |
| `BootProofs` | `LiveStaysLive`, `CodeNeverWritten`, `DirectMapComplete` | `LiveNeverFree`, `NoWritableAlias`, `DirectMapReaches` |
| | `SegmentsStayProtected`, `DevicesStayUncached` | `SegmentsProtected`, `DevicesCachedAsAsked` |
| | `TranslationsStay` | `NoStaleTranslation` |
| | `ManagersInOrder` | the managers' invariants under `main`'s steps |
| | `BootKeepsAddressSpace` | `ImplementsAddressSpace`, of `main` |
| `InterruptEntryProofs` | `Typed`, `Declared`, `Compiled`, `Resumed` | `TypeOK`, `FrameAsDeclared`, `CallAsCompiled`, `Resumes` |
| `SerialProofs` | `Typed`, `ServiceMatched`, `EoiMatched` | `TypeOK`, `InServiceMatches`, `EoiMatches` |
| | `KeepsUp`, `NeverEmpty` | `TransmitterKeepsUp`, `NeverReadsEmpty` |
| `StartupProofs` | `NeverFaults`, `KeepsProtection` | `NoOtherFault`, `ProtectionKept` |
| | `Loads` | the safety half of `StartupFinishes`: `EndsLoaded` |
| `AcpiProofs` | `FaultsExplained` | the part `FaultsOnlyAtNull` of `StopsForAReason` |
| | `Inductive` | the invariant itself: where `main` is in the tables |
| `AcpiPinsProofs` | `NoneStray`, `Routes`, `NmisHeeded`, `Reasonable` | `NoStrayVector`, `IsaPinsRouted`, `NmisAsFirmwareSays`, `StopsForAReason` |
| | `PinsInductive` | the invariant itself: pins, lines and 8259s |

**Pmm.** For every page size, byte size, stack size, set of memory maps and set of
request sizes that satisfy `PmmAssumption`: sizes are natural numbers and memory
maps keep the Limine protocol's promises (`WellFormed`): usable and loader entries
are aligned and overlap nothing, the stack lies in loader memory. Nothing is
assumed of the order of entries, of their number, or of other types. The inductive
invariant `IInv` adds two facts to the four invariants: `NothingHeldAtBoot`, and
`Sized`, that the bitmap has a bit for every page of the map and begins at a page.
`Sized` is needed because `pmm_mark_pages` marks what it is told: only a map that
fits the bitmap makes it mark every page asked for (`MapInRange`). The argument
runs through three lemmas: `Location` (distinct pages have distinct bits, by
division with remainder), `MarkEffect` (marking changes the pages named and no
other) and `UsableApart` (usable memory is disjoint from what `pmm_reclaim` adds, so
both instalments keep `Conserved`). Each operation has one lemma that says what it
does to free and held pages (`InitStep`, `Granted`, `Returned`, `Reclaimed`), used
both for the invariant and for the refinement.

**Vmm.** For every number of slots of a table, every content uncleared memory may
have and every set of requests. `VmmAssumption` says that the frames of `mem` hold
all memory the PMM may grant, that what is in a slot is an entry, and that a table
is a page; `RequestAssumption`, that requests are of natural addresses and sizes and
known flags, inside the address space `ENTRIES` slots on four levels span.
The inductive invariant `VInv` has five parts:

* `Books`, the PMM's invariant without the type of `panic`: a VMM panic leaves the
  books as they are;
* `Typing`;
* `Walking`: the table the call in progress stands at is the one the processor's own
  walk of the address leads to;
* `Planted`: the tables form a tree, in frames granted one by one and to nobody
  else, and directory entries all give the rights to write and to execute and none to
  user mode, so for the kernel the leaf alone decides;
* the mapping promised so far is the mapping the processor sees.

A step of `vmm_ensure_present` either finds the entry or plants a table of empty
slots in a frame of its own (`TreeGrows`, `SeenGrown`: no address is translated
differently for it). Setting a leaf changes one address and no other, because
different pages part at some level of the tree and never meet again (`WalksMeet`,
with `IndexIs` and `DigitsFix`: an address is determined by its four indices). Hence
the refinement: every step but the last of a page is a stutter of `AddressSpace`, the
last is its `Map`; a panic is one too.

**Boot.** For every hand-over: any memory map, program headers, register windows and
requests of the console. `BInv` is `VInv`, which carries over because every step of
`main` is a step of a manager or clears frames nobody holds, and `Progress`: for some
`k` and `c` the first `k` of all requests are made, the last of them up to its byte
`c`, `todo` is what is left of them, and the tables hold exactly that (`Exposed`): a
page translates if and only if a request covers it (`InUse`), and then as the latest
of these asked (`LastAsked`, `Explains`). The requests are a function of the hand-over, so
the invariants become questions about them and no longer about tables. What is
loaded with CR3 are all requests of `vmm_init`; the register windows that follow are
new pages, and that is why no translation changes (`TranslationsStay`). For a page of
the direct map, the request that wins is that of an entry of its type, as no
memory of another use shares the frame; for a page of the kernel it is that of its
segment, or of PT_GNU_RELRO, which is mapped last. Code has no second
address, because the direct map leaves the image out and segments share no frame.
`LiveStaysLive` needs no requests: the books keep bitmap, tables, kernel and
stack out of what is free.

`BootAssumption` names what the loader, the linker script and the hardware promise:

* `LaidOut`: the direct map ends below the kernel and the kernel before the end of the
  address space; base addresses begin pages. Both are the Limine protocol's: the
  kernel is in the topmost 2 GiB.
* `UsedOnce`: a frame of memory that is handed out, of a frame buffer or of the kernel
  image belongs to no other entry that gets mapped, and the registers of the two
  controllers lie outside mapped memory and the image. Limine promises the
  first for usable and loader memory only (it is part of `PmmAssumption` there);
  for the others it is what a sane machine has, and
  `DevicesCachedAsAsked` would fail without it: whichever entry comes later decides.
* `LinkedApart`: `linker.ld` begins a page for every PT_LOAD (its `ALIGN`s and
  `DATA_SEGMENT_ALIGN`), PT_GNU_RELRO has no right but to be read (`FLAGS(4)`) and
  covers data, and all are in the image.

A segment need not begin or end at a page, nor a register window, and nothing is said of
how many there are or in which order. TLC evaluates the assumption for each hand-over
of run `boot`.

**InterruptEntry.** For every set of vectors from 0 to 255 and every set of initial stack
pointers that leave room for one frame. Program and stack are known for every
position in the stub (`Program`, `Depth`): `IInv` says that the words below the
interrupted stack pointer are those `Pushed` lists, as deep as `Depth` says for
the position, and that every register the C code may not have destroyed yet
(`Lost`) still holds the interrupted value. Pushes and pops
each have a lemma (`PushIs`, `PopIs`) from which every instruction's follows, and
`Resumes` is the invariant at the position after `iretq`.

**Serial.** For every FIFO size, trigger level, list of what `main` prints, input and
number of spurious interrupts. The assumption asks for a FIFO of at least two bytes
that is no smaller than the trigger level (the 16550's have 16 and 14).
Two are needed: with one, the poll of `main` and that of a handler could each owe
a byte. `IInv` has six parts: types; `Stacked`, which activations lie on which and
which steps each may have left; `Served`, what is in service is what a handler on
the stack has yet to end; `SetUp`, what can interrupt `main` before the port is set
up; `Transmitting`, bytes in the transmitter and bytes owed to it by activations that
have seen it empty are at most two; `Receiving`, from its edge to the read that
answers it an interrupt keeps its cause, so the line stays up.

**Startup.** For every processor, hand-over, address of the TSS and of the stubs; the
assumption is that the loader sets no bit of CR4 the processor reserves, and
the model's scale of eight address bits. The invariant
says where `main` is, which its list of steps left tells (`Place`, `Left`), and
from that which bits, table entries, segments and writer are in place (`Protected`,
`Loaded`, `Writing`). Handlers change none of it and, as the stack of activations
says, none runs before `load_idt` is through. `CutAndJoined` is the lemma that addresses cut
into descriptor fields are put together again by the processor.

**Acpi.** For every machine: any number of tables in any order, any records in them,
any sums, number of pins and mode of the local APIC. The assumption is that the mode
is one of the three there are, that tables and records are sequences and that the
length of a record leads to the next. `IInv` says where `main` is by the steps it has
left (`Placed`): between two tables, in the MADT parser while the local APIC is
enabled, before a record or in the handler of one. At each place
`IOAPIC_BASE` is set exactly when a record already read describes an I/O APIC
(`Seen`), all tables up to it add up (`Checked`), and only such writes are left
before the next record as are legal in the local APIC's mode (`Mode`) and, if they
go to the I/O APIC, have a pointer or a reason in the tables to have none (`Writes`).
A handler puts its writes in front of what is left, however many pins there are:
`Onto` says just that of a list of steps, and one lemma takes a step off it
(`OntoStep`).
Trying to prove `FaultsOnlyAtNull` showed one of its two reasons: where no table lists
an I/O APIC, `serial_init` unmasks its pin through the null pointer (ioapic.c:62).

**Acpi, pins and lines.** For every machine that keeps to `MachineAssumption`, with any
number of pins, tables and records. `PInv` has `NoStrayVector` and, while the machine
runs, `Parts`. These read what is left to do as a set of steps (`Steps`), since it matters
what is still to come and never when:

* `Planned`: which steps may be left at all. With interrupts enabled these are the two
  drivers and writes they ask for (`Asked`); before, no write to a pin
  but one that masks it or makes it an NMI source's (`Quiet`).
* `Silent` and `Cleared`: no pin delivers but one a driver asked for, and once the I/O
  APIC is known every pin but the last has been masked and sent to the boot processor, or
  the write is to come.
* `Sourced`, `Routed`, `Nmis`: a record that has been read for the last time
  (`HasRead`: no step leads to it any more) has its effect, or the write for it is to come (`Towards`).
  The overrides have therefore all been read when a driver looks at them, in whatever order the
  tables are listed.
* `Legacy`: what is known of the 8042.
* `Local`: registers of the local APIC are set or to be set, and a record's line is never followed by
  the write that masks it.
* `Legacies`: the chips have got as many of their ten bytes as are not left (`IcwsLeft`, `ChipAt`).

A step takes one element from the set and adds those it calls (`Moved`); for each part one lemma says that it
stays unless the step is of the few kinds that concern it (`Kept`, `Returned`), so the proof of an
operation is about what that operation does. `AcpiProofs`' invariant is
used for the order: nothing is written between `lapic_init_begin` and the first record
but the local APIC's own registers, and interrupts are enabled after the last table.

`MachineAssumption` names what firmware and loader keep to:

* `HandedOver`: pins that deliver a vector are masked (Limine does), x2APIC mode is on
  only where the processor has it, and the boot processor's number is 0 (section 7: lapic.c:98 takes it for granted).
* `OneOfEach`: one MADT and one FADT, as ACPI has it, though either may be listed twice.
* `OverridesApart`: an interrupt is overridden once and to a pin there is, and the
  keyboard, the mouse and the serial port have different pins. The code keeps one entry
  per interrupt, and a shared pin would have the vector of the driver that came last.
* `NmisApart`: an NMI source has a pin of its own that is none of these three, and what is said
  of a line of the local APIC is said once or the same again; otherwise the later record wins.

`DevicesAssumption` says that the mouse's interrupt is one of the ISA bus's. Nothing is
assumed of other interrupts' pins, of flags, of the order of anything, or of whether there
is an I/O APIC, an MADT or an FADT at all: the drivers stop the machine when no I/O APIC has
been found, and without an FADT an 8042 is taken to be there.

TLC evaluates all these assumptions in the runs of the modules. In `Vmm`, `Boot`,
`Serial`, `Startup` and `Acpi` they were added for the proofs and restrict no run.

Model-checked only: `Ps2` (`RepliesMatch`, `DevicesReady`), whose invariant would have to
speak of controller, both devices and every step of `ps2_init` at once and is not stated
yet; `Kprint` (recursive operators, beyond the prover); all liveness and what rests on
ENABLED, beyond it too.

## 7. Findings

* `pmm_failure`: an allocation of two pages or more that finds no room panics
  with "page ... out of range" (mm.c:49); the message "Could not find %lu
  contiguous pages" (mm.c:113) is reached only by requests for one page.
* `serial_input`: a byte typed before `serial_init`, or a burst above the
  trigger level, silences serial input for good (serial.c:38, serial.h:8).
* `ps2_late`: `send_command` (ps2.c:29) reads the data port at once, without the
  wait that `poll_reply` has, so a controller that takes its time is given up
  with "PS/2 self test failed".
* `acpi_sixteen`: ioapic.c:96 takes the number of the last pin for the number of pins:
  an I/O APIC with exactly sixteen is refused with "I/O APIC has too few pins to cover
  all ISA IRQs" (ioapic.c:97).

Other places where code and comments part, which passing properties state as the
code has it or leave out by a stated condition:

* `vmm_ensure_present` gives no directory entry the user right (mm.c:210), so a page
  mapped with `M_U` (mm.h:14, and mm.c:267 in the leaf) is out of user mode's reach.
  Nothing in the repository passes `M_U` yet; `KernelGetsWhatWasAsked` and
  `DirectMapReaches` say that user mode reaches nothing, and run `vmm` has such requests.
* The local APIC's registers are mapped with the caching mode of normal memory
  (lapic.c:82), against the comment at mm.c:229 (`DevicesCachedAsAsked` speaks of
  the devices that ask for a mode).
* print_unsigned prints sixteen digits (common.c:25), so decimal numbers of 17 to 20
  lose their leading ones, though kprint is declared printf-like (common.h:15) and its
  buffer has room for twenty (common.c:7). `PrintsWhatFits` speaks of shorter ones.
* `serial_early_init` enables the receive interrupt (serial.c:25), against
  serial.h:5; `InputIsRead` depends on it.
* For the reason of `acpi_sixteen` the last pin of any I/O APIC is never masked
  (`NoStrayVector`, `IsaPinsRouted`).
* `lapic_init_begin` masks six of the seven entries of the local vector table; CMCI,
  which lapic.c:12 has a number for, stays as firmware left it (`NmisAsFirmwareSays`).
* `main` does not look at what `flanterm_fb_init` returned (main.c:93): without a
  context the next print is a page fault, whose handler prints too (`NoOtherFault`).
* lapic.c:98 ("BSP or ALL_CPUS") compares an ACPI processor number with 0, but the
  boot processor's number is firmware's choice (machines of run `acpi` have 0).
* lapic.c and ioapic.c decide polarity differently, and an NMI source said to be
  active high or edge-triggered is programmed as active low or level
  (`NmisAsFirmwareSays` leaves it out).
* ps2.c:53 "Disable IRQs and translation" leaves the mouse's interrupt on if
  firmware had it on; `DevicesReady` shows that it does no harm in the end.
* A byte typed during `ps2_init` can be taken for the result of a self test
  (ps2.c:75) or be left in the output buffer when the pins are unmasked (ps2.c:126),
  after which no input is read; `Ps2`'s properties speak of a quiet user (`early`).
* Hexadecimal letters are capital under %x (common.c:31), where printf has small ones;
  the model has one letter for each digit.

## 8. Plan

1. (done) `Pmm` with `FrameAllocator`, `Vmm` with `AddressSpace`, `Boot`,
   `InterruptEntry`; proofs about `Pmm`.
2. (done) `Interrupts` and `Serial`.
3. (done) `Apic` and `Acpi`: every pin when interrupts are enabled.
4. (done) `Ps2` against a controller and devices that answer late.
5. (done) `Startup` and `Kprint`.
6. (done) Proofs about `Vmm` with its refinement, `Boot`, `InterruptEntry`, `Serial`,
   `Startup` and `Acpi`.
7. Proofs about `Ps2`, `RepliesMatch` first.

## 9. Not modelled

* Limine and flanterm: not part of the repository. They appear as the state the
  loader hands over and as memory the console library takes; whether
  `flanterm_write` bears being entered again by a handler that prints
  (main.c:55) cannot be told from here.
* What `dump_interrupt_frame` prints, and the case of letters in numbers.
* The build (`Makefile`, `compile_flags.txt`); `linker.ld` only as the segments
  `Boot` maps.
* Records with an `irq_source` above 15 or a length of 0, more than one
  processor, and APIC IDs other than 0 for the one there is.
* A level-triggered ISA interrupt is programmed in `Acpi`, but `Interrupts` delivers
  edges only.
