------------------------------ MODULE Startup -------------------------------
(***************************************************************************)
(* main from its first instruction to its last as far as it sets up the    *)
(* processor: control registers (src/src/security.c, fp_init of main.c),   *)
(* descriptor tables (gdt.c, gdt.s, load_idt of interrupt.c) and the       *)
(* writer behind kprint (common.c).  A non-maskable interrupt may come     *)
(* between any two steps from load_idt on.                                 *)
(*                                                                         *)
(* Eight bits of an address are one here: the fields of descriptors, of    *)
(* 24, 8 and 32 bits and of 16 and 48 bits, are 3, 1 and 4 and 2 and 6.    *)
(* A control register is the set of its bits that are 1.                   *)
(***************************************************************************)
EXTENDS Interrupts, FiniteSets

CONSTANT Machines     \* processors and hand-overs

VARIABLES
  machine,
  fault,              \* the exception a step of the kernel caused, "" if none
  HAS_SMAP,
  cr0, cr4,
  gdtr, GDT,          \* table in use; the kernel's own
  cs, ss, tr,         \* segment selectors of main; base and limit of the task register
  idtr,
  saved,              \* flush_gdt: the words on the stack, top first
  g_writer,
  flanterm_context    \* the context exists

segmentVars == <<gdtr, GDT, cs, ss, tr, saved>>
writerVars == <<g_writer, flanterm_context>>
crVars == <<HAS_SMAP, cr0, cr4>>
startupVars == <<interruptVars, machine, fault, crVars, segmentVars, idtr, writerVars>>

-----------------------------------------------------------------------------
(* The processor (external).                                               *)

\* Bits of CR4 that a processor without the feature reserves.
FeatureBit == [SMAP |-> 21, SMEP |-> 20, UMIP |-> 11]
CR4_OSXMMEXCPT == 10
CR4_OSFXSR == 9

\* The loader leaves no bit of CR4 set that the processor reserves; an address has
\* eight bits.  The console library makes a context of the framebuffer, or gives up and
\* returns none.
ASSUME StartupAssumption ==
  \A m \in Machines :
    /\ m.features \subseteq DOMAIN FeatureBit
    /\ \A f \in DOMAIN FeatureBit : FeatureBit[f] \in m.cr4 => f \in m.features
    /\ m.framebuffer \in BOOLEAN /\ m.context \in BOOLEAN /\ m.rsdp \in BOOLEAN
    /\ m.tss \in 0 .. 255 /\ m.stub \in 0 .. 255

Reserved(bits) == \E f \in DOMAIN FeatureBit : FeatureBit[f] \in bits /\ f \notin machine.features

NullDescriptor == [kind |-> "null"]
CodeSegment(long) == [kind |-> "segment", p |-> 1, e |-> 1, rw |-> 1, l |-> long, db |-> 1 - long]
DataSegment == [kind |-> "segment", p |-> 1, e |-> 0, rw |-> 1, l |-> 0, db |-> 1]

\* Limine's table: 16-bit, 32-bit and 64-bit segments, code before data.
LoaderGDT == [i \in 0 .. 6 |->
  CASE i = 0 -> NullDescriptor [] i = 5 -> CodeSegment(1)
    [] i \in {1, 3} -> CodeSegment(0) [] OTHER -> DataSegment]

InUse == IF gdtr = "kernel" THEN GDT ELSE LoaderGDT

\* A selector that CS can be loaded with in 64-bit mode.
Executable(selector) ==
  LET index == selector \div 8
  IN  /\ index \in DOMAIN InUse /\ InUse[index].kind = "segment"
      /\ InUse[index].p = 1 /\ InUse[index].e = 1 /\ InUse[index].l = 1 /\ InUse[index].db = 0

\* A selector that a data segment register can be loaded with in ring 0.
Loadable(selector) ==
  \/ selector \div 8 = 0
  \/ LET index == selector \div 8
     IN  index \in DOMAIN InUse /\ InUse[index].kind = "segment" /\ InUse[index].p = 1
           /\ (InUse[index].e = 0 => InUse[index].rw = 1)

\* The next step of main or of a handler is done, or faults.
Does(ok, exception) ==
  /\ fault' = IF ok THEN "" ELSE exception
  /\ Continue(Done(Top))
  /\ UNCHANGED <<iflag, apicVars, machine>>

-----------------------------------------------------------------------------
(* Control registers.                                                      *)

\* What cpuid says.
Supported == machine.features

security_init ==
  /\ At("security_init")
  /\ HAS_SMAP' = ("SMAP" \in Supported)
  /\ cr4' = cr4 \cup {FeatureBit[f] : f \in Supported}
  /\ Does(~Reserved(cr4'), "#GP")
  /\ UNCHANGED <<cr0, segmentVars, idtr, writerVars>>

\* clac is an instruction only where there is SMAP.
ClacFaults == HAS_SMAP /\ "SMAP" \notin machine.features

enforce_smap ==
  /\ At("enforce_smap")
  /\ Does(~ClacFaults, "#UD")
  /\ UNCHANGED <<crVars, segmentVars, idtr, writerVars>>

CR0_MP == 1
CR0_EM == 2
CR0_TS == 3
CR0_NE == 5

\* Mutant: CR4 is set to the new bits alone.
NewCr4_Only == {CR4_OSXMMEXCPT, CR4_OSFXSR}

NewCr4 == cr4 \cup {CR4_OSXMMEXCPT, CR4_OSFXSR}

fp_init ==
  /\ At("fp_init")
  /\ cr0' = (cr0 \ {CR0_EM}) \cup {CR0_NE, CR0_TS, CR0_MP}
  /\ cr4' = NewCr4
  /\ Does(~Reserved(cr4'), "#GP")
  /\ UNCHANGED <<HAS_SMAP, segmentVars, idtr, writerVars>>

-----------------------------------------------------------------------------
(* Descriptor tables.                                                      *)

MAKE_DESCRIPTOR(index) == index * 8
GDT_IDX_NULL == 0
GDT_IDX_CODE64 == 1
GDT_IDX_TSS == 3

Code64 == CodeSegment(1)

\* DT_SYS_TYPE_TSS64_AVAIL
TssType == 9

\* The table as the source initializes it: the base of the TSS is not known there.
StaticGDT ==
  [i \in 0 .. 4 |->
     CASE i = GDT_IDX_NULL -> NullDescriptor
       [] i = GDT_IDX_CODE64 -> Code64
       [] i = 2 -> DataSegment
       [] i = GDT_IDX_TSS -> [kind |-> "low", p |-> 1, type |-> TssType,
                              base_low |-> 0, base_high |-> 0]
       [] i = GDT_IDX_TSS + 1 -> [kind |-> "high", base_veryhigh |-> 0]]

\* Mutant: the second part is shifted by one bit too many.
BaseHigh_Shifted(address) == (address \div 16) % 2

\* Bits 24 to 31 of an address.
BaseHigh(address) == (address \div 8) % 2

lgdt ==
  /\ At("lgdt")
  /\ GDT' = [GDT EXCEPT ![GDT_IDX_TSS].base_low = machine.tss % 8,
                        ![GDT_IDX_TSS].base_high = BaseHigh(machine.tss),
                        ![GDT_IDX_TSS + 1].base_veryhigh = (machine.tss \div 16) % 16]
  /\ gdtr' = "kernel"
  /\ Does(TRUE, "")
  /\ UNCHANGED <<crVars, cs, ss, tr, saved, idtr, writerVars>>

\* lldt with the null selector, then ltr, which wants an available TSS in two
\* entries and makes it busy.
ltr ==
  /\ At("ltr")
  /\ LET index == GDT_IDX_TSS
         ok == /\ {index, index + 1} \subseteq DOMAIN InUse
               /\ InUse[index].kind = "low" /\ InUse[index].type = 9 /\ InUse[index].p = 1
     IN  /\ Does(ok, "#GP")
         /\ IF ok THEN /\ GDT' = [GDT EXCEPT ![index].type = 11]
                       /\ tr' = GDT[index].base_low + 8 * GDT[index].base_high
                                + 16 * GDT[index + 1].base_veryhigh
                  ELSE UNCHANGED <<GDT, tr>>
  /\ UNCHANGED <<crVars, gdtr, cs, ss, saved, idtr, writerVars>>

\* flush_gdt: the data segments, ss with them; then the return address is popped and
\* pushed again on top of the new cs.
flush_segments ==
  /\ At("flush_segments")
  /\ ss' = MAKE_DESCRIPTOR(GDT_IDX_NULL)
  /\ saved' = <<"return_address">>
  /\ Does(Loadable(ss'), "#GP")
  /\ UNCHANGED <<crVars, gdtr, GDT, cs, tr, idtr, writerVars>>

FarFrame(address, selector) == <<address, selector>>

flush_push ==
  /\ At("flush_push")
  /\ saved' = FarFrame(Head(saved), MAKE_DESCRIPTOR(GDT_IDX_CODE64))
  /\ Does(TRUE, "")
  /\ UNCHANGED <<crVars, gdtr, GDT, cs, ss, tr, idtr, writerVars>>

\* The return address on top, and below it a selector for cs.
flush_lretq ==
  /\ At("flush_lretq")
  /\ LET ok == /\ saved[1] = "return_address"
               /\ Executable(MAKE_DESCRIPTOR(GDT_IDX_CODE64))
     IN  /\ Does(ok, "#GP")
         /\ IF ok THEN cs' = saved[2] /\ saved' = <<>> ELSE UNCHANGED <<cs, saved>>
  /\ UNCHANGED <<crVars, gdtr, GDT, ss, tr, idtr, writerVars>>

\* A gate: the selector of GDT_IDX_CODE64 and a stub's address in two parts.
Gate ==
  [selector |-> MAKE_DESCRIPTOR(GDT_IDX_CODE64), p |-> 1,
   offset_low |-> machine.stub % 4, offset_high |-> (machine.stub \div 4) % 64]

lidt ==
  /\ At("lidt")
  /\ idtr' = "kernel"
  /\ Does(TRUE, "")
  /\ UNCHANGED <<crVars, segmentVars, writerVars>>

-----------------------------------------------------------------------------
(* The writer.                                                             *)

FlantermSteps == <<"flanterm_fb_init", "kprint_configure_flanterm">>

kprint_configure ==
  \E writer \in {"serial", "flanterm"} :
    /\ At(IF writer = "serial" THEN "kprint_configure_serial" ELSE "kprint_configure_flanterm")
    /\ g_writer' = writer
    /\ Does(TRUE, "")
    /\ UNCHANGED <<crVars, segmentVars, idtr, flanterm_context>>

\* What the library returns is not looked at.
flanterm_fb_init ==
  /\ At("flanterm_fb_init")
  /\ flanterm_context' = machine.context
  /\ Does(TRUE, "")
  /\ UNCHANGED <<crVars, segmentVars, idtr, g_writer>>

\* Through a null pointer, or into the console library without a context.
kprint ==
  /\ At("kprint")
  /\ Does(g_writer # "null" /\ (g_writer = "flanterm" => flanterm_context), "#PF")
  /\ UNCHANGED <<crVars, segmentVars, idtr, writerVars>>

framebuffer ==
  /\ At("framebuffer")
  /\ Continue([Top EXCEPT !.left = (IF machine.framebuffer THEN FlantermSteps ELSE <<>>) \o Tail(@)])
  /\ UNCHANGED <<iflag, apicVars, machine, fault, crVars, segmentVars, idtr, writerVars>>

\* No RSDP response: panic.
rsdp ==
  /\ At("rsdp")
  /\ Continue([Top EXCEPT !.left = (IF machine.rsdp THEN <<>> ELSE <<"kprint", "panic">>) \o Tail(@)])
  /\ UNCHANGED <<iflag, apicVars, machine, fault, crVars, segmentVars, idtr, writerVars>>

-----------------------------------------------------------------------------
(* Interrupts.                                                             *)

\* The processor finds a gate, puts the address of a stub together and a segment of
\* code to run it in; interrupt_handler begins with enforce_smap.
Enters ==
  /\ Gate.p = 1 /\ Executable(Gate.selector)
  /\ Gate.offset_low + 4 * Gate.offset_high = machine.stub
  /\ ~ClacFaults

UnchangedHere == UNCHANGED <<machine, crVars, segmentVars, idtr, writerVars>>

nmi ==
  /\ idtr = "kernel"
  /\ deliver_nmi
  /\ fault' = IF Enters THEN "" ELSE "#DF"
  /\ UnchangedHere

int3 ==
  /\ breakpoint
  /\ fault' = IF idtr = "kernel" /\ Enters THEN "" ELSE "#DF"
  /\ UnchangedHere

\* The interrupted selectors are loaded again.
return_from_interrupt ==
  /\ iretq
  /\ fault' = IF Executable(cs) /\ Loadable(ss) THEN "" ELSE "#GP"
  /\ UnchangedHere

stop == panic /\ UNCHANGED fault /\ UnchangedHere

-----------------------------------------------------------------------------
(* main.                                                                   *)

\* Mutant: the interrupt table first.
TableSteps_IdtFirst ==
  <<"lidt", "lgdt", "ltr", "flush_segments", "flush_push", "flush_lretq">>

\* load_gdt, load_idt.
TableSteps == <<"lgdt", "ltr", "flush_segments", "flush_push", "flush_lretq", "lidt">>

main ==
  <<"security_init", "enforce_smap", "kprint_configure_serial", "kprint">>
  \o TableSteps
  \o <<"framebuffer", "rsdp", "fp_init", "int3", "kprint", "halt">>

Processor ==
  \/ security_init \/ enforce_smap \/ fp_init
  \/ lgdt \/ ltr \/ flush_segments \/ flush_push \/ flush_lretq \/ lidt
  \/ kprint_configure \/ flanterm_fb_init \/ kprint \/ framebuffer \/ rsdp
  \/ int3 \/ return_from_interrupt \/ stop

\* The loader's hand-over: long mode, its own tables, no features switched on.
Init ==
  /\ InterruptInit(main)
  /\ machine \in Machines
  /\ fault = "" /\ HAS_SMAP = FALSE
  /\ cr0 = machine.cr0 /\ cr4 = machine.cr4
  /\ gdtr = "loader" /\ GDT = StaticGDT /\ idtr = "loader"
  /\ cs = 40 /\ ss = 48 /\ tr = -1 /\ saved = <<>>
  /\ g_writer = "null" /\ flanterm_context = FALSE

\* A fault of its own ends what is spoken of here.
Next == fault = "" /\ (Processor \/ nmi)

Spec == Init /\ [][Next]_startupVars

\* The processor goes on.
FairSpec == Spec /\ WF_startupVars(fault = "" /\ Processor)

-----------------------------------------------------------------------------
(* Properties.                                                             *)

\* Nothing main or a handler does faults, whatever features the processor has and
\* wherever a non-maskable interrupt comes: no reserved bit is set, every selector
\* loaded is good in the table of the moment, the far return finds its two words,
\* the gates lead to the stubs and whoever prints finds a writer that works.  There is
\* one exception: without a context from the console library, which main does not ask
\* for, the first to print from then on follows its null pointer.
NoOtherFault ==
  fault # "" => fault = "#PF" /\ g_writer = "flanterm" /\ ~machine.context

\* From security_init to the end every protection the processor offers is on and
\* nothing the loader had switched on is off; at the end SSE state is known to be
\* saved lazily.
ProtectionKept ==
  /\ (~InMain \/ Head(Top.left) # "security_init") =>
       machine.cr4 \cup {FeatureBit[f] : f \in machine.features} \subseteq cr4
  /\ (InMain /\ At("halt") /\ machine.rsdp) =>
       /\ {CR4_OSFXSR, CR4_OSXMMEXCPT} \subseteq cr4
       /\ CR0_EM \notin cr0 /\ {CR0_TS, CR0_MP, CR0_NE} \cup (machine.cr0 \ {CR0_EM}) \subseteq cr0

\* main gets to its end with the kernel's own segments and tables, and the task
\* register holds the address of the TSS, cut in three and put together again; or it
\* has no RSDP, or a non-maskable interrupt stops the machine, as is reported first.
\* The condition is a console library that makes a context where it is asked for one.
StartupFinishes ==
  (machine.framebuffer => machine.context) =>
  <>(/\ At("halt")
     /\ ~InMain => Top.who = "NMI"
     /\ (InMain /\ machine.rsdp) =>
          cs = 8 /\ ss = 0 /\ tr = machine.tss /\ <<gdtr, idtr>> = <<"kernel", "kernel">>)
=============================================================================
