-------------------------------- MODULE Apic --------------------------------
(***************************************************************************)
(* The interrupt controllers as the boot programs them: the local APIC     *)
(* (src/src/drivers/pic/lapic.c), the I/O APIC (ioapic.c) and the two      *)
(* legacy 8259s (8259.c).  Every step is one write the hardware sees.      *)
(*                                                                         *)
(* The one thread of execution is a list of steps left to do, todo; a      *)
(* function that is called puts its own steps in front.  A register is the *)
(* set of its bits that are 1.                                             *)
(***************************************************************************)
EXTENDS Integers, Sequences, FiniteSets

CONSTANT ISA       \* number of ISA interrupts: 16

ASSUME IsaAssumption == ISA \in Nat \ {0}

VARIABLES
  todo,                    \* steps left to do, each a record with an op
  panic,                   \* why the machine stopped, "" while it runs
  apic_base,               \* IA32_APIC_BASE: which of EN and EXTD are set
  HAS_X2APIC,
  lapic,                   \* registers of the local APIC
  pic,                     \* the two 8259s
  IOAPIC_BASE,             \* the pointer is set
  redir,                   \* redirection table of the I/O APIC, by pin
  ISA_REDIRECTION_ENTRY

lapicVars == <<apic_base, HAS_X2APIC, lapic>>
ioapicVars == <<IOAPIC_BASE, redir, ISA_REDIRECTION_ENTRY>>
apicVars == <<todo, panic, lapicVars, pic, ioapicVars>>

-----------------------------------------------------------------------------
(* Control.                                                                *)

At(op) == panic = "" /\ todo # <<>> /\ Head(todo).op = op
Step == Head(todo)

Call(body) == todo' = body \o Tail(todo) /\ UNCHANGED panic
Return == Call(<<>>)
Panic(why) == panic' = why /\ UNCHANGED todo

-----------------------------------------------------------------------------
(* Local APIC.                                                             *)

Lvts == {"CMCI", "TIMER", "THERM", "PERFC", "LINT0", "LINT1", "ERROR"}

LAPIC_LVT_DELIVERY_NMI == {10}
LAPIC_LVT_POLARITY == {13}
LAPIC_LVT_TRIGGER == {5}
LAPIC_LVT_MASK == {16}

\* Mutant: the spurious vector is set and the local APIC not enabled.
LAPIC_SPIV_ENABLE_Forgotten == {}

LAPIC_SPIV_ENABLE == {8}
SpuriousVector == 0 .. 7

wrmsr_base(value) == [op |-> "wrmsr_base", value |-> value]
lapic_write(reg, value) == [op |-> "lapic_write", reg |-> reg, value |-> value]

\* Mutant: x2APIC mode is entered in one write, from whatever mode there is.
ApicBaseWrites_AtOnce(x2apic) ==
  LET base == {"EN"} \cup (IF x2apic THEN {"EXTD"} ELSE {})
  IN  IF apic_base # base THEN <<wrmsr_base(base)>> ELSE <<>>

\* The APIC enabled, then in x2APIC mode if the processor has it.
ApicBaseWrites(x2apic) ==
  LET enabled == apic_base \cup {"EN"}
      extended == enabled \cup {"EXTD"}
  IN  (IF "EN" \notin apic_base THEN <<wrmsr_base(enabled)>> ELSE <<>>)
      \o (IF x2apic /\ "EXTD" \notin apic_base THEN <<wrmsr_base(extended)>> ELSE <<>>)

\* The argument is what CPUID says.  Mapping the registers of an xAPIC is Boot's.  The
\* CMCI entry has a number in the source and is not among those masked.
lapic_init_begin(x2apic) ==
  /\ At("lapic_init_begin")
  /\ HAS_X2APIC' = x2apic
  /\ LET mask(reg) == lapic_write(reg, LAPIC_LVT_MASK)
     IN  Call(ApicBaseWrites(x2apic)
              \o <<mask("TIMER"), mask("THERM"), mask("PERFC"),
                   mask("LINT0"), mask("LINT1"), mask("ERROR"),
                   lapic_write("SPIV", LAPIC_SPIV_ENABLE \cup SpuriousVector)>>)
  /\ UNCHANGED <<apic_base, lapic, pic, ioapicVars>>

\* Mode changes the processor allows (external): x2APIC mode is entered from xAPIC
\* mode and left only by disabling the APIC; any other write faults.
ModeChange == { <<{}, {"EN"}>>, <<{"EN"}, {}>>, <<{"EN"}, {"EN", "EXTD"}>>,
                <<{"EN", "EXTD"}, {}>> }

do_wrmsr_base ==
  /\ At("wrmsr_base")
  /\ IF <<apic_base, Step.value>> \in ModeChange
     THEN apic_base' = Step.value /\ Return
     ELSE Panic("#GP") /\ UNCHANGED apic_base
  /\ UNCHANGED <<HAS_X2APIC, lapic, pic, ioapicVars>>

\* A register as the local APIC keeps it (external): while software has not enabled
\* it, every entry of the vector table stays masked.
Written(reg, value) ==
  IF reg \in Lvts /\ 8 \notin lapic["SPIV"]
  THEN value \cup LAPIC_LVT_MASK ELSE value

\* Through an MSR or through memory: the first faults outside x2APIC mode, the
\* second reaches nothing in it.
do_lapic_write ==
  /\ At("lapic_write")
  /\ IF HAS_X2APIC /\ "EXTD" \notin apic_base
     THEN Panic("#GP") /\ UNCHANGED lapic
     ELSE /\ lapic' = IF apic_base = {"EN"} \/ HAS_X2APIC
                      THEN [lapic EXCEPT ![Step.reg] = Written(Step.reg, Step.value)]
                      ELSE lapic
          /\ Return
  /\ UNCHANGED <<apic_base, HAS_X2APIC, pic, ioapicVars>>

\* The fields of a record's flags.
Low(record) == record.polarity = 3
Level(record) == record.trigger = 3

lapic_init_nmi ==
  /\ At("lapic_init_nmi")
  /\ LET r == Step.record
         lvt == LAPIC_LVT_DELIVERY_NMI
                \cup (IF Low(r) THEN LAPIC_LVT_POLARITY ELSE {})
                \cup (IF Level(r) THEN LAPIC_LVT_TRIGGER ELSE {})
     IN  Call(IF r.processor_id \in {0, 255}
              THEN <<lapic_write(IF r.lint # 0 THEN "LINT1" ELSE "LINT0", lvt)>>
              ELSE <<>>)
  /\ UNCHANGED <<lapicVars, pic, ioapicVars>>

-----------------------------------------------------------------------------
(* 8259.                                                                   *)

Chips == {"PIC1", "PIC2"}
command(chip, value) == [op |-> "pic_command", chip |-> chip, value |-> value]
data(chip, value) == [op |-> "pic_data", chip |-> chip, value |-> value]

\* Mutant: ICW3 before ICW2.
legacy_pic_init_and_disable_Swapped(master, slave) ==
  <<command("PIC1", {4, 0}), command("PIC2", {4, 0}),
    data("PIC1", 4), data("PIC2", 2),
    data("PIC1", master), data("PIC2", slave),
    data("PIC1", 1), data("PIC2", 1),
    data("PIC1", 255), data("PIC2", 255)>>

\* The offsets, the cascade, 8086 mode, and all lines masked.
legacy_pic_init_and_disable(master, slave) ==
  <<command("PIC1", {4, 0}), command("PIC2", {4, 0}),
    data("PIC1", master), data("PIC2", slave),
    data("PIC1", 4), data("PIC2", 2),
    data("PIC1", 1), data("PIC2", 1),
    data("PIC1", 255), data("PIC2", 255)>>

\* What a chip takes the next byte at its data port for (external): an ICW1 with
\* bits 4 and 0 starts a sequence and clears the mask; OCW1 sets it.
pic_command ==
  /\ At("pic_command") /\ {4, 0} \subseteq Step.value
  /\ pic' = [pic EXCEPT ![Step.chip].expects = "ICW2", ![Step.chip].mask = 0]
  /\ Return
  /\ UNCHANGED <<lapicVars, ioapicVars>>

pic_data ==
  /\ At("pic_data")
  /\ LET chip == pic[Step.chip]
         new == CASE chip.expects = "ICW2" ->
                       [chip EXCEPT !.expects = "ICW3", !.base = Step.value - (Step.value % 8)]
                  [] chip.expects = "ICW3" ->
                       [chip EXCEPT !.expects = "ICW4", !.cascade = Step.value]
                  [] chip.expects = "ICW4" -> [chip EXCEPT !.expects = "OCW1"]
                  [] chip.expects = "OCW1" -> [chip EXCEPT !.mask = Step.value]
     IN  pic' = [pic EXCEPT ![Step.chip] = new]
  /\ Return
  /\ UNCHANGED <<lapicVars, ioapicVars>>

-----------------------------------------------------------------------------
(* I/O APIC.                                                               *)

Pins == DOMAIN redir
LastPin == Cardinality(Pins) - 1

IDT_IDX_ISA_BASE == 48

IOAPIC_REDIR_TBL_ADDR(n) == 16 + 2 * n
IOAPIC_REDIR_TBL_POLARITY == {13}
IOAPIC_REDIR_TBL_TRIGGER == {15}

\* Mutant: a digit of the shift is lost.
IOAPIC_REDIR_TBL_MASKED_Bit6 == {6}

IOAPIC_REDIR_TBL_MASKED == {16}
IOAPIC_REDIR_TBL_DELIVERY_NMI == {10}

ioapic_write32(reg, value) == [op |-> "ioapic_write32", reg |-> reg, value |-> value]

\* The lower half, then the upper half, which is 0 in all values written: it names
\* the local APIC the interrupt goes to.
ioapic_write64(reg, value) ==
  <<ioapic_write32(reg, value), ioapic_write32(reg + 1, 0)>>

\* Lower half of a redirection entry: a vector and the bits above it.
Entry(vector, flags) == [vector |-> vector, flags |-> flags]

\* The register is selected and written; at a null pointer the write faults.
do_ioapic_write32 ==
  /\ At("ioapic_write32")
  /\ \/ ~IOAPIC_BASE /\ Panic("#PF") /\ UNCHANGED redir
     \/ /\ IOAPIC_BASE
        /\ LET pin == (Step.reg - 16) \div 2
           IN  redir' = IF pin \notin Pins THEN redir
                        ELSE IF Step.reg % 2 = 0 THEN [redir EXCEPT ![pin].low = Step.value]
                        ELSE [redir EXCEPT ![pin].destination = Step.value]
        /\ Return
  /\ UNCHANGED <<lapicVars, pic, IOAPIC_BASE, ISA_REDIRECTION_ENTRY>>

ioapic_disable_interrupt(pin) ==
  ioapic_write64(IOAPIC_REDIR_TBL_ADDR(pin), Entry(0, IOAPIC_REDIR_TBL_MASKED))

\* Mutant: the loop starts at pin 1.
DisableSteps_FromOne(count) ==
  [i \in 1 .. 2 * (count - 1) |-> ioapic_disable_interrupt((i + 1) \div 2)[1 + ((i - 1) % 2)]]

\* ioapic_disable_interrupt for every pin below count.
DisableSteps(count) ==
  [i \in 1 .. 2 * count |-> ioapic_disable_interrupt((i - 1) \div 2)[1 + ((i - 1) % 2)]]

\* The version register gives the number of the last pin for num_ioapic_entries.
ioapic_init_register ==
  /\ At("ioapic_init_register")
  /\ \/ /\ IOAPIC_BASE
        /\ Panic("Multiple I/O APICs not supported") /\ UNCHANGED IOAPIC_BASE
     \/ /\ ~IOAPIC_BASE /\ Step.record.global_system_interrupt_base # 0
        /\ Panic("Remapping the entire I/O APIC is not supported")
        /\ UNCHANGED IOAPIC_BASE
     \/ /\ ~IOAPIC_BASE /\ Step.record.global_system_interrupt_base = 0
        /\ IOAPIC_BASE' = TRUE
        /\ LET num_ioapic_entries == LastPin
           IN  IF num_ioapic_entries < ISA
               THEN Panic("I/O APIC has too few pins to cover all ISA IRQs")
               ELSE Call(DisableSteps(num_ioapic_entries))
  /\ UNCHANGED <<lapicVars, pic, redir, ISA_REDIRECTION_ENTRY>>

\* Any polarity and any trigger mode but "conforming" set the bit.
ioapic_init_nmisource ==
  /\ At("ioapic_init_nmisource")
  /\ LET r == Step.record
         flags == IOAPIC_REDIR_TBL_DELIVERY_NMI
                  \cup (IF r.polarity # 0 THEN IOAPIC_REDIR_TBL_POLARITY ELSE {})
                  \cup (IF r.trigger # 0 THEN IOAPIC_REDIR_TBL_TRIGGER ELSE {})
     IN  Call(ioapic_write64(IOAPIC_REDIR_TBL_ADDR(r.global_system_interrupt), Entry(0, flags)))
  /\ UNCHANGED <<lapicVars, pic, ioapicVars>>

ioapic_init_source_override ==
  /\ At("ioapic_init_source_override")
  /\ LET r == Step.record
     IN  \/ /\ r.bus_source # 0
            /\ Panic("Unknown MADT Bus") /\ UNCHANGED ISA_REDIRECTION_ENTRY
         \/ /\ r.bus_source = 0
            /\ ISA_REDIRECTION_ENTRY' = [ISA_REDIRECTION_ENTRY EXCEPT ![r.irq_source] =
                 [destination |-> r.global_system_interrupt,
                  is_active_low |-> Low(r), is_level_triggered |-> Level(r)]]
            /\ Return
  /\ UNCHANGED <<lapicVars, pic, IOAPIC_BASE, redir>>

\* Mutant: the pin has the number of the interrupt, whatever firmware says.
ioapic_enable_isa_interrupt_Identity(irq) ==
  LET e == ISA_REDIRECTION_ENTRY[irq]
      flags == (IF e.is_active_low THEN IOAPIC_REDIR_TBL_POLARITY ELSE {})
               \cup (IF e.is_level_triggered THEN IOAPIC_REDIR_TBL_TRIGGER ELSE {})
  IN  ioapic_write64(IOAPIC_REDIR_TBL_ADDR(irq), Entry(irq + IDT_IDX_ISA_BASE, flags))

ioapic_enable_isa_interrupt(irq) ==
  LET e == ISA_REDIRECTION_ENTRY[irq]
      flags == (IF e.is_active_low THEN IOAPIC_REDIR_TBL_POLARITY ELSE {})
               \cup (IF e.is_level_triggered THEN IOAPIC_REDIR_TBL_TRIGGER ELSE {})
  IN  ioapic_write64(IOAPIC_REDIR_TBL_ADDR(e.destination),
                     Entry(irq + IDT_IDX_ISA_BASE, flags))
=============================================================================
