-------------------------------- MODULE Acpi --------------------------------
(***************************************************************************)
(* main from acpi_parse_rsdp on (src/src/main.c:113), as far as it         *)
(* programs the interrupt controllers: the tables of src/src/drivers/acpi  *)
(* in whatever order firmware lists them and their records, then the ISA   *)
(* interrupts the drivers let through.                                     *)
(*                                                                         *)
(* A table is a record with the sum of its bytes and what the code reads   *)
(* of it.                                                                  *)
(***************************************************************************)
EXTENDS Apic

CONSTANT Firmware   \* the machines, as firmware and loader leave them

\* The local APIC is in a mode it can be in; tables and records are listed in a
\* sequence, in which the length of a record leads to the next: a record whose length
\* is 0 is left out.
ASSUME FirmwareAssumption ==
  \A f \in Firmware :
    /\ f.apic_base \in {{}, {"EN"}, {"EN", "EXTD"}} /\ f.x2apic \in BOOLEAN
    /\ f.pins \in Nat /\ f.i8042 \in {"sound", "fails self test", "port faulty"}
    /\ f.tables \in Seq({f.tables[i] : i \in DOMAIN f.tables})
    /\ \A i \in DOMAIN f.tables : f.tables[i].signature = "APIC" =>
         /\ f.tables[i].records \in
              Seq({f.tables[i].records[j] : j \in DOMAIN f.tables[i].records})
         /\ \A j \in DOMAIN f.tables[i].records : f.tables[i].records[j].length = 1

IRQ_KB == 1
IRQ_COM1 == 4
IRQ_MOUSE == 12

ASSUME DevicesAssumption == IRQ_MOUSE < ISA

-----------------------------------------------------------------------------
(* What the tables say, whatever the order they say it in.                 *)

InAnyOrder(seq) == {seq[i] : i \in DOMAIN seq}

MadtsOf(f) == {table \in InAnyOrder(f.tables) : table.signature = "APIC"}
FadtsOf(f) == {table \in InAnyOrder(f.tables) : table.signature = "FACP"}
RecordsOf(f, type) ==
  {r \in UNION {InAnyOrder(table.records) : table \in MadtsOf(f)} : r.type = type}

\* The flags of a record's line, at the bits where both APICs have them.
LineFlags(r) == (IF Low(r) THEN {13} ELSE {}) \cup (IF Level(r) THEN {15} ELSE {})

\* The pin of an ISA interrupt and the lower half of its entry.
PinIn(f, irq) ==
  LET over == {r \in RecordsOf(f, 2) : r.irq_source = irq}
  IN  IF over = {} THEN irq ELSE (CHOOSE r \in over : TRUE).global_system_interrupt
EntryIn(f, irq) ==
  LET over == {r \in RecordsOf(f, 2) : r.irq_source = irq}
  IN  Entry(irq + 48, IF over = {} THEN {} ELSE LineFlags(CHOOSE r \in over : TRUE))

-----------------------------------------------------------------------------
(* What firmware and the loader keep to.                                   *)

\* The loader masks pins that deliver a vector; a processor in x2APIC mode has it;
\* the boot processor has the number that lapic.c:98 takes for it.
HandedOver(f) ==
  /\ f.low.flags \cap {8, 9, 10, 16} # {}
  /\ "EXTD" \in f.apic_base => f.x2apic
  /\ f.bsp = 0

\* One MADT and one FADT, however often they are listed.
OneOfEach(f) ==
  /\ \A t, u \in MadtsOf(f) : t = u
  /\ \A t, u \in FadtsOf(f) : t = u

\* An interrupt is overridden once, to a pin there is, and no two drivers' share one.
OverridesApart(f) ==
  /\ \A r \in RecordsOf(f, 2) :
       /\ r.global_system_interrupt \in 0 .. f.pins - 1
       /\ \A s \in RecordsOf(f, 2) : s.irq_source = r.irq_source => s = r
  /\ \A irq, other \in {IRQ_KB, IRQ_COM1, IRQ_MOUSE} :
       irq # other => PinIn(f, irq) # PinIn(f, other)

\* A source of non-maskable interrupts has a pin of its own; what is said of a line
\* of the boot processor's local APIC is said of it once, or the same again.
NmisApart(f) ==
  /\ \A r \in RecordsOf(f, 3) :
       /\ r.global_system_interrupt \in 0 .. f.pins - 1
       /\ \A irq \in {IRQ_KB, IRQ_COM1, IRQ_MOUSE} : r.global_system_interrupt # PinIn(f, irq)
       /\ \A s \in RecordsOf(f, 3) :
            s.global_system_interrupt = r.global_system_interrupt => s = r
  /\ \A r, s \in {r \in RecordsOf(f, 4) : r.processor_id \in {f.bsp, 255}} :
       (r.lint = 0 <=> s.lint = 0) => r.polarity = s.polarity /\ r.trigger = s.trigger

ASSUME MachineAssumption ==
  \A f \in Firmware : HandedOver(f) /\ OneOfEach(f) /\ OverridesApart(f) /\ NmisApart(f)

-----------------------------------------------------------------------------
(* main and what it acts on.                                               *)

VARIABLES
  firmware,         \* the machine at hand
  has_i8042,
  iflag             \* interrupts are enabled

acpiVars == <<apicVars, firmware, has_i8042, iflag>>

-----------------------------------------------------------------------------
(* Tables.                                                                 *)

\* Mutant: nothing is checked.
validate_Not(table) == TRUE

\* The bytes of a table add up to 0 in eight bits.
validate(table) == table.sum % 256 = 0

step(op, record) == [op |-> op, record |-> record]

\* Both tables of tables; a revision above 0 has both descriptors.
acpi_parse_rsdp ==
  /\ At("acpi_parse_rsdp")
  /\ LET rsdp == firmware.rsdp
         bad == {table \in {rsdp, rsdp.root} \cup (IF rsdp.revision > 0 THEN {rsdp.xsdp} ELSE {}) :
                   ~validate(table)}
     IN  \/ bad # {} /\ Panic("Invalid SDT")
         \/ bad = {} /\ Call([i \in DOMAIN firmware.tables |->
                                step("parse_sdt", firmware.tables[i])])
  /\ UNCHANGED <<lapicVars, pic, ioapicVars, firmware, has_i8042, iflag>>

parse_sdt ==
  /\ At("parse_sdt")
  /\ LET table == Step.record
     IN  \/ ~validate(table) /\ Panic("Invalid SDT")
         \/ /\ validate(table)
            /\ Call(CASE table.signature = "APIC" -> <<step("acpi_parse_madt", table)>>
                      [] table.signature = "FACP" -> <<step("acpi_parse_fadt", table)>>
                      [] OTHER -> <<>>)
  /\ UNCHANGED <<lapicVars, pic, ioapicVars, firmware, has_i8042, iflag>>

acpi_parse_fadt ==
  /\ At("acpi_parse_fadt")
  /\ has_i8042' = (Step.record.boot_arch_8042 \/ (~Step.record.hw_reduced /\ has_i8042))
  /\ Return
  /\ UNCHANGED <<lapicVars, pic, ioapicVars, firmware, iflag>>

acpi_parse_madt ==
  /\ At("acpi_parse_madt")
  /\ Call(<<[op |-> "lapic_init_begin"]>>
          \o (IF Step.record.pcat_compat THEN legacy_pic_init_and_disable(32, 40) ELSE <<>>)
          \o <<[op |-> "madt_record", table |-> Step.record, i |-> 1]>>)
  /\ UNCHANGED <<lapicVars, pic, ioapicVars, firmware, has_i8042, iflag>>

\* Mutant: the loop does not advance.
NextRecord_Same(i, record) == i

\* The record at the loop's position is as long as it says, in records.
NextRecord(i, record) == i + record.length

\* One turn of the loop over the records.
madt_record ==
  /\ At("madt_record")
  /\ LET records == Step.table.records
         record == records[Step.i]
         next == <<[Step EXCEPT !.i = NextRecord(Step.i, record)]>>
     IN  \/ Step.i > Len(records) /\ Return
         \/ /\ Step.i <= Len(records) /\ record.type = 0
            /\ Call(next)
         \/ /\ Step.i <= Len(records) /\ record.type = 1
            /\ Call(<<step("ioapic_init_register", record)>> \o next)
         \/ /\ Step.i <= Len(records) /\ record.type = 2
            /\ Call(<<step("ioapic_init_source_override", record)>> \o next)
         \/ /\ Step.i <= Len(records) /\ record.type = 3
            /\ Call(<<step("ioapic_init_nmisource", record)>> \o next)
         \/ /\ Step.i <= Len(records) /\ record.type = 4
            /\ Call(<<step("lapic_init_nmi", record)>> \o next)
         \/ /\ Step.i <= Len(records) /\ record.type \notin 0 .. 4
            /\ Panic("Unknown MADT struct")
  /\ UNCHANGED <<lapicVars, pic, ioapicVars, firmware, has_i8042, iflag>>

-----------------------------------------------------------------------------
(* main.                                                                   *)

enable_interrupts ==
  /\ At("enable_interrupts") /\ iflag' = TRUE /\ Return
  /\ UNCHANGED <<lapicVars, pic, ioapicVars, firmware, has_i8042>>

\* The pin of the serial port; the port itself is Serial's.
serial_init ==
  /\ At("serial_init")
  /\ Call(ioapic_enable_isa_interrupt(IRQ_COM1))
  /\ UNCHANGED <<lapicVars, pic, ioapicVars, firmware, has_i8042, iflag>>

\* What main does if there is a controller: nothing more when its self test fails,
\* else, unless a port is faulty, the pins of the keyboard and of the mouse if there
\* is one.  The dialogue with the controller is Ps2's.
ps2_init ==
  /\ At("ps2_init")
  /\ \/ (has_i8042 => firmware.i8042 = "fails self test") /\ Return
     \/ has_i8042 /\ firmware.i8042 = "port faulty" /\ Panic("PS/2 port faulty")
     \/ /\ has_i8042 /\ firmware.i8042 = "sound"
        /\ Call(ioapic_enable_isa_interrupt(IRQ_KB)
                \o (IF firmware.mouse THEN ioapic_enable_isa_interrupt(IRQ_MOUSE) ELSE <<>>))
  /\ UNCHANGED <<lapicVars, pic, ioapicVars, firmware, has_i8042, iflag>>

Apics ==
  /\ \/ lapic_init_begin(firmware.x2apic) \/ do_wrmsr_base \/ do_lapic_write \/ lapic_init_nmi
     \/ pic_command \/ pic_data
     \/ do_ioapic_write32 \/ ioapic_init_register
     \/ ioapic_init_nmisource \/ ioapic_init_source_override
  /\ UNCHANGED <<firmware, has_i8042, iflag>>

main == <<"acpi_parse_rsdp", "enable_interrupts", "serial_init", "ps2_init">>

\* The loader masks every pin that delivers a fixed vector and all lines of both
\* 8259s; what else firmware programmed stays (external).
Init ==
  /\ firmware \in Firmware
  /\ todo = [i \in DOMAIN main |-> [op |-> main[i]]] /\ panic = ""
  /\ apic_base = firmware.apic_base /\ HAS_X2APIC = FALSE
  /\ lapic = [reg \in Lvts \cup {"SPIV"} |-> IF reg \in Lvts THEN firmware.lvt ELSE firmware.spiv]
  /\ pic = [chip \in Chips |-> [expects |-> "OCW1", base |-> 8, cascade |-> 0, mask |-> 255]]
  /\ IOAPIC_BASE = FALSE
  /\ redir = [pin \in 0 .. firmware.pins - 1 |-> [low |-> firmware.low, destination |-> 1]]
  /\ ISA_REDIRECTION_ENTRY = [irq \in 0 .. ISA - 1 |->
       [destination |-> irq, is_active_low |-> FALSE, is_level_triggered |-> FALSE]]
  /\ has_i8042 = TRUE /\ iflag = FALSE

Next ==
  \/ acpi_parse_rsdp \/ parse_sdt \/ acpi_parse_fadt \/ acpi_parse_madt \/ madt_record
  \/ enable_interrupts \/ serial_init \/ ps2_init
  \/ Apics

Spec == Init /\ [][Next]_acpiVars

\* The processor goes on; nothing here waits.
FairSpec == Spec /\ WF_acpiVars(Next)

-----------------------------------------------------------------------------
(* What the tables of the machine at hand say.                             *)

Madts == MadtsOf(firmware)
Fadts == FadtsOf(firmware)
Records(type) == RecordsOf(firmware, type)

PinOf(irq) == PinIn(firmware, irq)
EntryOf(irq) == EntryIn(firmware, irq)

\* An 8042 is there unless firmware says that the machine has no legacy hardware
\* and does not list one all the same.
Has8042 == \A table \in Fadts : table.boot_arch_8042 \/ ~table.hw_reduced
Ps2Works == Has8042 /\ firmware.i8042 = "sound"
Wanted ==
  {IRQ_COM1} \cup (IF Ps2Works THEN {IRQ_KB} ELSE {})
             \cup (IF Ps2Works /\ firmware.mouse THEN {IRQ_MOUSE} ELSE {})

\* Entries that deliver a vector, those of the NMI and ExtINT kind aside.
Delivers(pin) == redir[pin].low.flags \cap {8, 9, 10, 16} = {}

Done == panic = "" /\ todo = <<>>

-----------------------------------------------------------------------------
(* Properties.                                                             *)

\* At every instant, between the two halves of an entry included, a pin that
\* delivers a vector is the pin of an interrupt a driver asked for, has its vector,
\* polarity and trigger mode, and goes to the boot processor: interrupt_handler
\* panics on any other vector.  The destination of the last pin is not spoken of,
\* since ioapic_init_register leaves that pin as it was.  A legacy chip with an
\* unmasked line, as ICW1 leaves it, has the vectors of exceptions replaced first;
\* when interrupts are enabled all its lines are masked, and what it may still
\* deliver by accident are vectors interrupt_handler has cases for.
NoStrayVector ==
  /\ \A pin \in Pins : Delivers(pin) =>
       /\ \E irq \in Wanted : pin = PinOf(irq) /\ redir[pin].low = EntryOf(irq)
       /\ pin # LastPin => redir[pin].destination = 0
  /\ \A chip \in Chips : pic[chip].expects = "OCW1" => pic[chip].mask = 255 \/ pic[chip].base >= 32
  /\ (iflag /\ \E table \in Madts : table.pcat_compat) =>
       \A chip \in Chips :
         pic[chip] = [expects |-> "OCW1", base |-> IF chip = "PIC1" THEN 32 ELSE 40,
                      cascade |-> IF chip = "PIC1" THEN 4 ELSE 2, mask |-> 255]

\* When main has passed ps2_init, exactly the pins of the serial port and of the
\* PS/2 devices the machine has deliver, of the latter none if the controller failed
\* its self test, each as the tables say, whatever the order of tables and records;
\* apart from NMI sources and the last pin all others are masked, also those firmware
\* had used for the legacy chips.
IsaPinsRouted ==
  Done => /\ {pin \in Pins : Delivers(pin)} = {PinOf(irq) : irq \in Wanted}
          /\ \A irq \in Wanted :
               redir[PinOf(irq)] = [low |-> EntryOf(irq), destination |-> 0]
          /\ \A pin \in Pins \ {LastPin} :
               \/ 16 \in redir[pin].low.flags
               \/ \E irq \in Wanted : pin = PinOf(irq)
               \/ \E r \in Records(3) : pin = r.global_system_interrupt

\* Non-maskable interrupts come through exactly the lines the tables name for the
\* boot processor, with their polarity, and every other line of the local APIC that
\* lapic_init_begin masks stays masked.  It does not mask the CMCI entry, which stays
\* as firmware left it: it may go on delivering what firmware wanted of it.  Left out:
\* an NMI source whose flags say "active high" or "edge", and the trigger mode of a
\* line of the local APIC, which an NMI does not have.
NmisAsFirmwareSays ==
  Done =>
    LET mine == {r \in Records(4) : r.processor_id \in {firmware.bsp, 255}}
        lines == {reg \in {"LINT0", "LINT1"} :
                    \E r \in mine : reg = (IF r.lint = 0 THEN "LINT0" ELSE "LINT1")}
    IN  /\ \A r \in Records(3) : {r.polarity, r.trigger} \subseteq {0, 3} =>
             redir[r.global_system_interrupt] =
               [low |-> Entry(0, {10} \cup LineFlags(r)), destination |-> 0]
        /\ \A r \in mine :
             lapic[IF r.lint = 0 THEN "LINT0" ELSE "LINT1"] \cap {8, 9, 10, 13, 16} =
               {10} \cup (LineFlags(r) \cap {13})
        /\ \A reg \in Lvts \ (lines \cup {"CMCI"}) : 16 \in lapic[reg]
        /\ lapic["CMCI"] = firmware.lvt

\* Of every table there is; XSDP fields count only where there are any.
Sums ==
  {firmware.rsdp.sum, firmware.rsdp.root.sum}
  \cup (IF firmware.rsdp.revision > 0 THEN {firmware.rsdp.xsdp.sum} ELSE {})
  \cup {table.sum : table \in InAnyOrder(firmware.tables)}

\* No write faults in x2APIC mode or on the way into it, whatever mode firmware left
\* the local APIC in; and the one fault there is comes of the pointer to the I/O APIC,
\* which nothing checks: it is null, and main writes through it, only on a machine
\* that lists no I/O APIC or an NMI source before it.
FaultsOnlyAtNull ==
  /\ panic # "#GP"
  /\ panic = "#PF" =>
       \/ Records(1) = {}
       \/ \E table \in Madts : \E i \in DOMAIN table.records :
            table.records[i].type = 3 /\ \A j \in 1 .. i : table.records[j].type # 1

\* A message the machine stops with is true of its tables or of its PS/2 controller;
\* whether the one about too few pins is, TooFewPinsIsTrue asks.  Conversely main does
\* not enable interrupts on the word of a table that does not add up, and goes on with
\* no I/O APIC that has fewer pins than there are ISA interrupts; and a fault is one
\* that FaultsOnlyAtNull explains.
StopsForAReason ==
  /\ FaultsOnlyAtNull
  /\ panic = "Invalid SDT" => \E sum \in Sums : sum % 256 # 0
  /\ iflag => \A sum \in Sums : sum % 256 = 0
  /\ panic = "" /\ IOAPIC_BASE => ISA <= firmware.pins
  /\ panic = "Multiple I/O APICs not supported" =>
       \/ Cardinality({i \in DOMAIN firmware.tables : firmware.tables[i] \in Madts}) > 1
       \/ \E table \in Madts :
            Cardinality({i \in DOMAIN table.records : table.records[i].type = 1}) > 1
  /\ panic = "Remapping the entire I/O APIC is not supported" =>
       \E r \in Records(1) : r.global_system_interrupt_base # 0
  /\ panic = "Unknown MADT Bus" => \E r \in Records(2) : r.bus_source # 0
  /\ panic = "Unknown MADT struct" =>
       \E table \in Madts : \E i \in DOMAIN table.records : table.records[i].type \notin 0 .. 4
  /\ panic = "PS/2 port faulty" => Has8042 /\ firmware.i8042 = "port faulty"

\* The message of ioapic.c:97 read as it is written: a machine that stops with it has
\* fewer pins than there are ISA interrupts.  Not so: the version register gives the
\* number of the last pin, and sixteen pins are refused (run acpi_sixteen).
TooFewPinsIsTrue ==
  panic = "I/O APIC has too few pins to cover all ISA IRQs" => firmware.pins < ISA

\* The parsers come to an end on every list of records, and main gets past them or
\* stops with a message.  The length of a record leads to the next one by assumption:
\* at a length of 0, which madt.c:20 does not check, the loop would not end.
AcpiFinishes == <>(Done \/ panic # "")
=============================================================================
