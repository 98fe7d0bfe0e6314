------------------------------ MODULE MCAcpi ------------------------------
(***************************************************************************)
(* Machines for Acpi: all orders of four records, every mode firmware may  *)
(* leave the local APIC in, tables that are broken in one way each.        *)
(***************************************************************************)
EXTENDS Acpi, TLC

Cpu == [type |-> 0, length |-> 1]
IoApic == [type |-> 1, length |-> 1, global_system_interrupt_base |-> 0]
Override(irq, gsi, polarity, trigger) ==
  [type |-> 2, length |-> 1, bus_source |-> 0, irq_source |-> irq,
   global_system_interrupt |-> gsi, polarity |-> polarity, trigger |-> trigger]
NmiSource(gsi, polarity) ==
  [type |-> 3, length |-> 1, global_system_interrupt |-> gsi, polarity |-> polarity, trigger |-> 0]
LocalNmi(processor, lint, polarity) ==
  [type |-> 4, length |-> 1, processor_id |-> processor, lint |-> lint,
   polarity |-> polarity, trigger |-> 1]

Permute(seq) == {[i \in DOMAIN seq |-> seq[p[i]]] : p \in Permutations(DOMAIN seq)}

Madt(records) == [signature |-> "APIC", sum |-> 256, pcat_compat |-> TRUE, records |-> records]
Fadt(reduced, i8042) ==
  [signature |-> "FACP", sum |-> 0, hw_reduced |-> reduced, boot_arch_8042 |-> i8042]
Other == [signature |-> "HPET", sum |-> 512]

Rsdp(revision) ==
  [revision |-> revision, sum |-> 256, xsdp |-> [sum |-> 0], root |-> [sum |-> 0]]

Machine(tables) ==
  [rsdp |-> Rsdp(2), tables |-> tables, x2apic |-> TRUE, apic_base |-> {"EN"},
   lvt |-> {8, 9, 10}, spiv |-> {8}, low |-> Entry(0, {8, 9, 10}), pins |-> 18,
   i8042 |-> "sound", mouse |-> TRUE, bsp |-> 0]

Usual == <<Cpu, IoApic, Override(0, 2, 0, 0), LocalNmi(255, 1, 1)>>

\* The keyboard on the last pin, the serial port on a level-triggered one.
Orders ==
  LET records == <<IoApic, Override(4, 16, 3, 3), NmiSource(5, 3), LocalNmi(0, 1, 3)>>
  IN  {Machine(<<Madt(r \o <<Override(1, 17, 1, 1), LocalNmi(1, 0, 0)>>), Fadt(FALSE, TRUE)>>) :
         r \in Permute(records)}

\* What firmware may leave of the local APIC: disabled, xAPIC, x2APIC.
Modes ==
  UNION {{[m EXCEPT !.x2apic = TRUE, !.apic_base = {}, !.lvt = {16}, !.spiv = {}],
          [m EXCEPT !.x2apic = TRUE, !.apic_base = {"EN", "EXTD"}],
          [m EXCEPT !.x2apic = FALSE, !.apic_base = {}, !.lvt = {16}, !.spiv = {}],
          [m EXCEPT !.x2apic = FALSE, !.low = Entry(9, {16})]} : m \in Orders}

\* Any order of tables, any flags, with and without a mouse, old descriptors.
Tables ==
  UNION {{Machine(<<Madt(Usual), Other, fadt>>), Machine(<<fadt, Madt(Usual)>>),
          [Machine(<<fadt, Madt(Usual)>>) EXCEPT !.mouse = FALSE, !.rsdp.revision = 0]} :
         fadt \in {Fadt(a, b) : a, b \in BOOLEAN}}
  \cup {Machine(<<[Madt(Usual) EXCEPT !.pcat_compat = FALSE]>>)}

Broken ==
  LET good == Machine(<<Madt(Usual), Other, Fadt(FALSE, TRUE)>>)
      with(records) == Machine(<<Madt(records)>>)
  IN  {[good EXCEPT !.rsdp.sum = 257], [good EXCEPT !.rsdp.xsdp.sum = 1],
       [good EXCEPT !.rsdp.root.sum = 255], [good EXCEPT !.tables[1].sum = 1],
       [good EXCEPT !.tables[2].sum = 100], [good EXCEPT !.tables[3].sum = 300],
       [good EXCEPT !.pins = 15], [good EXCEPT !.pins = 16],
       [good EXCEPT !.i8042 = "fails self test"], [good EXCEPT !.i8042 = "port faulty"],
       [good EXCEPT !.i8042 = "port faulty", !.tables[3] = Fadt(TRUE, FALSE)],
       with(Usual \o <<IoApic>>), Machine(<<Madt(Usual), Madt(Usual)>>),
       with(<<[IoApic EXCEPT !.global_system_interrupt_base = 24]>>),
       with(<<[Override(9, 9, 3, 3) EXCEPT !.bus_source = 1]>>),
       with(Usual \o <<[type |-> 5, length |-> 1]>>), with(<<Cpu>>)}

MCFirmware == Orders \cup Modes \cup Tables \cup Broken
=============================================================================
