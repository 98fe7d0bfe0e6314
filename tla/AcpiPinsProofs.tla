--------------------------- MODULE AcpiPinsProofs ---------------------------
(***************************************************************************)
(* Proofs about the pins and lines that Acpi programs, for every machine   *)
(* that keeps to MachineAssumption: any number of tables and records, in   *)
(* any order.                                                              *)
(*                                                                         *)
(* The argument: nothing is decided by where main is but by what is left   *)
(* to do, as a set of steps.  A pin has the entry it should have or the    *)
(* write for it is among them; a record has been read when no step leads   *)
(* to it any more; and no step writes what is not asked for.               *)
(***************************************************************************)
EXTENDS AcpiProofs

-----------------------------------------------------------------------------
(* What is left to do, in whatever order.                                  *)

Steps(t) == {t[n] : n \in DOMAIN t}

\* A table is still to be parsed, op being the parser of its kind.
Awaits(A, table, op) ==
  \/ [op |-> "acpi_parse_rsdp"] \in A
  \/ step("parse_sdt", table) \in A \/ step(op, table) \in A

Loops(table, i) == [op |-> "madt_record", table |-> table, i |-> i]

\* The j-th record of a MADT is.
Unread(A, table, j) ==
  \/ Awaits(A, table, "acpi_parse_madt")
  \/ \E i \in 1 .. j : Loops(table, i) \in A
  \/ step(Handler(table.records[j].type), table.records[j]) \in A

\* The record r has been read, for the last time.
HasRead(f, A, r) ==
  \A table \in MadtsOf(f) : \A j \in DOMAIN table.records :
    table.records[j] = r => ~Unread(A, table, j)

\* What step x is followed by, so that nothing is left out.
Follow(f, x, B) ==
  /\ x = [op |-> "acpi_parse_rsdp"] =>
       \A table \in InAnyOrder(f.tables) : step("parse_sdt", table) \in B
  /\ \A table \in MadtsOf(f) :
       /\ x = step("parse_sdt", table) => step("acpi_parse_madt", table) \in B
       /\ x = step("acpi_parse_madt", table) => Loops(table, 1) \in B
       /\ \A i \in DOMAIN table.records : x = Loops(table, i) =>
            /\ Loops(table, i + 1) \in B
            /\ table.records[i].type \in 1 .. 4 =>
                 step(Handler(table.records[i].type), table.records[i]) \in B
  /\ \A table \in FadtsOf(f) :
       x = step("parse_sdt", table) => step("acpi_parse_fadt", table) \in B

\* One step less, and those it calls.
Moved(A, x, R, B, A2) == A = {x} \cup R /\ A2 = B \cup R

\* The steps of a sequence: put together, one, none, and after the first.
LEMMA StepsCat ==
  ASSUME NEW a, NEW b, IsSeq(a), IsSeq(b)
  PROVE  Steps(a \o b) = Steps(a) \cup Steps(b)
<1> DEFINE s == a \o b
<1>1. /\ IsSeq(s) /\ Len(s) = Len(a) + Len(b) /\ Len(a) \in Nat /\ Len(b) \in Nat
      /\ \A i \in 1 .. Len(a) + Len(b) : s[i] = IF i <= Len(a) THEN a[i] ELSE b[i - Len(a)]
  BY CatIs
<1> HIDE DEF s
<1>2. /\ DOMAIN s = 1 .. Len(a) + Len(b) /\ DOMAIN a = 1 .. Len(a) /\ DOMAIN b = 1 .. Len(b)
  <2>1. PICK S : s \in Seq(S)
    BY <1>1 DEF IsSeq
  <2>2. PICK A : a \in Seq(A)
    BY DEF IsSeq
  <2>3. PICK B : b \in Seq(B)
    BY DEF IsSeq
  <2> QED
    BY <1>1, <2>1, <2>2, <2>3
<1>3. ASSUME NEW i \in DOMAIN s PROVE s[i] \in Steps(a) \cup Steps(b)
  <2>1. i <= Len(a) => i \in DOMAIN a /\ s[i] = a[i]
    BY <1>1, <1>2, <1>3
  <2>2. ~(i <= Len(a)) => i - Len(a) \in DOMAIN b /\ s[i] = b[i - Len(a)]
    BY <1>1, <1>2, <1>3
  <2> QED
    BY <2>1, <2>2 DEF Steps
<1>4. ASSUME NEW i \in DOMAIN a PROVE a[i] \in Steps(s)
  <2>1. i \in DOMAIN s /\ s[i] = a[i]
    BY <1>1, <1>2, <1>4
  <2> QED
    BY <2>1 DEF Steps
<1>5. ASSUME NEW i \in DOMAIN b PROVE b[i] \in Steps(s)
  <2>1. i + Len(a) \in DOMAIN s /\ s[i + Len(a)] = b[i]
    BY <1>1, <1>2, <1>5
  <2> QED
    BY <2>1 DEF Steps
<1>6. Steps(s) = Steps(a) \cup Steps(b)
  BY <1>3, <1>4, <1>5 DEF Steps
<1> QED
  BY <1>6 DEF s

\* One step.
LEMMA StepsOne ==
  ASSUME NEW x
  PROVE  Steps(<<x>>) = {x}
BY DEF Steps

\* None.
LEMMA StepsNone == Steps(<<>>) = {}
BY DEF Steps

\* The first step and those after it.
LEMMA StepsTail ==
  ASSUME NEW t, IsSeq(t), t # <<>>
  PROVE  Steps(t) = {Head(t)} \cup Steps(Tail(t))
<1>1. PICK S : t \in Seq(S)
  BY DEF IsSeq
<1>2. t = <<Head(t)>> \o Tail(t)
  BY <1>1
<1>3. IsSeq(Tail(t))
  BY TailIs
<1>4. PICK o : o = <<Head(t)>>
  OBVIOUS
<1>5. IsSeq(o) /\ Steps(o) = {Head(t)}
  BY <1>4, OneIs, StepsOne
<1> QED
  BY <1>2, <1>3, <1>4, <1>5, StepsCat, Zenon

\* What a call does to what is left.
LEMMA Moves ==
  ASSUME IsSeq(todo), todo # <<>>, NEW body, IsSeq(body), Call(body)
  PROVE  /\ Moved(Steps(todo), Head(todo), Steps(Tail(todo)), Steps(body), Steps(todo'))
         /\ IsSeq(todo') /\ panic' = panic
<1>1. todo' = body \o Tail(todo) /\ panic' = panic
  BY DEF Call
<1>2. IsSeq(Tail(todo)) /\ Steps(todo) = {Head(todo)} \cup Steps(Tail(todo))
  BY TailIs, StepsTail
<1>3. PICK s : s = Tail(todo)
  OBVIOUS
<1>4. Steps(body \o s) = Steps(body) \cup Steps(s) /\ IsSeq(body \o s)
  BY <1>2, <1>3, StepsCat, CatIs
<1> QED
  BY <1>1, <1>2, <1>3, <1>4 DEF Moved

\* What sort of step they are.
LEMMA StepOps ==
  /\ \A op, record : step(op, record).op = op /\ step(op, record).record = record
  /\ \A table, i : /\ Loops(table, i).op = "madt_record" /\ Loops(table, i).table = table
                   /\ Loops(table, i).i = i
  /\ [op |-> "acpi_parse_rsdp"].op = "acpi_parse_rsdp"
BY DEF step, Loops

\* The handlers of records.
LEMMA HandlerOps ==
  \A type \in 1 .. 4 : Handler(type) \in RecordOps
BY DEF Handler, RecordOps

\* A table that is still to be parsed is parsed next or remains to be.
LEMMA AwaitsKept ==
  ASSUME NEW A, NEW x, NEW R, NEW B, NEW A2, Moved(A, x, R, B, A2), NEW f, Follow(f, x, B)
  PROVE  /\ \A table \in MadtsOf(f) : Awaits(A, table, "acpi_parse_madt") =>
              \/ Awaits(A2, table, "acpi_parse_madt")
              \/ x = step("acpi_parse_madt", table)
         /\ \A table \in FadtsOf(f) : Awaits(A, table, "acpi_parse_fadt") =>
              \/ Awaits(A2, table, "acpi_parse_fadt")
              \/ x = step("acpi_parse_fadt", table)
<1>1. /\ MadtsOf(f) \subseteq InAnyOrder(f.tables) /\ FadtsOf(f) \subseteq InAnyOrder(f.tables)
  BY DEF MadtsOf, FadtsOf
<1>2. \A y \in A : y = x \/ y \in A2
  BY DEF Moved
<1>3. \A y \in B : y \in A2
  BY DEF Moved
<1> QED
  BY <1>1, <1>2, <1>3, Zenon DEF Awaits, Follow

\* A record that is still to be read is read next or remains to be.
LEMMA UnreadKept ==
  ASSUME NEW A, NEW x, NEW R, NEW B, NEW A2, Moved(A, x, R, B, A2), NEW f \in Firmware,
         Follow(f, x, B), NEW table \in MadtsOf(f), NEW j \in DOMAIN table.records,
         table.records[j].type \in 1 .. 4, Unread(A, table, j)
  PROVE  \/ Unread(A2, table, j)
         \/ x = step(Handler(table.records[j].type), table.records[j])
<1>1. \A y \in A : y = x \/ y \in A2
  BY DEF Moved
<1>2. \A y \in B : y \in A2
  BY DEF Moved
<1>3. PICK k \in DOMAIN f.tables : table = f.tables[k] /\ IsMadt(f, k)
  BY DEF MadtsOf, InAnyOrder, IsMadt
<1>4. PICK len \in Nat : DOMAIN table.records = 1 .. len
  BY <1>3, TablesAre
<1>5. CASE Awaits(A, table, "acpi_parse_madt")
  <2>1. x = step("acpi_parse_madt", table) => Loops(table, 1) \in A2
    BY <1>2 DEF Follow
  <2>2. 1 \in 1 .. j
    BY <1>4
  <2> QED
    BY <1>5, <2>1, <2>2, AwaitsKept DEF Unread
<1>6. ASSUME NEW i \in 1 .. j, Loops(table, i) \in A
      PROVE  \/ Unread(A2, table, j)
             \/ x = step(Handler(table.records[j].type), table.records[j])
  <2>1. i \in DOMAIN table.records /\ (i # j => i + 1 \in 1 .. j)
    BY <1>4
  <2>2. CASE x = Loops(table, i)
    <3>1. /\ Loops(table, i + 1) \in A2
          /\ table.records[i].type \in 1 .. 4 =>
               step(Handler(table.records[i].type), table.records[i]) \in A2
      BY <1>2, <2>1, <2>2 DEF Follow
    <3> QED
      BY <2>1, <3>1 DEF Unread
  <2>3. CASE x # Loops(table, i)
    BY <1>1, <1>6, <2>3 DEF Unread
  <2> QED
    BY <2>2, <2>3
<1>7. CASE step(Handler(table.records[j].type), table.records[j]) \in A
  BY <1>1, <1>7 DEF Unread
<1> QED
  BY <1>5, <1>6, <1>7 DEF Unread

\* A record is read for the last time when its handler is called.
LEMMA ReadNow ==
  ASSUME NEW A, NEW x, NEW R, NEW B, NEW A2, Moved(A, x, R, B, A2), NEW f \in Firmware,
         Follow(f, x, B), NEW type \in 1 .. 4, NEW r \in RecordsOf(f, type), HasRead(f, A2, r)
  PROVE  HasRead(f, A, r) \/ x = step(Handler(type), r)
<1>1. r.type = type
  BY DEF RecordsOf
<1> SUFFICES ASSUME NEW table \in MadtsOf(f), NEW j \in DOMAIN table.records,
                    table.records[j] = r, Unread(A, table, j)
             PROVE  x = step(Handler(type), r)
  BY DEF HasRead
<1>2. ~Unread(A2, table, j)
  BY DEF HasRead
<1> QED
  BY <1>1, <1>2, UnreadKept

\* A step that is none of those that read tables is followed by nothing they need.
LEMMA FollowOther ==
  ASSUME NEW f, NEW x, NEW B,
         x.op \notin {"acpi_parse_rsdp", "parse_sdt", "acpi_parse_madt", "madt_record"}
  PROVE  Follow(f, x, B)
<1>1. /\ x # [op |-> "acpi_parse_rsdp"]
      /\ \A record : x # step("parse_sdt", record) /\ x # step("acpi_parse_madt", record)
      /\ \A table, i : x # Loops(table, i)
  <2>1. x.op # "acpi_parse_rsdp" /\ x.op # "parse_sdt" /\ x.op # "acpi_parse_madt" /\ x.op # "madt_record"
    OBVIOUS
  <2> QED
    BY <2>1, StepOps
<1> QED
  BY <1>1, Zenon DEF Follow

\* What the agenda leaves.
LEMMA StepsRest ==
  ASSUME NEW f \in Firmware, NEW k \in 0 .. Len(f.tables) + 3
  PROVE  /\ \A x \in Steps(Rest(f, k)) :
              \/ \E table \in InAnyOrder(f.tables) : x = step("parse_sdt", table)
              \/ x \in {[op |-> "enable_interrupts"], [op |-> "serial_init"], [op |-> "ps2_init"]}
         /\ k = Len(f.tables) + 1 =>
              Steps(Rest(f, k)) = {[op |-> "serial_init"], [op |-> "ps2_init"]}
<1>1. PICK len \in Nat : len = Len(f.tables) /\ DOMAIN f.tables = 1 .. len
  BY TablesAre
<1>2. PICK a : a = Agenda(f)
  OBVIOUS
<1>3. /\ IsSeq(a) /\ Len(a) = len + 3
      /\ \A i \in 1 .. len : a[i] = step("parse_sdt", f.tables[i])
      /\ a[len + 1] = [op |-> "enable_interrupts"]
      /\ a[len + 2] = [op |-> "serial_init"]
      /\ a[len + 3] = [op |-> "ps2_init"]
  BY <1>1, <1>2, AgendaIs
<1>4. PICK s : s = SubSeq(a, k + 1, Len(a))
  OBVIOUS
<1>5. s = Rest(f, k)
  BY <1>1, <1>2, <1>3, <1>4 DEF Rest
<1>6. k \in Nat /\ k <= Len(a)
  BY <1>1, <1>3
<1>7. /\ IsSeq(s) /\ Len(s) = len + 3 - k
      /\ \A i \in 1 .. len + 3 - k : s[i] = a[k + i]
  BY <1>3, <1>4, <1>6, EndIs
<1>8. DOMAIN s = 1 .. len + 3 - k
  <2>1. PICK S : s \in Seq(S)
    BY <1>7 DEF IsSeq
  <2> QED
    BY <1>7, <2>1
<1>9. ASSUME NEW n \in DOMAIN s
      PROVE  /\ \/ \E i \in 1 .. len : s[n] = step("parse_sdt", f.tables[i])
                \/ s[n] \in {[op |-> "enable_interrupts"], [op |-> "serial_init"], [op |-> "ps2_init"]}
             /\ k = len + 1 => s[n] \in {[op |-> "serial_init"], [op |-> "ps2_init"]}
  <2>1. k + n \in 1 .. len + 3 /\ s[n] = a[k + n] /\ n >= 1 /\ k \in Nat /\ n \in Nat
    BY <1>1, <1>6, <1>7, <1>8, <1>9
  <2>2. k + n \in 1 .. len \/ k + n = len + 1 \/ k + n = len + 2 \/ k + n = len + 3
    BY <2>1
  <2>3. k = len + 1 => k + n = len + 2 \/ k + n = len + 3
    BY <2>1
  <2>4. k + n = len + 2 => s[n] = [op |-> "serial_init"]
    BY <1>3, <2>1
  <2>5. k + n = len + 3 => s[n] = [op |-> "ps2_init"]
    BY <1>3, <2>1
  <2>6. k + n = len + 1 => s[n] = [op |-> "enable_interrupts"]
    BY <1>3, <2>1
  <2>7. k + n \in 1 .. len => s[n] = step("parse_sdt", f.tables[k + n])
    BY <1>3, <2>1
  <2> QED
    BY <2>2, <2>3, <2>4, <2>5, <2>6, <2>7
<1>10. \A i \in 1 .. len : f.tables[i] \in InAnyOrder(f.tables)
  BY <1>1 DEF InAnyOrder
<1>11. ASSUME k = len + 1
       PROVE  [op |-> "serial_init"] \in Steps(s) /\ [op |-> "ps2_init"] \in Steps(s)
  <2>1. 1 \in DOMAIN s /\ 2 \in DOMAIN s /\ k + 1 = len + 2 /\ k + 2 = len + 3
    BY <1>8, <1>11
  <2>2. s[1] = [op |-> "serial_init"] /\ s[2] = [op |-> "ps2_init"]
    BY <1>3, <1>7, <1>8, <2>1
  <2> QED
    BY <2>1, <2>2 DEF Steps
<1>12. k = len + 1 => Steps(s) = {[op |-> "serial_init"], [op |-> "ps2_init"]}
  <2> SUFFICES ASSUME k = len + 1
               PROVE  Steps(s) = {[op |-> "serial_init"], [op |-> "ps2_init"]}
    OBVIOUS
  <2>1. \A y \in Steps(s) : y \in {[op |-> "serial_init"], [op |-> "ps2_init"]}
    BY <1>9 DEF Steps
  <2> QED
    BY <1>11, <2>1
<1> QED
  BY <1>1, <1>5, <1>9, <1>10, <1>12 DEF Steps

\* What the loop over the records leaves.
LEMMA StepsLoop ==
  ASSUME NEW f \in Firmware, NEW k, IsMadt(f, k), NEW i
  PROVE  /\ Steps(Loop(f, k, i)) = {Loops(f.tables[k], i)} \cup Steps(Rest(f, k))
         /\ \A x \in Steps(Loop(f, k, i)) : x.op \in AgendaOps \cup {"madt_record"}
<1>1. k \in 0 .. Len(f.tables) + 3 /\ IsSeq(Rest(f, k))
  BY LoopIs
<1>2. PICK o, s : o = <<Loops(f.tables[k], i)>> /\ s = Rest(f, k)
  OBVIOUS
<1>3. IsSeq(o) /\ Steps(o) = {Loops(f.tables[k], i)}
  BY <1>2, OneIs, StepsOne
<1>4. Steps(o \o s) = {Loops(f.tables[k], i)} \cup Steps(s)
  BY <1>1, <1>2, <1>3, StepsCat
<1>5. o \o s = Loop(f, k, i)
  BY <1>2 DEF Loop, Loops
<1>6. ASSUME NEW x \in Steps(s) PROVE x.op \in AgendaOps
  <2>1. \/ \E table \in InAnyOrder(f.tables) : x = step("parse_sdt", table)
        \/ x \in {[op |-> "enable_interrupts"], [op |-> "serial_init"], [op |-> "ps2_init"]}
    BY <1>1, <1>2, <1>6, StepsRest
  <2>2. x \in {[op |-> "enable_interrupts"], [op |-> "serial_init"], [op |-> "ps2_init"]}
          => x.op \in {"enable_interrupts", "serial_init", "ps2_init"}
    OBVIOUS
  <2> QED
    BY <2>1, <2>2, StepOps DEF AgendaOps
<1>7. Loops(f.tables[k], i).op = "madt_record"
  BY StepOps
<1>8. Steps(Loop(f, k, i)) = {Loops(f.tables[k], i)} \cup Steps(s)
  BY <1>3, <1>4, <1>5
<1>9. \A x \in {Loops(f.tables[k], i)} \cup Steps(s) : x.op \in AgendaOps \cup {"madt_record"}
  BY <1>6, <1>7
<1> QED
  BY <1>2, <1>8, <1>9, Zenon

-----------------------------------------------------------------------------
(* What the tables ask for.                                                *)

Present(f) == \A table \in FadtsOf(f) : table.boot_arch_8042 \/ ~table.hw_reduced
Works(f) == Present(f) /\ f.i8042 = "sound"
WantedIn(f) ==
  {IRQ_COM1} \cup (IF Works(f) THEN {IRQ_KB} ELSE {})
             \cup (IF Works(f) /\ f.mouse THEN {IRQ_MOUSE} ELSE {})

\* What a driver writes to a pin.
Asked(f, p, v) == \E irq \in WantedIn(f) : p = PinIn(f, irq) /\ v = EntryIn(f, irq)

Masked == Entry(0, {16})
NmiEntry(r) ==
  Entry(0, {10} \cup (IF r.polarity # 0 THEN {13} ELSE {}) \cup (IF r.trigger # 0 THEN {15} ELSE {}))

\* What is written to it while the tables are read.
Quiet(f, p, v) ==
  v = Masked \/ \E r \in RecordsOf(f, 3) : p = r.global_system_interrupt /\ v = NmiEntry(r)

MineOf(f) == {r \in RecordsOf(f, 4) : r.processor_id \in {0, 255}}
LintOf(r) == IF r.lint # 0 THEN "LINT1" ELSE "LINT0"
LvtOf(r) == {10} \cup (IF Low(r) THEN {13} ELSE {}) \cup (IF Level(r) THEN {5} ELSE {})

\* The lines that lapic_init_begin masks.
Lines == Lvts \ {"CMCI"}

LvtOk(f, reg, value) ==
  \/ reg = "SPIV" /\ 8 \in value
  \/ reg \in Lines /\ value = {16}
  \/ \E r \in MineOf(f) : reg = LintOf(r) /\ value = LvtOf(r)

-----------------------------------------------------------------------------
(* What is left to do.                                                     *)

Lower(p, v) == ioapic_write32(IOAPIC_REDIR_TBL_ADDR(p), v)
Upper(p) == ioapic_write32(IOAPIC_REDIR_TBL_ADDR(p) + 1, 0)

Halves(f, late, x) ==
  /\ x.op = "ioapic_write32"
  /\ \E p \in Nat :
       \/ x = Upper(p)
       \/ /\ x = Lower(p, x.value)
          /\ IF late THEN Asked(f, p, x.value) ELSE Quiet(f, p, x.value)

Reads(f, x) ==
  \/ x \in {[op |-> "acpi_parse_rsdp"], [op |-> "enable_interrupts"], [op |-> "lapic_init_begin"]}
  \/ \E table \in InAnyOrder(f.tables) : x = step("parse_sdt", table)
  \/ \E table \in MadtsOf(f) :
       x = step("acpi_parse_madt", table) \/ \E i \in Nat \ {0} : x = Loops(table, i)
  \/ \E table \in FadtsOf(f) : x = step("acpi_parse_fadt", table)
  \/ \E type \in 1 .. 4 : \E r \in RecordsOf(f, type) : x = step(Handler(type), r)

Sets(f, x) ==
  \/ x = wrmsr_base({"EN"})
  \/ x = wrmsr_base({"EN", "EXTD"}) /\ f.x2apic
  \/ x.op = "lapic_write" /\ x = lapic_write(x.reg, x.value) /\ LvtOk(f, x.reg, x.value)
  \/ x.op \in PicOps

Allowed(f, late, x) ==
  \/ x \in {[op |-> "serial_init"], [op |-> "ps2_init"]}
  \/ Halves(f, late, x)
  \/ ~late /\ (Reads(f, x) \/ Sets(f, x))

Planned(f, late, A) ==
  /\ \A x \in A : Allowed(f, late, x)
  /\ ~late => [op |-> "enable_interrupts"] \in A

-----------------------------------------------------------------------------
(* The I/O APIC.                                                           *)

IsTable(f, rd) ==
  rd = [p \in 0 .. f.pins - 1 |-> [low |-> rd[p].low, destination |-> rd[p].destination]]

Delivering(low) == low.flags \cap {8, 9, 10, 16} = {}

Silent(f, late, io, rd) ==
  \A p \in 0 .. f.pins - 1 :
    Delivering(rd[p].low) => late /\ io /\ Asked(f, p, rd[p].low)

Cleared(f, late, io, rd, A) ==
  io => /\ MadtsOf(f) # {} /\ ISA < f.pins
        /\ \A p \in 0 .. f.pins - 2 :
             /\ \/ Quiet(f, p, rd[p].low) \/ (late /\ Asked(f, p, rd[p].low))
                \/ Lower(p, Masked) \in A
             /\ rd[p].destination = 0 \/ (~late /\ Upper(p) \in A)

Default(irq) == [destination |-> irq, is_active_low |-> FALSE, is_level_triggered |-> FALSE]
Overridden(r) ==
  [destination |-> r.global_system_interrupt, is_active_low |-> Low(r), is_level_triggered |-> Level(r)]

Sourced(f, isa, A) ==
  /\ isa = [irq \in 0 .. ISA - 1 |-> isa[irq]]
  /\ \A irq \in 0 .. ISA - 1 :
       \/ isa[irq] = Default(irq)
       \/ \E r \in RecordsOf(f, 2) : r.irq_source = irq /\ isa[irq] = Overridden(r)
  /\ \A r \in RecordsOf(f, 2) :
       HasRead(f, A, r) /\ r.irq_source \in 0 .. ISA - 1 => isa[r.irq_source] = Overridden(r)

\* The entry of pin p becomes v.
Towards(f, io, rd, A, p, v) ==
  /\ io \/ Lower(p, v) \in A
  /\ p \in 0 .. f.pins - 1 =>
       /\ rd[p].low = v \/ Lower(p, v) \in A
       /\ rd[p].destination = 0 \/ Upper(p) \in A

Routed(f, late, io, rd, A) ==
  late =>
    /\ [op |-> "serial_init"] \notin A => Towards(f, io, rd, A, PinIn(f, IRQ_COM1), EntryIn(f, IRQ_COM1))
    /\ [op |-> "ps2_init"] \notin A =>
         \A irq \in WantedIn(f) \ {IRQ_COM1} : Towards(f, io, rd, A, PinIn(f, irq), EntryIn(f, irq))

Nmis(f, io, rd, A) ==
  \A r \in RecordsOf(f, 3) : HasRead(f, A, r) =>
    /\ Towards(f, io, rd, A, r.global_system_interrupt, NmiEntry(r))
    /\ \A x \in A : x.op = "ioapic_write32" /\ x = Lower(r.global_system_interrupt, x.value) =>
         x.value = NmiEntry(r)

Legacy(f, has, A) ==
  /\ has \in BOOLEAN
  /\ has \/ ~Present(f)
  /\ \A table \in FadtsOf(f) : Awaits(A, table, "acpi_parse_fadt") \/ (has <=> Present(f))

-----------------------------------------------------------------------------
(* The local APIC and the 8259s.                                           *)

Settled(f, base, x2, lap, A) ==
  /\ x2 = f.x2apic
  /\ "EN" \in base \/ wrmsr_base({"EN"}) \in A
  /\ 8 \in lap["SPIV"] \/ lapic_write("SPIV", {8} \cup (0 .. 7)) \in A
  /\ \A reg \in Lines : \/ 16 \in lap[reg] \/ lapic_write(reg, {16}) \in A
                        \/ \E r \in MineOf(f) : reg = LintOf(r)

\* Its registers, of which the CMCI entry is as firmware left it.
Shaped(f, lap) == lap = [reg \in Lvts \cup {"SPIV"} |-> lap[reg]] /\ lap["CMCI"] = f.lvt

Local(f, base, x2, lap, A) ==
  /\ "EXTD" \in base => f.x2apic
  /\ Shaped(f, lap)
  /\ \/ \E table \in MadtsOf(f) : Awaits(A, table, "acpi_parse_madt")
     \/ MadtsOf(f) = {} \/ [op |-> "lapic_init_begin"] \in A
     \/ Settled(f, base, x2, lap, A)
  /\ \A r \in MineOf(f) : HasRead(f, A, r) =>
       /\ lap[LintOf(r)] = LvtOf(r) \/ lapic_write(LintOf(r), LvtOf(r)) \in A
       /\ lapic_write(LintOf(r), {16}) \notin A
       /\ 8 \in lap["SPIV"]

Icws == legacy_pic_init_and_disable(32, 40)

\* The chips' part of what is left to do begins after the first n, with the p-th.
IcwsLeft(t, p, n) ==
  /\ n + 10 - p <= Len(t)
  /\ \A m \in 1 .. 10 - p : t[n + m] = Icws[p + m]
  /\ \A j \in 1 .. Len(t) : t[j].op \in PicOps => n < j /\ j <= n + 10 - p
  /\ n = 0 \/ p = 0 \/ p = 10

Offset(chip) == IF chip = "PIC1" THEN 32 ELSE 40
Cascade(chip) == IF chip = "PIC1" THEN 4 ELSE 2

Chip(expects, base, cascade, mask) ==
  [expects |-> expects, base |-> base, cascade |-> cascade, mask |-> mask]
Fresh == Chip("OCW1", 8, 0, 255)
Programmed(chip) == Chip("OCW1", Offset(chip), Cascade(chip), 255)

\* A chip that has got q of its five bytes.
ChipAt(s, q, chip) ==
  CASE q = 0 -> s \in {Fresh, Programmed(chip)}
    [] q = 1 -> s = Chip("ICW2", s.base, s.cascade, 0)
    [] q = 2 -> s = Chip("ICW3", Offset(chip), s.cascade, 0)
    [] q = 3 -> s = Chip("ICW4", Offset(chip), Cascade(chip), 0)
    [] q = 4 -> s = Chip("OCW1", Offset(chip), Cascade(chip), 0)
    [] q = 5 -> s = Programmed(chip)

Legacies(f, pc, t, A) ==
  /\ pc = [chip \in Chips |-> pc[chip]]
  /\ \E p \in 0 .. 10, n \in 0 .. Len(t) :
       /\ IcwsLeft(t, p, n)
       /\ \/ ChipAt(pc["PIC1"], (p + 1) \div 2, "PIC1") /\ ChipAt(pc["PIC2"], p \div 2, "PIC2")
          \/ /\ p = 10 /\ ChipAt(pc["PIC1"], 0, "PIC1") /\ ChipAt(pc["PIC2"], 0, "PIC2")
             /\ \A table \in MadtsOf(f) : table.pcat_compat => Awaits(A, table, "acpi_parse_madt")

-----------------------------------------------------------------------------
(* The inductive invariant.                                                *)

Parts ==
  /\ firmware \in Firmware /\ IsSeq(todo)
  /\ Planned(firmware, iflag, Steps(todo))
  /\ IsTable(firmware, redir) /\ Silent(firmware, iflag, IOAPIC_BASE, redir)
  /\ Cleared(firmware, iflag, IOAPIC_BASE, redir, Steps(todo))
  /\ Sourced(firmware, ISA_REDIRECTION_ENTRY, Steps(todo))
  /\ Routed(firmware, iflag, IOAPIC_BASE, redir, Steps(todo))
  /\ Nmis(firmware, IOAPIC_BASE, redir, Steps(todo))
  /\ Legacy(firmware, has_i8042, Steps(todo))
  /\ Local(firmware, apic_base, HAS_X2APIC, lapic, Steps(todo))
  /\ Legacies(firmware, pic, todo, Steps(todo))

\* While the machine runs all parts hold; when it stops no stray vector remains.
PInv == NoStrayVector /\ (Runs(panic) => Parts)

\* A faulty port is one of a controller the tables list.
Faulty == panic = "PS/2 port faulty" => Present(firmware) /\ firmware.i8042 = "port faulty"

-----------------------------------------------------------------------------
(* Lemmas about what the steps are.                                        *)

\* The two halves of an entry and the register each is written through.
LEMMA HalvesAre ==
  /\ \A p, v : /\ Lower(p, v).op = "ioapic_write32" /\ Lower(p, v).value = v
               /\ Lower(p, v).reg = 16 + 2 * p
  /\ \A p : /\ Upper(p).op = "ioapic_write32" /\ Upper(p).value = 0
            /\ Upper(p).reg = 16 + 2 * p + 1
BY DEF Lower, Upper, ioapic_write32, IOAPIC_REDIR_TBL_ADDR

\* No two pins share a half.
LEMMA HalvesDiffer ==
  ASSUME NEW p \in Nat, NEW q \in Nat
  PROVE  /\ \A v, w : Lower(p, v) = Lower(q, w) => p = q /\ v = w
         /\ Upper(p) = Upper(q) => p = q
         /\ \A v : Lower(p, v) # Upper(q)
<1>1. 16 + 2 * p = 16 + 2 * q => p = q
  OBVIOUS
<1>2. 16 + 2 * p + 1 = 16 + 2 * q + 1 => p = q
  OBVIOUS
<1>3. 16 + 2 * p # 16 + 2 * q + 1
  OBVIOUS
<1>4. ASSUME NEW v, NEW w, Lower(p, v) = Lower(q, w)
      PROVE  p = q /\ v = w
  <2>1. Lower(p, v).reg = 16 + 2 * p /\ Lower(p, v).value = v
    BY HalvesAre
  <2>2. Lower(q, w).reg = 16 + 2 * q /\ Lower(q, w).value = w
    BY HalvesAre
  <2> QED
    BY <1>1, <1>4, <2>1, <2>2
<1>5. Upper(p) = Upper(q) => p = q
  BY <1>2, HalvesAre, Zenon
<1>6. \A v : Lower(p, v) # Upper(q)
  BY <1>3, HalvesAre, Zenon
<1> QED
  BY <1>4, <1>5, <1>6

\* What sort of step the others are.
LEMMA SettingOps ==
  /\ \A value : wrmsr_base(value).op = "wrmsr_base" /\ wrmsr_base(value).value = value
  /\ \A reg, value : /\ lapic_write(reg, value).op = "lapic_write"
                     /\ lapic_write(reg, value).reg = reg /\ lapic_write(reg, value).value = value
  /\ [op |-> "serial_init"].op = "serial_init" /\ [op |-> "ps2_init"].op = "ps2_init"
  /\ [op |-> "enable_interrupts"].op = "enable_interrupts"
  /\ [op |-> "lapic_init_begin"].op = "lapic_init_begin"
BY DEF wrmsr_base, lapic_write

\* The handlers by the types of records.
LEMMA HandlersAre ==
  /\ Handler(1) = "ioapic_init_register" /\ Handler(2) = "ioapic_init_source_override"
  /\ Handler(3) = "ioapic_init_nmisource" /\ Handler(4) = "lapic_init_nmi"
BY DEF Handler

\* The records a handler is called for.
LEMMA HandlerOf ==
  ASSUME NEW f, NEW type \in 1 .. 4, NEW r \in RecordsOf(f, type), NEW x,
         x = step(Handler(type), r)
  PROVE  /\ x.op \in RecordOps /\ x.record = r /\ r.type = type
         /\ x.op = "ioapic_init_register" => r \in RecordsOf(f, 1)
         /\ x.op = "ioapic_init_source_override" => r \in RecordsOf(f, 2)
         /\ x.op = "ioapic_init_nmisource" => r \in RecordsOf(f, 3)
         /\ x.op = "lapic_init_nmi" => r \in RecordsOf(f, 4)
<1>1. x.op = Handler(type) /\ x.record = r /\ r.type = type
  BY StepOps DEF RecordsOf
<1>2. type = 1 \/ type = 2 \/ type = 3 \/ type = 4
  OBVIOUS
<1>3. /\ Handler(type) \in RecordOps
      /\ Handler(type) = "ioapic_init_register" => type = 1
      /\ Handler(type) = "ioapic_init_source_override" => type = 2
      /\ Handler(type) = "ioapic_init_nmisource" => type = 3
      /\ Handler(type) = "lapic_init_nmi" => type = 4
  BY <1>2, HandlersAre DEF RecordOps
<1> QED
  BY <1>1, <1>3

SetupOps == {"acpi_parse_rsdp", "enable_interrupts", "lapic_init_begin", "parse_sdt",
             "acpi_parse_madt", "madt_record", "acpi_parse_fadt"}

\* The kinds of steps that read tables.
LEMMA ReadsOps ==
  ASSUME NEW f, NEW x, Reads(f, x)
  PROVE  x.op \in SetupOps \cup RecordOps
<1>1. CASE x \in {[op |-> "acpi_parse_rsdp"], [op |-> "enable_interrupts"], [op |-> "lapic_init_begin"]}
  BY <1>1 DEF SetupOps
<1>2. ASSUME NEW table, \/ x = step("parse_sdt", table) \/ x = step("acpi_parse_madt", table)
                        \/ x = step("acpi_parse_fadt", table)
      PROVE  x.op \in SetupOps
  BY <1>2, StepOps DEF SetupOps
<1>3. ASSUME NEW table, NEW i, x = Loops(table, i)
      PROVE  x.op \in SetupOps
  BY <1>3, StepOps DEF SetupOps
<1>4. ASSUME NEW type \in 1 .. 4, NEW r \in RecordsOf(f, type), x = step(Handler(type), r)
      PROVE  x.op \in RecordOps
  BY <1>4, HandlerOf
<1> QED
  BY <1>1, <1>2, <1>3, <1>4, Zenon DEF Reads

\* The kinds of steps that write the local APIC and the 8259s.
LEMMA SetsOps ==
  ASSUME NEW f, NEW x, Sets(f, x)
  PROVE  x.op \in LapicOps \cup {"wrmsr_base"}
BY SettingOps DEF Sets, LapicOps

\* What a step is, by its kind.
LEMMA Shapes ==
  ASSUME NEW f, NEW late, NEW x, Allowed(f, late, x)
  PROVE  /\ x.op \notin {"serial_init", "ps2_init", "ioapic_write32"} => ~late
         /\ x.op = "serial_init" => x = [op |-> "serial_init"]
         /\ x.op = "ps2_init" => x = [op |-> "ps2_init"]
         /\ x.op = "ioapic_write32" => Halves(f, late, x)
         /\ x.op \in SetupOps \cup RecordOps => Reads(f, x)
         /\ x.op \in LapicOps \cup {"wrmsr_base"} => Sets(f, x)
<1>1. CASE x \in {[op |-> "serial_init"], [op |-> "ps2_init"]}
  BY <1>1, SettingOps DEF SetupOps, RecordOps, LapicOps, PicOps
<1>2. CASE Halves(f, late, x)
  <2>1. x.op = "ioapic_write32"
    BY <1>2 DEF Halves
  <2> QED
    BY <1>2, <2>1 DEF SetupOps, RecordOps, LapicOps, PicOps
<1>3. CASE ~late /\ Reads(f, x)
  <2>1. x.op \in SetupOps \cup RecordOps
    BY <1>3, ReadsOps
  <2> QED
    BY <1>3, <2>1 DEF SetupOps, RecordOps, LapicOps, PicOps
<1>4. CASE ~late /\ Sets(f, x)
  <2>1. x.op \in LapicOps \cup {"wrmsr_base"}
    BY <1>4, SetsOps
  <2> QED
    BY <1>4, <2>1 DEF SetupOps, RecordOps, LapicOps, PicOps
<1> QED
  BY <1>1, <1>2, <1>3, <1>4 DEF Allowed

\* A step that reads tables, by its kind.
LEMMA ReadsAre ==
  ASSUME NEW f, NEW x, Reads(f, x)
  PROVE  /\ x.op = "acpi_parse_rsdp" => x = [op |-> "acpi_parse_rsdp"]
         /\ x.op = "enable_interrupts" => x = [op |-> "enable_interrupts"]
         /\ x.op = "lapic_init_begin" => x = [op |-> "lapic_init_begin"]
         /\ x.op = "parse_sdt" => \E table \in InAnyOrder(f.tables) : x = step("parse_sdt", table)
         /\ x.op = "acpi_parse_madt" => \E table \in MadtsOf(f) : x = step("acpi_parse_madt", table)
         /\ x.op = "acpi_parse_fadt" => \E table \in FadtsOf(f) : x = step("acpi_parse_fadt", table)
         /\ x.op = "madt_record" => \E table \in MadtsOf(f) : \E i \in Nat \ {0} : x = Loops(table, i)
         /\ x.op \in RecordOps =>
              \E type \in 1 .. 4 : \E r \in RecordsOf(f, type) : x = step(Handler(type), r)
<1>1. CASE x \in {[op |-> "acpi_parse_rsdp"], [op |-> "enable_interrupts"], [op |-> "lapic_init_begin"]}
  BY <1>1, SettingOps, StepOps DEF RecordOps
<1>2. CASE \E table \in InAnyOrder(f.tables) : x = step("parse_sdt", table)
  <2>1. x.op = "parse_sdt"
    BY <1>2, StepOps
  <2> QED
    BY <1>2, <2>1 DEF RecordOps
<1>3. CASE \E table \in MadtsOf(f) : x = step("acpi_parse_madt", table)
  <2>1. x.op = "acpi_parse_madt"
    BY <1>3, StepOps
  <2> QED
    BY <1>3, <2>1 DEF RecordOps
<1>4. CASE \E table \in MadtsOf(f) : \E i \in Nat \ {0} : x = Loops(table, i)
  <2>1. x.op = "madt_record"
    BY <1>4, StepOps
  <2> QED
    BY <1>4, <2>1 DEF RecordOps
<1>5. CASE \E table \in FadtsOf(f) : x = step("acpi_parse_fadt", table)
  <2>1. x.op = "acpi_parse_fadt"
    BY <1>5, StepOps
  <2> QED
    BY <1>5, <2>1 DEF RecordOps
<1>6. CASE \E type \in 1 .. 4 : \E r \in RecordsOf(f, type) : x = step(Handler(type), r)
  <2>1. x.op \in RecordOps
    BY <1>6, HandlerOf
  <2> QED
    BY <1>6, <2>1 DEF RecordOps
<1> QED
  BY <1>1, <1>2, <1>3, <1>4, <1>5, <1>6, Zenon DEF Reads

\* The record at hand.
LEMMA RecordIs ==
  ASSUME NEW f, NEW x, Reads(f, x), x.op \in RecordOps
  PROVE  /\ x.op = "ioapic_init_register" => x.record \in RecordsOf(f, 1)
         /\ x.op = "ioapic_init_source_override" => x.record \in RecordsOf(f, 2)
         /\ x.op = "ioapic_init_nmisource" => x.record \in RecordsOf(f, 3)
         /\ x.op = "lapic_init_nmi" => x.record \in RecordsOf(f, 4)
         /\ x = step(x.op, x.record)
<1>1. PICK type \in 1 .. 4 : \E r \in RecordsOf(f, type) : x = step(Handler(type), r)
  BY ReadsAre
<1>2. PICK r \in RecordsOf(f, type) : x = step(Handler(type), r)
  BY <1>1
<1>3. x.op = Handler(type) /\ x.record = r
  BY <1>2, StepOps
<1> QED
  BY <1>1, <1>2, <1>3, HandlerOf

\* While the tables are read.
LEMMA EarlyIs ==
  ASSUME NEW f, NEW late, NEW A, Planned(f, late, A), NEW x \in A,
         x.op \notin {"serial_init", "ps2_init", "ioapic_write32"}
  PROVE  ~late
<1>1. Allowed(f, late, x)
  BY DEF Planned
<1> QED
  BY <1>1, Shapes

-----------------------------------------------------------------------------
(* What a step leaves that is about something else.                        *)

\* What is left before a step and after it.
LEMMA MovedIs ==
  ASSUME NEW A, NEW x, NEW R, NEW B, NEW A2, Moved(A, x, R, B, A2)
  PROVE  /\ x \in A /\ R \subseteq A /\ R \subseteq A2 /\ B \subseteq A2
         /\ \A y \in A : y = x \/ y \in A2
         /\ \A y \in A2 : y \in B \/ y \in A
BY DEF Moved

\* Steps the plan allows keep to it.
LEMMA PlannedKept ==
  ASSUME NEW A, NEW x, NEW R, NEW B, NEW A2, Moved(A, x, R, B, A2), NEW f, NEW late,
         Planned(f, late, A), \A y \in B : Allowed(f, late, y), x.op # "enable_interrupts"
  PROVE  Planned(f, late, A2)
<1>1. x # [op |-> "enable_interrupts"]
  BY SettingOps
<1> QED
  BY <1>1, MovedIs DEF Planned

\* The pins stay cleared, or to be cleared, unless one of them is written.
LEMMA ClearedKept ==
  ASSUME NEW A, NEW x, NEW R, NEW B, NEW A2, Moved(A, x, R, B, A2), NEW f, NEW late, NEW io, NEW rd,
         Cleared(f, late, io, rd, A), x.op # "ioapic_write32"
  PROVE  Cleared(f, late, io, rd, A2)
<1>1. \A p, v : Lower(p, v) \in A => Lower(p, v) \in A2
  BY MovedIs, HalvesAre
<1>2. \A p : Upper(p) \in A => Upper(p) \in A2
  BY MovedIs, HalvesAre
<1> QED
  BY <1>1, <1>2, Zenon DEF Cleared

\* A record that is not the one at hand was read before.
LEMMA ReadKept ==
  ASSUME NEW A, NEW x, NEW R, NEW B, NEW A2, Moved(A, x, R, B, A2), NEW f \in Firmware,
         Follow(f, x, B), NEW type \in 1 .. 4, x.op # Handler(type), NEW r \in RecordsOf(f, type),
         HasRead(f, A2, r)
  PROVE  HasRead(f, A, r)
<1>1. x # step(Handler(type), r)
  BY StepOps
<1> QED
  BY <1>1, ReadNow

\* The overrides read stay so.
LEMMA SourcedKept ==
  ASSUME NEW A, NEW x, NEW R, NEW B, NEW A2, Moved(A, x, R, B, A2), NEW f \in Firmware,
         Follow(f, x, B), NEW isa, Sourced(f, isa, A), x.op # "ioapic_init_source_override"
  PROVE  Sourced(f, isa, A2)
<1>1. ASSUME NEW r \in RecordsOf(f, 2), HasRead(f, A2, r) PROVE HasRead(f, A, r)
  <2>1. 2 \in 1 .. 4 /\ x.op # Handler(2)
    BY HandlersAre
  <2> QED
    BY <1>1, <2>1, ReadKept
<1> QED
  BY <1>1, Zenon DEF Sourced

\* An entry on its way stays so, unless a pin is written.
LEMMA TowardsKept ==
  ASSUME NEW A, NEW x, NEW R, NEW B, NEW A2, Moved(A, x, R, B, A2), NEW f, NEW io, NEW rd,
         NEW p, NEW v, Towards(f, io, rd, A, p, v), x.op # "ioapic_write32"
  PROVE  Towards(f, io, rd, A2, p, v)
<1>1. Lower(p, v) \in A => Lower(p, v) \in A2
  BY MovedIs, HalvesAre
<1>2. Upper(p) \in A => Upper(p) \in A2
  BY MovedIs, HalvesAre
<1> QED
  BY <1>1, <1>2, Zenon DEF Towards

\* So do those the drivers asked for.
LEMMA RoutedKept ==
  ASSUME NEW A, NEW x, NEW R, NEW B, NEW A2, Moved(A, x, R, B, A2), NEW f, NEW late, NEW io, NEW rd,
         Routed(f, late, io, rd, A), x.op \notin {"ioapic_write32", "serial_init", "ps2_init"}
  PROVE  Routed(f, late, io, rd, A2)
<1>1. /\ [op |-> "serial_init"] \in A => [op |-> "serial_init"] \in A2
      /\ [op |-> "ps2_init"] \in A => [op |-> "ps2_init"] \in A2
  BY MovedIs, SettingOps
<1>2. \A p, v : Towards(f, io, rd, A, p, v) => Towards(f, io, rd, A2, p, v)
  BY TowardsKept
<1> QED
  BY <1>1, <1>2, Zenon DEF Routed

\* No steps of B write to the pin of an NMI source but what it asks for.
NmiSafe(f, B) ==
  \A r \in RecordsOf(f, 3) : \A y \in B :
    y.op = "ioapic_write32" /\ y = Lower(r.global_system_interrupt, y.value) => y.value = NmiEntry(r)

\* So do those of the sources of non-maskable interrupts.
LEMMA NmisKept ==
  ASSUME NEW A, NEW x, NEW R, NEW B, NEW A2, Moved(A, x, R, B, A2), NEW f \in Firmware,
         Follow(f, x, B), NEW io, NEW rd, Nmis(f, io, rd, A), NmiSafe(f, B),
         x.op \notin {"ioapic_write32", "ioapic_init_nmisource"}
  PROVE  Nmis(f, io, rd, A2)
<1> SUFFICES ASSUME NEW r \in RecordsOf(f, 3), HasRead(f, A2, r)
             PROVE  /\ Towards(f, io, rd, A2, r.global_system_interrupt, NmiEntry(r))
                    /\ \A y \in A2 :
                         y.op = "ioapic_write32" /\ y = Lower(r.global_system_interrupt, y.value) =>
                           y.value = NmiEntry(r)
  BY Zenon DEF Nmis
<1>1. HasRead(f, A, r)
  <2>1. 3 \in 1 .. 4 /\ x.op # Handler(3)
    BY HandlersAre
  <2> QED
    BY <2>1, ReadKept
<1>2. Towards(f, io, rd, A, r.global_system_interrupt, NmiEntry(r))
  BY <1>1, Zenon DEF Nmis
<1>3. \A y \in A : y.op = "ioapic_write32" /\ y = Lower(r.global_system_interrupt, y.value) =>
        y.value = NmiEntry(r)
  BY <1>1, Zenon DEF Nmis
<1>4. \A y \in B : y.op = "ioapic_write32" /\ y = Lower(r.global_system_interrupt, y.value) =>
        y.value = NmiEntry(r)
  BY Zenon DEF NmiSafe
<1>5. Towards(f, io, rd, A2, r.global_system_interrupt, NmiEntry(r))
  BY <1>2, TowardsKept
<1>6. \A y \in A2 : y \in B \/ y \in A
  BY MovedIs
<1> QED
  BY <1>3, <1>4, <1>5, <1>6, Zenon

\* What the FADT says of the 8042 is known, or is still to be read.
LEMMA LegacyKept ==
  ASSUME NEW A, NEW x, NEW R, NEW B, NEW A2, Moved(A, x, R, B, A2), NEW f \in Firmware,
         Follow(f, x, B), NEW has, Legacy(f, has, A), x.op # "acpi_parse_fadt"
  PROVE  Legacy(f, has, A2)
<1>1. \A table : x # step("acpi_parse_fadt", table)
  BY StepOps
<1>2. \A table \in FadtsOf(f) : Awaits(A, table, "acpi_parse_fadt") => Awaits(A2, table, "acpi_parse_fadt")
  BY <1>1, AwaitsKept
<1> QED
  BY <1>2, Zenon DEF Legacy

\* The registers of the local APIC have their values, or are still to be written.
LEMMA SettledKept ==
  ASSUME NEW A, NEW x, NEW R, NEW B, NEW A2, Moved(A, x, R, B, A2), NEW f, NEW base, NEW x2, NEW lap,
         Settled(f, base, x2, lap, A), x.op \notin {"wrmsr_base", "lapic_write"}
  PROVE  Settled(f, base, x2, lap, A2)
<1>1. \A value : wrmsr_base(value) \in A => wrmsr_base(value) \in A2
  BY MovedIs, SettingOps
<1>2. \A reg, value : lapic_write(reg, value) \in A => lapic_write(reg, value) \in A2
  BY MovedIs, SettingOps
<1> QED
  BY <1>1, <1>2, Zenon DEF Settled

\* The first register write of the records' own.
Lint(f, lap, A, r) ==
  /\ lap[LintOf(r)] = LvtOf(r) \/ lapic_write(LintOf(r), LvtOf(r)) \in A
  /\ lapic_write(LintOf(r), {16}) \notin A
  /\ 8 \in lap["SPIV"]

Begun(f, base, x2, lap, A) ==
  \/ \E table \in MadtsOf(f) : Awaits(A, table, "acpi_parse_madt")
  \/ MadtsOf(f) = {} \/ [op |-> "lapic_init_begin"] \in A
  \/ Settled(f, base, x2, lap, A)

\* The local APIC's part: its mode, its shape, its registers and the records' lines.
LEMMA LocalIs ==
  ASSUME NEW f, NEW base, NEW x2, NEW lap, NEW A
  PROVE  Local(f, base, x2, lap, A) <=>
           /\ "EXTD" \in base => f.x2apic
           /\ Shaped(f, lap)
           /\ Begun(f, base, x2, lap, A)
           /\ \A r \in MineOf(f) : HasRead(f, A, r) => Lint(f, lap, A, r)
BY Zenon DEF Local, Begun, Lint

\* The local APIC is set up, or still to be.
LEMMA BegunKept ==
  ASSUME NEW A, NEW x, NEW R, NEW B, NEW A2, Moved(A, x, R, B, A2), NEW f \in Firmware,
         Follow(f, x, B), NEW base, NEW x2, NEW lap, Begun(f, base, x2, lap, A),
         x.op \notin {"lapic_init_begin", "wrmsr_base", "lapic_write"},
         x.op = "acpi_parse_madt" => [op |-> "lapic_init_begin"] \in B
  PROVE  Begun(f, base, x2, lap, A2)
<1>1. CASE x.op = "acpi_parse_madt"
  BY <1>1, MovedIs DEF Begun
<1>2. CASE x.op # "acpi_parse_madt"
  <2>1. \A table : x # step("acpi_parse_madt", table)
    BY <1>2, StepOps
  <2>2. \A table \in MadtsOf(f) :
          Awaits(A, table, "acpi_parse_madt") => Awaits(A2, table, "acpi_parse_madt")
    BY <2>1, AwaitsKept
  <2>3. [op |-> "lapic_init_begin"] \in A => [op |-> "lapic_init_begin"] \in A2
    BY MovedIs, SettingOps
  <2>4. Settled(f, base, x2, lap, A) => Settled(f, base, x2, lap, A2)
    BY SettledKept
  <2> QED
    BY <2>2, <2>3, <2>4, Zenon DEF Begun
<1> QED
  BY <1>1, <1>2

\* A record's line has its value, or is still to be written.
LEMMA LintKept ==
  ASSUME NEW A, NEW x, NEW R, NEW B, NEW A2, Moved(A, x, R, B, A2), NEW f, NEW lap, NEW r,
         Lint(f, lap, A, r), x.op # "lapic_write", \A y \in B : y.op # "lapic_write"
  PROVE  Lint(f, lap, A2, r)
<1>1. \A reg, value : lapic_write(reg, value) \in A => lapic_write(reg, value) \in A2
  BY MovedIs, SettingOps
<1>2. \A reg, value : lapic_write(reg, value) \in A2 => lapic_write(reg, value) \in A
  BY MovedIs, SettingOps
<1> QED
  BY <1>1, <1>2, Zenon DEF Lint

\* The local APIC's part stays unless a step is about it.
LEMMA LocalKept ==
  ASSUME NEW A, NEW x, NEW R, NEW B, NEW A2, Moved(A, x, R, B, A2), NEW f \in Firmware,
         Follow(f, x, B), NEW base, NEW x2, NEW lap, Local(f, base, x2, lap, A),
         x.op \notin {"lapic_init_begin", "wrmsr_base", "lapic_write", "lapic_init_nmi"},
         x.op = "acpi_parse_madt" => [op |-> "lapic_init_begin"] \in B,
         \A y \in B : y.op # "lapic_write"
  PROVE  Local(f, base, x2, lap, A2)
<1>1. Begun(f, base, x2, lap, A2)
  BY BegunKept, LocalIs
<1>2. ASSUME NEW r \in MineOf(f), HasRead(f, A2, r) PROVE Lint(f, lap, A2, r)
  <2>1. 4 \in 1 .. 4 /\ x.op # Handler(4) /\ r \in RecordsOf(f, 4)
    BY HandlersAre DEF MineOf
  <2>2. HasRead(f, A, r)
    BY <1>2, <2>1, ReadKept
  <2>3. Lint(f, lap, A, r)
    BY <2>2, LocalIs
  <2> QED
    BY <2>3, LintKept
<1> QED
  BY <1>1, <1>2, LocalIs

-----------------------------------------------------------------------------
(* The 8259s' part of what is left to do.                                  *)

\* What is left to do as a sequence: its elements.
LEMMA StepsAt ==
  ASSUME NEW t, IsSeq(t)
  PROVE  /\ Len(t) \in Nat /\ DOMAIN t = 1 .. Len(t)
         /\ \A j \in 1 .. Len(t) : t[j] \in Steps(t)
         /\ \A y \in Steps(t) : \E j \in 1 .. Len(t) : t[j] = y
<1>1. PICK S : t \in Seq(S)
  BY DEF IsSeq
<1>2. Len(t) \in Nat /\ DOMAIN t = 1 .. Len(t)
  BY <1>1
<1> QED
  BY <1>2 DEF Steps

NoPics(A) == \A y \in A : y.op \notin PicOps

\* The next step is not the chips', and those it calls are not.
LEMMA IcwsShift ==
  ASSUME NEW t, IsSeq(t), t # <<>>, NEW body, IsSeq(body), NoPics(Steps(body)),
         Head(t).op \notin PicOps,
         NEW p \in 0 .. 10, NEW n \in 0 .. Len(t), IcwsLeft(t, p, n), Icws[p + 1].op \in PicOps \/ p = 10
  PROVE  \E m \in 0 .. Len(body \o Tail(t)) : IcwsLeft(body \o Tail(t), p, m)
<1>1. /\ Len(t) \in Nat /\ Len(t) >= 1 /\ Head(t) = t[1]
      /\ IsSeq(Tail(t)) /\ Len(Tail(t)) = Len(t) - 1
      /\ \A i \in 1 .. Len(t) - 1 : Tail(t)[i] = t[i + 1]
  BY TailIs
<1>2. PICK s : s = Tail(t)
  OBVIOUS
<1>3. /\ IsSeq(body \o s) /\ Len(body \o s) = Len(body) + Len(s)
      /\ Len(body) \in Nat /\ Len(s) \in Nat
      /\ \A i \in 1 .. Len(body) + Len(s) :
           (body \o s)[i] = IF i <= Len(body) THEN body[i] ELSE s[i - Len(body)]
  BY <1>1, <1>2, CatIs
<1>4. PICK u : u = body \o s
  OBVIOUS
<1>5. PICK b \in Nat, l \in Nat : b = Len(body) /\ l = Len(t) /\ l >= 1
  BY <1>1, <1>3
<1>6. /\ Len(u) = b + l - 1
      /\ \A i \in 1 .. b : u[i] = body[i]
      /\ \A i \in b + 1 .. b + l - 1 : u[i] = t[i - b + 1]
  <2>1. \A i \in 1 .. b : u[i] = body[i]
    BY <1>1, <1>2, <1>3, <1>4, <1>5
  <2>2. ASSUME NEW i \in b + 1 .. b + l - 1 PROVE u[i] = t[i - b + 1]
    <3>1. i - b \in 1 .. l - 1 /\ i \in 1 .. b + l - 1 /\ ~(i <= b)
      BY <1>5
    <3>2. u[i] = s[i - b]
      BY <1>1, <1>2, <1>3, <1>4, <1>5, <3>1
    <3>3. s[i - b] = t[(i - b) + 1]
      BY <1>1, <1>2, <1>5, <3>1
    <3> QED
      BY <3>2, <3>3
  <2> QED
    BY <1>1, <1>2, <1>3, <1>4, <1>5, <2>1, <2>2
<1>7. \A i \in 1 .. b : body[i].op \notin PicOps
  BY <1>5, StepsAt DEF NoPics
<1>8. /\ n + 10 - p <= l
      /\ \A m \in 1 .. 10 - p : t[n + m] = Icws[p + m]
      /\ \A j \in 1 .. l : t[j].op \in PicOps => n < j /\ j <= n + 10 - p
      /\ n = 0 \/ p = 0 \/ p = 10
  BY <1>5 DEF IcwsLeft
<1>9. n \in Nat /\ n <= l /\ p \in Nat /\ p <= 10
  BY <1>5
<1>10. t[1].op \notin PicOps
  BY <1>1
<1>11. CASE p = 10
  <2> DEFINE m == b + l - 1
  <2>1. m \in 0 .. Len(u) /\ m + 10 - p <= Len(u)
    BY <1>5, <1>6, <1>11
  <2>2. ASSUME NEW j \in 1 .. Len(u) PROVE u[j].op \notin PicOps
    <3>1. CASE j <= b
      BY <1>5, <1>6, <1>7, <2>2, <3>1
    <3>2. CASE ~(j <= b)
      <4>1. j \in b + 1 .. b + l - 1 /\ j - b + 1 \in 1 .. l
        BY <1>5, <1>6, <2>2, <3>2
      <4>2. t[j - b + 1].op \notin PicOps
        <5>1. PICK i \in 1 .. l : i = j - b + 1
          BY <4>1
        <5>2. t[i].op \in PicOps => n < i /\ i <= n
          BY <1>8, <1>9, <1>11
        <5> QED
          BY <1>9, <5>1, <5>2
      <4> QED
        BY <1>6, <4>1, <4>2
    <3> QED
      BY <3>1, <3>2
  <2>3. \A i \in 1 .. 10 - p : u[m + i] = Icws[p + i]
    BY <1>11
  <2>4. IcwsLeft(u, p, m)
    BY <1>11, <2>1, <2>2, <2>3 DEF IcwsLeft
  <2> QED
    BY <1>2, <1>4, <2>1, <2>4
<1>12. CASE p # 10
  <2>1. n >= 1 /\ p = 0
    <3>1. 1 \in 1 .. 10 - p
      BY <1>9, <1>12
    <3>2. t[n + 1] = Icws[p + 1]
      BY <1>8, <3>1
    <3>3. n # 0
      BY <1>10, <1>12, <3>2
    <3> QED
      BY <1>8, <1>9, <1>12, <3>3
  <2>0. n \in Nat /\ n >= 1 /\ p = 0 /\ n + 10 <= l /\ b \in Nat /\ l \in Nat
    BY <1>5, <1>8, <1>9, <2>1
  <2> DEFINE m == n - 1 + b
  <2>2. m \in 0 .. Len(u) /\ m + 10 - p <= Len(u) /\ m \in Nat
    <3>1. Len(u) = b + l - 1
      BY <1>6
    <3> QED
      BY <2>0, <3>1
  <2>3. ASSUME NEW i \in 1 .. 10 - p PROVE u[m + i] = Icws[p + i]
    <3>1. m + i \in b + 1 .. b + l - 1 /\ (m + i) - b + 1 = n + i
      BY <2>0, <2>3
    <3> QED
      BY <1>6, <1>8, <2>3, <3>1
  <2>4. ASSUME NEW j \in 1 .. Len(u), u[j].op \in PicOps PROVE m < j /\ j <= m + 10 - p
    <3>1. CASE j <= b
      BY <1>5, <1>6, <1>7, <2>4, <3>1
    <3>2. CASE ~(j <= b)
      <4>1. j \in b + 1 .. b + l - 1 /\ j - b + 1 \in 1 .. l
        BY <1>5, <1>6, <2>4, <3>2
      <4>2. PICK i \in 1 .. l : i = j - b + 1 /\ u[j] = t[i]
        BY <1>6, <4>1
      <4>3. n < i /\ i <= n + 10 - p
        BY <1>8, <2>4, <4>2
      <4> QED
        BY <1>5, <1>9, <4>1, <4>2, <4>3, SMTT(30)
    <3> QED
      BY <3>1, <3>2
  <2>5. IcwsLeft(u, p, m)
    BY <2>1, <2>2, <2>3, <2>4 DEF IcwsLeft
  <2> QED
    BY <1>2, <1>4, <2>2, <2>5
<1> QED
  BY <1>11, <1>12

\* The ten bytes.
LEMMA IcwsAre ==
  /\ IsSeq(Icws) /\ Len(Icws) = 10
  /\ Icws[1] = command("PIC1", {4, 0}) /\ Icws[2] = command("PIC2", {4, 0})
  /\ Icws[3] = data("PIC1", 32) /\ Icws[4] = data("PIC2", 40)
  /\ Icws[5] = data("PIC1", 4) /\ Icws[6] = data("PIC2", 2)
  /\ Icws[7] = data("PIC1", 1) /\ Icws[8] = data("PIC2", 1)
  /\ Icws[9] = data("PIC1", 255) /\ Icws[10] = data("PIC2", 255)
  /\ \A i \in 1 .. 10 : Icws[i].op \in PicOps
<1>1. Icws \in Seq({command("PIC1", {4, 0}), command("PIC2", {4, 0}), data("PIC1", 32), data("PIC2", 40),
                    data("PIC1", 4), data("PIC2", 2), data("PIC1", 1), data("PIC2", 1),
                    data("PIC1", 255), data("PIC2", 255)})
  BY DEF Icws, legacy_pic_init_and_disable
<1>2. IsSeq(Icws)
  BY <1>1, SeqIs
<1>3. /\ Len(Icws) = 10
      /\ Icws[1] = command("PIC1", {4, 0}) /\ Icws[2] = command("PIC2", {4, 0})
      /\ Icws[3] = data("PIC1", 32) /\ Icws[4] = data("PIC2", 40)
      /\ Icws[5] = data("PIC1", 4) /\ Icws[6] = data("PIC2", 2)
      /\ Icws[7] = data("PIC1", 1) /\ Icws[8] = data("PIC2", 1)
      /\ Icws[9] = data("PIC1", 255) /\ Icws[10] = data("PIC2", 255)
  BY DEF Icws, legacy_pic_init_and_disable
<1>4. /\ \A chip, value : command(chip, value).op \in PicOps
      /\ \A chip, value : data(chip, value).op \in PicOps
  BY DEF command, data, PicOps
<1>5. ASSUME NEW i \in 1 .. 10 PROVE Icws[i].op \in PicOps
  <2>1. \/ i = 1 \/ i = 2 \/ i = 3 \/ i = 4 \/ i = 5 \/ i = 6 \/ i = 7 \/ i = 8 \/ i = 9 \/ i = 10
    OBVIOUS
  <2> QED
    BY <1>3, <1>4, <2>1
<1> QED
  BY <1>2, <1>3, <1>5

\* The 8259s' part stays unless a step is about them.
LEMMA LegaciesKept ==
  ASSUME NEW t, IsSeq(t), t # <<>>, NEW body, IsSeq(body), NoPics(Steps(body)),
         NEW f \in Firmware, Follow(f, Head(t), Steps(body)), NEW pc, Legacies(f, pc, t, Steps(t)),
         Head(t).op \notin PicOps, Head(t).op # "acpi_parse_madt"
  PROVE  Legacies(f, pc, body \o Tail(t), Steps(body \o Tail(t)))
<1>1. PICK p \in 0 .. 10, n \in 0 .. Len(t) :
        /\ IcwsLeft(t, p, n)
        /\ \/ ChipAt(pc["PIC1"], (p + 1) \div 2, "PIC1") /\ ChipAt(pc["PIC2"], p \div 2, "PIC2")
           \/ /\ p = 10 /\ ChipAt(pc["PIC1"], 0, "PIC1") /\ ChipAt(pc["PIC2"], 0, "PIC2")
              /\ \A table \in MadtsOf(f) : table.pcat_compat => Awaits(Steps(t), table, "acpi_parse_madt")
  BY DEF Legacies
<1>2. Icws[p + 1].op \in PicOps \/ p = 10
  <2>1. p = 10 \/ p + 1 \in 1 .. 10
    BY <1>1
  <2> QED
    BY <2>1, IcwsAre
<1>3. PICK u : u = body \o Tail(t)
  OBVIOUS
<1>4. PICK m \in 0 .. Len(u) : IcwsLeft(u, p, m)
  BY <1>1, <1>2, <1>3, IcwsShift
<1>5. PICK A, x, R, B, A2 : /\ A = Steps(t) /\ x = Head(t) /\ R = Steps(Tail(t))
                            /\ B = Steps(body) /\ A2 = Steps(u)
  OBVIOUS
<1>6. Moved(A, x, R, B, A2)
  <2>1. A = {x} \cup R /\ IsSeq(Tail(t))
    BY <1>5, StepsTail, TailIs
  <2>2. PICK s : s = Tail(t)
    OBVIOUS
  <2>3. Steps(body \o s) = Steps(body) \cup Steps(s)
    BY <2>1, <2>2, StepsCat
  <2> QED
    BY <1>3, <1>5, <2>1, <2>2, <2>3 DEF Moved
<1>7. \A table \in MadtsOf(f) : Awaits(A, table, "acpi_parse_madt") => Awaits(A2, table, "acpi_parse_madt")
  <2>1. Follow(f, x, B) /\ \A table : x # step("acpi_parse_madt", table)
    BY <1>5, StepOps
  <2> QED
    BY <1>6, <2>1, AwaitsKept
<1>8. Legacies(f, pc, u, A2)
  <2>1. pc = [chip \in Chips |-> pc[chip]]
    BY Zenon DEF Legacies
  <2> QED
    BY <1>1, <1>4, <1>5, <1>7, <2>1, Zenon DEF Legacies
<1> QED
  BY <1>3, <1>5, <1>8

-----------------------------------------------------------------------------
(* What the invariant says at the end.                                     *)

\* The interrupts drivers ask for, of the machine at hand.
LEMMA WantedIs == Wanted = WantedIn(firmware)
<1>1. Has8042 <=> Present(firmware)
  BY Zenon DEF Has8042, Present, Fadts
<1> QED
  BY <1>1, Zenon DEF Wanted, WantedIn, Ps2Works, Works

\* They are three at most, and one at least.
LEMMA WantedAre ==
  ASSUME NEW f
  PROVE  WantedIn(f) \subseteq {IRQ_KB, IRQ_COM1, IRQ_MOUSE} /\ IRQ_COM1 \in WantedIn(f)
BY DEF WantedIn

\* The machines keep to the assumption.
LEMMA MachineIs ==
  ASSUME NEW f \in Firmware
  PROVE  /\ HandedOver(f) /\ OneOfEach(f) /\ OverridesApart(f) /\ NmisApart(f)
         /\ f.pins \in Nat
BY MachineAssumption, FirmwareAssumption, Zenon

\* They are interrupts of the ISA bus.
LEMMA IrqsAre ==
  /\ IRQ_KB \in 0 .. ISA - 1 /\ IRQ_COM1 \in 0 .. ISA - 1 /\ IRQ_MOUSE \in 0 .. ISA - 1
  /\ ISA \in Nat
BY IsaAssumption, DevicesAssumption DEF IRQ_KB, IRQ_COM1, IRQ_MOUSE

\* The override of an interrupt, if there is one.
Overrides(f, irq) == {r \in RecordsOf(f, 2) : r.irq_source = irq}

\* Their pins and entries, overridden or not.
LEMMA PinOfOverride ==
  ASSUME NEW f \in Firmware, NEW irq
  PROVE  /\ Overrides(f, irq) = {} => PinIn(f, irq) = irq /\ EntryIn(f, irq) = Entry(irq + 48, {})
         /\ \A r \in Overrides(f, irq) : /\ PinIn(f, irq) = r.global_system_interrupt
                                         /\ EntryIn(f, irq) = Entry(irq + 48, LineFlags(r))
<1>1. OverridesApart(f)
  BY MachineIs
<1>2. PICK over : over = Overrides(f, irq)
  OBVIOUS
<1>3. /\ PinIn(f, irq) = IF over = {} THEN irq ELSE (CHOOSE r \in over : TRUE).global_system_interrupt
      /\ EntryIn(f, irq) =
           Entry(irq + 48, IF over = {} THEN {} ELSE LineFlags(CHOOSE r \in over : TRUE))
  <2>1. /\ PinIn(f, irq) = IF Overrides(f, irq) = {} THEN irq
                           ELSE (CHOOSE r \in Overrides(f, irq) : TRUE).global_system_interrupt
        /\ EntryIn(f, irq) =
             Entry(irq + 48, IF Overrides(f, irq) = {} THEN {}
                             ELSE LineFlags(CHOOSE r \in Overrides(f, irq) : TRUE))
    BY DEF PinIn, EntryIn, Overrides
  <2> QED
    BY <1>2, <2>1, Zenon
<1>4. ASSUME NEW r \in over PROVE (CHOOSE s \in over : TRUE) = r
  <2>1. (CHOOSE s \in over : TRUE) \in over
    BY <1>4
  <2>2. \A s \in over : s = r
    BY <1>1, <1>2, <1>4 DEF OverridesApart, Overrides
  <2> QED
    BY <2>1, <2>2
<1>5. ASSUME NEW r \in over
      PROVE  /\ PinIn(f, irq) = r.global_system_interrupt
             /\ EntryIn(f, irq) = Entry(irq + 48, LineFlags(r))
  <2>1. over # {} /\ (CHOOSE s \in over : TRUE) = r
    BY <1>4, <1>5
  <2> QED
    BY <1>3, <2>1, Zenon
<1>6. over = {} => PinIn(f, irq) = irq /\ EntryIn(f, irq) = Entry(irq + 48, {})
  BY <1>3, Zenon
<1> QED
  BY <1>2, <1>5, <1>6, Zenon

\* Their pins are among those there are.
LEMMA PinsIn ==
  ASSUME NEW f \in Firmware, NEW irq \in {IRQ_KB, IRQ_COM1, IRQ_MOUSE}
  PROVE  PinIn(f, irq) \in Nat /\ (ISA < f.pins => PinIn(f, irq) \in 0 .. f.pins - 1)
<1>1. irq \in 0 .. ISA - 1 /\ ISA \in Nat /\ f.pins \in Nat
  BY IrqsAre, MachineIs
<1>2. CASE Overrides(f, irq) = {}
  BY <1>1, <1>2, PinOfOverride
<1>3. ASSUME NEW r \in Overrides(f, irq)
      PROVE  PinIn(f, irq) \in 0 .. f.pins - 1
  <2>1. r.global_system_interrupt \in 0 .. f.pins - 1
    BY MachineIs DEF Overrides, OverridesApart
  <2> QED
    BY <2>1, PinOfOverride
<1> QED
  BY <1>1, <1>2, <1>3

\* Entries that deliver, and those that do not.
LEMMA EntriesDeliver ==
  ASSUME NEW f \in Firmware
  PROVE  /\ ~Delivering(Masked)
         /\ \A r : ~Delivering(NmiEntry(r))
         /\ \A irq : Delivering(EntryIn(f, irq))
<1>1. ~Delivering(Masked)
  BY DEF Delivering, Masked, Entry
<1>2. \A r : ~Delivering(NmiEntry(r))
  BY DEF Delivering, NmiEntry, Entry
<1>3. \A r : LineFlags(r) \subseteq {13, 15}
  BY DEF LineFlags
<1>4. ASSUME NEW irq PROVE Delivering(EntryIn(f, irq))
  <2>1. \E flags : EntryIn(f, irq) = Entry(irq + 48, flags) /\ flags \subseteq {13, 15}
    <3>1. CASE Overrides(f, irq) = {}
      BY <3>1, PinOfOverride
    <3>2. ASSUME NEW r \in Overrides(f, irq)
          PROVE  \E flags : EntryIn(f, irq) = Entry(irq + 48, flags) /\ flags \subseteq {13, 15}
      BY <1>3, <3>2, PinOfOverride
    <3> QED
      BY <3>1, <3>2
  <2>2. PICK flags : EntryIn(f, irq) = Entry(irq + 48, flags) /\ flags \subseteq {13, 15}
    BY <2>1
  <2>3. Entry(irq + 48, flags).flags = flags
    BY DEF Entry
  <2> QED
    BY <2>2, <2>3 DEF Delivering
<1> QED
  BY <1>1, <1>2, <1>4

\* The pins there are and their entries.
LEMMA TableIs ==
  ASSUME NEW f \in Firmware, IsTable(f, redir)
  PROVE  /\ Pins = 0 .. f.pins - 1 /\ LastPin = f.pins - 1 /\ f.pins \in Nat
         /\ \A p \in 0 .. f.pins - 1 :
              redir[p] = [low |-> redir[p].low, destination |-> redir[p].destination]
<1>1. f.pins \in Nat
  BY MachineIs
<1>2. Pins = 0 .. f.pins - 1
  BY DEF IsTable, Pins
<1>3. Cardinality(0 .. f.pins - 1) = f.pins
  <2>1. 0 \in Int /\ f.pins - 1 \in Int
    BY <1>1
  <2>2. Cardinality(0 .. f.pins - 1) =
          IF 0 > f.pins - 1 THEN 0 ELSE (f.pins - 1) - 0 + 1
    BY <2>1, FS_Interval
  <2> QED
    BY <1>1, <2>2
<1>4. LastPin = f.pins - 1
  BY <1>2, <1>3 DEF LastPin
<1>5. ASSUME NEW p \in 0 .. f.pins - 1
      PROVE  redir[p] = [low |-> redir[p].low, destination |-> redir[p].destination]
  BY DEF IsTable
<1> QED
  BY <1>1, <1>2, <1>4, <1>5

\* With interrupts enabled all tables have been read.
LEMMA LateIs ==
  ASSUME NEW f, NEW A, Planned(f, TRUE, A)
  PROVE  /\ \A y \in A : y.op \in {"serial_init", "ps2_init", "ioapic_write32"}
         /\ \A table : ~Awaits(A, table, "acpi_parse_madt") /\ ~Awaits(A, table, "acpi_parse_fadt")
         /\ \A type \in 1 .. 4 : \A r \in RecordsOf(f, type) : HasRead(f, A, r)
<1>1. \A y \in A : y.op \in {"serial_init", "ps2_init", "ioapic_write32"}
  BY Shapes DEF Planned
<1>2. \A table : ~Awaits(A, table, "acpi_parse_madt") /\ ~Awaits(A, table, "acpi_parse_fadt")
  BY <1>1, StepOps DEF Awaits
<1>3. ASSUME NEW type \in 1 .. 4, NEW r \in RecordsOf(f, type), NEW table, NEW j,
             table.records[j] = r, Unread(A, table, j)
      PROVE  FALSE
  <2>1. \A i : Loops(table, i) \notin A
    BY <1>1, StepOps
  <2>2. r.type = type
    BY DEF RecordsOf
  <2>3. Handler(type) \in RecordOps /\ step(Handler(type), r).op = Handler(type)
    BY HandlerOps, StepOps
  <2>4. step(Handler(type), r) \notin A
    BY <1>1, <2>3 DEF RecordOps
  <2> QED
    BY <1>2, <1>3, <2>1, <2>2, <2>4 DEF Unread
<1> QED
  BY <1>1, <1>2, <1>3 DEF HasRead

-----------------------------------------------------------------------------
(* The parts rule out stray vectors.                                       *)

\* A chip's four fields.
LEMMA ChipIs ==
  ASSUME NEW e, NEW b, NEW c, NEW m, NEW s, s = Chip(e, b, c, m)
  PROVE  s.expects = e /\ s.base = b /\ s.cascade = c /\ s.mask = m
BY DEF Chip

\* A chip by the bytes it has got.
LEMMA ChipCases ==
  ASSUME NEW s, NEW chip
  PROVE  /\ ChipAt(s, 0, chip) <=> s = Fresh \/ s = Programmed(chip)
         /\ ChipAt(s, 1, chip) <=> s = Chip("ICW2", s.base, s.cascade, 0)
         /\ ChipAt(s, 2, chip) <=> s = Chip("ICW3", Offset(chip), s.cascade, 0)
         /\ ChipAt(s, 3, chip) <=> s = Chip("ICW4", Offset(chip), Cascade(chip), 0)
         /\ ChipAt(s, 4, chip) <=> s = Chip("OCW1", Offset(chip), Cascade(chip), 0)
         /\ ChipAt(s, 5, chip) <=> s = Programmed(chip)
BY DEF ChipAt

\* At no point of the sequence can a chip deliver a vector of an exception.
LEMMA ChipSafe ==
  ASSUME NEW s, NEW q \in 0 .. 5, NEW chip, ChipAt(s, q, chip)
  PROVE  s.expects = "OCW1" => s.mask = 255 \/ s.base >= 32
<1>1. \/ q = 0 \/ q = 1 \/ q = 2 \/ q = 3 \/ q = 4 \/ q = 5
  OBVIOUS
<1>2. CASE q = 0 \/ q = 5
  <2>1. s = Fresh \/ s = Programmed(chip)
    BY <1>2, ChipCases
  <2> QED
    BY <2>1, ChipIs DEF Fresh, Programmed
<1>3. CASE q = 1
  <2>1. s = Chip("ICW2", s.base, s.cascade, 0)
    BY <1>3, ChipCases
  <2>2. s.expects = "ICW2"
    BY <2>1, ChipIs
  <2> QED
    BY <2>2
<1>4. CASE q = 2
  <2>1. s = Chip("ICW3", Offset(chip), s.cascade, 0)
    BY <1>4, ChipCases
  <2>2. s.expects = "ICW3"
    BY <2>1, ChipIs
  <2> QED
    BY <2>2
<1>5. CASE q = 3
  <2>1. s.expects = "ICW4"
    BY <1>5, ChipCases, ChipIs
  <2> QED
    BY <2>1
<1>6. CASE q = 4
  <2>1. s.base = Offset(chip)
    BY <1>6, ChipCases, ChipIs
  <2> QED
    BY <2>1 DEF Offset
<1> QED
  BY <1>1, <1>2, <1>3, <1>4, <1>5, <1>6

\* No stray vector can arrive while the parts hold.
LEMMA PartsSafe ==
  Parts => NoStrayVector
<1> SUFFICES ASSUME Parts PROVE NoStrayVector
  OBVIOUS
<1>1. PICK f \in Firmware : f = firmware
  BY DEF Parts
<1>2. PICK A : A = Steps(todo)
  OBVIOUS
<1>3. /\ IsSeq(todo) /\ Planned(f, iflag, A) /\ IsTable(f, redir) /\ Silent(f, iflag, IOAPIC_BASE, redir)
      /\ Cleared(f, iflag, IOAPIC_BASE, redir, A) /\ Legacies(f, pic, todo, A)
  BY <1>1, <1>2, Zenon DEF Parts
<1>4. Pins = 0 .. f.pins - 1 /\ LastPin = f.pins - 1 /\ f.pins \in Nat
  BY <1>3, TableIs
<1>5. ASSUME NEW pin \in Pins, Delivers(pin)
      PROVE  /\ \E irq \in Wanted : pin = PinOf(irq) /\ redir[pin].low = EntryOf(irq)
             /\ pin # LastPin => redir[pin].destination = 0
  <2>1. iflag /\ IOAPIC_BASE /\ Asked(f, pin, redir[pin].low)
    BY <1>3, <1>4, <1>5, Zenon DEF Silent, Delivers, Delivering
  <2>2. PICK irq \in WantedIn(f) : pin = PinIn(f, irq) /\ redir[pin].low = EntryIn(f, irq)
    BY <2>1 DEF Asked
  <2>3. irq \in Wanted /\ pin = PinOf(irq) /\ redir[pin].low = EntryOf(irq)
    BY <1>1, <2>2, WantedIs DEF PinOf, EntryOf
  <2>4. pin # LastPin => pin \in 0 .. f.pins - 2
    BY <1>4
  <2>5. pin # LastPin => redir[pin].destination = 0
    BY <1>3, <2>1, <2>4, Zenon DEF Cleared
  <2> QED
    BY <2>3, <2>5
<1>6. PICK p \in 0 .. 10, n \in 0 .. Len(todo) :
        /\ IcwsLeft(todo, p, n)
        /\ \/ ChipAt(pic["PIC1"], (p + 1) \div 2, "PIC1") /\ ChipAt(pic["PIC2"], p \div 2, "PIC2")
           \/ /\ p = 10 /\ ChipAt(pic["PIC1"], 0, "PIC1") /\ ChipAt(pic["PIC2"], 0, "PIC2")
              /\ \A table \in MadtsOf(f) : table.pcat_compat => Awaits(A, table, "acpi_parse_madt")
  BY <1>3 DEF Legacies
<1>7. (p + 1) \div 2 \in 0 .. 5 /\ p \div 2 \in 0 .. 5
  OBVIOUS
<1>9. ASSUME NEW chip \in Chips, pic[chip].expects = "OCW1"
      PROVE  pic[chip].mask = 255 \/ pic[chip].base >= 32
  <2>1. PICK q \in 0 .. 5 : ChipAt(pic[chip], q, chip)
    <3>1. chip = "PIC1" \/ chip = "PIC2"
      BY DEF Chips
    <3>2. 0 \in 0 .. 5
      OBVIOUS
    <3> QED
      BY <1>6, <1>7, <3>1, <3>2
  <2> QED
    BY <1>9, <2>1, ChipSafe
<1>10. ASSUME iflag, NEW table \in Madts, table.pcat_compat, NEW chip \in Chips
       PROVE  pic[chip] = Programmed(chip)
  <2>1. Planned(f, TRUE, A)
    BY <1>3, <1>10, Zenon DEF Planned, Allowed, Halves
  <2>2. p = 10
    <3> SUFFICES ASSUME p # 10 PROVE FALSE
      OBVIOUS
    <3>1. p + 1 \in 1 .. 10 /\ 1 \in 1 .. 10 - p
      OBVIOUS
    <3>2. todo[n + 1] = Icws[p + 1] /\ n + 10 - p <= Len(todo)
      BY <1>6, <3>1 DEF IcwsLeft
    <3>3. Len(todo) \in Nat /\ n \in Nat
      BY <1>3, <1>6, StepsAt
    <3>4. n + 1 \in 1 .. Len(todo)
      BY <3>1, <3>2, <3>3
    <3>5. todo[n + 1] \in A
      BY <1>2, <1>3, <3>4, StepsAt
    <3>6. todo[n + 1].op \in PicOps
      BY <3>1, <3>2, IcwsAre
    <3> QED
      BY <2>1, <3>5, <3>6, LateIs DEF PicOps
  <2>3. ~Awaits(A, table, "acpi_parse_madt") /\ table \in MadtsOf(f)
    BY <1>1, <1>10, <2>1, LateIs DEF Madts
  <2>4. (10 + 1) \div 2 = 5 /\ 10 \div 2 = 5
    OBVIOUS
  <2>5. ChipAt(pic["PIC1"], 5, "PIC1") /\ ChipAt(pic["PIC2"], 5, "PIC2")
    BY <1>6, <1>10, <2>2, <2>3, <2>4
  <2>6. chip = "PIC1" \/ chip = "PIC2"
    BY DEF Chips
  <2> QED
    BY <2>5, <2>6, ChipCases
<1>11. ASSUME iflag, \E table \in Madts : table.pcat_compat, NEW chip \in Chips
       PROVE  pic[chip] = [expects |-> "OCW1", base |-> IF chip = "PIC1" THEN 32 ELSE 40,
                           cascade |-> IF chip = "PIC1" THEN 4 ELSE 2, mask |-> 255]
  BY <1>10, <1>11, Zenon DEF Programmed, Chip, Offset, Cascade
<1> QED
  BY <1>5, <1>9, <1>11, Zenon DEF NoStrayVector

\* Nothing left to do.
LEMMA AtEnd ==
  ASSUME Parts, todo = <<>>
  PROVE  /\ Steps(todo) = {} /\ iflag
         /\ \A p, v : Towards(firmware, IOAPIC_BASE, redir, {}, p, v) =>
              /\ IOAPIC_BASE
              /\ p \in 0 .. firmware.pins - 1 => redir[p].low = v /\ redir[p].destination = 0
<1>1. Steps(todo) = {}
  BY StepsNone
<1>2. Planned(firmware, iflag, {})
  BY <1>1, Zenon DEF Parts
<1>3. iflag
  BY <1>2 DEF Planned
<1>4. \A p, v : Towards(firmware, IOAPIC_BASE, redir, {}, p, v) =>
              /\ IOAPIC_BASE
              /\ p \in 0 .. firmware.pins - 1 => redir[p].low = v /\ redir[p].destination = 0
  BY DEF Towards
<1> QED
  BY <1>1, <1>3, <1>4

\* At the end the interrupts asked for are let through.
LEMMA EndRouted ==
  ASSUME Parts, todo = <<>>
  PROVE  /\ iflag /\ IOAPIC_BASE /\ MadtsOf(firmware) # {} /\ ISA < firmware.pins
         /\ \A irq \in WantedIn(firmware) :
              /\ PinIn(firmware, irq) \in 0 .. firmware.pins - 1
              /\ redir[PinIn(firmware, irq)].low = EntryIn(firmware, irq)
              /\ redir[PinIn(firmware, irq)].destination = 0
<1>1. PICK f \in Firmware : f = firmware
  BY DEF Parts
<1>2. Steps(todo) = {} /\ iflag
  BY AtEnd
<1>3. /\ Routed(f, iflag, IOAPIC_BASE, redir, {})
      /\ Cleared(f, iflag, IOAPIC_BASE, redir, {})
  BY <1>1, <1>2, Zenon DEF Parts
<1>4. \A irq \in WantedIn(f) : Towards(f, IOAPIC_BASE, redir, {}, PinIn(f, irq), EntryIn(f, irq))
  BY <1>2, <1>3, Zenon DEF Routed
<1>5. IOAPIC_BASE
  BY <1>1, <1>4, WantedAre, AtEnd
<1>6. MadtsOf(f) # {} /\ ISA < f.pins
  BY <1>3, <1>5, Zenon DEF Cleared
<1>7. ASSUME NEW irq \in WantedIn(f)
      PROVE  PinIn(f, irq) \in 0 .. f.pins - 1
  BY <1>6, <1>7, WantedAre, PinsIn
<1> QED
  BY <1>1, <1>2, <1>4, <1>5, <1>6, <1>7, AtEnd

\* The parts at the end of main: the pins.
LEMMA PartsRouted ==
  ASSUME Parts, todo = <<>>
  PROVE  IsaPinsRouted
<1>1. PICK f \in Firmware : f = firmware
  BY DEF Parts
<1>2. /\ iflag /\ IOAPIC_BASE /\ Steps(todo) = {}
      /\ \A irq \in WantedIn(f) :
              /\ PinIn(f, irq) \in 0 .. f.pins - 1
              /\ redir[PinIn(f, irq)].low = EntryIn(f, irq)
              /\ redir[PinIn(f, irq)].destination = 0
  BY <1>1, EndRouted, AtEnd, Zenon
<1>3. /\ IsTable(f, redir) /\ Silent(f, iflag, IOAPIC_BASE, redir)
      /\ Cleared(f, iflag, IOAPIC_BASE, redir, {})
  BY <1>1, <1>2, Zenon DEF Parts
<1>4. /\ Pins = 0 .. f.pins - 1 /\ LastPin = f.pins - 1 /\ f.pins \in Nat
      /\ \A p \in 0 .. f.pins - 1 :
              redir[p] = [low |-> redir[p].low, destination |-> redir[p].destination]
  BY <1>3, TableIs
<1>5. \A irq : PinOf(irq) = PinIn(f, irq) /\ EntryOf(irq) = EntryIn(f, irq)
  BY <1>1 DEF PinOf, EntryOf
<1>6. Wanted = WantedIn(f)
  BY <1>1, WantedIs
<1>7. ASSUME NEW pin \in Pins, Delivers(pin)
      PROVE  pin \in {PinOf(irq) : irq \in Wanted}
  <2>1. Asked(f, pin, redir[pin].low)
    BY <1>3, <1>4, <1>7, Zenon DEF Silent, Delivers, Delivering
  <2> QED
    BY <1>5, <1>6, <2>1 DEF Asked
<1>8. ASSUME NEW irq \in Wanted
      PROVE  /\ PinOf(irq) \in Pins /\ Delivers(PinOf(irq))
             /\ redir[PinOf(irq)] = [low |-> EntryOf(irq), destination |-> 0]
  <2>1. /\ PinOf(irq) \in Pins /\ redir[PinOf(irq)].low = EntryOf(irq)
        /\ redir[PinOf(irq)].destination = 0
    BY <1>2, <1>4, <1>5, <1>6
  <2>2. Delivering(redir[PinOf(irq)].low)
    BY <1>5, <2>1, EntriesDeliver
  <2>3. Delivers(PinOf(irq))
    BY <2>2, Zenon DEF Delivers, Delivering
  <2>4. redir[PinOf(irq)] =
          [low |-> redir[PinOf(irq)].low, destination |-> redir[PinOf(irq)].destination]
    BY <1>4, <2>1
  <2> QED
    BY <2>1, <2>3, <2>4
<1>9. ASSUME NEW pin \in Pins \ {LastPin}
      PROVE  \/ 16 \in redir[pin].low.flags
             \/ \E irq \in Wanted : pin = PinOf(irq)
             \/ \E r \in Records(3) : pin = r.global_system_interrupt
  <2>1. pin \in 0 .. f.pins - 2
    BY <1>4
  <2>2. Quiet(f, pin, redir[pin].low) \/ Asked(f, pin, redir[pin].low)
    BY <1>2, <1>3, <2>1 DEF Cleared
  <2>3. Masked.flags = {16}
    BY DEF Masked, Entry
  <2> QED
    BY <1>1, <1>5, <1>6, <2>2, <2>3 DEF Quiet, Asked, Records
<1>10. {pin \in Pins : Delivers(pin)} = {PinOf(irq) : irq \in Wanted}
  BY <1>7, <1>8
<1> QED
  BY <1>8, <1>9, <1>10, Zenon DEF IsaPinsRouted

\* The bits of a record's flags, in an entry of the I/O APIC and in a line of the local APIC.
LEMMA FlagsAre ==
  /\ \A r : {r.polarity, r.trigger} \subseteq {0, 3} => NmiEntry(r) = Entry(0, {10} \cup LineFlags(r))
  /\ \A r : LvtOf(r) \cap {8, 9, 10, 13, 16} = {10} \cup (LineFlags(r) \cap {13})
  /\ \A r : LintOf(r) = IF r.lint = 0 THEN "LINT0" ELSE "LINT1"
<1>1. ASSUME NEW r, {r.polarity, r.trigger} \subseteq {0, 3}
      PROVE  NmiEntry(r) = Entry(0, {10} \cup LineFlags(r))
  <2>1. (r.polarity # 0 <=> r.polarity = 3) /\ (r.trigger # 0 <=> r.trigger = 3)
    BY <1>1
  <2>2. {10} \cup (IF r.polarity # 0 THEN {13} ELSE {}) \cup (IF r.trigger # 0 THEN {15} ELSE {})
          = {10} \cup LineFlags(r)
    BY <2>1 DEF LineFlags, Low, Level
  <2> QED
    BY <2>2, Zenon DEF NmiEntry
<1>2. ASSUME NEW r
      PROVE  LvtOf(r) \cap {8, 9, 10, 13, 16} = {10} \cup (LineFlags(r) \cap {13})
  BY DEF LvtOf, LineFlags
<1>3. \A r : LintOf(r) = IF r.lint = 0 THEN "LINT0" ELSE "LINT1"
  BY DEF LintOf
<1> QED
  BY <1>1, <1>2, <1>3

\* The parts at the end of main: the non-maskable interrupts.
LEMMA PartsNmis ==
  ASSUME Parts, todo = <<>>
  PROVE  NmisAsFirmwareSays
<1>1. PICK f \in Firmware : f = firmware
  BY DEF Parts
<1>2. Steps(todo) = {} /\ iflag /\ MadtsOf(f) # {}
  BY <1>1, EndRouted, AtEnd, Zenon
<1>3. /\ IsTable(f, redir) /\ Planned(f, TRUE, {}) /\ Nmis(f, IOAPIC_BASE, redir, {})
      /\ Local(f, apic_base, HAS_X2APIC, lapic, {})
  BY <1>1, <1>2, Zenon DEF Parts, Planned
<1>4. \A type \in 1 .. 4 : \A r \in RecordsOf(f, type) : HasRead(f, {}, r)
  BY <1>3, LateIs
<1>5. f.bsp = 0 /\ \A r \in RecordsOf(f, 3) : r.global_system_interrupt \in 0 .. f.pins - 1
  BY MachineIs DEF HandedOver, NmisApart
<1>6. ASSUME NEW r \in Records(3), {r.polarity, r.trigger} \subseteq {0, 3}
      PROVE  redir[r.global_system_interrupt] =
               [low |-> Entry(0, {10} \cup LineFlags(r)), destination |-> 0]
  <2>1. r \in RecordsOf(f, 3) /\ 3 \in 1 .. 4
    BY <1>1, <1>6 DEF Records
  <2>2. Towards(f, IOAPIC_BASE, redir, {}, r.global_system_interrupt, NmiEntry(r))
    BY <1>3, <1>4, <2>1, Zenon DEF Nmis
  <2>3. PICK p \in 0 .. f.pins - 1 : p = r.global_system_interrupt
    BY <1>5, <2>1
  <2>4. redir[p].low = NmiEntry(r) /\ redir[p].destination = 0
    BY <1>1, <2>2, <2>3, AtEnd
  <2>5. redir[p] = [low |-> redir[p].low, destination |-> redir[p].destination]
    BY <1>3, TableIs
  <2>6. redir[p] = [low |-> NmiEntry(r), destination |-> 0]
    BY <2>4, <2>5
  <2>7. NmiEntry(r) = Entry(0, {10} \cup LineFlags(r))
    BY <1>6, FlagsAre
  <2> QED
    BY <2>3, <2>6, <2>7
<1>7. {r \in Records(4) : r.processor_id \in {firmware.bsp, 255}} = MineOf(f)
  BY <1>1, <1>5, Zenon DEF Records, MineOf
<1>8. Settled(f, apic_base, HAS_X2APIC, lapic, {}) /\ \A r \in MineOf(f) : Lint(f, lapic, {}, r)
  <2>1. \A table \in MadtsOf(f) : ~Awaits({}, table, "acpi_parse_madt")
    BY <1>3, LateIs
  <2>2. Begun(f, apic_base, HAS_X2APIC, lapic, {})
        /\ \A r \in MineOf(f) : HasRead(f, {}, r) => Lint(f, lapic, {}, r)
    BY <1>3, LocalIs
  <2>3. \A r \in MineOf(f) : HasRead(f, {}, r)
    <3>1. 4 \in 1 .. 4
      OBVIOUS
    <3> QED
      BY <1>4, <3>1 DEF MineOf
  <2> QED
    BY <1>2, <2>1, <2>2, <2>3 DEF Begun
<1>9. ASSUME NEW r \in MineOf(f)
      PROVE  lapic[IF r.lint = 0 THEN "LINT0" ELSE "LINT1"] \cap {8, 9, 10, 13, 16} =
               {10} \cup (LineFlags(r) \cap {13})
  <2>1. lapic[LintOf(r)] = LvtOf(r)
    BY <1>8, <1>9 DEF Lint
  <2> QED
    BY <2>1, FlagsAre, Zenon
<1>10. ASSUME NEW reg \in Lvts \ ({reg \in {"LINT0", "LINT1"} :
                    \E r \in MineOf(f) : reg = (IF r.lint = 0 THEN "LINT0" ELSE "LINT1")} \cup {"CMCI"})
       PROVE  16 \in lapic[reg]
  <2>1. \A r : LintOf(r) \in {"LINT0", "LINT1"}
    BY DEF LintOf
  <2>2. ~ \E r \in MineOf(f) : reg = LintOf(r)
    BY <1>10, <2>1, FlagsAre
  <2> QED
    BY <1>8, <1>10, <2>2 DEF Settled, Lines
<1>12. lapic["CMCI"] = firmware.lvt
  BY <1>1, <1>3, Zenon DEF Local, Shaped
<1>11. /\ \A r \in Records(3) : {r.polarity, r.trigger} \subseteq {0, 3} =>
             redir[r.global_system_interrupt] =
               [low |-> Entry(0, {10} \cup LineFlags(r)), destination |-> 0]
       /\ \A r \in {r \in Records(4) : r.processor_id \in {firmware.bsp, 255}} :
             lapic[IF r.lint = 0 THEN "LINT0" ELSE "LINT1"] \cap {8, 9, 10, 13, 16} =
               {10} \cup (LineFlags(r) \cap {13})
       /\ \A reg \in Lvts \ ({reg \in {"LINT0", "LINT1"} :
             \E r \in {r \in Records(4) : r.processor_id \in {firmware.bsp, 255}} :
               reg = (IF r.lint = 0 THEN "LINT0" ELSE "LINT1")} \cup {"CMCI"}) : 16 \in lapic[reg]
  BY <1>6, <1>7, <1>9, <1>10, ZenonT(30)
<1> QED
  BY <1>11, <1>12, Zenon DEF NmisAsFirmwareSays

-----------------------------------------------------------------------------
(* Before a step and after it.                                             *)

\* Before a step.
LEMMA Enter ==
  ASSUME IInv, PInv, NEW op, At(op)
  PROVE  /\ Runs(panic) /\ Parts /\ Typing /\ firmware \in Firmware
         /\ IsSeq(todo) /\ todo # <<>> /\ Head(todo).op = op
         /\ Head(todo) \in Steps(todo) /\ Planned(firmware, iflag, Steps(todo))
         /\ Allowed(firmware, iflag, Head(todo))
<1>1. /\ Runs(panic) /\ Typing /\ firmware \in Firmware
      /\ todo # <<>> /\ Head(todo).op = op
  BY Here
<1>2. Parts
  BY <1>1, Zenon DEF PInv
<1>3. IsSeq(todo) /\ Planned(firmware, iflag, Steps(todo))
  BY <1>2, Zenon DEF Parts
<1>4. Head(todo) \in Steps(todo)
  BY <1>1, <1>3, StepsTail
<1> QED
  BY <1>1, <1>2, <1>3, <1>4, Zenon DEF Planned

\* The machine goes on.
LEMMA Close ==
  ASSUME Parts'
  PROVE  PInv'
<1>1. (Parts => NoStrayVector)'
  BY PartsSafe, PTL
<1> QED
  BY <1>1, Zenon DEF PInv

\* The machine stops.
LEMMA Stop ==
  ASSUME PInv, ~Runs(panic'), UNCHANGED <<redir, pic, iflag, firmware>>
  PROVE  PInv'
<1>1. redir' = redir /\ pic' = pic /\ iflag' = iflag /\ firmware' = firmware
  OBVIOUS
<1>2. NoStrayVector
  BY Zenon DEF PInv
<1>3. NoStrayVector'
  <2>1. /\ Pins' = Pins /\ LastPin' = LastPin
        /\ Wanted' = Wanted /\ Madts' = Madts
    BY <1>1, Zenon DEF Pins, LastPin, Wanted, Ps2Works, Has8042, Fadts, Madts
  <2>2. \A irq : PinOf(irq)' = PinOf(irq) /\ EntryOf(irq)' = EntryOf(irq)
    BY <1>1, Zenon DEF PinOf, EntryOf
  <2>3. \A pin : Delivers(pin)' <=> Delivers(pin)
    BY <1>1, Zenon DEF Delivers
  <2>4. ASSUME NEW pin \in Pins, Delivers(pin)
        PROVE  /\ \E irq \in Wanted : pin = PinOf(irq) /\ redir[pin].low = EntryOf(irq)
               /\ pin # LastPin => redir[pin].destination = 0
    BY <1>2, <2>4, Zenon DEF NoStrayVector
  <2>5. ASSUME NEW pin \in Pins', Delivers(pin)'
        PROVE  /\ \E irq \in Wanted' : pin = PinOf(irq)' /\ redir'[pin].low = EntryOf(irq)'
               /\ pin # LastPin' => redir'[pin].destination = 0
    BY <1>1, <2>1, <2>2, <2>3, <2>4, <2>5
  <2>6. /\ \A chip \in Chips : pic[chip].expects = "OCW1" => pic[chip].mask = 255 \/ pic[chip].base >= 32
        /\ (iflag /\ \E table \in Madts : table.pcat_compat) =>
             \A chip \in Chips :
               pic[chip] = [expects |-> "OCW1", base |-> IF chip = "PIC1" THEN 32 ELSE 40,
                            cascade |-> IF chip = "PIC1" THEN 4 ELSE 2, mask |-> 255]
    BY <1>2, Zenon DEF NoStrayVector
  <2>7. /\ \A chip \in Chips : pic'[chip].expects = "OCW1" => pic'[chip].mask = 255 \/ pic'[chip].base >= 32
        /\ (iflag' /\ \E table \in Madts' : table.pcat_compat) =>
             \A chip \in Chips :
               pic'[chip] = [expects |-> "OCW1", base |-> IF chip = "PIC1" THEN 32 ELSE 40,
                             cascade |-> IF chip = "PIC1" THEN 4 ELSE 2, mask |-> 255]
    BY <1>1, <2>1, <2>6
  <2> QED
    BY <2>5, <2>7, Zenon DEF NoStrayVector
<1> QED
  BY <1>3, Zenon DEF PInv

\* What a call leaves of each part.
LEMMA Kept ==
  ASSUME Parts, todo # <<>>, NEW body, IsSeq(body), Call(body), NEW f \in Firmware, f = firmware,
         NEW x, x = Head(todo), NEW B, B = Steps(body), Follow(f, x, B), NEW A2, A2 = Steps(todo')
  PROVE  /\ IsSeq(todo') /\ panic' = panic
         /\ Moved(Steps(todo), x, Steps(Tail(todo)), B, A2)
         /\ (\A y \in B : Allowed(f, iflag, y)) /\ x.op # "enable_interrupts" => Planned(f, iflag, A2)
         /\ x.op # "ioapic_write32" => Cleared(f, iflag, IOAPIC_BASE, redir, A2)
         /\ x.op # "ioapic_init_source_override" => Sourced(f, ISA_REDIRECTION_ENTRY, A2)
         /\ x.op \notin {"ioapic_write32", "serial_init", "ps2_init"} =>
              Routed(f, iflag, IOAPIC_BASE, redir, A2)
         /\ NmiSafe(f, B) /\ x.op \notin {"ioapic_write32", "ioapic_init_nmisource"} =>
              Nmis(f, IOAPIC_BASE, redir, A2)
         /\ x.op # "acpi_parse_fadt" => Legacy(f, has_i8042, A2)
         /\ /\ x.op \notin {"lapic_init_begin", "wrmsr_base", "lapic_write", "lapic_init_nmi"}
            /\ x.op = "acpi_parse_madt" => [op |-> "lapic_init_begin"] \in B
            /\ \A y \in B : y.op # "lapic_write"
            => Local(f, apic_base, HAS_X2APIC, lapic, A2)
         /\ NoPics(B) /\ x.op \notin PicOps /\ x.op # "acpi_parse_madt" =>
              Legacies(f, pic, todo', A2)
<1>1. PICK A, R : A = Steps(todo) /\ R = Steps(Tail(todo))
  OBVIOUS
<1>2. /\ IsSeq(todo) /\ Planned(f, iflag, A)
      /\ Cleared(f, iflag, IOAPIC_BASE, redir, A)
      /\ Sourced(f, ISA_REDIRECTION_ENTRY, A)
      /\ Routed(f, iflag, IOAPIC_BASE, redir, A)
      /\ Nmis(f, IOAPIC_BASE, redir, A)
      /\ Legacy(f, has_i8042, A)
      /\ Local(f, apic_base, HAS_X2APIC, lapic, A)
      /\ Legacies(f, pic, todo, A)
  BY <1>1, Zenon DEF Parts
<1>3. IsSeq(todo') /\ panic' = panic /\ Moved(A, x, R, B, A2)
  BY <1>1, <1>2, Moves
<1>4. (\A y \in B : Allowed(f, iflag, y)) /\ x.op # "enable_interrupts" => Planned(f, iflag, A2)
  BY <1>2, <1>3, PlannedKept
<1>5. x.op # "ioapic_write32" => Cleared(f, iflag, IOAPIC_BASE, redir, A2)
  BY <1>2, <1>3, ClearedKept
<1>6. x.op # "ioapic_init_source_override" => Sourced(f, ISA_REDIRECTION_ENTRY, A2)
  BY <1>2, <1>3, SourcedKept
<1>7. x.op \notin {"ioapic_write32", "serial_init", "ps2_init"} =>
        Routed(f, iflag, IOAPIC_BASE, redir, A2)
  BY <1>2, <1>3, RoutedKept
<1>8. NmiSafe(f, B) /\ x.op \notin {"ioapic_write32", "ioapic_init_nmisource"} =>
        Nmis(f, IOAPIC_BASE, redir, A2)
  BY <1>2, <1>3, NmisKept
<1>9. x.op # "acpi_parse_fadt" => Legacy(f, has_i8042, A2)
  BY <1>2, <1>3, LegacyKept
<1>10. /\ x.op \notin {"lapic_init_begin", "wrmsr_base", "lapic_write", "lapic_init_nmi"}
       /\ x.op = "acpi_parse_madt" => [op |-> "lapic_init_begin"] \in B
       /\ \A y \in B : y.op # "lapic_write"
       => Local(f, apic_base, HAS_X2APIC, lapic, A2)
  BY <1>2, <1>3, LocalKept
<1>11. NoPics(B) /\ x.op \notin PicOps /\ x.op # "acpi_parse_madt" => Legacies(f, pic, todo', A2)
  <2>1. todo' = body \o Tail(todo)
    BY DEF Call
  <2> SUFFICES ASSUME NoPics(B), x.op \notin PicOps, x.op # "acpi_parse_madt"
               PROVE  Legacies(f, pic, todo', A2)
    OBVIOUS
  <2>2. Legacies(f, pic, body \o Tail(todo), Steps(body \o Tail(todo)))
    BY <1>1, <1>2, LegaciesKept
  <2> QED
    BY <2>1, <2>2, Zenon
<1> QED
  BY <1>1, <1>3, <1>4, <1>5, <1>6, <1>7, <1>8, <1>9, <1>10, <1>11

-----------------------------------------------------------------------------
(* The steps keep it: the tables.                                          *)

\* Nothing is done but to call what reads the tables further.
LEMMA Quietly ==
  ASSUME Parts, todo # <<>>, NEW body, IsSeq(body), Call(body), NEW f \in Firmware, f = firmware,
         NEW x, x = Head(todo), NEW B, B = Steps(body), Follow(f, x, B),
         UNCHANGED <<lapicVars, pic, ioapicVars, firmware, has_i8042, iflag>>,
         x.op \in {"acpi_parse_rsdp", "parse_sdt", "madt_record"},
         ~iflag, \A y \in B : Reads(f, y)
  PROVE  Parts'
<1>1. PICK A2 : A2 = Steps(todo')
  OBVIOUS
<1>2. \A y \in B : y.op \in SetupOps \cup RecordOps
  BY ReadsOps
<1>3. NoPics(B) /\ NmiSafe(f, B) /\ \A y \in B : y.op # "lapic_write" /\ y.op # "ioapic_write32"
  BY <1>2 DEF NoPics, NmiSafe, SetupOps, RecordOps, PicOps
<1>4. \A y \in B : Allowed(f, iflag, y)
  BY DEF Allowed
<1>5. /\ IsSeq(todo') /\ Planned(f, iflag, A2) /\ Cleared(f, iflag, IOAPIC_BASE, redir, A2)
      /\ Sourced(f, ISA_REDIRECTION_ENTRY, A2) /\ Routed(f, iflag, IOAPIC_BASE, redir, A2)
      /\ Nmis(f, IOAPIC_BASE, redir, A2) /\ Legacy(f, has_i8042, A2)
      /\ Local(f, apic_base, HAS_X2APIC, lapic, A2) /\ Legacies(f, pic, todo', A2)
  BY <1>1, <1>3, <1>4, Kept DEF PicOps
<1>6. IsTable(f, redir) /\ Silent(f, iflag, IOAPIC_BASE, redir)
  BY Zenon DEF Parts
<1>7. /\ firmware' = f /\ has_i8042' = has_i8042 /\ iflag' = iflag /\ pic' = pic
      /\ IOAPIC_BASE' = IOAPIC_BASE /\ redir' = redir
      /\ ISA_REDIRECTION_ENTRY' = ISA_REDIRECTION_ENTRY
      /\ apic_base' = apic_base /\ HAS_X2APIC' = HAS_X2APIC /\ lapic' = lapic
  BY DEF lapicVars, ioapicVars
<1> QED
  BY <1>1, <1>5, <1>6, <1>7, Zenon DEF Parts

\* acpi_parse_rsdp keeps the invariant.
LEMMA RsdpPins ==
  ASSUME IInv, PInv, acpi_parse_rsdp
  PROVE  PInv'
<1>1. At("acpi_parse_rsdp") /\ UNCHANGED <<lapicVars, pic, ioapicVars, firmware, has_i8042, iflag>>
  BY Zenon DEF acpi_parse_rsdp
<1>2. PICK f \in Firmware : f = firmware
  BY <1>1, Here
<1>3. PICK body : body = [i \in DOMAIN f.tables |-> step("parse_sdt", f.tables[i])]
  OBVIOUS
<1>4. panic' = "Invalid SDT" \/ Call(body)
  BY <1>2, <1>3, Zenon DEF acpi_parse_rsdp, Panic
<1>5. CASE panic' = "Invalid SDT"
  <2>1. ~Runs(panic')
    BY <1>5, Messages, Zenon
  <2> QED
    BY <1>1, <2>1, Stop DEF ioapicVars
<1>6. CASE Call(body)
  <2>1. PICK x, B : x = Head(todo) /\ B = Steps(body)
    OBVIOUS
  <2>2. /\ Parts /\ todo # <<>> /\ x.op = "acpi_parse_rsdp" /\ Allowed(f, iflag, x)
    BY <1>1, <1>2, <2>1, Enter
  <2>3. ~iflag
    BY <2>2, Shapes
  <2>4. IsSeq(body)
    <3>1. PICK len \in Nat : DOMAIN f.tables = 1 .. len
      BY TablesAre
    <3>2. body \in Seq({body[i] : i \in DOMAIN body})
      BY <1>3, <3>1
    <3> QED
      BY <3>2 DEF IsSeq
  <2>5. /\ \A y \in B : \E table \in InAnyOrder(f.tables) : y = step("parse_sdt", table)
        /\ \A table \in InAnyOrder(f.tables) : step("parse_sdt", table) \in B
    BY <1>3, <2>1 DEF Steps, InAnyOrder
  <2>6. \A y \in B : Reads(f, y)
    BY <2>5 DEF Reads
  <2>7. Follow(f, x, B)
    <3>1. /\ \A record : x # step("parse_sdt", record) /\ x # step("acpi_parse_madt", record)
          /\ \A table, i : x # Loops(table, i)
      BY <2>2, StepOps
    <3> QED
      BY <2>5, <3>1, Zenon DEF Follow
  <2>8. Parts'
    BY <1>1, <1>2, <1>6, <2>1, <2>2, <2>3, <2>4, <2>6, <2>7, Quietly
  <2> QED
    BY <2>8, Close
<1> QED
  BY <1>4, <1>5, <1>6

\* parse_sdt keeps the invariant.
LEMMA SdtPins ==
  ASSUME IInv, PInv, parse_sdt
  PROVE  PInv'
<1>1. At("parse_sdt") /\ UNCHANGED <<lapicVars, pic, ioapicVars, firmware, has_i8042, iflag>>
  BY Zenon DEF parse_sdt
<1>2. PICK f \in Firmware : f = firmware
  BY <1>1, Here
<1>3. PICK x : x = Head(todo)
  OBVIOUS
<1>4. PICK body : body = CASE x.record.signature = "APIC" -> <<step("acpi_parse_madt", x.record)>>
                           [] x.record.signature = "FACP" -> <<step("acpi_parse_fadt", x.record)>>
                           [] OTHER -> <<>>
  OBVIOUS
<1>5. panic' = "Invalid SDT" \/ Call(body)
  BY <1>2, <1>3, <1>4, Zenon DEF parse_sdt, Panic, Step
<1>6. CASE panic' = "Invalid SDT"
  <2>1. ~Runs(panic')
    BY <1>6, Messages, Zenon
  <2> QED
    BY <1>1, <2>1, Stop DEF ioapicVars
<1>7. CASE Call(body)
  <2>1. PICK B : B = Steps(body)
    OBVIOUS
  <2>2. /\ Parts /\ todo # <<>> /\ x.op = "parse_sdt" /\ Allowed(f, iflag, x)
    BY <1>1, <1>2, <1>3, Enter
  <2>3. ~iflag /\ Reads(f, x)
    BY <2>2, Shapes DEF SetupOps
  <2>4. PICK table \in InAnyOrder(f.tables) : x = step("parse_sdt", table)
    BY <2>2, <2>3, ReadsAre
  <2>5. x.record = table
    BY <2>4, StepOps
  <2>6. /\ table.signature = "APIC" => body = <<step("acpi_parse_madt", table)>>
        /\ table.signature = "FACP" => body = <<step("acpi_parse_fadt", table)>>
        /\ table.signature # "APIC" /\ table.signature # "FACP" => body = <<>>
    BY <1>4, <2>5
  <2>7. /\ table.signature = "APIC" => table \in MadtsOf(f)
        /\ table.signature = "FACP" => table \in FadtsOf(f)
        /\ \A t \in MadtsOf(f) : t.signature = "APIC"
        /\ \A t \in FadtsOf(f) : t.signature = "FACP"
    BY DEF MadtsOf, FadtsOf
  <2>8. IsSeq(body) /\ /\ table.signature = "APIC" => B = {step("acpi_parse_madt", table)}
                       /\ table.signature = "FACP" => B = {step("acpi_parse_fadt", table)}
                       /\ table.signature # "APIC" /\ table.signature # "FACP" => B = {}
    <3>1. CASE table.signature = "APIC"
      BY <2>1, <2>6, <3>1, OneIs, StepsOne
    <3>2. CASE table.signature = "FACP"
      BY <2>1, <2>6, <3>2, OneIs, StepsOne
    <3>3. CASE table.signature # "APIC" /\ table.signature # "FACP"
      <4>1. IsSeq(<<>>)
        BY AllOfNone DEF AllOf
      <4> QED
        BY <2>1, <2>6, <3>3, <4>1, StepsNone
    <3> QED
      BY <3>1, <3>2, <3>3
  <2>9. \A y \in B : Reads(f, y)
    BY <2>7, <2>8 DEF Reads
  <2>10. Follow(f, x, B)
    <3>1. /\ x # [op |-> "acpi_parse_rsdp"]
          /\ \A t : x # step("acpi_parse_madt", t)
          /\ \A t, i : x # Loops(t, i)
      BY <2>2, StepOps
    <3>2. \A t : x = step("parse_sdt", t) => t = table
      BY <2>5, StepOps
    <3>3. \A t \in MadtsOf(f) : x = step("parse_sdt", t) => step("acpi_parse_madt", t) \in B
      BY <2>7, <2>8, <3>2
    <3>4. \A t \in FadtsOf(f) : x = step("parse_sdt", t) => step("acpi_parse_fadt", t) \in B
      BY <2>7, <2>8, <3>2
    <3> QED
      BY <3>1, <3>3, <3>4, Zenon DEF Follow
  <2>11. Parts'
    BY <1>1, <1>2, <1>3, <1>7, <2>1, <2>2, <2>3, <2>8, <2>9, <2>10, Quietly
  <2> QED
    BY <2>11, Close
<1> QED
  BY <1>5, <1>6, <1>7

-----------------------------------------------------------------------------
(* The steps keep it: the records of a MADT.                               *)

\* A turn of the loop over the records keeps the invariant.
LEMMA RecordPins ==
  ASSUME IInv, PInv, madt_record
  PROVE  PInv'
<1>1. At("madt_record") /\ UNCHANGED <<lapicVars, pic, ioapicVars, firmware, has_i8042, iflag>>
  BY Zenon DEF madt_record
<1>2. PICK f \in Firmware : f = firmware
  BY <1>1, Here
<1>3. PICK x : x = Head(todo)
  OBVIOUS
<1>4. /\ Parts /\ todo # <<>> /\ x.op = "madt_record" /\ Allowed(f, iflag, x)
  BY <1>1, <1>2, <1>3, Enter
<1>5. ~iflag /\ Reads(f, x)
  BY <1>4, Shapes DEF SetupOps
<1>6. PICK table \in MadtsOf(f), i \in Nat \ {0} : x = Loops(table, i)
  BY <1>4, <1>5, ReadsAre
<1>7. PICK k \in DOMAIN f.tables : table = f.tables[k] /\ IsMadt(f, k)
  BY <1>6 DEF MadtsOf, InAnyOrder, IsMadt
<1>8. PICK len \in Nat : len = Len(table.records) /\ DOMAIN table.records = 1 .. len
  BY <1>7, TablesAre
<1>9. PICK r, again, next : /\ r = table.records[i] /\ again = [x EXCEPT !.i = NextRecord(i, r)]
                            /\ next = Loops(table, i + 1)
  OBVIOUS
<1>10. i <= len => r.length = 1 /\ again = next
  <2> SUFFICES ASSUME i <= len PROVE r.length = 1 /\ again = next
    OBVIOUS
  <2>1. r.length = 1
    BY <1>7, <1>8, <1>9, TablesAre
  <2> QED
    BY <1>6, <1>9, <2>1 DEF NextRecord, Loops
<1>11. \/ i > len /\ Call(<<>>)
       \/ i <= len /\ r.type = 0 /\ Call(<<next>>)
       \/ i <= len /\ r.type \in 1 .. 4 /\ Call(<<step(Handler(r.type), r)>> \o <<next>>)
       \/ panic' = "Unknown MADT struct"
  <2>1. x.i = i /\ x.table = table
    BY <1>6, StepOps
  <2>2. \/ i > len /\ Call(<<>>)
        \/ i <= len /\ r.type = 0 /\ Call(<<again>>)
        \/ i <= len /\ r.type = 1 /\ Call(<<step("ioapic_init_register", r)>> \o <<again>>)
        \/ i <= len /\ r.type = 2 /\ Call(<<step("ioapic_init_source_override", r)>> \o <<again>>)
        \/ i <= len /\ r.type = 3 /\ Call(<<step("ioapic_init_nmisource", r)>> \o <<again>>)
        \/ i <= len /\ r.type = 4 /\ Call(<<step("lapic_init_nmi", r)>> \o <<again>>)
        \/ panic' = "Unknown MADT struct"
    BY <1>3, <1>8, <1>9, <2>1, Zenon DEF madt_record, Step, Return, Panic
  <2>3. 1 \in 1 .. 4 /\ 2 \in 1 .. 4 /\ 3 \in 1 .. 4 /\ 4 \in 1 .. 4
    OBVIOUS
  <2> QED
    BY <1>10, <2>2, <2>3, HandlersAre, Zenon
<1>12. CASE panic' = "Unknown MADT struct"
  <2>1. ~Runs(panic')
    BY <1>12, Messages, Zenon
  <2> QED
    BY <1>1, <2>1, Stop DEF ioapicVars
<1>13. ASSUME NEW body, NEW B, B = Steps(body), IsSeq(body), Call(body),
              \A y \in B : y = next \/ (r.type \in 1 .. 4 /\ i <= len /\ y = step(Handler(r.type), r)),
              i <= len => next \in B,
              i <= len /\ r.type \in 1 .. 4 => step(Handler(r.type), r) \in B
       PROVE  PInv'
  <2>1. ASSUME NEW y \in B PROVE Reads(f, y)
    <3>1. CASE y = next
      <4>1. i + 1 \in Nat \ {0}
        OBVIOUS
      <4> QED
        BY <1>9, <3>1, <4>1 DEF Reads
    <3>2. CASE r.type \in 1 .. 4 /\ i <= len /\ y = step(Handler(r.type), r)
      <4>1. r \in RecordsOf(f, r.type)
        BY <1>7, <1>8, <1>9, <3>2, Listed
      <4> QED
        BY <3>2, <4>1 DEF Reads
    <3> QED
      BY <1>13, <2>1, <3>1, <3>2
  <2>2. Follow(f, x, B)
    <3>1. /\ x # [op |-> "acpi_parse_rsdp"]
          /\ \A t : x # step("parse_sdt", t) /\ x # step("acpi_parse_madt", t)
      BY <1>4, StepOps
    <3>2. \A t, j : x = Loops(t, j) => t = table /\ j = i
      <4>1. /\ x.table = table /\ x.i = i
            /\ \A t, j : Loops(t, j).table = t /\ Loops(t, j).i = j
        BY <1>6, StepOps
      <4> QED
        BY <4>1, ZenonT(30)
    <3>3. \A t \in MadtsOf(f) : \A j \in DOMAIN t.records : x = Loops(t, j) =>
             /\ Loops(t, j + 1) \in B
             /\ t.records[j].type \in 1 .. 4 =>
                  step(Handler(t.records[j].type), t.records[j]) \in B
      BY <1>8, <1>9, <1>13, <3>2
    <3> QED
      BY <3>1, <3>3, Zenon DEF Follow
  <2>3. Parts'
    BY <1>1, <1>2, <1>3, <1>4, <1>5, <1>13, <2>1, <2>2, Quietly
  <2> QED
    BY <2>3, Close
<1>14. CASE i > len /\ Call(<<>>)
  <2>1. IsSeq(<<>>)
    BY AllOfNone DEF AllOf
  <2>2. PICK body, B : body = <<>> /\ B = Steps(body)
    OBVIOUS
  <2>3. B = {} /\ IsSeq(body) /\ Call(body)
    BY <1>14, <2>1, <2>2, StepsNone
  <2> QED
    BY <1>8, <1>13, <1>14, <2>2, <2>3
<1>15. CASE i <= len /\ r.type = 0 /\ Call(<<next>>)
  <2>1. PICK body, B : body = <<next>> /\ B = Steps(body)
    OBVIOUS
  <2>2. B = {next} /\ IsSeq(body) /\ Call(body)
    BY <1>15, <2>1, OneIs, StepsOne
  <2> QED
    BY <1>13, <1>15, <2>1, <2>2
<1>16. CASE i <= len /\ r.type \in 1 .. 4 /\ Call(<<step(Handler(r.type), r)>> \o <<next>>)
  <2>1. PICK y : y = step(Handler(r.type), r)
    OBVIOUS
  <2>2. PICK a, b : a = <<y>> /\ b = <<next>>
    OBVIOUS
  <2>3. IsSeq(a) /\ IsSeq(b) /\ Steps(a) = {y} /\ Steps(b) = {next}
    BY <2>2, OneIs, StepsOne
  <2>4. PICK body, B : body = a \o b /\ B = Steps(body)
    OBVIOUS
  <2>5. IsSeq(body) /\ B = {y, next} /\ Call(body)
    BY <1>16, <2>1, <2>2, <2>3, <2>4, StepsCat, CatIs
  <2> QED
    BY <1>13, <1>16, <2>1, <2>4, <2>5
<1> QED
  BY <1>11, <1>12, <1>14, <1>15, <1>16

\* What a return leaves of each part.
LEMMA Returned ==
  ASSUME Parts, todo # <<>>, Return, NEW f \in Firmware, f = firmware,
         NEW x, x = Head(todo), Follow(f, x, {}), NEW A2, A2 = Steps(todo')
  PROVE  /\ IsSeq(todo') /\ panic' = panic /\ todo' = Tail(todo)
         /\ Moved(Steps(todo), x, Steps(Tail(todo)), {}, A2)
         /\ x.op # "enable_interrupts" => Planned(f, iflag, A2)
         /\ x.op # "ioapic_write32" => Cleared(f, iflag, IOAPIC_BASE, redir, A2)
         /\ x.op # "ioapic_init_source_override" => Sourced(f, ISA_REDIRECTION_ENTRY, A2)
         /\ x.op \notin {"ioapic_write32", "serial_init", "ps2_init"} =>
              Routed(f, iflag, IOAPIC_BASE, redir, A2)
         /\ x.op \notin {"ioapic_write32", "ioapic_init_nmisource"} =>
              Nmis(f, IOAPIC_BASE, redir, A2)
         /\ x.op # "acpi_parse_fadt" => Legacy(f, has_i8042, A2)
         /\ x.op \notin {"acpi_parse_madt", "lapic_init_begin", "wrmsr_base", "lapic_write",
                         "lapic_init_nmi"} => Local(f, apic_base, HAS_X2APIC, lapic, A2)
         /\ x.op \notin PicOps /\ x.op # "acpi_parse_madt" => Legacies(f, pic, todo', A2)
<1>1. PICK body, B : body = <<>> /\ B = Steps(body)
  OBVIOUS
<1>2. IsSeq(body) /\ B = {} /\ Call(body)
  <2>1. Call(body)
    BY <1>1, Zenon DEF Return
  <2> QED
    BY <1>1, <2>1, AllOfNone, StepsNone DEF AllOf
<1>3. NmiSafe(f, B) /\ NoPics(B)
  BY <1>2 DEF NmiSafe, NoPics
<1>4. todo' = Tail(todo)
  <2>1. IsSeq(todo)
    BY Zenon DEF Parts
  <2>2. IsSeq(Tail(todo))
    BY <2>1, TailIs
  <2> QED
    BY <2>2, CallNothing DEF Return, Call
<1>5. Follow(f, x, B)
  BY <1>2
<1>6. /\ IsSeq(todo') /\ panic' = panic
      /\ Moved(Steps(todo), x, Steps(Tail(todo)), B, A2)
      /\ x.op # "enable_interrupts" => Planned(f, iflag, A2)
      /\ x.op # "ioapic_write32" => Cleared(f, iflag, IOAPIC_BASE, redir, A2)
      /\ x.op # "ioapic_init_source_override" => Sourced(f, ISA_REDIRECTION_ENTRY, A2)
      /\ x.op \notin {"ioapic_write32", "serial_init", "ps2_init"} =>
           Routed(f, iflag, IOAPIC_BASE, redir, A2)
      /\ x.op \notin {"ioapic_write32", "ioapic_init_nmisource"} =>
           Nmis(f, IOAPIC_BASE, redir, A2)
      /\ x.op # "acpi_parse_fadt" => Legacy(f, has_i8042, A2)
      /\ x.op \notin {"acpi_parse_madt", "lapic_init_begin", "wrmsr_base", "lapic_write",
                      "lapic_init_nmi"} => Local(f, apic_base, HAS_X2APIC, lapic, A2)
      /\ x.op \notin PicOps /\ x.op # "acpi_parse_madt" => Legacies(f, pic, todo', A2)
  BY <1>1, <1>2, <1>3, <1>5, Kept
<1> QED
  BY <1>2, <1>4, <1>6

\* acpi_parse_fadt keeps the invariant: the 8042 is known from here on.
LEMMA FadtPins ==
  ASSUME IInv, PInv, acpi_parse_fadt
  PROVE  PInv'
<1>1. /\ At("acpi_parse_fadt") /\ Return
      /\ UNCHANGED <<lapicVars, pic, ioapicVars, firmware, iflag>>
  BY Zenon DEF acpi_parse_fadt
<1>2. PICK f \in Firmware : f = firmware
  BY <1>1, Here
<1>3. PICK x, A2 : x = Head(todo) /\ A2 = Steps(todo')
  OBVIOUS
<1>4. /\ Parts /\ todo # <<>> /\ x.op = "acpi_parse_fadt" /\ Allowed(f, iflag, x)
  BY <1>1, <1>2, <1>3, Enter
<1>5. ~iflag /\ Reads(f, x)
  BY <1>4, Shapes DEF SetupOps
<1>6. PICK table \in FadtsOf(f) : x = step("acpi_parse_fadt", table)
  BY <1>4, <1>5, ReadsAre
<1>7. has_i8042' = (table.boot_arch_8042 \/ (~table.hw_reduced /\ has_i8042))
  <2>1. x.record = table
    BY <1>6, StepOps
  <2> QED
    BY <1>3, <2>1, Zenon DEF acpi_parse_fadt, Step
<1>8. Follow(f, x, {})
  BY <1>4, FollowOther
<1>9. /\ IsSeq(todo') /\ Planned(f, iflag, A2) /\ Cleared(f, iflag, IOAPIC_BASE, redir, A2)
      /\ Sourced(f, ISA_REDIRECTION_ENTRY, A2) /\ Routed(f, iflag, IOAPIC_BASE, redir, A2)
      /\ Nmis(f, IOAPIC_BASE, redir, A2)
      /\ Local(f, apic_base, HAS_X2APIC, lapic, A2) /\ Legacies(f, pic, todo', A2)
  BY <1>1, <1>2, <1>3, <1>4, <1>8, Returned DEF PicOps
<1>10. has_i8042' \in BOOLEAN /\ (has_i8042' <=> Present(f))
  <2>1. Present(f) <=> table.boot_arch_8042 \/ ~table.hw_reduced
    <3>1. \A t \in FadtsOf(f) : t = table
      BY <1>6, MachineIs DEF OneOfEach
    <3> QED
      BY <1>6, <3>1, Zenon DEF Present
  <2>2. has_i8042 \/ ~Present(f)
    BY <1>2, <1>4, Zenon DEF Parts, Legacy
  <2>3. has_i8042' \in BOOLEAN
    BY <1>7
  <2> QED
    BY <1>7, <2>1, <2>2, <2>3, Zenon
<1>11. Legacy(f, has_i8042', A2)
  BY <1>10, Zenon DEF Legacy
<1>12. IsTable(f, redir) /\ Silent(f, iflag, IOAPIC_BASE, redir)
  BY <1>2, <1>4, Zenon DEF Parts
<1>13. /\ firmware' = f /\ iflag' = iflag /\ pic' = pic
       /\ IOAPIC_BASE' = IOAPIC_BASE /\ redir' = redir
       /\ ISA_REDIRECTION_ENTRY' = ISA_REDIRECTION_ENTRY
       /\ apic_base' = apic_base /\ HAS_X2APIC' = HAS_X2APIC /\ lapic' = lapic
  BY <1>1, <1>2 DEF lapicVars, ioapicVars
<1>14. Parts'
  BY <1>3, <1>9, <1>11, <1>12, <1>13, Zenon DEF Parts
<1> QED
  BY <1>14, Close

\* When no step is the chips', they have got all their bytes or none.
LEMMA NoIcws ==
  ASSUME NEW t, IsSeq(t), NoPics(Steps(t)), NEW p \in 0 .. 10, NEW n \in 0 .. Len(t), IcwsLeft(t, p, n)
  PROVE  p = 10
<1> SUFFICES ASSUME p # 10 PROVE FALSE
  OBVIOUS
<1>1. p + 1 \in 1 .. 10 /\ 1 \in 1 .. 10 - p /\ Len(t) \in Nat
  BY StepsAt
<1>2. t[n + 1] = Icws[p + 1] /\ n + 10 - p <= Len(t)
  BY <1>1 DEF IcwsLeft
<1>3. n + 1 \in 1 .. Len(t)
  BY <1>1, <1>2
<1>4. t[n + 1] \in Steps(t)
  BY <1>3, StepsAt
<1>5. t[n + 1].op \in PicOps
  BY <1>1, <1>2, IcwsAre
<1> QED
  BY <1>4, <1>5 DEF NoPics

\* No byte for the chips is left when no step is theirs.
LEMMA NoneLeft ==
  ASSUME NEW t, IsSeq(t), NoPics(Steps(t))
  PROVE  0 \in 0 .. Len(t) /\ IcwsLeft(t, 10, 0)
<1>1. Len(t) \in Nat /\ \A j \in 1 .. Len(t) : t[j].op \notin PicOps
  BY StepsAt DEF NoPics
<1>2. \A m \in 1 .. 10 - 10 : FALSE
  OBVIOUS
<1> QED
  BY <1>1, <1>2 DEF IcwsLeft

\* All ten bytes are to come.
LEMMA AllLeft ==
  ASSUME NEW a, NEW b, IsSeq(a), IsSeq(b), NoPics(Steps(a)), NoPics(Steps(b)),
         NEW t, t = a \o (Icws \o b)
  PROVE  Len(a) \in 0 .. Len(t) /\ IcwsLeft(t, 0, Len(a))
<1>1. /\ IsSeq(Icws) /\ Len(Icws) = 10 /\ \A i \in 1 .. 10 : Icws[i].op \in PicOps
  BY IcwsAre
<1>2. PICK s, w : s = Icws \o b /\ w = Icws
  OBVIOUS
<1>3. /\ IsSeq(s) /\ Len(s) = 10 + Len(b) /\ Len(b) \in Nat
      /\ \A i \in 1 .. 10 + Len(b) : s[i] = IF i <= 10 THEN w[i] ELSE b[i - 10]
  <2>1. /\ IsSeq(w \o b) /\ Len(w \o b) = Len(w) + Len(b) /\ Len(b) \in Nat
        /\ \A i \in 1 .. Len(w) + Len(b) : (w \o b)[i] = IF i <= Len(w) THEN w[i] ELSE b[i - Len(w)]
    BY <1>1, <1>2, CatIs
  <2> QED
    BY <1>1, <1>2, <2>1
<1>4. /\ IsSeq(t) /\ Len(t) = Len(a) + Len(s) /\ Len(a) \in Nat
      /\ \A i \in 1 .. Len(a) + Len(s) : t[i] = IF i <= Len(a) THEN a[i] ELSE s[i - Len(a)]
  <2>1. t = a \o s
    BY <1>2
  <2>2. PICK u : u = a \o s
    OBVIOUS
  <2>3. /\ IsSeq(u) /\ Len(u) = Len(a) + Len(s) /\ Len(a) \in Nat
        /\ \A i \in 1 .. Len(a) + Len(s) : u[i] = IF i <= Len(a) THEN a[i] ELSE s[i - Len(a)]
    BY <1>3, <2>2, CatIs
  <2> QED
    BY <2>1, <2>2, <2>3
<1>5. PICK n \in Nat, l \in Nat : n = Len(a) /\ l = Len(b) /\ Len(t) = n + 10 + l
  BY <1>3, <1>4
<1>6. \A j \in 1 .. n : a[j].op \notin PicOps
  BY <1>5, StepsAt DEF NoPics
<1>7. \A j \in 1 .. l : b[j].op \notin PicOps
  BY <1>5, StepsAt DEF NoPics
<1>8. \A m \in 1 .. 10 : t[n + m] = w[m]
  <2> SUFFICES ASSUME NEW m \in 1 .. 10 PROVE t[n + m] = w[m]
    OBVIOUS
  <2>1. n + m \in 1 .. Len(a) + Len(s) /\ ~(n + m <= Len(a)) /\ (n + m) - Len(a) = m
    BY <1>3, <1>5
  <2>2. t[n + m] = s[m]
    BY <1>4, <2>1
  <2>3. m \in 1 .. 10 + Len(b) /\ m <= 10
    BY <1>5
  <2> QED
    BY <1>3, <2>2, <2>3
<1>9. \A j \in 1 .. Len(t) : t[j].op \in PicOps => n < j /\ j <= n + 10
  <2> SUFFICES ASSUME NEW j \in 1 .. Len(t), ~(n < j /\ j <= n + 10) PROVE t[j].op \notin PicOps
    OBVIOUS
  <2>1. CASE j <= n
    <3>1. t[j] = a[j] /\ j \in 1 .. n
      BY <1>3, <1>4, <1>5, <2>1
    <3> QED
      BY <1>6, <3>1
  <2>2. CASE j > n + 10
    <3>1. j \in 1 .. Len(a) + Len(s) /\ ~(j <= Len(a)) /\ j - n \in 1 .. 10 + Len(b) /\ ~(j - n <= 10)
      BY <1>3, <1>5, <2>2
    <3>2. t[j] = s[j - n]
      BY <1>4, <1>5, <3>1
    <3>3. s[j - n] = b[(j - n) - 10] /\ (j - n) - 10 \in 1 .. l
      BY <1>3, <1>5, <3>1
    <3> QED
      BY <1>7, <3>2, <3>3
  <2> QED
    BY <1>5, <2>1, <2>2
<1>10. Len(a) \in 0 .. Len(t)
  BY <1>5
<1>11. \A m \in 1 .. 10 - 0 : t[n + m] = Icws[0 + m]
  <2> SUFFICES ASSUME NEW m \in 1 .. 10 - 0 PROVE t[n + m] = Icws[0 + m]
    OBVIOUS
  <2>1. m \in 1 .. 10 /\ 0 + m = m
    OBVIOUS
  <2> QED
    BY <1>2, <1>8, <2>1
<1>12. IcwsLeft(t, 0, n)
  <2>1. n + 10 - 0 = n + 10 /\ n + 10 <= Len(t)
    BY <1>5
  <2> QED
    BY <1>9, <1>11, <2>1, Zenon DEF IcwsLeft
<1> QED
  BY <1>5, <1>10, <1>12

\* acpi_parse_madt keeps the invariant: the bytes for the chips are put in front, if any.
LEMMA MadtPins ==
  ASSUME IInv, PInv, acpi_parse_madt
  PROVE  PInv'
<1>1. /\ At("acpi_parse_madt")
      /\ UNCHANGED <<lapicVars, pic, ioapicVars, firmware, has_i8042, iflag>>
  BY Zenon DEF acpi_parse_madt
<1>2. PICK f \in Firmware : f = firmware
  BY <1>1, Here
<1>3. PICK x, A2 : x = Head(todo) /\ A2 = Steps(todo')
  OBVIOUS
<1>4. /\ Parts /\ todo # <<>> /\ x.op = "acpi_parse_madt" /\ Allowed(f, iflag, x)
      /\ IsSeq(todo)
  BY <1>1, <1>2, <1>3, Enter
<1>5. ~iflag
  BY <1>4, Shapes
<1>6. PICK k \in DOMAIN f.tables :
        /\ IsMadt(f, k) /\ todo = <<step("acpi_parse_madt", f.tables[k])>> \o Rest(f, k)
  <2>1. Next1(firmware, todo, IOAPIC_BASE, apic_base, HAS_X2APIC)
    BY <1>1, HereNext
  <2> QED
    BY <1>2, <1>3, <1>4, <2>1 DEF Next1, AgendaOps, RecordOps, LapicOps, PicOps, Writes, CallsMadt
<1>7. /\ k \in 0 .. Len(f.tables) + 3 /\ IsSeq(Rest(f, k)) /\ IsSeq(Loop(f, k, 1))
  BY <1>6, LoopIs
<1>8. PICK table \in MadtsOf(f) : table = f.tables[k]
  BY <1>6, Listed
<1>9. x = step("acpi_parse_madt", table) /\ x.record = table /\ Tail(todo) = Rest(f, k)
  <2>1. x = step("acpi_parse_madt", table) /\ Tail(todo) = Rest(f, k)
    BY <1>3, <1>6, <1>7, <1>8, ConsIs
  <2> QED
    BY <2>1, StepOps
<1>10. PICK pics : pics = IF table.pcat_compat THEN Icws ELSE <<>>
  OBVIOUS
<1>11. PICK first, loop, body, B :
         /\ first = <<[op |-> "lapic_init_begin"]>> /\ loop = <<Loops(table, 1)>>
         /\ body = first \o pics \o loop /\ B = Steps(body)
  OBVIOUS
<1>12. Call(body)
  BY <1>3, <1>9, <1>10, <1>11, Zenon DEF acpi_parse_madt, Step, Loops, Icws
<1>13. /\ IsSeq(pics) /\ \A y \in Steps(pics) : y.op \in PicOps
  <2>1. IsSeq(Icws) /\ \A y \in Steps(Icws) : y.op \in PicOps
    <3>1. PICK w : w = Icws
      OBVIOUS
    <3>2. IsSeq(w) /\ Len(w) = 10 /\ \A i \in 1 .. 10 : w[i].op \in PicOps
      BY <3>1, IcwsAre
    <3>3. \A y \in Steps(w) : y.op \in PicOps
      BY <3>2, StepsAt, SMTT(30)
    <3> QED
      BY <3>1, <3>2, <3>3
  <2>2. IsSeq(<<>>) /\ Steps(<<>>) = {}
    BY AllOfNone, StepsNone DEF AllOf
  <2> QED
    BY <1>10, <2>1, <2>2
<1>14. /\ IsSeq(first) /\ IsSeq(loop) /\ Steps(first) = {[op |-> "lapic_init_begin"]}
       /\ Steps(loop) = {Loops(table, 1)}
  BY <1>11, OneIs, StepsOne
<1>15. PICK fp : fp = first \o pics /\ IsSeq(fp) /\ Steps(fp) = Steps(first) \cup Steps(pics)
  BY <1>13, <1>14, StepsCat, CatIs
<1>16. /\ IsSeq(body)
       /\ B = {[op |-> "lapic_init_begin"]} \cup Steps(pics) \cup {Loops(table, 1)}
  <2>1. body = fp \o loop
    BY <1>11, <1>15
  <2>2. Steps(fp \o loop) = Steps(fp) \cup Steps(loop) /\ IsSeq(fp \o loop)
    BY <1>14, <1>15, StepsCat, CatIs
  <2> QED
    BY <1>11, <1>14, <1>15, <2>1, <2>2
<1>17. ASSUME NEW y \in B
       PROVE  /\ Allowed(f, iflag, y) /\ y.op # "lapic_write" /\ y.op # "ioapic_write32"
  <2>1. CASE y = [op |-> "lapic_init_begin"]
    <3>1. Reads(f, y)
      BY <2>1 DEF Reads
    <3> QED
      BY <1>5, <2>1, <3>1 DEF Allowed
  <2>2. CASE y \in Steps(pics)
    <3>1. y.op \in PicOps
      BY <1>13, <2>2
    <3> QED
      BY <1>5, <3>1 DEF Allowed, Sets, PicOps
  <2>3. CASE y = Loops(table, 1)
    <3>1. 1 \in Nat \ {0} /\ y.op = "madt_record"
      BY <2>3, StepOps
    <3>2. Reads(f, y)
      BY <2>3, <3>1 DEF Reads
    <3> QED
      BY <1>5, <3>1, <3>2 DEF Allowed
  <2> QED
    BY <1>16, <2>1, <2>2, <2>3
<1>18. NmiSafe(f, B) /\ [op |-> "lapic_init_begin"] \in B
  BY <1>16, <1>17 DEF NmiSafe
<1>19. Follow(f, x, B)
  <2>1. /\ x # [op |-> "acpi_parse_rsdp"]
        /\ \A t : x # step("parse_sdt", t)
        /\ \A t, j : x # Loops(t, j)
    BY <1>4, StepOps
  <2>2. \A t : x = step("acpi_parse_madt", t) => t = table
    BY <1>9, StepOps
  <2>3. Loops(table, 1) \in B
    BY <1>16
  <2> QED
    BY <2>1, <2>2, <2>3, Zenon DEF Follow
<1>20. /\ IsSeq(todo') /\ Planned(f, iflag, A2) /\ Cleared(f, iflag, IOAPIC_BASE, redir, A2)
       /\ Sourced(f, ISA_REDIRECTION_ENTRY, A2) /\ Routed(f, iflag, IOAPIC_BASE, redir, A2)
       /\ Nmis(f, IOAPIC_BASE, redir, A2) /\ Legacy(f, has_i8042, A2)
       /\ Local(f, apic_base, HAS_X2APIC, lapic, A2)
  BY <1>2, <1>3, <1>4, <1>11, <1>12, <1>16, <1>17, <1>18, <1>19, Kept
<1>21. NoPics(Steps(Rest(f, k))) /\ NoPics(Steps(Loop(f, k, 1))) /\ NoPics(Steps(todo))
  <2>1. /\ Steps(Rest(f, k)) \subseteq Steps(Loop(f, k, 1))
        /\ \A y \in Steps(Loop(f, k, 1)) : y.op \in AgendaOps \cup {"madt_record"}
    BY <1>6, StepsLoop
  <2>2. NoPics(Steps(Rest(f, k))) /\ NoPics(Steps(Loop(f, k, 1)))
    BY <2>1 DEF NoPics, AgendaOps, PicOps
  <2>3. Steps(todo) = {x} \cup Steps(Rest(f, k))
    BY <1>3, <1>4, <1>9, StepsTail
  <2> QED
    BY <1>4, <2>2, <2>3 DEF NoPics, PicOps
<1>22. /\ pic = [chip \in Chips |-> pic[chip]]
       /\ ChipAt(pic["PIC1"], 0, "PIC1") /\ ChipAt(pic["PIC2"], 0, "PIC2")
  <2>1. Legacies(f, pic, todo, Steps(todo))
    BY <1>2, <1>4, Zenon DEF Parts
  <2>2. PICK p \in 0 .. 10, n \in 0 .. Len(todo) :
        /\ IcwsLeft(todo, p, n)
        /\ \/ ChipAt(pic["PIC1"], (p + 1) \div 2, "PIC1") /\ ChipAt(pic["PIC2"], p \div 2, "PIC2")
           \/ ChipAt(pic["PIC1"], 0, "PIC1") /\ ChipAt(pic["PIC2"], 0, "PIC2")
    BY <2>1 DEF Legacies
  <2>3. p = 10
    BY <1>4, <1>21, <2>2, NoIcws
  <2>4. (10 + 1) \div 2 = 5 /\ 10 \div 2 = 5
    OBVIOUS
  <2>5. \/ ChipAt(pic["PIC1"], 5, "PIC1") /\ ChipAt(pic["PIC2"], 5, "PIC2")
        \/ ChipAt(pic["PIC1"], 0, "PIC1") /\ ChipAt(pic["PIC2"], 0, "PIC2")
    BY <2>2, <2>3, <2>4
  <2>6. pic = [chip \in Chips |-> pic[chip]]
    BY <2>1, Zenon DEF Legacies
  <2> QED
    BY <2>5, <2>6, ChipCases
<1>23. todo' = first \o (pics \o Loop(f, k, 1))
  <2>1. todo' = (fp \o loop) \o Rest(f, k)
    BY <1>9, <1>11, <1>12, <1>15 DEF Call
  <2>2. loop \o Rest(f, k) = Loop(f, k, 1)
    BY <1>8, <1>11 DEF Loop, Loops
  <2>3. (fp \o loop) \o Rest(f, k) = fp \o Loop(f, k, 1)
    <3>1. PICK r : r = Rest(f, k)
      OBVIOUS
    <3>2. IsSeq(fp) /\ IsSeq(loop) /\ IsSeq(r)
      BY <1>7, <1>14, <1>15, <3>1
    <3>3. (fp \o loop) \o r = fp \o (loop \o r)
      BY <3>2, CatAssoc, SMTT(30)
    <3> QED
      BY <2>2, <3>1, <3>3
  <2>4. (first \o pics) \o Loop(f, k, 1) = first \o (pics \o Loop(f, k, 1))
    BY <1>7, <1>13, <1>14, CatAssoc, SMTT(30)
  <2> QED
    BY <1>15, <2>1, <2>3, <2>4, Zenon
<1>24. Legacies(f, pic, todo', A2)
  <2>1. CASE table.pcat_compat
    <3>1. PICK l : l = Loop(f, k, 1)
      OBVIOUS
    <3>2. todo' = first \o (Icws \o l)
      BY <1>10, <1>23, <2>1, <3>1
    <3>3. NoPics(Steps(first)) /\ NoPics(Steps(l)) /\ IsSeq(l)
      BY <1>7, <1>14, <1>21, <3>1 DEF NoPics, PicOps
    <3>4. Len(first) \in 0 .. Len(todo') /\ IcwsLeft(todo', 0, Len(first))
      BY <1>14, <3>2, <3>3, AllLeft
    <3>5. 0 \in 0 .. 10 /\ (0 + 1) \div 2 = 0 /\ 0 \div 2 = 0
      OBVIOUS
    <3>6. ChipAt(pic["PIC1"], (0 + 1) \div 2, "PIC1") /\ ChipAt(pic["PIC2"], 0 \div 2, "PIC2")
      BY <1>22, <3>5
    <3> QED
      BY <1>22, <3>4, <3>5, <3>6, Zenon DEF Legacies
  <2>2. CASE ~table.pcat_compat
    <3>1. NoPics(B)
      BY <1>10, <1>16, <2>2, StepsNone, StepOps DEF NoPics, PicOps
    <3>2. NoPics(A2)
      <4>1. Moved(Steps(todo), x, Steps(Tail(todo)), B, A2)
        BY <1>3, <1>4, <1>11, <1>12, <1>16, Moves
      <4> QED
        BY <1>21, <3>1, <4>1 DEF Moved, NoPics
    <3>3. 0 \in 0 .. Len(todo') /\ IcwsLeft(todo', 10, 0) /\ 10 \in 0 .. 10
      BY <1>3, <1>20, <3>2, NoneLeft
    <3>4. \A t \in MadtsOf(f) : ~t.pcat_compat
      BY <2>2, MachineIs DEF OneOfEach
    <3> QED
      BY <1>22, <3>3, <3>4, Zenon DEF Legacies
  <2> QED
    BY <2>1, <2>2
<1>25. IsTable(f, redir) /\ Silent(f, iflag, IOAPIC_BASE, redir)
  BY <1>2, <1>4, Zenon DEF Parts
<1>26. /\ firmware' = f /\ iflag' = iflag /\ pic' = pic /\ has_i8042' = has_i8042
       /\ IOAPIC_BASE' = IOAPIC_BASE /\ redir' = redir
       /\ ISA_REDIRECTION_ENTRY' = ISA_REDIRECTION_ENTRY
       /\ apic_base' = apic_base /\ HAS_X2APIC' = HAS_X2APIC /\ lapic' = lapic
  BY <1>1, <1>2 DEF lapicVars, ioapicVars
<1>27. Parts'
  BY <1>3, <1>20, <1>24, <1>25, <1>26, Zenon DEF Parts
<1> QED
  BY <1>27, Close

-----------------------------------------------------------------------------
(* The steps keep it: main and the drivers.                                *)

\* With nothing left to do but the drivers, and nothing asked for yet.
LEMMA EnablePins ==
  ASSUME IInv, PInv, enable_interrupts
  PROVE  PInv'
<1>1. /\ At("enable_interrupts") /\ Return /\ iflag' = TRUE
      /\ UNCHANGED <<lapicVars, pic, ioapicVars, firmware, has_i8042>>
  BY Zenon DEF enable_interrupts
<1>2. PICK f \in Firmware : f = firmware
  BY <1>1, Here
<1>3. PICK x, A2 : x = Head(todo) /\ A2 = Steps(todo')
  OBVIOUS
<1>4. /\ Parts /\ todo # <<>> /\ x.op = "enable_interrupts" /\ Allowed(f, iflag, x)
  BY <1>1, <1>2, <1>3, Enter
<1>5. ~iflag
  BY <1>4, Shapes DEF SetupOps
<1>6. PICK k \in 0 .. Len(f.tables) + 3 : k = Len(f.tables) + 1
  <2>1. Len(f.tables) \in Nat
    BY TablesAre
  <2>2. Len(f.tables) + 1 \in 0 .. Len(f.tables) + 3
    BY <2>1
  <2> QED
    BY <2>2
<1>7. Tail(todo) = Rest(f, k)
  <2>1. Head(todo).op = "enable_interrupts"
    BY <1>3, <1>4
  <2>2. OnAgenda(f, todo, IOAPIC_BASE)
    <3>1. Next1(firmware, todo, IOAPIC_BASE, apic_base, HAS_X2APIC)
      BY <1>1, HereNext
    <3> QED
      BY <1>2, <2>1, <3>1 DEF Next1, AgendaOps, RecordOps, LapicOps, PicOps, Writes
  <2> QED
    BY <1>6, <2>1, <2>2, AgendaAt DEF step
<1>8. Follow(f, x, {})
  BY <1>4, FollowOther
<1>9. /\ IsSeq(todo') /\ todo' = Tail(todo)
      /\ Cleared(f, iflag, IOAPIC_BASE, redir, A2)
      /\ Sourced(f, ISA_REDIRECTION_ENTRY, A2)
      /\ Nmis(f, IOAPIC_BASE, redir, A2) /\ Legacy(f, has_i8042, A2)
      /\ Local(f, apic_base, HAS_X2APIC, lapic, A2) /\ Legacies(f, pic, todo', A2)
  BY <1>1, <1>2, <1>3, <1>4, <1>8, Returned DEF PicOps
<1>10. A2 = {[op |-> "serial_init"], [op |-> "ps2_init"]}
  BY <1>3, <1>6, <1>7, <1>9, StepsRest
<1>11. Planned(f, TRUE, A2)
  BY <1>10 DEF Planned, Allowed
<1>12. IsTable(f, redir) /\ Silent(f, TRUE, IOAPIC_BASE, redir)
  <2>1. IsTable(f, redir) /\ Silent(f, iflag, IOAPIC_BASE, redir)
    BY <1>2, <1>4, Zenon DEF Parts
  <2> QED
    BY <1>5, <2>1 DEF Silent
<1>13. Cleared(f, TRUE, IOAPIC_BASE, redir, A2)
  <2>1. \A y \in A2 : y.op # "ioapic_write32"
    BY <1>10
  <2>2. \A p, v : Lower(p, v) \notin A2 /\ Upper(p) \notin A2
    BY <2>1, HalvesAre
  <2> QED
    BY <1>9, <2>2 DEF Cleared
<1>14. Routed(f, TRUE, IOAPIC_BASE, redir, A2)
  BY <1>10 DEF Routed
<1>15. /\ firmware' = f /\ pic' = pic /\ has_i8042' = has_i8042
       /\ IOAPIC_BASE' = IOAPIC_BASE /\ redir' = redir
       /\ ISA_REDIRECTION_ENTRY' = ISA_REDIRECTION_ENTRY
       /\ apic_base' = apic_base /\ HAS_X2APIC' = HAS_X2APIC /\ lapic' = lapic
  BY <1>1, <1>2 DEF lapicVars, ioapicVars
<1>16. Parts'
  BY <1>1, <1>3, <1>9, <1>11, <1>12, <1>13, <1>14, <1>15, Zenon DEF Parts
<1> QED
  BY <1>16, Close

\* The two writes that let an interrupt through.
Written2(f, irq) == {Lower(PinIn(f, irq), EntryIn(f, irq)), Upper(PinIn(f, irq))}

\* By then every override has been read.
LEMMA IsaWrites ==
  ASSUME NEW f \in Firmware, NEW A, Planned(f, TRUE, A), Sourced(f, ISA_REDIRECTION_ENTRY, A),
         NEW irq \in {IRQ_KB, IRQ_COM1, IRQ_MOUSE},
         NEW body, body = ioapic_enable_isa_interrupt(irq)
  PROVE  IsSeq(body) /\ Steps(body) = Written2(f, irq)
<1>1. irq \in 0 .. ISA - 1
  BY IrqsAre
<1>2. PICK e : e = ISA_REDIRECTION_ENTRY[irq]
  OBVIOUS
<1>3. PICK flags : flags = (IF e.is_active_low THEN {13} ELSE {})
                           \cup (IF e.is_level_triggered THEN {15} ELSE {})
  OBVIOUS
<1>4. e.destination = PinIn(f, irq) /\ Entry(irq + 48, flags) = EntryIn(f, irq)
  <2>1. CASE Overrides(f, irq) = {}
    <3>1. e = Default(irq)
      BY <1>1, <1>2, <2>1 DEF Sourced, Overrides
    <3>2. e.destination = irq /\ ~e.is_active_low /\ ~e.is_level_triggered
      BY <3>1 DEF Default
    <3>3. flags = {}
      BY <1>3, <3>2
    <3> QED
      BY <2>1, <3>2, <3>3, PinOfOverride
  <2>2. ASSUME NEW r \in Overrides(f, irq)
        PROVE  e.destination = PinIn(f, irq) /\ Entry(irq + 48, flags) = EntryIn(f, irq)
    <3>1. r \in RecordsOf(f, 2) /\ r.irq_source = irq
      BY <2>2 DEF Overrides
    <3>2. HasRead(f, A, r)
      <4>1. \A type \in 1 .. 4 : \A s \in RecordsOf(f, type) : HasRead(f, A, s)
        BY LateIs, Zenon
      <4> QED
        BY <3>1, <4>1
    <3>3. e = Overridden(r)
      BY <1>1, <1>2, <3>1, <3>2 DEF Sourced
    <3>4. /\ e.destination = r.global_system_interrupt
          /\ e.is_active_low = Low(r) /\ e.is_level_triggered = Level(r)
      BY <3>3 DEF Overridden
    <3>5. flags = LineFlags(r)
      BY <1>3, <3>4 DEF LineFlags
    <3> QED
      BY <2>2, <3>4, <3>5, PinOfOverride
  <2> QED
    BY <2>1, <2>2
<1>5. PICK a, b : a = Lower(PinIn(f, irq), EntryIn(f, irq)) /\ b = Upper(PinIn(f, irq))
  OBVIOUS
<1>6. body = <<a, b>>
  <2>1. body = <<ioapic_write32(IOAPIC_REDIR_TBL_ADDR(e.destination), Entry(irq + 48, flags)),
                 ioapic_write32(IOAPIC_REDIR_TBL_ADDR(e.destination) + 1, 0)>>
    BY <1>2, <1>3, Zenon DEF ioapic_enable_isa_interrupt, ioapic_write64, IDT_IDX_ISA_BASE,
       IOAPIC_REDIR_TBL_POLARITY, IOAPIC_REDIR_TBL_TRIGGER
  <2> QED
    BY <1>4, <1>5, <2>1, Zenon DEF Lower, Upper
<1>7. IsSeq(<<a, b>>) /\ Steps(<<a, b>>) = {a, b}
  <2>1. <<a, b>> \in Seq({<<a, b>>[i] : i \in DOMAIN <<a, b>>})
    OBVIOUS
  <2>2. Steps(<<a, b>>) = {a, b}
    BY DEF Steps
  <2> QED
    BY <2>1, <2>2 DEF IsSeq
<1> QED
  BY <1>5, <1>6, <1>7 DEF Written2

\* They are what a driver may write, and to no source of non-maskable interrupts.
LEMMA IsaSafe ==
  ASSUME NEW f \in Firmware, NEW irqs, irqs \subseteq WantedIn(f),
         NEW B, B = UNION {Written2(f, irq) : irq \in irqs}
  PROVE  /\ \A y \in B : Allowed(f, TRUE, y) /\ y.op = "ioapic_write32"
         /\ NmiSafe(f, B)
         /\ \A irq \in irqs : /\ Lower(PinIn(f, irq), EntryIn(f, irq)) \in B
                              /\ Upper(PinIn(f, irq)) \in B
<1>1. ASSUME NEW irq \in irqs
      PROVE  /\ irq \in WantedIn(f) /\ irq \in {IRQ_KB, IRQ_COM1, IRQ_MOUSE}
             /\ PinIn(f, irq) \in Nat
  BY WantedAre, PinsIn
<1>2. ASSUME NEW y \in B
      PROVE  \E irq \in irqs :
               y = Lower(PinIn(f, irq), EntryIn(f, irq)) \/ y = Upper(PinIn(f, irq))
  BY DEF Written2
<1>3. ASSUME NEW y \in B
      PROVE  Allowed(f, TRUE, y) /\ y.op = "ioapic_write32"
  <2>1. PICK irq \in irqs : y = Lower(PinIn(f, irq), EntryIn(f, irq)) \/ y = Upper(PinIn(f, irq))
    BY <1>2
  <2>2. PICK p, v : p = PinIn(f, irq) /\ v = EntryIn(f, irq) /\ p \in Nat
    BY <1>1
  <2>3. Asked(f, p, v)
    BY <1>1, <2>2 DEF Asked
  <2>4. y.op = "ioapic_write32" /\ (y = Lower(p, v) \/ y = Upper(p))
    BY <2>1, <2>2, HalvesAre
  <2>5. y = Lower(p, v) => y.value = v
    BY HalvesAre
  <2>6. y = Upper(p) \/ (y = Lower(p, y.value) /\ Asked(f, p, y.value))
    BY <2>3, <2>4, <2>5
  <2> QED
    BY <2>2, <2>4, <2>6 DEF Allowed, Halves
<1>4. ASSUME NEW r \in RecordsOf(f, 3), NEW y \in B, y = Lower(r.global_system_interrupt, y.value)
      PROVE  FALSE
  <2>1. PICK irq \in irqs : y = Lower(PinIn(f, irq), EntryIn(f, irq)) \/ y = Upper(PinIn(f, irq))
    BY <1>2
  <2>2. PICK p, v, q, w : /\ p = PinIn(f, irq) /\ v = EntryIn(f, irq)
                          /\ q = r.global_system_interrupt /\ w = y.value
    OBVIOUS
  <2>3. p \in Nat /\ q \in Nat /\ p # q
    <3>1. NmisApart(f) /\ f.pins \in Nat
      BY MachineIs
    <3>2. q \in 0 .. f.pins - 1 /\ p # q
      BY <1>1, <2>2, <3>1 DEF NmisApart
    <3> QED
      BY <1>1, <2>2, <3>1, <3>2
  <2>4. y = Lower(q, w) /\ (y = Lower(p, v) \/ y = Upper(p))
    BY <1>4, <2>1, <2>2
  <2> QED
    BY <2>3, <2>4, HalvesDiffer
<1>5. NmiSafe(f, B)
  BY <1>4 DEF NmiSafe
<1>6. \A irq \in irqs : Lower(PinIn(f, irq), EntryIn(f, irq)) \in B /\ Upper(PinIn(f, irq)) \in B
  BY DEF Written2
<1> QED
  BY <1>3, <1>5, <1>6

\* The drivers are what is left to do once interrupts are enabled.
LEMMA RestLate ==
  ASSUME NEW f \in Firmware, NEW k \in {Len(f.tables) + 2, Len(f.tables) + 3}
  PROVE  [op |-> "enable_interrupts"] \notin Steps(Rest(f, k))
<1>1. PICK a \in Nat : a = Len(f.tables)
  BY TablesAre
<1>2. a + 1 \in 0 .. a + 3 /\ a + 2 \in 0 .. a + 3 /\ a + 1 # a + 3 /\ a + 2 # a + 3
      /\ (a + 1) + 1 = a + 2 /\ (a + 2) + 1 = a + 3
  BY <1>1
<1>3. Steps(Rest(f, a + 1)) = {[op |-> "serial_init"], [op |-> "ps2_init"]}
  BY <1>1, <1>2, StepsRest
<1>4. Steps(Rest(f, a + 2)) \subseteq Steps(Rest(f, a + 1))
  <2>1. /\ IsSeq(Rest(f, a + 1)) /\ Rest(f, a + 1) # <<>>
        /\ Tail(Rest(f, a + 1)) = Rest(f, a + 2)
    BY <1>1, <1>2, RestIs
  <2> QED
    BY <2>1, StepsTail
<1>5. Steps(Rest(f, a + 3)) \subseteq Steps(Rest(f, a + 2))
  <2>1. /\ IsSeq(Rest(f, a + 2)) /\ Rest(f, a + 2) # <<>>
        /\ Tail(Rest(f, a + 2)) = Rest(f, a + 3)
    BY <1>1, <1>2, RestIs
  <2> QED
    BY <2>1, StepsTail
<1> QED
  BY <1>1, <1>3, <1>4, <1>5

\* A driver is called with interrupts enabled.
LEMMA DriverLate ==
  ASSUME IInv, PInv, NEW op \in {"serial_init", "ps2_init"}, At(op)
  PROVE  iflag = TRUE
<1>1. PICK f \in Firmware : f = firmware
  BY Here
<1>2. Head(todo).op = op /\ Planned(f, iflag, Steps(todo)) /\ IsSeq(todo) /\ todo # <<>>
  BY <1>1, Enter
<1>3. \E k \in {Len(f.tables) + 2, Len(f.tables) + 3} : Tail(todo) = Rest(f, k)
  <2>1. OnAgenda(f, todo, IOAPIC_BASE)
    <3>1. Next1(firmware, todo, IOAPIC_BASE, apic_base, HAS_X2APIC)
      BY HereNext
    <3> QED
      BY <1>1, <1>2, <3>1 DEF Next1, AgendaOps, RecordOps, LapicOps, PicOps, Writes
  <2> QED
    BY <1>2, <2>1, AgendaAt DEF step
<1>4. [op |-> "enable_interrupts"] \notin Steps(todo)
  <2>1. [op |-> "enable_interrupts"] \notin Steps(Tail(todo))
    BY <1>3, RestLate
  <2>2. Head(todo) # [op |-> "enable_interrupts"]
    BY <1>2
  <2> QED
    BY <1>2, <2>1, <2>2, StepsTail
<1>5. iflag
  BY <1>2, <1>4 DEF Planned
<1>6. Typing
  BY Here
<1>7. iflag \in BOOLEAN
  BY <1>6, Zenon DEF Typing
<1> QED
  BY <1>5, <1>7, Zenon

\* A driver asks for the pins of interrupts irqs.
LEMMA DriverKept ==
  ASSUME Parts, todo # <<>>, NEW body, IsSeq(body), Call(body), NEW f \in Firmware, f = firmware,
         NEW x, x = Head(todo), NEW B, B = Steps(body), x.op \in {"serial_init", "ps2_init"}, iflag = TRUE,
         UNCHANGED <<lapicVars, pic, ioapicVars, firmware, has_i8042, iflag>>,
         NEW irqs, irqs \subseteq WantedIn(f), B = UNION {Written2(f, irq) : irq \in irqs},
         x.op = "serial_init" => IRQ_COM1 \in irqs,
         x.op = "ps2_init" => WantedIn(f) \ {IRQ_COM1} \subseteq irqs
  PROVE  Parts'
<1>1. PICK A2 : A2 = Steps(todo')
  OBVIOUS
<1>2. /\ \A y \in B : Allowed(f, TRUE, y) /\ y.op = "ioapic_write32"
      /\ NmiSafe(f, B)
      /\ \A irq \in irqs : /\ Lower(PinIn(f, irq), EntryIn(f, irq)) \in B
                           /\ Upper(PinIn(f, irq)) \in B
  BY IsaSafe
<1>3. \A y \in B : Allowed(f, iflag, y)
  BY <1>2, Zenon
<1>4. NoPics(B) /\ \A y \in B : y.op # "lapic_write"
  BY <1>2 DEF NoPics, PicOps
<1>5. Follow(f, x, B)
  BY FollowOther
<1>6. /\ IsSeq(todo') /\ Moved(Steps(todo), x, Steps(Tail(todo)), B, A2)
      /\ Planned(f, iflag, A2) /\ Cleared(f, iflag, IOAPIC_BASE, redir, A2)
      /\ Sourced(f, ISA_REDIRECTION_ENTRY, A2)
      /\ Nmis(f, IOAPIC_BASE, redir, A2) /\ Legacy(f, has_i8042, A2)
      /\ Local(f, apic_base, HAS_X2APIC, lapic, A2) /\ Legacies(f, pic, todo', A2)
  BY <1>1, <1>2, <1>3, <1>4, <1>5, Kept, ZenonT(30) DEF PicOps
<1>7. /\ IsTable(f, redir) /\ Silent(f, iflag, IOAPIC_BASE, redir)
      /\ Routed(f, iflag, IOAPIC_BASE, redir, Steps(todo))
  BY Zenon DEF Parts
<1>8. ASSUME NEW irq \in irqs
      PROVE  Towards(f, IOAPIC_BASE, redir, A2, PinIn(f, irq), EntryIn(f, irq))
  <2>1. Lower(PinIn(f, irq), EntryIn(f, irq)) \in A2 /\ Upper(PinIn(f, irq)) \in A2
    BY <1>2, <1>6 DEF Moved
  <2> QED
    BY <2>1, Zenon DEF Towards
<1>9. ASSUME NEW irq, Towards(f, IOAPIC_BASE, redir, Steps(todo), PinIn(f, irq), EntryIn(f, irq))
      PROVE  Towards(f, IOAPIC_BASE, redir, A2, PinIn(f, irq), EntryIn(f, irq))
  <2>1. x.op # "ioapic_write32"
    OBVIOUS
  <2> QED
    BY <1>6, <1>9, <2>1, TowardsKept
<1>10. Routed(f, iflag, IOAPIC_BASE, redir, A2)
  <2>1. ASSUME [op |-> "serial_init"] \notin A2
        PROVE  Towards(f, IOAPIC_BASE, redir, A2, PinIn(f, IRQ_COM1), EntryIn(f, IRQ_COM1))
    <3>1. CASE x.op = "serial_init"
      BY <1>8, <3>1
    <3>2. CASE x.op = "ps2_init"
      <4>1. [op |-> "serial_init"] \notin Steps(todo)
        BY <1>6, <2>1, <3>2 DEF Moved
      <4>2. Towards(f, IOAPIC_BASE, redir, Steps(todo), PinIn(f, IRQ_COM1), EntryIn(f, IRQ_COM1))
        BY <1>7, <4>1 DEF Routed
      <4> QED
        BY <1>9, <4>2
    <3> QED
      BY <3>1, <3>2
  <2>2. ASSUME [op |-> "ps2_init"] \notin A2, NEW irq \in WantedIn(f) \ {IRQ_COM1}
        PROVE  Towards(f, IOAPIC_BASE, redir, A2, PinIn(f, irq), EntryIn(f, irq))
    <3>1. CASE x.op = "ps2_init"
      BY <1>8, <3>1
    <3>2. CASE x.op = "serial_init"
      <4>1. [op |-> "ps2_init"] \notin Steps(todo)
        BY <1>6, <2>2, <3>2 DEF Moved
      <4>2. Towards(f, IOAPIC_BASE, redir, Steps(todo), PinIn(f, irq), EntryIn(f, irq))
        BY <1>7, <4>1 DEF Routed
      <4> QED
        BY <1>9, <4>2
    <3> QED
      BY <3>1, <3>2
  <2> QED
    BY <2>1, <2>2, Zenon DEF Routed
<1>11. /\ firmware' = f /\ iflag' = iflag /\ pic' = pic /\ has_i8042' = has_i8042
       /\ IOAPIC_BASE' = IOAPIC_BASE /\ redir' = redir
       /\ ISA_REDIRECTION_ENTRY' = ISA_REDIRECTION_ENTRY
       /\ apic_base' = apic_base /\ HAS_X2APIC' = HAS_X2APIC /\ lapic' = lapic
  BY DEF lapicVars, ioapicVars
<1> QED
  BY <1>1, <1>6, <1>7, <1>10, <1>11, Zenon DEF Parts

\* serial_init keeps the invariant.
LEMMA SerialPins ==
  ASSUME IInv, PInv, serial_init
  PROVE  PInv'
<1>1. At("serial_init") /\ UNCHANGED <<lapicVars, pic, ioapicVars, firmware, has_i8042, iflag>>
  BY Zenon DEF serial_init
<1>2. PICK f \in Firmware : f = firmware
  BY <1>1, Here
<1>3. PICK x, body, B : /\ x = Head(todo) /\ body = ioapic_enable_isa_interrupt(IRQ_COM1)
                        /\ B = Steps(body)
  OBVIOUS
<1>4. Call(body)
  BY <1>3, Zenon DEF serial_init
<1>5. /\ Parts /\ todo # <<>> /\ x.op = "serial_init" /\ Planned(f, iflag, Steps(todo))
  BY <1>1, <1>2, <1>3, Enter
<1>6. iflag = TRUE
  BY <1>1, DriverLate
<1>7. Sourced(f, ISA_REDIRECTION_ENTRY, Steps(todo))
  BY <1>2, <1>5, Zenon DEF Parts
<1>8. IsSeq(body) /\ B = Written2(f, IRQ_COM1)
  <2>1. Planned(f, TRUE, Steps(todo))
    BY <1>5, <1>6, Zenon
  <2> QED
    BY <1>3, <1>7, <2>1, IsaWrites
<1>9. PICK irqs : irqs = {IRQ_COM1}
  OBVIOUS
<1>10. irqs \subseteq WantedIn(f) /\ B = UNION {Written2(f, irq) : irq \in irqs}
  BY <1>8, <1>9, WantedAre
<1>11. x.op \in {"serial_init", "ps2_init"} /\ IRQ_COM1 \in irqs /\ x.op # "ps2_init"
  BY <1>5, <1>9
<1>12. Parts'
  BY <1>1, <1>2, <1>3, <1>4, <1>5, <1>6, <1>8, <1>10, <1>11, DriverKept, ZenonT(30)
<1> QED
  BY <1>12, Close

\* ps2_init keeps the invariant.
LEMMA Ps2Pins ==
  ASSUME IInv, PInv, ps2_init
  PROVE  PInv' /\ Faulty'
<1>1. At("ps2_init") /\ UNCHANGED <<lapicVars, pic, ioapicVars, firmware, has_i8042, iflag>>
  BY Zenon DEF ps2_init
<1>2. PICK f \in Firmware : f = firmware
  BY <1>1, Here
<1>3. PICK kb, mouse :
        /\ kb = ioapic_enable_isa_interrupt(IRQ_KB)
        /\ mouse = ioapic_enable_isa_interrupt(IRQ_MOUSE)
  OBVIOUS
<1>4. PICK x, body, B :
        /\ x = Head(todo) /\ B = Steps(body)
        /\ body = IF has_i8042 /\ f.i8042 = "sound"
                  THEN kb \o (IF f.mouse THEN mouse ELSE <<>>) ELSE <<>>
  OBVIOUS
<1>5. \/ Call(body)
      \/ Panic("PS/2 port faulty") /\ has_i8042 /\ f.i8042 = "port faulty"
  <2>1. "fails self test" # "sound" /\ "port faulty" # "sound"
    OBVIOUS
  <2> QED
    BY <1>2, <1>3, <1>4, <2>1, Zenon DEF ps2_init, Return
<1>6. /\ Parts /\ todo # <<>> /\ x.op = "ps2_init" /\ Planned(f, iflag, Steps(todo))
  BY <1>1, <1>2, <1>4, Enter
<1>7. iflag = TRUE
  BY <1>1, DriverLate
<1>8. Sourced(f, ISA_REDIRECTION_ENTRY, Steps(todo)) /\ Legacy(f, has_i8042, Steps(todo))
  BY <1>2, <1>6, Zenon DEF Parts
<1>9. Planned(f, TRUE, Steps(todo))
  BY <1>6, <1>7, Zenon
<1>10. /\ IsSeq(kb) /\ Steps(kb) = Written2(f, IRQ_KB)
       /\ IsSeq(mouse) /\ Steps(mouse) = Written2(f, IRQ_MOUSE)
  BY <1>3, <1>8, <1>9, IsaWrites
<1>11. has_i8042 <=> Present(f)
  <2>1. \A table : ~Awaits(Steps(todo), table, "acpi_parse_fadt")
    BY <1>9, LateIs, Zenon
  <2>2. CASE FadtsOf(f) = {}
    <3>1. Present(f)
      BY <2>2, Zenon DEF Present
    <3> QED
      BY <1>8, <3>1 DEF Legacy
  <2>3. CASE FadtsOf(f) # {}
    BY <1>8, <2>1, <2>3, Zenon DEF Legacy
  <2> QED
    BY <2>2, <2>3
<1>12. PICK irqs : irqs = (IF Works(f) THEN {IRQ_KB} ELSE {})
                          \cup (IF Works(f) /\ f.mouse THEN {IRQ_MOUSE} ELSE {})
  OBVIOUS
<1>13. irqs \subseteq WantedIn(f) /\ WantedIn(f) \ {IRQ_COM1} \subseteq irqs
  BY <1>12, Zenon DEF WantedIn
<1>14. IsSeq(<<>>) /\ Steps(<<>>) = {}
  BY AllOfNone, StepsNone DEF AllOf
<1>15. IsSeq(body) /\ B = UNION {Written2(f, irq) : irq \in irqs}
  <2>0. Works(f) <=> has_i8042 /\ f.i8042 = "sound"
    BY <1>11 DEF Works
  <2>1. CASE ~Works(f)
    <3>1. body = <<>> /\ irqs = {}
      BY <1>4, <1>12, <2>0, <2>1
    <3> QED
      BY <1>4, <1>14, <3>1
  <2>2. CASE Works(f) /\ ~f.mouse
    <3>1. body = kb \o <<>> /\ irqs = {IRQ_KB}
      BY <1>4, <1>12, <2>0, <2>2
    <3>2. IsSeq(body) /\ Steps(body) = Steps(kb) \cup Steps(<<>>)
      BY <1>10, <1>14, <3>1, CatIs, StepsCat
    <3> QED
      BY <1>4, <1>10, <1>14, <3>1, <3>2
  <2>3. CASE Works(f) /\ f.mouse
    <3>1. body = kb \o mouse /\ irqs = {IRQ_KB, IRQ_MOUSE}
      BY <1>4, <1>12, <2>0, <2>3
    <3>2. IsSeq(body) /\ Steps(body) = Steps(kb) \cup Steps(mouse)
      BY <1>10, <3>1, CatIs, StepsCat
    <3> QED
      BY <1>4, <1>10, <3>1, <3>2
  <2> QED
    BY <2>1, <2>2, <2>3
<1>16. x.op \in {"serial_init", "ps2_init"} /\ x.op # "serial_init"
  BY <1>6
<1>17. x = Head(todo) /\ B = Steps(body) /\ f = firmware
  BY <1>2, <1>4
<1>18. CASE Call(body)
  <2>1. Parts'
    BY <1>1, <1>6, <1>7, <1>13, <1>15, <1>16, <1>17, <1>18, DriverKept, ZenonT(90)
  <2>2. Runs(panic')
    BY <1>1, <1>18, Here, Zenon DEF Call
  <2>3. Faulty'
    BY <2>2, Messages, Zenon DEF Faulty
  <2> QED
    BY <2>1, <2>3, Close
<1>19. CASE Panic("PS/2 port faulty") /\ has_i8042 /\ f.i8042 = "port faulty"
  <2>1. panic' = "PS/2 port faulty"
    BY <1>19, Zenon DEF Panic
  <2>2. ~Runs(panic')
    BY <2>1, Messages
  <2>3. UNCHANGED <<redir, pic, iflag, firmware>>
    BY <1>1 DEF ioapicVars
  <2>4. Faulty'
    BY <1>1, <1>2, <1>11, <1>19, Zenon DEF Faulty
  <2> QED
    BY <2>2, <2>3, <2>4, Stop
<1> QED
  BY <1>5, <1>18, <1>19

-----------------------------------------------------------------------------
(* The steps keep it: the records.                                         *)

\* The record at hand, before any of its writes.
LEMMA AtRecord ==
  ASSUME IInv, PInv, NEW op \in RecordOps, At(op), NEW f \in Firmware, f = firmware,
         NEW x, x = Head(todo)
  PROVE  /\ Parts /\ todo # <<>> /\ IsSeq(todo) /\ x.op = op /\ ~iflag
         /\ Steps(todo) = {x} \cup Steps(Tail(todo))
         /\ \A y \in Steps(Tail(todo)) : y.op \in AgendaOps \cup {"madt_record"}
         /\ \E type \in 1 .. 4 : /\ op = Handler(type) /\ x.record \in RecordsOf(f, type)
                                 /\ x = step(Handler(type), x.record)
<1>1. Parts /\ todo # <<>> /\ IsSeq(todo) /\ x.op = op /\ Allowed(f, iflag, x)
  BY Enter
<1>2. ~iflag /\ Reads(f, x)
  BY <1>1, Shapes DEF RecordOps
<1>3. PICK type \in 1 .. 4 : \E r \in RecordsOf(f, type) : x = step(Handler(type), r)
  BY <1>1, <1>2, ReadsAre
<1>4. PICK r \in RecordsOf(f, type) : x = step(Handler(type), r)
  BY <1>3
<1>5. x.op = Handler(type) /\ x.record = r
  BY <1>4, StepOps
<1>6. \A y \in Steps(Tail(todo)) : y.op \in AgendaOps \cup {"madt_record"}
  <2>1. PICK k \in DOMAIN f.tables : \E i \in 1 .. Len(f.tables[k].records) :
          IsMadt(f, k) /\ Tail(todo) = Loop(f, k, i + 1)
    BY HereRecord
  <2> QED
    BY <2>1, StepsLoop
<1>7. Steps(todo) = {x} \cup Steps(Tail(todo))
  BY <1>1, StepsTail
<1> QED
  BY <1>1, <1>2, <1>4, <1>5, <1>6, <1>7

\* ioapic_init_source_override keeps the invariant.
LEMMA OverridePins ==
  ASSUME IInv, PInv, ioapic_init_source_override, UNCHANGED <<firmware, has_i8042, iflag>>
  PROVE  PInv'
<1>1. /\ At("ioapic_init_source_override")
      /\ UNCHANGED <<lapicVars, pic, IOAPIC_BASE, redir>>
  BY Zenon DEF ioapic_init_source_override
<1>2. PICK f \in Firmware : f = firmware
  BY <1>1, Here
<1>3. PICK x, A2, isa, new :
        x = Head(todo) /\ A2 = Steps(todo') /\ isa = ISA_REDIRECTION_ENTRY
        /\ new = ISA_REDIRECTION_ENTRY'
  OBVIOUS
<1>4. PICK r : r = x.record
  OBVIOUS
<1>5. /\ Parts /\ todo # <<>> /\ x.op = "ioapic_init_source_override" /\ ~iflag
      /\ x = step("ioapic_init_source_override", r) /\ r \in RecordsOf(f, 2)
  <2>1. "ioapic_init_source_override" \in RecordOps
    BY DEF RecordOps
  <2>2. /\ Parts /\ todo # <<>> /\ x.op = "ioapic_init_source_override" /\ ~iflag
        /\ \E type \in 1 .. 4 : /\ "ioapic_init_source_override" = Handler(type)
                                /\ x.record \in RecordsOf(f, type)
                                /\ x = step(Handler(type), x.record)
    BY <1>1, <1>2, <1>3, <2>1, AtRecord
  <2> QED
    BY <1>4, <2>2, HandlersDiffer
<1>6. \/ panic' = "Unknown MADT Bus" /\ new = isa
      \/ Return /\ new = [isa EXCEPT ![r.irq_source] = Overridden(r)]
  BY <1>3, <1>4, Zenon DEF ioapic_init_source_override, Panic, Step, Overridden
<1>7. CASE panic' = "Unknown MADT Bus" /\ new = isa
  <2>1. ~Runs(panic')
    BY <1>7, Messages, Zenon
  <2> QED
    BY <1>1, <2>1, Stop
<1>8. CASE Return /\ new = [isa EXCEPT ![r.irq_source] = Overridden(r)]
  <2>1. Follow(f, x, {})
    BY <1>5, FollowOther
  <2>2. /\ IsSeq(todo') /\ Moved(Steps(todo), x, Steps(Tail(todo)), {}, A2)
        /\ Planned(f, iflag, A2) /\ Cleared(f, iflag, IOAPIC_BASE, redir, A2)
        /\ Routed(f, iflag, IOAPIC_BASE, redir, A2)
        /\ Nmis(f, IOAPIC_BASE, redir, A2) /\ Legacy(f, has_i8042, A2)
        /\ Local(f, apic_base, HAS_X2APIC, lapic, A2) /\ Legacies(f, pic, todo', A2)
    BY <1>2, <1>3, <1>5, <1>8, <2>1, Returned DEF PicOps
  <2>3. /\ IsTable(f, redir) /\ Silent(f, iflag, IOAPIC_BASE, redir)
        /\ Sourced(f, isa, Steps(todo))
    BY <1>2, <1>3, <1>5, Zenon DEF Parts
  <2>4. isa = [irq \in 0 .. ISA - 1 |-> isa[irq]]
    BY <2>3, Zenon DEF Sourced
  <2>5. /\ new = [irq \in 0 .. ISA - 1 |-> new[irq]]
        /\ \A irq \in 0 .. ISA - 1 :
             new[irq] = IF irq = r.irq_source THEN Overridden(r) ELSE isa[irq]
    BY <1>8, <2>4
  <2>6. ASSUME NEW irq \in 0 .. ISA - 1
        PROVE  \/ new[irq] = Default(irq)
               \/ \E s \in RecordsOf(f, 2) : s.irq_source = irq /\ new[irq] = Overridden(s)
    BY <1>5, <2>3, <2>5 DEF Sourced
  <2>7. ASSUME NEW s \in RecordsOf(f, 2), HasRead(f, A2, s), s.irq_source \in 0 .. ISA - 1
        PROVE  new[s.irq_source] = Overridden(s)
    <3>1. CASE s.irq_source = r.irq_source
      <4>1. s = r
        BY <1>5, <3>1, MachineIs DEF OverridesApart
      <4> QED
        BY <2>5, <2>7, <4>1
    <3>2. CASE s.irq_source # r.irq_source
      <4>1. x # step(Handler(2), s)
        <5>1. r # s
          BY <3>2
        <5> QED
          BY <1>4, <5>1, StepOps
      <4>2. 2 \in 1 .. 4
        OBVIOUS
      <4>3. HasRead(f, Steps(todo), s)
        BY <2>1, <2>2, <2>7, <4>1, <4>2, ReadNow
      <4>4. isa[s.irq_source] = Overridden(s)
        BY <2>3, <2>7, <4>3 DEF Sourced
      <4> QED
        BY <2>5, <2>7, <3>2, <4>4
    <3> QED
      BY <3>1, <3>2
  <2>8. Sourced(f, new, A2)
    BY <2>5, <2>6, <2>7, Zenon DEF Sourced
  <2>9. /\ firmware' = f /\ iflag' = iflag /\ pic' = pic /\ has_i8042' = has_i8042
        /\ IOAPIC_BASE' = IOAPIC_BASE /\ redir' = redir /\ ISA_REDIRECTION_ENTRY' = new
        /\ apic_base' = apic_base /\ HAS_X2APIC' = HAS_X2APIC /\ lapic' = lapic
    BY <1>1, <1>2, <1>3 DEF lapicVars
  <2>10. Parts'
    BY <1>3, <2>2, <2>3, <2>8, <2>9, Zenon DEF Parts
  <2> QED
    BY <2>10, Close
<1> QED
  BY <1>6, <1>7, <1>8

\* Once a record of the MADT has been read, the local APIC has its mode and its
\* registers, or the writes for it are still to come.
LEMMA SettledBy ==
  ASSUME NEW f \in Firmware, NEW base, NEW x2, NEW lap, NEW A, Begun(f, base, x2, lap, A),
         NEW type, NEW r \in RecordsOf(f, type), HasRead(f, A, r),
         [op |-> "lapic_init_begin"] \notin A
  PROVE  Settled(f, base, x2, lap, A)
<1>1. PICK table \in MadtsOf(f) : r \in InAnyOrder(table.records)
  BY DEF RecordsOf
<1>2. PICK j \in DOMAIN table.records : table.records[j] = r
  BY <1>1 DEF InAnyOrder
<1>3. ~Awaits(A, table, "acpi_parse_madt")
  BY <1>2 DEF HasRead, Unread
<1>4. \A t \in MadtsOf(f) : t = table
  BY MachineIs DEF OneOfEach
<1> QED
  BY <1>1, <1>3, <1>4 DEF Begun

\* lapic_init_nmi keeps the invariant.
LEMMA LapicNmiPins ==
  ASSUME IInv, PInv, lapic_init_nmi, UNCHANGED <<firmware, has_i8042, iflag>>
  PROVE  PInv'
<1>1. At("lapic_init_nmi") /\ UNCHANGED <<lapicVars, pic, ioapicVars>>
  BY Zenon DEF lapic_init_nmi
<1>2. PICK f \in Firmware : f = firmware
  BY <1>1, Here
<1>3. PICK x, A2 : x = Head(todo) /\ A2 = Steps(todo')
  OBVIOUS
<1>4. PICK r : r = x.record
  OBVIOUS
<1>5. /\ Parts /\ todo # <<>> /\ x.op = "lapic_init_nmi" /\ ~iflag
      /\ x = step("lapic_init_nmi", r) /\ r \in RecordsOf(f, 4)
      /\ Steps(todo) = {x} \cup Steps(Tail(todo))
      /\ \A y \in Steps(Tail(todo)) : y.op \in AgendaOps \cup {"madt_record"}
  <2>1. "lapic_init_nmi" \in RecordOps
    BY DEF RecordOps
  <2>2. /\ Parts /\ todo # <<>> /\ x.op = "lapic_init_nmi" /\ ~iflag
        /\ Steps(todo) = {x} \cup Steps(Tail(todo))
        /\ \A y \in Steps(Tail(todo)) : y.op \in AgendaOps \cup {"madt_record"}
        /\ \E type \in 1 .. 4 : /\ "lapic_init_nmi" = Handler(type)
                                /\ x.record \in RecordsOf(f, type)
                                /\ x = step(Handler(type), x.record)
    BY <1>1, <1>2, <1>3, <2>1, AtRecord
  <2> QED
    BY <1>4, <2>2, HandlersDiffer
<1>6. PICK w : w = lapic_write(LintOf(r), LvtOf(r))
  OBVIOUS
<1>7. PICK body, B : /\ body = IF r.processor_id \in {0, 255} THEN <<w>> ELSE <<>>
                     /\ B = Steps(body)
  OBVIOUS
<1>8. Call(body)
  <2>1. Call(IF r.processor_id \in {0, 255}
             THEN <<lapic_write(IF r.lint # 0 THEN "LINT1" ELSE "LINT0",
                      {10} \cup (IF Low(r) THEN {13} ELSE {}) \cup (IF Level(r) THEN {5} ELSE {}))>>
             ELSE <<>>)
    BY <1>3, <1>4, Zenon DEF lapic_init_nmi, Step, LAPIC_LVT_DELIVERY_NMI, LAPIC_LVT_POLARITY,
       LAPIC_LVT_TRIGGER
  <2> QED
    BY <1>6, <1>7, <2>1, Zenon DEF LintOf, LvtOf
<1>9. /\ IsSeq(body)
      /\ r.processor_id \in {0, 255} => B = {w}
      /\ r.processor_id \notin {0, 255} => B = {}
  <2>1. CASE r.processor_id \in {0, 255}
    <3>1. body = <<w>>
      BY <1>7, <2>1
    <3> QED
      BY <1>7, <2>1, <3>1, OneIs, StepsOne
  <2>2. CASE r.processor_id \notin {0, 255}
    <3>1. body = <<>>
      BY <1>7, <2>2
    <3> QED
      BY <1>7, <2>2, <3>1, AllOfNone, StepsNone DEF AllOf
  <2> QED
    BY <2>1, <2>2
<1>10. w.op = "lapic_write" /\ w.reg = LintOf(r) /\ w.value = LvtOf(r)
  BY <1>6, SettingOps
<1>11. ASSUME NEW y \in B
       PROVE  Allowed(f, iflag, y) /\ y.op = "lapic_write" /\ y = w /\ r \in MineOf(f)
  <2>1. y = w /\ r.processor_id \in {0, 255}
    BY <1>9
  <2>2. r \in MineOf(f)
    BY <1>5, <2>1 DEF MineOf
  <2>3. LvtOk(f, w.reg, w.value)
    BY <1>10, <2>2 DEF LvtOk
  <2>4. Sets(f, w)
    BY <1>6, <1>10, <2>3 DEF Sets
  <2> QED
    BY <1>5, <1>10, <2>1, <2>2, <2>4 DEF Allowed
<1>12. Follow(f, x, B)
  BY <1>5, FollowOther
<1>13. NoPics(B) /\ NmiSafe(f, B)
  BY <1>11 DEF NoPics, NmiSafe, PicOps
<1>14. /\ IsSeq(todo') /\ Moved(Steps(todo), x, Steps(Tail(todo)), B, A2)
       /\ Planned(f, iflag, A2) /\ Cleared(f, iflag, IOAPIC_BASE, redir, A2)
       /\ Sourced(f, ISA_REDIRECTION_ENTRY, A2) /\ Routed(f, iflag, IOAPIC_BASE, redir, A2)
       /\ Nmis(f, IOAPIC_BASE, redir, A2) /\ Legacy(f, has_i8042, A2)
       /\ Legacies(f, pic, todo', A2)
  <2>1. x = Head(todo) /\ A2 = Steps(todo') /\ B = Steps(body) /\ f = firmware
    BY <1>2, <1>3, <1>7
  <2>2. Parts /\ todo # <<>> /\ IsSeq(body) /\ \A y \in B : Allowed(f, iflag, y)
    BY <1>5, <1>9, <1>11
  <2>3. x.op = "lapic_init_nmi"
    BY <1>5
  <2> QED
    BY <1>8, <1>12, <1>13, <2>1, <2>2, <2>3, Kept DEF PicOps
<1>15. /\ IsTable(f, redir) /\ Silent(f, iflag, IOAPIC_BASE, redir)
       /\ Local(f, apic_base, HAS_X2APIC, lapic, Steps(todo))
  BY <1>2, <1>5, Zenon DEF Parts
<1>16. /\ "EXTD" \in apic_base => f.x2apic
       /\ Shaped(f, lapic)
       /\ Begun(f, apic_base, HAS_X2APIC, lapic, Steps(todo))
       /\ \A s \in MineOf(f) : HasRead(f, Steps(todo), s) => Lint(f, lapic, Steps(todo), s)
  BY <1>15, LocalIs
<1>17. Begun(f, apic_base, HAS_X2APIC, lapic, A2)
  BY <1>5, <1>12, <1>14, <1>16, BegunKept
<1>18. [op |-> "lapic_init_begin"] \notin A2 /\ \A v : lapic_write("SPIV", v) \notin A2
  <2>1. "lapic_init_begin" \notin AgendaOps \cup {"madt_record"}
    BY DEF AgendaOps
  <2>2. "lapic_write" \notin AgendaOps \cup {"madt_record"}
    BY DEF AgendaOps
  <2>3. w.reg # "SPIV"
    BY <1>10 DEF LintOf
  <2>4. [op |-> "lapic_init_begin"] \notin A2
    BY <1>5, <1>11, <1>14, <2>1 DEF Moved
  <2>5. ASSUME NEW v, lapic_write("SPIV", v) \in A2
        PROVE  FALSE
    <3>1. PICK u : u = lapic_write("SPIV", v) /\ u.op = "lapic_write" /\ u.reg = "SPIV"
      BY SettingOps
    <3> QED
      BY <1>5, <1>11, <1>14, <2>2, <2>3, <2>5, <3>1 DEF Moved
  <2> QED
    BY <2>4, <2>5
<1>19. ASSUME NEW s \in MineOf(f), HasRead(f, A2, s)
       PROVE  Lint(f, lapic, A2, s)
  <2>1. s \in RecordsOf(f, 4) /\ s.processor_id \in {0, 255}
    BY DEF MineOf
  <2>2. Settled(f, apic_base, HAS_X2APIC, lapic, A2)
    BY <1>17, <1>18, <1>19, <2>1, SettledBy
  <2>3. 8 \in lapic["SPIV"]
    BY <1>18, <2>2 DEF Settled
  <2>4. ASSUME NEW lint, lapic_write(lint, {16}) \in A2
        PROVE  lapic_write(lint, {16}) \in Steps(todo) /\ x.op # "lapic_write"
               /\ lapic_write(lint, {16}) \in Steps(Tail(todo))
    <3>1. PICK u : u = lapic_write(lint, {16}) /\ u.value = {16}
      BY SettingOps
    <3>2. 10 \in LvtOf(r)
      BY DEF LvtOf
    <3>3. u # w
      BY <1>10, <3>1, <3>2
    <3> QED
      BY <1>5, <1>11, <1>14, <2>4, <3>1, <3>3 DEF Moved
  <2>5. ASSUME NEW lint, lapic_write(lint, {16}) \in Steps(Tail(todo))
        PROVE  FALSE
    <3>1. PICK u : u = lapic_write(lint, {16}) /\ u.op = "lapic_write"
      BY SettingOps
    <3> QED
      BY <1>5, <2>5, <3>1 DEF AgendaOps
  <2>6. \A lint : lapic_write(lint, {16}) \notin A2
    BY <2>4, <2>5
  <2>7. lapic[LintOf(s)] = LvtOf(s) \/ lapic_write(LintOf(s), LvtOf(s)) \in A2
    <3>1. CASE s = r
      BY <1>6, <1>9, <1>14, <2>1, <3>1 DEF Moved
    <3>2. CASE s # r
      <4>1. 4 \in 1 .. 4 /\ Handler(4) = "lapic_init_nmi"
        BY HandlersAre
      <4>2. x # step(Handler(4), s)
        BY <1>4, <3>2, StepOps
      <4>3. HasRead(f, Steps(todo), s)
        BY <1>12, <1>14, <1>19, <2>1, <4>1, <4>2, ReadNow
      <4>4. Lint(f, lapic, Steps(todo), s)
        BY <1>16, <4>3
      <4>5. PICK u : u = lapic_write(LintOf(s), LvtOf(s)) /\ u.op = "lapic_write"
        BY SettingOps
      <4> QED
        BY <1>5, <1>14, <4>4, <4>5 DEF Lint, Moved
    <3> QED
      BY <3>1, <3>2
  <2> QED
    BY <2>3, <2>6, <2>7 DEF Lint
<1>20. Local(f, apic_base, HAS_X2APIC, lapic, A2)
  BY <1>16, <1>17, <1>19, LocalIs
<1>21. /\ firmware' = f /\ iflag' = iflag /\ pic' = pic /\ has_i8042' = has_i8042
       /\ IOAPIC_BASE' = IOAPIC_BASE /\ redir' = redir
       /\ ISA_REDIRECTION_ENTRY' = ISA_REDIRECTION_ENTRY
       /\ apic_base' = apic_base /\ HAS_X2APIC' = HAS_X2APIC /\ lapic' = lapic
  BY <1>1, <1>2 DEF lapicVars, ioapicVars
<1>22. Parts'
  BY <1>3, <1>14, <1>15, <1>20, <1>21, Zenon DEF Parts
<1> QED
  BY <1>22, Close

\* ioapic_init_nmisource keeps the invariant.
LEMMA NmiSourcePins ==
  ASSUME IInv, PInv, ioapic_init_nmisource, UNCHANGED <<firmware, has_i8042, iflag>>
  PROVE  PInv'
<1>1. At("ioapic_init_nmisource") /\ UNCHANGED <<lapicVars, pic, ioapicVars>>
  BY Zenon DEF ioapic_init_nmisource
<1>2. PICK f \in Firmware : f = firmware
  BY <1>1, Here
<1>3. PICK x, A2 : x = Head(todo) /\ A2 = Steps(todo')
  OBVIOUS
<1>4. PICK r : r = x.record
  OBVIOUS
<1>5. /\ Parts /\ todo # <<>> /\ x.op = "ioapic_init_nmisource" /\ ~iflag
      /\ x = step("ioapic_init_nmisource", r) /\ r \in RecordsOf(f, 3)
      /\ Steps(todo) = {x} \cup Steps(Tail(todo))
      /\ \A y \in Steps(Tail(todo)) : y.op \in AgendaOps \cup {"madt_record"}
  <2>1. "ioapic_init_nmisource" \in RecordOps
    BY DEF RecordOps
  <2>2. /\ Parts /\ todo # <<>> /\ x.op = "ioapic_init_nmisource" /\ ~iflag
        /\ Steps(todo) = {x} \cup Steps(Tail(todo))
        /\ \A y \in Steps(Tail(todo)) : y.op \in AgendaOps \cup {"madt_record"}
        /\ \E type \in 1 .. 4 : /\ "ioapic_init_nmisource" = Handler(type)
                                /\ x.record \in RecordsOf(f, type)
                                /\ x = step(Handler(type), x.record)
    BY <1>1, <1>2, <1>3, <2>1, AtRecord
  <2> QED
    BY <1>4, <2>2, HandlersDiffer
<1>6. PICK q, v : q = r.global_system_interrupt /\ v = NmiEntry(r)
  OBVIOUS
<1>7. PICK a, b : a = Lower(q, v) /\ b = Upper(q)
  OBVIOUS
<1>8. PICK body, B : body = <<a, b>> /\ B = Steps(body)
  OBVIOUS
<1>9. Call(body)
  <2>1. Call(<<ioapic_write32(IOAPIC_REDIR_TBL_ADDR(q),
                 Entry(0, {10} \cup (IF r.polarity # 0 THEN {13} ELSE {})
                               \cup (IF r.trigger # 0 THEN {15} ELSE {}))),
               ioapic_write32(IOAPIC_REDIR_TBL_ADDR(q) + 1, 0)>>)
    BY <1>3, <1>4, <1>6, Zenon DEF ioapic_init_nmisource, Step, ioapic_write64,
       IOAPIC_REDIR_TBL_DELIVERY_NMI, IOAPIC_REDIR_TBL_POLARITY, IOAPIC_REDIR_TBL_TRIGGER
  <2> QED
    BY <1>6, <1>7, <1>8, <2>1, Zenon DEF NmiEntry, Lower, Upper
<1>10. IsSeq(body) /\ B = {a, b}
  <2>1. <<a, b>> \in Seq({<<a, b>>[i] : i \in DOMAIN <<a, b>>})
    OBVIOUS
  <2>2. Steps(<<a, b>>) = {a, b}
    BY DEF Steps
  <2> QED
    BY <1>8, <2>1, <2>2 DEF IsSeq
<1>11. q \in Nat /\ \A s \in RecordsOf(f, 3) : s.global_system_interrupt \in Nat
                                              /\ (s.global_system_interrupt = q => s = r)
  <2>1. NmisApart(f) /\ f.pins \in Nat
    BY MachineIs
  <2>2. \A s \in RecordsOf(f, 3) : s.global_system_interrupt \in 0 .. f.pins - 1
    BY <2>1 DEF NmisApart
  <2>3. \A s \in RecordsOf(f, 3) : s.global_system_interrupt = q => s = r
    BY <1>5, <1>6, <2>1 DEF NmisApart
  <2> QED
    BY <1>5, <1>6, <2>1, <2>2, <2>3
<1>12. ASSUME NEW y \in B
       PROVE  Allowed(f, iflag, y) /\ y.op = "ioapic_write32"
  <2>1. Quiet(f, q, v)
    BY <1>5, <1>6 DEF Quiet
  <2>2. y.op = "ioapic_write32" /\ (y = Lower(q, v) \/ y = Upper(q))
    BY <1>7, <1>10, HalvesAre
  <2>3. y = Lower(q, v) => y.value = v
    BY HalvesAre
  <2>4. y = Upper(q) \/ (y = Lower(q, y.value) /\ Quiet(f, q, y.value))
    BY <2>1, <2>2, <2>3
  <2> QED
    BY <1>5, <1>11, <2>2, <2>4 DEF Allowed, Halves
<1>13. Follow(f, x, B)
  BY <1>5, FollowOther
<1>14. NoPics(B) /\ \A y \in B : y.op # "lapic_write"
  BY <1>12 DEF NoPics, PicOps
<1>15. /\ IsSeq(todo') /\ Moved(Steps(todo), x, Steps(Tail(todo)), B, A2)
       /\ Planned(f, iflag, A2) /\ Cleared(f, iflag, IOAPIC_BASE, redir, A2)
       /\ Sourced(f, ISA_REDIRECTION_ENTRY, A2) /\ Routed(f, iflag, IOAPIC_BASE, redir, A2)
       /\ Legacy(f, has_i8042, A2) /\ Local(f, apic_base, HAS_X2APIC, lapic, A2)
       /\ Legacies(f, pic, todo', A2)
  <2>1. x = Head(todo) /\ A2 = Steps(todo') /\ B = Steps(body) /\ f = firmware
    BY <1>2, <1>3, <1>8
  <2>2. Parts /\ todo # <<>> /\ IsSeq(body) /\ \A y \in B : Allowed(f, iflag, y)
    BY <1>5, <1>10, <1>12
  <2>3. x.op = "ioapic_init_nmisource"
    BY <1>5
  <2> QED
    BY <1>9, <1>13, <1>14, <2>1, <2>2, <2>3, Kept DEF PicOps
<1>16. /\ IsTable(f, redir) /\ Silent(f, iflag, IOAPIC_BASE, redir)
       /\ Nmis(f, IOAPIC_BASE, redir, Steps(todo))
  BY <1>2, <1>5, Zenon DEF Parts
<1>17. ASSUME NEW y \in A2, y.op = "ioapic_write32"
       PROVE  y = a \/ y = b
  BY <1>5, <1>10, <1>15, <1>17 DEF Moved, AgendaOps
<1>18. ASSUME NEW s \in RecordsOf(f, 3), HasRead(f, A2, s)
       PROVE  /\ Towards(f, IOAPIC_BASE, redir, A2, s.global_system_interrupt, NmiEntry(s))
              /\ \A y \in A2 : y.op = "ioapic_write32" /\ y = Lower(s.global_system_interrupt, y.value)
                   => y.value = NmiEntry(s)
  <2>1. Towards(f, IOAPIC_BASE, redir, A2, s.global_system_interrupt, NmiEntry(s))
    <3>1. CASE s = r
      <4>1. Lower(q, v) \in A2 /\ Upper(q) \in A2
        BY <1>7, <1>10, <1>15 DEF Moved
      <4> QED
        BY <1>6, <3>1, <4>1, Zenon DEF Towards
    <3>2. CASE s # r
      <4>1. 3 \in 1 .. 4 /\ Handler(3) = "ioapic_init_nmisource"
        BY HandlersAre
      <4>2. x # step(Handler(3), s)
        BY <1>4, <3>2, StepOps
      <4>3. HasRead(f, Steps(todo), s)
        BY <1>13, <1>15, <1>18, <4>1, <4>2, ReadNow
      <4>4. Towards(f, IOAPIC_BASE, redir, Steps(todo), s.global_system_interrupt, NmiEntry(s))
        BY <1>16, <4>3 DEF Nmis
      <4>5. x.op # "ioapic_write32"
        BY <1>5
      <4> QED
        BY <1>15, <4>4, <4>5, TowardsKept
    <3> QED
      BY <3>1, <3>2
  <2>2. ASSUME NEW y \in A2, y.op = "ioapic_write32",
               y = Lower(s.global_system_interrupt, y.value)
        PROVE  y.value = NmiEntry(s)
    <3>1. PICK p, w : p = s.global_system_interrupt /\ w = y.value
      OBVIOUS
    <3>2. p \in Nat /\ (p = q => s = r)
      BY <1>11, <3>1
    <3>3. y = Lower(p, w) /\ (y = Lower(q, v) \/ y = Upper(q))
      BY <1>7, <1>17, <2>2, <3>1
    <3>4. p = q /\ w = v
      BY <1>11, <3>2, <3>3, HalvesDiffer
    <3> QED
      BY <1>6, <3>1, <3>2, <3>4
  <2> QED
    BY <2>1, <2>2
<1>19. Nmis(f, IOAPIC_BASE, redir, A2)
  BY <1>18, Zenon DEF Nmis
<1>20. /\ firmware' = f /\ iflag' = iflag /\ pic' = pic /\ has_i8042' = has_i8042
       /\ IOAPIC_BASE' = IOAPIC_BASE /\ redir' = redir
       /\ ISA_REDIRECTION_ENTRY' = ISA_REDIRECTION_ENTRY
       /\ apic_base' = apic_base /\ HAS_X2APIC' = HAS_X2APIC /\ lapic' = lapic
  BY <1>1, <1>2 DEF lapicVars, ioapicVars
<1>21. Parts'
  BY <1>3, <1>15, <1>16, <1>19, <1>20, Zenon DEF Parts
<1> QED
  BY <1>21, Close

\* The two halves of every pin below count.
LEMMA DisablesAre ==
  ASSUME NEW count \in Nat, NEW body, body = DisableSteps(count)
  PROVE  /\ IsSeq(body)
         /\ \A y \in Steps(body) : \E p \in 0 .. count - 1 : y = Lower(p, Masked) \/ y = Upper(p)
         /\ \A p \in 0 .. count - 1 : Lower(p, Masked) \in Steps(body) /\ Upper(p) \in Steps(body)
<1> DEFINE e(i) == ioapic_disable_interrupt((i - 1) \div 2)[1 + ((i - 1) % 2)]
           a == [i \in 1 .. 2 * count |-> e(i)]
<1>1. ASSUME NEW p, NEW j \in {1, 2}
      PROVE  ioapic_disable_interrupt(p)[j] = IF j = 1 THEN Lower(p, Masked) ELSE Upper(p)
  <2>1. ioapic_disable_interrupt(p) = <<Lower(p, Masked), Upper(p)>>
    BY Zenon DEF ioapic_disable_interrupt, ioapic_write64, Lower, Upper, Masked,
       IOAPIC_REDIR_TBL_MASKED
  <2>2. PICK l, u : l = Lower(p, Masked) /\ u = Upper(p)
    OBVIOUS
  <2>3. <<l, u>>[1] = l /\ <<l, u>>[2] = u
    OBVIOUS
  <2> QED
    BY <2>1, <2>2, <2>3
<1>2. ASSUME NEW i \in 1 .. 2 * count
      PROVE  \E p \in 0 .. count - 1 : e(i) = Lower(p, Masked) \/ e(i) = Upper(p)
  <2>1. PICK j, p : j = 1 + ((i - 1) % 2) /\ p = (i - 1) \div 2
    OBVIOUS
  <2>2. j \in {1, 2} /\ p \in 0 .. count - 1
    BY <2>1
  <2>3. e(i) = ioapic_disable_interrupt(p)[j]
    BY <2>1, Zenon
  <2> QED
    BY <1>1, <2>2, <2>3
<1>3. ASSUME NEW p \in 0 .. count - 1
      PROVE  /\ 2 * p + 1 \in 1 .. 2 * count /\ e(2 * p + 1) = Lower(p, Masked)
             /\ 2 * p + 2 \in 1 .. 2 * count /\ e(2 * p + 2) = Upper(p)
  <2>1. /\ 2 * p + 1 \in 1 .. 2 * count /\ 2 * p + 2 \in 1 .. 2 * count
        /\ ((2 * p + 1) - 1) \div 2 = p /\ 1 + (((2 * p + 1) - 1) % 2) = 1
        /\ ((2 * p + 2) - 1) \div 2 = p /\ 1 + (((2 * p + 2) - 1) % 2) = 2
    OBVIOUS
  <2>2. e(2 * p + 1) = ioapic_disable_interrupt(p)[1]
    BY <2>1, Zenon
  <2>3. e(2 * p + 2) = ioapic_disable_interrupt(p)[2]
    BY <2>1, Zenon
  <2>4. 1 \in {1, 2} /\ 2 \in {1, 2} /\ 2 # 1
    OBVIOUS
  <2>5. ioapic_disable_interrupt(p)[1] = Lower(p, Masked)
    BY <1>1, <2>4
  <2>6. ioapic_disable_interrupt(p)[2] = Upper(p)
    BY <1>1, <2>4
  <2> QED
    BY <2>1, <2>2, <2>3, <2>5, <2>6
<1>4. body = a
  BY Zenon DEF DisableSteps
<1> HIDE DEF e
<1>5. PICK n \in Nat : n = 2 * count
  OBVIOUS
<1>6. DOMAIN a = 1 .. n /\ \A i \in 1 .. n : a[i] = e(i)
  BY <1>5
<1>7. IsSeq(a)
  <2>1. a \in Seq({a[i] : i \in DOMAIN a})
    BY <1>5
  <2> QED
    BY <2>1 DEF IsSeq
<1>8. ASSUME NEW y \in Steps(a)
      PROVE  \E p \in 0 .. count - 1 : y = Lower(p, Masked) \/ y = Upper(p)
  <2>1. PICK i \in 1 .. n : y = e(i)
    BY <1>6 DEF Steps
  <2> QED
    BY <1>2, <1>5, <2>1
<1>9. \A p \in 0 .. count - 1 : Lower(p, Masked) \in Steps(a) /\ Upper(p) \in Steps(a)
  <2>1. \A i \in 1 .. n : e(i) \in Steps(a)
    BY <1>6 DEF Steps
  <2> QED
    BY <1>3, <1>5, <2>1
<1> QED
  BY <1>4, <1>7, <1>8, <1>9

\* ioapic_init_register keeps the invariant: every pin but the last is to be masked.
LEMMA RegisterPins ==
  ASSUME IInv, PInv, ioapic_init_register, UNCHANGED <<firmware, has_i8042, iflag>>
  PROVE  PInv'
<1>1. /\ At("ioapic_init_register")
      /\ UNCHANGED <<lapicVars, pic, redir, ISA_REDIRECTION_ENTRY>>
  BY Zenon DEF ioapic_init_register
<1>2. PICK f \in Firmware : f = firmware
  BY <1>1, Here
<1>3. PICK x, A2 : x = Head(todo) /\ A2 = Steps(todo')
  OBVIOUS
<1>4. PICK r : r = x.record
  OBVIOUS
<1>5. /\ Parts /\ todo # <<>> /\ x.op = "ioapic_init_register" /\ ~iflag
      /\ r \in RecordsOf(f, 1)
      /\ Steps(todo) = {x} \cup Steps(Tail(todo))
      /\ \A y \in Steps(Tail(todo)) : y.op \in AgendaOps \cup {"madt_record"}
  <2>1. "ioapic_init_register" \in RecordOps
    BY DEF RecordOps
  <2>2. /\ Parts /\ todo # <<>> /\ x.op = "ioapic_init_register" /\ ~iflag
        /\ Steps(todo) = {x} \cup Steps(Tail(todo))
        /\ \A y \in Steps(Tail(todo)) : y.op \in AgendaOps \cup {"madt_record"}
        /\ \E type \in 1 .. 4 : /\ "ioapic_init_register" = Handler(type)
                                /\ x.record \in RecordsOf(f, type)
    BY <1>1, <1>2, <1>3, <2>1, AtRecord
  <2> QED
    BY <1>4, <2>2, HandlersDiffer
<1>6. PICK count, body, B : count = LastPin /\ body = DisableSteps(count) /\ B = Steps(body)
  OBVIOUS
<1>7. \/ panic' \in {"Multiple I/O APICs not supported",
                     "Remapping the entire I/O APIC is not supported",
                     "I/O APIC has too few pins to cover all ISA IRQs"}
      \/ ~IOAPIC_BASE /\ IOAPIC_BASE' = TRUE /\ ~(count < ISA) /\ Call(body)
  BY <1>6, Zenon DEF ioapic_init_register, Panic
<1>8. CASE panic' \in {"Multiple I/O APICs not supported",
                       "Remapping the entire I/O APIC is not supported",
                       "I/O APIC has too few pins to cover all ISA IRQs"}
  <2>1. ~Runs(panic')
    BY <1>8, Messages, Zenon
  <2> QED
    BY <1>1, <2>1, Stop
<1>9. CASE ~IOAPIC_BASE /\ IOAPIC_BASE' = TRUE /\ ~(count < ISA) /\ Call(body)
  <2>1. /\ IsTable(f, redir) /\ Silent(f, iflag, IOAPIC_BASE, redir)
        /\ Nmis(f, IOAPIC_BASE, redir, Steps(todo))
    BY <1>2, <1>5, Zenon DEF Parts
  <2>2. count = f.pins - 1 /\ f.pins \in Nat
    BY <1>6, <2>1, TableIs
  <2>3. count \in Nat /\ ISA < f.pins /\ count - 1 = f.pins - 2
    BY <1>9, <2>2, IrqsAre
  <2>4. /\ IsSeq(body)
        /\ \A y \in B : \E p \in 0 .. f.pins - 2 : y = Lower(p, Masked) \/ y = Upper(p)
        /\ \A p \in 0 .. f.pins - 2 : Lower(p, Masked) \in B /\ Upper(p) \in B
    <3>1. PICK c \in Nat : c = count /\ body = DisableSteps(c)
      BY <1>6, <2>3
    <3>2. /\ IsSeq(body)
          /\ \A y \in Steps(body) : \E p \in 0 .. c - 1 : y = Lower(p, Masked) \/ y = Upper(p)
          /\ \A p \in 0 .. c - 1 : Lower(p, Masked) \in Steps(body) /\ Upper(p) \in Steps(body)
      BY <3>1, DisablesAre
    <3> QED
      BY <1>6, <2>3, <3>1, <3>2
  <2>5. ASSUME NEW y \in B
        PROVE  Allowed(f, iflag, y) /\ y.op = "ioapic_write32"
    <3>1. PICK p \in 0 .. f.pins - 2 : y = Lower(p, Masked) \/ y = Upper(p)
      BY <2>4
    <3>2. p \in Nat /\ Quiet(f, p, Masked)
      BY <2>2 DEF Quiet
    <3>3. y.op = "ioapic_write32" /\ (y = Lower(p, Masked) => y.value = Masked)
      BY <3>1, HalvesAre
    <3>4. y = Upper(p) \/ (y = Lower(p, y.value) /\ Quiet(f, p, y.value))
      BY <3>1, <3>2, <3>3
    <3> QED
      BY <1>5, <3>2, <3>3, <3>4 DEF Allowed, Halves
  <2>6. Follow(f, x, B)
    BY <1>5, FollowOther
  <2>7. NoPics(B) /\ \A y \in B : y.op # "lapic_write"
    BY <2>5 DEF NoPics, PicOps
  <2>8. /\ IsSeq(todo') /\ Moved(Steps(todo), x, Steps(Tail(todo)), B, A2)
        /\ Planned(f, iflag, A2)
        /\ Sourced(f, ISA_REDIRECTION_ENTRY, A2)
        /\ Legacy(f, has_i8042, A2) /\ Local(f, apic_base, HAS_X2APIC, lapic, A2)
        /\ Legacies(f, pic, todo', A2)
    <3>1. x = Head(todo) /\ A2 = Steps(todo') /\ B = Steps(body) /\ f = firmware
      BY <1>2, <1>3, <1>6
    <3>2. Parts /\ todo # <<>> /\ IsSeq(body) /\ Call(body) /\ \A y \in B : Allowed(f, iflag, y)
      BY <1>5, <1>9, <2>4, <2>5
    <3>3. x.op = "ioapic_init_register"
      BY <1>5
    <3> QED
      BY <2>6, <2>7, <3>1, <3>2, <3>3, Kept DEF PicOps
  <2>9. Silent(f, iflag, TRUE, redir)
    BY <1>5, <2>1 DEF Silent
  <2>10. Cleared(f, iflag, TRUE, redir, A2)
    <3>1. MadtsOf(f) # {}
      BY <1>5 DEF RecordsOf
    <3>2. \A p \in 0 .. f.pins - 2 : Lower(p, Masked) \in A2 /\ Upper(p) \in A2
      BY <2>4, <2>8 DEF Moved
    <3> QED
      BY <1>5, <2>3, <3>1, <3>2 DEF Cleared
  <2>11. Routed(f, iflag, TRUE, redir, A2)
    BY <1>5 DEF Routed
  <2>12. ASSUME NEW s \in RecordsOf(f, 3), HasRead(f, A2, s)
         PROVE  FALSE
    <3>1. 3 \in 1 .. 4 /\ x.op # Handler(3)
      BY <1>5, HandlersAre
    <3>2. HasRead(f, Steps(todo), s)
      BY <2>6, <2>8, <2>12, <3>1, ReadKept
    <3>3. Towards(f, IOAPIC_BASE, redir, Steps(todo), s.global_system_interrupt, NmiEntry(s))
      BY <2>1, <3>2 DEF Nmis
    <3>4. PICK y : y = Lower(s.global_system_interrupt, NmiEntry(s)) /\ y.op = "ioapic_write32"
      BY HalvesAre
    <3>5. y \in Steps(todo)
      BY <1>9, <3>3, <3>4, Zenon DEF Towards
    <3> QED
      BY <1>5, <3>4, <3>5 DEF AgendaOps
  <2>13. Nmis(f, TRUE, redir, A2)
    BY <2>12, Zenon DEF Nmis
  <2>14. /\ firmware' = f /\ iflag' = iflag /\ pic' = pic /\ has_i8042' = has_i8042
         /\ IOAPIC_BASE' = TRUE /\ redir' = redir
         /\ ISA_REDIRECTION_ENTRY' = ISA_REDIRECTION_ENTRY
         /\ apic_base' = apic_base /\ HAS_X2APIC' = HAS_X2APIC /\ lapic' = lapic
    BY <1>1, <1>2, <1>9 DEF lapicVars
  <2>15. Parts'
    BY <1>3, <2>1, <2>8, <2>9, <2>10, <2>11, <2>13, <2>14, Zenon DEF Parts
  <2> QED
    BY <2>15, Close
<1> QED
  BY <1>7, <1>8, <1>9

-----------------------------------------------------------------------------
(* The steps keep it: writes to the I/O APIC.                              *)

\* One write to the redirection table is done.
Hit(f, rd, rd2, x) ==
  /\ IsTable(f, rd2)
  /\ \A p \in 0 .. f.pins - 1 :
       /\ rd2[p].low = IF x = Lower(p, x.value) THEN x.value ELSE rd[p].low
       /\ rd2[p].destination = IF x = Upper(p) THEN 0 ELSE rd[p].destination

\* The lower half of an entry is written.
LEMMA HitLower ==
  ASSUME NEW f, f.pins \in Nat, NEW rd, IsTable(f, rd), NEW q \in Nat, NEW w, NEW x, x = Lower(q, w),
         NEW rd2, rd2 = IF q \notin 0 .. f.pins - 1 THEN rd ELSE [rd EXCEPT ![q].low = w]
  PROVE  Hit(f, rd, rd2, x)
<1>1. x.value = w
  BY HalvesAre
<1>2. ASSUME NEW p \in 0 .. f.pins - 1
      PROVE  (x = Lower(p, x.value) <=> p = q) /\ x # Upper(p)
  <2>1. p \in Nat
    OBVIOUS
  <2> QED
    BY <1>1, <2>1, HalvesDiffer
<1>3. PICK d : d = 0 .. f.pins - 1
  OBVIOUS
<1>4. ASSUME NEW p \in d
      PROVE  rd[p] = [low |-> rd[p].low, destination |-> rd[p].destination]
  BY <1>3 DEF IsTable
<1>5. rd = [p \in d |-> rd[p]]
  BY <1>3 DEF IsTable
<1>6. ASSUME NEW p \in d
      PROVE  /\ rd2[p] = [low |-> rd2[p].low, destination |-> rd2[p].destination]
             /\ rd2[p].low = (IF p = q THEN w ELSE rd[p].low)
             /\ rd2[p].destination = rd[p].destination
  <2>1. CASE p = q
    <3>1. rd2[p] = [rd[p] EXCEPT !.low = w]
      BY <1>3, <1>5, <2>1
    <3>2. rd2[p] = [low |-> w, destination |-> rd[p].destination]
      <4>1. PICK a, b : a = rd[p].low /\ b = rd[p].destination
        OBVIOUS
      <4>2. rd[p] = [low |-> a, destination |-> b]
        BY <1>4, <4>1
      <4>3. [[low |-> a, destination |-> b] EXCEPT !.low = w] = [low |-> w, destination |-> b]
        OBVIOUS
      <4> QED
        BY <3>1, <4>1, <4>2, <4>3, Zenon
    <3> QED
      BY <2>1, <3>2
  <2>2. CASE p # q
    <3>1. rd2[p] = rd[p]
      BY <1>3, <1>5, <2>2
    <3> QED
      BY <1>4, <2>2, <3>1
  <2> QED
    BY <2>1, <2>2
<1>7. IsTable(f, rd2)
  <2>1. rd2 = [p \in d |-> rd2[p]]
    BY <1>3, <1>5
  <2> QED
    BY <1>3, <1>6, <2>1 DEF IsTable
<1> QED
  BY <1>1, <1>2, <1>3, <1>6, <1>7 DEF Hit

\* The upper half of an entry is written.
LEMMA HitUpper ==
  ASSUME NEW f, f.pins \in Nat, NEW rd, IsTable(f, rd), NEW q \in Nat, NEW x, x = Upper(q),
         NEW rd2, rd2 = IF q \notin 0 .. f.pins - 1 THEN rd ELSE [rd EXCEPT ![q].destination = 0]
  PROVE  Hit(f, rd, rd2, x)
<1>1. ASSUME NEW p \in 0 .. f.pins - 1
      PROVE  (x = Upper(p) <=> p = q) /\ x # Lower(p, x.value)
  <2>1. p \in Nat
    OBVIOUS
  <2> QED
    BY <2>1, HalvesDiffer
<1>2. PICK d : d = 0 .. f.pins - 1
  OBVIOUS
<1>3. ASSUME NEW p \in d
      PROVE  rd[p] = [low |-> rd[p].low, destination |-> rd[p].destination]
  BY <1>2 DEF IsTable
<1>4. rd = [p \in d |-> rd[p]]
  BY <1>2 DEF IsTable
<1>5. ASSUME NEW p \in d
      PROVE  /\ rd2[p] = [low |-> rd2[p].low, destination |-> rd2[p].destination]
             /\ rd2[p].low = rd[p].low
             /\ rd2[p].destination = (IF p = q THEN 0 ELSE rd[p].destination)
  <2>1. CASE p = q
    <3>1. rd2[p] = [rd[p] EXCEPT !.destination = 0]
      BY <1>2, <1>4, <2>1
    <3>2. rd2[p] = [low |-> rd[p].low, destination |-> 0]
      BY <1>3, <3>1, ZenonT(30)
    <3> QED
      BY <2>1, <3>2
  <2>2. CASE p # q
    <3>1. rd2[p] = rd[p]
      BY <1>2, <1>4, <2>2
    <3> QED
      BY <1>3, <2>2, <3>1
  <2> QED
    BY <2>1, <2>2
<1>6. IsTable(f, rd2)
  <2>1. rd2 = [p \in d |-> rd2[p]]
    BY <1>2, <1>4
  <2> QED
    BY <1>2, <1>5, <2>1 DEF IsTable
<1> QED
  BY <1>1, <1>2, <1>5, <1>6 DEF Hit

\* An entry is still on its way, or arrives.
LEMMA TowardsHit ==
  ASSUME NEW f, NEW rd, NEW rd2, NEW x, Hit(f, rd, rd2, x), NEW A, NEW R, NEW A2,
         Moved(A, x, R, {}, A2), NEW io, io, NEW p, NEW v, Towards(f, io, rd, A, p, v),
         x = Lower(p, x.value) => x.value = v
  PROVE  Towards(f, io, rd2, A2, p, v)
<1>1. ASSUME NEW y \in A, y # x
      PROVE  y \in A2
  BY <1>1 DEF Moved
<1>2. ASSUME p \in 0 .. f.pins - 1
      PROVE  rd2[p].low = v \/ Lower(p, v) \in A2
  <2>1. CASE x = Lower(p, x.value)
    BY <1>2, <2>1, Zenon DEF Hit
  <2>2. CASE x # Lower(p, x.value)
    <3>1. rd2[p].low = rd[p].low
      BY <1>2, <2>2, Zenon DEF Hit
    <3>2. Lower(p, v) # x
      BY <2>2, HalvesAre, Zenon
    <3> QED
      BY <1>1, <1>2, <3>1, <3>2, Zenon DEF Towards
  <2> QED
    BY <2>1, <2>2
<1>3. ASSUME p \in 0 .. f.pins - 1
      PROVE  rd2[p].destination = 0 \/ Upper(p) \in A2
  <2>1. CASE x = Upper(p)
    BY <1>3, <2>1, Zenon DEF Hit
  <2>2. CASE x # Upper(p)
    <3>1. rd2[p].destination = rd[p].destination
      BY <1>3, <2>2, Zenon DEF Hit
    <3> QED
      BY <1>1, <1>3, <2>2, <3>1, Zenon DEF Towards
  <2> QED
    BY <2>1, <2>2
<1> QED
  BY <1>2, <1>3, Zenon DEF Towards

\* The write is one of the two halves of an entry.
LEMMA IoapicHit ==
  ASSUME IInv, PInv, do_ioapic_write32, UNCHANGED <<firmware, has_i8042, iflag>>,
         NEW f \in Firmware, f = firmware, NEW x, x = Head(todo), Halves(f, iflag, x),
         IsTable(f, redir)
  PROVE  \/ panic' = "#PF" /\ UNCHANGED redir
         \/ IOAPIC_BASE /\ Return /\ Hit(f, redir, redir', x)
<1>1. \/ panic' = "#PF" /\ UNCHANGED redir
      \/ /\ IOAPIC_BASE /\ Return
         /\ redir' = IF (x.reg - 16) \div 2 \notin Pins THEN redir
                     ELSE IF x.reg % 2 = 0 THEN [redir EXCEPT ![(x.reg - 16) \div 2].low = x.value]
                     ELSE [redir EXCEPT ![(x.reg - 16) \div 2].destination = x.value]
  BY Zenon DEF do_ioapic_write32, Panic, Step
<1>2. Pins = 0 .. f.pins - 1 /\ f.pins \in Nat
  BY TableIs
<1>3. ASSUME NEW rd2, rd2 = IF (x.reg - 16) \div 2 \notin 0 .. f.pins - 1 THEN redir
                     ELSE IF x.reg % 2 = 0 THEN [redir EXCEPT ![(x.reg - 16) \div 2].low = x.value]
                     ELSE [redir EXCEPT ![(x.reg - 16) \div 2].destination = x.value]
      PROVE  Hit(f, redir, rd2, x)
  <2>1. PICK q \in Nat : x = Upper(q) \/ x = Lower(q, x.value)
    BY DEF Halves
  <2>2. PICK w, reg : w = x.value /\ reg = x.reg
    OBVIOUS
  <2>3. CASE x = Lower(q, w)
    <3>1. reg = 16 + 2 * q
      BY <2>2, <2>3, HalvesAre
    <3>2. (reg - 16) \div 2 = q /\ reg % 2 = 0
      BY <3>1
    <3>3. rd2 = IF q \notin 0 .. f.pins - 1 THEN redir ELSE [redir EXCEPT ![q].low = w]
      BY <1>3, <2>2, <3>2, Zenon
    <3> QED
      BY <1>2, <2>3, <3>3, HitLower
  <2>4. CASE x = Upper(q)
    <3>1. reg = 16 + 2 * q + 1 /\ w = 0
      BY <2>2, <2>4, HalvesAre
    <3>2. (reg - 16) \div 2 = q /\ reg % 2 # 0
      BY <3>1
    <3>3. rd2 = IF q \notin 0 .. f.pins - 1 THEN redir ELSE [redir EXCEPT ![q].destination = 0]
      BY <1>3, <2>2, <3>1, <3>2, Zenon
    <3> QED
      BY <1>2, <2>4, <3>3, HitUpper
  <2> QED
    BY <2>1, <2>2, <2>3, <2>4
<1> QED
  BY <1>1, <1>2, <1>3, Zenon

\* What a write leaves of the parts about the table.
LEMMA HitKept ==
  ASSUME NEW f \in Firmware, NEW late, NEW rd, NEW rd2, NEW x, Hit(f, rd, rd2, x),
         Halves(f, late, x), NEW A, NEW R, NEW A2, Moved(A, x, R, {}, A2), NEW io, io
  PROVE  /\ Silent(f, late, io, rd) => Silent(f, late, io, rd2)
         /\ Cleared(f, late, io, rd, A) => Cleared(f, late, io, rd2, A2)
         /\ Routed(f, late, io, rd, A) => Routed(f, late, io, rd2, A2)
         /\ Nmis(f, io, rd, A) => Nmis(f, io, rd2, A2)
<1>1. x.op = "ioapic_write32" /\ f.pins \in Nat
  BY MachineIs DEF Halves
<1>2. x \in A /\ A2 \subseteq A /\ \A y \in A : y # x => y \in A2
  BY DEF Moved
<1>3. ASSUME NEW p \in Nat, x = Lower(p, x.value)
      PROVE  IF late THEN Asked(f, p, x.value) ELSE Quiet(f, p, x.value)
  <2>1. PICK w : w = x.value
    OBVIOUS
  <2>2. PICK q \in Nat :
          \/ x = Upper(q)
          \/ x = Lower(q, w) /\ IF late THEN Asked(f, q, w) ELSE Quiet(f, q, w)
    BY <2>1 DEF Halves
  <2>3. x = Lower(p, w)
    BY <1>3, <2>1
  <2>4. q = p /\ x # Upper(q)
    BY <2>2, <2>3, HalvesDiffer
  <2> QED
    BY <2>1, <2>2, <2>4
<1>4. ASSUME Silent(f, late, io, rd)
      PROVE  Silent(f, late, io, rd2)
  <2>1. ASSUME NEW p \in 0 .. f.pins - 1, Delivering(rd2[p].low)
        PROVE  late /\ Asked(f, p, rd2[p].low)
    <3>1. CASE x = Lower(p, x.value)
      <4>1. rd2[p].low = x.value
        BY <2>1, <3>1, Zenon DEF Hit
      <4>2. p \in Nat
        OBVIOUS
      <4>3. ~Quiet(f, p, x.value)
        BY <2>1, <4>1, EntriesDeliver DEF Quiet
      <4> QED
        BY <1>3, <3>1, <4>1, <4>2, <4>3
    <3>2. CASE x # Lower(p, x.value)
      <4>1. rd2[p].low = rd[p].low
        BY <2>1, <3>2, Zenon DEF Hit
      <4> QED
        BY <1>4, <2>1, <4>1 DEF Silent
    <3> QED
      BY <3>1, <3>2
  <2> QED
    BY <2>1 DEF Silent
<1>5. ASSUME Cleared(f, late, io, rd, A)
      PROVE  Cleared(f, late, io, rd2, A2)
  <2>1. /\ MadtsOf(f) # {} /\ ISA < f.pins
        /\ \A p \in 0 .. f.pins - 2 :
             /\ \/ Quiet(f, p, rd[p].low) \/ (late /\ Asked(f, p, rd[p].low))
                \/ Lower(p, Masked) \in A
             /\ rd[p].destination = 0 \/ (~late /\ Upper(p) \in A)
    BY <1>5, Zenon DEF Cleared
  <2>2. ASSUME NEW p \in 0 .. f.pins - 2
        PROVE  /\ \/ Quiet(f, p, rd2[p].low) \/ (late /\ Asked(f, p, rd2[p].low))
                  \/ Lower(p, Masked) \in A2
               /\ rd2[p].destination = 0 \/ (~late /\ Upper(p) \in A2)
    <3>1. p \in Nat /\ p \in 0 .. f.pins - 1
      BY <1>1
    <3>2. CASE x = Lower(p, x.value)
      <4>1. rd2[p].low = x.value
        BY <3>1, <3>2, Zenon DEF Hit
      <4>2. x # Upper(p)
        BY <3>1, <3>2, HalvesDiffer
      <4>3. rd2[p].destination = rd[p].destination
        BY <3>1, <4>2, Zenon DEF Hit
      <4> QED
        BY <1>2, <1>3, <2>1, <3>1, <3>2, <4>1, <4>2, <4>3
    <3>3. CASE x = Upper(p)
      <4>1. rd2[p].destination = 0
        BY <3>1, <3>3, Zenon DEF Hit
      <4>2. x # Lower(p, x.value) /\ x # Lower(p, Masked)
        BY <3>1, <3>3, HalvesDiffer
      <4>3. rd2[p].low = rd[p].low
        BY <3>1, <4>2, Zenon DEF Hit
      <4> QED
        BY <1>2, <2>1, <4>1, <4>2, <4>3
    <3>4. CASE x # Upper(p) /\ x # Lower(p, x.value)
      <4>1. rd2[p].low = rd[p].low /\ rd2[p].destination = rd[p].destination
        BY <3>1, <3>4, Zenon DEF Hit
      <4>2. x # Lower(p, Masked)
        BY <3>4, HalvesAre, Zenon
      <4> QED
        BY <1>2, <2>1, <3>4, <4>1, <4>2
    <3> QED
      BY <3>2, <3>3, <3>4
  <2> QED
    BY <2>1, <2>2, Zenon DEF Cleared
<1>6. ASSUME Routed(f, late, io, rd, A)
      PROVE  Routed(f, late, io, rd2, A2)
  <2>1. ASSUME NEW irq \in WantedIn(f), late,
               Towards(f, io, rd, A, PinIn(f, irq), EntryIn(f, irq))
        PROVE  Towards(f, io, rd2, A2, PinIn(f, irq), EntryIn(f, irq))
    <3>1. PICK p, v : p = PinIn(f, irq) /\ v = EntryIn(f, irq)
      OBVIOUS
    <3>2. p \in Nat
      BY <3>1, PinsIn, WantedAre
    <3>3. ASSUME x = Lower(p, x.value)
          PROVE  x.value = v
      <4>1. Asked(f, p, x.value)
        BY <1>3, <2>1, <3>2, <3>3
      <4>2. PICK other \in WantedIn(f) : p = PinIn(f, other) /\ x.value = EntryIn(f, other)
        BY <4>1 DEF Asked
      <4>3. other \in {IRQ_KB, IRQ_COM1, IRQ_MOUSE} /\ irq \in {IRQ_KB, IRQ_COM1, IRQ_MOUSE}
        BY WantedAre
      <4>4. other = irq
        BY <3>1, <4>2, <4>3, MachineIs DEF OverridesApart
      <4> QED
        BY <3>1, <4>2, <4>4
    <3>4. Towards(f, io, rd, A, p, v)
      BY <2>1, <3>1, Zenon
    <3>5. Towards(f, io, rd2, A2, p, v)
      BY <3>3, <3>4, TowardsHit
    <3> QED
      BY <3>1, <3>5, Zenon
  <2>2. \A op : [op |-> op] \in A => [op |-> op] \in A2 \/ op = "ioapic_write32"
    BY <1>1, <1>2
  <2>3. /\ [op |-> "serial_init"] \notin A2 => [op |-> "serial_init"] \notin A
        /\ [op |-> "ps2_init"] \notin A2 => [op |-> "ps2_init"] \notin A
    BY <2>2
  <2>4. IRQ_COM1 \in WantedIn(f)
    BY WantedAre
  <2> QED
    BY <1>6, <2>1, <2>3, <2>4, Zenon DEF Routed
<1>7. ASSUME Nmis(f, io, rd, A)
      PROVE  Nmis(f, io, rd2, A2)
  <2>1. ASSUME NEW s \in RecordsOf(f, 3), HasRead(f, A2, s)
        PROVE  /\ Towards(f, io, rd2, A2, s.global_system_interrupt, NmiEntry(s))
               /\ \A y \in A2 : y.op = "ioapic_write32" /\ y = Lower(s.global_system_interrupt, y.value)
                    => y.value = NmiEntry(s)
    <3>1. x.op # Handler(3) /\ 3 \in 1 .. 4
      BY <1>1, HandlersAre
    <3>2. Follow(f, x, {})
      BY <1>1, FollowOther
    <3>3. HasRead(f, A, s)
      BY <2>1, <3>1, <3>2, ReadKept
    <3>4. PICK p, v : p = s.global_system_interrupt /\ v = NmiEntry(s)
      OBVIOUS
    <3>5. /\ Towards(f, io, rd, A, p, v)
          /\ \A y \in A : y.op = "ioapic_write32" /\ y = Lower(p, y.value) => y.value = v
      BY <1>7, <3>3, <3>4 DEF Nmis
    <3>6. x = Lower(p, x.value) => x.value = v
      BY <1>1, <1>2, <3>5
    <3>7. Towards(f, io, rd2, A2, p, v)
      BY <3>5, <3>6, TowardsHit
    <3> QED
      BY <1>2, <3>4, <3>5, <3>7
  <2> QED
    BY <2>1, Zenon DEF Nmis
<1> QED
  BY <1>4, <1>5, <1>6, <1>7

\* A write to the I/O APIC keeps the invariant.
LEMMA IoapicWritePins ==
  ASSUME IInv, PInv, do_ioapic_write32, UNCHANGED <<firmware, has_i8042, iflag>>
  PROVE  PInv'
<1>1. /\ At("ioapic_write32")
      /\ UNCHANGED <<lapicVars, pic, IOAPIC_BASE, ISA_REDIRECTION_ENTRY>>
  BY Zenon DEF do_ioapic_write32
<1>2. PICK f \in Firmware : f = firmware
  BY <1>1, Here
<1>3. PICK x, A2, rd2 : x = Head(todo) /\ A2 = Steps(todo') /\ rd2 = redir'
  OBVIOUS
<1>4. /\ Parts /\ todo # <<>> /\ x.op = "ioapic_write32" /\ Allowed(f, iflag, x)
  BY <1>1, <1>2, <1>3, Enter
<1>5. Halves(f, iflag, x)
  BY <1>4, Shapes
<1>6. /\ IsTable(f, redir) /\ Silent(f, iflag, IOAPIC_BASE, redir)
      /\ Cleared(f, iflag, IOAPIC_BASE, redir, Steps(todo))
      /\ Routed(f, iflag, IOAPIC_BASE, redir, Steps(todo))
      /\ Nmis(f, IOAPIC_BASE, redir, Steps(todo))
  BY <1>2, <1>4, Zenon DEF Parts
<1>7. \/ panic' = "#PF" /\ UNCHANGED redir
      \/ IOAPIC_BASE /\ Return /\ Hit(f, redir, rd2, x)
  BY <1>2, <1>3, <1>5, <1>6, IoapicHit
<1>8. CASE panic' = "#PF" /\ UNCHANGED redir
  <2>1. ~Runs(panic')
    BY <1>8, Messages, Zenon
  <2> QED
    BY <1>1, <1>8, <2>1, Stop
<1>9. CASE IOAPIC_BASE /\ Return /\ Hit(f, redir, rd2, x)
  <2>1. Follow(f, x, {})
    BY <1>4, FollowOther
  <2>2. /\ IsSeq(todo') /\ Moved(Steps(todo), x, Steps(Tail(todo)), {}, A2)
        /\ Planned(f, iflag, A2) /\ Sourced(f, ISA_REDIRECTION_ENTRY, A2)
        /\ Legacy(f, has_i8042, A2)
        /\ Local(f, apic_base, HAS_X2APIC, lapic, A2) /\ Legacies(f, pic, todo', A2)
    BY <1>2, <1>3, <1>4, <1>9, <2>1, Returned DEF PicOps
  <2>3. /\ Silent(f, iflag, IOAPIC_BASE, rd2) /\ Cleared(f, iflag, IOAPIC_BASE, rd2, A2)
        /\ Routed(f, iflag, IOAPIC_BASE, rd2, A2) /\ Nmis(f, IOAPIC_BASE, rd2, A2)
    BY <1>5, <1>6, <1>9, <2>2, HitKept
  <2>4. IsTable(f, rd2)
    BY <1>9, Zenon DEF Hit
  <2>5. /\ firmware' = f /\ iflag' = iflag /\ pic' = pic /\ has_i8042' = has_i8042
        /\ IOAPIC_BASE' = IOAPIC_BASE /\ redir' = rd2
        /\ ISA_REDIRECTION_ENTRY' = ISA_REDIRECTION_ENTRY
        /\ apic_base' = apic_base /\ HAS_X2APIC' = HAS_X2APIC /\ lapic' = lapic
    BY <1>1, <1>2, <1>3 DEF lapicVars
  <2>6. Parts'
    BY <1>3, <2>2, <2>3, <2>4, <2>5, Zenon DEF Parts
  <2> QED
    BY <2>6, Close
<1> QED
  BY <1>7, <1>8, <1>9

-----------------------------------------------------------------------------
(* The steps keep it: the local APIC.                                      *)

\* Steps in front of others.
LEMMA OntoSteps ==
  ASSUME NEW t, NEW rest, NEW ops, Onto(t, rest, ops)
  PROVE  /\ \A y \in Steps(t) : y.op \in ops \/ y \in Steps(rest)
         /\ Steps(rest) \subseteq Steps(t)
<1>1. IsSeq(t) /\ IsSeq(rest)
  BY DEF Onto
<1>2. Len(t) \in Nat /\ DOMAIN t = 1 .. Len(t) /\ Len(rest) \in Nat /\ DOMAIN rest = 1 .. Len(rest)
  BY <1>1, StepsAt
<1>3. PICK c \in 0 .. Len(t) :
        /\ SubSeq(t, c + 1, Len(t)) = rest
        /\ \A j \in 1 .. c : t[j].op \in ops
  BY DEF Onto
<1>4. c \in Nat /\ c <= Len(t)
  BY <1>2, <1>3
<1>5. Len(rest) = Len(t) - c /\ \A i \in 1 .. Len(t) - c : rest[i] = t[c + i]
  BY <1>1, <1>3, <1>4, EndIs
<1>6. ASSUME NEW j \in 1 .. Len(t)
      PROVE  t[j].op \in ops \/ t[j] \in Steps(rest)
  <2>1. CASE j <= c
    BY <1>2, <1>3, <1>4, <2>1
  <2>2. CASE j > c
    <3>1. j - c \in 1 .. Len(rest) /\ j - c \in 1 .. Len(t) - c /\ c + (j - c) = j
      BY <1>2, <1>4, <1>5, <2>2
    <3>2. rest[j - c] = t[j]
      BY <1>5, <3>1
    <3> QED
      BY <1>2, <3>1, <3>2 DEF Steps
  <2> QED
    BY <1>2, <1>4, <2>1, <2>2
<1>7. ASSUME NEW i \in 1 .. Len(rest)
      PROVE  rest[i] \in Steps(t)
  <2>1. c + i \in 1 .. Len(t) /\ i \in 1 .. Len(t) - c
    BY <1>2, <1>4, <1>5
  <2>2. rest[i] = t[c + i]
    BY <1>5, <2>1
  <2> QED
    BY <1>2, <2>1, <2>2 DEF Steps
<1> QED
  BY <1>2, <1>6, <1>7 DEF Steps

\* Before the first record of a MADT none has been read.
LEMMA LoopUnread ==
  ASSUME NEW f \in Firmware, NEW k, IsMadt(f, k), NEW A, Loops(f.tables[k], 1) \in A,
         NEW type, NEW r \in RecordsOf(f, type)
  PROVE  ~HasRead(f, A, r)
<1>1. PICK table \in MadtsOf(f) : r \in InAnyOrder(table.records)
  BY DEF RecordsOf
<1>2. PICK j \in DOMAIN table.records : table.records[j] = r
  BY <1>1 DEF InAnyOrder
<1>3. table = f.tables[k]
  BY <1>1, Listed, MachineIs DEF OneOfEach
<1>4. 1 \in 1 .. j
  <2>1. j \in 1 .. Len(table.records) /\ Len(table.records) \in Nat
    BY <1>2, <1>3, TablesAre DEF IsMadt
  <2> QED
    BY <2>1
<1>5. Unread(A, table, j)
  BY <1>3, <1>4, Zenon DEF Unread
<1> QED
  BY <1>2, <1>5 DEF HasRead

\* At a settled point the mode of the local APIC does not change any more, unless
\* no record has been read.
LEMMA PointOps ==
  ASSUME NEW f \in Firmware, NEW t, IsSeq(t), NEW io, Point(f, t, io)
  PROVE  \A y \in Steps(t) :
           /\ y.op # "wrmsr_base"
           /\ y.op = "lapic_init_begin" =>
                \E k \in DOMAIN f.tables : IsMadt(f, k) /\ Loops(f.tables[k], 1) \in Steps(t)
<1>1. Len(f.tables) \in Nat
  BY TablesAre
<1>2. ASSUME NEW k \in 0 .. Len(f.tables) + 3, NEW y \in Steps(Rest(f, k))
      PROVE  y.op \in AgendaOps
  BY <1>2, StepsRest, StepOps DEF AgendaOps
<1>3. /\ "wrmsr_base" \notin AgendaOps \cup {"madt_record"} \cup LapicOps \cup RecordOps
      /\ "lapic_init_begin" \notin AgendaOps \cup {"madt_record"} \cup LapicOps \cup RecordOps
      /\ "wrmsr_base" \notin Writes(f, io) /\ "lapic_init_begin" \notin Writes(f, io)
  BY DEF AgendaOps, LapicOps, PicOps, RecordOps, Writes
<1>4. CASE Start(t, io)
  <2>1. t # <<>> /\ Head(t).op = "acpi_parse_rsdp" /\ Tail(t) = Finish
    BY <1>4, StartNext
  <2>2. Steps(t) = {Head(t)} \cup Steps(Finish)
    BY <2>1, StepsTail
  <2>3. \A y \in Steps(Finish) : y.op \in AgendaOps
    <3>1. PICK w : w = Finish
      OBVIOUS
    <3>2. \A j \in 1 .. 3 : w[j].op \in AgendaOps
      BY <3>1, FinishIs DEF AgendaOps
    <3>3. \A y \in Steps(w) : \E j \in 1 .. 3 : w[j] = y
      BY <3>1, FinishIs, StepsAt
    <3> QED
      BY <3>1, <3>2, <3>3
  <2> QED
    BY <1>3, <2>1, <2>2, <2>3
<1>5. ASSUME NEW k \in 0 .. Len(f.tables) + 3, Between(f, k, t, io)
      PROVE  \A y \in Steps(t) : y.op # "wrmsr_base" /\ y.op # "lapic_init_begin"
  <2>1. PICK ops : ops = IF k > Len(f.tables) + 1 THEN Writes(f, io) ELSE {}
    OBVIOUS
  <2>2. Onto(t, Rest(f, k), ops)
    BY <1>5, <2>1, Zenon DEF Between
  <2>3. "wrmsr_base" \notin ops /\ "lapic_init_begin" \notin ops
    BY <1>3, <2>1
  <2> QED
    BY <1>2, <1>3, <2>2, <2>3, OntoSteps
<1>6. ASSUME NEW k \in 0 .. Len(f.tables) + 3, NEW x, t = <<x>> \o Rest(f, k), NEW y \in Steps(t)
      PROVE  y = x \/ y.op \in AgendaOps
  <2>1. IsSeq(Rest(f, k)) /\ IsSeq(<<x>>) /\ Steps(<<x>>) = {x}
    BY RestIs, OneIs, StepsOne
  <2>2. PICK a, b : a = <<x>> /\ b = Rest(f, k)
    OBVIOUS
  <2>3. Steps(a \o b) = Steps(a) \cup Steps(b)
    BY <2>1, <2>2, StepsCat
  <2> QED
    BY <1>2, <1>6, <2>1, <2>2, <2>3
<1>7. ASSUME NEW k \in 0 .. Len(f.tables) + 3, CallsMadt(f, k, t, io) \/ CallsFadt(f, k, t, io)
      PROVE  \A y \in Steps(t) : y.op # "wrmsr_base" /\ y.op # "lapic_init_begin"
  <2>1. PICK x : /\ t = <<x>> \o Rest(f, k)
                 /\ x = step("acpi_parse_madt", f.tables[k]) \/ x = step("acpi_parse_fadt", f.tables[k])
    BY <1>7, Zenon DEF CallsMadt, CallsFadt
  <2>2. x.op # "wrmsr_base" /\ x.op # "lapic_init_begin"
    BY <2>1, StepOps
  <2> QED
    BY <1>3, <1>6, <2>1, <2>2
<1>8. ASSUME NEW k \in 0 .. Len(f.tables) + 3, Begin(f, k, t, io)
      PROVE  /\ \A y \in Steps(t) : y.op # "wrmsr_base"
             /\ k \in DOMAIN f.tables /\ IsMadt(f, k) /\ Loops(f.tables[k], 1) \in Steps(t)
  <2>1. /\ IsMadt(f, k) /\ t # <<>> /\ Head(t) = [op |-> "lapic_init_begin"]
        /\ Onto(Tail(t), Loop(f, k, 1), PicOps)
    BY <1>8, Zenon DEF Begin
  <2>2. Steps(t) = {Head(t)} \cup Steps(Tail(t))
    BY <2>1, StepsTail
  <2>3. /\ \A y \in Steps(Loop(f, k, 1)) : y.op \in AgendaOps \cup {"madt_record"}
        /\ Loops(f.tables[k], 1) \in Steps(Loop(f, k, 1))
    BY <2>1, StepsLoop
  <2>4. /\ \A y \in Steps(Tail(t)) : y.op \in PicOps \/ y \in Steps(Loop(f, k, 1))
        /\ Steps(Loop(f, k, 1)) \subseteq Steps(Tail(t))
    BY <2>1, OntoSteps
  <2> QED
    BY <1>3, <2>1, <2>2, <2>3, <2>4 DEF IsMadt, LapicOps
<1>9. ASSUME NEW k, NEW i, Reading(f, k, i, t, io)
      PROVE  \A y \in Steps(t) : y.op # "wrmsr_base" /\ y.op # "lapic_init_begin"
  <2>1. IsMadt(f, k) /\ Onto(t, Loop(f, k, i), LapicOps \cup Writes(f, io))
    BY <1>9, Zenon DEF Reading
  <2>2. \A y \in Steps(Loop(f, k, i)) : y.op \in AgendaOps \cup {"madt_record"}
    BY <2>1, StepsLoop
  <2>3. \A y \in Steps(t) : y.op \in LapicOps \cup Writes(f, io) \/ y \in Steps(Loop(f, k, i))
    BY <2>1, OntoSteps
  <2> QED
    BY <1>3, <2>2, <2>3
<1>10. ASSUME NEW k, NEW i, Record(f, k, i, t, io)
       PROVE  \A y \in Steps(t) : y.op # "wrmsr_base" /\ y.op # "lapic_init_begin"
  <2>1. PICK x, j : /\ IsMadt(f, k) /\ t = <<x>> \o Loop(f, k, j)
                    /\ f.tables[k].records[i].type \in 1 .. 4
                    /\ x = step(Handler(f.tables[k].records[i].type), f.tables[k].records[i])
    BY <1>10, Zenon DEF Record
  <2>2. x.op \in RecordOps
    <3>1. PICK type, r : /\ type \in 1 .. 4 /\ x = step(Handler(type), r)
      BY <2>1, Zenon
    <3>2. Handler(type) \in RecordOps
      BY <3>1, HandlerOps
    <3>3. x.op = Handler(type)
      BY <3>1, StepOps, Zenon
    <3> QED
      BY <3>2, <3>3, Zenon
  <2>3. PICK a, b : a = <<x>> /\ b = Loop(f, k, j)
    OBVIOUS
  <2>4. IsSeq(a) /\ IsSeq(b) /\ Steps(a) = {x}
    BY <2>1, <2>3, LoopIs, OneIs, StepsOne
  <2>5. Steps(t) = {x} \cup Steps(b)
    BY <2>1, <2>3, <2>4, StepsCat
  <2>6. \A y \in Steps(b) : y.op \in AgendaOps \cup {"madt_record"}
    BY <2>1, <2>3, StepsLoop
  <2> QED
    BY <1>3, <2>2, <2>5, <2>6
<1> QED
  BY <1>4, <1>5, <1>7, <1>8, <1>9, <1>10, Zenon DEF Point

\* What the local APIC is begun with.
LEMMA FirstSteps ==
  /\ IsSeq(FirstWrites)
  /\ \A y \in Steps(FirstWrites) :
       \/ \E reg \in Lines : y = lapic_write(reg, {16})
       \/ y = lapic_write("SPIV", {8} \cup (0 .. 7))
  /\ \A reg \in Lines : lapic_write(reg, {16}) \in Steps(FirstWrites)
  /\ lapic_write("SPIV", {8} \cup (0 .. 7)) \in Steps(FirstWrites)
<1>1. PICK a, b, c, d, e, g, h :
        /\ a = lapic_write("TIMER", {16}) /\ b = lapic_write("THERM", {16})
        /\ c = lapic_write("PERFC", {16}) /\ d = lapic_write("LINT0", {16})
        /\ e = lapic_write("LINT1", {16}) /\ g = lapic_write("ERROR", {16})
        /\ h = lapic_write("SPIV", {8} \cup (0 .. 7))
  OBVIOUS
<1>2. FirstWrites = <<a, b, c, d, e, g, h>>
  BY <1>1, Zenon DEF FirstWrites, LAPIC_LVT_MASK, LAPIC_SPIV_ENABLE, SpuriousVector
<1>3. Steps(<<a, b, c, d, e, g, h>>) = {a, b, c, d, e, g, h}
  BY DEF Steps
<1>7. Lines = {"TIMER", "THERM", "PERFC", "LINT0", "LINT1", "ERROR"}
  BY DEF Lines, Lvts
<1>4. \A reg \in Lines : lapic_write(reg, {16}) \in {a, b, c, d, e, g}
  BY <1>1, <1>7, Zenon
<1>5. \A y \in {a, b, c, d, e, g} : \E reg \in Lines : y = lapic_write(reg, {16})
  BY <1>1, <1>7, Zenon
<1>6. IsSeq(FirstWrites)
  BY FirstWritesAre DEF AllOf
<1> QED
  BY <1>1, <1>2, <1>3, <1>4, <1>5, <1>6

\* The writes that change its mode.
LEMMA BaseSteps ==
  ASSUME NEW x2, apic_base \in {{}, {"EN"}, {"EN", "EXTD"}}, NEW body, body = ApicBaseWrites(x2)
  PROVE  /\ IsSeq(body)
         /\ \A y \in Steps(body) : \/ y = wrmsr_base({"EN"})
                                   \/ y = wrmsr_base({"EN", "EXTD"}) /\ x2
         /\ "EN" \in apic_base \/ wrmsr_base({"EN"}) \in Steps(body)
<1>1. apic_base \cup {"EN"} \cup {"EXTD"} = {"EN", "EXTD"}
      /\ ("EN" \notin apic_base => apic_base \cup {"EN"} = {"EN"})
  OBVIOUS
<1>2. PICK a, b : a = wrmsr_base({"EN"}) /\ b = wrmsr_base({"EN", "EXTD"})
  OBVIOUS
<1>3. PICK enable, extend :
        /\ enable = IF "EN" \notin apic_base THEN <<a>> ELSE <<>>
        /\ extend = IF x2 /\ "EXTD" \notin apic_base THEN <<b>> ELSE <<>>
  OBVIOUS
<1>4. body = enable \o extend
  <2>1. body = (IF "EN" \notin apic_base THEN <<wrmsr_base(apic_base \cup {"EN"})>> ELSE <<>>)
               \o (IF x2 /\ "EXTD" \notin apic_base
                   THEN <<wrmsr_base(apic_base \cup {"EN"} \cup {"EXTD"})>> ELSE <<>>)
    BY Zenon DEF ApicBaseWrites
  <2>2. (IF "EN" \notin apic_base THEN <<wrmsr_base(apic_base \cup {"EN"})>> ELSE <<>>) = enable
    BY <1>1, <1>2, <1>3
  <2>3. (IF x2 /\ "EXTD" \notin apic_base
         THEN <<wrmsr_base(apic_base \cup {"EN"} \cup {"EXTD"})>> ELSE <<>>) = extend
    BY <1>1, <1>2, <1>3
  <2> QED
    BY <2>1, <2>2, <2>3, Zenon
<1>5. /\ IsSeq(<<a>>) /\ IsSeq(<<b>>) /\ IsSeq(<<>>)
      /\ Steps(<<a>>) = {a} /\ Steps(<<b>>) = {b} /\ Steps(<<>>) = {}
  BY OneIs, StepsOne, AllOfNone, StepsNone DEF AllOf
<1>6. IsSeq(enable) /\ Steps(enable) = IF "EN" \notin apic_base THEN {a} ELSE {}
  BY <1>3, <1>5
<1>7. IsSeq(extend) /\ Steps(extend) = IF x2 /\ "EXTD" \notin apic_base THEN {b} ELSE {}
  BY <1>3, <1>5
<1>8. IsSeq(body) /\ Steps(body) = Steps(enable) \cup Steps(extend)
  BY <1>4, <1>6, <1>7, CatIs, StepsCat
<1> QED
  BY <1>2, <1>6, <1>7, <1>8

\* lapic_init_begin keeps the invariant: mode and registers are to be written.
LEMMA BeginPins ==
  ASSUME IInv, PInv, lapic_init_begin(firmware.x2apic), UNCHANGED <<firmware, has_i8042, iflag>>
  PROVE  PInv'
<1>1. /\ At("lapic_init_begin") /\ HAS_X2APIC' = firmware.x2apic
      /\ UNCHANGED <<apic_base, lapic, pic, ioapicVars>>
      /\ Call(ApicBaseWrites(firmware.x2apic) \o FirstWrites)
  BY Zenon DEF lapic_init_begin, FirstWrites
<1>2. PICK f \in Firmware : f = firmware
  BY <1>1, Here
<1>3. PICK x, A2 : x = Head(todo) /\ A2 = Steps(todo')
  OBVIOUS
<1>4. /\ Parts /\ todo # <<>> /\ x.op = "lapic_init_begin" /\ Allowed(f, iflag, x)
      /\ IsSeq(todo) /\ Typing
  BY <1>1, <1>2, <1>3, Enter
<1>5. ~iflag
  BY <1>4, Shapes DEF SetupOps
<1>6. PICK k \in DOMAIN f.tables : IsMadt(f, k) /\ Loops(f.tables[k], 1) \in Steps(Tail(todo))
  <2>1. Head(todo).op = "lapic_init_begin"
    BY <1>1, Here
  <2>2. Next1(firmware, todo, IOAPIC_BASE, apic_base, HAS_X2APIC)
    BY <1>1, HereNext
  <2>3. PICK k \in DOMAIN f.tables : Begin(f, k, todo, IOAPIC_BASE)
    BY <1>2, <2>1, <2>2 DEF Next1, AgendaOps, RecordOps, LapicOps, PicOps, Writes
  <2>4. IsMadt(f, k) /\ Onto(Tail(todo), Loop(f, k, 1), PicOps)
    BY <2>3, Zenon DEF Begin
  <2>5. Loops(f.tables[k], 1) \in Steps(Loop(f, k, 1))
    BY <2>4, StepsLoop
  <2> QED
    BY <2>4, <2>5, OntoSteps
<1>7. PICK base, first, body, B :
        /\ base = ApicBaseWrites(f.x2apic) /\ first = FirstWrites
        /\ body = base \o first /\ B = Steps(body)
  OBVIOUS
<1>8. Call(body)
  BY <1>1, <1>2, <1>7, Zenon
<1>9. apic_base \in {{}, {"EN"}, {"EN", "EXTD"}}
  BY <1>4, Zenon DEF Typing
<1>10. /\ IsSeq(base) /\ IsSeq(first)
       /\ \A y \in Steps(base) : \/ y = wrmsr_base({"EN"})
                                 \/ y = wrmsr_base({"EN", "EXTD"}) /\ f.x2apic
       /\ "EN" \in apic_base \/ wrmsr_base({"EN"}) \in Steps(base)
  BY <1>7, <1>9, BaseSteps, FirstSteps
<1>11. IsSeq(body) /\ B = Steps(base) \cup Steps(first)
  BY <1>7, <1>10, CatIs, StepsCat
<1>12. ASSUME NEW y \in B
       PROVE  Allowed(f, iflag, y) /\ y.op \in {"wrmsr_base", "lapic_write"}
  <2>1. CASE y \in Steps(base)
    <3>1. Sets(f, y)
      BY <1>10, <2>1 DEF Sets
    <3> QED
      BY <1>5, <1>10, <2>1, <3>1, SettingOps DEF Allowed
  <2>2. CASE y \in Steps(first)
    <3>1. \/ \E reg \in Lines : y = lapic_write(reg, {16})
          \/ y = lapic_write("SPIV", {8} \cup (0 .. 7))
      BY <1>7, <2>2, FirstSteps
    <3>2. PICK reg, value : /\ y = lapic_write(reg, value)
                            /\ \/ reg \in Lines /\ value = {16}
                               \/ reg = "SPIV" /\ 8 \in value
      <4>1. 8 \in {8} \cup (0 .. 7)
        OBVIOUS
      <4> QED
        BY <3>1, <4>1, Zenon
    <3>3. y.op = "lapic_write" /\ y.reg = reg /\ y.value = value
      BY <3>2, SettingOps
    <3>4. LvtOk(f, y.reg, y.value)
      BY <3>2, <3>3 DEF LvtOk
    <3>5. Sets(f, y)
      BY <3>2, <3>3, <3>4 DEF Sets
    <3> QED
      BY <1>5, <3>3, <3>5 DEF Allowed
  <2> QED
    BY <1>11, <2>1, <2>2
<1>13. NoPics(B) /\ NmiSafe(f, B)
  BY <1>12 DEF NoPics, NmiSafe, PicOps
<1>14. Follow(f, x, B)
  BY <1>4, FollowOther
<1>15. /\ IsSeq(todo') /\ Moved(Steps(todo), x, Steps(Tail(todo)), B, A2)
       /\ Planned(f, iflag, A2) /\ Cleared(f, iflag, IOAPIC_BASE, redir, A2)
       /\ Sourced(f, ISA_REDIRECTION_ENTRY, A2) /\ Routed(f, iflag, IOAPIC_BASE, redir, A2)
       /\ Nmis(f, IOAPIC_BASE, redir, A2) /\ Legacy(f, has_i8042, A2)
       /\ Legacies(f, pic, todo', A2)
  <2>1. x = Head(todo) /\ A2 = Steps(todo') /\ B = Steps(body) /\ f = firmware
    BY <1>2, <1>3, <1>7
  <2>2. Parts /\ todo # <<>> /\ IsSeq(body) /\ \A y \in B : Allowed(f, iflag, y)
    BY <1>4, <1>11, <1>12
  <2>3. x.op = "lapic_init_begin"
    BY <1>4
  <2> QED
    BY <1>8, <1>13, <1>14, <2>1, <2>2, <2>3, Kept DEF PicOps
<1>16. /\ IsTable(f, redir) /\ Silent(f, iflag, IOAPIC_BASE, redir)
       /\ Local(f, apic_base, HAS_X2APIC, lapic, Steps(todo))
  BY <1>2, <1>4, Zenon DEF Parts
<1>17. Settled(f, apic_base, f.x2apic, lapic, A2)
  <2>1. \A y \in Steps(first) : y \in A2
    BY <1>11, <1>15 DEF Moved
  <2>2. \A y \in Steps(base) : y \in A2
    BY <1>11, <1>15 DEF Moved
  <2>3. "EN" \in apic_base \/ wrmsr_base({"EN"}) \in A2
    BY <1>10, <2>2
  <2>4. lapic_write("SPIV", {8} \cup (0 .. 7)) \in A2
    BY <1>7, <2>1, FirstSteps
  <2>5. \A reg \in Lines : lapic_write(reg, {16}) \in A2
    BY <1>7, <2>1, FirstSteps
  <2> QED
    BY <2>3, <2>4, <2>5, Zenon DEF Settled
<1>18. ASSUME NEW s \in MineOf(f)
       PROVE  ~HasRead(f, A2, s)
  <2>1. s \in RecordsOf(f, 4)
    BY DEF MineOf
  <2>2. Loops(f.tables[k], 1) \in A2
    BY <1>6, <1>15 DEF Moved
  <2> QED
    BY <1>6, <2>1, <2>2, LoopUnread
<1>19. Local(f, apic_base, f.x2apic, lapic, A2)
  <2>1. /\ "EXTD" \in apic_base => f.x2apic
        /\ Shaped(f, lapic)
    BY <1>16, Zenon DEF Local
  <2>2. Begun(f, apic_base, f.x2apic, lapic, A2)
    BY <1>17, Zenon DEF Begun
  <2> QED
    BY <1>18, <2>1, <2>2, LocalIs
<1>20. /\ firmware' = f /\ iflag' = iflag /\ pic' = pic /\ has_i8042' = has_i8042
       /\ IOAPIC_BASE' = IOAPIC_BASE /\ redir' = redir
       /\ ISA_REDIRECTION_ENTRY' = ISA_REDIRECTION_ENTRY
       /\ apic_base' = apic_base /\ HAS_X2APIC' = f.x2apic /\ lapic' = lapic
  BY <1>1, <1>2 DEF ioapicVars
<1>21. Parts'
  BY <1>3, <1>15, <1>16, <1>19, <1>20, Zenon DEF Parts
<1> QED
  BY <1>21, Close

\* A change of the mode keeps the invariant.
LEMMA WrmsrPins ==
  ASSUME IInv, PInv, do_wrmsr_base, UNCHANGED <<firmware, has_i8042, iflag>>
  PROVE  PInv'
<1>1. At("wrmsr_base") /\ UNCHANGED <<HAS_X2APIC, lapic, pic, ioapicVars>>
  BY Zenon DEF do_wrmsr_base
<1>2. PICK f \in Firmware : f = firmware
  BY <1>1, Here
<1>3. PICK x, A2, base2 : x = Head(todo) /\ A2 = Steps(todo') /\ base2 = apic_base'
  OBVIOUS
<1>4. /\ Parts /\ todo # <<>> /\ x.op = "wrmsr_base" /\ Allowed(f, iflag, x) /\ IsSeq(todo)
  BY <1>1, <1>2, <1>3, Enter
<1>5. PICK k \in DOMAIN f.tables : Mode(f, k, todo, IOAPIC_BASE, apic_base, HAS_X2APIC)
  <2>1. Head(todo).op = "wrmsr_base"
    BY <1>1, Here
  <2>2. \/ OnMode(f, todo, IOAPIC_BASE, apic_base, HAS_X2APIC)
        \/ Next1(f, todo, IOAPIC_BASE, apic_base, HAS_X2APIC)
    BY <1>1, <1>2, Here, Where
  <2>3. OnMode(f, todo, IOAPIC_BASE, apic_base, HAS_X2APIC)
    BY <2>1, <2>2 DEF Next1, AgendaOps, RecordOps, LapicOps, PicOps, Writes
  <2> QED
    BY <2>3 DEF OnMode
<1>6. PICK v : x = wrmsr_base(v) /\ <<apic_base, v>> \in ModeChange
  BY <1>3, <1>5 DEF Mode, ModeChange
<1>7. x.value = v
  BY <1>6, SettingOps
<1>8. base2 = v /\ Return
  BY <1>3, <1>6, <1>7, Zenon DEF do_wrmsr_base, Step
<1>9. "EN" \in v /\ ("EXTD" \in v => f.x2apic)
  <2>1. Sets(f, x)
    BY <1>4, Shapes
  <2>2. x = wrmsr_base({"EN"}) \/ (x = wrmsr_base({"EN", "EXTD"}) /\ f.x2apic)
    <3>1. x.op # "lapic_write" /\ x.op \notin PicOps
      BY <1>4 DEF PicOps
    <3>2. \/ x = wrmsr_base({"EN"})
          \/ x = wrmsr_base({"EN", "EXTD"}) /\ f.x2apic
          \/ x.op = "lapic_write" \/ x.op \in PicOps
      BY <2>1 DEF Sets
    <3> QED
      BY <3>1, <3>2
  <2>3. v = {"EN"} \/ (v = {"EN", "EXTD"} /\ f.x2apic)
    BY <1>7, <2>2, SettingOps
  <2> QED
    BY <2>3
<1>10. IsMadt(f, k) /\ Loops(f.tables[k], 1) \in Steps(Tail(todo))
  <2>1. IsMadt(f, k)
    BY <1>5, Zenon DEF Mode
  <2>2. Loops(f.tables[k], 1) \in Steps(Loop(f, k, 1))
    BY <2>1, StepsLoop
  <2>3. CASE Onto(Tail(todo), Loop(f, k, 1), LapicOps)
    BY <2>1, <2>2, <2>3, OntoSteps
  <2>4. CASE /\ IsSeq(Tail(todo)) /\ Tail(todo) # <<>>
             /\ Onto(Tail(Tail(todo)), Loop(f, k, 1), LapicOps)
    <3>1. PICK t : t = Tail(todo)
      OBVIOUS
    <3>2. Steps(t) = {Head(t)} \cup Steps(Tail(t))
      BY <2>4, <3>1, StepsTail
    <3>3. Steps(Loop(f, k, 1)) \subseteq Steps(Tail(t))
      BY <2>4, <3>1, OntoSteps
    <3> QED
      BY <2>1, <2>2, <3>1, <3>2, <3>3
  <2> QED
    BY <1>5, <2>3, <2>4, Zenon DEF Mode
<1>11. Follow(f, x, {})
  BY <1>4, FollowOther
<1>12. /\ IsSeq(todo') /\ Moved(Steps(todo), x, Steps(Tail(todo)), {}, A2)
       /\ Planned(f, iflag, A2) /\ Cleared(f, iflag, IOAPIC_BASE, redir, A2)
       /\ Sourced(f, ISA_REDIRECTION_ENTRY, A2) /\ Routed(f, iflag, IOAPIC_BASE, redir, A2)
       /\ Nmis(f, IOAPIC_BASE, redir, A2) /\ Legacy(f, has_i8042, A2)
       /\ Legacies(f, pic, todo', A2)
  BY <1>2, <1>3, <1>4, <1>8, <1>11, Returned DEF PicOps
<1>13. /\ IsTable(f, redir) /\ Silent(f, iflag, IOAPIC_BASE, redir)
       /\ Local(f, apic_base, HAS_X2APIC, lapic, Steps(todo))
  BY <1>2, <1>4, Zenon DEF Parts
<1>14. /\ Shaped(f, lapic)
       /\ Begun(f, apic_base, HAS_X2APIC, lapic, Steps(todo))
  BY <1>13, LocalIs
<1>15. \A y \in Steps(todo) : y.op # "wrmsr_base" => y \in A2
  BY <1>4, <1>12 DEF Moved
<1>16. Begun(f, base2, HAS_X2APIC, lapic, A2)
  <2>1. CASE \E table \in MadtsOf(f) : Awaits(Steps(todo), table, "acpi_parse_madt")
    <3>1. PICK table \in MadtsOf(f) : Awaits(Steps(todo), table, "acpi_parse_madt")
      BY <2>1
    <3>2. x # step("acpi_parse_madt", table)
      BY <1>4, StepOps
    <3>3. Awaits(A2, table, "acpi_parse_madt")
      BY <1>11, <1>12, <3>1, <3>2, AwaitsKept
    <3> QED
      BY <3>3, Zenon DEF Begun
  <2>2. CASE MadtsOf(f) = {} \/ [op |-> "lapic_init_begin"] \in Steps(todo)
    <3>1. [op |-> "lapic_init_begin"] \in Steps(todo) => [op |-> "lapic_init_begin"] \in A2
      BY <1>15
    <3> QED
      BY <2>2, <3>1, Zenon DEF Begun
  <2>3. CASE Settled(f, apic_base, HAS_X2APIC, lapic, Steps(todo))
    <3>1. \A reg, value : lapic_write(reg, value) \in Steps(todo) => lapic_write(reg, value) \in A2
      BY <1>15, SettingOps
    <3>2. Settled(f, base2, HAS_X2APIC, lapic, A2)
      BY <1>8, <1>9, <2>3, <3>1, Zenon DEF Settled
    <3> QED
      BY <3>2, Zenon DEF Begun
  <2> QED
    BY <1>14, <2>1, <2>2, <2>3, Zenon DEF Begun
<1>17. ASSUME NEW s \in MineOf(f)
       PROVE  ~HasRead(f, A2, s)
  <2>1. s \in RecordsOf(f, 4)
    BY DEF MineOf
  <2>2. Loops(f.tables[k], 1) \in A2
    BY <1>10, <1>12 DEF Moved
  <2> QED
    BY <1>10, <2>1, <2>2, LoopUnread
<1>18. Local(f, base2, HAS_X2APIC, lapic, A2)
  <2>1. "EXTD" \in base2 => f.x2apic
    BY <1>8, <1>9
  <2> QED
    BY <1>14, <1>16, <1>17, <2>1, LocalIs
<1>19. /\ firmware' = f /\ iflag' = iflag /\ pic' = pic /\ has_i8042' = has_i8042
       /\ IOAPIC_BASE' = IOAPIC_BASE /\ redir' = redir
       /\ ISA_REDIRECTION_ENTRY' = ISA_REDIRECTION_ENTRY
       /\ apic_base' = base2 /\ HAS_X2APIC' = HAS_X2APIC /\ lapic' = lapic
  BY <1>1, <1>2, <1>3 DEF ioapicVars
<1>20. Parts'
  BY <1>3, <1>12, <1>13, <1>18, <1>19, Zenon DEF Parts
<1> QED
  BY <1>20, Close

\* A register of the local APIC after a write of a value it may have.
LEMMA LvtWritten ==
  ASSUME NEW f \in Firmware, NEW reg, NEW value, LvtOk(f, reg, value)
  PROVE  /\ reg \in Lvts \cup {"SPIV"} /\ reg # "CMCI"
         /\ reg = "SPIV" => 8 \in value
         /\ reg # "SPIV" => reg \in Lvts /\ (value = {16} \/ \E r \in MineOf(f) : reg = LintOf(r) /\ value = LvtOf(r))
         /\ \A s \in MineOf(f) : reg = LintOf(s) => value = {16} \/ value = LvtOf(s)
         /\ \A s \in MineOf(f) : LintOf(s) \in Lvts /\ LintOf(s) # "SPIV"
<1>1. /\ "SPIV" \notin Lvts /\ \A s : LintOf(s) \in Lvts \ {"CMCI"}
      /\ \A line \in Lines : line \in Lvts /\ line # "CMCI"
  BY DEF Lvts, Lines, LintOf
<1>2. ASSUME NEW s \in MineOf(f), NEW r \in MineOf(f), LintOf(r) = LintOf(s)
      PROVE  LvtOf(r) = LvtOf(s)
  <2>1. HandedOver(f) /\ NmisApart(f)
    BY MachineIs
  <2>2. /\ r \in RecordsOf(f, 4) /\ r.processor_id \in {f.bsp, 255}
        /\ s \in RecordsOf(f, 4) /\ s.processor_id \in {f.bsp, 255}
    BY <2>1 DEF MineOf, HandedOver
  <2>3. r.lint = 0 <=> s.lint = 0
    BY <1>2 DEF LintOf
  <2>4. r.polarity = s.polarity /\ r.trigger = s.trigger
    BY <2>1, <2>2, <2>3 DEF NmisApart
  <2> QED
    BY <2>4 DEF LvtOf, Low, Level
<1> QED
  BY <1>1, <1>2 DEF LvtOk

\* A write to the local APIC keeps the invariant.
LEMMA LapicWritePins ==
  ASSUME IInv, PInv, do_lapic_write, UNCHANGED <<firmware, has_i8042, iflag>>
  PROVE  PInv'
<1>1. At("lapic_write") /\ UNCHANGED <<apic_base, HAS_X2APIC, pic, ioapicVars>>
  BY Zenon DEF do_lapic_write
<1>2. PICK f \in Firmware : f = firmware
  BY <1>1, Here
<1>3. PICK x, A2, lap2 : x = Head(todo) /\ A2 = Steps(todo') /\ lap2 = lapic'
  OBVIOUS
<1>4. /\ Parts /\ todo # <<>> /\ x.op = "lapic_write" /\ Allowed(f, iflag, x)
      /\ IsSeq(todo) /\ Typing
  BY <1>1, <1>2, <1>3, Enter
<1>5. PICK reg, value : reg = x.reg /\ value = x.value
  OBVIOUS
<1>6. x = lapic_write(reg, value) /\ LvtOk(f, reg, value)
  <2>1. Sets(f, x)
    BY <1>4, Shapes DEF LapicOps
  <2> QED
    BY <1>4, <1>5, <2>1, SettingOps DEF Sets, PicOps
<1>7. /\ Point(f, Tail(todo), IOAPIC_BASE) /\ IsSeq(Tail(todo))
      /\ HAS_X2APIC => "EXTD" \in apic_base
  BY <1>1, <1>2, HereWrite
<1>8. /\ Return
      /\ lap2 = IF apic_base = {"EN"} \/ HAS_X2APIC
                THEN [lapic EXCEPT ![reg] = Written(reg, value)] ELSE lapic
  BY <1>3, <1>5, <1>7, Zenon DEF do_lapic_write, Step
<1>9. Follow(f, x, {})
  BY <1>4, FollowOther
<1>10. /\ IsSeq(todo') /\ Moved(Steps(todo), x, Steps(Tail(todo)), {}, A2)
       /\ Planned(f, iflag, A2) /\ Cleared(f, iflag, IOAPIC_BASE, redir, A2)
       /\ Sourced(f, ISA_REDIRECTION_ENTRY, A2) /\ Routed(f, iflag, IOAPIC_BASE, redir, A2)
       /\ Nmis(f, IOAPIC_BASE, redir, A2) /\ Legacy(f, has_i8042, A2)
       /\ Legacies(f, pic, todo', A2)
  BY <1>2, <1>3, <1>4, <1>8, <1>9, Returned DEF PicOps
<1>11. /\ IsTable(f, redir) /\ Silent(f, iflag, IOAPIC_BASE, redir)
       /\ Local(f, apic_base, HAS_X2APIC, lapic, Steps(todo))
  BY <1>2, <1>4, Zenon DEF Parts
<1>12. /\ "EXTD" \in apic_base => f.x2apic
       /\ Shaped(f, lapic)
       /\ Begun(f, apic_base, HAS_X2APIC, lapic, Steps(todo))
       /\ \A s \in MineOf(f) : HasRead(f, Steps(todo), s) => Lint(f, lapic, Steps(todo), s)
  BY <1>11, LocalIs
<1>13. /\ A2 = Steps(Tail(todo)) /\ A2 \subseteq Steps(todo) /\ x \in Steps(todo)
       /\ \A y \in Steps(todo) : y # x => y \in A2
  BY <1>10 DEF Moved
<1>14. \A y \in A2 :
         /\ y.op # "wrmsr_base"
         /\ y.op = "lapic_init_begin" =>
              \E k \in DOMAIN f.tables : IsMadt(f, k) /\ Loops(f.tables[k], 1) \in A2
  BY <1>7, <1>13, PointOps
<1>15. ASSUME Settled(f, apic_base, HAS_X2APIC, lapic, Steps(todo))
       PROVE  lap2 = [lapic EXCEPT ![reg] = Written(reg, value)]
  <2>1. wrmsr_base({"EN"}) \notin Steps(todo)
    <3>1. PICK y : y = wrmsr_base({"EN"}) /\ y.op = "wrmsr_base"
      BY SettingOps
    <3>2. y # x /\ y \notin A2
      BY <1>4, <1>14, <3>1
    <3> QED
      BY <1>13, <3>1, <3>2
  <2>2. HAS_X2APIC = f.x2apic /\ "EN" \in apic_base
    BY <1>15, <2>1, Zenon DEF Settled
  <2>3. apic_base \in {{}, {"EN"}, {"EN", "EXTD"}}
    BY <1>4, Zenon DEF Typing
  <2>4. apic_base = {"EN"} \/ HAS_X2APIC
    BY <1>12, <2>2, <2>3
  <2> QED
    BY <1>8, <2>4
<1>16. /\ reg \in Lvts \cup {"SPIV"} /\ "SPIV" \notin Lvts
       /\ reg # "CMCI" /\ "CMCI" \in Lvts /\ Lines \subseteq Lvts
       /\ reg = "SPIV" => 8 \in value
       /\ reg # "SPIV" => reg \in Lvts /\ (value = {16} \/ \E r \in MineOf(f) : reg = LintOf(r) /\ value = LvtOf(r))
       /\ \A s \in MineOf(f) : reg = LintOf(s) => value = {16} \/ value = LvtOf(s)
       /\ \A s \in MineOf(f) : LintOf(s) \in Lvts /\ LintOf(s) # "SPIV"
  <2>1. "SPIV" \notin Lvts /\ "CMCI" \in Lvts /\ Lines \subseteq Lvts
    BY DEF Lvts, Lines
  <2> QED
    BY <1>6, <2>1, LvtWritten
<1>17. PICK w : w = Written(reg, value)
  OBVIOUS
<1>18. /\ reg = "SPIV" => w = value
       /\ 8 \in lapic["SPIV"] => w = value
       /\ value \subseteq w
  BY <1>16, <1>17 DEF Written
<1>19. PICK regs : regs = Lvts \cup {"SPIV"}
  OBVIOUS
<1>20. /\ lap2 = [r \in regs |-> lap2[r]]
       /\ \A r \in regs : r # reg => lap2[r] = lapic[r]
       /\ lap2[reg] = lapic[reg] \/ lap2[reg] = w
  <2>1. lapic = [r \in regs |-> lapic[r]] /\ reg \in regs
    BY <1>12, <1>16, <1>19 DEF Shaped
  <2>2. lap2 = lapic \/ lap2 = [lapic EXCEPT ![reg] = w]
    BY <1>8, <1>17
  <2> QED
    BY <2>1, <2>2
<1>21. 8 \in lapic["SPIV"] => 8 \in lap2["SPIV"]
  <2>1. "SPIV" \in regs
    BY <1>19
  <2>2. CASE reg = "SPIV"
    BY <1>16, <1>18, <1>20, <2>2
  <2>3. CASE reg # "SPIV"
    BY <1>20, <2>1, <2>3
  <2> QED
    BY <2>2, <2>3
<1>22. ASSUME Settled(f, apic_base, HAS_X2APIC, lapic, Steps(todo))
       PROVE  Settled(f, apic_base, HAS_X2APIC, lap2, A2) /\ lap2[reg] = w
  <2>1. lap2[reg] = w
    <3>1. lap2 = [lapic EXCEPT ![reg] = w]
      BY <1>15, <1>17, <1>22
    <3>2. lapic = [r \in regs |-> lapic[r]] /\ reg \in regs
      BY <1>12, <1>16, <1>19 DEF Shaped
    <3> QED
      BY <3>1, <3>2
  <2>2. wrmsr_base({"EN"}) \in Steps(todo) => wrmsr_base({"EN"}) \in A2
    <3>1. PICK y : y = wrmsr_base({"EN"}) /\ y.op = "wrmsr_base"
      BY SettingOps
    <3> QED
      BY <1>4, <1>13, <3>1
  <2>3. \A r, u : lapic_write(r, u) \in Steps(todo) /\ r # reg => lapic_write(r, u) \in A2
    <3>1. \A r, u : r # reg => lapic_write(r, u) # x
      BY <1>5, SettingOps
    <3> QED
      BY <1>13, <3>1
  <2>4. 8 \in lap2["SPIV"] \/ lapic_write("SPIV", {8} \cup (0 .. 7)) \in A2
    <3>1. CASE reg = "SPIV"
      BY <1>16, <1>18, <2>1, <3>1
    <3>2. CASE reg # "SPIV"
      <4>1. "SPIV" \in regs
        BY <1>19
      <4>2. lap2["SPIV"] = lapic["SPIV"]
        BY <1>20, <3>2, <4>1
      <4>3. 8 \in lapic["SPIV"] \/ lapic_write("SPIV", {8} \cup (0 .. 7)) \in Steps(todo)
        BY <1>22, Zenon DEF Settled
      <4> QED
        BY <2>3, <3>2, <4>2, <4>3
    <3> QED
      BY <3>1, <3>2
  <2>5. ASSUME NEW r \in Lines
        PROVE  \/ 16 \in lap2[r] \/ lapic_write(r, {16}) \in A2
               \/ \E s \in MineOf(f) : r = LintOf(s)
    <3>1. CASE r = reg
      <4>1. value = {16} \/ \E s \in MineOf(f) : reg = LintOf(s)
        BY <1>16, <2>5, <3>1
      <4> QED
        BY <1>18, <2>1, <3>1, <4>1
    <3>2. CASE r # reg
      <4>1. lap2[r] = lapic[r]
        BY <1>16, <1>19, <1>20, <2>5, <3>2
      <4>2. \/ 16 \in lapic[r] \/ lapic_write(r, {16}) \in Steps(todo)
            \/ \E s \in MineOf(f) : r = LintOf(s)
        BY <1>22, <2>5, Zenon DEF Settled
      <4> QED
        BY <2>3, <3>2, <4>1, <4>2
    <3> QED
      BY <3>1, <3>2
  <2>6. HAS_X2APIC = f.x2apic /\ ("EN" \in apic_base \/ wrmsr_base({"EN"}) \in A2)
    BY <1>22, <2>2, Zenon DEF Settled
  <2>7. Settled(f, apic_base, HAS_X2APIC, lap2, A2)
    BY <2>4, <2>5, <2>6, Zenon DEF Settled
  <2> QED
    BY <2>1, <2>7
<1>23. Begun(f, apic_base, HAS_X2APIC, lap2, A2)
  <2>1. CASE \E table \in MadtsOf(f) : Awaits(Steps(todo), table, "acpi_parse_madt")
    <3>1. PICK table \in MadtsOf(f) : Awaits(Steps(todo), table, "acpi_parse_madt")
      BY <2>1
    <3>2. x # step("acpi_parse_madt", table)
      BY <1>4, StepOps
    <3>3. Awaits(A2, table, "acpi_parse_madt")
      BY <1>9, <1>10, <3>1, <3>2, AwaitsKept
    <3> QED
      BY <3>3, Zenon DEF Begun
  <2>2. CASE MadtsOf(f) = {} \/ [op |-> "lapic_init_begin"] \in Steps(todo)
    <3>1. [op |-> "lapic_init_begin"] \in Steps(todo) => [op |-> "lapic_init_begin"] \in A2
      BY <1>4, <1>13
    <3> QED
      BY <2>2, <3>1, Zenon DEF Begun
  <2>3. CASE Settled(f, apic_base, HAS_X2APIC, lapic, Steps(todo))
    BY <1>22, <2>3, Zenon DEF Begun
  <2> QED
    BY <1>12, <2>1, <2>2, <2>3, Zenon DEF Begun
<1>24. ASSUME NEW s \in MineOf(f), HasRead(f, A2, s)
       PROVE  Lint(f, lap2, A2, s)
  <2>1. s \in RecordsOf(f, 4)
    BY DEF MineOf
  <2>2. HasRead(f, Steps(todo), s)
    <3>1. 4 \in 1 .. 4 /\ x.op # Handler(4)
      BY <1>4, HandlersAre
    <3> QED
      BY <1>9, <1>10, <1>24, <2>1, <3>1, ReadKept
  <2>3. Lint(f, lapic, Steps(todo), s)
    BY <1>12, <2>2
  <2>4. /\ lapic[LintOf(s)] = LvtOf(s) \/ lapic_write(LintOf(s), LvtOf(s)) \in Steps(todo)
        /\ lapic_write(LintOf(s), {16}) \notin Steps(todo)
        /\ 8 \in lapic["SPIV"]
    BY <2>3, Zenon DEF Lint
  <2>5. Settled(f, apic_base, HAS_X2APIC, lapic, Steps(todo))
    <3>1. [op |-> "lapic_init_begin"] \notin Steps(todo)
      <4>1. [op |-> "lapic_init_begin"] \notin A2
        <5>1. ASSUME [op |-> "lapic_init_begin"] \in A2
              PROVE  FALSE
          <6>1. PICK k \in DOMAIN f.tables : IsMadt(f, k) /\ Loops(f.tables[k], 1) \in A2
            BY <1>14, <5>1
          <6> QED
            BY <1>24, <2>1, <6>1, LoopUnread
        <5> QED
          BY <5>1
      <4> QED
        BY <1>4, <1>13, <4>1
    <3> QED
      BY <1>12, <2>1, <2>2, <3>1, SettledBy
  <2>6. lap2[reg] = w /\ w = value
    BY <1>18, <1>22, <2>4, <2>5
  <2>7. lap2[LintOf(s)] = LvtOf(s) \/ lapic_write(LintOf(s), LvtOf(s)) \in A2
    <3>1. CASE reg = LintOf(s)
      <4>1. value # {16}
        BY <1>6, <1>13, <2>4, <3>1
      <4>2. value = LvtOf(s)
        BY <1>16, <3>1, <4>1
      <4> QED
        BY <2>6, <3>1, <4>2
    <3>2. CASE reg # LintOf(s)
      <4>1. lap2[LintOf(s)] = lapic[LintOf(s)]
        BY <1>16, <1>19, <1>20, <3>2
      <4>2. lapic_write(LintOf(s), LvtOf(s)) # x
        BY <1>5, <3>2, SettingOps
      <4> QED
        BY <1>13, <2>4, <4>1, <4>2
    <3> QED
      BY <3>1, <3>2
  <2>8. lapic_write(LintOf(s), {16}) \notin A2
    BY <1>13, <2>4
  <2>9. 8 \in lap2["SPIV"]
    BY <1>21, <2>4
  <2> QED
    BY <2>7, <2>8, <2>9, Zenon DEF Lint
<1>25. Local(f, apic_base, HAS_X2APIC, lap2, A2)
  <2>1. Shaped(f, lap2)
    <3>1. lap2 = [r \in Lvts \cup {"SPIV"} |-> lap2[r]]
      BY <1>19, <1>20
    <3>2. lap2["CMCI"] = lapic["CMCI"]
      BY <1>16, <1>19, <1>20
    <3> QED
      BY <1>12, <3>1, <3>2 DEF Shaped
  <2> QED
    BY <1>12, <1>23, <1>24, <2>1, LocalIs
<1>26. /\ firmware' = f /\ iflag' = iflag /\ pic' = pic /\ has_i8042' = has_i8042
       /\ IOAPIC_BASE' = IOAPIC_BASE /\ redir' = redir
       /\ ISA_REDIRECTION_ENTRY' = ISA_REDIRECTION_ENTRY
       /\ apic_base' = apic_base /\ HAS_X2APIC' = HAS_X2APIC /\ lapic' = lap2
  BY <1>1, <1>2, <1>3 DEF ioapicVars
<1>27. Parts'
  BY <1>3, <1>10, <1>11, <1>25, <1>26, Zenon DEF Parts
<1> QED
  BY <1>27, Close

-----------------------------------------------------------------------------
(* The steps keep it: the 8259s.                                           *)

\* The next byte for the chips: those before it they have got.
LEMMA PicAt ==
  ASSUME IInv, PInv, NEW op \in PicOps, At(op)
  PROVE  \E p \in 0 .. 9 :
           /\ Head(todo) = Icws[p + 1]
           /\ 0 \in 0 .. Len(Tail(todo)) /\ IcwsLeft(Tail(todo), p + 1, 0)
           /\ ChipAt(pic["PIC1"], (p + 1) \div 2, "PIC1")
           /\ ChipAt(pic["PIC2"], p \div 2, "PIC2")
<1>1. Parts /\ IsSeq(todo) /\ todo # <<>> /\ Head(todo).op \in PicOps
  BY Enter
<1>2. PICK t, u : t = todo /\ u = Tail(todo)
  OBVIOUS
<1>3. Legacies(firmware, pic, t, Steps(t))
  BY <1>1, <1>2, Zenon DEF Parts
<1>4. PICK p \in 0 .. 10, n \in 0 .. Len(t) :
        /\ IcwsLeft(t, p, n)
        /\ \/ ChipAt(pic["PIC1"], (p + 1) \div 2, "PIC1") /\ ChipAt(pic["PIC2"], p \div 2, "PIC2")
           \/ p = 10
  BY <1>3 DEF Legacies
<1>5. /\ Len(t) \in Nat /\ Len(t) >= 1 /\ Head(t) = t[1] /\ Len(u) = Len(t) - 1
      /\ \A i \in 1 .. Len(t) - 1 : u[i] = t[i + 1]
  BY <1>1, <1>2, TailIs
<1>6. /\ n + 10 - p <= Len(t)
      /\ \A m \in 1 .. 10 - p : t[n + m] = Icws[p + m]
      /\ \A j \in 1 .. Len(t) : t[j].op \in PicOps => n < j /\ j <= n + 10 - p
  BY <1>4 DEF IcwsLeft
<1>7. n = 0 /\ p <= 9
  BY <1>1, <1>2, <1>4, <1>5, <1>6
<1>8. Head(t) = Icws[p + 1]
  <2>1. 1 \in 1 .. 10 - p
    BY <1>4, <1>7
  <2> QED
    BY <1>5, <1>6, <1>7, <2>1
<1>9. IcwsLeft(u, p + 1, 0)
  <2>1. 0 + 10 - (p + 1) <= Len(u)
    BY <1>4, <1>5, <1>6, <1>7
  <2>2. ASSUME NEW m \in 1 .. 10 - (p + 1)
        PROVE  u[0 + m] = Icws[p + 1 + m]
    <3>1. m \in 1 .. Len(t) - 1 /\ m + 1 \in 1 .. 10 - p
      BY <1>4, <1>5, <1>6, <1>7
    <3>2. u[m] = t[m + 1] /\ t[0 + (m + 1)] = Icws[p + (m + 1)]
      BY <1>5, <1>6, <1>7, <3>1
    <3>3. 0 + m = m /\ 0 + (m + 1) = m + 1 /\ p + (m + 1) = p + 1 + m
      BY <1>4, <3>1
    <3> QED
      BY <3>2, <3>3, Zenon
  <2>3. ASSUME NEW j \in 1 .. Len(u), u[j].op \in PicOps
        PROVE  0 < j /\ j <= 0 + 10 - (p + 1)
    <3>1. j \in 1 .. Len(t) - 1 /\ j + 1 \in 1 .. Len(t)
      BY <1>5
    <3>2. t[j + 1].op \in PicOps
      BY <1>5, <2>3, <3>1
    <3> QED
      BY <1>4, <1>6, <1>7, <3>1, <3>2
  <2> QED
    BY <2>1, <2>2, <2>3 DEF IcwsLeft
<1> QED
  BY <1>2, <1>4, <1>5, <1>7, <1>8, <1>9, SMTT(30)

\* The byte is taken; the rest is as it was.
LEMMA PicDone ==
  ASSUME IInv, PInv, NEW op \in PicOps, At(op), Return, NEW p \in 0 .. 9,
         0 \in 0 .. Len(Tail(todo)), IcwsLeft(Tail(todo), p + 1, 0),
         pic' = [chip \in Chips |-> pic'[chip]],
         ChipAt(pic'["PIC1"], (p + 2) \div 2, "PIC1"), ChipAt(pic'["PIC2"], (p + 1) \div 2, "PIC2"),
         UNCHANGED <<lapicVars, ioapicVars>>, UNCHANGED <<firmware, has_i8042, iflag>>
  PROVE  PInv'
<1>1. PICK f \in Firmware : f = firmware
  BY Here
<1>2. PICK x, A2, c : x = Head(todo) /\ A2 = Steps(todo') /\ c = pic'
  OBVIOUS
<1>3. /\ Parts /\ todo # <<>> /\ x.op \in PicOps /\ IsSeq(todo)
  BY <1>2, Enter
<1>4. Follow(f, x, {})
  BY <1>3, FollowOther DEF PicOps
<1>5. /\ IsSeq(todo') /\ todo' = Tail(todo)
      /\ Planned(f, iflag, A2) /\ Cleared(f, iflag, IOAPIC_BASE, redir, A2)
      /\ Sourced(f, ISA_REDIRECTION_ENTRY, A2) /\ Routed(f, iflag, IOAPIC_BASE, redir, A2)
      /\ Nmis(f, IOAPIC_BASE, redir, A2) /\ Legacy(f, has_i8042, A2)
      /\ Local(f, apic_base, HAS_X2APIC, lapic, A2)
  BY <1>1, <1>2, <1>3, <1>4, Returned DEF PicOps
<1>6. IsTable(f, redir) /\ Silent(f, iflag, IOAPIC_BASE, redir)
  BY <1>1, <1>3, Zenon DEF Parts
<1>7. Legacies(f, c, todo', A2)
  <2>1. p + 1 \in 0 .. 10 /\ (p + 1) + 1 = p + 2
    OBVIOUS
  <2>2. 0 \in 0 .. Len(todo') /\ IcwsLeft(todo', p + 1, 0)
    BY <1>5
  <2>3. ChipAt(c["PIC1"], ((p + 1) + 1) \div 2, "PIC1") /\ ChipAt(c["PIC2"], (p + 1) \div 2, "PIC2")
    BY <1>2, <2>1
  <2>4. c = [chip \in Chips |-> c[chip]]
    BY <1>2
  <2> QED
    BY <2>1, <2>2, <2>3, <2>4, Zenon DEF Legacies
<1>8. /\ firmware' = f /\ iflag' = iflag /\ pic' = c /\ has_i8042' = has_i8042
      /\ IOAPIC_BASE' = IOAPIC_BASE /\ redir' = redir
      /\ ISA_REDIRECTION_ENTRY' = ISA_REDIRECTION_ENTRY
      /\ apic_base' = apic_base /\ HAS_X2APIC' = HAS_X2APIC /\ lapic' = lapic
  BY <1>1, <1>2 DEF lapicVars, ioapicVars
<1>9. Parts'
  BY <1>2, <1>5, <1>6, <1>7, <1>8, Zenon DEF Parts
<1> QED
  BY <1>9, Close

\* A chip after the first of its bytes and after each of the others.
Started(s) == [s EXCEPT !.expects = "ICW2", !.mask = 0]
Taken(s, value) ==
  CASE s.expects = "ICW2" -> [s EXCEPT !.expects = "ICW3", !.base = value - (value % 8)]
    [] s.expects = "ICW3" -> [s EXCEPT !.expects = "ICW4", !.cascade = value]
    [] s.expects = "ICW4" -> [s EXCEPT !.expects = "OCW1"]
    [] s.expects = "OCW1" -> [s EXCEPT !.mask = value]

\* A chip takes the first byte.
LEMMA ChipStarts ==
  ASSUME NEW s, NEW chip, ChipAt(s, 0, chip)
  PROVE  ChipAt(Started(s), 1, chip)
<1>1. s = Chip("OCW1", s.base, s.cascade, 255)
  <2>1. s = Fresh \/ s = Programmed(chip)
    BY ChipCases
  <2> QED
    BY <2>1 DEF Fresh, Programmed, Chip
<1>2. PICK u : u = Started(s)
  OBVIOUS
<1>3. u = Chip("ICW2", u.base, u.cascade, 0)
  BY <1>1, <1>2 DEF Started, Chip
<1> QED
  BY <1>2, <1>3, ChipCases

\* A chip takes each of the others.
LEMMA ChipTakes ==
  ASSUME NEW s, NEW chip
  PROVE  /\ ChipAt(s, 1, chip) => ChipAt(Taken(s, Offset(chip)), 2, chip)
         /\ ChipAt(s, 2, chip) => ChipAt(Taken(s, Cascade(chip)), 3, chip)
         /\ ChipAt(s, 3, chip) => ChipAt(Taken(s, 1), 4, chip)
         /\ ChipAt(s, 4, chip) => ChipAt(Taken(s, 255), 5, chip)
<1>1. PICK o, c : o = Offset(chip) /\ c = Cascade(chip)
  OBVIOUS
<1>2. o - (o % 8) = o
  BY <1>1 DEF Offset
<1>3. ASSUME ChipAt(s, 1, chip)
      PROVE  ChipAt(Taken(s, o), 2, chip)
  <2>1. s = Chip("ICW2", s.base, s.cascade, 0)
    BY <1>3, ChipCases
  <2>6. PICK a, b : s = Chip("ICW2", a, b, 0)
    BY <2>1
  <2>2. PICK u : u = Taken(s, o)
    OBVIOUS
  <2>3. s.expects = "ICW2"
    BY <2>1, ChipIs
  <2>4. u = [s EXCEPT !.expects = "ICW3", !.base = o]
    BY <1>2, <2>2, <2>3 DEF Taken
  <2>7. u = Chip("ICW3", o, b, 0)
    BY <2>4, <2>6 DEF Chip
  <2>5. u = Chip("ICW3", o, u.cascade, 0)
    BY <2>7, ChipIs
  <2> QED
    BY <1>1, <2>2, <2>5, ChipCases
<1>4. ASSUME ChipAt(s, 2, chip)
      PROVE  ChipAt(Taken(s, c), 3, chip)
  <2>1. s = Chip("ICW3", o, s.cascade, 0)
    BY <1>1, <1>4, ChipCases
  <2>6. PICK b : s = Chip("ICW3", o, b, 0)
    BY <2>1
  <2>2. PICK u : u = Taken(s, c)
    OBVIOUS
  <2>3. s.expects = "ICW3"
    BY <2>1, ChipIs
  <2>4. u = [s EXCEPT !.expects = "ICW4", !.cascade = c]
    BY <2>2, <2>3 DEF Taken
  <2>5. u = Chip("ICW4", o, c, 0)
    BY <2>4, <2>6 DEF Chip
  <2> QED
    BY <1>1, <2>2, <2>5, ChipCases
<1>5. ASSUME ChipAt(s, 3, chip)
      PROVE  ChipAt(Taken(s, 1), 4, chip)
  <2>1. s = Chip("ICW4", o, c, 0)
    BY <1>1, <1>5, ChipCases
  <2>2. PICK u : u = Taken(s, 1)
    OBVIOUS
  <2>3. s.expects = "ICW4"
    BY <2>1, ChipIs
  <2>4. u = [s EXCEPT !.expects = "OCW1"]
    BY <2>2, <2>3 DEF Taken
  <2>5. u = Chip("OCW1", o, c, 0)
    BY <2>1, <2>4 DEF Chip
  <2> QED
    BY <1>1, <2>2, <2>5, ChipCases
<1>6. ASSUME ChipAt(s, 4, chip)
      PROVE  ChipAt(Taken(s, 255), 5, chip)
  <2>1. s = Chip("OCW1", o, c, 0)
    BY <1>1, <1>6, ChipCases
  <2>2. PICK u : u = Taken(s, 255)
    OBVIOUS
  <2>3. s.expects = "OCW1"
    BY <2>1, ChipIs
  <2>4. u = [s EXCEPT !.mask = 255]
    BY <2>2, <2>3 DEF Taken
  <2>5. u = Chip("OCW1", o, c, 255)
    BY <2>1, <2>4 DEF Chip
  <2>6. u = Programmed(chip)
    BY <1>1, <2>5, Zenon DEF Programmed
  <2> QED
    BY <2>2, <2>6, ChipCases
<1> QED
  BY <1>1, <1>3, <1>4, <1>5, <1>6

\* The two kinds of bytes.
LEMMA IcwOps ==
  /\ \A chip, value : /\ command(chip, value).op = "pic_command" /\ command(chip, value).chip = chip
                      /\ command(chip, value).value = value
  /\ \A chip, value : /\ data(chip, value).op = "pic_data" /\ data(chip, value).chip = chip
                      /\ data(chip, value).value = value
BY DEF command, data

\* Which chip the next byte is for and what it is.
LEMMA IcwTwo ==
  ASSUME NEW p \in 0 .. 9
  PROVE  /\ Icws[p + 1].op = "pic_command" => p \in {0, 1}
         /\ Icws[p + 1].op = "pic_data" => p \in 2 .. 9
<1>1. /\ Icws[1].op = "pic_command" /\ Icws[2].op = "pic_command" /\ Icws[3].op = "pic_data"
      /\ Icws[4].op = "pic_data" /\ Icws[5].op = "pic_data" /\ Icws[6].op = "pic_data"
      /\ Icws[7].op = "pic_data" /\ Icws[8].op = "pic_data" /\ Icws[9].op = "pic_data"
      /\ Icws[10].op = "pic_data"
  BY IcwsAre, IcwOps
<1> HIDE DEF Icws
<1> QED
  BY <1>1

\* A write to a chip's command port keeps the invariant.
LEMMA PicCommandPins ==
  ASSUME IInv, PInv, pic_command, UNCHANGED <<firmware, has_i8042, iflag>>
  PROVE  PInv'
<1>1. At("pic_command") /\ Return /\ UNCHANGED <<lapicVars, ioapicVars>>
  BY Zenon DEF pic_command
<1>2. "pic_command" \in PicOps
  BY DEF PicOps
<1>3. PICK p \in 0 .. 9 :
        /\ Head(todo) = Icws[p + 1]
        /\ 0 \in 0 .. Len(Tail(todo)) /\ IcwsLeft(Tail(todo), p + 1, 0)
        /\ ChipAt(pic["PIC1"], (p + 1) \div 2, "PIC1")
        /\ ChipAt(pic["PIC2"], p \div 2, "PIC2")
  BY <1>1, <1>2, PicAt
<1>4. pic = [chip \in Chips |-> pic[chip]]
  <2>1. Parts
    BY <1>1, Enter
  <2>2. Legacies(firmware, pic, todo, Steps(todo))
    BY <2>1, Zenon DEF Parts
  <2> QED
    BY <2>2, Zenon DEF Legacies
<1>5. PICK chip, c : chip = Head(todo).chip /\ c = pic'
  OBVIOUS
<1>6. c = [pic EXCEPT ![chip].expects = "ICW2", ![chip].mask = 0]
  BY <1>5, Zenon DEF pic_command, Step
<1>7. Head(todo).op = "pic_command"
  BY <1>1, Here
<1>8. p \in {0, 1}
  <2>1. PICK y : y = Head(todo)
    OBVIOUS
  <2>2. Icws[p + 1].op = "pic_command"
    BY <1>3, <1>7
  <2> QED
    BY <2>2, IcwTwo
<1>9. /\ c = [ch \in Chips |-> c[ch]]
      /\ \A ch \in Chips : c[ch] = IF ch = chip THEN Started(pic[ch]) ELSE pic[ch]
  BY <1>4, <1>6 DEF Started
<1>10. ChipAt(c["PIC1"], (p + 2) \div 2, "PIC1") /\ ChipAt(c["PIC2"], (p + 1) \div 2, "PIC2")
  <2>1. CASE p = 0
    <3>1. chip = "PIC1"
      BY <1>3, <1>5, <2>1, IcwsAre, IcwOps
    <3>2. /\ c["PIC1"] = Started(pic["PIC1"])
          /\ c["PIC2"] = pic["PIC2"]
      BY <1>9, <3>1 DEF Chips
    <3>3. ChipAt(pic["PIC1"], 0, "PIC1") /\ ChipAt(pic["PIC2"], 0, "PIC2")
      <4>1. (p + 1) \div 2 = 0 /\ p \div 2 = 0
        BY <2>1
      <4> QED
        BY <1>3, <4>1
    <3>4. ChipAt(c["PIC1"], 1, "PIC1") /\ ChipAt(c["PIC2"], 0, "PIC2")
      BY <3>2, <3>3, ChipStarts
    <3>5. (p + 2) \div 2 = 1 /\ (p + 1) \div 2 = 0
      BY <2>1
    <3> QED
      BY <3>4, <3>5
  <2>2. CASE p = 1
    <3>1. chip = "PIC2"
      <4>1. p + 1 = 2
        BY <2>2
      <4> QED
        BY <1>3, <1>5, <4>1, IcwsAre, IcwOps
    <3>2. /\ c["PIC2"] = Started(pic["PIC2"])
          /\ c["PIC1"] = pic["PIC1"]
      BY <1>9, <3>1 DEF Chips
    <3>3. ChipAt(pic["PIC1"], 1, "PIC1") /\ ChipAt(pic["PIC2"], 0, "PIC2")
      <4>1. (p + 1) \div 2 = 1 /\ p \div 2 = 0
        BY <2>2
      <4> QED
        BY <1>3, <4>1
    <3>4. ChipAt(c["PIC1"], 1, "PIC1") /\ ChipAt(c["PIC2"], 1, "PIC2")
      BY <3>2, <3>3, ChipStarts
    <3>5. (p + 2) \div 2 = 1 /\ (p + 1) \div 2 = 1
      BY <2>2
    <3> QED
      BY <3>4, <3>5
  <2> QED
    BY <1>8, <2>1, <2>2
<1>11. /\ pic' = [ch \in Chips |-> pic'[ch]]
       /\ ChipAt(pic'["PIC1"], (p + 2) \div 2, "PIC1")
       /\ ChipAt(pic'["PIC2"], (p + 1) \div 2, "PIC2")
  BY <1>5, <1>9, <1>10, Zenon
<1> QED
  BY <1>1, <1>2, <1>3, <1>11, PicDone

\* A write to a chip's data port keeps the invariant.
LEMMA PicDataPins ==
  ASSUME IInv, PInv, pic_data, UNCHANGED <<firmware, has_i8042, iflag>>
  PROVE  PInv'
<1>1. At("pic_data") /\ Return /\ UNCHANGED <<lapicVars, ioapicVars>>
  BY Zenon DEF pic_data
<1>2. "pic_data" \in PicOps
  BY DEF PicOps
<1>3. PICK p \in 0 .. 9 :
        /\ Head(todo) = Icws[p + 1]
        /\ 0 \in 0 .. Len(Tail(todo)) /\ IcwsLeft(Tail(todo), p + 1, 0)
        /\ ChipAt(pic["PIC1"], (p + 1) \div 2, "PIC1")
        /\ ChipAt(pic["PIC2"], p \div 2, "PIC2")
  BY <1>1, <1>2, PicAt
<1>4. pic = [chip \in Chips |-> pic[chip]]
  <2>1. Parts
    BY <1>1, Enter
  <2>2. Legacies(firmware, pic, todo, Steps(todo))
    BY <2>1, Zenon DEF Parts
  <2> QED
    BY <2>2, Zenon DEF Legacies
<1>5. PICK chip, value, c : chip = Head(todo).chip /\ value = Head(todo).value /\ c = pic'
  OBVIOUS
<1>6. c = [pic EXCEPT ![chip] = Taken(pic[chip], value)]
  BY <1>5, Zenon DEF pic_data, Step, Taken
<1>7. Head(todo).op = "pic_data"
  BY <1>1, Here
<1>8. p \in 2 .. 9
  <2>2. Icws[p + 1].op = "pic_data"
    BY <1>3, <1>7
  <2> QED
    BY <2>2, IcwTwo
<1>9. /\ c = [ch \in Chips |-> c[ch]]
      /\ \A ch \in Chips : c[ch] = IF ch = chip THEN Taken(pic[ch], value) ELSE pic[ch]
  BY <1>4, <1>6
<1>10. /\ Offset("PIC1") = 32 /\ Cascade("PIC1") = 4
       /\ Offset("PIC2") = 40 /\ Cascade("PIC2") = 2
  BY DEF Offset, Cascade
<1>11. ASSUME p \in {2, 4, 6, 8}
       PROVE  ChipAt(c["PIC1"], (p + 2) \div 2, "PIC1") /\ ChipAt(c["PIC2"], (p + 1) \div 2, "PIC2")
  <2>1. chip = "PIC1"
    BY <1>3, <1>5, <1>11, IcwsAre, IcwOps, SMTT(30)
  <2>2. c["PIC1"] = Taken(pic["PIC1"], value) /\ c["PIC2"] = pic["PIC2"]
    BY <1>9, <2>1 DEF Chips
  <2>3. p \div 2 = (p + 1) \div 2
    BY <1>11
  <2>4. ChipAt(c["PIC2"], (p + 1) \div 2, "PIC2")
    BY <1>3, <2>2, <2>3
  <2>5. CASE p = 2
    <3>1. value = Offset("PIC1")
      BY <1>3, <1>5, <1>10, <2>5, IcwsAre, IcwOps
    <3>2. (p + 1) \div 2 = 1 /\ (p + 2) \div 2 = 2
      BY <2>5
    <3> QED
      BY <1>3, <2>2, <2>4, <3>1, <3>2, ChipTakes
  <2>6. CASE p = 4
    <3>1. value = Cascade("PIC1")
      BY <1>3, <1>5, <1>10, <2>6, IcwsAre, IcwOps
    <3>2. (p + 1) \div 2 = 2 /\ (p + 2) \div 2 = 3
      BY <2>6
    <3> QED
      BY <1>3, <2>2, <2>4, <3>1, <3>2, ChipTakes
  <2>7. CASE p = 6
    <3>1. value = 1
      BY <1>3, <1>5, <2>7, IcwsAre, IcwOps
    <3>2. (p + 1) \div 2 = 3 /\ (p + 2) \div 2 = 4
      BY <2>7
    <3> QED
      BY <1>3, <2>2, <2>4, <3>1, <3>2, ChipTakes
  <2>8. CASE p = 8
    <3>1. value = 255
      BY <1>3, <1>5, <2>8, IcwsAre, IcwOps
    <3>2. (p + 1) \div 2 = 4 /\ (p + 2) \div 2 = 5
      BY <2>8
    <3> QED
      BY <1>3, <2>2, <2>4, <3>1, <3>2, ChipTakes
  <2> QED
    BY <1>11, <2>5, <2>6, <2>7, <2>8
<1>12. ASSUME p \in {3, 5, 7, 9}
       PROVE  ChipAt(c["PIC1"], (p + 2) \div 2, "PIC1") /\ ChipAt(c["PIC2"], (p + 1) \div 2, "PIC2")
  <2>1. chip = "PIC2"
    BY <1>3, <1>5, <1>12, IcwsAre, IcwOps, SMTT(30)
  <2>2. c["PIC2"] = Taken(pic["PIC2"], value) /\ c["PIC1"] = pic["PIC1"]
    BY <1>9, <2>1 DEF Chips
  <2>3. (p + 1) \div 2 = (p + 2) \div 2
    BY <1>12
  <2>4. ChipAt(c["PIC1"], (p + 2) \div 2, "PIC1")
    BY <1>3, <2>2, <2>3
  <2>5. CASE p = 3
    <3>1. value = Offset("PIC2")
      BY <1>3, <1>5, <1>10, <2>5, IcwsAre, IcwOps
    <3>2. p \div 2 = 1 /\ (p + 1) \div 2 = 2
      BY <2>5
    <3> QED
      BY <1>3, <2>2, <2>4, <3>1, <3>2, ChipTakes
  <2>6. CASE p = 5
    <3>1. value = Cascade("PIC2")
      BY <1>3, <1>5, <1>10, <2>6, IcwsAre, IcwOps
    <3>2. p \div 2 = 2 /\ (p + 1) \div 2 = 3
      BY <2>6
    <3> QED
      BY <1>3, <2>2, <2>4, <3>1, <3>2, ChipTakes
  <2>7. CASE p = 7
    <3>1. value = 1
      BY <1>3, <1>5, <2>7, IcwsAre, IcwOps
    <3>2. p \div 2 = 3 /\ (p + 1) \div 2 = 4
      BY <2>7
    <3> QED
      BY <1>3, <2>2, <2>4, <3>1, <3>2, ChipTakes
  <2>8. CASE p = 9
    <3>1. value = 255
      BY <1>3, <1>5, <2>8, IcwsAre, IcwOps
    <3>2. p \div 2 = 4 /\ (p + 1) \div 2 = 5
      BY <2>8
    <3> QED
      BY <1>3, <2>2, <2>4, <3>1, <3>2, ChipTakes
  <2> QED
    BY <1>12, <2>5, <2>6, <2>7, <2>8
<1>13. ChipAt(c["PIC1"], (p + 2) \div 2, "PIC1") /\ ChipAt(c["PIC2"], (p + 1) \div 2, "PIC2")
  BY <1>8, <1>11, <1>12
<1>14. /\ pic' = [ch \in Chips |-> pic'[ch]]
       /\ ChipAt(pic'["PIC1"], (p + 2) \div 2, "PIC1")
       /\ ChipAt(pic'["PIC2"], (p + 1) \div 2, "PIC2")
  BY <1>5, <1>9, <1>13, Zenon
<1> QED
  BY <1>1, <1>2, <1>3, <1>14, PicDone

-----------------------------------------------------------------------------
(* Theorems.                                                               *)

\* Before the tables are parsed no record has been read.
LEMMA StartUnread ==
  ASSUME NEW f \in Firmware, NEW A, [op |-> "acpi_parse_rsdp"] \in A
  PROVE  /\ \A table, op : Awaits(A, table, op)
         /\ \A type : \A r \in RecordsOf(f, type) : ~HasRead(f, A, r)
<1>1. \A table, op : Awaits(A, table, op)
  BY Zenon DEF Awaits
<1>2. ASSUME NEW type, NEW r \in RecordsOf(f, type)
      PROVE  ~HasRead(f, A, r)
  <2>1. PICK table \in MadtsOf(f) : r \in InAnyOrder(table.records)
    BY DEF RecordsOf
  <2>2. PICK j \in DOMAIN table.records : table.records[j] = r
    BY <2>1 DEF InAnyOrder
  <2>3. Unread(A, table, j)
    BY <1>1, Zenon DEF Unread
  <2> QED
    BY <2>1, <2>2, <2>3 DEF HasRead
<1> QED
  BY <1>1, <1>2

\* The steps of main.
LEMMA InitSteps ==
  ASSUME NEW t, t = [i \in DOMAIN main |-> [op |-> main[i]]]
  PROVE  /\ IsSeq(t)
         /\ Steps(t) = {[op |-> "acpi_parse_rsdp"], [op |-> "enable_interrupts"],
                        [op |-> "serial_init"], [op |-> "ps2_init"]}
<1>1. main = <<"acpi_parse_rsdp", "enable_interrupts", "serial_init", "ps2_init">>
  BY DEF main
<1>2. PICK a, b, c, d : /\ a = [op |-> "acpi_parse_rsdp"] /\ b = [op |-> "enable_interrupts"]
                        /\ c = [op |-> "serial_init"] /\ d = [op |-> "ps2_init"]
  OBVIOUS
<1>3. t = <<a, b, c, d>>
  BY <1>1, <1>2
<1>4. IsSeq(<<a, b, c, d>>)
  BY DEF IsSeq
<1>5. Steps(<<a, b, c, d>>) = {a, b, c, d}
  BY DEF Steps
<1> QED
  BY <1>2, <1>3, <1>4, <1>5, Zenon

\* Firmware and loader leave the machine so.
LEMMA InitPins ==
  ASSUME Init
  PROVE  PInv
<1>1. /\ firmware \in Firmware /\ Runs(panic) /\ apic_base = firmware.apic_base
      /\ HAS_X2APIC = FALSE /\ IOAPIC_BASE = FALSE /\ iflag = FALSE /\ has_i8042 = TRUE
      /\ todo = [i \in DOMAIN main |-> [op |-> main[i]]]
      /\ redir = [pin \in 0 .. firmware.pins - 1 |-> [low |-> firmware.low, destination |-> 1]]
  BY Zenon DEF Init, Runs
<1>2. PICK f, t, A : f = firmware /\ t = todo /\ A = Steps(todo)
  OBVIOUS
<1>3. f \in Firmware /\ HandedOver(f)
  BY <1>1, <1>2, MachineIs
<1>4. /\ IsSeq(t) /\ A = {[op |-> "acpi_parse_rsdp"], [op |-> "enable_interrupts"],
                          [op |-> "serial_init"], [op |-> "ps2_init"]}
  BY <1>1, <1>2, InitSteps
<1>5. /\ \A table, op : Awaits(A, table, op)
      /\ \A type : \A r \in RecordsOf(f, type) : ~HasRead(f, A, r)
  BY <1>3, <1>4, StartUnread
<1>6. Planned(f, FALSE, A)
  <2>1. ASSUME NEW x \in A
        PROVE  Allowed(f, FALSE, x)
    <3>1. \/ Reads(f, x) \/ x \in {[op |-> "serial_init"], [op |-> "ps2_init"]}
      BY <1>4 DEF Reads
    <3> QED
      BY <3>1 DEF Allowed
  <2> QED
    BY <1>4, <2>1 DEF Planned
<1>7. IsTable(f, redir) /\ Silent(f, FALSE, FALSE, redir)
  <2>1. /\ redir = [p \in 0 .. f.pins - 1 |-> redir[p]]
        /\ \A p \in 0 .. f.pins - 1 : redir[p] = [low |-> f.low, destination |-> 1]
    BY <1>1, <1>2
  <2>2. \A p \in 0 .. f.pins - 1 :
          /\ redir[p].low = f.low
          /\ redir[p] = [low |-> redir[p].low, destination |-> redir[p].destination]
    BY <2>1
  <2>3. ~Delivering(f.low)
    BY <1>3 DEF HandedOver, Delivering
  <2>4. IsTable(f, redir)
    BY <2>1, <2>2 DEF IsTable
  <2> QED
    BY <2>2, <2>3, <2>4 DEF Silent
<1>8. Cleared(f, FALSE, FALSE, redir, A) /\ Routed(f, FALSE, FALSE, redir, A)
  BY Zenon DEF Cleared, Routed
<1>9. Sourced(f, ISA_REDIRECTION_ENTRY, A)
  <2>1. ISA_REDIRECTION_ENTRY = [irq \in 0 .. ISA - 1 |-> Default(irq)]
    BY Zenon DEF Init, Default
  <2>2. /\ ISA_REDIRECTION_ENTRY = [irq \in 0 .. ISA - 1 |-> ISA_REDIRECTION_ENTRY[irq]]
        /\ \A irq \in 0 .. ISA - 1 : ISA_REDIRECTION_ENTRY[irq] = Default(irq)
    BY <2>1
  <2> QED
    BY <1>5, <2>2, Zenon DEF Sourced
<1>10. Nmis(f, FALSE, redir, A)
  BY <1>5, Zenon DEF Nmis
<1>11. Legacy(f, TRUE, A)
  BY <1>5 DEF Legacy
<1>12. Local(f, apic_base, HAS_X2APIC, lapic, A)
  <2>1. "EXTD" \in apic_base => f.x2apic
    BY <1>1, <1>2, <1>3 DEF HandedOver
  <2>2. lapic = [reg \in Lvts \cup {"SPIV"} |-> IF reg \in Lvts THEN f.lvt ELSE f.spiv]
    BY <1>2, Zenon DEF Init
  <2>3. Shaped(f, lapic)
    <3>1. "CMCI" \in Lvts
      BY DEF Lvts
    <3>2. lapic = [reg \in Lvts \cup {"SPIV"} |-> lapic[reg]] /\ lapic["CMCI"] = f.lvt
      BY <2>2, <3>1
    <3> QED
      BY <3>2 DEF Shaped
  <2>4. Begun(f, apic_base, HAS_X2APIC, lapic, A)
    BY <1>5, Zenon DEF Begun
  <2>5. \A r \in MineOf(f) : ~HasRead(f, A, r)
    BY <1>5 DEF MineOf
  <2> QED
    BY <2>1, <2>3, <2>4, <2>5, LocalIs
<1>13. Legacies(f, pic, t, A)
  <2>1. pic = [chip \in Chips |-> Fresh]
    BY Zenon DEF Init, Fresh, Chip
  <2>2. /\ pic = [chip \in Chips |-> pic[chip]]
        /\ pic["PIC1"] = Fresh /\ pic["PIC2"] = Fresh
    BY <2>1 DEF Chips
  <2>3. ChipAt(pic["PIC1"], 0, "PIC1") /\ ChipAt(pic["PIC2"], 0, "PIC2")
    BY <2>2, ChipCases
  <2>4. NoPics(Steps(t))
    BY <1>2, <1>4 DEF NoPics, PicOps
  <2>5. 0 \in 0 .. Len(t) /\ IcwsLeft(t, 10, 0) /\ 10 \in 0 .. 10
    BY <1>4, <2>4, NoneLeft
  <2> QED
    BY <1>5, <2>2, <2>3, <2>5, Zenon DEF Legacies
<1>14. Parts
  BY <1>1, <1>2, <1>3, <1>4, <1>6, <1>7, <1>8, <1>9, <1>10, <1>11, <1>12, <1>13, Zenon DEF Parts
<1> QED
  BY <1>14, PartsSafe, Zenon DEF PInv

\* A step that changes nothing keeps the invariant.
LEMMA StutterPins ==
  ASSUME PInv, UNCHANGED acpiVars
  PROVE  PInv'
<1>1. /\ firmware' = firmware /\ iflag' = iflag /\ pic' = pic /\ has_i8042' = has_i8042
      /\ IOAPIC_BASE' = IOAPIC_BASE /\ redir' = redir
      /\ ISA_REDIRECTION_ENTRY' = ISA_REDIRECTION_ENTRY
      /\ apic_base' = apic_base /\ HAS_X2APIC' = HAS_X2APIC /\ lapic' = lapic
      /\ todo' = todo /\ panic' = panic
  BY DEF acpiVars, apicVars, lapicVars, ioapicVars
<1>2. CASE Runs(panic)
  <2>1. Parts
    BY <1>2, Zenon DEF PInv
  <2>2. Parts'
    BY <1>1, <2>1, Zenon DEF Parts
  <2> QED
    BY <2>2, Close
<1>3. CASE ~Runs(panic)
  <2>1. ~Runs(panic') /\ UNCHANGED <<redir, pic, iflag, firmware>>
    BY <1>1, <1>3
  <2> QED
    BY <2>1, Stop
<1> QED
  BY <1>2, <1>3

\* Every step keeps the invariant.
LEMMA NextPins ==
  ASSUME IInv, PInv, [Next]_acpiVars
  PROVE  PInv'
<1>1. CASE acpi_parse_rsdp
  BY <1>1, RsdpPins
<1>2. CASE parse_sdt
  BY <1>2, SdtPins
<1>3. CASE acpi_parse_fadt
  BY <1>3, FadtPins
<1>4. CASE acpi_parse_madt
  BY <1>4, MadtPins
<1>5. CASE madt_record
  BY <1>5, RecordPins
<1>6. CASE enable_interrupts
  BY <1>6, EnablePins
<1>7. CASE serial_init
  BY <1>7, SerialPins
<1>8. CASE ps2_init
  BY <1>8, Ps2Pins
<1>9. CASE Apics
  <2>1. UNCHANGED <<firmware, has_i8042, iflag>>
    BY <1>9, Zenon DEF Apics
  <2>2. CASE lapic_init_begin(firmware.x2apic)
    BY <2>1, <2>2, BeginPins
  <2>3. CASE do_wrmsr_base
    BY <2>1, <2>3, WrmsrPins
  <2>4. CASE do_lapic_write
    BY <2>1, <2>4, LapicWritePins
  <2>5. CASE lapic_init_nmi
    BY <2>1, <2>5, LapicNmiPins
  <2>6. CASE pic_command
    BY <2>1, <2>6, PicCommandPins
  <2>7. CASE pic_data
    BY <2>1, <2>7, PicDataPins
  <2>8. CASE do_ioapic_write32
    BY <2>1, <2>8, IoapicWritePins
  <2>9. CASE ioapic_init_register
    BY <2>1, <2>9, RegisterPins
  <2>10. CASE ioapic_init_nmisource
    BY <2>1, <2>10, NmiSourcePins
  <2>11. CASE ioapic_init_source_override
    BY <2>1, <2>11, OverridePins
  <2> QED
    BY <1>9, <2>2, <2>3, <2>4, <2>5, <2>6, <2>7, <2>8, <2>9, <2>10, <2>11 DEF Apics
<1>10. CASE UNCHANGED acpiVars
  BY <1>10, StutterPins
<1> QED
  BY <1>1, <1>2, <1>3, <1>4, <1>5, <1>6, <1>7, <1>8, <1>9, <1>10 DEF Next

\* At every instant of every boot, in whatever order the tables come, each pin is
\* masked or on its way to the entry that the tables and drivers ask for, the writes
\* still to come making up the difference, and so are the lines of the local APIC;
\* the two 8259s have got the bytes of their sequence that are not still to come.
THEOREM PinsInductive ==
  Spec => []PInv
<1>1. Init => PInv
  BY InitPins
<1>2. IInv /\ PInv /\ [Next]_acpiVars => PInv'
  BY NextPins
<1> QED
  BY <1>1, <1>2, Inductive, PTL DEF Spec

\* At no instant between ioapic.c's and 8259.c's writes can a vector arrive that
\* interrupt_handler does not expect, whatever the tables, their order, and the order
\* and number of their records.
THEOREM NoneStray ==
  Spec => []NoStrayVector
<1>1. PInv => NoStrayVector
  BY Zenon DEF PInv
<1> QED
  BY <1>1, PinsInductive, PTL

\* At the end of main nothing is left to do.
LEMMA DoneParts ==
  ASSUME PInv, Done
  PROVE  Parts /\ todo = <<>>
BY Zenon DEF PInv, Done, Runs

\* When main is past ps2_init exactly the pins of the devices the machine has deliver,
\* each with the vector, polarity and trigger mode the tables give it.
THEOREM Routes ==
  Spec => []IsaPinsRouted
<1>1. PInv => IsaPinsRouted
  <2> SUFFICES ASSUME PInv
               PROVE  IsaPinsRouted
    OBVIOUS
  <2>1. CASE Done
    BY <2>1, DoneParts, PartsRouted
  <2>2. CASE ~Done
    BY <2>2, Zenon DEF IsaPinsRouted
  <2> QED
    BY <2>1, <2>2
<1> QED
  BY <1>1, PinsInductive, PTL

\* And non-maskable interrupts come through exactly the lines the tables name for the
\* boot processor, with the polarity they give.
THEOREM NmisHeeded ==
  Spec => []NmisAsFirmwareSays
<1>1. PInv => NmisAsFirmwareSays
  <2> SUFFICES ASSUME PInv
               PROVE  NmisAsFirmwareSays
    OBVIOUS
  <2>1. CASE Done
    BY <2>1, DoneParts, PartsNmis
  <2>2. CASE ~Done
    BY <2>2, Zenon DEF NmisAsFirmwareSays
  <2> QED
    BY <2>1, <2>2
<1> QED
  BY <1>1, PinsInductive, PTL

\* A step other than ps2_init finds no port faulty.
LEMMA FaultyKept ==
  ASSUME Faulty, [Next]_acpiVars, ~ps2_init
  PROVE  Faulty'
<1>1. firmware' = firmware
  BY DEF Next, acpi_parse_rsdp, parse_sdt, acpi_parse_fadt, acpi_parse_madt, madt_record,
     enable_interrupts, serial_init, Apics, acpiVars
<1>2. \/ panic' = panic
      \/ panic' \in {"#GP", "#PF", "Invalid SDT", "Multiple I/O APICs not supported",
                     "Remapping the entire I/O APIC is not supported",
                     "I/O APIC has too few pins to cover all ISA IRQs",
                     "Unknown MADT Bus", "Unknown MADT struct"}
  <2>1. CASE acpi_parse_rsdp \/ parse_sdt \/ acpi_parse_fadt \/ acpi_parse_madt
             \/ enable_interrupts \/ serial_init
    BY <2>1 DEF acpi_parse_rsdp, parse_sdt, acpi_parse_fadt, acpi_parse_madt,
       enable_interrupts, serial_init, Call, Return, Panic
  <2>2. CASE madt_record
    BY <2>2 DEF madt_record, Call, Return, Panic
  <2>3. CASE Apics
    <3>1. CASE lapic_init_begin(firmware.x2apic) \/ do_wrmsr_base \/ do_lapic_write \/ lapic_init_nmi
      BY <3>1 DEF lapic_init_begin, do_wrmsr_base, do_lapic_write, lapic_init_nmi,
         Call, Return, Panic
    <3>2. CASE pic_command \/ pic_data \/ do_ioapic_write32
      BY <3>2 DEF pic_command, pic_data, do_ioapic_write32, Call, Return, Panic
    <3>3. CASE ioapic_init_register \/ ioapic_init_nmisource \/ ioapic_init_source_override
      BY <3>3 DEF ioapic_init_register, ioapic_init_nmisource, ioapic_init_source_override,
         Call, Panic, Return
    <3> QED
      BY <2>3, <3>1, <3>2, <3>3 DEF Apics
  <2>4. CASE UNCHANGED acpiVars
    BY <2>4 DEF acpiVars, apicVars
  <2> QED
    BY <2>1, <2>2, <2>3, <2>4 DEF Next
<1>3. panic' = panic \/ panic' # "PS/2 port faulty"
  BY <1>2
<1> QED
  BY <1>1, <1>3, Zenon DEF Faulty

\* Each message of acpi.c, madt.c, ioapic.c and ps2.c, the one about too few pins
\* aside, is true of the machine it stops, every fault is explained by a null pointer
\* that firmware's lists leave, and main goes on only with tables that add
\* up and an I/O APIC that covers the ISA interrupts, whatever tables and records
\* firmware lists and in whatever order.
THEOREM Reasonable ==
  Spec => []StopsForAReason
<1>1. Init => Faulty
  BY DEF Init, Faulty
<1>2. IInv /\ PInv /\ Faulty /\ [Next]_acpiVars => Faulty'
  BY Ps2Pins, FaultyKept
<1>3. IInv /\ PInv /\ Faulty => StopsForAReason
  <2> SUFFICES ASSUME IInv, PInv, Faulty
               PROVE  StopsForAReason
    OBVIOUS
  <2>1. panic = "" /\ IOAPIC_BASE => ISA <= firmware.pins
    <3> SUFFICES ASSUME Runs(panic), IOAPIC_BASE
                 PROVE  ISA <= firmware.pins
      BY Zenon DEF Runs
    <3>1. Parts
      BY Zenon DEF PInv
    <3>2. Cleared(firmware, iflag, IOAPIC_BASE, redir, Steps(todo)) /\ firmware \in Firmware
      BY <3>1, Zenon DEF Parts
    <3>3. ISA < firmware.pins /\ firmware.pins \in Nat
      BY <3>2, FirmwareAssumption, Zenon DEF Cleared
    <3> QED
      BY <3>3, IsaAssumption
  <2>2. panic = "PS/2 port faulty" => Has8042 /\ firmware.i8042 = "port faulty"
    BY Zenon DEF Faulty, Present, Has8042, Fadts
  <2>3. Reasoned(firmware, panic, iflag)
    BY Zenon DEF IInv
  <2>4. FaultsOnlyAtNull
    BY <2>3, Zenon DEF Reasoned, FaultsOnlyAtNull, NoPointer, Records, Madts
  <2> QED
    BY <2>1, <2>2, <2>3, <2>4, Zenon DEF StopsForAReason, Reasoned, Sums, SumsOf, Madts, Records,
       AllAddUp, TwoIoApics, StrangeRecord
<1> QED
  BY <1>1, <1>2, <1>3, Inductive, PinsInductive, PTL DEF Spec
=============================================================================
