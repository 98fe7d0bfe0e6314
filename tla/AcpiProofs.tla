----------------------------- MODULE AcpiProofs -----------------------------
(***************************************************************************)
(* A theorem about Acpi, for every machine: any number of tables in any    *)
(* order, any number of records in them, any sum and any mode of the local *)
(* APIC.                                                                   *)
(*                                                                         *)
(* The argument: what is left to do says how far the tables have been      *)
(* read.  The pointer to the I/O APIC is set exactly when one of the       *)
(* records read describes one, the tables read add up, and the mode of the *)
(* local APIC is the one its registers are written in.                     *)
(***************************************************************************)
EXTENDS Acpi, TLAPS, SequenceTheorems, FiniteSetTheorems

-----------------------------------------------------------------------------
(* Sequences of steps.                                                     *)

IsSeq(s) == s \in Seq({s[i] : i \in DOMAIN s})

\* t is steps of the kinds ops, any number of them, and then rest.
Onto(t, rest, ops) ==
  /\ IsSeq(t) /\ IsSeq(rest)
  /\ \E c \in 0 .. Len(t) :
       /\ SubSeq(t, c + 1, Len(t)) = rest
       /\ \A j \in 1 .. c : t[j].op \in ops

-----------------------------------------------------------------------------
(* Where main is.                                                          *)

\* What main does once it knows the tables there are.
Agenda(f) ==
  [i \in DOMAIN f.tables |-> step("parse_sdt", f.tables[i])]
  \o <<[op |-> "enable_interrupts"], [op |-> "serial_init"], [op |-> "ps2_init"]>>

Rest(f, k) == SubSeq(Agenda(f), k + 1, Len(f.tables) + 3)

\* The k-th table is a MADT.
IsMadt(f, k) == k \in DOMAIN f.tables /\ f.tables[k].signature = "APIC"

\* The loop over its records is before the i-th.
Loop(f, k, i) == <<[op |-> "madt_record", table |-> f.tables[k], i |-> i]>> \o Rest(f, k)

\* A record before the i-th of the k-th table describes an I/O APIC.
Seen(f, k, i) ==
  \E a \in DOMAIN f.tables :
    /\ IsMadt(f, a)
    /\ \E j \in DOMAIN f.tables[a].records :
         f.tables[a].records[j].type = 1 /\ (a < k \/ (a = k /\ j < i))

\* The reasons for a write at a null pointer.
Unlisted(f) ==
  \/ \A a \in DOMAIN f.tables : IsMadt(f, a) =>
       \A j \in DOMAIN f.tables[a].records : f.tables[a].records[j].type # 1
  \/ \E a \in DOMAIN f.tables :
       /\ IsMadt(f, a)
       /\ \E i \in DOMAIN f.tables[a].records :
            /\ f.tables[a].records[i].type = 3
            /\ \A j \in 1 .. i : f.tables[a].records[j].type # 1

\* The I/O APIC may be written.
Writes(f, io) == IF io \/ Unlisted(f) THEN {"ioapic_write32"} ELSE {}

PicOps == {"pic_command", "pic_data"}
LapicOps == PicOps \cup {"lapic_write"}

\* The descriptors and the first k tables add up.
Checked(f, k) ==
  /\ f.rsdp.sum % 256 = 0 /\ f.rsdp.root.sum % 256 = 0
  /\ f.rsdp.revision > 0 => f.rsdp.xsdp.sum % 256 = 0
  /\ \A a \in DOMAIN f.tables : a <= k => f.tables[a].sum % 256 = 0

-----------------------------------------------------------------------------
(* The points of main, by what is left to do, t.                           *)

Start(t, io) == t = [i \in DOMAIN main |-> [op |-> main[i]]] /\ ~io

\* Past k steps of the agenda.
Between(f, k, t, io) ==
  /\ k \in 0 .. Len(f.tables) + 3 /\ Checked(f, k)
  /\ Onto(t, Rest(f, k), IF k > Len(f.tables) + 1 THEN Writes(f, io) ELSE {})
  /\ (io <=> Seen(f, k + 1, 1))

\* About to call the parser of the k-th table.
CallsMadt(f, k, t, io) ==
  /\ IsMadt(f, k) /\ Checked(f, k)
  /\ t = <<step("acpi_parse_madt", f.tables[k])>> \o Rest(f, k)
  /\ (io <=> Seen(f, k, 1))

CallsFadt(f, k, t, io) ==
  /\ k \in DOMAIN f.tables /\ Checked(f, k)
  /\ t = <<step("acpi_parse_fadt", f.tables[k])>> \o Rest(f, k)
  /\ (io <=> Seen(f, k + 1, 1))

\* In the parser, before the local APIC is enabled.
Begin(f, k, t, io) ==
  /\ IsMadt(f, k) /\ Checked(f, k)
  /\ t # <<>> /\ Head(t) = [op |-> "lapic_init_begin"]
  /\ Onto(Tail(t), Loop(f, k, 1), PicOps)
  /\ (io <=> Seen(f, k, 1))

\* While its mode changes, from base to the last of the values.
Mode(f, k, t, io, base, x2apic) ==
  /\ IsMadt(f, k) /\ Checked(f, k)
  /\ t # <<>>
  /\ \/ /\ base = {"EN"} /\ Head(t) = wrmsr_base({"EN", "EXTD"})
        /\ Onto(Tail(t), Loop(f, k, 1), LapicOps)
     \/ /\ base = {} /\ ~x2apic /\ Head(t) = wrmsr_base({"EN"})
        /\ Onto(Tail(t), Loop(f, k, 1), LapicOps)
     \/ /\ base = {} /\ Head(t) = wrmsr_base({"EN"})
        /\ IsSeq(Tail(t)) /\ Tail(t) # <<>> /\ Head(Tail(t)) = wrmsr_base({"EN", "EXTD"})
        /\ Onto(Tail(Tail(t)), Loop(f, k, 1), LapicOps)
  /\ (io <=> Seen(f, k, 1))

\* The registers are written that the records before the i-th ask for.
Reading(f, k, i, t, io) ==
  /\ IsMadt(f, k) /\ Checked(f, k)
  /\ i \in 1 .. Len(f.tables[k].records) + 1
  /\ Onto(t, Loop(f, k, i), LapicOps \cup Writes(f, io))
  /\ (io <=> Seen(f, k, i))

\* What a record calls.
Handler(type) ==
  CASE type = 1 -> "ioapic_init_register"
    [] type = 2 -> "ioapic_init_source_override"
    [] type = 3 -> "ioapic_init_nmisource"
    [] OTHER -> "lapic_init_nmi"

\* About to call it for the record before the i-th.
Record(f, k, i, t, io) ==
  /\ IsMadt(f, k) /\ Checked(f, k)
  /\ i \in 1 .. Len(f.tables[k].records)
  /\ f.tables[k].records[i].type \in 1 .. 4
  /\ t = <<step(Handler(f.tables[k].records[i].type), f.tables[k].records[i])>>
         \o Loop(f, k, i + 1)
  /\ (io <=> Seen(f, k, i))

\* One of the points at which the mode is settled.
Point(f, t, io) ==
  \/ Start(t, io)
  \/ \E k \in 0 .. Len(f.tables) + 3 :
       \/ Between(f, k, t, io) \/ CallsMadt(f, k, t, io) \/ CallsFadt(f, k, t, io) \/ Begin(f, k, t, io)
       \/ /\ IsMadt(f, k)
          /\ \E i \in 1 .. Len(f.tables[k].records) + 1 :
               Reading(f, k, i, t, io) \/ Record(f, k, i, t, io)

Placed(f, t, io, base, x2apic) ==
  \/ Point(f, t, io) /\ (x2apic => "EXTD" \in base)
  \/ \E k \in DOMAIN f.tables : Mode(f, k, t, io, base, x2apic)

Typing ==
  /\ firmware \in Firmware
  /\ HAS_X2APIC \in BOOLEAN /\ IOAPIC_BASE \in BOOLEAN /\ iflag \in BOOLEAN
  /\ apic_base \in {{}, {"EN"}, {"EN", "EXTD"}}
  /\ Pins = 0 .. firmware.pins - 1

SumsOf(f) ==
  {f.rsdp.sum, f.rsdp.root.sum}
  \cup (IF f.rsdp.revision > 0 THEN {f.rsdp.xsdp.sum} ELSE {})
  \cup {table.sum : table \in InAnyOrder(f.tables)}

AllAddUp(f) == \A sum \in SumsOf(f) : sum % 256 = 0

TwoIoApics(f) ==
  \/ Cardinality({i \in DOMAIN f.tables : f.tables[i] \in MadtsOf(f)}) > 1
  \/ \E table \in MadtsOf(f) :
       Cardinality({i \in DOMAIN table.records : table.records[i].type = 1}) > 1

StrangeRecord(f) ==
  \E table \in MadtsOf(f) : \E i \in DOMAIN table.records : table.records[i].type \notin 0 .. 4

NoPointer(f) ==
  \/ RecordsOf(f, 1) = {}
  \/ \E table \in MadtsOf(f) : \E i \in DOMAIN table.records :
       table.records[i].type = 3 /\ \A j \in 1 .. i : table.records[j].type # 1

\* The reasons, by machine f, message or fault p and interrupt flag.
Reasoned(f, p, flag) ==
  /\ p # "#GP"
  /\ p = "Invalid SDT" => \E sum \in SumsOf(f) : sum % 256 # 0
  /\ flag => AllAddUp(f)
  /\ p = "Multiple I/O APICs not supported" => TwoIoApics(f)
  /\ p = "Remapping the entire I/O APIC is not supported" =>
       \E r \in RecordsOf(f, 1) : r.global_system_interrupt_base # 0
  /\ p = "Unknown MADT Bus" => \E r \in RecordsOf(f, 2) : r.bus_source # 0
  /\ p = "Unknown MADT struct" => StrangeRecord(f)
  /\ p = "#PF" => NoPointer(f)

\* The inductive invariant.
IInv ==
  /\ Typing
  /\ panic = "" => Placed(firmware, todo, IOAPIC_BASE, apic_base, HAS_X2APIC)
  /\ Reasoned(firmware, panic, iflag)

-----------------------------------------------------------------------------
(* Lemmas about sequences of steps.                                        *)

\* Every sequence is one of its own elements.
LEMMA SeqIs ==
  ASSUME NEW S, NEW s \in Seq(S)
  PROVE  IsSeq(s)
BY LenProperties DEF IsSeq

\* Two sequences are sequences over one set.
LEMMA Common ==
  ASSUME NEW a, NEW b, IsSeq(a), IsSeq(b)
  PROVE  \E S : a \in Seq(S) /\ b \in Seq(S)
<1> DEFINE A == {a[i] : i \in DOMAIN a}
           B == {b[i] : i \in DOMAIN b}
<1>1. a \in Seq(A) /\ b \in Seq(B)
  BY DEF IsSeq
<1>2. A \subseteq A \cup B /\ B \subseteq A \cup B
  OBVIOUS
<1>3. a \in Seq(A \cup B) /\ b \in Seq(A \cup B)
  <2> HIDE DEF A, B
  <2> QED
    BY <1>1, <1>2, SeqMonotonic
<1> QED
  BY <1>3

\* The elements of a concatenation.
LEMMA CatIs ==
  ASSUME NEW a, NEW b, IsSeq(a), IsSeq(b)
  PROVE  /\ IsSeq(a \o b) /\ Len(a \o b) = Len(a) + Len(b)
         /\ Len(a) \in Nat /\ Len(b) \in Nat
         /\ \A i \in 1 .. Len(a) + Len(b) :
              (a \o b)[i] = IF i <= Len(a) THEN a[i] ELSE b[i - Len(a)]
<1>1. PICK S : a \in Seq(S) /\ b \in Seq(S)
  BY Common
<1>2. a \o b \in Seq(S)
  BY <1>1, ConcatProperties
<1> QED
  BY <1>1, <1>2, ConcatProperties, LenProperties, SeqIs

\* One step.
LEMMA OneIs ==
  ASSUME NEW x
  PROVE  IsSeq(<<x>>) /\ Len(<<x>>) = 1 /\ <<x>>[1] = x
<1>1. <<x>> \in Seq({x})
  OBVIOUS
<1>2. IsSeq(<<x>>)
  BY <1>1, SeqIs
<1> QED
  BY <1>2

\* Two sequences with the same elements.
LEMMA SeqSame ==
  ASSUME NEW a, NEW b, IsSeq(a), IsSeq(b), Len(a) = Len(b),
         \A i \in 1 .. Len(a) : a[i] = b[i]
  PROVE  a = b
<1>1. PICK S : a \in Seq(S) /\ b \in Seq(S)
  BY Common
<1> QED
  BY <1>1, SeqEqual

\* What is left of a sequence.
LEMMA TailIs ==
  ASSUME NEW s, IsSeq(s), s # <<>>
  PROVE  /\ Len(s) \in Nat /\ Len(s) >= 1 /\ Head(s) = s[1]
         /\ IsSeq(Tail(s)) /\ Len(Tail(s)) = Len(s) - 1
         /\ \A i \in 1 .. Len(s) - 1 : Tail(s)[i] = s[i + 1]
<1>1. PICK S : s \in Seq(S)
  BY DEF IsSeq
<1>2. Len(s) \in Nat \ {0}
  BY <1>1, EmptySeq
<1>3. /\ Tail(s) \in Seq(S) /\ Len(Tail(s)) = Len(s) - 1
      /\ \A i \in 1 .. Len(Tail(s)) : Tail(s)[i] = s[i + 1]
  BY <1>1, HeadTailProperties
<1>4. IsSeq(Tail(s))
  BY <1>3, SeqIs
<1>5. Head(s) = s[1]
  BY <1>1
<1> QED
  BY <1>2, <1>3, <1>4, <1>5

\* The end of a sequence after its first c elements.
LEMMA EndIs ==
  ASSUME NEW s, IsSeq(s), NEW c \in Nat, c <= Len(s)
  PROVE  /\ Len(s) \in Nat
         /\ IsSeq(SubSeq(s, c + 1, Len(s))) /\ Len(SubSeq(s, c + 1, Len(s))) = Len(s) - c
         /\ \A i \in 1 .. Len(s) - c : SubSeq(s, c + 1, Len(s))[i] = s[c + i]
<1>1. PICK S : s \in Seq(S)
  BY DEF IsSeq
<1>2. Len(s) \in Nat /\ \A i \in c + 1 .. Len(s) : s[i] \in S
  BY <1>1, ElementOfSeq, LenProperties
<1>3. /\ SubSeq(s, c + 1, Len(s)) \in Seq(S)
      /\ Len(SubSeq(s, c + 1, Len(s))) = IF c + 1 <= Len(s) THEN Len(s) - (c + 1) + 1 ELSE 0
      /\ \A i \in 1 .. Len(s) - (c + 1) + 1 : SubSeq(s, c + 1, Len(s))[i] = s[c + 1 + i - 1]
  <2>1. c + 1 \in Int /\ Len(s) \in Int
    BY <1>2
  <2> QED
    BY <1>2, <2>1, SubSeqProperties
<1>4. IsSeq(SubSeq(s, c + 1, Len(s)))
  BY <1>3, SeqIs
<1> QED
  BY <1>2, <1>3, <1>4

\* A step in front of a sequence.
LEMMA ConsIs ==
  ASSUME NEW x, NEW u, IsSeq(u)
  PROVE  /\ IsSeq(<<x>> \o u) /\ <<x>> \o u # <<>>
         /\ Head(<<x>> \o u) = x /\ Tail(<<x>> \o u) = u
<1> DEFINE t == <<x>> \o u
<1>1. IsSeq(t) /\ Len(t) = 1 + Len(u) /\ Len(u) \in Nat /\ t[1] = x
      /\ \A i \in 1 .. Len(u) : t[i + 1] = u[i]
  <2>1. IsSeq(<<x>>) /\ Len(<<x>>) = 1 /\ <<x>>[1] = x
    BY OneIs
  <2>2. PICK o : o = <<x>>
    OBVIOUS
  <2>3. /\ IsSeq(o \o u) /\ Len(o \o u) = 1 + Len(u) /\ Len(u) \in Nat
        /\ \A i \in 1 .. 1 + Len(u) : (o \o u)[i] = IF i <= 1 THEN o[i] ELSE u[i - 1]
    BY <2>1, <2>2, CatIs
  <2> QED
    BY <2>1, <2>2, <2>3
<1> HIDE DEF t
<1>2. t # <<>>
  <2>1. PICK S : t \in Seq(S)
    BY <1>1 DEF IsSeq
  <2>2. Len(<<>>) = 0
    BY EmptySeq
  <2> QED
    BY <1>1, <2>2
<1>3. Head(t) = x /\ IsSeq(Tail(t)) /\ Len(Tail(t)) = Len(u)
      /\ \A i \in 1 .. Len(u) : Tail(t)[i] = u[i]
  BY <1>1, <1>2, TailIs
<1>4. Tail(t) = u
  BY <1>3, SeqSame
<1> QED
  BY <1>1, <1>2, <1>3, <1>4 DEF t

\* Nothing in front.
LEMMA OntoSelf ==
  ASSUME NEW t, NEW ops, IsSeq(t)
  PROVE  Onto(t, t, ops)
<1>1. PICK S : t \in Seq(S)
  BY DEF IsSeq
<1>2. SubSeq(t, 0 + 1, Len(t)) = t /\ Len(t) \in Nat
  BY <1>1, SubSeqFull, LenProperties
<1>3. 0 \in 0 .. Len(t) /\ \A j \in 1 .. 0 : t[j].op \in ops
  BY <1>2
<1> QED
  BY <1>2, <1>3 DEF Onto

\* The next step is one of those in front, unless there are none.
LEMMA OntoStep ==
  ASSUME NEW t, NEW rest, NEW ops, Onto(t, rest, ops)
  PROVE  \/ t = rest
         \/ t # <<>> /\ Head(t).op \in ops /\ Onto(Tail(t), rest, ops)
<1>1. IsSeq(t) /\ IsSeq(rest)
  BY DEF Onto
<1>2. PICK c \in 0 .. Len(t) :
        SubSeq(t, c + 1, Len(t)) = rest /\ \A j \in 1 .. c : t[j].op \in ops
  BY DEF Onto
<1>3. PICK S : t \in Seq(S)
  BY <1>1 DEF IsSeq
<1>4. CASE c = 0
  <2>1. SubSeq(t, 1, Len(t)) = t
    BY <1>3, SubSeqFull
  <2> QED
    BY <1>2, <1>4, <2>1
<1>5. CASE c # 0
  <2>1. Len(t) \in Nat /\ c \in Nat /\ c >= 1 /\ c <= Len(t)
    BY <1>2, <1>3, <1>5, LenProperties
  <2>2. t # <<>>
    BY <1>3, <2>1, EmptySeq
  <2>3. /\ Head(t) = t[1] /\ IsSeq(Tail(t)) /\ Len(Tail(t)) = Len(t) - 1
        /\ \A i \in 1 .. Len(t) - 1 : Tail(t)[i] = t[i + 1]
    BY <1>1, <2>2, TailIs
  <2>4. Head(t).op \in ops
    BY <1>2, <2>1, <2>3
  <2>5. \A j \in 1 .. c - 1 : Tail(t)[j].op \in ops
    <3> SUFFICES ASSUME NEW j \in 1 .. c - 1
                 PROVE  Tail(t)[j].op \in ops
      OBVIOUS
    <3>1. j \in 1 .. Len(t) - 1 /\ j + 1 \in 1 .. c
      BY <2>1
    <3> QED
      BY <1>2, <2>3, <3>1
  <2>6. SubSeq(Tail(t), (c - 1) + 1, Len(Tail(t))) = rest
    <3>1. c - 1 \in Nat /\ c - 1 <= Len(Tail(t))
      BY <2>1, <2>3
    <3> DEFINE a == SubSeq(Tail(t), (c - 1) + 1, Len(Tail(t)))
    <3>2. /\ IsSeq(a) /\ Len(a) = Len(Tail(t)) - (c - 1)
          /\ \A i \in 1 .. Len(Tail(t)) - (c - 1) : a[i] = Tail(t)[(c - 1) + i]
      BY <2>3, <3>1, EndIs
    <3> DEFINE b == SubSeq(t, c + 1, Len(t))
    <3>3. IsSeq(b) /\ Len(b) = Len(t) - c /\ \A i \in 1 .. Len(t) - c : b[i] = t[c + i]
      BY <1>1, <2>1, EndIs
    <3> HIDE DEF a, b
    <3>4. Len(a) = Len(t) - c /\ Len(a) = Len(b)
      BY <2>1, <2>3, <3>2, <3>3
    <3>5. \A i \in 1 .. Len(t) - c : a[i] = b[i]
      <4> SUFFICES ASSUME NEW i \in 1 .. Len(t) - c
                   PROVE  a[i] = b[i]
        OBVIOUS
      <4>1. /\ i \in 1 .. Len(Tail(t)) - (c - 1) /\ (c - 1) + i \in 1 .. Len(t) - 1
            /\ (c - 1) + i + 1 = c + i
        BY <2>1, <2>3
      <4> QED
        BY <2>3, <3>2, <3>3, <4>1
    <3>6. a = b
      BY <3>2, <3>3, <3>4, <3>5, SeqSame
    <3> QED
      BY <1>2, <3>6 DEF a, b
  <2>7. c - 1 \in 0 .. Len(Tail(t))
    BY <2>1, <2>3
  <2> QED
    BY <1>1, <2>2, <2>3, <2>4, <2>5, <2>6, <2>7 DEF Onto
<1> QED
  BY <1>4, <1>5

\* More steps of the same kinds in front.
LEMMA OntoCat ==
  ASSUME NEW a, NEW t, NEW rest, NEW ops, IsSeq(a), \A j \in 1 .. Len(a) : a[j].op \in ops,
         Onto(t, rest, ops)
  PROVE  Onto(a \o t, rest, ops)
<1>1. IsSeq(t) /\ IsSeq(rest)
  BY DEF Onto
<1>2. PICK c \in 0 .. Len(t) :
        SubSeq(t, c + 1, Len(t)) = rest /\ \A j \in 1 .. c : t[j].op \in ops
  BY DEF Onto
<1> DEFINE s == a \o t
<1>3. /\ IsSeq(s) /\ Len(s) = Len(a) + Len(t) /\ Len(a) \in Nat /\ Len(t) \in Nat
      /\ \A i \in 1 .. Len(a) + Len(t) : s[i] = IF i <= Len(a) THEN a[i] ELSE t[i - Len(a)]
  BY <1>1, CatIs
<1> HIDE DEF s
<1>4. c \in Nat /\ c <= Len(t)
  BY <1>2, <1>3
<1> DEFINE d == Len(a) + c
<1>5. d \in Nat /\ d <= Len(s) /\ d \in 0 .. Len(s)
  BY <1>3, <1>4
<1>6. \A j \in 1 .. d : s[j].op \in ops
  <2> SUFFICES ASSUME NEW j \in 1 .. d
               PROVE  s[j].op \in ops
    OBVIOUS
  <2>1. CASE j <= Len(a)
    <3>1. j \in 1 .. Len(a) /\ j \in 1 .. Len(a) + Len(t)
      BY <1>3, <1>4, <2>1
    <3> QED
      BY <1>3, <2>1, <3>1
  <2>2. CASE ~(j <= Len(a))
    <3>1. j - Len(a) \in 1 .. c /\ j \in 1 .. Len(a) + Len(t)
      BY <1>3, <1>4, <2>2
    <3> QED
      BY <1>2, <1>3, <2>2, <3>1
  <2> QED
    BY <2>1, <2>2
<1>7. SubSeq(s, d + 1, Len(s)) = rest
  <2> DEFINE p == SubSeq(s, d + 1, Len(s))
             q == SubSeq(t, c + 1, Len(t))
  <2>1. IsSeq(p) /\ Len(p) = Len(s) - d /\ \A i \in 1 .. Len(s) - d : p[i] = s[d + i]
    <3> HIDE DEF d
    <3> QED
      BY <1>3, <1>5, EndIs
  <2>2. IsSeq(q) /\ Len(q) = Len(t) - c /\ \A i \in 1 .. Len(t) - c : q[i] = t[c + i]
    BY <1>1, <1>4, EndIs
  <2> HIDE DEF p, q
  <2>3. Len(p) = Len(q) /\ Len(p) = Len(t) - c
    BY <1>3, <1>4, <2>1, <2>2
  <2>4. \A i \in 1 .. Len(p) : p[i] = q[i]
    <3> SUFFICES ASSUME NEW i \in 1 .. Len(p)
                 PROVE  p[i] = q[i]
      OBVIOUS
    <3>1. /\ i \in 1 .. Len(s) - d /\ i \in 1 .. Len(t) - c
          /\ d + i \in 1 .. Len(a) + Len(t) /\ ~(d + i <= Len(a)) /\ (d + i) - Len(a) = c + i
      BY <1>3, <1>4, <2>1, <2>3
    <3>2. s[d + i] = t[c + i]
      <4> HIDE DEF d
      <4> QED
        BY <1>3, <3>1
    <3> QED
      BY <2>1, <2>2, <3>1, <3>2
  <2>5. p = q
    BY <2>1, <2>2, <2>3, <2>4, SeqSame
  <2> QED
    BY <1>2, <2>5 DEF p, q
<1> QED
  BY <1>1, <1>3, <1>5, <1>6, <1>7 DEF Onto, s

\* More kinds.
LEMMA OntoMore ==
  ASSUME NEW t, NEW rest, NEW ops, NEW more, Onto(t, rest, ops), ops \subseteq more
  PROVE  Onto(t, rest, more)
BY DEF Onto

-----------------------------------------------------------------------------
(* Lemmas about where main is.                                             *)

\* The last three steps of main.
Finish == <<[op |-> "enable_interrupts"], [op |-> "serial_init"], [op |-> "ps2_init"]>>

LEMMA FinishIs ==
  /\ IsSeq(Finish) /\ Len(Finish) = 3
  /\ Finish[1] = [op |-> "enable_interrupts"]
  /\ Finish[2] = [op |-> "serial_init"]
  /\ Finish[3] = [op |-> "ps2_init"]
<1>1. Finish \in Seq({[op |-> "enable_interrupts"], [op |-> "serial_init"], [op |-> "ps2_init"]})
  BY DEF Finish
<1>2. IsSeq(Finish)
  BY <1>1, SeqIs
<1> QED
  BY <1>2 DEF Finish

\* The tables of a machine and the records of a MADT are sequences.
LEMMA TablesAre ==
  ASSUME NEW f \in Firmware
  PROVE  /\ IsSeq(f.tables) /\ Len(f.tables) \in Nat
         /\ DOMAIN f.tables = 1 .. Len(f.tables)
         /\ \A k \in DOMAIN f.tables : IsMadt(f, k) =>
              /\ Len(f.tables[k].records) \in Nat
              /\ DOMAIN f.tables[k].records = 1 .. Len(f.tables[k].records)
              /\ \A i \in DOMAIN f.tables[k].records : f.tables[k].records[i].length = 1
<1>1. f.tables \in Seq({f.tables[i] : i \in DOMAIN f.tables})
  BY FirmwareAssumption
<1>2. ASSUME NEW k \in DOMAIN f.tables, IsMadt(f, k)
      PROVE  /\ f.tables[k].records \in
                  Seq({f.tables[k].records[j] : j \in DOMAIN f.tables[k].records})
             /\ \A i \in DOMAIN f.tables[k].records : f.tables[k].records[i].length = 1
  BY <1>2, FirmwareAssumption DEF IsMadt
<1> QED
  BY <1>1, <1>2, LenProperties DEF IsSeq

\* A step for every table, and the last three.
LEMMA AgendaIs ==
  ASSUME NEW f \in Firmware
  PROVE  /\ IsSeq(Agenda(f)) /\ Len(Agenda(f)) = Len(f.tables) + 3
         /\ \A k \in 1 .. Len(f.tables) : Agenda(f)[k] = step("parse_sdt", f.tables[k])
         /\ Agenda(f)[Len(f.tables) + 1] = [op |-> "enable_interrupts"]
         /\ Agenda(f)[Len(f.tables) + 2] = [op |-> "serial_init"]
         /\ Agenda(f)[Len(f.tables) + 3] = [op |-> "ps2_init"]
<1> DEFINE a == [i \in DOMAIN f.tables |-> step("parse_sdt", f.tables[i])]
<1>1. Len(f.tables) \in Nat /\ DOMAIN f.tables = 1 .. Len(f.tables)
  BY TablesAre
<1>2. IsSeq(a) /\ Len(a) = Len(f.tables)
      /\ \A k \in 1 .. Len(f.tables) : a[k] = step("parse_sdt", f.tables[k])
  <2>1. DOMAIN a = 1 .. Len(f.tables)
    BY <1>1
  <2>2. a \in Seq({a[i] : i \in DOMAIN a})
    BY <1>1, <2>1
  <2> QED
    BY <1>1, <2>1, <2>2, LenProperties DEF IsSeq
<1>3. Agenda(f) = a \o Finish
  BY DEF Agenda, Finish
<1> HIDE DEF a
<1>4. /\ IsSeq(a \o Finish) /\ Len(a \o Finish) = Len(a) + 3
      /\ \A i \in 1 .. Len(a) + 3 :
           (a \o Finish)[i] = IF i <= Len(a) THEN a[i] ELSE Finish[i - Len(a)]
  <2>1. PICK b : b = Finish
    OBVIOUS
  <2>2. IsSeq(b) /\ Len(b) = 3
    BY <2>1, FinishIs
  <2>3. /\ IsSeq(a \o b) /\ Len(a \o b) = Len(a) + 3
        /\ \A i \in 1 .. Len(a) + 3 : (a \o b)[i] = IF i <= Len(a) THEN a[i] ELSE b[i - Len(a)]
    <3>1. IsSeq(a)
      BY <1>2
    <3>2. /\ IsSeq(a \o b) /\ Len(a \o b) = Len(a) + Len(b)
          /\ \A i \in 1 .. Len(a) + Len(b) : (a \o b)[i] = IF i <= Len(a) THEN a[i] ELSE b[i - Len(a)]
      BY <2>2, <3>1, CatIs, Zenon
    <3> QED
      BY <2>2, <3>2, ZenonT(30)
  <2> QED
    BY <2>1, <2>3
<1>5. \A i \in 1 .. 3 : (a \o Finish)[Len(f.tables) + i] = Finish[i]
  BY <1>1, <1>2, <1>4, SMTT(30)
<1>6. \A k \in 1 .. Len(f.tables) : (a \o Finish)[k] = step("parse_sdt", f.tables[k])
  BY <1>1, <1>2, <1>4
<1> QED
  BY <1>2, <1>3, <1>4, <1>5, <1>6, FinishIs, SMTT(30)

\* The agenda from its k-th step on.
LEMMA RestIs ==
  ASSUME NEW f \in Firmware, NEW k \in 0 .. Len(f.tables) + 3
  PROVE  /\ IsSeq(Rest(f, k))
         /\ k = Len(f.tables) + 3 => Rest(f, k) = <<>>
         /\ k # Len(f.tables) + 3 =>
              /\ Rest(f, k) # <<>> /\ Head(Rest(f, k)) = Agenda(f)[k + 1]
              /\ Tail(Rest(f, k)) = Rest(f, k + 1)
<1>1. Len(f.tables) \in Nat
  BY TablesAre
<1>2. PICK a : a = Agenda(f)
  OBVIOUS
<1>3. IsSeq(a) /\ Len(a) = Len(f.tables) + 3
  BY <1>2, AgendaIs
<1>4. PICK n \in Nat : n = Len(f.tables) + 3
  BY <1>1
<1>5. PICK S : a \in Seq(S)
  BY <1>3 DEF IsSeq
<1>6. Rest(f, k) = SubSeq(a, k + 1, n) /\ Len(a) = n /\ k \in 0 .. n
  BY <1>2, <1>3, <1>4 DEF Rest
<1>7. IsSeq(SubSeq(a, k + 1, n)) /\ Len(SubSeq(a, k + 1, n)) = n - k
  BY <1>3, <1>6, EndIs
<1>8. CASE k = n
  <2>1. SubSeq(a, k + 1, n) = <<>>
    BY <1>4, <1>8, SubSeqEmpty
  <2> QED
    BY <1>4, <1>6, <1>7, <1>8, <2>1
<1>9. CASE k # n
  <2>1. k + 1 \in 1 .. Len(a) /\ n \in k + 1 .. Len(a)
    BY <1>6, <1>9
  <2>2. /\ Head(SubSeq(a, k + 1, n)) = a[k + 1]
        /\ Tail(SubSeq(a, k + 1, n)) = SubSeq(a, (k + 1) + 1, n)
    BY <1>5, <2>1, HeadTailOfSubSeq
  <2>3. SubSeq(a, k + 1, n) # <<>>
    <3>1. Len(<<>>) = 0
      BY EmptySeq
    <3> QED
      BY <1>6, <1>7, <1>9, <3>1
  <2>4. Rest(f, k + 1) = SubSeq(a, (k + 1) + 1, n)
    BY <1>2, <1>4 DEF Rest
  <2> QED
    BY <1>2, <1>4, <1>6, <1>7, <1>9, <2>2, <2>3, <2>4
<1> QED
  BY <1>8, <1>9

\* The loop over the records of a table.
LEMMA LoopIs ==
  ASSUME NEW f \in Firmware, NEW k, IsMadt(f, k), NEW i
  PROVE  /\ k \in 1 .. Len(f.tables) /\ k \in 0 .. Len(f.tables) + 3
         /\ IsSeq(Rest(f, k)) /\ IsSeq(Loop(f, k, i)) /\ Loop(f, k, i) # <<>>
         /\ Head(Loop(f, k, i)) = [op |-> "madt_record", table |-> f.tables[k], i |-> i]
         /\ Tail(Loop(f, k, i)) = Rest(f, k)
<1>1. k \in 1 .. Len(f.tables) /\ k \in 0 .. Len(f.tables) + 3
  BY TablesAre DEF IsMadt
<1>2. IsSeq(Rest(f, k))
  BY <1>1, RestIs
<1> QED
  BY <1>1, <1>2, ConsIs DEF Loop

-----------------------------------------------------------------------------
(* What comes next at each point.                                          *)

\* The next step is the agenda's.
OnAgenda(f, t, io) ==
  \E k \in 0 .. Len(f.tables) + 2 :
    Checked(f, k) /\ (io <=> Seen(f, k + 1, 1)) /\ t = Rest(f, k)

AgendaOps == {"parse_sdt", "enable_interrupts", "serial_init", "ps2_init"}

\* The next step is the loop's over the records of a MADT.
OnLoop(f, t, io) ==
  \E k \in DOMAIN f.tables :
    /\ IsMadt(f, k) /\ Checked(f, k)
    /\ \E i \in 1 .. Len(f.tables[k].records) + 1 : t = Loop(f, k, i) /\ (io <=> Seen(f, k, i))

OnRecord(f, t, io) ==
  \E k \in DOMAIN f.tables :
    /\ IsMadt(f, k)
    /\ \E i \in 1 .. Len(f.tables[k].records) : Record(f, k, i, t, io)

RecordOps == {"ioapic_init_register", "ioapic_init_source_override", "ioapic_init_nmisource",
              "lapic_init_nmi"}

OnMode(f, t, io, base, x2apic) == \E k \in DOMAIN f.tables : Mode(f, k, t, io, base, x2apic)

Next1(f, t, io, base, x2apic) ==
  \/ Head(t).op = "acpi_parse_rsdp" /\ Start(t, io)
  \/ Head(t).op \in AgendaOps /\ OnAgenda(f, t, io)
  \/ Head(t).op = "acpi_parse_madt" /\ \E k \in DOMAIN f.tables : CallsMadt(f, k, t, io)
  \/ Head(t).op = "acpi_parse_fadt" /\ \E k \in DOMAIN f.tables : CallsFadt(f, k, t, io)
  \/ Head(t).op = "lapic_init_begin" /\ \E k \in DOMAIN f.tables : Begin(f, k, t, io)
  \/ Head(t).op \in RecordOps /\ OnRecord(f, t, io)
  \/ Head(t).op = "madt_record" /\ OnLoop(f, t, io)
  \/ Head(t).op \in LapicOps \cup Writes(f, io) /\ IsSeq(t) /\ Point(f, Tail(t), io)

\* Nothing is left to do at the start but main.
LEMMA StartNext ==
  ASSUME NEW f, NEW t, NEW io, NEW base, NEW x2apic, Start(t, io)
  PROVE  t # <<>> /\ Head(t).op = "acpi_parse_rsdp" /\ Tail(t) = Finish
<1>1. main = <<"acpi_parse_rsdp", "enable_interrupts", "serial_init", "ps2_init">>
  BY DEF main
<1>2. t = <<[op |-> "acpi_parse_rsdp"]>> \o Finish
  BY <1>1 DEF Start, Finish
<1>3. PICK u : u = Finish
  OBVIOUS
<1>4. IsSeq(u) /\ t = <<[op |-> "acpi_parse_rsdp"]>> \o u
  BY <1>2, <1>3, FinishIs
<1> QED
  BY <1>3, <1>4, ConsIs

LEMMA BetweenNext ==
  ASSUME NEW f \in Firmware, NEW t, NEW io, NEW base, NEW x2apic, t # <<>>,
         NEW k \in 0 .. Len(f.tables) + 3, Between(f, k, t, io)
  PROVE  Next1(f, t, io, base, x2apic)
<1> DEFINE ops == IF k > Len(f.tables) + 1 THEN Writes(f, io) ELSE {}
<1>1. Onto(t, Rest(f, k), ops) /\ Checked(f, k) /\ (io <=> Seen(f, k + 1, 1))
  BY DEF Between
<1>2. CASE t = Rest(f, k)
  <2>1. k \in 0 .. Len(f.tables) + 2 /\ Head(t) = Agenda(f)[k + 1]
    BY <1>2, RestIs, TablesAre
  <2>2. OnAgenda(f, t, io)
    BY <1>1, <1>2, <2>1 DEF OnAgenda
  <2>3. \/ k + 1 \in 1 .. Len(f.tables) \/ k + 1 = Len(f.tables) + 1
        \/ k + 1 = Len(f.tables) + 2 \/ k + 1 = Len(f.tables) + 3
    BY <2>1, TablesAre
  <2>4. Head(t).op \in AgendaOps
    <3>1. CASE k + 1 \in 1 .. Len(f.tables)
      <4>1. Head(t) = step("parse_sdt", f.tables[k + 1])
        BY <2>1, <3>1, AgendaIs
      <4> QED
        BY <4>1 DEF AgendaOps, step
    <3>2. CASE k + 1 = Len(f.tables) + 1
      <4>1. Head(t) = [op |-> "enable_interrupts"]
        BY <2>1, <3>2, AgendaIs
      <4> QED
        BY <4>1 DEF AgendaOps
    <3>3. CASE k + 1 = Len(f.tables) + 2
      <4>1. Head(t) = [op |-> "serial_init"]
        BY <2>1, <3>3, AgendaIs
      <4> QED
        BY <4>1 DEF AgendaOps
    <3>4. CASE k + 1 = Len(f.tables) + 3
      <4>1. Head(t) = [op |-> "ps2_init"]
        BY <2>1, <3>4, AgendaIs
      <4> QED
        BY <4>1 DEF AgendaOps
    <3> QED
      BY <2>3, <3>1, <3>2, <3>3, <3>4
  <2> QED
    BY <2>2, <2>4 DEF Next1
<1>3. CASE Head(t).op \in ops /\ Onto(Tail(t), Rest(f, k), ops)
  <2>1. Between(f, k, Tail(t), io)
    BY <1>1, <1>3 DEF Between
  <2>2. Point(f, Tail(t), io)
    BY <2>1 DEF Point
  <2>3. Head(t).op \in LapicOps \cup Writes(f, io)
    BY <1>3
  <2>4. IsSeq(t)
    BY <1>1 DEF Onto
  <2> QED
    BY <2>2, <2>3, <2>4 DEF Next1
<1> QED
  <2> HIDE DEF ops
  <2> QED
    BY <1>1, <1>2, <1>3, OntoStep

LEMMA ReadingNext ==
  ASSUME NEW f \in Firmware, NEW t, NEW io, NEW base, NEW x2apic,
         NEW k, IsMadt(f, k), NEW i \in 1 .. Len(f.tables[k].records) + 1,
         Reading(f, k, i, t, io)
  PROVE  t # <<>> /\ Next1(f, t, io, base, x2apic)
<1> DEFINE ops == LapicOps \cup Writes(f, io)
<1>1. Onto(t, Loop(f, k, i), ops) /\ Checked(f, k) /\ (io <=> Seen(f, k, i))
  BY DEF Reading
<1>2. k \in DOMAIN f.tables /\ k \in 0 .. Len(f.tables) + 3
  BY LoopIs DEF IsMadt
<1>3. CASE t = Loop(f, k, i)
  <2>1. t # <<>> /\ Head(t) = [op |-> "madt_record", table |-> f.tables[k], i |-> i]
    BY <1>3, LoopIs
  <2>2. OnLoop(f, t, io)
    BY <1>1, <1>2, <1>3 DEF OnLoop
  <2>3. Head(t).op = "madt_record"
    BY <2>1
  <2> QED
    BY <2>1, <2>2, <2>3 DEF Next1
<1>4. CASE t # <<>> /\ Head(t).op \in ops /\ Onto(Tail(t), Loop(f, k, i), ops)
  <2>1. Reading(f, k, i, Tail(t), io)
    BY <1>1, <1>4 DEF Reading
  <2>2. Point(f, Tail(t), io)
    BY <1>2, <2>1 DEF Point
  <2>3. IsSeq(t)
    BY <1>1 DEF Onto
  <2> QED
    BY <1>4, <2>2, <2>3 DEF Next1
<1> QED
  <2> HIDE DEF ops
  <2> QED
    BY <1>1, <1>3, <1>4, OntoStep

LEMMA RecordNext ==
  ASSUME NEW f \in Firmware, NEW t, NEW io, NEW base, NEW x2apic,
         NEW k, IsMadt(f, k), NEW i, Record(f, k, i, t, io)
  PROVE  t # <<>> /\ Next1(f, t, io, base, x2apic)
<1>1. /\ i \in 1 .. Len(f.tables[k].records) /\ f.tables[k].records[i].type \in 1 .. 4
      /\ t = <<step(Handler(f.tables[k].records[i].type), f.tables[k].records[i])>>
             \o Loop(f, k, i + 1)
  BY DEF Record
<1>2. IsSeq(Loop(f, k, i + 1)) /\ k \in DOMAIN f.tables
  BY LoopIs DEF IsMadt
<1>3. /\ t # <<>>
      /\ Head(t) = step(Handler(f.tables[k].records[i].type), f.tables[k].records[i])
  BY <1>1, <1>2, ConsIs
<1>4. Head(t).op \in RecordOps
  <2>1. PICK type : type = f.tables[k].records[i].type
    OBVIOUS
  <2>2. Head(t).op = Handler(type) /\ (type = 1 \/ type = 2 \/ type = 3 \/ type = 4)
    BY <1>1, <1>3, <2>1 DEF step
  <2> QED
    BY <2>2 DEF Handler, RecordOps
<1>5. OnRecord(f, t, io)
  BY <1>1, <1>2 DEF OnRecord
<1> QED
  BY <1>3, <1>4, <1>5 DEF Next1

\* Nothing but the next step decides where main is.
LEMMA PointNext ==
  ASSUME NEW f \in Firmware, NEW t, NEW io, NEW base, NEW x2apic, t # <<>>, Point(f, t, io)
  PROVE  Next1(f, t, io, base, x2apic)
<1>1. CASE Start(t, io)
  BY <1>1, StartNext DEF Next1
<1>2. ASSUME NEW k \in 0 .. Len(f.tables) + 3, Between(f, k, t, io)
      PROVE  Next1(f, t, io, base, x2apic)
  BY <1>2, BetweenNext
<1>3. ASSUME NEW k \in 0 .. Len(f.tables) + 3, CallsMadt(f, k, t, io)
      PROVE  Next1(f, t, io, base, x2apic)
  <2>1. k \in DOMAIN f.tables /\ IsSeq(Rest(f, k))
        /\ t = <<step("acpi_parse_madt", f.tables[k])>> \o Rest(f, k)
    BY <1>3, RestIs DEF CallsMadt, IsMadt
  <2>2. Head(t) = step("acpi_parse_madt", f.tables[k])
    BY <2>1, ConsIs
  <2>3. Head(t).op = "acpi_parse_madt"
    BY <2>2 DEF step
  <2> QED
    BY <1>3, <2>1, <2>3 DEF Next1
<1>4. ASSUME NEW k \in 0 .. Len(f.tables) + 3, CallsFadt(f, k, t, io)
      PROVE  Next1(f, t, io, base, x2apic)
  <2>1. k \in DOMAIN f.tables /\ IsSeq(Rest(f, k))
        /\ t = <<step("acpi_parse_fadt", f.tables[k])>> \o Rest(f, k)
    BY <1>4, RestIs DEF CallsFadt
  <2>2. Head(t) = step("acpi_parse_fadt", f.tables[k])
    BY <2>1, ConsIs
  <2>3. Head(t).op = "acpi_parse_fadt"
    BY <2>2 DEF step
  <2> QED
    BY <1>4, <2>1, <2>3 DEF Next1
<1>5. ASSUME NEW k \in 0 .. Len(f.tables) + 3, Begin(f, k, t, io)
      PROVE  Next1(f, t, io, base, x2apic)
  <2>1. k \in DOMAIN f.tables /\ Head(t).op = "lapic_init_begin"
    BY <1>5 DEF Begin, IsMadt
  <2> QED
    BY <1>5, <2>1 DEF Next1
<1>6. ASSUME NEW k \in 0 .. Len(f.tables) + 3, IsMadt(f, k),
             NEW i \in 1 .. Len(f.tables[k].records) + 1,
             Reading(f, k, i, t, io) \/ Record(f, k, i, t, io)
      PROVE  Next1(f, t, io, base, x2apic)
  BY <1>6, ReadingNext, RecordNext
<1> QED
  BY <1>1, <1>2, <1>3, <1>4, <1>5, <1>6 DEF Point

\* While the mode changes, the step that changes it comes next.
LEMMA ModeNext ==
  ASSUME NEW f, NEW k, NEW t, NEW io, NEW base, NEW x2apic, Mode(f, k, t, io, base, x2apic)
  PROVE  Head(t).op = "wrmsr_base"
BY DEF Mode, wrmsr_base

\* The step that comes next tells the points apart.
LEMMA Where ==
  ASSUME NEW f \in Firmware, NEW t, NEW io, NEW base, NEW x2apic, t # <<>>,
         Placed(f, t, io, base, x2apic)
  PROVE  \/ Head(t).op = "wrmsr_base" /\ OnMode(f, t, io, base, x2apic)
         \/ Next1(f, t, io, base, x2apic) /\ (x2apic => "EXTD" \in base)
<1>1. CASE Point(f, t, io) /\ (x2apic => "EXTD" \in base)
  BY <1>1, PointNext
<1>2. ASSUME NEW k \in DOMAIN f.tables, Mode(f, k, t, io, base, x2apic)
      PROVE  Head(t).op = "wrmsr_base" /\ OnMode(f, t, io, base, x2apic)
  BY <1>2, ModeNext DEF OnMode
<1> QED
  BY <1>1, <1>2 DEF Placed

-----------------------------------------------------------------------------
(* Lemmas about the records read.                                          *)

LEMMA SeenNone ==
  ASSUME NEW f \in Firmware
  PROVE  ~Seen(f, 1, 1)
<1> SUFFICES ASSUME NEW a \in DOMAIN f.tables, IsMadt(f, a),
                    NEW j \in DOMAIN f.tables[a].records, a < 1 \/ (a = 1 /\ j < 1)
             PROVE  FALSE
  BY DEF Seen
<1>1. a \in 1 .. Len(f.tables) /\ Len(f.tables) \in Nat
  BY TablesAre
<1>2. j \in 1 .. Len(f.tables[a].records) /\ Len(f.tables[a].records) \in Nat
  BY TablesAre
<1> QED
  BY <1>1, <1>2

\* A table that is no MADT, or all of one that is.
LEMMA SeenTable ==
  ASSUME NEW f \in Firmware, NEW k \in DOMAIN f.tables
  PROVE  /\ ~IsMadt(f, k) => (Seen(f, k + 1, 1) <=> Seen(f, k, 1))
         /\ IsMadt(f, k) =>
              (Seen(f, k + 1, 1) <=> Seen(f, k, Len(f.tables[k].records) + 1))
<1>1. k \in Nat
  BY TablesAre
<1>2. ASSUME NEW a \in DOMAIN f.tables, IsMadt(f, a),
             NEW j \in DOMAIN f.tables[a].records
      PROVE  /\ a \in Nat /\ j \in Nat /\ j >= 1 /\ j <= Len(f.tables[a].records)
             /\ Len(f.tables[a].records) \in Nat
  <2>1. /\ Len(f.tables[a].records) \in Nat
        /\ DOMAIN f.tables[a].records = 1 .. Len(f.tables[a].records)
    BY <1>2, TablesAre
  <2>2. DOMAIN f.tables = 1 .. Len(f.tables) /\ Len(f.tables) \in Nat
    BY TablesAre
  <2> QED
    BY <2>1, <2>2
<1>3. ASSUME ~IsMadt(f, k)
      PROVE  Seen(f, k + 1, 1) <=> Seen(f, k, 1)
  <2>1. ASSUME NEW a \in DOMAIN f.tables, IsMadt(f, a),
               NEW j \in DOMAIN f.tables[a].records
        PROVE  (a < k + 1 \/ (a = k + 1 /\ j < 1)) <=> (a < k \/ (a = k /\ j < 1))
    <3>1. a # k
      BY <1>3, <2>1
    <3> QED
      BY <1>1, <1>2, <2>1, <3>1
  <2> QED
    BY <2>1 DEF Seen
<1>4. ASSUME IsMadt(f, k)
      PROVE  Seen(f, k + 1, 1) <=> Seen(f, k, Len(f.tables[k].records) + 1)
  <2>1. ASSUME NEW a \in DOMAIN f.tables, IsMadt(f, a),
               NEW j \in DOMAIN f.tables[a].records
        PROVE  (a < k + 1 \/ (a = k + 1 /\ j < 1)) <=>
               (a < k \/ (a = k /\ j < Len(f.tables[k].records) + 1))
    <3>1. Len(f.tables[k].records) \in Nat
      BY <1>4, TablesAre
    <3> QED
      BY <1>1, <1>2, <2>1, <3>1
  <2> QED
    BY <2>1 DEF Seen
<1> QED
  BY <1>3, <1>4

\* One record.
LEMMA SeenRecord ==
  ASSUME NEW f \in Firmware, NEW k \in DOMAIN f.tables, IsMadt(f, k),
         NEW i \in 1 .. Len(f.tables[k].records)
  PROVE  /\ f.tables[k].records[i].type # 1 => (Seen(f, k, i + 1) <=> Seen(f, k, i))
         /\ f.tables[k].records[i].type = 1 => Seen(f, k, i + 1)
<1>1. k \in Nat /\ i \in Nat /\ i \in DOMAIN f.tables[k].records
  BY TablesAre
<1>2. ASSUME f.tables[k].records[i].type # 1
      PROVE  Seen(f, k, i + 1) <=> Seen(f, k, i)
  <2>1. ASSUME NEW a \in DOMAIN f.tables, IsMadt(f, a),
               NEW j \in DOMAIN f.tables[a].records, f.tables[a].records[j].type = 1
        PROVE  (a < k \/ (a = k /\ j < i + 1)) <=> (a < k \/ (a = k /\ j < i))
    <3>1. ~(a = k /\ j = i)
      BY <1>2, <2>1
    <3>2. DOMAIN f.tables[a].records = 1 .. Len(f.tables[a].records)
          /\ Len(f.tables[a].records) \in Nat
      BY <2>1, TablesAre
    <3>3. j \in Nat
      BY <3>2
    <3> QED
      BY <1>1, <3>1, <3>3
  <2> QED
    BY <2>1 DEF Seen
<1>3. ASSUME f.tables[k].records[i].type = 1
      PROVE  Seen(f, k, i + 1)
  <2>1. i < i + 1
    BY <1>1
  <2> QED
    BY <1>1, <1>3, <2>1 DEF Seen
<1> QED
  BY <1>2, <1>3

\* When all tables are read without an I/O APIC, there is none.
LEMMA NeverSeen ==
  ASSUME NEW f \in Firmware, NEW k \in Nat, k > Len(f.tables), ~Seen(f, k, 1)
  PROVE  Unlisted(f)
<1>1. ASSUME NEW a \in DOMAIN f.tables
      PROVE  a < k
  BY TablesAre
<1> QED
  BY <1>1 DEF Seen, Unlisted

\* An NMI source before the first I/O APIC.
LEMMA NotYetSeen ==
  ASSUME NEW f \in Firmware, NEW k \in DOMAIN f.tables, IsMadt(f, k),
         NEW i \in 1 .. Len(f.tables[k].records),
         f.tables[k].records[i].type = 3, ~Seen(f, k, i)
  PROVE  Unlisted(f)
<1>1. /\ Len(f.tables[k].records) \in Nat
      /\ DOMAIN f.tables[k].records = 1 .. Len(f.tables[k].records)
  BY TablesAre
<1>2. ASSUME NEW j \in 1 .. i
      PROVE  f.tables[k].records[j].type # 1
  <2>1. CASE j = i
    BY <2>1
  <2>2. CASE j # i
    <3>1. j < i /\ j \in DOMAIN f.tables[k].records
      BY <1>1, <2>2
    <3> QED
      BY <3>1 DEF Seen
  <2> QED
    BY <2>1, <2>2
<1> QED
  BY <1>1, <1>2 DEF Unlisted

-----------------------------------------------------------------------------
(* Reasons.                                                                *)

\* It has not stopped, "" while it runs.
Runs(p) == p = ""

\* While it runs, only the interrupt flag needs a reason.
LEMMA RunsReasoned ==
  ASSUME NEW f, NEW p, NEW flag, Runs(p), flag => AllAddUp(f)
  PROVE  Reasoned(f, p, flag)
BY Zenon DEF Runs, Reasoned

\* Every message with its reason.
LEMMA Reasons ==
  ASSUME NEW f, NEW flag, flag => AllAddUp(f)
  PROVE  /\ Reasoned(f, "I/O APIC has too few pins to cover all ISA IRQs", flag)
         /\ Reasoned(f, "PS/2 port faulty", flag)
         /\ (\E sum \in SumsOf(f) : sum % 256 # 0) => Reasoned(f, "Invalid SDT", flag)
         /\ TwoIoApics(f) => Reasoned(f, "Multiple I/O APICs not supported", flag)
         /\ (\E r \in RecordsOf(f, 1) : r.global_system_interrupt_base # 0) =>
              Reasoned(f, "Remapping the entire I/O APIC is not supported", flag)
         /\ (\E r \in RecordsOf(f, 2) : r.bus_source # 0) => Reasoned(f, "Unknown MADT Bus", flag)
         /\ StrangeRecord(f) => Reasoned(f, "Unknown MADT struct", flag)
         /\ NoPointer(f) => Reasoned(f, "#PF", flag)
<1>1. Reasoned(f, "I/O APIC has too few pins to cover all ISA IRQs", flag)
  BY Zenon DEF Reasoned
<1>8. Reasoned(f, "PS/2 port faulty", flag)
  BY Zenon DEF Reasoned
<1>2. (\E sum \in SumsOf(f) : sum % 256 # 0) => Reasoned(f, "Invalid SDT", flag)
  BY Zenon DEF Reasoned
<1>3. TwoIoApics(f) => Reasoned(f, "Multiple I/O APICs not supported", flag)
  BY Zenon DEF Reasoned
<1>4. (\E r \in RecordsOf(f, 1) : r.global_system_interrupt_base # 0) =>
        Reasoned(f, "Remapping the entire I/O APIC is not supported", flag)
  BY Zenon DEF Reasoned
<1>5. (\E r \in RecordsOf(f, 2) : r.bus_source # 0) => Reasoned(f, "Unknown MADT Bus", flag)
  BY Zenon DEF Reasoned
<1>6. StrangeRecord(f) => Reasoned(f, "Unknown MADT struct", flag)
  BY Zenon DEF Reasoned
<1>7. NoPointer(f) => Reasoned(f, "#PF", flag)
  BY Zenon DEF Reasoned
<1> QED
  BY Zenon, <1>1, <1>2, <1>3, <1>4, <1>5, <1>6, <1>7, <1>8

\* A message is not the silence of a machine that runs.
LEMMA Messages ==
  ASSUME NEW p,
         \/ p = "I/O APIC has too few pins to cover all ISA IRQs" \/ p = "Invalid SDT"
         \/ p = "Multiple I/O APICs not supported"
         \/ p = "Remapping the entire I/O APIC is not supported"
         \/ p = "Unknown MADT Bus" \/ p = "Unknown MADT struct" \/ p = "#PF"
         \/ p = "PS/2 port faulty"
  PROVE  ~Runs(p)
BY Zenon DEF Runs

\* Tables and records by position.
LEMMA Listed ==
  ASSUME NEW f, NEW k, IsMadt(f, k)
  PROVE  /\ f.tables[k] \in MadtsOf(f)
         /\ \A i \in DOMAIN f.tables[k].records :
              f.tables[k].records[i] \in RecordsOf(f, f.tables[k].records[i].type)
<1>1. f.tables[k] \in MadtsOf(f)
  BY DEF IsMadt, MadtsOf, InAnyOrder
<1>2. ASSUME NEW i \in DOMAIN f.tables[k].records
      PROVE  f.tables[k].records[i] \in RecordsOf(f, f.tables[k].records[i].type)
  <2>1. PICK r : r = f.tables[k].records[i]
    OBVIOUS
  <2>2. r \in InAnyOrder(f.tables[k].records)
    BY <2>1 DEF InAnyOrder
  <2>3. r \in UNION {InAnyOrder(table.records) : table \in MadtsOf(f)}
    BY <1>1, <2>2
  <2>4. r \in RecordsOf(f, r.type)
    BY <2>3 DEF RecordsOf
  <2> QED
    BY <2>1, <2>4, Zenon
<1> QED
  BY <1>1, <1>2

LEMMA UnlistedIs ==
  ASSUME NEW f, Unlisted(f)
  PROVE  NoPointer(f)
<1>1. CASE \A a \in DOMAIN f.tables : IsMadt(f, a) =>
             \A j \in DOMAIN f.tables[a].records : f.tables[a].records[j].type # 1
  <2>1. RecordsOf(f, 1) = {}
    <3> SUFFICES ASSUME NEW r \in RecordsOf(f, 1)
                 PROVE  FALSE
      OBVIOUS
    <3>1. r.type = 1 /\ r \in UNION {InAnyOrder(table.records) : table \in MadtsOf(f)}
      BY DEF RecordsOf
    <3>2. PICK table \in MadtsOf(f) : r \in InAnyOrder(table.records)
      BY <3>1
    <3>3. PICK a \in DOMAIN f.tables : table = f.tables[a] /\ IsMadt(f, a)
      BY DEF MadtsOf, InAnyOrder, IsMadt
    <3>4. PICK j \in DOMAIN table.records : r = table.records[j]
      BY <3>2 DEF InAnyOrder
    <3> QED
      BY <1>1, <3>1, <3>3, <3>4
  <2> QED
    BY <2>1 DEF NoPointer
<1>2. ASSUME NEW a \in DOMAIN f.tables, IsMadt(f, a),
             NEW i \in DOMAIN f.tables[a].records, f.tables[a].records[i].type = 3,
             \A j \in 1 .. i : f.tables[a].records[j].type # 1
      PROVE  NoPointer(f)
  BY <1>2, Listed DEF NoPointer
<1> QED
  BY <1>1, <1>2 DEF Unlisted

\* The descriptors and all tables add up.
LEMMA CheckedAll ==
  ASSUME NEW f \in Firmware, NEW k, Checked(f, k), k = Len(f.tables)
  PROVE  AllAddUp(f)
<1>1. \A a \in DOMAIN f.tables : a <= k
  BY TablesAre
<1> QED
  BY <1>1, ZenonT(40) DEF Checked, AllAddUp, SumsOf, InAnyOrder

\* Two I/O APICs: another record was seen before.
LEMMA SeenTwice ==
  ASSUME NEW f \in Firmware, NEW k \in DOMAIN f.tables, IsMadt(f, k),
         NEW i \in 1 .. Len(f.tables[k].records), f.tables[k].records[i].type = 1,
         Seen(f, k, i)
  PROVE  TwoIoApics(f)
<1>1. PICK a \in DOMAIN f.tables : /\ IsMadt(f, a)
        /\ \E j \in DOMAIN f.tables[a].records :
             f.tables[a].records[j].type = 1 /\ (a < k \/ (a = k /\ j < i))
  BY DEF Seen
<1>2. PICK j \in DOMAIN f.tables[a].records :
        f.tables[a].records[j].type = 1 /\ (a < k \/ (a = k /\ j < i))
  BY <1>1
<1>3. /\ DOMAIN f.tables = 1 .. Len(f.tables) /\ Len(f.tables) \in Nat
      /\ Len(f.tables[k].records) \in Nat
      /\ DOMAIN f.tables[k].records = 1 .. Len(f.tables[k].records)
  BY TablesAre
<1>4. ASSUME NEW n \in Nat, NEW T, T \subseteq 1 .. n, NEW x \in T, NEW y \in T, x # y
      PROVE  Cardinality(T) > 1
  <2>1. IsFiniteSet(1 .. n)
    BY FS_Interval
  <2>2. IsFiniteSet(T)
    BY <1>4, <2>1, FS_Subset
  <2>3. IsFiniteSet({x, y}) /\ Cardinality({x, y}) = 2
    <3>1. IsFiniteSet({x}) /\ Cardinality({x}) = 1
      BY FS_Singleton
    <3>2. {x, y} = {x} \cup {y} /\ y \notin {x}
      BY <1>4
    <3>3. PICK X : X = {x}
      OBVIOUS
    <3>4. IsFiniteSet(X \cup {y}) /\ Cardinality(X \cup {y}) = Cardinality(X) + 1
      BY <3>1, <3>2, <3>3, FS_AddElement
    <3>5. Cardinality(X) = 1
      BY <3>1, <3>3, Zenon
    <3>6. Cardinality(X \cup {y}) = 2
      BY <3>4, <3>5
    <3> QED
      BY <3>2, <3>3, <3>4, <3>6, Zenon
  <2>4. Cardinality({x, y}) <= Cardinality(T)
    <3>1. {x, y} \subseteq T
      BY <1>4
    <3> QED
      BY <2>2, <3>1, FS_Subset
  <2>5. Cardinality(T) \in Nat
    BY <2>2, FS_CardinalityType
  <2> QED
    BY <2>3, <2>4, <2>5
<1>5. CASE a # k
  <2> DEFINE T == {b \in DOMAIN f.tables : f.tables[b] \in MadtsOf(f)}
  <2>1. a \in T /\ k \in T /\ T \subseteq 1 .. Len(f.tables)
    BY <1>1, <1>3, Listed
  <2> HIDE DEF T
  <2>2. Cardinality(T) > 1
    BY <1>3, <1>4, <1>5, <2>1
  <2> QED
    BY <2>2, Zenon DEF TwoIoApics, T
<1>6. CASE a = k
  <2> DEFINE T == {b \in DOMAIN f.tables[k].records : f.tables[k].records[b].type = 1}
  <2>1. i \in T /\ j \in T /\ T \subseteq 1 .. Len(f.tables[k].records) /\ i # j
    BY <1>2, <1>3, <1>6
  <2> HIDE DEF T
  <2>2. Cardinality(T) > 1
    BY <1>3, <1>4, <2>1
  <2>3. f.tables[k] \in MadtsOf(f)
    BY Listed
  <2> QED
    BY <2>2, <2>3, Zenon DEF TwoIoApics, T
<1> QED
  BY <1>5, <1>6

-----------------------------------------------------------------------------
(* Lemmas about a step.                                                    *)

\* What the invariant says before a step.
LEMMA Here ==
  ASSUME IInv, NEW op, At(op)
  PROVE  /\ Runs(panic) /\ Typing /\ firmware \in Firmware
         /\ todo # <<>> /\ Head(todo).op = op
         /\ Placed(firmware, todo, IOAPIC_BASE, apic_base, HAS_X2APIC)
         /\ iflag => AllAddUp(firmware)
<1>1. Runs(panic) /\ todo # <<>> /\ Head(todo).op = op
  BY Zenon DEF At, Runs
<1>2. /\ Typing /\ Reasoned(firmware, panic, iflag)
      /\ Placed(firmware, todo, IOAPIC_BASE, apic_base, HAS_X2APIC)
  BY <1>1, Zenon DEF IInv, Runs
<1>3. iflag => AllAddUp(firmware)
  BY <1>2, Zenon DEF Reasoned
<1> QED
  BY <1>1, <1>2, <1>3 DEF Typing

\* The same, with the point main is at; nothing but a change of the mode is left out.
LEMMA HereNext ==
  ASSUME IInv, NEW op, At(op), op # "wrmsr_base"
  PROVE  /\ Next1(firmware, todo, IOAPIC_BASE, apic_base, HAS_X2APIC)
         /\ HAS_X2APIC => "EXTD" \in apic_base
  BY Here, Where

\* The machine goes on.
LEMMA Goes ==
  ASSUME Typing', Runs(panic), panic' = panic, firmware' = firmware,
         iflag' => AllAddUp(firmware),
         Placed(firmware, todo', IOAPIC_BASE', apic_base', HAS_X2APIC')
  PROVE  IInv'
<1>1. Reasoned(firmware, panic', iflag')
  <2>1. Runs(panic')
    BY Zenon
  <2> QED
    BY <2>1, RunsReasoned
<1> QED
  BY <1>1, Zenon DEF IInv

\* The machine stops.
LEMMA Stops ==
  ASSUME Typing', ~Runs(panic'), firmware' = firmware, Reasoned(firmware, panic', iflag')
  PROVE  IInv'
BY Zenon DEF IInv, Runs

\* The types of a step that leaves the machine, the modes and the table alone.
LEMMA TypingKept ==
  ASSUME Typing, UNCHANGED <<firmware, HAS_X2APIC, IOAPIC_BASE, iflag, apic_base, redir>>
  PROVE  Typing'
BY DEF Typing, Pins

\* A settled point.
LEMMA PlacedAt ==
  ASSUME NEW f, NEW t, NEW io, NEW base, NEW x2apic, Point(f, t, io),
         x2apic => "EXTD" \in base
  PROVE  Placed(f, t, io, base, x2apic)
BY DEF Placed

LEMMA PointBetween ==
  ASSUME NEW f \in Firmware, NEW k \in 0 .. Len(f.tables) + 3, NEW io, Checked(f, k),
         io <=> Seen(f, k + 1, 1)
  PROVE  Point(f, Rest(f, k), io)
<1> DEFINE ops == IF k > Len(f.tables) + 1 THEN Writes(f, io) ELSE {}
<1>1. IsSeq(Rest(f, k))
  BY RestIs
<1>2. Onto(Rest(f, k), Rest(f, k), ops)
  BY <1>1, OntoSelf
<1>3. Between(f, k, Rest(f, k), io)
  BY <1>2 DEF Between
<1> QED
  BY <1>3 DEF Point

LEMMA PointReading ==
  ASSUME NEW f \in Firmware, NEW k \in DOMAIN f.tables, NEW i, NEW t, NEW io,
         Reading(f, k, i, t, io)
  PROVE  Point(f, t, io)
<1>1. k \in 0 .. Len(f.tables) + 3 /\ IsMadt(f, k)
      /\ i \in 1 .. Len(f.tables[k].records) + 1
  BY TablesAre DEF Reading
<1> QED
  BY <1>1 DEF Point

\* A call of nothing.
LEMMA CallNothing ==
  ASSUME NEW t, IsSeq(t)
  PROVE  <<>> \o t = t
<1>1. PICK S : t \in Seq(S)
  BY DEF IsSeq
<1> QED
  BY <1>1, ConcatEmptySeq

LEMMA CatAssoc ==
  ASSUME NEW a, NEW b, NEW c, IsSeq(a), IsSeq(b), IsSeq(c)
  PROVE  (a \o b) \o c = a \o (b \o c)
<1> DEFINE A == {a[i] : i \in DOMAIN a}
           B == {b[i] : i \in DOMAIN b}
           C == {c[i] : i \in DOMAIN c}
<1>1. a \in Seq(A) /\ b \in Seq(B) /\ c \in Seq(C)
  BY DEF IsSeq
<1> HIDE DEF A, B, C
<1>2. A \subseteq A \cup B \cup C /\ B \subseteq A \cup B \cup C /\ C \subseteq A \cup B \cup C
  OBVIOUS
<1>3. PICK S : S = A \cup B \cup C
  OBVIOUS
<1>4. a \in Seq(S) /\ b \in Seq(S) /\ c \in Seq(S)
  BY <1>1, <1>2, <1>3, SeqMonotonic
<1> QED
  BY <1>4, ConcatAssociative

-----------------------------------------------------------------------------
(* The steps keep the invariant: the tables.                               *)

LEMMA RsdpStep ==
  ASSUME IInv, acpi_parse_rsdp
  PROVE  IInv'
<1>1. At("acpi_parse_rsdp") /\ UNCHANGED <<lapicVars, pic, ioapicVars, firmware, has_i8042, iflag>>
  BY Zenon DEF acpi_parse_rsdp
<1>2. PICK f \in Firmware : f = firmware
  BY <1>1, Here
<1> DEFINE Descriptors ==
      {f.rsdp, f.rsdp.root} \cup (IF f.rsdp.revision > 0 THEN {f.rsdp.xsdp} ELSE {})
<1>3. \/ (\E table \in Descriptors : ~validate(table)) /\ panic' = "Invalid SDT"
      \/ /\ \A table \in Descriptors : validate(table)
         /\ Call([i \in DOMAIN f.tables |-> step("parse_sdt", f.tables[i])])
  BY <1>2, Zenon DEF acpi_parse_rsdp, Panic
<1>4. Typing' /\ firmware' = f /\ iflag' = iflag /\ UNCHANGED <<IOAPIC_BASE, apic_base, HAS_X2APIC>>
      /\ firmware' = firmware
  <2>1. Typing
    BY <1>1, Here
  <2> QED
    BY <1>1, <1>2, <2>1, TypingKept DEF lapicVars, ioapicVars
<1>5. iflag' => AllAddUp(f)
  <2>1. iflag => AllAddUp(firmware)
    BY <1>1, Here
  <2> QED
    BY <1>2, <1>4, <2>1, Zenon
<1>6. CASE (\E table \in Descriptors : ~validate(table)) /\ panic' = "Invalid SDT"
  <2>1. \E sum \in SumsOf(f) : sum % 256 # 0
    <3>1. PICK table \in Descriptors : ~validate(table)
      BY <1>6, Zenon
    <3>2. table.sum % 256 # 0
      BY <3>1 DEF validate
    <3>3. table.sum \in SumsOf(f)
      BY <3>1 DEF SumsOf
    <3> QED
      BY <3>2, <3>3
  <2>2. Reasoned(f, panic', iflag') /\ ~Runs(panic')
    BY <1>5, <1>6, <2>1, Reasons, Messages, Zenon
  <2> QED
    BY <1>2, <1>4, <2>2, Stops, Zenon
<1>7. CASE (\A table \in Descriptors : validate(table))
           /\ Call([i \in DOMAIN f.tables |-> step("parse_sdt", f.tables[i])])
  <2>1. Start(todo, IOAPIC_BASE) /\ (HAS_X2APIC => "EXTD" \in apic_base)
        /\ Head(todo).op = "acpi_parse_rsdp"
    <3>1. /\ Next1(firmware, todo, IOAPIC_BASE, apic_base, HAS_X2APIC)
          /\ HAS_X2APIC => "EXTD" \in apic_base
      BY <1>1, HereNext
    <3>2. Head(todo).op = "acpi_parse_rsdp"
      BY <1>1, Here
    <3> QED
      BY <3>1, <3>2 DEF Next1, AgendaOps, RecordOps, LapicOps, PicOps, Writes
  <2>2. todo' = [i \in DOMAIN f.tables |-> step("parse_sdt", f.tables[i])] \o Finish
        /\ panic' = panic
    BY <1>7, <2>1, StartNext, Zenon DEF Call
  <2>3. todo' = Rest(f, 0)
    <3>1. todo' = Agenda(f)
      BY <2>2 DEF Agenda, Finish
    <3>2. Agenda(f) = Rest(f, 0)
      <4>1. PICK a : a = Agenda(f)
        OBVIOUS
      <4>2. PICK S : a \in Seq(S)
        BY <4>1, AgendaIs DEF IsSeq
      <4>3. SubSeq(a, 1, Len(a)) = a /\ Len(a) = Len(f.tables) + 3
        BY <4>1, <4>2, SubSeqFull, AgendaIs
      <4> QED
        BY <4>1, <4>3 DEF Rest
    <3> QED
      BY <3>1, <3>2
  <2>4. Checked(f, 0)
    <3>1. \A a \in DOMAIN f.tables : ~(a <= 0)
      BY TablesAre
    <3>2. \A table \in Descriptors : table.sum % 256 = 0
      BY <1>7, Zenon DEF validate
    <3> QED
      BY <3>1, <3>2 DEF Checked
  <2>5. Point(f, Rest(f, 0), IOAPIC_BASE')
    <3>1. IOAPIC_BASE' <=> Seen(f, 0 + 1, 1)
      BY <1>4, <2>1, SeenNone DEF Start
    <3>2. 0 \in 0 .. Len(f.tables) + 3
      BY TablesAre
    <3> QED
      BY <2>4, <3>1, <3>2, PointBetween
  <2>6. Placed(f, todo', IOAPIC_BASE', apic_base', HAS_X2APIC')
    BY <1>4, <2>1, <2>3, <2>5, PlacedAt
  <2>7. Runs(panic)
    BY <1>1, Here
  <2> QED
    BY <1>2, <1>4, <1>5, <2>2, <2>6, <2>7, Goes, Zenon
<1> QED
  BY <1>3, <1>6, <1>7, Zenon

\* The four kinds of steps on the agenda.
LEMMA AgendaAt ==
  ASSUME NEW f \in Firmware, NEW t, NEW io, OnAgenda(f, t, io)
  PROVE  \/ \E k \in 1 .. Len(f.tables) :
              /\ Checked(f, k - 1) /\ (io <=> Seen(f, k, 1))
              /\ Head(t) = step("parse_sdt", f.tables[k]) /\ Tail(t) = Rest(f, k)
         \/ /\ Checked(f, Len(f.tables)) /\ (io <=> Seen(f, Len(f.tables) + 1, 1))
            /\ Head(t) = [op |-> "enable_interrupts"] /\ Tail(t) = Rest(f, Len(f.tables) + 1)
         \/ /\ Checked(f, Len(f.tables) + 1) /\ (io <=> Seen(f, Len(f.tables) + 2, 1))
            /\ Head(t) = [op |-> "serial_init"] /\ Tail(t) = Rest(f, Len(f.tables) + 2)
         \/ /\ Checked(f, Len(f.tables) + 2) /\ (io <=> Seen(f, Len(f.tables) + 3, 1))
            /\ Head(t) = [op |-> "ps2_init"] /\ Tail(t) = Rest(f, Len(f.tables) + 3)
<1>1. PICK k \in 0 .. Len(f.tables) + 2 :
        Checked(f, k) /\ (io <=> Seen(f, k + 1, 1)) /\ t = Rest(f, k)
  BY DEF OnAgenda
<1>2. Len(f.tables) \in Nat
  BY TablesAre
<1>3. Head(t) = Agenda(f)[k + 1] /\ Tail(t) = Rest(f, k + 1)
  BY <1>1, <1>2, RestIs, SMTT(30)
<1>4. CASE k < Len(f.tables)
  <2>1. k + 1 \in 1 .. Len(f.tables) /\ (k + 1) - 1 = k
    BY <1>2, <1>4
  <2>2. Head(t) = step("parse_sdt", f.tables[k + 1])
    BY <1>3, <2>1, AgendaIs
  <2> QED
    BY <1>1, <1>3, <2>1, <2>2
<1>5. CASE k = Len(f.tables)
  BY <1>1, <1>3, <1>5, AgendaIs
<1>6. CASE k = Len(f.tables) + 1
  <2>1. k + 1 = Len(f.tables) + 2
    BY <1>2, <1>6
  <2> QED
    BY <1>1, <1>3, <1>6, <2>1, AgendaIs
<1>7. CASE k = Len(f.tables) + 2
  <2>1. k + 1 = Len(f.tables) + 3
    BY <1>2, <1>7
  <2> QED
    BY <1>1, <1>3, <1>7, <2>1, AgendaIs
<1> QED
  BY <1>2, <1>4, <1>5, <1>6, <1>7

\* The reason for the interrupt flag stays as long as the flag and the machine do.
LEMMA FlagKept ==
  ASSUME IInv, NEW op, At(op), UNCHANGED <<firmware, iflag>>
  PROVE  /\ iflag' => AllAddUp(firmware)
         /\ firmware' = firmware /\ iflag' = iflag
<1>1. iflag => AllAddUp(firmware)
  BY Here
<1> QED
  BY <1>1

LEMMA SdtStep ==
  ASSUME IInv, parse_sdt
  PROVE  IInv'
<1>1. At("parse_sdt") /\ UNCHANGED <<lapicVars, pic, ioapicVars, firmware, has_i8042, iflag>>
  BY Zenon DEF parse_sdt
<1>2. PICK f \in Firmware : f = firmware
  BY <1>1, Here
<1> DEFINE table == Head(todo).record
<1>3. \/ ~validate(table) /\ panic' = "Invalid SDT"
      \/ /\ validate(table)
         /\ Call(CASE table.signature = "APIC" -> <<step("acpi_parse_madt", table)>>
                   [] table.signature = "FACP" -> <<step("acpi_parse_fadt", table)>>
                   [] OTHER -> <<>>)
  BY <1>2, Zenon DEF parse_sdt, Panic, Step
<1>4. Typing' /\ UNCHANGED <<IOAPIC_BASE, apic_base, HAS_X2APIC>> /\ firmware' = firmware
      /\ (iflag' => AllAddUp(f))
  <2>1. Typing
    BY <1>1, Here
  <2>2. iflag' => AllAddUp(firmware)
    BY <1>1, FlagKept
  <2> QED
    BY <1>1, <1>2, <2>1, <2>2, TypingKept DEF lapicVars, ioapicVars
<1>5. PICK k \in 1 .. Len(f.tables) :
        /\ Checked(f, k - 1) /\ (IOAPIC_BASE <=> Seen(f, k, 1))
        /\ Head(todo) = step("parse_sdt", f.tables[k]) /\ Tail(todo) = Rest(f, k)
  <2>1. Head(todo).op = "parse_sdt"
    BY <1>1, Here
  <2>2. OnAgenda(f, todo, IOAPIC_BASE)
    <3>1. Next1(firmware, todo, IOAPIC_BASE, apic_base, HAS_X2APIC)
      BY <1>1, HereNext
    <3> QED
      BY <1>2, <2>1, <3>1 DEF Next1, AgendaOps, RecordOps, LapicOps, PicOps, Writes
  <2> QED
    BY <2>1, <2>2, AgendaAt
<1>6. HAS_X2APIC => "EXTD" \in apic_base
  BY <1>1, HereNext
<1>7. table = f.tables[k] /\ k \in DOMAIN f.tables /\ k \in Nat /\ k \in 0 .. Len(f.tables) + 3
      /\ IsSeq(Rest(f, k))
  <2>1. k \in DOMAIN f.tables /\ k \in Nat /\ k \in 0 .. Len(f.tables) + 3
    BY TablesAre
  <2> QED
    BY <1>5, <2>1, RestIs DEF step
<1>8. CASE ~validate(table) /\ panic' = "Invalid SDT"
  <2>1. \E sum \in SumsOf(f) : sum % 256 # 0
    <3>1. table.sum % 256 # 0
      BY <1>8, Zenon DEF validate
    <3>2. table.sum \in SumsOf(f)
      <4>1. f.tables[k] \in InAnyOrder(f.tables)
        BY <1>7 DEF InAnyOrder
      <4> QED
        BY <1>7, <4>1 DEF SumsOf
    <3> QED
      BY <3>1, <3>2
  <2>2. Reasoned(f, panic', iflag') /\ ~Runs(panic')
    BY <1>4, <1>8, <2>1, Reasons, Messages, Zenon
  <2> QED
    BY <1>2, <1>4, <2>2, Stops, Zenon
<1>9. CASE /\ validate(table)
           /\ Call(CASE table.signature = "APIC" -> <<step("acpi_parse_madt", table)>>
                     [] table.signature = "FACP" -> <<step("acpi_parse_fadt", table)>>
                     [] OTHER -> <<>>)
  <2>1. Checked(f, k)
    <3>1. f.tables[k].sum % 256 = 0
      BY <1>7, <1>9, Zenon DEF validate
    <3>2. \A a \in DOMAIN f.tables : a <= k => a <= k - 1 \/ a = k
      BY <1>7, TablesAre
    <3> QED
      BY <1>5, <3>1, <3>2 DEF Checked
  <2>2. Point(f, todo', IOAPIC_BASE')
    <3>1. CASE table.signature = "APIC"
      <4>1. IsMadt(f, k)
        BY <1>7, <3>1 DEF IsMadt
      <4>2. todo' = <<step("acpi_parse_madt", f.tables[k])>> \o Rest(f, k)
        BY <1>5, <1>7, <1>9, <3>1 DEF Call
      <4>3. IOAPIC_BASE' <=> Seen(f, k, 1)
        BY <1>4, <1>5
      <4>4. CallsMadt(f, k, todo', IOAPIC_BASE')
        BY <2>1, <4>1, <4>2, <4>3 DEF CallsMadt
      <4> QED
        BY <1>7, <4>4 DEF Point
    <3>2. CASE table.signature # "APIC"
      <4>1. ~IsMadt(f, k)
        BY <1>7, <3>2 DEF IsMadt
      <4>2. IOAPIC_BASE' <=> Seen(f, k + 1, 1)
        BY <1>4, <1>5, <1>7, <4>1, SeenTable
      <4>3. CASE table.signature = "FACP"
        <5>1. todo' = <<step("acpi_parse_fadt", f.tables[k])>> \o Rest(f, k)
          BY <1>5, <1>7, <1>9, <3>2, <4>3 DEF Call
        <5>2. CallsFadt(f, k, todo', IOAPIC_BASE')
          BY <1>7, <2>1, <4>2, <5>1 DEF CallsFadt
        <5> QED
          BY <1>7, <5>2 DEF Point
      <4>4. CASE table.signature # "FACP"
        <5>1. todo' = <<>> \o Rest(f, k)
          BY <1>5, <1>9, <3>2, <4>4 DEF Call
        <5>2. todo' = Rest(f, k)
          BY <1>7, <5>1, CallNothing
        <5> QED
          BY <1>7, <2>1, <4>2, <5>2, PointBetween
      <4> QED
        BY <4>3, <4>4
    <3> QED
      BY <3>1, <3>2
  <2>3. Placed(f, todo', IOAPIC_BASE', apic_base', HAS_X2APIC')
    BY <1>4, <1>6, <2>2, PlacedAt
  <2>4. Runs(panic) /\ panic' = panic
    BY <1>1, <1>9, Here, Zenon DEF Call
  <2> QED
    BY <1>2, <1>4, <2>3, <2>4, Goes, Zenon
<1> QED
  BY <1>3, <1>8, <1>9, Zenon

LEMMA FadtStep ==
  ASSUME IInv, acpi_parse_fadt
  PROVE  IInv'
<1>1. /\ At("acpi_parse_fadt") /\ Return
      /\ UNCHANGED <<lapicVars, pic, ioapicVars, firmware, iflag>>
  BY Zenon DEF acpi_parse_fadt
<1>2. PICK f \in Firmware : f = firmware
  BY <1>1, Here
<1>3. Typing' /\ UNCHANGED <<IOAPIC_BASE, apic_base, HAS_X2APIC>> /\ firmware' = firmware
      /\ (iflag' => AllAddUp(f))
  <2>1. Typing
    BY <1>1, Here
  <2>2. iflag' => AllAddUp(firmware)
    BY <1>1, FlagKept
  <2> QED
    BY <1>1, <1>2, <2>1, <2>2, TypingKept DEF lapicVars, ioapicVars
<1>4. PICK k \in DOMAIN f.tables : CallsFadt(f, k, todo, IOAPIC_BASE)
  <2>1. Head(todo).op = "acpi_parse_fadt"
    BY <1>1, Here
  <2>2. Next1(firmware, todo, IOAPIC_BASE, apic_base, HAS_X2APIC)
    BY <1>1, HereNext
  <2> QED
    BY <1>2, <2>1, <2>2 DEF Next1, AgendaOps, RecordOps, LapicOps, PicOps, Writes
<1>5. /\ HAS_X2APIC => "EXTD" \in apic_base
      /\ Runs(panic)
  BY <1>1, HereNext, Here
<1>6. k \in 0 .. Len(f.tables) + 3 /\ IsSeq(Rest(f, k))
  <2>1. k \in 0 .. Len(f.tables) + 3
    BY TablesAre
  <2> QED
    BY <2>1, RestIs
<1>7. todo' = Rest(f, k) /\ panic' = panic
  <2>1. Tail(todo) = Rest(f, k)
    BY <1>4, <1>6, ConsIs DEF CallsFadt
  <2> QED
    BY <1>1, <1>6, <2>1, CallNothing DEF Return, Call
<1>8. Point(f, todo', IOAPIC_BASE')
  BY <1>3, <1>4, <1>6, <1>7, PointBetween DEF CallsFadt
<1>9. Placed(f, todo', IOAPIC_BASE', apic_base', HAS_X2APIC')
  BY <1>3, <1>5, <1>8, PlacedAt
<1> QED
  BY <1>2, <1>3, <1>5, <1>7, <1>9, Goes, Zenon

\* A sequence of steps of the kinds ops.
AllOf(a, ops) == IsSeq(a) /\ \A j \in 1 .. Len(a) : a[j].op \in ops

LEMMA OntoAll ==
  ASSUME NEW a, NEW rest, NEW ops, AllOf(a, ops), IsSeq(rest)
  PROVE  IsSeq(a \o rest) /\ Onto(a \o rest, rest, ops)
<1>1. Onto(rest, rest, ops)
  BY OntoSelf
<1> QED
  BY <1>1, OntoCat, CatIs DEF AllOf

LEMMA AllOfCat ==
  ASSUME NEW a, NEW b, NEW ops, AllOf(a, ops), AllOf(b, ops)
  PROVE  AllOf(a \o b, ops)
<1>1. /\ IsSeq(a \o b) /\ Len(a \o b) = Len(a) + Len(b)
      /\ Len(a) \in Nat /\ Len(b) \in Nat
      /\ \A i \in 1 .. Len(a) + Len(b) :
           (a \o b)[i] = IF i <= Len(a) THEN a[i] ELSE b[i - Len(a)]
  BY CatIs DEF AllOf
<1>2. ASSUME NEW i \in 1 .. Len(a) + Len(b)
      PROVE  (a \o b)[i].op \in ops
  <2>1. CASE i <= Len(a)
    BY <1>1, <2>1 DEF AllOf
  <2>2. CASE ~(i <= Len(a))
    <3>1. i - Len(a) \in 1 .. Len(b)
      BY <1>1, <2>2
    <3> QED
      BY <1>1, <2>2, <3>1 DEF AllOf
  <2> QED
    BY <2>1, <2>2
<1> QED
  BY <1>1, <1>2 DEF AllOf

LEMMA AllOfNone ==
  ASSUME NEW ops
  PROVE  AllOf(<<>>, ops)
<1>1. PICK o : o = <<>>
  OBVIOUS
<1>2. o \in Seq({}) /\ Len(o) = 0
  BY <1>1, EmptySeq
<1>3. IsSeq(o) /\ \A j \in 1 .. Len(o) : o[j].op \in ops
  <2>1. IsSeq(o)
    BY <1>2, SeqIs
  <2>2. \A j \in 1 .. Len(o) : FALSE
    BY <1>2
  <2> QED
    BY <2>1, <2>2
<1> QED
  BY <1>1, <1>3 DEF AllOf

LEMMA AllOfOne ==
  ASSUME NEW x, NEW ops, x.op \in ops
  PROVE  AllOf(<<x>>, ops)
<1>1. PICK o : o = <<x>>
  OBVIOUS
<1>2. IsSeq(o) /\ Len(o) = 1 /\ o[1] = x
  BY <1>1, OneIs
<1>3. AllOf(o, ops)
  BY <1>2 DEF AllOf
<1> QED
  BY <1>1, <1>3

LEMMA PicsAre ==
  AllOf(legacy_pic_init_and_disable(32, 40), PicOps)
<1>1. PICK p : p = legacy_pic_init_and_disable(32, 40)
  OBVIOUS
<1> DEFINE S == [op : PicOps, chip : {"PIC1", "PIC2"}, value : {{4, 0}, 32, 40, 4, 2, 1, 255}]
<1>2. p \in Seq(S)
  BY <1>1 DEF legacy_pic_init_and_disable, command, data, PicOps
<1>3. IsSeq(p) /\ \A j \in 1 .. Len(p) : p[j].op \in PicOps
  <2>1. \A x \in S : x.op \in PicOps
    OBVIOUS
  <2> HIDE DEF S
  <2>2. \A j \in 1 .. Len(p) : p[j] \in S
    BY <1>2, ElementOfSeq
  <2> QED
    BY <1>2, <2>1, <2>2, SeqIs
<1> QED
  BY <1>1, <1>3 DEF AllOf

LEMMA MadtStep ==
  ASSUME IInv, acpi_parse_madt
  PROVE  IInv'
<1>1. /\ At("acpi_parse_madt")
      /\ UNCHANGED <<lapicVars, pic, ioapicVars, firmware, has_i8042, iflag>>
  BY Zenon DEF acpi_parse_madt
<1>2. PICK f \in Firmware : f = firmware
  BY <1>1, Here
<1>3. Typing' /\ UNCHANGED <<IOAPIC_BASE, apic_base, HAS_X2APIC>> /\ firmware' = firmware
      /\ (iflag' => AllAddUp(f))
  <2>1. Typing
    BY <1>1, Here
  <2>2. iflag' => AllAddUp(firmware)
    BY <1>1, FlagKept
  <2> QED
    BY <1>1, <1>2, <2>1, <2>2, TypingKept DEF lapicVars, ioapicVars
<1>4. PICK k \in DOMAIN f.tables : CallsMadt(f, k, todo, IOAPIC_BASE)
  <2>1. Head(todo).op = "acpi_parse_madt"
    BY <1>1, Here
  <2>2. Next1(firmware, todo, IOAPIC_BASE, apic_base, HAS_X2APIC)
    BY <1>1, HereNext
  <2> QED
    BY <1>2, <2>1, <2>2 DEF Next1, AgendaOps, RecordOps, LapicOps, PicOps, Writes
<1>5. /\ HAS_X2APIC => "EXTD" \in apic_base
      /\ Runs(panic)
  BY <1>1, HereNext, Here
<1>6. k \in 0 .. Len(f.tables) + 3 /\ IsSeq(Rest(f, k)) /\ IsMadt(f, k)
      /\ IsSeq(Loop(f, k, 1))
  <2>1. IsMadt(f, k)
    BY <1>4 DEF CallsMadt
  <2> QED
    BY <2>1, LoopIs
<1>7. Head(todo).record = f.tables[k] /\ Tail(todo) = Rest(f, k)
  BY <1>4, <1>6, ConsIs DEF CallsMadt, step
<1>8. PICK pics : /\ AllOf(pics, PicOps) /\ panic' = panic
        /\ todo' = (<<[op |-> "lapic_init_begin"]>> \o pics
                    \o <<[op |-> "madt_record", table |-> f.tables[k], i |-> 1]>>)
                   \o Rest(f, k)
  <2> DEFINE pics == IF f.tables[k].pcat_compat THEN legacy_pic_init_and_disable(32, 40) ELSE <<>>
  <2>1. AllOf(pics, PicOps)
    BY PicsAre, AllOfNone
  <2>2. /\ panic' = panic
        /\ todo' = (<<[op |-> "lapic_init_begin"]>> \o pics
                    \o <<[op |-> "madt_record", table |-> f.tables[k], i |-> 1]>>)
                   \o Rest(f, k)
    BY <1>7, Zenon DEF acpi_parse_madt, Call, Step
  <2> HIDE DEF pics
  <2> QED
    BY <2>1, <2>2
<1>9. Point(f, todo', IOAPIC_BASE')
  <2> DEFINE first == <<[op |-> "lapic_init_begin"]>>
             loop == <<[op |-> "madt_record", table |-> f.tables[k], i |-> 1]>>
  <2>1. IsSeq(first) /\ IsSeq(loop) /\ IsSeq(pics) /\ IsSeq(first \o pics)
    BY <1>8, OneIs, CatIs DEF AllOf
  <2>2. loop \o Rest(f, k) = Loop(f, k, 1)
    BY DEF Loop
  <2>3. todo' = (first \o pics \o loop) \o Rest(f, k)
    BY <1>8
  <2> HIDE DEF first, loop
  <2>4. todo' = first \o (pics \o Loop(f, k, 1))
    <3>1. todo' = (first \o pics) \o (loop \o Rest(f, k))
      BY <1>6, <2>1, <2>3, CatAssoc, SMTT(30)
    <3>2. todo' = (first \o pics) \o Loop(f, k, 1)
      BY <2>2, <3>1
    <3>3. IsSeq(first) /\ IsSeq(pics) /\ IsSeq(Loop(f, k, 1))
      BY <1>6, <2>1
    <3>4. (first \o pics) \o Loop(f, k, 1) = first \o (pics \o Loop(f, k, 1))
      BY <3>3, CatAssoc, SMTT(30)
    <3> QED
      BY <3>2, <3>4, Zenon
  <2>5. /\ IsSeq(pics \o Loop(f, k, 1))
        /\ Onto(pics \o Loop(f, k, 1), Loop(f, k, 1), PicOps)
    BY <1>6, <1>8, OntoAll
  <2>6. /\ todo' # <<>> /\ Head(todo') = [op |-> "lapic_init_begin"]
        /\ Tail(todo') = pics \o Loop(f, k, 1)
    BY <2>4, <2>5, ConsIs DEF first
  <2>7. Begin(f, k, todo', IOAPIC_BASE')
    BY <1>3, <1>4, <1>6, <2>5, <2>6 DEF Begin, CallsMadt
  <2> QED
    BY <1>6, <2>7 DEF Point
<1>10. Placed(f, todo', IOAPIC_BASE', apic_base', HAS_X2APIC')
  BY <1>3, <1>5, <1>9, PlacedAt
<1> QED
  BY <1>2, <1>3, <1>5, <1>8, <1>10, Goes, Zenon

\* The loop over the records.
LEMMA RecordStep ==
  ASSUME IInv, madt_record
  PROVE  IInv'
<1>1. /\ At("madt_record")
      /\ UNCHANGED <<lapicVars, pic, ioapicVars, firmware, has_i8042, iflag>>
  BY Zenon DEF madt_record
<1>2. PICK f \in Firmware : f = firmware
  BY <1>1, Here
<1>3. Typing' /\ UNCHANGED <<IOAPIC_BASE, apic_base, HAS_X2APIC>> /\ firmware' = firmware
      /\ (iflag' => AllAddUp(f))
  <2>1. Typing
    BY <1>1, Here
  <2>2. iflag' => AllAddUp(firmware)
    BY <1>1, FlagKept
  <2> QED
    BY <1>1, <1>2, <2>1, <2>2, TypingKept DEF lapicVars, ioapicVars
<1>a. PICK k \in DOMAIN f.tables :
        /\ IsMadt(f, k) /\ Checked(f, k)
        /\ \E i \in 1 .. Len(f.tables[k].records) + 1 :
             todo = Loop(f, k, i) /\ (IOAPIC_BASE <=> Seen(f, k, i))
  <2>1. Head(todo).op = "madt_record"
    BY <1>1, Here
  <2>2. Next1(firmware, todo, IOAPIC_BASE, apic_base, HAS_X2APIC)
    BY <1>1, HereNext
  <2>3. OnLoop(f, todo, IOAPIC_BASE)
    BY <1>2, <2>1, <2>2 DEF Next1, AgendaOps, RecordOps, LapicOps, PicOps, Writes
  <2> QED
    BY <2>3 DEF OnLoop
<1>b. PICK i \in 1 .. Len(f.tables[k].records) + 1 :
        todo = Loop(f, k, i) /\ (IOAPIC_BASE <=> Seen(f, k, i))
  BY <1>a
<1>4. /\ IsMadt(f, k) /\ Checked(f, k)
      /\ todo = Loop(f, k, i) /\ (IOAPIC_BASE <=> Seen(f, k, i))
  BY <1>a, <1>b
<1>5. /\ HAS_X2APIC => "EXTD" \in apic_base
      /\ Runs(panic)
  BY <1>1, HereNext, Here
<1>6. /\ k \in 0 .. Len(f.tables) + 3 /\ IsSeq(Rest(f, k)) /\ Tail(todo) = Rest(f, k)
      /\ Head(todo) = [op |-> "madt_record", table |-> f.tables[k], i |-> i]
      /\ Len(f.tables[k].records) \in Nat /\ i \in Nat
      /\ DOMAIN f.tables[k].records = 1 .. Len(f.tables[k].records)
      /\ IsSeq(Loop(f, k, i + 1))
  BY <1>4, LoopIs, TablesAre
<1> DEFINE record == f.tables[k].records[i]
           next == <<[op |-> "madt_record", table |-> f.tables[k], i |-> i + 1]>>
<1>7. /\ Head(todo).i = i /\ Head(todo).table = f.tables[k]
      /\ i <= Len(f.tables[k].records) =>
           <<[Head(todo) EXCEPT !.i = NextRecord(i, record)]>> = next
  <2>1. i <= Len(f.tables[k].records) => record.length = 1
    BY <1>4, <1>6, TablesAre
  <2> QED
    BY <1>6, <2>1 DEF NextRecord
<1>8. \/ i > Len(f.tables[k].records) /\ Call(<<>>)
      \/ i <= Len(f.tables[k].records) /\ record.type = 0 /\ Call(next)
      \/ /\ i <= Len(f.tables[k].records) /\ record.type \in 1 .. 4
         /\ Call(<<step(Handler(record.type), record)>> \o next)
      \/ /\ i <= Len(f.tables[k].records) /\ record.type \notin 0 .. 4
         /\ panic' = "Unknown MADT struct"
  <2> DEFINE n == Len(f.tables[k].records)
             again == <<[Head(todo) EXCEPT !.i = NextRecord(i, record)]>>
  <2>1. \/ i > n /\ Call(<<>>)
        \/ i <= n /\ record.type = 0 /\ Call(again)
        \/ i <= n /\ record.type = 1 /\ Call(<<step("ioapic_init_register", record)>> \o again)
        \/ i <= n /\ record.type = 2
           /\ Call(<<step("ioapic_init_source_override", record)>> \o again)
        \/ i <= n /\ record.type = 3 /\ Call(<<step("ioapic_init_nmisource", record)>> \o again)
        \/ i <= n /\ record.type = 4 /\ Call(<<step("lapic_init_nmi", record)>> \o again)
        \/ i <= n /\ record.type \notin 0 .. 4 /\ panic' = "Unknown MADT struct"
    BY <1>7, Zenon DEF madt_record, Step, Return, Panic
  <2>2. i <= n => again = next
    BY <1>7
  <2>3. /\ Handler(1) = "ioapic_init_register" /\ Handler(2) = "ioapic_init_source_override"
        /\ Handler(3) = "ioapic_init_nmisource" /\ Handler(4) = "lapic_init_nmi"
    BY DEF Handler
  <2>4. 1 \in 1 .. 4 /\ 2 \in 1 .. 4 /\ 3 \in 1 .. 4 /\ 4 \in 1 .. 4
    OBVIOUS
  <2> HIDE DEF n, again, next, record
  <2> QED
    BY <2>1, <2>2, <2>3, <2>4, Zenon DEF n
<1>9. CASE i <= Len(f.tables[k].records) /\ record.type \notin 0 .. 4
           /\ panic' = "Unknown MADT struct"
  <2>1. StrangeRecord(f)
    <3>1. f.tables[k] \in MadtsOf(f) /\ i \in DOMAIN f.tables[k].records
          /\ f.tables[k].records[i].type \notin 0 .. 4
      <4>1. i <= Len(f.tables[k].records) /\ record.type \notin 0 .. 4
        BY <1>9, Zenon
      <4> QED
        BY <1>4, <1>6, <4>1, Listed
    <3> QED
      BY <3>1, Zenon DEF StrangeRecord
  <2>2. Reasoned(f, panic', iflag') /\ ~Runs(panic')
    BY <1>3, <1>9, <2>1, Reasons, Messages, Zenon
  <2> QED
    BY <1>2, <1>3, <2>2, Stops, Zenon
<1>10. ASSUME Point(f, todo', IOAPIC_BASE'), panic' = panic
       PROVE  IInv'
  <2>1. Placed(f, todo', IOAPIC_BASE', apic_base', HAS_X2APIC')
    BY <1>3, <1>5, <1>10, PlacedAt
  <2> QED
    BY <1>2, <1>3, <1>5, <1>10, <2>1, Goes, Zenon
<1>11. CASE i > Len(f.tables[k].records) /\ Call(<<>>)
  <2>1. todo' = Rest(f, k) /\ panic' = panic
    BY <1>6, <1>11, CallNothing DEF Call
  <2>2. i = Len(f.tables[k].records) + 1
    BY <1>4, <1>6, <1>11
  <2>3. IOAPIC_BASE' <=> Seen(f, k + 1, 1)
    BY <1>3, <1>4, <2>2, SeenTable
  <2> QED
    BY <1>4, <1>6, <1>10, <2>1, <2>3, PointBetween
<1>12. CASE i <= Len(f.tables[k].records) /\ record.type = 0 /\ Call(next)
  <2>1. todo' = Loop(f, k, i + 1) /\ panic' = panic
    BY <1>6, <1>12 DEF Call, Loop
  <2>2. IOAPIC_BASE' <=> Seen(f, k, i + 1)
    <3>1. i \in 1 .. Len(f.tables[k].records)
      BY <1>6, <1>12, <1>4
    <3> QED
      BY <1>3, <1>4, <1>12, <3>1, SeenRecord
  <2>3. i + 1 \in 1 .. Len(f.tables[k].records) + 1
    BY <1>6, <1>12, <1>4
  <2> DEFINE ops == LapicOps \cup Writes(f, IOAPIC_BASE')
  <2>4. Onto(todo', Loop(f, k, i + 1), ops)
    BY <1>6, <2>1, OntoSelf
  <2>5. Reading(f, k, i + 1, todo', IOAPIC_BASE')
    BY <1>4, <2>2, <2>3, <2>4 DEF Reading
  <2> QED
    BY <1>10, <2>1, <2>5, PointReading
<1>13. CASE i <= Len(f.tables[k].records) /\ record.type \in 1 .. 4
            /\ Call(<<step(Handler(record.type), record)>> \o next)
  <2>1. panic' = panic
        /\ todo' = (<<step(Handler(record.type), record)>> \o next) \o Rest(f, k)
    BY <1>6, <1>13 DEF Call
  <2>2. todo' = <<step(Handler(record.type), record)>> \o Loop(f, k, i + 1)
    <3> DEFINE first == <<step(Handler(record.type), record)>>
    <3>1. IsSeq(first) /\ IsSeq(next)
      BY OneIs
    <3>2. next \o Rest(f, k) = Loop(f, k, i + 1)
      BY DEF Loop
    <3>3. todo' = (first \o next) \o Rest(f, k)
      BY <2>1
    <3> HIDE DEF first, next
    <3>4. IsSeq(first) /\ IsSeq(next) /\ IsSeq(Rest(f, k))
      BY <1>6, <3>1
    <3>5. (first \o next) \o Rest(f, k) = first \o (next \o Rest(f, k))
      BY <3>4, CatAssoc
    <3>6. todo' = first \o Loop(f, k, i + 1)
      BY <3>2, <3>3, <3>5, Zenon
    <3> QED
      BY <3>6 DEF first
  <2>3. Record(f, k, i, todo', IOAPIC_BASE')
    BY <1>3, <1>4, <1>6, <1>13, <2>2 DEF Record
  <2>4. Point(f, todo', IOAPIC_BASE')
    BY <1>4, <1>6, <2>3 DEF Point
  <2> QED
    BY <1>10, <2>1, <2>4
<1> QED
  BY <1>8, <1>9, <1>11, <1>12, <1>13, Zenon

-----------------------------------------------------------------------------
(* The steps keep the invariant: main.                                     *)

LEMMA EnableStep ==
  ASSUME IInv, enable_interrupts
  PROVE  IInv'
<1>1. /\ At("enable_interrupts") /\ Return /\ iflag' = TRUE
      /\ UNCHANGED <<lapicVars, pic, ioapicVars, firmware, has_i8042>>
  BY Zenon DEF enable_interrupts
<1>2. PICK f \in Firmware : f = firmware
  BY <1>1, Here
<1>3. Typing' /\ UNCHANGED <<IOAPIC_BASE, apic_base, HAS_X2APIC>> /\ firmware' = firmware
  <2>1. Typing
    BY <1>1, Here
  <2> QED
    BY <1>1, <2>1 DEF Typing, Pins, lapicVars, ioapicVars
<1>4. /\ Checked(f, Len(f.tables)) /\ (IOAPIC_BASE <=> Seen(f, Len(f.tables) + 1, 1))
      /\ Tail(todo) = Rest(f, Len(f.tables) + 1)
  <2>1. Head(todo).op = "enable_interrupts"
    BY <1>1, Here
  <2>2. OnAgenda(f, todo, IOAPIC_BASE)
    <3>1. Next1(firmware, todo, IOAPIC_BASE, apic_base, HAS_X2APIC)
      BY <1>1, HereNext
    <3> QED
      BY <1>2, <2>1, <3>1 DEF Next1, AgendaOps, RecordOps, LapicOps, PicOps, Writes
  <2> QED
    BY <2>1, <2>2, AgendaAt DEF step
<1>5. /\ HAS_X2APIC => "EXTD" \in apic_base
      /\ Runs(panic)
  BY <1>1, HereNext, Here
<1>6. AllAddUp(f)
  BY <1>4, CheckedAll
<1>7. PICK k : k = Len(f.tables) + 1
  OBVIOUS
<1>8. k \in 0 .. Len(f.tables) + 3 /\ IsSeq(Rest(f, k)) /\ Checked(f, k)
      /\ Len(f.tables) \in Nat
  <2>1. Len(f.tables) \in Nat /\ k \in 0 .. Len(f.tables) + 3
    BY <1>7, TablesAre
  <2>2. \A a \in DOMAIN f.tables : a <= Len(f.tables)
    BY <2>1, TablesAre
  <2>3. Checked(f, k)
    BY <1>4, <2>2 DEF Checked
  <2> QED
    BY <2>1, <2>3, RestIs
<1>9. IOAPIC_BASE' <=> Seen(f, k + 1, 1)
  <2>1. ASSUME NEW a \in DOMAIN f.tables
        PROVE  a < k /\ a < k + 1
    BY <1>7, <1>8, TablesAre
  <2>2. Seen(f, k + 1, 1) <=> Seen(f, k, 1)
    BY <2>1 DEF Seen
  <2> QED
    BY <1>3, <1>4, <1>7, <2>2
<1>10. todo' = Rest(f, k) /\ panic' = panic
  BY <1>1, <1>4, <1>7, <1>8, CallNothing DEF Return, Call
<1>11. Placed(f, todo', IOAPIC_BASE', apic_base', HAS_X2APIC')
  BY <1>3, <1>5, <1>8, <1>9, <1>10, PointBetween, PlacedAt
<1> QED
  BY <1>2, <1>3, <1>5, <1>6, <1>10, <1>11, Goes, Zenon

\* The pin of an interrupt of the ISA bus takes two writes.
LEMMA WritesAre ==
  ASSUME NEW reg, NEW value
  PROVE  AllOf(ioapic_write64(reg, value), {"ioapic_write32"})
<1> DEFINE a == ioapic_write32(reg, value)
           b == ioapic_write32(reg + 1, 0)
<1>1. a.op = "ioapic_write32" /\ b.op = "ioapic_write32"
  BY DEF ioapic_write32
<1>2. ioapic_write64(reg, value) = <<a, b>>
  BY Zenon DEF ioapic_write64
<1> HIDE DEF a, b
<1>3. PICK p : p = <<a, b>>
  OBVIOUS
<1>4. p \in Seq({a, b}) /\ Len(p) = 2 /\ p[1] = a /\ p[2] = b
  BY <1>3
<1>5. \A j \in 1 .. Len(p) : p[j].op \in {"ioapic_write32"}
  <2>1. \A j \in 1 .. 2 : j = 1 \/ j = 2
    OBVIOUS
  <2> QED
    BY <1>1, <1>4, <2>1
<1> QED
  BY <1>2, <1>3, <1>4, <1>5, SeqIs DEF AllOf

LEMMA IsaWritesAre ==
  ASSUME NEW irq
  PROVE  AllOf(ioapic_enable_isa_interrupt(irq), {"ioapic_write32"})
<1>1. \E reg, value : ioapic_enable_isa_interrupt(irq) = ioapic_write64(reg, value)
  BY Zenon DEF ioapic_enable_isa_interrupt
<1> QED
  BY <1>1, WritesAre

\* Past its last tables, main may write the I/O APIC that it has seen, and any
\* machine that lists none has a reason for the fault.
LEMMA DriverPoint ==
  ASSUME NEW f \in Firmware, NEW k \in 0 .. Len(f.tables) + 3, k > Len(f.tables) + 1,
         NEW io, NEW before \in Nat, before > Len(f.tables), io <=> Seen(f, before, 1),
         Checked(f, Len(f.tables) + 1),
         NEW body, AllOf(body, {"ioapic_write32"})
  PROVE  Point(f, body \o Rest(f, k), io) /\ IsSeq(Rest(f, k))
<1>1. k \in Nat /\ Len(f.tables) \in Nat
  BY TablesAre
<1>2. \A a \in DOMAIN f.tables : a < k + 1 /\ a < before /\ a <= Len(f.tables) + 1
  BY <1>1, TablesAre
<1>3. io <=> Seen(f, k + 1, 1)
  BY <1>2 DEF Seen
<1>4. Checked(f, k)
  BY <1>2 DEF Checked
<1>5. Writes(f, io) = {"ioapic_write32"}
  <2>1. io \/ Unlisted(f)
    BY NeverSeen
  <2> QED
    BY <2>1 DEF Writes
<1>6. IsSeq(Rest(f, k))
  BY RestIs
<1>7. Onto(body \o Rest(f, k), Rest(f, k), {"ioapic_write32"})
  BY <1>6, OntoAll
<1>8. Between(f, k, body \o Rest(f, k), io)
  BY <1>3, <1>4, <1>5, <1>7 DEF Between
<1> QED
  BY <1>6, <1>8 DEF Point

LEMMA SerialStep ==
  ASSUME IInv, serial_init
  PROVE  IInv'
<1>1. /\ At("serial_init") /\ Call(ioapic_enable_isa_interrupt(IRQ_COM1))
      /\ UNCHANGED <<lapicVars, pic, ioapicVars, firmware, has_i8042, iflag>>
  BY Zenon DEF serial_init
<1>2. PICK f \in Firmware : f = firmware
  BY <1>1, Here
<1>3. Typing' /\ UNCHANGED <<IOAPIC_BASE, apic_base, HAS_X2APIC>> /\ firmware' = firmware
      /\ (iflag' => AllAddUp(f))
  <2>1. Typing
    BY <1>1, Here
  <2>2. iflag' => AllAddUp(firmware)
    BY <1>1, FlagKept
  <2> QED
    BY <1>1, <1>2, <2>1, <2>2, TypingKept DEF lapicVars, ioapicVars
<1>4. /\ Checked(f, Len(f.tables) + 1) /\ (IOAPIC_BASE <=> Seen(f, Len(f.tables) + 2, 1))
      /\ Tail(todo) = Rest(f, Len(f.tables) + 2)
  <2>1. Head(todo).op = "serial_init"
    BY <1>1, Here
  <2>2. OnAgenda(f, todo, IOAPIC_BASE)
    <3>1. Next1(firmware, todo, IOAPIC_BASE, apic_base, HAS_X2APIC)
      BY <1>1, HereNext
    <3> QED
      BY <1>2, <2>1, <3>1 DEF Next1, AgendaOps, RecordOps, LapicOps, PicOps, Writes
  <2> QED
    BY <2>1, <2>2, AgendaAt DEF step
<1>5. /\ HAS_X2APIC => "EXTD" \in apic_base
      /\ Runs(panic)
  BY <1>1, HereNext, Here
<1>6. PICK body : /\ AllOf(body, {"ioapic_write32"}) /\ panic' = panic
                  /\ todo' = body \o Rest(f, Len(f.tables) + 2)
  BY <1>1, <1>4, IsaWritesAre DEF Call
<1>7. Point(f, todo', IOAPIC_BASE')
  <2>1. PICK k : k = Len(f.tables) + 2
    OBVIOUS
  <2>2. /\ k \in 0 .. Len(f.tables) + 3 /\ k > Len(f.tables) + 1
        /\ k \in Nat /\ k > Len(f.tables)
    BY <2>1, TablesAre
  <2>3. (IOAPIC_BASE' <=> Seen(f, k, 1)) /\ todo' = body \o Rest(f, k)
    BY <1>3, <1>4, <1>6, <2>1
  <2> QED
    BY <1>4, <1>6, <2>2, <2>3, DriverPoint
<1>8. Placed(f, todo', IOAPIC_BASE', apic_base', HAS_X2APIC')
  BY <1>3, <1>5, <1>7, PlacedAt
<1> QED
  BY <1>2, <1>3, <1>5, <1>6, <1>8, Goes, Zenon

LEMMA Ps2Step ==
  ASSUME IInv, ps2_init
  PROVE  IInv'
<1>1. /\ At("ps2_init")
      /\ UNCHANGED <<lapicVars, pic, ioapicVars, firmware, has_i8042, iflag>>
  BY Zenon DEF ps2_init
<1>2. PICK f \in Firmware : f = firmware
  BY <1>1, Here
<1>3. Typing' /\ UNCHANGED <<IOAPIC_BASE, apic_base, HAS_X2APIC>> /\ firmware' = firmware
      /\ (iflag' => AllAddUp(f))
  <2>1. Typing
    BY <1>1, Here
  <2>2. iflag' => AllAddUp(firmware)
    BY <1>1, FlagKept
  <2> QED
    BY <1>1, <1>2, <2>1, <2>2, TypingKept DEF lapicVars, ioapicVars
<1>4. /\ Checked(f, Len(f.tables) + 2) /\ (IOAPIC_BASE <=> Seen(f, Len(f.tables) + 3, 1))
      /\ Tail(todo) = Rest(f, Len(f.tables) + 3)
  <2>1. Head(todo).op = "ps2_init"
    BY <1>1, Here
  <2>2. OnAgenda(f, todo, IOAPIC_BASE)
    <3>1. Next1(firmware, todo, IOAPIC_BASE, apic_base, HAS_X2APIC)
      BY <1>1, HereNext
    <3> QED
      BY <1>2, <2>1, <3>1 DEF Next1, AgendaOps, RecordOps, LapicOps, PicOps, Writes
  <2> QED
    BY <2>1, <2>2, AgendaAt DEF step
<1>5. /\ HAS_X2APIC => "EXTD" \in apic_base
      /\ Runs(panic)
  BY <1>1, HereNext, Here
<1>6. CASE panic' = panic
  <2>1. PICK body : AllOf(body, {"ioapic_write32"}) /\ todo' = body \o Rest(f, Len(f.tables) + 3)
    <3> DEFINE kb == ioapic_enable_isa_interrupt(IRQ_KB)
               mouse == IF f.mouse THEN ioapic_enable_isa_interrupt(IRQ_MOUSE) ELSE <<>>
    <3>1. AllOf(kb, {"ioapic_write32"}) /\ AllOf(mouse, {"ioapic_write32"})
      BY IsaWritesAre, AllOfNone
    <3>2. \/ todo' = <<>> \o Rest(f, Len(f.tables) + 3)
          \/ todo' = (kb \o mouse) \o Rest(f, Len(f.tables) + 3)
      <4>1. ~Runs("PS/2 port faulty")
        BY Messages
      <4>2. panic' # "PS/2 port faulty"
        BY <1>5, <1>6, <4>1, Zenon
      <4> QED
        BY <1>2, <1>4, <4>2, Zenon DEF ps2_init, Call, Return, Panic
    <3> HIDE DEF kb, mouse
    <3> QED
      BY <3>1, <3>2, AllOfCat, AllOfNone
  <2>2. PICK k : k = Len(f.tables) + 3
    OBVIOUS
  <2>3. /\ k \in 0 .. Len(f.tables) + 3 /\ k > Len(f.tables) + 1
        /\ k \in Nat /\ k > Len(f.tables)
    BY <2>2, TablesAre
  <2>4. (IOAPIC_BASE' <=> Seen(f, k, 1)) /\ todo' = body \o Rest(f, k)
    BY <1>3, <1>4, <2>1, <2>2
  <2>5. Checked(f, Len(f.tables) + 1)
    <3>1. \A a \in DOMAIN f.tables : a <= Len(f.tables) + 2
      BY TablesAre
    <3> QED
      BY <1>4, <3>1 DEF Checked
  <2>6. Point(f, todo', IOAPIC_BASE')
    BY <2>1, <2>3, <2>4, <2>5, DriverPoint
  <2>7. Placed(f, todo', IOAPIC_BASE', apic_base', HAS_X2APIC')
    BY <1>3, <1>5, <2>6, PlacedAt
  <2> QED
    BY <1>2, <1>3, <1>5, <1>6, <2>7, Goes, Zenon
<1>7. CASE panic' = "PS/2 port faulty"
  <2>1. Reasoned(f, panic', iflag') /\ ~Runs(panic')
    BY <1>3, <1>7, Reasons, Messages, Zenon
  <2> QED
    BY <1>2, <1>3, <2>1, Stops, Zenon
<1>8. panic' = panic \/ panic' = "PS/2 port faulty"
  BY Zenon DEF ps2_init, Call, Return, Panic
<1> QED
  BY <1>6, <1>7, <1>8

-----------------------------------------------------------------------------
(* The steps keep the invariant: writes the hardware sees.                 *)

LEMMA HereWrite ==
  ASSUME IInv, NEW op, At(op),
         op \in {"lapic_write", "pic_command", "pic_data", "ioapic_write32"}
  PROVE  /\ Point(firmware, Tail(todo), IOAPIC_BASE) /\ IsSeq(Tail(todo))
         /\ HAS_X2APIC => "EXTD" \in apic_base
         /\ op = "ioapic_write32" => IOAPIC_BASE \/ Unlisted(firmware)
<1>1. /\ Next1(firmware, todo, IOAPIC_BASE, apic_base, HAS_X2APIC)
      /\ HAS_X2APIC => "EXTD" \in apic_base
  BY HereNext
<1>2. Head(todo).op = op /\ todo # <<>>
  BY Here
<1>3. /\ Head(todo).op \in LapicOps \cup Writes(firmware, IOAPIC_BASE)
      /\ IsSeq(todo) /\ Point(firmware, Tail(todo), IOAPIC_BASE)
  BY <1>1, <1>2 DEF Next1, AgendaOps, RecordOps
<1>4. IsSeq(Tail(todo))
  BY <1>2, <1>3, TailIs
<1> QED
  BY <1>1, <1>2, <1>3, <1>4 DEF LapicOps, PicOps, Writes

\* A write that is done leaves the rest of the steps.
LEMMA WriteDone ==
  ASSUME IInv, NEW op, At(op),
         op \in {"lapic_write", "pic_command", "pic_data", "ioapic_write32"},
         Return, Typing',
         UNCHANGED <<firmware, IOAPIC_BASE, apic_base, HAS_X2APIC, iflag>>
  PROVE  IInv'
<1>1. /\ Point(firmware, Tail(todo), IOAPIC_BASE) /\ IsSeq(Tail(todo))
      /\ HAS_X2APIC => "EXTD" \in apic_base
  BY HereWrite
<1>2. todo' = Tail(todo) /\ panic' = panic
  BY <1>1, CallNothing DEF Return, Call
<1>3. Placed(firmware, todo', IOAPIC_BASE', apic_base', HAS_X2APIC')
  BY <1>1, <1>2, PlacedAt
<1>4. (iflag' => AllAddUp(firmware)) /\ Runs(panic) /\ firmware' = firmware
  BY FlagKept, Here
<1> QED
  BY <1>2, <1>3, <1>4, Goes

LEMMA LapicWriteStep ==
  ASSUME IInv, do_lapic_write, UNCHANGED <<firmware, has_i8042, iflag>>
  PROVE  IInv'
<1>1. At("lapic_write") /\ UNCHANGED <<apic_base, HAS_X2APIC, pic, ioapicVars>>
  BY Zenon DEF do_lapic_write
<1>2. Typing'
  BY <1>1, Here, TypingKept DEF ioapicVars
<1>3. HAS_X2APIC => "EXTD" \in apic_base
  BY <1>1, HereWrite
<1>4. Return
  BY <1>3, Zenon DEF do_lapic_write
<1> QED
  BY <1>1, <1>2, <1>4, WriteDone DEF ioapicVars

LEMMA PicCommandStep ==
  ASSUME IInv, pic_command, UNCHANGED <<firmware, has_i8042, iflag>>
  PROVE  IInv'
<1>1. At("pic_command") /\ Return /\ UNCHANGED <<lapicVars, ioapicVars>>
  BY Zenon DEF pic_command
<1>2. Typing'
  BY <1>1, Here, TypingKept DEF lapicVars, ioapicVars
<1> QED
  BY <1>1, <1>2, WriteDone DEF lapicVars, ioapicVars

LEMMA PicDataStep ==
  ASSUME IInv, pic_data, UNCHANGED <<firmware, has_i8042, iflag>>
  PROVE  IInv'
<1>1. At("pic_data") /\ Return /\ UNCHANGED <<lapicVars, ioapicVars>>
  BY Zenon DEF pic_data
<1>2. Typing'
  BY <1>1, Here, TypingKept DEF lapicVars, ioapicVars
<1> QED
  BY <1>1, <1>2, WriteDone DEF lapicVars, ioapicVars

LEMMA IoapicWriteStep ==
  ASSUME IInv, do_ioapic_write32, UNCHANGED <<firmware, has_i8042, iflag>>
  PROVE  IInv'
<1>1. At("ioapic_write32") /\ UNCHANGED <<lapicVars, pic, IOAPIC_BASE, ISA_REDIRECTION_ENTRY>>
  BY Zenon DEF do_ioapic_write32
<1>2. Typing
  BY <1>1, Here
<1>3. CASE ~IOAPIC_BASE
  <2>1. panic' = "#PF" /\ UNCHANGED redir
    BY <1>3, Zenon DEF do_ioapic_write32, Panic
  <2>2. Typing' /\ firmware' = firmware
    BY <1>1, <1>2, <2>1, TypingKept DEF lapicVars
  <2>3. NoPointer(firmware)
    BY <1>1, <1>3, HereWrite, UnlistedIs
  <2>4. iflag' => AllAddUp(firmware)
    BY <1>1, FlagKept
  <2>5. Reasoned(firmware, panic', iflag') /\ ~Runs(panic')
    BY <2>1, <2>3, <2>4, Reasons, Messages, Zenon
  <2> QED
    BY <2>2, <2>5, Stops
<1>4. CASE IOAPIC_BASE
  <2>1. Return
    BY <1>4, Zenon DEF do_ioapic_write32
  <2>2. DOMAIN redir' = DOMAIN redir
    <3> DEFINE pin == (Step.reg - 16) \div 2
    <3>1. \/ redir' = redir
          \/ redir' = [redir EXCEPT ![pin].low = Step.value]
          \/ redir' = [redir EXCEPT ![pin].destination = Step.value]
      BY <1>4, Zenon DEF do_ioapic_write32
    <3> HIDE DEF pin
    <3> QED
      BY <3>1
  <2>3. Typing'
    BY <1>1, <1>2, <2>2 DEF Typing, Pins, lapicVars
  <2> QED
    BY <1>1, <2>1, <2>3, WriteDone DEF lapicVars
<1> QED
  BY <1>3, <1>4

-----------------------------------------------------------------------------
(* The steps keep the invariant: the mode of the local APIC.               *)

\* The seven registers that are written first.
FirstWrites ==
  <<lapic_write("TIMER", LAPIC_LVT_MASK), lapic_write("THERM", LAPIC_LVT_MASK),
    lapic_write("PERFC", LAPIC_LVT_MASK), lapic_write("LINT0", LAPIC_LVT_MASK),
    lapic_write("LINT1", LAPIC_LVT_MASK), lapic_write("ERROR", LAPIC_LVT_MASK),
    lapic_write("SPIV", LAPIC_SPIV_ENABLE \cup SpuriousVector)>>

LEMMA FirstWritesAre ==
  AllOf(FirstWrites, LapicOps)
<1> DEFINE S == {lapic_write(reg, value) : reg \in Lvts \cup {"SPIV"},
                   value \in {LAPIC_LVT_MASK, LAPIC_SPIV_ENABLE \cup SpuriousVector}}
<1>1. \A x \in S : x.op \in LapicOps
  BY DEF lapic_write, LapicOps
<1>2. FirstWrites \in Seq(S)
  BY DEF FirstWrites, Lvts
<1> HIDE DEF S
<1>3. \A j \in 1 .. Len(FirstWrites) : FirstWrites[j] \in S
  BY <1>2, ElementOfSeq
<1>4. IsSeq(FirstWrites)
  BY <1>2, SeqIs
<1> QED
  BY <1>1, <1>3, <1>4 DEF AllOf

LEMMA BeginStep ==
  ASSUME IInv, lapic_init_begin(firmware.x2apic), UNCHANGED <<firmware, has_i8042, iflag>>
  PROVE  IInv'
<1>1. /\ At("lapic_init_begin") /\ HAS_X2APIC' = firmware.x2apic
      /\ UNCHANGED <<apic_base, lapic, pic, ioapicVars>>
      /\ Call(ApicBaseWrites(firmware.x2apic) \o FirstWrites)
  BY Zenon DEF lapic_init_begin, FirstWrites
<1>2. PICK f \in Firmware : f = firmware
  BY <1>1, Here
<1>3. /\ Typing' /\ UNCHANGED <<IOAPIC_BASE, apic_base>> /\ firmware' = firmware
      /\ (iflag' => AllAddUp(f)) /\ HAS_X2APIC' = f.x2apic /\ f.x2apic \in BOOLEAN
      /\ apic_base \in {{}, {"EN"}, {"EN", "EXTD"}}
  <2>1. Typing /\ f.x2apic \in BOOLEAN
    BY <1>1, Here, FirmwareAssumption
  <2>2. iflag' => AllAddUp(firmware)
    BY <1>1, FlagKept
  <2> QED
    BY <1>1, <1>2, <2>1, <2>2 DEF Typing, Pins, ioapicVars
<1>4. PICK k \in DOMAIN f.tables : Begin(f, k, todo, IOAPIC_BASE)
  <2>1. Head(todo).op = "lapic_init_begin"
    BY <1>1, Here
  <2>2. Next1(firmware, todo, IOAPIC_BASE, apic_base, HAS_X2APIC)
    BY <1>1, HereNext
  <2> QED
    BY <1>2, <2>1, <2>2 DEF Next1, AgendaOps, RecordOps, LapicOps, PicOps, Writes
<1>5. Runs(panic) /\ panic' = panic
      /\ IsMadt(f, k) /\ Checked(f, k) /\ (IOAPIC_BASE' <=> Seen(f, k, 1))
      /\ Len(f.tables[k].records) \in Nat
  BY <1>1, <1>3, <1>4, Here, TablesAre DEF Begin, Call
<1>6. PICK w : w = FirstWrites \o Tail(todo)
  OBVIOUS
<1>7. Onto(w, Loop(f, k, 1), LapicOps) /\ IsSeq(w)
  <2>1. Onto(Tail(todo), Loop(f, k, 1), PicOps)
    BY <1>4 DEF Begin
  <2>2. Onto(Tail(todo), Loop(f, k, 1), LapicOps)
    BY <2>1, OntoMore DEF LapicOps
  <2>3. Onto(FirstWrites \o Tail(todo), Loop(f, k, 1), LapicOps)
    BY <2>2, FirstWritesAre, OntoCat DEF AllOf
  <2> QED
    BY <1>6, <2>3 DEF Onto
<1> DEFINE enable == IF "EN" \notin apic_base THEN <<wrmsr_base(apic_base \cup {"EN"})>> ELSE <<>>
           extend == IF f.x2apic /\ "EXTD" \notin apic_base
                     THEN <<wrmsr_base(apic_base \cup {"EN"} \cup {"EXTD"})>> ELSE <<>>
<1>8. IsSeq(enable) /\ IsSeq(extend)
  BY OneIs, AllOfNone DEF AllOf
<1>9. todo' = enable \o (extend \o w)
  <2>1. IsSeq(Tail(todo)) /\ IsSeq(FirstWrites)
    BY <1>4, FirstWritesAre DEF Begin, Onto, AllOf
  <2>2. ApicBaseWrites(f.x2apic) = enable \o extend
    BY Zenon DEF ApicBaseWrites
  <2>3. todo' = ((enable \o extend) \o FirstWrites) \o Tail(todo)
    BY <1>1, <1>2, <2>2, Zenon DEF Call
  <2> HIDE DEF enable, extend
  <2>4. IsSeq(enable \o extend)
    BY <1>8, CatIs
  <2>5. ((enable \o extend) \o FirstWrites) \o Tail(todo) = (enable \o extend) \o w
    <3>1. PICK e, u : e = enable \o extend /\ u = Tail(todo)
      OBVIOUS
    <3>2. IsSeq(e) /\ IsSeq(u) /\ IsSeq(FirstWrites)
      BY <2>1, <2>4, <3>1
    <3>3. (e \o FirstWrites) \o u = e \o (FirstWrites \o u)
      BY <3>2, CatAssoc, SMTT(30)
    <3> QED
      BY <1>6, <3>1, <3>3, Zenon
  <2>6. (enable \o extend) \o w = enable \o (extend \o w)
    BY <1>7, <1>8, CatAssoc
  <2> QED
    BY <2>3, <2>5, <2>6, Zenon
<1>10. Placed(f, todo', IOAPIC_BASE', apic_base', HAS_X2APIC')
  <2>1. CASE apic_base = {} /\ f.x2apic
    <3>1. enable = <<wrmsr_base({"EN"})>> /\ extend = <<wrmsr_base({"EN", "EXTD"})>>
      <4>1. apic_base \cup {"EN"} = {"EN"} /\ apic_base \cup {"EN"} \cup {"EXTD"} = {"EN", "EXTD"}
            /\ "EN" \notin apic_base /\ "EXTD" \notin apic_base
        BY <2>1
      <4> QED
        BY <2>1, <4>1
    <3>2. PICK v : v = extend \o w
      OBVIOUS
    <3>3. v # <<>> /\ Head(v) = wrmsr_base({"EN", "EXTD"}) /\ Tail(v) = w /\ IsSeq(v)
      BY <1>7, <3>1, <3>2, ConsIs
    <3>4. todo' = <<wrmsr_base({"EN"})>> \o v
      BY <1>9, <3>1, <3>2, Zenon
    <3>5. todo' # <<>> /\ Head(todo') = wrmsr_base({"EN"}) /\ Tail(todo') = v
      BY <3>3, <3>4, ConsIs
    <3>6. apic_base' = {}
      BY <1>3, <2>1
    <3>7. Mode(f, k, todo', IOAPIC_BASE', apic_base', HAS_X2APIC')
      <4> HIDE DEF enable, extend
      <4> QED
        BY <1>5, <1>7, <3>3, <3>5, <3>6 DEF Mode
    <3> QED
      BY <3>7 DEF Placed
  <2>2. CASE apic_base = {} /\ ~f.x2apic
    <3>1. enable = <<wrmsr_base({"EN"})>> /\ extend = <<>>
      <4>1. apic_base \cup {"EN"} = {"EN"} /\ "EN" \notin apic_base
        BY <2>2
      <4> QED
        BY <2>2, <4>1
    <3>2. extend \o w = w
      BY <1>7, <3>1, CallNothing
    <3>3. todo' = <<wrmsr_base({"EN"})>> \o w
      BY <1>9, <3>1, <3>2, Zenon
    <3>4. todo' # <<>> /\ Head(todo') = wrmsr_base({"EN"}) /\ Tail(todo') = w
      BY <1>7, <3>3, ConsIs
    <3>5. apic_base' = {} /\ ~HAS_X2APIC'
      BY <1>3, <2>2
    <3>6. Mode(f, k, todo', IOAPIC_BASE', apic_base', HAS_X2APIC')
      <4> HIDE DEF enable, extend
      <4> QED
        BY <1>5, <1>7, <3>4, <3>5 DEF Mode
    <3> QED
      BY <3>6 DEF Placed
  <2>3. CASE apic_base = {"EN"} /\ f.x2apic
    <3>1. enable = <<>> /\ extend = <<wrmsr_base({"EN", "EXTD"})>>
      <4>1. apic_base \cup {"EN"} \cup {"EXTD"} = {"EN", "EXTD"}
            /\ "EN" \in apic_base /\ "EXTD" \notin apic_base
        BY <2>3
      <4> QED
        BY <2>3, <4>1
    <3>2. PICK v : v = extend \o w
      OBVIOUS
    <3>3. v # <<>> /\ Head(v) = wrmsr_base({"EN", "EXTD"}) /\ Tail(v) = w /\ IsSeq(v)
      BY <1>7, <3>1, <3>2, ConsIs
    <3>4. todo' = v
      BY <1>9, <3>1, <3>2, <3>3, CallNothing
    <3>5. apic_base' = {"EN"}
      BY <1>3, <2>3
    <3>6. Mode(f, k, todo', IOAPIC_BASE', apic_base', HAS_X2APIC')
      <4> HIDE DEF enable, extend
      <4> QED
        BY <1>5, <1>7, <3>3, <3>4, <3>5 DEF Mode
    <3> QED
      BY <3>6 DEF Placed
  <2>4. CASE /\ "EN" \in apic_base /\ ~(f.x2apic /\ "EXTD" \notin apic_base)
    <3>1. enable = <<>> /\ extend = <<>>
      BY <2>4
    <3>2. todo' = w
      <4>1. extend \o w = w
        BY <1>7, <3>1, CallNothing
      <4>2. enable \o w = w
        BY <1>7, <3>1, CallNothing
      <4> QED
        BY <1>9, <4>1, <4>2, Zenon
    <3>3. Onto(w, Loop(f, k, 1), LapicOps \cup Writes(f, IOAPIC_BASE'))
      BY <1>7, OntoMore
    <3>4. Reading(f, k, 1, todo', IOAPIC_BASE')
      <4>1. 1 \in 1 .. Len(f.tables[k].records) + 1
        BY <1>5
      <4> QED
        BY <1>5, <3>2, <3>3, <4>1 DEF Reading
    <3>5. HAS_X2APIC' => "EXTD" \in apic_base'
      BY <1>3, <2>4
    <3> QED
      BY <3>4, <3>5, PointReading, PlacedAt
  <2>5. \/ apic_base = {} /\ f.x2apic
        \/ apic_base = {} /\ ~f.x2apic
        \/ apic_base = {"EN"} /\ f.x2apic
        \/ "EN" \in apic_base /\ ~(f.x2apic /\ "EXTD" \notin apic_base)
    <3>1. CASE apic_base = {}
      BY <3>1, Zenon
    <3>2. CASE apic_base = {"EN"}
      <4>1. "EN" \in apic_base
        BY <3>2
      <4> QED
        BY <3>2, <4>1, Zenon
    <3>3. CASE apic_base = {"EN", "EXTD"}
      BY <3>3
    <3> HIDE DEF enable, extend
    <3> QED
      BY <1>3, <3>1, <3>2, <3>3
  <2> QED
    BY <2>1, <2>2, <2>3, <2>4, <2>5
<1> QED
  <2> HIDE DEF enable, extend
  <2> QED
    BY <1>2, <1>3, <1>5, <1>10, Goes, Zenon

LEMMA WrmsrStep ==
  ASSUME IInv, do_wrmsr_base, UNCHANGED <<firmware, has_i8042, iflag>>
  PROVE  IInv'
<1>1. At("wrmsr_base") /\ UNCHANGED <<HAS_X2APIC, lapic, pic, ioapicVars>>
  BY Zenon DEF do_wrmsr_base
<1>2. PICK f \in Firmware : f = firmware
  BY <1>1, Here
<1>3. PICK k \in DOMAIN f.tables : Mode(f, k, todo, IOAPIC_BASE, apic_base, HAS_X2APIC)
  <2>1. Head(todo).op = "wrmsr_base"
    BY <1>1, Here
  <2>2. \/ OnMode(f, todo, IOAPIC_BASE, apic_base, HAS_X2APIC)
        \/ Next1(f, todo, IOAPIC_BASE, apic_base, HAS_X2APIC)
    BY <1>1, <1>2, Here, Where
  <2>3. OnMode(f, todo, IOAPIC_BASE, apic_base, HAS_X2APIC)
    BY <2>1, <2>2 DEF Next1, AgendaOps, RecordOps, LapicOps, PicOps, Writes
  <2> QED
    BY <2>3 DEF OnMode
<1>4. PICK v : Head(todo) = wrmsr_base(v) /\ <<apic_base, v>> \in ModeChange
  BY <1>3 DEF Mode, ModeChange
<1>5. apic_base' = v /\ Return
  <2>1. Head(todo).value = v
    BY <1>4 DEF wrmsr_base
  <2> QED
    BY <1>4, <2>1, Zenon DEF do_wrmsr_base, Step
<1>6. v \in {{}, {"EN"}, {"EN", "EXTD"}}
  BY <1>4 DEF ModeChange
<1>7. /\ Typing' /\ UNCHANGED <<IOAPIC_BASE, HAS_X2APIC>> /\ firmware' = firmware
      /\ (iflag' => AllAddUp(f)) /\ Runs(panic)
  <2>1. Typing /\ Runs(panic)
    BY <1>1, Here
  <2>2. iflag' => AllAddUp(firmware)
    BY <1>1, FlagKept
  <2> QED
    BY <1>1, <1>2, <1>5, <1>6, <2>1, <2>2 DEF Typing, Pins, ioapicVars
<1>8. /\ IsMadt(f, k) /\ Checked(f, k) /\ (IOAPIC_BASE' <=> Seen(f, k, 1))
      /\ Len(f.tables[k].records) \in Nat
      /\ IsSeq(Tail(todo))
  BY <1>3, <1>7, TablesAre DEF Mode, Onto
<1>9. todo' = Tail(todo) /\ panic' = panic
  BY <1>5, <1>8, CallNothing DEF Return, Call
<1>10. ASSUME Onto(Tail(todo), Loop(f, k, 1), LapicOps), HAS_X2APIC' => "EXTD" \in apic_base'
       PROVE  Placed(f, todo', IOAPIC_BASE', apic_base', HAS_X2APIC')
  <2>1. Onto(todo', Loop(f, k, 1), LapicOps \cup Writes(f, IOAPIC_BASE'))
    BY <1>9, <1>10, OntoMore
  <2>2. 1 \in 1 .. Len(f.tables[k].records) + 1
    BY <1>8
  <2>3. Reading(f, k, 1, todo', IOAPIC_BASE')
    BY <1>8, <2>1, <2>2 DEF Reading
  <2> QED
    BY <1>10, <2>3, PointReading, PlacedAt
<1>11. Placed(f, todo', IOAPIC_BASE', apic_base', HAS_X2APIC')
  <2>1. CASE /\ apic_base = {"EN"} /\ Head(todo) = wrmsr_base({"EN", "EXTD"})
             /\ Onto(Tail(todo), Loop(f, k, 1), LapicOps)
    <3>1. v = {"EN", "EXTD"}
      BY <1>4, <2>1 DEF wrmsr_base
    <3> QED
      BY <1>5, <1>10, <2>1, <3>1
  <2>2. CASE /\ apic_base = {} /\ ~HAS_X2APIC /\ Head(todo) = wrmsr_base({"EN"})
             /\ Onto(Tail(todo), Loop(f, k, 1), LapicOps)
    BY <1>7, <1>10, <2>2
  <2>3. CASE /\ apic_base = {} /\ Head(todo) = wrmsr_base({"EN"})
             /\ IsSeq(Tail(todo)) /\ Tail(todo) # <<>>
             /\ Head(Tail(todo)) = wrmsr_base({"EN", "EXTD"})
             /\ Onto(Tail(Tail(todo)), Loop(f, k, 1), LapicOps)
    <3>1. v = {"EN"}
      BY <1>4, <2>3 DEF wrmsr_base
    <3>2. Mode(f, k, todo', IOAPIC_BASE', apic_base', HAS_X2APIC')
      BY <1>5, <1>8, <1>9, <2>3, <3>1 DEF Mode
    <3> QED
      BY <3>2 DEF Placed
  <2> QED
    BY <1>3, <2>1, <2>2, <2>3 DEF Mode
<1> QED
  BY <1>2, <1>7, <1>9, <1>11, Goes, Zenon

-----------------------------------------------------------------------------
(* The steps keep the invariant: the records.                              *)

\* The record a handler is called for.
LEMMA HereRecord ==
  ASSUME IInv, NEW op \in RecordOps, At(op), NEW f \in Firmware, f = firmware
  PROVE  /\ HAS_X2APIC => "EXTD" \in apic_base
         /\ \E k \in DOMAIN f.tables : \E i \in 1 .. Len(f.tables[k].records) :
              /\ IsMadt(f, k) /\ Checked(f, k) /\ (IOAPIC_BASE <=> Seen(f, k, i))
              /\ f.tables[k].records[i].type \in 1 .. 4
              /\ Handler(f.tables[k].records[i].type) = op
              /\ Head(todo).record = f.tables[k].records[i]
              /\ Tail(todo) = Loop(f, k, i + 1)
<1>1. /\ Next1(firmware, todo, IOAPIC_BASE, apic_base, HAS_X2APIC)
      /\ HAS_X2APIC => "EXTD" \in apic_base
  BY HereNext DEF RecordOps
<1>2. Head(todo).op = op
  BY Here
<1>3. OnRecord(f, todo, IOAPIC_BASE)
  BY <1>1, <1>2 DEF Next1, AgendaOps, RecordOps, LapicOps, PicOps, Writes
<1>4. PICK k \in DOMAIN f.tables : /\ IsMadt(f, k)
        /\ \E i \in 1 .. Len(f.tables[k].records) : Record(f, k, i, todo, IOAPIC_BASE)
  BY <1>3 DEF OnRecord
<1>5. PICK i \in 1 .. Len(f.tables[k].records) : Record(f, k, i, todo, IOAPIC_BASE)
  BY <1>4
<1>6. IsSeq(Loop(f, k, i + 1))
  BY <1>4, LoopIs
<1> DEFINE record == f.tables[k].records[i]
<1>7. /\ Checked(f, k) /\ (IOAPIC_BASE <=> Seen(f, k, i)) /\ record.type \in 1 .. 4
      /\ todo = <<step(Handler(record.type), record)>> \o Loop(f, k, i + 1)
  BY <1>5 DEF Record
<1>8. Head(todo) = step(Handler(record.type), record) /\ Tail(todo) = Loop(f, k, i + 1)
  <2> HIDE DEF record
  <2> QED
    BY <1>6, <1>7, ConsIs
<1>9. Handler(record.type) = op /\ Head(todo).record = record
  BY <1>2, <1>8 DEF step
<1> QED
  BY <1>1, <1>4, <1>7, <1>8, <1>9

\* The four handlers have names of their own.
LEMMA HandlersDiffer ==
  ASSUME NEW type \in 1 .. 4
  PROVE  /\ Handler(type) = "ioapic_init_register" => type = 1
         /\ Handler(type) = "ioapic_init_source_override" => type = 2
         /\ Handler(type) = "ioapic_init_nmisource" => type = 3
         /\ Handler(type) = "lapic_init_nmi" => type = 4
<1>1. type = 1 \/ type = 2 \/ type = 3 \/ type = 4
  OBVIOUS
<1> QED
  BY <1>1 DEF Handler

\* A handler's writes come before the next record.
LEMMA RecordDone ==
  ASSUME NEW f \in Firmware, f = firmware, Typing', Runs(panic),
         UNCHANGED <<firmware, apic_base, HAS_X2APIC, iflag>>,
         iflag' => AllAddUp(f), HAS_X2APIC => "EXTD" \in apic_base,
         NEW k \in DOMAIN f.tables, IsMadt(f, k), Checked(f, k),
         NEW i \in 1 .. Len(f.tables[k].records),
         Tail(todo) = Loop(f, k, i + 1), IOAPIC_BASE' <=> Seen(f, k, i + 1),
         NEW body, AllOf(body, LapicOps \cup Writes(f, IOAPIC_BASE')), Call(body)
  PROVE  IInv'
<1>1. IsSeq(Loop(f, k, i + 1))
  BY LoopIs
<1>2. todo' = body \o Loop(f, k, i + 1) /\ panic' = panic
  BY DEF Call
<1>3. Onto(todo', Loop(f, k, i + 1), LapicOps \cup Writes(f, IOAPIC_BASE'))
  BY <1>1, <1>2, OntoAll
<1>4. i + 1 \in 1 .. Len(f.tables[k].records) + 1
  BY TablesAre
<1>5. Reading(f, k, i + 1, todo', IOAPIC_BASE')
  BY <1>3, <1>4 DEF Reading
<1>6. Placed(f, todo', IOAPIC_BASE', apic_base', HAS_X2APIC')
  BY <1>5, PointReading, PlacedAt
<1> QED
  BY <1>2, <1>6, Goes, Zenon

LEMMA LapicNmiStep ==
  ASSUME IInv, lapic_init_nmi, UNCHANGED <<firmware, has_i8042, iflag>>
  PROVE  IInv'
<1>1. At("lapic_init_nmi") /\ UNCHANGED <<lapicVars, pic, ioapicVars>>
  BY Zenon DEF lapic_init_nmi
<1>2. PICK f \in Firmware : f = firmware
  BY <1>1, Here
<1>3. "lapic_init_nmi" \in RecordOps
  BY DEF RecordOps
<1>4. PICK k \in DOMAIN f.tables : \E i \in 1 .. Len(f.tables[k].records) :
        /\ IsMadt(f, k) /\ Checked(f, k) /\ (IOAPIC_BASE <=> Seen(f, k, i))
        /\ f.tables[k].records[i].type \in 1 .. 4
        /\ Handler(f.tables[k].records[i].type) = "lapic_init_nmi"
        /\ Tail(todo) = Loop(f, k, i + 1)
  BY <1>1, <1>2, <1>3, HereRecord
<1>5. PICK i \in 1 .. Len(f.tables[k].records) :
        /\ IsMadt(f, k) /\ Checked(f, k) /\ (IOAPIC_BASE <=> Seen(f, k, i))
        /\ f.tables[k].records[i].type = 4
        /\ Tail(todo) = Loop(f, k, i + 1)
  BY <1>4, HandlersDiffer
<1>6. PICK body : AllOf(body, LapicOps \cup Writes(f, IOAPIC_BASE')) /\ Call(body)
  <2>1. PICK ops : ops = LapicOps \cup Writes(f, IOAPIC_BASE')
    OBVIOUS
  <2>2. \E reg, value : Call(<<lapic_write(reg, value)>>) \/ Call(<<>>)
    <3>1. CASE Step.record.processor_id \in {0, 255}
      <4> DEFINE r == Step.record
                 lint == IF r.lint # 0 THEN "LINT1" ELSE "LINT0"
                 lvt == LAPIC_LVT_DELIVERY_NMI
                        \cup (IF Low(r) THEN LAPIC_LVT_POLARITY ELSE {})
                        \cup (IF Level(r) THEN LAPIC_LVT_TRIGGER ELSE {})
      <4>1. Call(IF r.processor_id \in {0, 255} THEN <<lapic_write(lint, lvt)>> ELSE <<>>)
        BY Zenon DEF lapic_init_nmi
      <4> HIDE DEF lint, lvt
      <4>2. Call(<<lapic_write(lint, lvt)>>)
        BY <3>1, <4>1, Zenon
      <4> QED
        BY <4>2, Zenon
    <3>2. CASE Step.record.processor_id \notin {0, 255}
      <4>1. Call(<<>>)
        BY <3>2, Zenon DEF lapic_init_nmi
      <4> QED
        BY <4>1, Zenon
    <3> QED
      BY <3>1, <3>2, Zenon
  <2>3. PICK reg, value : Call(<<lapic_write(reg, value)>>) \/ Call(<<>>)
    BY <2>2
  <2>4. lapic_write(reg, value).op \in ops
    BY <2>1 DEF lapic_write, LapicOps
  <2>5. AllOf(<<lapic_write(reg, value)>>, ops) /\ AllOf(<<>>, ops)
    BY <2>4, AllOfOne, AllOfNone
  <2> QED
    BY <2>1, <2>3, <2>5
<1>7. IOAPIC_BASE' <=> Seen(f, k, i + 1)
  BY <1>1, <1>5, SeenRecord DEF ioapicVars
<1>8. /\ Typing' /\ Runs(panic) /\ UNCHANGED <<firmware, apic_base, HAS_X2APIC, iflag>>
      /\ (iflag' => AllAddUp(f)) /\ (HAS_X2APIC => "EXTD" \in apic_base)
  <2>1. Typing /\ Runs(panic) /\ (HAS_X2APIC => "EXTD" \in apic_base)
    BY <1>1, HereNext, Here
  <2>2. iflag' => AllAddUp(firmware)
    BY <1>1, FlagKept
  <2> QED
    BY <1>1, <1>2, <2>1, <2>2, TypingKept DEF lapicVars, ioapicVars
<1> QED
  BY <1>2, <1>5, <1>6, <1>7, <1>8, RecordDone

LEMMA OverrideStep ==
  ASSUME IInv, ioapic_init_source_override, UNCHANGED <<firmware, has_i8042, iflag>>
  PROVE  IInv'
<1>1. /\ At("ioapic_init_source_override")
      /\ UNCHANGED <<lapicVars, pic, IOAPIC_BASE, redir>>
  BY Zenon DEF ioapic_init_source_override
<1>2. PICK f \in Firmware : f = firmware
  BY <1>1, Here
<1>3. "ioapic_init_source_override" \in RecordOps
  BY DEF RecordOps
<1>4. PICK k \in DOMAIN f.tables : \E i \in 1 .. Len(f.tables[k].records) :
        /\ IsMadt(f, k) /\ Checked(f, k) /\ (IOAPIC_BASE <=> Seen(f, k, i))
        /\ f.tables[k].records[i].type \in 1 .. 4
        /\ Handler(f.tables[k].records[i].type) = "ioapic_init_source_override"
        /\ Head(todo).record = f.tables[k].records[i]
        /\ Tail(todo) = Loop(f, k, i + 1)
  BY <1>1, <1>2, <1>3, HereRecord
<1>5. PICK i \in 1 .. Len(f.tables[k].records) :
        /\ IsMadt(f, k) /\ Checked(f, k) /\ (IOAPIC_BASE <=> Seen(f, k, i))
        /\ f.tables[k].records[i].type = 2
        /\ Head(todo).record = f.tables[k].records[i]
        /\ Tail(todo) = Loop(f, k, i + 1)
  BY <1>4, HandlersDiffer
<1>6. /\ Typing' /\ Runs(panic) /\ UNCHANGED <<firmware, apic_base, HAS_X2APIC, iflag>>
      /\ (iflag' => AllAddUp(f)) /\ (HAS_X2APIC => "EXTD" \in apic_base)
      /\ firmware' = firmware
  <2>1. Typing /\ Runs(panic) /\ (HAS_X2APIC => "EXTD" \in apic_base)
    BY <1>1, HereNext, Here
  <2>2. iflag' => AllAddUp(firmware)
    BY <1>1, FlagKept
  <2> QED
    BY <1>1, <1>2, <2>1, <2>2, TypingKept DEF lapicVars
<1>7. CASE Head(todo).record.bus_source # 0
  <2>1. panic' = "Unknown MADT Bus"
    BY <1>7, Zenon DEF ioapic_init_source_override, Panic, Step
  <2>2. \E r \in RecordsOf(f, 2) : r.bus_source # 0
    <3>1. i \in DOMAIN f.tables[k].records
      BY <1>5, TablesAre
    <3>2. f.tables[k].records[i] \in RecordsOf(f, 2)
      BY <1>5, <3>1, Listed
    <3> QED
      BY <1>5, <1>7, <3>2
  <2>3. Reasoned(f, panic', iflag') /\ ~Runs(panic')
    BY <1>6, <2>1, <2>2, Reasons, Messages, Zenon
  <2> QED
    BY <1>2, <1>6, <2>3, Stops, Zenon
<1>8. CASE Head(todo).record.bus_source = 0
  <2>1. Call(<<>>)
    BY <1>8, Zenon DEF ioapic_init_source_override, Return, Step
  <2>2. AllOf(<<>>, LapicOps \cup Writes(f, IOAPIC_BASE'))
    BY AllOfNone
  <2>3. IOAPIC_BASE' <=> Seen(f, k, i + 1)
    BY <1>1, <1>5, SeenRecord
  <2> QED
    BY <1>2, <1>5, <1>6, <2>1, <2>2, <2>3, RecordDone
<1> QED
  BY <1>7, <1>8

LEMMA NmiSourceStep ==
  ASSUME IInv, ioapic_init_nmisource, UNCHANGED <<firmware, has_i8042, iflag>>
  PROVE  IInv'
<1>1. At("ioapic_init_nmisource") /\ UNCHANGED <<lapicVars, pic, ioapicVars>>
  BY Zenon DEF ioapic_init_nmisource
<1>2. PICK f \in Firmware : f = firmware
  BY <1>1, Here
<1>3. "ioapic_init_nmisource" \in RecordOps
  BY DEF RecordOps
<1>4. PICK k \in DOMAIN f.tables : \E i \in 1 .. Len(f.tables[k].records) :
        /\ IsMadt(f, k) /\ Checked(f, k) /\ (IOAPIC_BASE <=> Seen(f, k, i))
        /\ f.tables[k].records[i].type \in 1 .. 4
        /\ Handler(f.tables[k].records[i].type) = "ioapic_init_nmisource"
        /\ Tail(todo) = Loop(f, k, i + 1)
  BY <1>1, <1>2, <1>3, HereRecord
<1>5. PICK i \in 1 .. Len(f.tables[k].records) :
        /\ IsMadt(f, k) /\ Checked(f, k) /\ (IOAPIC_BASE <=> Seen(f, k, i))
        /\ f.tables[k].records[i].type = 3
        /\ Tail(todo) = Loop(f, k, i + 1)
  BY <1>4, HandlersDiffer
<1>6. PICK body : AllOf(body, {"ioapic_write32"}) /\ Call(body)
  <2>1. \E reg, value : Call(ioapic_write64(reg, value))
    BY Zenon DEF ioapic_init_nmisource
  <2> QED
    BY <2>1, WritesAre
<1>7. IOAPIC_BASE' = IOAPIC_BASE /\ (IOAPIC_BASE' <=> Seen(f, k, i + 1))
  BY <1>1, <1>5, SeenRecord DEF ioapicVars
<1>8. AllOf(body, LapicOps \cup Writes(f, IOAPIC_BASE'))
  <2>1. IOAPIC_BASE' \/ Unlisted(f)
    BY <1>5, <1>7, NotYetSeen
  <2>2. Writes(f, IOAPIC_BASE') = {"ioapic_write32"}
    BY <2>1 DEF Writes
  <2> QED
    BY <1>6, <2>2 DEF AllOf
<1>9. /\ Typing' /\ Runs(panic) /\ UNCHANGED <<firmware, apic_base, HAS_X2APIC, iflag>>
      /\ (iflag' => AllAddUp(f)) /\ (HAS_X2APIC => "EXTD" \in apic_base)
  <2>1. Typing /\ Runs(panic) /\ (HAS_X2APIC => "EXTD" \in apic_base)
    BY <1>1, HereNext, Here
  <2>2. iflag' => AllAddUp(firmware)
    BY <1>1, FlagKept
  <2> QED
    BY <1>1, <1>2, <2>1, <2>2, TypingKept DEF lapicVars, ioapicVars
<1> QED
  BY <1>2, <1>5, <1>6, <1>7, <1>8, <1>9, RecordDone

\* Two writes for every pin.
LEMMA DisableStepsAre ==
  ASSUME NEW count \in Nat
  PROVE  AllOf(DisableSteps(count), {"ioapic_write32"})
<1> DEFINE e(i) == ioapic_disable_interrupt((i - 1) \div 2)[1 + ((i - 1) % 2)]
           a == [i \in 1 .. 2 * count |-> e(i)]
<1>1. ASSUME NEW i \in 1 .. 2 * count
      PROVE  e(i).op = "ioapic_write32"
  <2>1. PICK j : j = 1 + ((i - 1) % 2)
    OBVIOUS
  <2>2. j = 1 \/ j = 2
    BY <2>1
  <2>3. \E reg, value : ioapic_disable_interrupt((i - 1) \div 2) = ioapic_write64(reg, value)
    BY Zenon DEF ioapic_disable_interrupt
  <2>4. PICK reg, value : ioapic_disable_interrupt((i - 1) \div 2) = ioapic_write64(reg, value)
    BY <2>3
  <2>5. PICK w : w = ioapic_write64(reg, value)
    OBVIOUS
  <2>6. AllOf(w, {"ioapic_write32"})
    BY <2>5, WritesAre
  <2>7. Len(w) = 2
    BY <2>5 DEF ioapic_write64
  <2>8. w[j].op = "ioapic_write32"
    BY <2>2, <2>6, <2>7 DEF AllOf
  <2>9. e(i) = w[j]
    BY <2>1, <2>4, <2>5, Zenon
  <2> QED
    BY <2>8, <2>9, Zenon
<1>2. DisableSteps(count) = a
  BY Zenon DEF DisableSteps
<1> HIDE DEF e
<1>3. 2 * count \in Nat
  OBVIOUS
<1>4. PICK n \in Nat : n = 2 * count
  BY <1>3
<1>5. a \in Seq({a[i] : i \in DOMAIN a}) /\ Len(a) = n /\ \A i \in 1 .. n : a[i] = e(i)
  BY <1>4
<1>6. IsSeq(a)
  BY <1>5 DEF IsSeq
<1>7. \A i \in 1 .. Len(a) : a[i].op \in {"ioapic_write32"}
  BY <1>1, <1>4, <1>5
<1> QED
  BY <1>2, <1>6, <1>7, Zenon DEF AllOf

LEMMA RegisterStep ==
  ASSUME IInv, ioapic_init_register, UNCHANGED <<firmware, has_i8042, iflag>>
  PROVE  IInv'
<1>1. /\ At("ioapic_init_register")
      /\ UNCHANGED <<lapicVars, pic, redir, ISA_REDIRECTION_ENTRY>>
  BY Zenon DEF ioapic_init_register
<1>2. PICK f \in Firmware : f = firmware
  BY <1>1, Here
<1>3. "ioapic_init_register" \in RecordOps
  BY DEF RecordOps
<1>4. PICK k \in DOMAIN f.tables : \E i \in 1 .. Len(f.tables[k].records) :
        /\ IsMadt(f, k) /\ Checked(f, k) /\ (IOAPIC_BASE <=> Seen(f, k, i))
        /\ f.tables[k].records[i].type \in 1 .. 4
        /\ Handler(f.tables[k].records[i].type) = "ioapic_init_register"
        /\ Head(todo).record = f.tables[k].records[i]
        /\ Tail(todo) = Loop(f, k, i + 1)
  BY <1>1, <1>2, <1>3, HereRecord
<1>5. PICK i \in 1 .. Len(f.tables[k].records) :
        /\ IsMadt(f, k) /\ Checked(f, k) /\ (IOAPIC_BASE <=> Seen(f, k, i))
        /\ f.tables[k].records[i].type = 1
        /\ Head(todo).record = f.tables[k].records[i]
        /\ Tail(todo) = Loop(f, k, i + 1)
  BY <1>4, HandlersDiffer
<1>6. Typing /\ Runs(panic) /\ (HAS_X2APIC => "EXTD" \in apic_base)
  BY <1>1, HereNext, Here
<1>7. /\ UNCHANGED <<firmware, apic_base, HAS_X2APIC, iflag>>
      /\ (iflag' => AllAddUp(f)) /\ firmware' = firmware
      /\ (IOAPIC_BASE' \in BOOLEAN => Typing')
  <2>1. iflag' => AllAddUp(firmware)
    BY <1>1, FlagKept
  <2>2. UNCHANGED <<firmware, apic_base, HAS_X2APIC, iflag, redir>>
    BY <1>1 DEF lapicVars
  <2> QED
    BY <1>2, <1>6, <2>1, <2>2 DEF Typing, Pins
<1>8. f.tables[k].records[i] \in RecordsOf(f, 1)
  <2>1. i \in DOMAIN f.tables[k].records
    BY <1>5, TablesAre
  <2> QED
    BY <1>5, <2>1, Listed
<1>9. LastPin = f.pins - 1 /\ f.pins \in Nat
  <2>1. f.pins \in Nat
    BY FirmwareAssumption
  <2>2. Pins = 0 .. f.pins - 1
    BY <1>2, <1>6 DEF Typing
  <2>3. Cardinality(0 .. f.pins - 1) = f.pins
    <3>1. 0 \in Int /\ f.pins - 1 \in Int
      BY <2>1
    <3>2. Cardinality(0 .. f.pins - 1) =
            IF 0 > f.pins - 1 THEN 0 ELSE (f.pins - 1) - 0 + 1
      BY <3>1, FS_Interval
    <3> QED
      BY <2>1, <3>2
  <2> QED
    BY <2>1, <2>2, <2>3 DEF LastPin
<1>10. CASE IOAPIC_BASE
  <2>1. panic' = "Multiple I/O APICs not supported" /\ UNCHANGED IOAPIC_BASE
    BY <1>10, Zenon DEF ioapic_init_register, Panic
  <2>2. TwoIoApics(f)
    BY <1>5, <1>10, SeenTwice
  <2>3. Reasoned(f, panic', iflag') /\ ~Runs(panic')
    BY <1>7, <2>1, <2>2, Reasons, Messages, Zenon
  <2>4. UNCHANGED IOAPIC_BASE
    BY <2>1, Zenon
  <2>5. Typing'
    BY <1>6, <1>7, <2>4 DEF Typing
  <2> QED
    BY <1>2, <1>7, <2>3, <2>5, Stops, Zenon
<1>11. CASE ~IOAPIC_BASE /\ Head(todo).record.global_system_interrupt_base # 0
  <2>1. panic' = "Remapping the entire I/O APIC is not supported" /\ UNCHANGED IOAPIC_BASE
    BY <1>11, Zenon DEF ioapic_init_register, Panic, Step
  <2>2. \E r \in RecordsOf(f, 1) : r.global_system_interrupt_base # 0
    BY <1>5, <1>8, <1>11
  <2>3. Reasoned(f, panic', iflag') /\ ~Runs(panic')
    BY <1>7, <2>1, <2>2, Reasons, Messages, Zenon
  <2>4. UNCHANGED IOAPIC_BASE
    BY <2>1, Zenon
  <2>5. Typing'
    BY <1>6, <1>7, <2>4 DEF Typing
  <2> QED
    BY <1>2, <1>7, <2>3, <2>5, Stops, Zenon
<1>12. CASE ~IOAPIC_BASE /\ Head(todo).record.global_system_interrupt_base = 0
  <2>1. IOAPIC_BASE' = TRUE
    BY <1>12, Zenon DEF ioapic_init_register, Step
  <2>2. Typing'
    BY <1>7, <2>1
  <2>3. CASE LastPin < ISA
    <3>1. panic' = "I/O APIC has too few pins to cover all ISA IRQs"
      BY <1>12, <2>3, Zenon DEF ioapic_init_register, Panic, Step
    <3>3. Reasoned(f, panic', iflag') /\ ~Runs(panic')
      BY <1>7, <3>1, Reasons, Messages, Zenon
    <3> QED
      BY <1>2, <1>7, <2>2, <3>3, Stops, Zenon
  <2>4. CASE ~(LastPin < ISA)
    <3>1. Call(DisableSteps(LastPin))
      BY <1>12, <2>4, Zenon DEF ioapic_init_register, Step
    <3>2. LastPin \in Nat
      BY <1>9, <2>4, IsaAssumption
    <3>3. PICK body : body = DisableSteps(LastPin)
      OBVIOUS
    <3>4. AllOf(body, {"ioapic_write32"}) /\ Call(body)
      BY <3>1, <3>2, <3>3, DisableStepsAre
    <3>5. Writes(f, IOAPIC_BASE') = {"ioapic_write32"}
      BY <2>1 DEF Writes
    <3>6. AllOf(body, LapicOps \cup Writes(f, IOAPIC_BASE'))
      BY <3>4, <3>5 DEF AllOf
    <3>7. IOAPIC_BASE' <=> Seen(f, k, i + 1)
      BY <1>5, <2>1, SeenRecord
    <3> QED
      BY <1>2, <1>5, <1>6, <1>7, <2>2, <3>4, <3>6, <3>7, RecordDone
  <2> QED
    BY <2>3, <2>4
<1> QED
  BY <1>10, <1>11, <1>12

-----------------------------------------------------------------------------
(* Theorems.                                                               *)

LEMMA InitIInv ==
  ASSUME Init
  PROVE  IInv
<1>1. /\ firmware \in Firmware /\ Runs(panic) /\ apic_base = firmware.apic_base
      /\ HAS_X2APIC = FALSE /\ IOAPIC_BASE = FALSE /\ iflag = FALSE
      /\ todo = [i \in DOMAIN main |-> [op |-> main[i]]]
      /\ DOMAIN redir = 0 .. firmware.pins - 1
  BY Zenon DEF Init, Runs
<1>2. Typing
  BY <1>1, FirmwareAssumption DEF Typing, Pins
<1>3. Placed(firmware, todo, IOAPIC_BASE, apic_base, HAS_X2APIC)
  BY <1>1 DEF Placed, Point, Start
<1>4. Reasoned(firmware, panic, iflag)
  BY <1>1, RunsReasoned, Zenon
<1> QED
  BY <1>2, <1>3, <1>4, Zenon DEF IInv

LEMMA StutterIInv ==
  ASSUME IInv, UNCHANGED acpiVars
  PROVE  IInv'
<1>1. /\ UNCHANGED <<firmware, todo, panic, IOAPIC_BASE, apic_base, HAS_X2APIC, iflag, redir>>
      /\ firmware' = firmware /\ todo' = todo /\ panic' = panic /\ IOAPIC_BASE' = IOAPIC_BASE
      /\ apic_base' = apic_base /\ HAS_X2APIC' = HAS_X2APIC /\ iflag' = iflag
  BY DEF acpiVars, apicVars, lapicVars, ioapicVars
<1>2. Typing'
  <2>1. Typing
    BY Zenon DEF IInv
  <2> QED
    BY <1>1, <2>1, TypingKept
<1>3. Reasoned(firmware', panic', iflag')
  BY <1>1, Zenon DEF IInv
<1> QED
  BY <1>1, <1>2, <1>3, Zenon DEF IInv

\* Wherever main is, what is left to do says how far the tables have been read: the
\* I/O APIC has its pointer exactly when one has been, every table read adds up, and
\* the mode of the local APIC fits the way its registers are written.
THEOREM Inductive ==
  Spec => []IInv
<1>1. Init => IInv
  BY InitIInv
<1>2. IInv /\ [Next]_acpiVars => IInv'
  <2> SUFFICES ASSUME IInv, [Next]_acpiVars
               PROVE  IInv'
    OBVIOUS
  <2>1. CASE acpi_parse_rsdp
    BY <2>1, RsdpStep
  <2>2. CASE parse_sdt
    BY <2>2, SdtStep
  <2>3. CASE acpi_parse_fadt
    BY <2>3, FadtStep
  <2>4. CASE acpi_parse_madt
    BY <2>4, MadtStep
  <2>5. CASE madt_record
    BY <2>5, RecordStep
  <2>6. CASE enable_interrupts
    BY <2>6, EnableStep
  <2>7. CASE serial_init
    BY <2>7, SerialStep
  <2>8. CASE ps2_init
    BY <2>8, Ps2Step
  <2>9. CASE Apics
    <3>1. UNCHANGED <<firmware, has_i8042, iflag>>
      BY <2>9, Zenon DEF Apics
    <3>2. CASE lapic_init_begin(firmware.x2apic)
      BY <3>1, <3>2, BeginStep
    <3>3. CASE do_wrmsr_base
      BY <3>1, <3>3, WrmsrStep
    <3>4. CASE do_lapic_write
      BY <3>1, <3>4, LapicWriteStep
    <3>5. CASE lapic_init_nmi
      BY <3>1, <3>5, LapicNmiStep
    <3>6. CASE pic_command
      BY <3>1, <3>6, PicCommandStep
    <3>7. CASE pic_data
      BY <3>1, <3>7, PicDataStep
    <3>8. CASE do_ioapic_write32
      BY <3>1, <3>8, IoapicWriteStep
    <3>9. CASE ioapic_init_register
      BY <3>1, <3>9, RegisterStep
    <3>10. CASE ioapic_init_nmisource
      BY <3>1, <3>10, NmiSourceStep
    <3>11. CASE ioapic_init_source_override
      BY <3>1, <3>11, OverrideStep
    <3> QED
      BY <2>9, <3>2, <3>3, <3>4, <3>5, <3>6, <3>7, <3>8, <3>9, <3>10, <3>11 DEF Apics
  <2>10. CASE UNCHANGED acpiVars
    BY <2>10, StutterIInv
  <2> QED
    BY <2>1, <2>2, <2>3, <2>4, <2>5, <2>6, <2>7, <2>8, <2>9, <2>10 DEF Next
<1> QED
  BY <1>1, <1>2, PTL DEF Spec

\* No boot faults on its way into x2APIC mode or in it, and none through a null
\* pointer but on a machine that lists no I/O APIC, or an NMI source before it.
THEOREM FaultsExplained ==
  Spec => []FaultsOnlyAtNull
<1>1. IInv => FaultsOnlyAtNull
  BY Zenon DEF IInv, Reasoned, FaultsOnlyAtNull, NoPointer, Records, Madts
<1> QED
  BY <1>1, Inductive, PTL

=============================================================================
