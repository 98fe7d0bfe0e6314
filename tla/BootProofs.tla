----------------------------- MODULE BootProofs -----------------------------
(***************************************************************************)
(* Proofs about main as far as it concerns memory: for every hand-over of  *)
(* the loader that BootAssumption allows, whatever its memory map, program *)
(* headers and controllers, the tables hold exactly what main has asked    *)
(* for so far, and of two requests for a page the later.  The invariants   *)
(* of Boot follow from that and from what the requests are.                *)
(***************************************************************************)
EXTENDS Boot, VmmProofs

-----------------------------------------------------------------------------
(* What a loop keeps of a sequence.                                        *)

\* The next element is kept or skipped.
Taken(s, types, kept, n) ==
  IF n = 0 THEN <<>>
  ELSE IF s[n].type \in types THEN Append(kept[n - 1], s[n]) ELSE kept[n - 1]

\* What f says was kept after each of the first n turns.
KeptBy(s, types, f, n) ==
  /\ f = [i \in 0 .. n |-> f[i]]
  /\ \A i \in 0 .. n : f[i] = Taken(s, types, f, i)

\* A loop over a sequence, as far as each of its turns, determines what it kept.
LEMMA KeptExists ==
  ASSUME NEW s, NEW types, NEW len \in Nat
  PROVE  \E f : f = [n \in 0 .. len |-> Taken(s, types, f, n)]
<1> DEFINE Found(n) == \E f : KeptBy(s, types, f, n)
           Bad == {n \in Nat : ~Found(n)}
<1>1. Found(0)
  <2>1. PICK f : f = [i \in 0 .. 0 |-> <<>>]
    OBVIOUS
  <2>2. KeptBy(s, types, f, 0)
    BY <2>1 DEF KeptBy, Taken
  <2> QED BY <2>2
<1>2. ASSUME NEW n \in Nat, Found(n) PROVE Found(n + 1)
  <2>1. PICK f : KeptBy(s, types, f, n)
    BY <1>2
  <2>2. PICK x : x = Taken(s, types, f, n + 1)
    OBVIOUS
  <2>3. PICK g : g = [i \in 0 .. n + 1 |-> IF i = n + 1 THEN x ELSE f[i]]
    OBVIOUS
  <2>4. ASSUME NEW i \in 0 .. n + 1 PROVE g[i] = Taken(s, types, g, i)
    <3>1. CASE i = 0
      BY <2>1, <2>3, <3>1 DEF KeptBy, Taken
    <3>2. CASE i # 0
      <4>1. i - 1 \in 0 .. n /\ g[i - 1] = f[i - 1]
        BY <2>3, <3>2
      <4>2. Taken(s, types, g, i) = Taken(s, types, f, i)
        BY <3>2, <4>1, Zenon DEF Taken
      <4>3. i # n + 1 => i \in 0 .. n /\ g[i] = f[i]
        BY <2>3
      <4>4. i = n + 1 => g[i] = x
        BY <2>3
      <4> QED BY <2>1, <2>2, <4>2, <4>3, <4>4 DEF KeptBy
    <3> QED BY <3>1, <3>2
  <2>5. g = [i \in 0 .. n + 1 |-> g[i]]
    BY <2>3
  <2>6. KeptBy(s, types, g, n + 1)
    BY <2>4, <2>5 DEF KeptBy
  <2> QED BY <2>6
<1> HIDE DEF Found
<1>3. Bad = {}
  <2> SUFFICES ASSUME Bad # {} PROVE FALSE
    OBVIOUS
  <2>1. PICK n : n = Least(Bad) /\ n \in Bad /\ \A m \in Bad : n <= m
    BY LeastFound
  <2>2. n # 0 /\ n - 1 \in Nat /\ n - 1 \notin Bad
    BY <1>1, <2>1
  <2> QED BY <1>2, <2>1, <2>2
<1>4. Found(len)
  BY <1>3
<1>5. PICK f : KeptBy(s, types, f, len)
  BY <1>4 DEF Found
<1>6. f = [n \in 0 .. len |-> Taken(s, types, f, n)]
  BY <1>5 DEF KeptBy
<1> QED BY <1>6

\* The model's loop is that function.
LEMMA KeptIs ==
  ASSUME NEW s, NEW types, Len(s) \in Nat
  PROVE  \A n \in 0 .. Len(s) : Kept(s, types)[n] = Taken(s, types, Kept(s, types), n)
<1>1. Kept(s, types) = CHOOSE f : f = [n \in 0 .. Len(s) |-> Taken(s, types, f, n)]
  BY Zenon DEF Kept, Taken
<1>2. Kept(s, types) = [n \in 0 .. Len(s) |-> Taken(s, types, Kept(s, types), n)]
  BY <1>1, KeptExists, Zenon
<1>3. PICK f, len : f = Kept(s, types) /\ len = Len(s)
  OBVIOUS
<1>4. f = [n \in 0 .. len |-> Taken(s, types, f, n)]
  BY <1>2, <1>3, Zenon
<1>5. \A n \in 0 .. len : f[n] = Taken(s, types, f, n)
  BY <1>4, Zenon
<1> QED BY <1>3, <1>5, Zenon

\* t holds elements of s of the types, and all of them.
Sieved(s, types, S, t) ==
  /\ t \in Seq(S)
  /\ \A i \in DOMAIN t : \E p \in DOMAIN s : s[p].type \in types /\ t[i] = s[p]
  /\ \A p \in DOMAIN s : s[p].type \in types => \E i \in DOMAIN t : t[i] = s[p]

\* That is what a loop keeps that skips the others.
LEMMA OfTypesIs ==
  ASSUME NEW S, NEW s \in Seq(S), NEW types
  PROVE  Sieved(s, types, S, OfTypes(s, types))
<1> DEFINE Right(n, t) ==
             /\ t \in Seq(S)
             /\ \A i \in 1 .. Len(t) : \E p \in 1 .. n : s[p].type \in types /\ t[i] = s[p]
             /\ \A p \in 1 .. n : s[p].type \in types => \E i \in 1 .. Len(t) : t[i] = s[p]
<1>1. PICK len \in Nat : len = Len(s) /\ DOMAIN s = 1 .. len /\ \A p \in 1 .. len : s[p] \in S
  OBVIOUS
<1>2. PICK f : f = Kept(s, types)
  OBVIOUS
<1>3. \A n \in 0 .. len : f[n] = Taken(s, types, f, n)
  BY <1>1, <1>2, KeptIs
<1> DEFINE Bad == {n \in 0 .. len : ~Right(n, f[n])}
<1>4. Right(0, f[0])
  <2>1. f[0] = <<>>
    BY <1>1, <1>3 DEF Taken
  <2> QED BY <2>1
<1>5. ASSUME NEW n \in 0 .. len, n # 0, Right(n - 1, f[n - 1]) PROVE Right(n, f[n])
  <2>1. n - 1 \in Nat /\ n \in 1 .. len /\ s[n] \in S /\ 1 .. n = (1 .. n - 1) \cup {n}
    BY <1>1, <1>5
  <2>2. PICK t : t = f[n - 1]
    OBVIOUS
  <2>3. Right(n - 1, t)
    BY <1>5, <2>2
  <2>4. CASE s[n].type \notin types
    <3>1. f[n] = t
      BY <1>3, <1>5, <2>2, <2>4, Zenon DEF Taken
    <3>2. Right(n, t)
      BY <2>1, <2>3, <2>4
    <3> HIDE DEF Right
    <3> QED BY <3>1, <3>2
  <2>5. CASE s[n].type \in types
    <3>1. f[n] = Append(t, s[n])
      BY <1>3, <1>5, <2>2, <2>5, Zenon DEF Taken
    <3>2. PICK u : u = Append(t, s[n])
      OBVIOUS
    <3>3. /\ u \in Seq(S) /\ Len(u) = Len(t) + 1 /\ Len(t) \in Nat /\ u[Len(u)] = s[n]
          /\ \A i \in 1 .. Len(t) : u[i] = t[i]
      BY <2>1, <2>3, <3>2
    <3>4. ASSUME NEW i \in 1 .. Len(u)
          PROVE  \E p \in 1 .. n : s[p].type \in types /\ u[i] = s[p]
      <4>1. CASE i = Len(u)
        BY <2>1, <2>5, <3>3, <4>1
      <4>2. CASE i # Len(u)
        <5>1. i \in 1 .. Len(t) /\ u[i] = t[i]
          BY <3>3, <4>2
        <5>2. PICK p \in 1 .. n - 1 : s[p].type \in types /\ t[i] = s[p]
          BY <2>3, <5>1
        <5> QED BY <2>1, <5>1, <5>2
      <4> QED BY <4>1, <4>2
    <3>5. ASSUME NEW p \in 1 .. n, s[p].type \in types
          PROVE  \E i \in 1 .. Len(u) : u[i] = s[p]
      <4>1. CASE p = n
        BY <3>3, <4>1
      <4>2. CASE p # n
        <5>1. PICK i \in 1 .. Len(t) : t[i] = s[p]
          BY <2>1, <2>3, <3>5, <4>2
        <5> QED BY <3>3, <5>1
      <4> QED BY <4>1, <4>2
    <3>6. Right(n, u)
      BY <3>3, <3>4, <3>5
    <3> HIDE DEF Right
    <3> QED BY <3>1, <3>2, <3>6
  <2> QED BY <2>4, <2>5
<1> HIDE DEF Right
<1>6. Bad = {}
  <2> SUFFICES ASSUME Bad # {} PROVE FALSE
    OBVIOUS
  <2>0. Bad \subseteq Nat
    BY <1>1
  <2>1. PICK n : n = Least(Bad) /\ n \in Bad /\ \A m \in Bad : n <= m
    <3> HIDE DEF Bad
    <3> QED BY <2>0, LeastFound
  <2>2. n # 0 /\ n - 1 \in 0 .. len /\ n - 1 \notin Bad
    BY <1>4, <2>1
  <2> QED BY <1>5, <2>1, <2>2
<1>7. Right(len, f[len])
  BY <1>6
<1>8. PICK t : t = OfTypes(s, types)
  OBVIOUS
<1>9. Right(len, t)
  BY <1>1, <1>2, <1>7, <1>8 DEF OfTypes
<1>11. t \in Seq(S)
  BY <1>9 DEF Right
<1>12. DOMAIN t = 1 .. Len(t)
  BY <1>11
<1>10. Sieved(s, types, S, t)
  BY <1>1, <1>9, <1>11, <1>12, Zenon DEF Right, Sieved
<1> QED BY <1>8, <1>10, Zenon

-----------------------------------------------------------------------------
(* The requests of main.                                                   *)

\* The requests that main makes: for the i-th entry of the memory map or program
\* header, and for the registers of the two controllers.
DirectTo(i) ==
  Request(layout.memmap[i].base, phy_to_virt(layout.memmap[i].base),
          layout.memmap[i].length, HhdmFlags(layout.memmap[i].type), FALSE)

LinkedTo(i) ==
  Request(layout.physical_base + layout.phdrs[i].vaddr,
          layout.virtual_base + layout.phdrs[i].vaddr,
          layout.phdrs[i].memsz, elf_to_memory_flags(layout.phdrs[i].flags), TRUE)

LapicWindow ==
  Request(layout.lapic, phy_to_virt(layout.lapic), layout.lapic_size, {"M_W"}, TRUE)

IoapicWindow ==
  Request(layout.ioapic, phy_to_virt(layout.ioapic), layout.ioapic_size,
          {"M_W", "M_CACHE_UC"}, TRUE)

\* All of them, in their order; the first of them are those of vmm_init.
All == VmmInitRequests \o AcpiRequests

InitCount == Len(VmmInitRequests)

\* The entries of the memory map that are mapped at the HHDM.
Mapping == {i \in Entries : layout.memmap[i].type \in HhdmTypes}

\* The requests R of vmm_init, n of them, and of the drivers: entries of the memory
\* map up to the a-th, loaded segments up to the b-th, then what is read-only.
Arranged(R, a, b, n) ==
  /\ a \in Nat /\ b \in Nat /\ n \in Nat /\ a <= b /\ b <= n /\ n <= Len(R) /\ Len(R) \in Nat
  /\ \A j \in 1 .. a : \E i \in Mapping : R[j] = DirectTo(i)
  /\ \A i \in Mapping : \E j \in 1 .. a : R[j] = DirectTo(i)
  /\ \A j \in a + 1 .. b : \E i \in Segments(layout, {"PT_LOAD"}) : R[j] = LinkedTo(i)
  /\ \A i \in Segments(layout, {"PT_LOAD"}) : \E j \in a + 1 .. b : R[j] = LinkedTo(i)
  /\ \A j \in b + 1 .. n : \E i \in Segments(layout, {"PT_GNU_RELRO"}) : R[j] = LinkedTo(i)
  /\ \A i \in Segments(layout, {"PT_GNU_RELRO"}) : \E j \in b + 1 .. n : R[j] = LinkedTo(i)
  /\ \A j \in n + 1 .. Len(R) :
       \/ R[j] = LapicWindow /\ ~layout.x2apic /\ j = n + 1
       \/ R[j] = IoapicWindow /\ layout.has_ioapic /\ j = Len(R)
  /\ layout.has_ioapic => n < Len(R) /\ R[Len(R)] = IoapicWindow

\* What BootAssumption says of the hand-over in use.
LEMMA HandOver ==
  ASSUME layout \in Layouts
  PROVE  HandedOver(layout) /\ LaidOut(layout) /\ UsedOnce(layout) /\ LinkedApart(layout)
BY BootAssumption

\* A function on a first part of the positive numbers is a sequence.
Listed(s) == Len(s) \in Nat /\ s = [j \in 1 .. Len(s) |-> s[j]]

\* Requests that a loop makes of what it keeps.
LEMMA DirectRequests ==
  ASSUME layout \in Layouts
  PROVE  /\ Listed(HhdmRequests)
         /\ \A j \in 1 .. Len(HhdmRequests) : \E i \in Mapping : HhdmRequests[j] = DirectTo(i)
         /\ \A i \in Mapping : \E j \in 1 .. Len(HhdmRequests) : HhdmRequests[j] = DirectTo(i)
<1>1. layout.memmap \in Seq(Entry)
  BY PmmAssumption DEF WellFormed
<1> DEFINE Of(e) == Request(e.base, phy_to_virt(e.base), e.length, HhdmFlags(e.type), FALSE)
<1>2. PICK t : t = OfTypes(layout.memmap, HhdmTypes)
  OBVIOUS
<1>12. Sieved(layout.memmap, HhdmTypes, Entry, t)
  BY <1>1, <1>2, OfTypesIs
<1>3. /\ t \in Seq(Entry)
      /\ \A j \in DOMAIN t : \E p \in DOMAIN layout.memmap :
           layout.memmap[p].type \in HhdmTypes /\ t[j] = layout.memmap[p]
      /\ \A p \in DOMAIN layout.memmap : layout.memmap[p].type \in HhdmTypes =>
           \E j \in DOMAIN t : t[j] = layout.memmap[p]
  BY <1>12, Zenon DEF Sieved
<1>4. HhdmRequests = [j \in DOMAIN t |-> Of(t[j])]
  BY <1>2, Zenon DEF HhdmRequests
<1>5. \A i : Of(layout.memmap[i]) = DirectTo(i)
  BY Zenon DEF DirectTo
<1> HIDE DEF Of
<1>6. /\ DOMAIN t = 1 .. Len(t) /\ Len(t) \in Nat
      /\ DOMAIN HhdmRequests = 1 .. Len(t)
  BY <1>3, <1>4
<1>7. Len(HhdmRequests) = Len(t) /\ HhdmRequests = [j \in 1 .. Len(t) |-> HhdmRequests[j]]
  BY <1>4, <1>6
<1>8. \A j \in 1 .. Len(t) : HhdmRequests[j] = Of(t[j])
  BY <1>4, <1>6
<1>9. ASSUME NEW j \in 1 .. Len(t) PROVE \E i \in Mapping : HhdmRequests[j] = DirectTo(i)
  <2>1. PICK p \in DOMAIN layout.memmap :
          layout.memmap[p].type \in HhdmTypes /\ t[j] = layout.memmap[p]
    BY <1>3, <1>6
  <2>2. p \in Mapping
    BY <2>1 DEF Mapping, Entries
  <2> QED BY <1>5, <1>8, <2>1, <2>2
<1>10. ASSUME NEW i \in Mapping PROVE \E j \in 1 .. Len(t) : HhdmRequests[j] = DirectTo(i)
  <2>1. i \in DOMAIN layout.memmap /\ layout.memmap[i].type \in HhdmTypes
    BY DEF Mapping, Entries
  <2>2. PICK j \in DOMAIN t : t[j] = layout.memmap[i]
    BY <1>3, <2>1
  <2> QED BY <1>5, <1>6, <1>8, <2>2
<1> QED BY <1>6, <1>7, <1>9, <1>10 DEF Listed

\* And those of a pass over the program headers.
LEMMA LinkedRequests ==
  ASSUME layout \in Layouts, NEW type
  PROVE  LET t == SegmentRequests(type)
         IN  /\ Listed(t)
             /\ \A j \in 1 .. Len(t) : \E i \in Segments(layout, {type}) : t[j] = LinkedTo(i)
             /\ \A i \in Segments(layout, {type}) : \E j \in 1 .. Len(t) : t[j] = LinkedTo(i)
<1>1. layout.phdrs \in Seq(Phdr)
  BY HandOver DEF HandedOver
<1> DEFINE Of(h) == Request(layout.physical_base + h.vaddr, layout.virtual_base + h.vaddr,
                            h.memsz, elf_to_memory_flags(h.flags), TRUE)
<1>2. PICK t : t = OfTypes(layout.phdrs, {type})
  OBVIOUS
<1>12. Sieved(layout.phdrs, {type}, Phdr, t)
  BY <1>1, <1>2, OfTypesIs
<1>3. /\ t \in Seq(Phdr)
      /\ \A j \in DOMAIN t : \E p \in DOMAIN layout.phdrs :
           layout.phdrs[p].type \in {type} /\ t[j] = layout.phdrs[p]
      /\ \A p \in DOMAIN layout.phdrs : layout.phdrs[p].type \in {type} =>
           \E j \in DOMAIN t : t[j] = layout.phdrs[p]
  BY <1>12, Zenon DEF Sieved
<1>0. PICK S : S = SegmentRequests(type)
  OBVIOUS
<1>4. S = [j \in DOMAIN t |-> Of(t[j])]
  BY <1>0, <1>2, Zenon DEF SegmentRequests
<1>5. \A i : Of(layout.phdrs[i]) = LinkedTo(i)
  BY Zenon DEF LinkedTo
<1> HIDE DEF Of
<1>6. /\ DOMAIN t = 1 .. Len(t) /\ Len(t) \in Nat
      /\ DOMAIN S = 1 .. Len(t)
  BY <1>3, <1>4
<1>7. Len(S) = Len(t) /\ S = [j \in 1 .. Len(t) |-> S[j]]
  BY <1>4, <1>6
<1>8. \A j \in 1 .. Len(t) : S[j] = Of(t[j])
  BY <1>4, <1>6
<1>9. ASSUME NEW j \in 1 .. Len(t) PROVE \E i \in Segments(layout, {type}) : S[j] = LinkedTo(i)
  <2>1. PICK p \in DOMAIN layout.phdrs :
          layout.phdrs[p].type \in {type} /\ t[j] = layout.phdrs[p]
    BY <1>3, <1>6
  <2>2. p \in Segments(layout, {type})
    BY <2>1 DEF Segments
  <2> QED BY <1>5, <1>8, <2>1, <2>2
<1>10. ASSUME NEW i \in Segments(layout, {type}) PROVE \E j \in 1 .. Len(t) : S[j] = LinkedTo(i)
  <2>1. i \in DOMAIN layout.phdrs /\ layout.phdrs[i].type \in {type}
    BY DEF Segments
  <2>2. PICK j \in DOMAIN t : t[j] = layout.phdrs[i]
    BY <1>3, <2>1
  <2> QED BY <1>5, <1>6, <1>8, <2>2
<1>11. /\ Listed(S)
       /\ \A j \in 1 .. Len(S) : \E i \in Segments(layout, {type}) : S[j] = LinkedTo(i)
       /\ \A i \in Segments(layout, {type}) : \E j \in 1 .. Len(S) : S[j] = LinkedTo(i)
  BY <1>6, <1>7, <1>9, <1>10 DEF Listed
<1> QED BY <1>0, <1>11, Zenon

\* u is s, followed by t.
Joins(s, t, u) ==
  /\ Len(u) = Len(s) + Len(t)
  /\ \A j \in 1 .. Len(s) : u[j] = s[j]
  /\ \A j \in 1 .. Len(t) : u[Len(s) + j] = t[j]

\* The parts of a concatenation keep their places.
LEMMA Joined ==
  ASSUME NEW s, NEW t, Listed(s), Listed(t)
  PROVE  Listed(s \o t) /\ Joins(s, t, s \o t)
<1>0. /\ Len(s) \in Nat /\ Len(t) \in Nat
      /\ s = [j \in 1 .. Len(s) |-> s[j]] /\ t = [j \in 1 .. Len(t) |-> t[j]]
  BY DEF Listed
<1>1. PICK S : S = {s[j] : j \in 1 .. Len(s)} \cup {t[j] : j \in 1 .. Len(t)}
  OBVIOUS
<1>2. PICK m \in Nat, n \in Nat : m = Len(s) /\ n = Len(t)
  BY <1>0
<1>3. s \in [1 .. m -> S] /\ t \in [1 .. n -> S]
  BY <1>0, <1>1, <1>2
<1>4. s \in Seq(S) /\ t \in Seq(S)
  BY <1>3, <1>2
<1>5. s \o t \in Seq(S)
  BY <1>4
<1>6. Len(s \o t) = m + n
  BY <1>2, <1>4
<1>7. PICK u : u = s \o t
  OBVIOUS
<1>8. u \in Seq(S) /\ Len(u) = m + n
  BY <1>5, <1>6, <1>7, Zenon
<1>9. \A j \in 1 .. m : (s \o t)[j] = s[j]
  BY <1>2, <1>4
<1>10. \A j \in 1 .. n : (s \o t)[m + j] = t[j]
  BY <1>2, <1>4
<1>11. u = [j \in 1 .. Len(u) |-> u[j]]
  BY <1>8
<1>12. Listed(u)
  BY <1>8, <1>11 DEF Listed
<1>13. Joins(s, t, u)
  BY <1>2, <1>7, <1>8, <1>9, <1>10 DEF Joins
<1> QED BY <1>7, <1>12, <1>13, Zenon

\* The requests of main in the order it makes them.
LEMMA Arrangement ==
  ASSUME layout \in Layouts
  PROVE  /\ \E a, b : Arranged(All, a, b, InitCount)
         /\ Len(All) = InitCount + Len(AcpiRequests) /\ Len(AcpiRequests) \in Nat
         /\ \A j \in 1 .. InitCount : All[j] = VmmInitRequests[j]
         /\ \A j \in 1 .. Len(AcpiRequests) : All[InitCount + j] = AcpiRequests[j]
         /\ Listed(VmmInitRequests) /\ Listed(AcpiRequests)
<1>1. PICK h, l, g, d :
        /\ h = HhdmRequests /\ l = SegmentRequests("PT_LOAD")
        /\ g = SegmentRequests("PT_GNU_RELRO") /\ d = AcpiRequests
  OBVIOUS
<1>2. /\ Listed(h)
      /\ \A j \in 1 .. Len(h) : \E i \in Mapping : h[j] = DirectTo(i)
      /\ \A i \in Mapping : \E j \in 1 .. Len(h) : h[j] = DirectTo(i)
  BY <1>1, DirectRequests, Zenon
<1>3. /\ Listed(l)
      /\ \A j \in 1 .. Len(l) : \E i \in Segments(layout, {"PT_LOAD"}) : l[j] = LinkedTo(i)
      /\ \A i \in Segments(layout, {"PT_LOAD"}) : \E j \in 1 .. Len(l) : l[j] = LinkedTo(i)
  BY <1>1, LinkedRequests, Zenon
<1>4. /\ Listed(g)
      /\ \A j \in 1 .. Len(g) : \E i \in Segments(layout, {"PT_GNU_RELRO"}) : g[j] = LinkedTo(i)
      /\ \A i \in Segments(layout, {"PT_GNU_RELRO"}) : \E j \in 1 .. Len(g) : g[j] = LinkedTo(i)
  BY <1>1, LinkedRequests, Zenon
<1>5. /\ Listed(d) /\ Len(d) \in Nat
      /\ \A j \in 1 .. Len(d) :
            \/ d[j] = LapicWindow /\ ~layout.x2apic /\ j = 1
            \/ d[j] = IoapicWindow /\ layout.has_ioapic /\ j = Len(d)
      /\ layout.has_ioapic => Len(d) # 0 /\ d[Len(d)] = IoapicWindow
  <2>1. PICK lw, iw, s, t :
          /\ lw = LapicWindow /\ iw = IoapicWindow
          /\ s = LapicRequests /\ t = IoapicRequests
    OBVIOUS
  <2>2. \A x : Listed(<<x>>) /\ Len(<<x>>) = 1 /\ <<x>>[1] = x
    <3>1. \A x : Len(<<x>>) = 1 /\ <<x>> = [j \in 1 .. 1 |-> <<x>>[j]] /\ <<x>>[1] = x
      OBVIOUS
    <3> QED BY <3>1 DEF Listed
  <2>3. Listed(<<>>) /\ Len(<<>>) = 0
    BY DEF Listed
  <2>4. s = (IF layout.x2apic THEN <<>> ELSE <<lw>>)
        /\ t = (IF ~layout.has_ioapic THEN <<>> ELSE <<iw>>)
    BY <2>1, Zenon DEF LapicRequests, IoapicRequests, LapicWindow, IoapicWindow
  <2>5. /\ Listed(s) /\ (layout.x2apic => Len(s) = 0)
        /\ (~layout.x2apic => Len(s) = 1 /\ s[1] = lw)
    BY <2>2, <2>3, <2>4, Zenon
  <2>6. /\ Listed(t) /\ (~layout.has_ioapic => Len(t) = 0)
        /\ (layout.has_ioapic => Len(t) = 1 /\ t[1] = iw)
    BY <2>2, <2>3, <2>4, Zenon
  <2>7. d = s \o t
    BY <1>1, <2>1, Zenon DEF AcpiRequests
  <2>8. Listed(d) /\ Joins(s, t, d)
    BY <2>5, <2>6, <2>7, Joined, Zenon
  <2>9. Len(d) = Len(s) + Len(t) /\ Len(s) \in 0 .. 1 /\ Len(t) \in 0 .. 1
    BY <2>5, <2>6, <2>8 DEF Joins
  <2>10. \A j \in 1 .. Len(d) :
            \/ j \in 1 .. Len(s) /\ d[j] = s[j]
            \/ j - Len(s) \in 1 .. Len(t) /\ d[j] = t[j - Len(s)]
    <3>1. ASSUME NEW j \in 1 .. Len(d), j > Len(s)
          PROVE  j - Len(s) \in 1 .. Len(t) /\ d[j] = t[j - Len(s)]
      <4>1. j - Len(s) \in 1 .. Len(t) /\ Len(s) + (j - Len(s)) = j
        BY <2>9, <3>1
      <4>2. d[Len(s) + (j - Len(s))] = t[j - Len(s)]
        BY <2>8, <4>1 DEF Joins
      <4> QED BY <4>1, <4>2
    <3>2. ASSUME NEW j \in 1 .. Len(d), j <= Len(s)
          PROVE  j \in 1 .. Len(s) /\ d[j] = s[j]
      <4>1. j \in 1 .. Len(s)
        BY <2>9, <3>2
      <4> QED BY <2>8, <4>1 DEF Joins
    <3> QED BY <2>9, <3>1, <3>2
  <2>11. ASSUME NEW j \in 1 .. Len(d)
         PROVE  \/ d[j] = LapicWindow /\ ~layout.x2apic /\ j = 1
                \/ d[j] = IoapicWindow /\ layout.has_ioapic /\ j = Len(d)
    <3>1. CASE j \in 1 .. Len(s) /\ d[j] = s[j]
      <4>1. ~layout.x2apic /\ j = 1
        BY <2>5, <3>1
      <4> QED BY <2>1, <2>5, <3>1, <4>1, Zenon
    <3>2. CASE j - Len(s) \in 1 .. Len(t) /\ d[j] = t[j - Len(s)]
      <4>1. layout.has_ioapic /\ Len(t) = 1
        BY <2>6, <2>9, <3>2
      <4>2. j - Len(s) = 1 /\ j = Len(d)
        BY <2>9, <3>2, <4>1
      <4> QED BY <2>1, <2>6, <3>2, <4>1, <4>2, Zenon
    <3> QED BY <2>10, <3>1, <3>2
  <2>12. ASSUME layout.has_ioapic PROVE Len(d) # 0 /\ d[Len(d)] = IoapicWindow
    <3>1. Len(d) # 0 /\ Len(d) \in 1 .. Len(d) /\ ~(Len(d) \in 1 .. Len(s))
          /\ Len(d) - Len(s) = 1
      BY <2>6, <2>9, <2>12
    <3>2. d[Len(d)] = t[1]
      BY <2>10, <3>1
    <3> QED BY <2>1, <2>6, <2>12, <3>1, <3>2, Zenon
  <2> QED BY <2>8, <2>9, <2>11, <2>12
<1>6. VmmInitRequests = h \o l \o g /\ All = VmmInitRequests \o d
  BY <1>1, Zenon DEF VmmInitRequests, All
<1>7. PICK hl, v, R : hl = h \o l /\ v = hl \o g /\ R = v \o d /\ v = VmmInitRequests /\ R = All
  BY <1>6
<1>8. Listed(hl) /\ Joins(h, l, hl)
  BY <1>2, <1>3, <1>7, Joined, Zenon
<1>9. Listed(v) /\ Joins(hl, g, v)
  BY <1>4, <1>7, <1>8, Joined, Zenon
<1>10. Listed(R) /\ Joins(v, d, R)
  BY <1>5, <1>7, <1>9, Joined, Zenon
<1>11. PICK a \in Nat, b \in Nat, n \in Nat, m \in Nat :
         /\ a = Len(h) /\ b = a + Len(l) /\ n = b + Len(g) /\ m = Len(d)
         /\ n = Len(v) /\ Len(R) = n + m
  <2>1. Len(d) \in Nat /\ Len(h) \in Nat /\ Len(l) \in Nat /\ Len(g) \in Nat
    BY <1>2, <1>3, <1>4, <1>5 DEF Listed
  <2>2. /\ Len(hl) = Len(h) + Len(l) /\ Len(v) = Len(hl) + Len(g)
        /\ Len(R) = Len(v) + Len(d)
    BY <1>8, <1>9, <1>10 DEF Joins
  <2> QED BY <2>1, <2>2
<1>12. /\ \A j \in 1 .. a : R[j] = h[j]
       /\ \A j \in 1 .. Len(l) : R[a + j] = l[j]
       /\ \A j \in 1 .. Len(g) : R[b + j] = g[j]
       /\ \A j \in 1 .. m : R[n + j] = d[j]
  <2>1. \A j \in 1 .. a : R[j] = h[j]
    BY <1>3, <1>4, <1>8, <1>9, <1>10, <1>11 DEF Listed, Joins
  <2>2. ASSUME NEW j \in 1 .. Len(l) PROVE R[a + j] = l[j]
    <3>1. a + j \in 1 .. Len(hl) /\ a + j \in 1 .. Len(v)
      BY <1>3, <1>4, <1>8, <1>9, <1>11 DEF Listed, Joins
    <3>2. R[a + j] = v[a + j] /\ v[a + j] = hl[a + j] /\ hl[a + j] = l[j]
      BY <1>8, <1>9, <1>10, <1>11, <3>1 DEF Joins
    <3> QED BY <3>2
  <2>3. ASSUME NEW j \in 1 .. Len(g) PROVE R[b + j] = g[j]
    <3>1. b + j \in 1 .. Len(v) /\ b = Len(hl)
      BY <1>3, <1>4, <1>8, <1>9, <1>11 DEF Listed, Joins
    <3>2. R[b + j] = v[b + j] /\ v[b + j] = g[j]
      BY <1>9, <1>10, <3>1 DEF Joins
    <3> QED BY <3>2
  <2> QED BY <1>10, <1>11, <2>1, <2>2, <2>3 DEF Joins
<1>13. ASSUME NEW j \in a + 1 .. b PROVE j - a \in 1 .. Len(l) /\ R[j] = l[j - a]
  <2>1. j - a \in 1 .. Len(l) /\ a + (j - a) = j
    BY <1>3, <1>11 DEF Listed
  <2>2. R[a + (j - a)] = l[j - a]
    BY <1>12, <2>1
  <2> QED BY <2>1, <2>2
<1>14. ASSUME NEW j \in b + 1 .. n PROVE j - b \in 1 .. Len(g) /\ R[j] = g[j - b]
  <2>1. j - b \in 1 .. Len(g) /\ b + (j - b) = j
    BY <1>4, <1>11 DEF Listed
  <2>2. R[b + (j - b)] = g[j - b]
    BY <1>12, <2>1
  <2> QED BY <2>1, <2>2
<1>15. ASSUME NEW j \in n + 1 .. Len(R) PROVE j - n \in 1 .. m /\ R[j] = d[j - n]
  <2>1. j - n \in 1 .. m /\ n + (j - n) = j
    BY <1>11
  <2>2. R[n + (j - n)] = d[j - n]
    BY <1>12, <2>1
  <2> QED BY <2>1, <2>2
<1>16. Arranged(R, a, b, n)
  <2>1. /\ a <= b /\ b <= n /\ n <= Len(R) /\ Len(R) \in Nat
    BY <1>3, <1>4, <1>11
  <2>2. /\ \A j \in 1 .. a : \E i \in Mapping : R[j] = DirectTo(i)
        /\ \A i \in Mapping : \E j \in 1 .. a : R[j] = DirectTo(i)
    BY <1>2, <1>11, <1>12
  <2>3. \A j \in a + 1 .. b : \E i \in Segments(layout, {"PT_LOAD"}) : R[j] = LinkedTo(i)
    BY <1>3, <1>13
  <2>4. ASSUME NEW i \in Segments(layout, {"PT_LOAD"})
        PROVE  \E j \in a + 1 .. b : R[j] = LinkedTo(i)
    <3>1. PICK j \in 1 .. Len(l) : l[j] = LinkedTo(i)
      BY <1>3
    <3>2. a + j \in a + 1 .. b /\ R[a + j] = LinkedTo(i)
      BY <1>3, <1>11, <1>12, <3>1 DEF Listed
    <3> QED BY <3>2
  <2>5. \A j \in b + 1 .. n : \E i \in Segments(layout, {"PT_GNU_RELRO"}) : R[j] = LinkedTo(i)
    BY <1>4, <1>14
  <2>6. ASSUME NEW i \in Segments(layout, {"PT_GNU_RELRO"})
        PROVE  \E j \in b + 1 .. n : R[j] = LinkedTo(i)
    <3>1. PICK j \in 1 .. Len(g) : g[j] = LinkedTo(i)
      BY <1>4
    <3>2. b + j \in b + 1 .. n /\ R[b + j] = LinkedTo(i)
      BY <1>4, <1>11, <1>12, <3>1 DEF Listed
    <3> QED BY <3>2
  <2>7. ASSUME NEW j \in n + 1 .. Len(R)
        PROVE  \/ R[j] = LapicWindow /\ ~layout.x2apic /\ j = n + 1
               \/ R[j] = IoapicWindow /\ layout.has_ioapic /\ j = Len(R)
    <3>1. j - n \in 1 .. Len(d) /\ R[j] = d[j - n]
      BY <1>11, <1>15
    <3>2. \/ d[j - n] = LapicWindow /\ ~layout.x2apic /\ j - n = 1
          \/ d[j - n] = IoapicWindow /\ layout.has_ioapic /\ j - n = Len(d)
      BY <1>5, <3>1
    <3>3. /\ j - n = 1 => j = n + 1
          /\ j - n = Len(d) => j = Len(R)
      BY <1>11
    <3> QED BY <3>1, <3>2, <3>3, Zenon
  <2>8. ASSUME layout.has_ioapic PROVE n < Len(R) /\ R[Len(R)] = IoapicWindow
    <3>1. Len(d) # 0 /\ d[Len(d)] = IoapicWindow
      BY <1>5, <2>8
    <3>2. n < Len(R) /\ Len(R) \in n + 1 .. Len(R) /\ Len(R) - n = Len(d)
      BY <1>11, <3>1
    <3>3. R[Len(R)] = d[Len(R) - n]
      BY <1>15, <3>2
    <3> QED BY <3>1, <3>2, <3>3, Zenon
  <2> QED BY <2>1, <2>2, <2>3, <2>4, <2>5, <2>6, <2>7, <2>8, Zenon DEF Arranged
<1>17. n = InitCount
  BY <1>7, <1>11 DEF InitCount
<1>18. \E x, y : Arranged(All, x, y, InitCount)
  BY <1>7, <1>16, <1>17, Zenon
<1>19. Listed(d)
  BY <1>5
<1>20. /\ Len(All) = InitCount + Len(AcpiRequests) /\ Len(AcpiRequests) \in Nat
       /\ \A j \in 1 .. InitCount : All[j] = VmmInitRequests[j]
       /\ \A j \in 1 .. Len(AcpiRequests) : All[InitCount + j] = AcpiRequests[j]
  BY <1>1, <1>7, <1>10, <1>11, <1>17, <1>19, Zenon DEF Joins, Listed
<1>21. Listed(VmmInitRequests) /\ Listed(AcpiRequests)
  BY <1>1, <1>7, <1>9, <1>19, Zenon
<1> QED BY <1>18, <1>20, <1>21

-----------------------------------------------------------------------------
(* Whole pages.                                                            *)

\* What vmm_map is called with.
Rounded(r) ==
  IF r.unaligned
  THEN [what |-> round_down(r.what, PAGE_SIZE), where |-> round_down(r.where, PAGE_SIZE),
        size |-> round_up(r.what + r.size, PAGE_SIZE) - round_down(r.what, PAGE_SIZE),
        flags |-> r.flags]
  ELSE [what |-> r.what, where |-> r.where, size |-> r.size, flags |-> r.flags]

\* What it does not refuse for its ends.
Whole(q) == Aligned(q.what) /\ Aligned(q.where) /\ Aligned(q.size)

\* Multiples of the page size are in the order of their factors.
LEMMA TimesOrder ==
  ASSUME NEW a \in Nat, NEW b \in Nat
  PROVE  /\ a * PAGE_SIZE \in Nat
         /\ a <= b <=> a * PAGE_SIZE <= b * PAGE_SIZE
         /\ a < b <=> a * PAGE_SIZE < b * PAGE_SIZE
<1>1. PAGE_SIZE \in Nat \ {0}
  BY PmmAssumption
<1>2. \A x, y \in Nat, m \in Nat \ {0} : x <= y => x * m <= y * m
  OBVIOUS
<1>3. \A x, y \in Nat, m \in Nat \ {0} : x < y => x * m < y * m
  OBVIOUS
<1>4. \A x \in Nat, m \in Nat \ {0} : x * m \in Nat
  OBVIOUS
<1>5. PICK p \in Nat, q \in Nat : p = a * PAGE_SIZE /\ q = b * PAGE_SIZE
  BY <1>1, <1>4
<1>6. (a <= b => p <= q) /\ (a < b => p < q) /\ (b <= a => q <= p) /\ (b < a => q < p)
  BY <1>1, <1>2, <1>3, <1>5
<1> QED BY <1>5, <1>6

\* Aligned numbers are multiples; rounding finds the nearest on either side.
LEMMA Rounding ==
  ASSUME NEW x \in Nat
  PROVE  /\ round_down(x, PAGE_SIZE) = (x \div PAGE_SIZE) * PAGE_SIZE
         /\ round_down(x, PAGE_SIZE) \in Nat /\ Aligned(round_down(x, PAGE_SIZE))
         /\ round_down(x, PAGE_SIZE) <= x /\ x < round_down(x, PAGE_SIZE) + PAGE_SIZE
         /\ round_up(x, PAGE_SIZE) = PageCount(x) * PAGE_SIZE
         /\ round_up(x, PAGE_SIZE) \in Nat /\ Aligned(round_up(x, PAGE_SIZE))
         /\ x <= round_up(x, PAGE_SIZE) /\ PageCount(x) \in Nat
         /\ Aligned(x) => round_down(x, PAGE_SIZE) = x /\ round_up(x, PAGE_SIZE) = x
<1>1. PAGE_SIZE \in Nat \ {0}
  BY PmmAssumption
<1>2. PICK k \in Nat, d \in 0 .. PAGE_SIZE - 1, p \in Nat :
        /\ k = x \div PAGE_SIZE /\ d = x % PAGE_SIZE
        /\ p = k * PAGE_SIZE /\ x = p + d
  BY <1>1, DivMod
<1>3. round_down(x, PAGE_SIZE) = p
  BY <1>1, <1>2 DEF round_down
<1>4. p % PAGE_SIZE = 0
  BY <1>1, <1>2, Multiple
<1>5. PICK u \in Nat : u = round_up(x, PAGE_SIZE) /\ x <= u /\ u % PAGE_SIZE = 0
  BY <1>1, RoundUp
<1>6. PICK c \in Nat : c = u \div PAGE_SIZE /\ u = c * PAGE_SIZE
  <2>1. u = (u \div PAGE_SIZE) * PAGE_SIZE + 0 /\ u \div PAGE_SIZE \in Nat
    BY <1>1, <1>5, DivMod
  <2>2. (u \div PAGE_SIZE) * PAGE_SIZE \in Nat
    BY <1>1, <2>1
  <2> QED BY <2>1, <2>2
<1>7. PageCount(x) = c
  BY <1>5, <1>6 DEF PageCount
<1>8. Aligned(x) => p = x /\ u = x
  BY <1>1, <1>2, <1>5 DEF Aligned, round_up
<1> QED BY <1>1, <1>2, <1>3, <1>4, <1>5, <1>6, <1>7, <1>8 DEF Aligned

\* Rounding moves with an aligned offset.
LEMMA RoundingMoved ==
  ASSUME NEW x \in Nat, NEW d \in Nat, Aligned(d)
  PROVE  /\ round_down(d + x, PAGE_SIZE) = d + round_down(x, PAGE_SIZE)
         /\ round_up(d + x, PAGE_SIZE) = d + round_up(x, PAGE_SIZE)
<1>1. PICK S \in Nat \ {0} : S = PAGE_SIZE
  BY PmmAssumption
<1>2. (d + x) % S = x % S
  <2>1. PICK k \in Nat, p \in Nat : d = p /\ p = k * S
    <3>1. d = (d \div S) * S + 0 /\ d \div S \in Nat
      BY <1>1, DivMod DEF Aligned
    <3> QED BY <3>1
  <2>2. PICK m \in Nat, e \in 0 .. S - 1, q \in Nat : q = m * S /\ x = q + e /\ e = x % S
    <3>1. /\ x \div S \in Nat /\ x % S \in 0 .. S - 1 /\ x = (x \div S) * S + (x % S)
      BY <1>1, DivMod
    <3>2. (x \div S) * S \in Nat
      BY <3>1
    <3> QED BY <3>1, <3>2
  <2>3. (k + m) * S = p + q
    BY <2>1, <2>2, Distribute
  <2>4. PICK t \in Nat, g \in 0 .. S - 1, w \in Nat : w = t * S /\ d + x = w + g /\ g = (d + x) % S
    <3>1. d + x \in Nat
      OBVIOUS
    <3>2. /\ (d + x) \div S \in Nat /\ (d + x) % S \in 0 .. S - 1
          /\ d + x = ((d + x) \div S) * S + ((d + x) % S)
      BY <1>1, <3>1, DivMod
    <3>3. ((d + x) \div S) * S \in Nat
      BY <3>2
    <3> QED BY <3>2, <3>3
  <2>5. \A i, j \in Nat, y, z \in 0 .. S - 1 : i * S + y = j * S + z => y = z
    <3>1. ASSUME NEW i \in Nat, NEW j \in Nat, NEW y \in 0 .. S - 1, NEW z \in 0 .. S - 1,
                 i * S + y = j * S + z, i < j PROVE FALSE
      <4>1. i + 1 <= j
        BY <3>1
      <4>2. (i + 1) * S <= j * S
        <5>1. i + 1 \in Nat
          OBVIOUS
        <5> QED BY <1>1, <4>1, <5>1, TimesOrder
      <4>3. (i + 1) * S = i * S + S /\ i * S \in Nat /\ j * S \in Nat
        BY Distribute
      <4> QED BY <3>1, <4>2, <4>3
    <3>2. \A i, j \in Nat : i < j \/ j < i \/ i = j
      OBVIOUS
    <3>3. \A i \in Nat : i * S \in Nat
      OBVIOUS
    <3> QED BY <3>1, <3>2, <3>3
  <2>6. PICK h \in Nat : h = k + m /\ h * S = p + q
    BY <2>3
  <2>7. t * S + g = h * S + e
    BY <2>1, <2>2, <2>4, <2>6
  <2>8. g = e
    BY <2>5, <2>7
  <2> QED BY <2>2, <2>4, <2>8
<1>3. x % S \in 0 .. S - 1
  BY DivMod
<1> QED BY <1>1, <1>2, <1>3 DEF round_down, round_up

\* The frames that hold a byte of a range are those between its rounded ends.
LEMMA FramesBetween ==
  ASSUME NEW x \in Nat, NEW s \in Nat, NEW f \in Nat
  PROVE  f \in FramesOf(x, s)
           <=> /\ round_down(x, PAGE_SIZE) <= f * PAGE_SIZE
               /\ f * PAGE_SIZE < round_up(x + s, PAGE_SIZE)
<1>1. x \div PAGE_SIZE \in Nat /\ x + s \in Nat
  BY DivMod, PmmAssumption
<1>2. PICK p \in Nat, c \in Nat :
        /\ p = x \div PAGE_SIZE /\ c = PageCount(x + s)
        /\ round_down(x, PAGE_SIZE) = p * PAGE_SIZE
        /\ round_up(x + s, PAGE_SIZE) = c * PAGE_SIZE
  BY <1>1, Rounding
<1>3. f \in FramesOf(x, s) <=> p <= f /\ f < c
  BY <1>2 DEF FramesOf
<1> QED BY <1>2, <1>3, TimesOrder

\* A request stays inside the address space; it shows its frames in the direct map or
\* where the kernel is linked; and where vmm_map takes it, these are the frames that
\* hold a byte of it.
Good(r, low) ==
  LET q == Rounded(r)
  IN  /\ r.what \in Nat /\ r.size \in Nat
      /\ q.what \in Nat /\ q.where \in Nat /\ q.size \in Nat
      /\ q.flags = r.flags /\ q.flags \in SUBSET MemoryFlags /\ InSpace(q.where, q.size)
      /\ low => q.where = q.what + HHDM /\ q.where + q.size <= layout.virtual_base
      /\ ~low => /\ q.where + layout.physical_base = q.what + layout.virtual_base
                 /\ layout.virtual_base <= q.where
      /\ Whole(q) => \A f \in Nat : f \in FramesOf(r.what, r.size)
                       <=> q.what <= f * PAGE_SIZE /\ f * PAGE_SIZE < q.what + q.size

\* Each of the requests of main is such a request.
LEMMA DirectGood ==
  ASSUME layout \in Layouts, NEW i \in Mapping
  PROVE  Good(DirectTo(i), TRUE)
<1>1. PICK e : e = layout.memmap[i]
  OBVIOUS
<1>2. i \in Entries /\ e.type \in HhdmTypes
  BY <1>1 DEF Mapping
<1>3. e.base \in Nat /\ e.length \in Nat
  BY <1>1, <1>2, EntryFacts DEF Entry
<1>4. PICK r : r = DirectTo(i)
  OBVIOUS
<1>5. /\ r.what = e.base /\ r.where = HHDM + e.base /\ r.size = e.length
      /\ r.flags = HhdmFlags(e.type) /\ r.unaligned = FALSE
  BY <1>1, <1>4 DEF DirectTo, Request, phy_to_virt
<1>6. PICK q : q = Rounded(r)
  OBVIOUS
<1>7. q.what = e.base /\ q.where = HHDM + e.base /\ q.size = e.length /\ q.flags = r.flags
  BY <1>5, <1>6 DEF Rounded
<1>8. HhdmFlags(e.type) \in SUBSET MemoryFlags
  BY DEF HhdmFlags, MemoryFlags, CacheFlags
<1>9. /\ HHDM + (e.base + e.length) <= layout.virtual_base
      /\ layout.virtual_base \in Nat /\ HHDM \in Nat
  BY <1>1, <1>2, HandOver, VmmAssumption DEF LaidOut, HandedOver, EndOf, Entries
<1>10. InSpace(q.where, q.size)
  <2>1. PICK top : top = ENTRIES * ENTRIES * ENTRIES * ENTRIES * PAGE_SIZE
    OBVIOUS
  <2>2. top \in Nat
    BY <2>1, VmmAssumption, PmmAssumption
  <2>3. layout.virtual_base + 0 <= top
    BY <2>1, HandOver DEF LaidOut, InSpace
  <2>4. q.where + q.size <= top
    BY <1>3, <1>7, <1>9, <2>2, <2>3
  <2> QED BY <2>1, <2>4 DEF InSpace
<1>11. ASSUME Whole(q), NEW f \in Nat
       PROVE  f \in FramesOf(r.what, r.size)
                <=> q.what <= f * PAGE_SIZE /\ f * PAGE_SIZE < q.what + q.size
  <2>1. Aligned(e.base) /\ Aligned(e.base + e.length)
    BY <1>3, <1>7, <1>11, NextPage DEF Whole
  <2>2. /\ round_down(e.base, PAGE_SIZE) = e.base
        /\ round_up(e.base + e.length, PAGE_SIZE) = e.base + e.length
    BY <1>3, <2>1, Rounding
  <2> QED BY <1>3, <1>5, <1>7, <2>2, FramesBetween
<1>12. /\ r.what \in Nat /\ r.size \in Nat /\ q.what \in Nat /\ q.where \in Nat /\ q.size \in Nat
       /\ q.flags = r.flags /\ q.flags \in SUBSET MemoryFlags
       /\ q.where = q.what + HHDM /\ q.where + q.size <= layout.virtual_base
  BY <1>3, <1>5, <1>7, <1>8, <1>9
<1>13. Good(r, TRUE)
  BY <1>6, <1>10, <1>11, <1>12, Zenon DEF Good
<1> QED BY <1>4, <1>13, Zenon

\* The whole pages q of a range of s bytes at offset x of d, which shows at e.
WholePages(q, x, s, d, e, flags) ==
  /\ q.what \in Nat /\ q.where \in Nat /\ q.size \in Nat /\ q.flags = flags
  /\ q.what = d + round_down(x, PAGE_SIZE) /\ q.where = e + round_down(x, PAGE_SIZE)
  /\ q.where + q.size = e + round_up(x + s, PAGE_SIZE)
  /\ q.what + q.size = round_up(d + x + s, PAGE_SIZE)
  /\ q.what = round_down(d + x, PAGE_SIZE)
  /\ x + s <= round_up(x + s, PAGE_SIZE) /\ round_up(x + s, PAGE_SIZE) \in Nat

\* An unaligned request is rounded to whole pages, at both of its places alike.
LEMMA UnalignedIs ==
  ASSUME NEW x \in Nat, NEW s \in Nat, NEW d \in Nat, NEW e \in Nat, Aligned(d), Aligned(e),
         NEW flags
  PROVE  WholePages(Rounded(Request(d + x, e + x, s, flags, TRUE)), x, s, d, e, flags)
<1>15. PICK q : q = Rounded(Request(d + x, e + x, s, flags, TRUE))
  OBVIOUS
<1>1. PICK r : r = Request(d + x, e + x, s, flags, TRUE)
  OBVIOUS
<1>2. r.what = d + x /\ r.where = e + x /\ r.size = s /\ r.flags = flags /\ r.unaligned = TRUE
  BY <1>1 DEF Request
<1>3. PICK a \in Nat, b \in Nat :
        /\ a = round_down(x, PAGE_SIZE) /\ b = round_up(x + s, PAGE_SIZE)
        /\ a <= x /\ x + s <= b
  <2>1. x + s \in Nat
    OBVIOUS
  <2> QED BY <2>1, Rounding
<1>4. round_down(d + x, PAGE_SIZE) = d + a /\ round_down(e + x, PAGE_SIZE) = e + a
  BY <1>3, RoundingMoved
<1>5. round_up(d + x + s, PAGE_SIZE) = d + b
  <2>1. x + s \in Nat /\ d + x + s = d + (x + s)
    OBVIOUS
  <2> QED BY <1>3, <2>1, RoundingMoved
<1>6. PICK w, v, z : w = round_down(r.what, PAGE_SIZE) /\ v = round_down(r.where, PAGE_SIZE)
                  /\ z = round_up(r.what + r.size, PAGE_SIZE) - round_down(r.what, PAGE_SIZE)
  OBVIOUS
<1>11. q = [what |-> w, where |-> v, size |-> z, flags |-> flags]
  BY <1>1, <1>2, <1>6, <1>15, Zenon DEF Rounded
<1>12. q.what = w /\ q.where = v /\ q.size = z /\ q.flags = flags
  BY <1>11
<1>13. w = d + a /\ v = e + a
  BY <1>2, <1>4, <1>6, Zenon
<1>14. z = (d + b) - (d + a)
  BY <1>2, <1>4, <1>5, <1>6, Zenon
<1>7. q.what = d + a /\ q.where = e + a /\ q.size = (d + b) - (d + a) /\ q.flags = flags
  BY <1>12, <1>13, <1>14, Zenon
<1>8. q.size = b - a /\ q.size \in Nat
  BY <1>3, <1>7
<1>9. q.what \in Nat /\ q.where \in Nat
  BY <1>3, <1>7
<1>10. q.where + q.size = e + b /\ q.what + q.size = d + b
  BY <1>3, <1>7
<1>16. WholePages(q, x, s, d, e, flags)
  BY <1>3, <1>4, <1>5, <1>7, <1>8, <1>9, <1>10 DEF WholePages
<1> QED BY <1>15, <1>16, Zenon

\* What vmm_map_unaligned is called with is, in either half.
LEMMA UnalignedGood ==
  ASSUME layout \in Layouts, NEW low \in BOOLEAN,
         NEW x \in Nat, NEW s \in Nat, NEW d \in Nat, NEW e \in Nat, Aligned(d), Aligned(e),
         NEW flags \in SUBSET MemoryFlags,
         low => d = 0 /\ e = HHDM /\ HHDM + round_up(x + s, PAGE_SIZE) <= layout.virtual_base,
         ~low => /\ d = layout.physical_base /\ e = layout.virtual_base
                 /\ InSpace(layout.virtual_base + x, s)
  PROVE  Good(Request(d + x, e + x, s, flags, TRUE), low)
<1>1. PICK r, q : r = Request(d + x, e + x, s, flags, TRUE) /\ q = Rounded(r)
  OBVIOUS
<1>2. r.what = d + x /\ r.where = e + x /\ r.size = s /\ r.flags = flags
  BY <1>1 DEF Request
<1>3. PICK a \in Nat, b \in Nat :
        /\ q.what \in Nat /\ q.where \in Nat /\ q.size \in Nat /\ q.flags = flags
        /\ q.what = d + a /\ q.where = e + a /\ a = round_down(x, PAGE_SIZE)
        /\ q.where + q.size = e + b /\ b = round_up(x + s, PAGE_SIZE) /\ x + s <= b
        /\ q.what + q.size = round_up(d + x + s, PAGE_SIZE)
        /\ q.what = round_down(d + x, PAGE_SIZE)
  <2>1. /\ q.what \in Nat /\ q.where \in Nat /\ q.size \in Nat /\ q.flags = flags
        /\ q.what = d + round_down(x, PAGE_SIZE) /\ q.where = e + round_down(x, PAGE_SIZE)
        /\ q.where + q.size = e + round_up(x + s, PAGE_SIZE)
        /\ q.what + q.size = round_up(d + x + s, PAGE_SIZE)
        /\ q.what = round_down(d + x, PAGE_SIZE)
        /\ x + s <= round_up(x + s, PAGE_SIZE) /\ round_up(x + s, PAGE_SIZE) \in Nat
    <3>1. WholePages(Rounded(Request(d + x, e + x, s, flags, TRUE)), x, s, d, e, flags)
      BY UnalignedIs
    <3>2. WholePages(q, x, s, d, e, flags)
      BY <1>1, <3>1, Zenon
    <3> QED BY <3>2 DEF WholePages
  <2> QED BY <2>1, Rounding
<1>4. layout.virtual_base \in Nat /\ HHDM \in Nat /\ layout.physical_base \in Nat
  BY HandOver, VmmAssumption DEF HandedOver
<1>5. PICK top \in Nat : top = ENTRIES * ENTRIES * ENTRIES * ENTRIES * PAGE_SIZE /\ Aligned(top)
  <2>1. PICK k \in Nat : k = ENTRIES * ENTRIES * ENTRIES * ENTRIES
    BY VmmAssumption
  <2>2. (k * PAGE_SIZE) % PAGE_SIZE = 0 /\ k * PAGE_SIZE \in Nat
    BY Multiple, PmmAssumption
  <2> QED BY <2>1, <2>2 DEF Aligned
<1>6. InSpace(q.where, q.size)
  <2>1. CASE low
    <3>1. layout.virtual_base + 0 <= top
      BY <1>5, HandOver DEF LaidOut, InSpace
    <3>2. q.where + q.size <= top
      BY <1>3, <1>4, <2>1, <3>1
    <3> QED BY <1>5, <3>2 DEF InSpace
  <2>2. CASE ~low
    <3>1. e + x + s <= top
      BY <1>5, <2>2 DEF InSpace
    <3>2. e + (x + s) = e + x + s /\ x + s \in Nat /\ e + (x + s) \in Nat
      OBVIOUS
    <3>3. round_up(e + (x + s), PAGE_SIZE) <= top
      <4>1. PICK v \in Nat : v = e + (x + s) /\ v <= top
        BY <3>1, <3>2
      <4>2. round_up(v, PAGE_SIZE) <= top
        BY <1>5, <4>1, RoundUpLeast, PmmAssumption DEF Aligned
      <4> QED BY <4>1, <4>2
    <3>4. round_up(e + (x + s), PAGE_SIZE) = e + b
      BY <1>3, <3>2, RoundingMoved
    <3>5. q.where + q.size <= top
      BY <1>3, <3>3, <3>4
    <3> QED BY <1>5, <3>5 DEF InSpace
  <2> QED BY <2>1, <2>2
<1>7. low => q.where = q.what + HHDM /\ q.where + q.size <= layout.virtual_base
  BY <1>3, <1>4
<1>8. ~low => /\ q.where + layout.physical_base = q.what + layout.virtual_base
              /\ layout.virtual_base <= q.where
  BY <1>3, <1>4
<1>9. ASSUME NEW f \in Nat
      PROVE  f \in FramesOf(r.what, r.size)
               <=> q.what <= f * PAGE_SIZE /\ f * PAGE_SIZE < q.what + q.size
  <2>1. d + x \in Nat
    OBVIOUS
  <2>2. f \in FramesOf(d + x, s)
          <=> /\ round_down(d + x, PAGE_SIZE) <= f * PAGE_SIZE
              /\ f * PAGE_SIZE < round_up(d + x + s, PAGE_SIZE)
    BY <2>1, FramesBetween
  <2> QED BY <1>2, <1>3, <2>2
<1>10. /\ r.what \in Nat /\ r.size \in Nat /\ q.flags = r.flags /\ q.flags \in SUBSET MemoryFlags
  BY <1>2, <1>3
<1>11. Good(r, low)
  BY <1>1, <1>3, <1>6, <1>7, <1>8, <1>9, <1>10, Zenon DEF Good
<1> QED BY <1>1, <1>11, Zenon

\* So the segments are,
LEMMA LinkedGood ==
  ASSUME layout \in Layouts, NEW i \in Segments(layout, {"PT_LOAD", "PT_GNU_RELRO"})
  PROVE  Good(LinkedTo(i), FALSE)
<1>1. PICK h : h = layout.phdrs[i]
  OBVIOUS
<1>2. h \in Phdr
  <2>1. layout.phdrs \in Seq(Phdr) /\ i \in DOMAIN layout.phdrs
    BY HandOver DEF HandedOver, Segments
  <2> QED BY <1>1, <2>1
<1>3. h.vaddr \in Nat /\ h.memsz \in Nat
  BY <1>2 DEF Phdr
<1>4. elf_to_memory_flags(h.flags) \in SUBSET MemoryFlags
  BY DEF elf_to_memory_flags, MemoryFlags
<1>5. /\ layout.physical_base \in Nat /\ layout.virtual_base \in Nat
      /\ Aligned(layout.physical_base) /\ Aligned(layout.virtual_base)
      /\ InSpace(layout.virtual_base + h.vaddr, h.memsz)
  BY <1>1, HandOver DEF HandedOver, LaidOut
<1>6. Good(Request(layout.physical_base + h.vaddr, layout.virtual_base + h.vaddr, h.memsz,
                   elf_to_memory_flags(h.flags), TRUE), FALSE)
  BY <1>3, <1>4, <1>5, UnalignedGood
<1> QED BY <1>1, <1>6, Zenon DEF LinkedTo

\* and the registers.
LEMMA WindowGood ==
  ASSUME layout \in Layouts
  PROVE  /\ layout.has_ioapic => Good(IoapicWindow, TRUE)
         /\ ~layout.x2apic => Good(LapicWindow, TRUE)
<1>1. /\ layout.ioapic \in Nat /\ layout.ioapic_size \in Nat /\ layout.lapic \in Nat
      /\ layout.lapic_size \in Nat /\ HHDM \in Nat /\ Aligned(HHDM)
      /\ layout.has_ioapic =>
           HHDM + round_up(layout.ioapic + layout.ioapic_size, PAGE_SIZE) <= layout.virtual_base
      /\ ~layout.x2apic =>
           HHDM + round_up(layout.lapic + layout.lapic_size, PAGE_SIZE) <= layout.virtual_base
  BY HandOver, VmmAssumption DEF HandedOver, LaidOut
<1>2. {"M_W", "M_CACHE_UC"} \in SUBSET MemoryFlags /\ {"M_W"} \in SUBSET MemoryFlags
  BY DEF MemoryFlags, CacheFlags
<1>3. Aligned(0)
  BY PmmAssumption DEF Aligned
<1>4. 0 + layout.ioapic = layout.ioapic /\ 0 + layout.lapic = layout.lapic
  BY <1>1
<1>5. layout.has_ioapic =>
        Good(Request(0 + layout.ioapic, HHDM + layout.ioapic, layout.ioapic_size,
                     {"M_W", "M_CACHE_UC"}, TRUE), TRUE)
  BY <1>1, <1>2, <1>3, UnalignedGood
<1>6. ~layout.x2apic =>
        Good(Request(0 + layout.lapic, HHDM + layout.lapic, layout.lapic_size, {"M_W"}, TRUE), TRUE)
  BY <1>1, <1>2, <1>3, UnalignedGood
<1>7. layout.has_ioapic => Good(IoapicWindow, TRUE)
  BY <1>4, <1>5, Zenon DEF IoapicWindow, phy_to_virt
<1>8. ~layout.x2apic => Good(LapicWindow, TRUE)
  BY <1>4, <1>6, Zenon DEF LapicWindow, phy_to_virt
<1> QED BY <1>7, <1>8

\* The kernel's requests show their frames where it is linked, all others in the
\* direct map.
LEMMA AllGood ==
  ASSUME layout \in Layouts, NEW R, NEW a, NEW b, NEW n, Arranged(R, a, b, n),
         NEW j \in 1 .. Len(R)
  PROVE  Good(R[j], j <= a \/ j > n)
<1>1. /\ a \in Nat /\ b \in Nat /\ n \in Nat /\ a <= b /\ b <= n /\ n <= Len(R) /\ Len(R) \in Nat
      /\ j \in Nat
  BY DEF Arranged
<1>2. CASE j <= a
  <2>1. PICK i \in Mapping : R[j] = DirectTo(i)
    BY <1>1, <1>2 DEF Arranged
  <2>2. Good(R[j], TRUE)
    BY <2>1, DirectGood
  <2> QED BY <1>2, <2>2, Zenon
<1>3. CASE a < j /\ j <= n
  <2>1. PICK i \in Segments(layout, {"PT_LOAD", "PT_GNU_RELRO"}) : R[j] = LinkedTo(i)
    <3>1. /\ Segments(layout, {"PT_LOAD"}) \subseteq Segments(layout, {"PT_LOAD", "PT_GNU_RELRO"})
          /\ Segments(layout, {"PT_GNU_RELRO"}) \subseteq Segments(layout, {"PT_LOAD", "PT_GNU_RELRO"})
      BY DEF Segments
    <3>2. j \in a + 1 .. b \/ j \in b + 1 .. n
      BY <1>1, <1>3
    <3> QED BY <3>1, <3>2 DEF Arranged
  <2>2. Good(R[j], FALSE)
    BY <2>1, LinkedGood
  <2>3. ~(j <= a) /\ ~(j > n)
    BY <1>1, <1>3
  <2> QED BY <2>2, <2>3, Zenon
<1>4. CASE j > n
  <2>1. j \in n + 1 .. Len(R)
    BY <1>1, <1>4
  <2>2. Good(R[j], TRUE)
    BY <2>1, WindowGood DEF Arranged
  <2> QED BY <1>4, <2>2, Zenon
<1> QED BY <1>1, <1>2, <1>3, <1>4

-----------------------------------------------------------------------------
(* What the processor sees of the requests.                                *)

\* How much of the j-th request of R is mapped when the k-th has come c bytes far.
Extent(R, j, k, c) ==
  IF j < k THEN Rounded(R[j]).size ELSE IF j = k THEN c ELSE 0

\* Page v is among the first n bytes of a call.
Within(q, n, v) == q.where <= v * PAGE_SIZE /\ v * PAGE_SIZE < q.where + n

\* The j-th request has come through page v; one after it has.
Covers(R, j, k, c, v) == Within(Rounded(R[j]), Extent(R, j, k, c), v)

\* What a request asks for at page v.
AskedAt(q, v) == AskedFor(q, v * PAGE_SIZE - q.where)

Later(R, j, k, c, v) == \E i \in 1 .. k : j < i /\ Covers(R, i, k, c, v)

\* The last request that came to page v is the j-th, and the page shows what it
\* asked for.
LastAsked(R, j, k, c, m, pat, root, v) ==
  /\ Covers(R, j, k, c, v) /\ ~Later(R, j, k, c, v)
  /\ Shows(m, pat, root, v, AskedAt(Rounded(R[j]), v))
  /\ ~({"M_W", "M_X"} \subseteq Rounded(R[j]).flags)

\* The processor sees exactly what was asked for, and of two requests the later.
Exposed(R, k, c, m, pat, root) ==
  \A v \in VirtualPages :
    /\ \A j \in 1 .. k : Covers(R, j, k, c, v) => Translates(m, root, v)
    /\ Translates(m, root, v) => \E j \in 1 .. k : LastAsked(R, j, k, c, m, pat, root, v)

\* What shows nothing new keeps that.
LEMMA ExposedKept ==
  ASSUME NEW R, NEW k, NEW c, NEW m, NEW n, NEW pat, NEW root,
         Exposed(R, k, c, m, pat, root), \A v \in VirtualPages : Agree(m, n, root, v)
  PROVE  Exposed(R, k, c, n, pat, root)
<1>1. ASSUME NEW v \in VirtualPages
      PROVE  /\ Translates(n, root, v) <=> Translates(m, root, v)
             /\ \A view : Shows(n, pat, root, v, view) <=> Shows(m, pat, root, v, view)
  <2>1. Agree(m, n, root, v)
    OBVIOUS
  <2> QED BY <2>1, ViewKept DEF Agree
<1>2. \A v \in VirtualPages : \A j :
        LastAsked(R, j, k, c, n, pat, root, v) <=> LastAsked(R, j, k, c, m, pat, root, v)
  BY <1>1, Zenon DEF LastAsked
<1> QED BY <1>1, <1>2, Zenon DEF Exposed

\* When a request is mapped to its end, the next has come nowhere yet.
LEMMA ExposedOn ==
  ASSUME NEW R, NEW k \in Nat, NEW c, NEW m, NEW pat, NEW root,
         Exposed(R, k, c, m, pat, root), k > 0 => c = Rounded(R[k]).size,
         Rounded(R[k + 1]).where \in Nat
  PROVE  Exposed(R, k + 1, 0, m, pat, root)
<1>1. \A j \in 1 .. k : Extent(R, j, k + 1, 0) = Extent(R, j, k, c)
  BY DEF Extent
<1>2. \A j \in 1 .. k : \A v : Covers(R, j, k + 1, 0, v) <=> Covers(R, j, k, c, v)
  BY <1>1 DEF Covers
<1>3. ASSUME NEW v \in VirtualPages PROVE ~Covers(R, k + 1, k + 1, 0, v)
  <2>1. v \in Nat
    BY DEF VirtualPages
  <2>2. v * PAGE_SIZE \in Nat
    BY <2>1, TimesOrder
  <2>3. Extent(R, k + 1, k + 1, 0) = 0
    BY DEF Extent
  <2>7. PICK x : x = Rounded(R[k + 1])
    OBVIOUS
  <2>4. PICK p \in Nat : x = Rounded(R[k + 1]) /\ p = v * PAGE_SIZE
    BY <2>2, <2>7
  <2>5. x.where \in Nat
    BY <2>4
  <2>6. ~Within(x, 0, v)
    BY <2>4, <2>5 DEF Within
  <2> QED BY <2>3, <2>4, <2>6 DEF Covers
<1>4. 1 .. k + 1 = (1 .. k) \cup {k + 1}
  OBVIOUS
<1>5. \A v \in VirtualPages, j \in 1 .. k : Later(R, j, k + 1, 0, v) <=> Later(R, j, k, c, v)
  BY <1>2, <1>3, <1>4, Zenon DEF Later
<1>6. \A v \in VirtualPages, j \in 1 .. k :
        LastAsked(R, j, k + 1, 0, m, pat, root, v) <=> LastAsked(R, j, k, c, m, pat, root, v)
  BY <1>2, <1>5, Zenon DEF LastAsked
<1> QED BY <1>2, <1>3, <1>4, <1>6, Zenon DEF Exposed

\* A request comes to its next page.
LEMMA ExposedLeaf ==
  ASSUME NEW R, NEW k \in Nat \ {0}, NEW c \in Nat, NEW m, NEW n, NEW pat, NEW root,
         Exposed(R, k, c, m, pat, root), NEW w \in VirtualPages,
         Rounded(R[k]).where \in Nat, w * PAGE_SIZE = Rounded(R[k]).where + c,
         Shows(n, pat, root, w, AskedFor(Rounded(R[k]), c)),
         ~({"M_W", "M_X"} \subseteq Rounded(R[k]).flags),
         \A v \in VirtualPages \ {w} : Agree(m, n, root, v)
  PROVE  Exposed(R, k, c + PAGE_SIZE, n, pat, root)
<1>0. PICK q : q = Rounded(R[k])
  OBVIOUS
<1>1. PICK S \in Nat \ {0}, d \in Nat :
        q = Rounded(R[k]) /\ S = PAGE_SIZE /\ q.where \in Nat /\ d = c + S
  BY <1>0, PmmAssumption
<1>2. \A j \in 1 .. k - 1 : Extent(R, j, k, d) = Extent(R, j, k, c)
  BY DEF Extent
<1>3. Extent(R, k, k, d) = d /\ Extent(R, k, k, c) = c
  BY DEF Extent
<1>4. 1 .. k = (1 .. k - 1) \cup {k} /\ k \in 1 .. k /\ \A j \in 1 .. k - 1 : j < k
  OBVIOUS
<1>5. ASSUME NEW v \in VirtualPages
      PROVE  /\ Covers(R, k, k, d, v) <=> (Covers(R, k, k, c, v) \/ v = w)
             /\ v = w => ~Covers(R, k, k, c, v)
  <2>1. v \in Nat /\ w \in Nat
    BY DEF VirtualPages
  <2>2. PICK y \in Nat, z \in Nat, u \in Nat :
          y = v * S /\ z = w * S /\ u = (w + 1) * S /\ u = z + S
    <3>1. w + 1 \in Nat
      BY <2>1
    <3>2. v * S \in Nat /\ w * S \in Nat /\ (w + 1) * S = w * S + S
      BY <1>1, <2>1, Distribute
    <3> QED BY <3>1, <3>2
  <2>3. v < w + 1 <=> y < u
    BY <1>1, <2>1, <2>2, TimesOrder
  <2>4. w <= v <=> z <= y
    BY <1>1, <2>1, <2>2, TimesOrder
  <2>5. z = q.where + c
    BY <1>1, <2>2
  <2>6. Within(q, d, v) <=> (Within(q, c, v) \/ v = w)
    BY <1>1, <2>1, <2>2, <2>3, <2>4, <2>5 DEF Within
  <2>7. v = w => ~Within(q, c, v)
    BY <1>1, <2>1, <2>2, <2>5 DEF Within
  <2> QED BY <1>1, <1>3, <2>6, <2>7 DEF Covers
<1>6. \A v \in VirtualPages, j \in 1 .. k :
        v # w => (Covers(R, j, k, d, v) <=> Covers(R, j, k, c, v))
  BY <1>2, <1>4, <1>5 DEF Covers
<1>7. ASSUME NEW v \in VirtualPages, v # w
      PROVE  /\ Translates(n, root, v) <=> Translates(m, root, v)
             /\ \A view : Shows(n, pat, root, v, view) <=> Shows(m, pat, root, v, view)
  <2>1. Agree(m, n, root, v)
    BY <1>7
  <2> QED BY <2>1, ViewKept DEF Agree
<1>8. \A v \in VirtualPages, j \in 1 .. k :
        v # w => (Later(R, j, k, d, v) <=> Later(R, j, k, c, v))
  BY <1>6, Zenon DEF Later
<1>9. \A v \in VirtualPages, j \in 1 .. k :
        v # w => (LastAsked(R, j, k, d, n, pat, root, v) <=> LastAsked(R, j, k, c, m, pat, root, v))
  BY <1>6, <1>7, <1>8, Zenon DEF LastAsked
<1>10. LastAsked(R, k, k, d, n, pat, root, w)
  <2>1. Covers(R, k, k, d, w)
    BY <1>5
  <2>2. ~Later(R, k, k, d, w)
    BY DEF Later
  <2>3. w * PAGE_SIZE - q.where = c
    <3>1. PICK z : z = w * PAGE_SIZE
      OBVIOUS
    <3>2. z = q.where + c
      BY <1>1, <3>1
    <3>3. z - q.where = c
      BY <1>1, <3>2
    <3> QED BY <3>1, <3>3
  <2>4. Shows(n, pat, root, w, AskedAt(q, w))
    BY <1>1, <2>3 DEF AskedAt
  <2> QED BY <1>1, <2>1, <2>2, <2>4, Zenon DEF LastAsked
<1>11. Translates(n, root, w)
  BY DEF Shows
<1>12. Exposed(R, k, d, n, pat, root)
  BY <1>4, <1>6, <1>7, <1>9, <1>10, <1>11, Zenon DEF Exposed
<1> QED BY <1>1, <1>12

-----------------------------------------------------------------------------
(* The inductive invariant.                                                *)

\* The first n requests are mapped to their end.
Finished(R, n, k, c) ==
  \A j \in 1 .. n : j <= k /\ (j = k => c = Rounded(R[j]).size)

\* What is left of a loop over requests up to the n-th, after the first k.
Rest(R, k, n) ==
  /\ Listed(todo) /\ Len(todo) = n - k
  /\ \A i \in 1 .. n - k : todo[i] = R[k + i]

\* The call in progress is that for the k-th request.
InCall(R, k, c) ==
  /\ c = call.done
  /\ k = 0 => Idle
  /\ k > 0 => /\ call.what = Rounded(R[k]).what /\ call.where = Rounded(R[k]).where
              /\ call.size = Rounded(R[k]).size /\ call.flags = Rounded(R[k]).flags

\* Where main is when all requests are made, and when the tables are loaded.
Ends == {"pmm_reclaim", "pmm_zero", "done"}

Loaded == {"console", "acpi"} \cup Ends

\* Where main is, in terms of the requests.
Standpoint(R, n, k, c) ==
  /\ PML4 # 0 => InCall(R, k, c)
  /\ pc = "pmm_init" => PML4 = 0
  /\ pc = "vmm_init" /\ PML4 # 0 => k <= n /\ Rest(R, k, n)
  /\ pc = "console" => Idle /\ k = n /\ todo \in Seq(KallocSizes)
  /\ pc = "acpi" => k >= n /\ Rest(R, k, Len(R))
  /\ pc \in Ends => Idle

\* What of the requests is in the tables.
Shown(R, k, c) ==
  PML4 # 0 => /\ Exposed(R, k, c, mem, pat_msr, PML4)
              /\ \A j \in 1 .. k : Extent(R, j, k, c) # 0 => Whole(Rounded(R[j]))
              /\ k > 0 => c <= Rounded(R[k]).size

\* The tables are loaded when all of vmm_init is mapped, and the rest follows them.
Reached(R, n, k, c) ==
  /\ cr3 # 0 => PML4 # 0 /\ Finished(R, n, k, c)
  /\ cr3 # 0 <=> pc \in Loaded
  /\ pc \in Ends => k = Len(R) /\ Finished(R, Len(R), k, c)

\* How far main has come: while no check has failed it goes on from there.
Progress(R, n, k, c) ==
  Shown(R, k, c) /\ Reached(R, n, k, c) /\ (Running => Standpoint(R, n, k, c))

\* The inductive invariant: the managers are in order, and the tables hold exactly
\* the requests main has made so far.
BInv ==
  /\ VInv
  /\ pc \in {"pmm_init", "vmm_init"} \cup Loaded
  /\ \E k \in 0 .. Len(All), c \in Nat : Progress(All, InitCount, k, c)

\* Requests come from the hand-over, which nothing changes.
LEMMA AllStay ==
  ASSUME layout' = layout
  PROVE  All' = All /\ InitCount' = InitCount
<1>1. HhdmRequests' = HhdmRequests
  BY DEF HhdmRequests, OfTypes, Kept, HhdmFlags, HhdmTypes
<1>2. \A t : SegmentRequests(t)' = SegmentRequests(t)
  BY DEF SegmentRequests
<1>3. AcpiRequests' = AcpiRequests
  BY DEF AcpiRequests, LapicRequests, IoapicRequests, phy_to_virt
<1>4. VmmInitRequests' = VmmInitRequests
  BY <1>1, <1>2 DEF VmmInitRequests
<1> QED BY <1>3, <1>4 DEF All, InitCount

\* The parts of what is left of a loop.
LEMMA TailIs ==
  ASSUME NEW s, Listed(s)
  PROVE  /\ s = <<>> <=> Len(s) = 0
         /\ s # <<>> => /\ Head(s) = s[1] /\ Listed(Tail(s)) /\ Len(Tail(s)) = Len(s) - 1
                        /\ \A i \in 1 .. Len(s) - 1 : Tail(s)[i] = s[i + 1]
<1>1. PICK len \in Nat : len = Len(s) /\ s = [j \in 1 .. len |-> s[j]]
  BY DEF Listed
<1>2. PICK S : S = {s[j] : j \in 1 .. len}
  OBVIOUS
<1>3. s \in [1 .. len -> S]
  BY <1>1, <1>2
<1>4. s \in Seq(S)
  BY <1>3
<1>5. s = <<>> <=> Len(s) = 0
  BY <1>4
<1>6. CASE s # <<>>
  <2>1. PICK t : t = Tail(s)
    OBVIOUS
  <2>2. t \in Seq(S) /\ Len(t) = len - 1 /\ \A i \in 1 .. len - 1 : t[i] = s[i + 1]
    BY <1>1, <1>4, <1>6, <2>1
  <2>3. t = [j \in 1 .. Len(t) |-> t[j]] /\ Len(t) \in Nat
    BY <2>2
  <2>4. Head(s) = s[1]
    BY <1>4, <1>6
  <2> QED BY <1>1, <1>5, <1>6, <2>1, <2>2, <2>3, <2>4 DEF Listed
<1> QED BY <1>5, <1>6

\* What shows nothing new leaves the requests as they are shown.
LEMMA ShownKept ==
  ASSUME NEW R, NEW k, NEW c, Shown(R, k, c), Unseen
  PROVE  Shown(R, k, c)'
<1>1. /\ UNCHANGED <<PML4, pat_msr>>
      /\ PML4 # 0 => \A v \in VirtualPages : Agree(mem, mem', PML4, v)
  BY DEF Unseen
<1>2. CASE PML4 = 0
  BY <1>1, <1>2 DEF Shown
<1>3. CASE PML4 # 0
  <2>1. Exposed(R, k, c, mem', pat_msr, PML4)
    BY <1>1, <1>3, ExposedKept DEF Shown
  <2>2. Exposed(R, k, c, mem, pat_msr, PML4)'
    BY <1>1, <2>1
  <2> QED BY <1>1, <1>3, <2>2 DEF Shown
<1> QED BY <1>2, <1>3

\* Frames nobody holds are cleared: none of them is a table.
LEMMA ZeroStep ==
  ASSUME VInv, Idle, stage # "boot", mem' = memzero(FreePages),
         UNCHANGED <<pmmVars, PML4, cr3, pat_msr, call>>
  PROVE  VInv' /\ Unseen
<1>1. UNCHANGED <<layout, stage, panic, num_pages, bitmap, bitmap_phy, held>>
  BY DEF pmmVars
<1>2. Books' /\ Singles' = Singles
  BY <1>1, BooksStand DEF VInv
<1>3. Typing'
  <2>1. ZeroTable \in [Slots -> PageEntry]
    BY DEF ZeroTable, Clear, PageEntry
  <2>2. mem' \in Memories
    BY <2>1 DEF VInv, Typing, Memories, memzero
  <2> QED BY <1>1, <2>2 DEF VInv, Typing
<1>4. Walking'
  <2>1. Idle'
    BY DEF Idle
  <2> QED BY <1>1, <2>1 DEF VInv, Walking, Idle
<1>5. \A t \in Singles : mem'[t] = mem[t]
  <2>1. FreePages \cap Singles = {} /\ Singles \subseteq Frames
    BY FreeIs DEF VInv, Singles
  <2> QED BY <2>1 DEF memzero
<1>6. PML4 # 0 => Planted' /\ \A v \in VirtualPages : Agree(mem, mem', PML4, v)
  <2> SUFFICES ASSUME PML4 # 0
               PROVE  Planted' /\ \A v \in VirtualPages : Agree(mem, mem', PML4, v)
    OBVIOUS
  <2>1. /\ Tree(mem, PML4, Singles) /\ Granting(mem, PML4)
        /\ mem \in Memories /\ Singles \in SUBSET Frames
    BY DEF VInv, Planted, Typing, Singles
  <2>2. \A k \in 0 .. 2 : \A t \in Level(mem, PML4, k) : mem'[t] = mem[t]
    BY <1>5, <2>1 DEF Tree, Depths
  <2>3. Tree(mem', PML4, Singles) /\ Granting(mem', PML4)
    BY <2>1, <2>2, TreeKept, GrantingKept
  <2>4. \A v \in VirtualPages : Agree(mem, mem', PML4, v)
    BY <1>5, <2>1, SeenKept DEF VirtualPages
  <2> QED BY <1>2, <2>3, <2>4 DEF Planted
<1>7. Planted'
  BY <1>6 DEF Planted
<1>8. Unseen
  BY <1>6 DEF Unseen
<1>9. KernelGetsWhatWasAsked'
  BY <1>8, AskedStays
<1> QED BY <1>2, <1>3, <1>4, <1>7, <1>8, <1>9 DEF VInv

-----------------------------------------------------------------------------
(* The steps of main.                                                      *)

\* The places main can be at.
Places == {"pmm_init", "vmm_init"} \cup Loaded

\* What the requests of the hand-over in use have in common.
LEMMA RequestFacts ==
  ASSUME layout \in Layouts
  PROVE  /\ InitCount \in Nat /\ Len(All) \in Nat /\ InitCount <= Len(All)
         /\ \A j \in 1 .. Len(All) : \E low \in BOOLEAN : Good(All[j], low)
<1>1. PICK a, b : Arranged(All, a, b, InitCount)
  BY Arrangement
<1>2. InitCount \in Nat /\ Len(All) \in Nat /\ InitCount <= Len(All)
  BY <1>1 DEF Arranged
<1>3. ASSUME NEW j \in 1 .. Len(All) PROVE \E low \in BOOLEAN : Good(All[j], low)
  <2>1. Good(All[j], j <= a \/ j > InitCount)
    BY <1>1, AllGood
  <2>2. (j <= a \/ j > InitCount) \in BOOLEAN
    OBVIOUS
  <2> QED BY <2>1, <2>2
<1> QED BY <1>2, <1>3

\* The requests in terms that do not change.
Given(R, n) ==
  /\ R = All /\ n = InitCount /\ n \in Nat /\ Len(R) \in Nat /\ n <= Len(R)
  /\ \A j \in 1 .. Len(R) : \E low \in BOOLEAN : Good(R[j], low)

\* The invariant in those terms.
BInvInTerms ==
  /\ VInv /\ pc \in Places
  /\ \E R, n : /\ R = All /\ n = InitCount
               /\ \E k \in 0 .. Len(R), c \in Nat : Progress(R, n, k, c)

\* They say the same.
LEMMA BInvIs == BInv <=> BInvInTerms
BY Zenon DEF BInv, BInvInTerms, Places

\* A step of main, in those terms.
LEMMA Onward ==
  ASSUME VInv', layout' = layout, pc' \in Places, NEW R, NEW n, R = All, n = InitCount,
         NEW k \in 0 .. Len(R), NEW c \in Nat, Progress(R, n, k, c)'
  PROVE  BInv'
<1>1. All' = R /\ InitCount' = n
  BY AllStay
<1>2. BInvInTerms'
  BY <1>1, Zenon DEF BInvInTerms
<1>3. (BInv <=> BInvInTerms)'
  BY BInvIs, PTL
<1> QED BY <1>2, <1>3

\* What every step of main starts from.
LEMMA Setting ==
  ASSUME BInv
  PROVE  /\ VInv /\ pc \in Places /\ layout \in Layouts /\ Aligned(0) /\ 0 \in Nat
         /\ \E R, n : Given(R, n) /\ \E k \in 0 .. Len(R), c \in Nat : Progress(R, n, k, c)
<1>1. VInv /\ pc \in Places /\ layout \in Layouts /\ Aligned(0)
  BY PmmAssumption DEF BInv, Places, VInv, Books, Aligned
<1>2. Given(All, InitCount)
  BY <1>1, RequestFacts DEF Given
<1>3. \E k \in 0 .. Len(All), c \in Nat : Progress(All, InitCount, k, c)
  BY Zenon DEF BInv
<1> QED BY <1>1, <1>2, <1>3, Zenon

\* At boot nothing is asked for.
LEMMA BootStarts ==
  ASSUME BootInit
  PROVE  BInv
<1>1. VInv /\ layout \in Layouts /\ PML4 = 0 /\ cr3 = 0 /\ pc = "pmm_init"
  BY VmmStarts DEF BootInit, VInv, Books, VmmInit
<1>2. 0 \in 0 .. Len(All)
  BY <1>1, RequestFacts
<1>3. Progress(All, InitCount, 0, 0)
  BY <1>1 DEF Progress, Shown, Reached, Standpoint, Loaded, Ends
<1> QED BY <1>1, <1>2, <1>3 DEF BInv

\* A page of a call, or a check that stops main in it, is no new request.
LEMMA SameStandpoint ==
  ASSUME NEW R, NEW n, NEW k, NEW c, Progress(R, n, k, c), Shown(R, k, c)',
         UNCHANGED <<PML4, cr3, pc, todo>>,
         UNCHANGED <<call.what, call.where, call.size, call.flags, call.done>>,
         Running' => Running
  PROVE  Progress(R, n, k, c)'
<1>1. Reached(R, n, k, c)'
  BY DEF Progress, Reached, Finished
<1>2. Standpoint(R, n, k, c) => Standpoint(R, n, k, c)'
  BY DEF Standpoint, InCall, Idle, Rest
<1> QED BY <1>1, <1>2 DEF Progress

\* Nothing happens, or only memory is granted, freed or cleared, or main goes on.
LEMMA StutterStep ==
  ASSUME BInv, UNCHANGED bootVars
  PROVE  BInv'
<1>1. UNCHANGED <<layout, stage, panic, num_pages, bitmap, bitmap_phy, held>>
      /\ UNCHANGED <<mem, PML4, cr3, pat_msr, call, pc, todo>>
  BY DEF bootVars, allVars, pmmVars, vmmVars
<1>2. VInv'
  BY VmmStep, Setting DEF bootVars
<1>3. PICK R, n : Given(R, n) /\ \E k \in 0 .. Len(R), c \in Nat : Progress(R, n, k, c)
  BY Setting
<1>4. PICK k \in 0 .. Len(R), c \in Nat : Progress(R, n, k, c)
  BY <1>3
<1>5. Unseen
  BY <1>1 DEF Unseen, Agree
<1>6. Progress(R, n, k, c)'
  BY <1>1, <1>4, <1>5, ShownKept, SameStandpoint DEF Progress, Running
<1> QED BY <1>1, <1>2, <1>3, <1>4, <1>6, Setting, Onward DEF Given

\* boot_pmm_init.
LEMMA BootPmmInitStep ==
  ASSUME BInv, boot_pmm_init
  PROVE  BInv'
<1>1. /\ pc = "pmm_init" /\ Running /\ pmm_init /\ pc' = "vmm_init"
      /\ UNCHANGED vmmVars /\ todo' = todo
  BY DEF boot_pmm_init, At, Goto
<1>2. layout' = layout /\ UNCHANGED <<mem, PML4, cr3, pat_msr, call>>
  BY <1>1 DEF pmm_init, Panic, vmmVars
<1>3. PICK R, n : Given(R, n) /\ \E k \in 0 .. Len(R), c \in Nat : Progress(R, n, k, c)
  BY Setting
<1>4. PICK k \in 0 .. Len(R), c \in Nat : Progress(R, n, k, c)
  BY <1>3
<1>5. PML4 = 0 /\ cr3 = 0
  BY <1>1, <1>4 DEF Progress, Standpoint, Reached, Loaded, Ends
<1>6. Progress(R, n, k, c)'
  BY <1>1, <1>2, <1>5 DEF Progress, Shown, Reached, Standpoint, Loaded, Ends
<1>7. VInv'
  BY <1>1, PmmInitStep, Setting
<1> QED BY <1>1, <1>2, <1>3, <1>4, <1>6, <1>7, Onward DEF Given, Places

\* boot_vmm_init: the first loops begin, with nothing mapped.
LEMMA BootVmmInitStep ==
  ASSUME BInv, boot_vmm_init
  PROVE  BInv'
<1>1. /\ pc = "vmm_init" /\ vmm_init /\ pc' = pc /\ todo' = VmmInitRequests
      /\ cr3' = cr3 /\ call' = call
  BY DEF boot_vmm_init, At, vmm_init
<1>2. layout' = layout
  BY <1>1 DEF vmm_init, Panic, pmm_alloc_pages
<1>3. PICK R, n : Given(R, n) /\ \E k \in 0 .. Len(R), c \in Nat : Progress(R, n, k, c)
  BY Setting
<1>4. PICK k \in 0 .. Len(R), c \in Nat : Progress(R, n, k, c)
  BY <1>3
<1>5. cr3 = 0
  BY <1>1, <1>4 DEF Progress, Reached, Loaded, Ends
<1>6. /\ VInv /\ VInv' /\ PML4 = 0
      /\ PML4' # 0 => \A v \in VirtualPages : ~Translates(mem', PML4', v)
  BY <1>1, VmmInitStep, Setting
<1>7. call = NoCall
  BY <1>6 DEF VInv, Walking
<1>8. Shown(R, 0, 0)'
  BY <1>6 DEF Shown, Exposed
<1>9. Standpoint(R, n, 0, 0)'
  <2>1. InCall(R, 0, 0)'
    BY <1>1, <1>7 DEF InCall, NoCall, Idle
  <2>2. /\ Listed(VmmInitRequests) /\ Len(VmmInitRequests) = n
        /\ \A i \in 1 .. n : VmmInitRequests[i] = R[i]
    <3>1. n = Len(VmmInitRequests)
      BY <1>3 DEF Given, InitCount
    <3> QED BY <1>3, <3>1, Setting, Arrangement, Zenon DEF Given
  <2>3. Rest(R, 0, n)'
    BY <1>1, <1>3, <2>2 DEF Rest, Given
  <2> QED BY <1>1, <1>3, <2>1, <2>3 DEF Standpoint, Given, Ends
<1>10. Reached(R, n, 0, 0)'
  BY <1>1, <1>5 DEF Reached, Loaded, Ends
<1>11. Progress(R, n, 0, 0)'
  BY <1>8, <1>9, <1>10 DEF Progress
<1>12. 0 \in 0 .. Len(R)
  BY <1>3 DEF Given
<1> QED BY <1>1, <1>2, <1>3, <1>6, <1>11, <1>12, Onward DEF Given, Places

\* boot_load_cr3: all that vmm_init asks for is mapped.
LEMMA BootLoadStep ==
  ASSUME BInv, boot_load_cr3
  PROVE  BInv'
<1>1. /\ pc = "vmm_init" /\ Running /\ todo = <<>> /\ load_cr3 /\ pc' = "console"
      /\ todo' = layout.console
  BY DEF boot_load_cr3, At, Goto
<1>2. /\ UNCHANGED <<layout, stage, panic, num_pages, bitmap, bitmap_phy, held>>
      /\ UNCHANGED <<mem, PML4, pat_msr, call>> /\ PML4 # 0 /\ Idle /\ cr3' = PML4
  BY <1>1 DEF load_cr3, pmmVars
<1>3. PICK R, n : Given(R, n) /\ \E k \in 0 .. Len(R), c \in Nat : Progress(R, n, k, c)
  BY Setting
<1>4. PICK k \in 0 .. Len(R), c \in Nat : Progress(R, n, k, c)
  BY <1>3
<1>5. Shown(R, k, c) /\ k <= n /\ Rest(R, k, n) /\ InCall(R, k, c)
  BY <1>1, <1>2, <1>4 DEF Progress, Standpoint
<1>6. k = n
  <2>1. Len(todo) = 0 /\ Len(todo) = n - k
    BY <1>1, <1>5, TailIs DEF Rest
  <2> QED BY <1>3, <1>4, <2>1 DEF Given
<1>7. Finished(R, n, k, c)
  BY <1>2, <1>5, <1>6 DEF Finished, InCall, Idle
<1>8. VInv' /\ Unseen
  BY <1>1, LoadStep, Setting
<1>9. Shown(R, k, c)'
  BY <1>5, <1>8, ShownKept
<1>10. Reached(R, n, k, c)'
  BY <1>1, <1>2, <1>7 DEF Reached, Finished, Loaded, Ends
<1>11. Standpoint(R, n, k, c)'
  <2>1. layout.console \in Seq(KallocSizes)
    BY Setting, HandOver DEF HandedOver
  <2>2. Idle' /\ InCall(R, k, c)'
    BY <1>2, <1>5 DEF Idle, InCall
  <2> QED BY <1>1, <1>6, <2>1, <2>2 DEF Standpoint, Ends
<1>12. Progress(R, n, k, c)'
  BY <1>9, <1>10, <1>11 DEF Progress
<1> QED BY <1>1, <1>2, <1>3, <1>4, <1>8, <1>12, Onward DEF Given, Places, Loaded

\* Either call of a loop is vmm_map of the rounded request.
LEMMA CallIs ==
  ASSUME NEW r, NEW q, q = Rounded(r),
         \/ r.unaligned /\ vmm_map_unaligned(r.what, r.where, r.size, r.flags)
         \/ ~r.unaligned /\ vmm_map(r.what, r.where, r.size, r.flags)
  PROVE  vmm_map(q.what, q.where, q.size, q.flags)
<1>1. CASE r.unaligned /\ vmm_map_unaligned(r.what, r.where, r.size, r.flags)
  <2>1. PICK w, v, z : /\ w = round_down(r.what, PAGE_SIZE) /\ v = round_down(r.where, PAGE_SIZE)
                       /\ z = round_up(r.what + r.size, PAGE_SIZE) - round_down(r.what, PAGE_SIZE)
    OBVIOUS
  <2>2. q = [what |-> w, where |-> v, size |-> z, flags |-> r.flags]
    BY <1>1, <2>1, Zenon DEF Rounded
  <2>3. q.what = w /\ q.where = v /\ q.size = z /\ q.flags = r.flags
    BY <2>2
  <2>4. vmm_map(w, v, z, r.flags)
    BY <1>1, <2>1, Zenon DEF vmm_map_unaligned
  <2> QED BY <2>3, <2>4, Zenon
<1>2. CASE ~r.unaligned /\ vmm_map(r.what, r.where, r.size, r.flags)
  <2>1. q = [what |-> r.what, where |-> r.where, size |-> r.size, flags |-> r.flags]
    BY <1>2, Zenon DEF Rounded
  <2>2. q.what = r.what /\ q.where = r.where /\ q.size = r.size /\ q.flags = r.flags
    BY <2>1
  <2> QED BY <1>2, <2>2, Zenon
<1> QED BY <1>1, <1>2

\* map_next: a request is turned down, or becomes the call in progress.
LEMMA MapNextStep ==
  ASSUME BInv, map_next
  PROVE  BInv' /\ Unseen
<1>1. /\ pc \in {"vmm_init", "acpi"} /\ Running /\ PML4 # 0 /\ Idle /\ todo # <<>>
      /\ todo' = Tail(todo) /\ pc' = pc
  BY DEF map_next, At
<1>2. PICK r : r = Head(todo)
  OBVIOUS
<1>3. \/ r.unaligned /\ vmm_map_unaligned(r.what, r.where, r.size, r.flags)
      \/ ~r.unaligned /\ vmm_map(r.what, r.where, r.size, r.flags)
  BY <1>2, Zenon DEF map_next
<1>4. PICK q : q = Rounded(r)
  OBVIOUS
<1>5. vmm_map(q.what, q.where, q.size, q.flags)
  BY <1>3, <1>4, CallIs
<1>6. PICK R, n : Given(R, n) /\ \E k \in 0 .. Len(R), c \in Nat : Progress(R, n, k, c)
  BY Setting
<1>7. PICK k \in 0 .. Len(R), c \in Nat : Progress(R, n, k, c)
  BY <1>6
<1>8. n \in Nat /\ Len(R) \in Nat /\ n <= Len(R) /\ k \in Nat
  BY <1>6, <1>7 DEF Given
<1>9. PICK end \in {n, Len(R)} : /\ end = IF pc = "acpi" THEN Len(R) ELSE n
                                /\ Rest(R, k, end) /\ k <= end
  BY <1>1, <1>7, <1>8 DEF Progress, Standpoint
<1>10. InCall(R, k, c) /\ Shown(R, k, c) /\ Reached(R, n, k, c)
  BY <1>1, <1>7 DEF Progress, Standpoint
<1>11. /\ k < end /\ r = R[k + 1] /\ Rest(R, k + 1, end)'
  <2>1. /\ Listed(todo) /\ Len(todo) = end - k
        /\ \A i \in 1 .. end - k : todo[i] = R[k + i]
    BY <1>9 DEF Rest
  <2>2. /\ Len(todo) # 0 /\ Head(todo) = todo[1] /\ Listed(Tail(todo))
        /\ Len(Tail(todo)) = Len(todo) - 1
        /\ \A i \in 1 .. Len(todo) - 1 : Tail(todo)[i] = todo[i + 1]
    BY <1>1, <2>1, TailIs
  <2>3. k < end /\ end \in Nat
    BY <1>8, <1>9, <2>1, <2>2
  <2>4. r = R[k + 1]
    BY <1>2, <1>8, <2>1, <2>2, <2>3
  <2>5. ASSUME NEW i \in 1 .. end - (k + 1) PROVE todo'[i] = R[(k + 1) + i]
    <3>1. i \in 1 .. Len(todo) - 1 /\ i + 1 \in 1 .. end - k /\ k + (i + 1) = (k + 1) + i
      BY <1>8, <2>1, <2>3
    <3>2. todo'[i] = todo[i + 1] /\ todo[i + 1] = R[k + (i + 1)]
      BY <1>1, <2>1, <2>2, <3>1
    <3> QED BY <3>1, <3>2
  <2>6. Listed(todo') /\ Len(todo') = end - (k + 1)
    BY <1>1, <1>8, <2>1, <2>2, <2>3
  <2> QED BY <2>3, <2>4, <2>5, <2>6 DEF Rest
<1>12. k + 1 \in 1 .. Len(R) /\ k + 1 \in 0 .. Len(R)
  BY <1>8, <1>9, <1>11
<1>13. PICK low \in BOOLEAN : Good(r, low)
  BY <1>6, <1>11, <1>12 DEF Given
<1>14. /\ q.what \in Nat /\ q.where \in Nat /\ q.size \in Nat /\ q.flags \in SUBSET MemoryFlags
       /\ InSpace(q.where, q.size)
  BY <1>4, <1>13, Zenon DEF Good
<1>15. VInv' /\ Unseen
  BY <1>5, <1>14, MapStep, Setting
<1>16. UNCHANGED <<layout, PML4, cr3, mem, pat_msr>>
  BY <1>5 DEF vmm_map, Panic
<1>17. k > 0 => c = Rounded(R[k]).size
  BY <1>1, <1>10 DEF InCall, Idle
<1>18. CASE ~Whole(q)
  <2>1. call' = call /\ panic' = "map_not_aligned"
    BY <1>5, <1>18 DEF vmm_map, Panic, Whole
  <2>2. Shown(R, k, c)' /\ Reached(R, n, k, c)'
    BY <1>1, <1>10, <1>15, <1>16, ShownKept DEF Reached, Finished
  <2>3. Progress(R, n, k, c)'
    BY <2>1, <2>2 DEF Progress, Running
  <2> QED BY <1>1, <1>6, <1>7, <1>15, <1>16, <2>3, Onward DEF Given, Places, Loaded
<1>19. CASE Whole(q)
  <2>1. /\ call' = [what |-> q.what, where |-> q.where, size |-> q.size, flags |-> q.flags,
                    done |-> 0, depth |-> 0, table |-> PML4]
        /\ panic' = panic
    BY <1>5, <1>19 DEF vmm_map, Whole
  <2>2. /\ call'.what = q.what /\ call'.where = q.where /\ call'.size = q.size
        /\ call'.flags = q.flags /\ call'.done = 0
    BY <2>1
  <2>3. q = Rounded(R[k + 1])
    BY <1>4, <1>11, Zenon
  <2>4. InCall(R, k + 1, 0)'
    BY <1>8, <2>2, <2>3 DEF InCall
  <2>5. Shown(R, k + 1, 0)'
    <3>1. Exposed(R, k + 1, 0, mem, pat_msr, PML4)
      BY <1>1, <1>8, <1>10, <1>14, <1>17, <2>3, ExposedOn DEF Shown
    <3>2. Exposed(R, k + 1, 0, mem, pat_msr, PML4)'
      BY <1>16, <3>1
    <3>3. ASSUME NEW j \in 1 .. k + 1, Extent(R, j, k + 1, 0) # 0 PROVE Whole(Rounded(R[j]))
      <4>1. CASE j = k + 1
        BY <1>19, <2>3, <4>1
      <4>2. CASE j # k + 1
        <5>1. j \in 1 .. k /\ Extent(R, j, k, c) = Extent(R, j, k + 1, 0)
          BY <1>8, <1>17, <4>2 DEF Extent
        <5> QED BY <1>1, <1>10, <3>3, <5>1 DEF Shown
      <4> QED BY <4>1, <4>2
    <3>4. 0 <= Rounded(R[k + 1]).size
      BY <1>14, <2>3
    <3> QED BY <3>2, <3>3, <3>4 DEF Shown
  <2>6. Reached(R, n, k + 1, 0)'
    <3>1. cr3 # 0 => pc = "acpi"
      BY <1>1, <1>10 DEF Reached, Loaded, Ends
    <3>2. pc = "acpi" => k >= n
      BY <1>1, <1>7 DEF Progress, Standpoint
    <3>3. \A j \in 1 .. n : pc = "acpi" => j <= k + 1 /\ j # k + 1
      BY <1>8, <3>2
    <3> QED BY <1>1, <1>10, <1>16, <3>1, <3>3 DEF Reached, Finished, Loaded, Ends
  <2>7. Standpoint(R, n, k + 1, 0)'
    <3>1. pc = "acpi" => k + 1 >= n
      BY <1>1, <1>7, <1>8 DEF Progress, Standpoint
    <3>2. pc = "vmm_init" => end = n /\ k + 1 <= n
      BY <1>8, <1>9, <1>11
    <3>3. pc = "acpi" => end = Len(R)
      BY <1>9
    <3> QED BY <1>1, <1>11, <2>4, <3>1, <3>2, <3>3 DEF Standpoint, Ends
  <2>8. Progress(R, n, k + 1, 0)'
    BY <2>5, <2>6, <2>7 DEF Progress
  <2> QED BY <1>1, <1>6, <1>12, <1>15, <1>16, <2>8, Onward DEF Given, Places, Loaded
<1> QED BY <1>15, <1>18, <1>19

\* map_page before the leaf: a check stops it, or a table is found or hung below.
LEMMA PageStep ==
  ASSUME BInv, refuse_page \/ vmm_ensure_present, UNCHANGED <<pc, todo>>
  PROVE  BInv' /\ Unseen
<1>1. PICK R, n : Given(R, n) /\ \E k \in 0 .. Len(R), c \in Nat : Progress(R, n, k, c)
  BY Setting
<1>2. PICK k \in 0 .. Len(R), c \in Nat : Progress(R, n, k, c)
  BY <1>1
<1>3. VInv' /\ Unseen
  <2>1. CASE refuse_page
    BY <2>1, RefuseStep, Setting DEF refuse_page, vmmVars, Unseen, Agree
  <2>2. CASE vmm_ensure_present
    BY <2>2, EnsureStep, Setting
  <2> QED BY <2>1, <2>2
<1>4. call \in Calls
  BY Setting DEF VInv, Typing
<1>5. UNCHANGED <<call.what, call.where, call.size, call.flags, call.done>>
  <2>1. CASE call' = call
    BY <2>1
  <2>2. ASSUME NEW table, call' = [call EXCEPT !.depth = @ + 1, !.table = table]
        PROVE  UNCHANGED <<call.what, call.where, call.size, call.flags, call.done>>
    BY <1>4, <2>2 DEF Calls
  <2> QED BY <2>1, <2>2 DEF refuse_page, vmmVars, vmm_ensure_present
<1>6. UNCHANGED <<layout, cr3, PML4>> /\ Running
  BY DEF refuse_page, vmm_ensure_present, AtPage, Panic, vmmVars, pmmVars, pmm_alloc_pages
<1>7. Progress(R, n, k, c)'
  BY <1>2, <1>3, <1>5, <1>6, ShownKept, SameStandpoint DEF Progress
<1> QED BY <1>1, <1>2, <1>3, <1>6, <1>7, Setting, Onward DEF Given

\* A call stands at the beginning of a page.
LEMMA PageIsAt ==
  ASSUME VInv
  PROVE  Page * PAGE_SIZE = call.where + call.done
<1>1. Aligned(call.where) /\ Aligned(call.done) /\ call.where \in Nat /\ call.done \in Nat
  BY DEF VInv, Walking, Typing, Calls
<1>2. PICK x \in Nat : x = call.where + call.done /\ Aligned(x)
  <2>1. Aligned(call.where + call.done)
    BY <1>1, NextPage
  <2> QED BY <1>1, <2>1
<1>3. round_down(x, PAGE_SIZE) = (x \div PAGE_SIZE) * PAGE_SIZE /\ round_down(x, PAGE_SIZE) = x
  BY <1>2, Rounding
<1>4. Page = x \div PAGE_SIZE
  BY <1>2 DEF Page, Where
<1> QED BY <1>2, <1>3, <1>4, Zenon

\* map_page at the leaf: the request in progress comes one page further.
LEMMA LeafPageStep ==
  ASSUME BInv, vmm_set_leaf, UNCHANGED <<pc, todo>>
  PROVE  BInv'
<1>1. PICK R, n : Given(R, n) /\ \E k \in 0 .. Len(R), c \in Nat : Progress(R, n, k, c)
  BY Setting
<1>2. PICK k \in 0 .. Len(R), c \in Nat : Progress(R, n, k, c)
  BY <1>1
<1>3. /\ VInv /\ VInv' /\ PML4 # 0 /\ UNCHANGED <<PML4, pat_msr>>
      /\ Page \in VirtualPages
      /\ Shows(mem', pat_msr, PML4, Page, AskedFor(call, call.done))
      /\ ~({"M_W", "M_X"} \subseteq call.flags)
      /\ \A v \in VirtualPages \ {Page} : Agree(mem, mem', PML4, v)
  BY LeafStep, Setting
<1>4. /\ Running /\ ~Idle /\ UNCHANGED <<layout, panic, cr3>>
      /\ call' = [call EXCEPT !.done = @ + PAGE_SIZE, !.depth = 0, !.table = PML4]
  BY DEF vmm_set_leaf, pmmVars
<1>5. call \in Calls /\ call.done < call.size
  BY <1>4, Standing, Setting
<1>6. /\ call'.done = call.done + PAGE_SIZE
      /\ UNCHANGED <<call.what, call.where, call.size, call.flags>>
  BY <1>4, <1>5 DEF Calls
<1>7. Standpoint(R, n, k, c) /\ Shown(R, k, c) /\ Reached(R, n, k, c) /\ InCall(R, k, c)
  BY <1>2, <1>3, <1>4 DEF Progress, Standpoint
<1>8. PICK q : q = Rounded(R[k])
  OBVIOUS
<1>9. /\ k \in 1 .. Len(R) /\ k \in Nat \ {0} /\ c = call.done
      /\ call.what = q.what /\ call.where = q.where /\ call.size = q.size /\ call.flags = q.flags
  BY <1>1, <1>4, <1>7, <1>8 DEF InCall, Given
<1>10. /\ Aligned(call.what) /\ Aligned(call.where) /\ Aligned(call.size) /\ Aligned(call.done)
       /\ call.where \in Nat /\ call.done \in Nat /\ call.size \in Nat
  BY <1>3, <1>5 DEF VInv, Walking, Calls
<1>11. PICK d \in Nat : d = c + PAGE_SIZE /\ d <= q.size
  <2>1. call.done + PAGE_SIZE <= call.size
    BY <1>5, <1>10, NextPage
  <2> QED BY <1>9, <1>10, <2>1, PmmAssumption
<1>12. Page * PAGE_SIZE = q.where + c
  BY <1>3, <1>9, PageIsAt
<1>13. Shown(R, k, d)'
  <2>1. AskedFor(q, c) = AskedFor(call, call.done)
    BY <1>9, Zenon DEF AskedFor
  <2>2. Shows(mem', pat_msr, PML4, Page, AskedFor(Rounded(R[k]), c))
    BY <1>3, <1>8, <2>1, Zenon
  <2>3. Exposed(R, k, c, mem, pat_msr, PML4)
    BY <1>3, <1>7 DEF Shown
  <2>4. ~({"M_W", "M_X"} \subseteq Rounded(R[k]).flags)
    BY <1>3, <1>8, <1>9
  <2>5. Exposed(R, k, d, mem', pat_msr, PML4)
    BY <1>3, <1>8, <1>9, <1>10, <1>11, <1>12, <2>2, <2>3, <2>4, ExposedLeaf
  <2>6. Exposed(R, k, d, mem, pat_msr, PML4)'
    BY <1>3, <2>5
  <2>7. ASSUME NEW j \in 1 .. k, Extent(R, j, k, d) # 0 PROVE Whole(Rounded(R[j]))
    <3>1. CASE j = k
      BY <1>8, <1>9, <1>10, <3>1 DEF Whole
    <3>2. CASE j # k
      <4>1. Extent(R, j, k, d) = Extent(R, j, k, c)
        BY <1>9, <3>2 DEF Extent
      <4> QED BY <1>3, <1>7, <2>7, <4>1 DEF Shown
    <3> QED BY <3>1, <3>2
  <2> QED BY <1>8, <1>11, <2>6, <2>7 DEF Shown
<1>14. pc \in {"vmm_init", "acpi"}
  <2>1. pc # "pmm_init" /\ pc # "console" /\ pc \notin Ends
    BY <1>3, <1>4, <1>7 DEF Standpoint
  <2> QED BY <2>1, Setting DEF Places, Loaded
<1>15. Reached(R, n, k, d)'
  <2>1. ASSUME cr3 # 0 PROVE Finished(R, n, k, d)
    <3>1. Finished(R, n, k, c)
      BY <1>7, <2>1 DEF Reached
    <3>2. c # Rounded(R[k]).size
      BY <1>5, <1>8, <1>9, <1>10
    <3> QED BY <3>1, <3>2 DEF Finished
  <2> QED BY <1>3, <1>4, <1>7, <1>14, <2>1 DEF Reached, Finished, Ends
<1>16. Standpoint(R, n, k, d)'
  <2>1. InCall(R, k, d)'
    BY <1>6, <1>8, <1>9, <1>11 DEF InCall
  <2> QED BY <1>3, <1>7, <1>14, <2>1 DEF Standpoint, Rest, Ends
<1>17. Progress(R, n, k, d)'
  BY <1>13, <1>15, <1>16 DEF Progress
<1> QED BY <1>1, <1>2, <1>3, <1>4, <1>17, Setting, Onward DEF Given

\* flanterm_fb_init: the console is granted memory, and then the drivers follow.
LEMMA ConsoleStep ==
  ASSUME BInv, flanterm_fb_init
  PROVE  BInv' /\ Unseen
<1>1. PICK R, n : Given(R, n) /\ \E k \in 0 .. Len(R), c \in Nat : Progress(R, n, k, c)
  BY Setting
<1>2. PICK k \in 0 .. Len(R), c \in Nat : Progress(R, n, k, c)
  BY <1>1
<1>3. pc = "console" /\ Running
  BY DEF flanterm_fb_init, At
<1>4. /\ Shown(R, k, c) /\ Reached(R, n, k, c) /\ Standpoint(R, n, k, c)
      /\ Idle /\ k = n /\ todo \in Seq(KallocSizes)
  BY <1>2, <1>3 DEF Progress, Standpoint
<1>5. CASE todo # <<>>
  <2>1. PICK content \in Contents : allocate(Head(todo), content)
    BY <1>5 DEF flanterm_fb_init
  <2>2. todo' = Tail(todo) /\ pc' = pc
    BY <1>5 DEF flanterm_fb_init
  <2>3. Head(todo) \in KallocSizes /\ Tail(todo) \in Seq(KallocSizes)
    BY <1>4, <1>5
  <2>4. VInv' /\ Unseen
    BY <2>1, <2>3, AllocateStep, Setting
  <2>5. UNCHANGED <<PML4, cr3, pat_msr, call, layout>>
    BY <2>1 DEF allocate, kalloc, pmm_alloc_pages, Panic
  <2>6. Shown(R, k, c)'
    BY <1>4, <2>4, ShownKept
  <2>7. Reached(R, n, k, c)'
    BY <1>4, <2>2, <2>5 DEF Reached, Finished
  <2>8. Standpoint(R, n, k, c)'
    BY <1>3, <1>4, <2>2, <2>3, <2>5 DEF Standpoint, InCall, Idle, Ends
  <2>9. Progress(R, n, k, c)'
    BY <2>6, <2>7, <2>8 DEF Progress
  <2> QED BY <1>1, <1>2, <2>2, <2>4, <2>5, <2>9, Setting, Onward DEF Given
<1>6. CASE todo = <<>>
  <2>1. pc' = "acpi" /\ todo' = AcpiRequests /\ UNCHANGED allVars
    BY <1>6 DEF flanterm_fb_init, Goto
  <2>2. /\ UNCHANGED <<layout, stage, panic, num_pages, bitmap, bitmap_phy, held>>
        /\ UNCHANGED <<mem, PML4, cr3, pat_msr, call>>
    BY <2>1 DEF allVars, pmmVars, vmmVars
  <2>3. VInv'
    BY <2>1, VmmStep, Setting
  <2>4. Unseen
    BY <2>2 DEF Unseen, Agree
  <2>5. Shown(R, k, c)'
    BY <1>4, <2>4, ShownKept
  <2>6. Reached(R, n, k, c)'
    BY <1>3, <1>4, <2>1, <2>2 DEF Reached, Finished, Loaded, Ends
  <2>7. /\ Listed(AcpiRequests) /\ Len(AcpiRequests) = Len(R) - n
        /\ \A i \in 1 .. Len(R) - n : AcpiRequests[i] = R[n + i]
    <3>1. /\ Listed(AcpiRequests) /\ Len(AcpiRequests) \in Nat
          /\ Len(R) = n + Len(AcpiRequests) /\ n \in Nat
          /\ \A i \in 1 .. Len(AcpiRequests) : R[n + i] = AcpiRequests[i]
      BY <1>1, Setting, Arrangement, Zenon DEF Given
    <3> QED BY <3>1
  <2>8. Rest(R, k, Len(R))'
    BY <1>4, <2>1, <2>7 DEF Rest
  <2>9. Standpoint(R, n, k, c)'
    <3>1. k >= n
      BY <1>1, <1>4 DEF Given
    <3> QED BY <1>4, <2>1, <2>2, <2>8, <3>1 DEF Standpoint, InCall, Idle, Ends
  <2>10. Progress(R, n, k, c)'
    BY <2>5, <2>6, <2>9 DEF Progress
  <2> QED BY <1>1, <1>2, <2>1, <2>2, <2>3, <2>4, <2>10, Onward DEF Given, Places, Loaded
<1> QED BY <1>5, <1>6

\* acpi_done: the last request is mapped to its end.
LEMMA AcpiDoneStep ==
  ASSUME BInv, acpi_done
  PROVE  BInv' /\ Unseen
<1>1. PICK R, n : Given(R, n) /\ \E k \in 0 .. Len(R), c \in Nat : Progress(R, n, k, c)
  BY Setting
<1>2. PICK k \in 0 .. Len(R), c \in Nat : Progress(R, n, k, c)
  BY <1>1
<1>3. /\ pc = "acpi" /\ Running /\ todo = <<>> /\ Idle /\ pc' = "pmm_reclaim"
      /\ UNCHANGED allVars
  BY DEF acpi_done, At, Goto
<1>4. /\ UNCHANGED <<layout, stage, panic, num_pages, bitmap, bitmap_phy, held>>
      /\ UNCHANGED <<mem, PML4, cr3, pat_msr, call>>
  BY <1>3 DEF allVars, pmmVars, vmmVars
<1>5. VInv'
  BY <1>3, VmmStep, Setting
<1>6. Unseen
  BY <1>4 DEF Unseen, Agree
<1>7. Shown(R, k, c) /\ Reached(R, n, k, c) /\ Standpoint(R, n, k, c) /\ Rest(R, k, Len(R))
  BY <1>2, <1>3 DEF Progress, Standpoint
<1>8. k = Len(R)
  <2>1. Len(todo) = 0 /\ Len(todo) = Len(R) - k
    BY <1>3, <1>7, TailIs DEF Rest
  <2> QED BY <1>1, <1>2, <2>1 DEF Given
<1>9. PML4 # 0 /\ InCall(R, k, c) /\ cr3 # 0
  BY <1>3, <1>7 DEF Reached, Standpoint, Loaded
<1>10. Finished(R, Len(R), k, c)
  BY <1>1, <1>3, <1>8, <1>9 DEF Finished, InCall, Idle, Given
<1>11. Progress(R, n, k, c)'
  <2>1. Shown(R, k, c)'
    BY <1>6, <1>7, ShownKept
  <2>2. Reached(R, n, k, c)'
    BY <1>3, <1>4, <1>7, <1>8, <1>10 DEF Reached, Finished, Loaded, Ends
  <2>3. Standpoint(R, n, k, c)'
    BY <1>3, <1>4, <1>9 DEF Standpoint, InCall, Idle, Ends
  <2> QED BY <2>1, <2>2, <2>3 DEF Progress
<1> QED BY <1>1, <1>2, <1>3, <1>4, <1>5, <1>6, <1>11, Onward DEF Given, Places, Loaded, Ends

\* pmm_reclaim and the clearing of free memory touch no table.
LEMMA EndStep ==
  ASSUME BInv, boot_pmm_reclaim \/ pmm_zero
  PROVE  BInv' /\ Unseen
<1>1. PICK R, n : Given(R, n) /\ \E k \in 0 .. Len(R), c \in Nat : Progress(R, n, k, c)
  BY Setting
<1>2. PICK k \in 0 .. Len(R), c \in Nat : Progress(R, n, k, c)
  BY <1>1
<1>3. /\ pc \in Ends /\ Running /\ pc' \in Ends /\ todo' = todo
      /\ UNCHANGED <<layout, PML4, cr3, pat_msr, call>>
  BY DEF boot_pmm_reclaim, pmm_zero, At, Goto, Ends, pmm_reclaim, Panic, vmmVars, pmmVars
<1>4. Shown(R, k, c) /\ Reached(R, n, k, c) /\ Standpoint(R, n, k, c) /\ Idle
  BY <1>2, <1>3 DEF Progress, Standpoint
<1>5. PML4 # 0 /\ stage # "boot"
  <2>1. PML4 # 0
    BY <1>3, <1>4 DEF Reached, Loaded
  <2> QED BY <2>1, Setting DEF VInv, Walking
<1>6. VInv' /\ Unseen
  <2>1. CASE boot_pmm_reclaim
    BY <2>1, PmmReclaimStep, Setting DEF boot_pmm_reclaim, vmmVars, Unseen, Agree
  <2>2. CASE pmm_zero
    BY <1>4, <1>5, <2>2, ZeroStep, Setting DEF pmm_zero
  <2> QED BY <2>1, <2>2
<1>7. Progress(R, n, k, c)'
  <2>1. Shown(R, k, c)'
    BY <1>4, <1>6, ShownKept
  <2>2. Reached(R, n, k, c)'
    BY <1>3, <1>4 DEF Reached, Finished, Loaded
  <2>3. InCall(R, k, c)' /\ Idle'
    BY <1>3, <1>4, <1>5 DEF Standpoint, InCall, Idle
  <2>4. Standpoint(R, n, k, c)'
    BY <1>3, <2>3 DEF Standpoint, Ends
  <2> QED BY <2>1, <2>2, <2>4 DEF Progress
<1> QED BY <1>1, <1>2, <1>3, <1>6, <1>7, Onward DEF Given, Places, Loaded

\* Every step of main keeps the invariant.
LEMMA BootStep ==
  ASSUME BInv, [BootNext]_bootVars
  PROVE  BInv'
<1>1. CASE map_page
  BY <1>1, PageStep, LeafPageStep DEF map_page
<1> QED BY <1>1, StutterStep, BootPmmInitStep, BootVmmInitStep, BootLoadStep, MapNextStep,
           ConsoleStep, AcpiDoneStep, EndStep DEF BootNext

\* BInv holds at boot and every step of main keeps it.
THEOREM BootInductive == BootSpec => []BInv
BY BootStarts, BootStep, PTL DEF BootSpec

-----------------------------------------------------------------------------
(* Live frames.                                                            *)

\* The pages of an entry are frames that hold a byte of it, and some byte does.
LEMMA PagesAreFrames ==
  ASSUME layout \in Layouts, NEW i \in Entries, NEW f \in EntryPages(layout.memmap[i])
  PROVE  /\ f \in Nat /\ f \in EntryFrames(layout, i)
         /\ layout.memmap[i].length \in Nat \ {0}
<1>1. PICK e : e = layout.memmap[i]
  OBVIOUS
<1>2. e.base \in Nat /\ e.length \in Nat
  BY <1>1, EntryFacts DEF Entry
<1>3. f \in PagesOf(e.base, e.length)
  BY <1>1 DEF EntryPages
<1>4. PICK end \in Nat : end = e.base + e.length
  BY <1>2
<1>5. f \in Nat /\ e.base \div PAGE_SIZE <= f /\ f < end \div PAGE_SIZE
  BY <1>2, <1>3, <1>4, PagesOfMember
<1>6. PageCount(end) \in Nat /\ end \div PAGE_SIZE <= PageCount(end)
  BY <1>4, PageCountNat
<1>7. e.base \div PAGE_SIZE \in Nat /\ end \div PAGE_SIZE \in Nat
  BY <1>2, <1>4, DivMod, PmmAssumption
<1>8. f \in FramesOf(e.base, e.length)
  BY <1>4, <1>5, <1>6, <1>7 DEF FramesOf
<1>9. e.length # 0
  BY <1>2, <1>4, <1>5, <1>7
<1> QED BY <1>1, <1>2, <1>5, <1>8, <1>9 DEF EntryFrames

\* Managed memory is usable memory, or memory that pmm_reclaim has added.
LEMMA ManagedIs ==
  ASSUME NEW f \in Managed
  PROVE  \/ f \in PagesOfType({"USABLE"}) /\ f \notin BitmapPages
         \/ stage = "reclaimed" /\ f \in PagesOfType(ReclaimTypes) /\ f \notin StackPages
BY DEF Managed

\* The bitmap lies in usable memory, and the loader's is not.
LEMMA BitmapUsable ==
  ASSUME Books, stage # "boot"
  PROVE  BitmapPages \subseteq PagesOfType({"USABLE"})
<1>1. PICK i \in Entries : /\ layout.memmap[i].type = "USABLE"
                           /\ BitmapPages \subseteq EntryPages(layout.memmap[i])
  BY DEF Books, BitmapInsideUsable, Entries
<1> QED BY <1>1, PagesOfTypeMember

\* Before vmm_init there are no tables.
LEMMA NoTables ==
  ASSUME PML4 = 0
  PROVE  TableFrames = {}
<1>1. Below({}) = {}
  BY DEF Below
<1>2. Directories = {}
  BY <1>1 DEF Directories
<1> QED BY <1>1, <1>2 DEF TableFrames

\* No frame in use is marked free.
LEMMA LiveIsNotFree ==
  ASSUME VInv
  PROVE  LiveNeverFree
<1> SUFFICES ASSUME stage # "boot", NEW f \in FreePages PROVE f \notin LiveFrames
  BY DEF LiveNeverFree
<1>1. Books /\ layout \in Layouts
  BY DEF VInv, Books
<1>2. f \in Managed
  BY <1>1 DEF Books, Conserved
<1>3. PagesOfType({"USABLE"}) \cap PagesOfType(ReclaimTypes) = {}
  BY <1>1, UsableApart
<1>4. f \notin BitmapPages
  BY <1>1, <1>2, <1>3, ManagedIs, BitmapUsable
<1>5. f \notin TableFrames
  <2>1. CASE PML4 = 0
    BY <2>1, NoTables
  <2>2. CASE PML4 # 0
    BY <1>1, <2>2, TablesAre, FreeIs
  <2> QED BY <2>1, <2>2
<1>6. f \notin KernelPages
  <2> SUFFICES ASSUME f \in PagesOfType({"EXECUTABLE_AND_MODULES"}) PROVE FALSE
    BY DEF KernelPages
  <2>1. PICK i \in Entries : /\ layout.memmap[i].type = "EXECUTABLE_AND_MODULES"
                             /\ f \in EntryPages(layout.memmap[i])
    BY PagesOfTypeMember
  <2>2. PICK j \in Entries : /\ layout.memmap[j].type \in {"USABLE"} \cup ReclaimTypes
                             /\ f \in EntryPages(layout.memmap[j])
    BY <1>2, ManagedIs, PagesOfTypeMember
  <2>3. f \in EntryFrames(layout, i) /\ f \in EntryFrames(layout, j)
    BY <1>1, <2>1, <2>2, PagesAreFrames
  <2>4. i # j /\ layout.memmap[j].type \in HhdmTypes
    BY <2>1, <2>2 DEF ReclaimTypes, HhdmTypes, RamTypes
  <2> QED BY <1>1, <2>1, <2>3, <2>4, HandOver DEF UsedOnce, Entries
<1>7. f \notin StackPages
  BY <1>1, <1>2, <1>3, ManagedIs, StackInReclaimed
<1>8. stage # "reclaimed" => f \notin LoaderPages
  <2>1. LoaderPages \subseteq PagesOfType(ReclaimTypes)
    BY PagesOfTypeMember DEF LoaderPages, ReclaimTypes
  <2> QED BY <1>2, <1>3, <2>1, ManagedIs
<1> QED BY <1>4, <1>5, <1>6, <1>7, <1>8 DEF LiveFrames

\* No live frame is ever marked free, so none is granted, or cleared by pmm_zero.
THEOREM LiveStaysLive == BootSpec => []LiveNeverFree
<1>1. BInv => LiveNeverFree
  BY LiveIsNotFree DEF BInv
<1> QED BY <1>1, BootInductive, PTL

-----------------------------------------------------------------------------
(* Pages of a request.                                                     *)

\* Page v is where the request shows frame f: in the direct map, or where the kernel
\* is linked.
Place(low, v, f) ==
  /\ low => /\ v * PAGE_SIZE = f * PAGE_SIZE + HHDM
            /\ v * PAGE_SIZE < layout.virtual_base
  /\ ~low => /\ v * PAGE_SIZE + layout.physical_base = f * PAGE_SIZE + layout.virtual_base
             /\ layout.virtual_base <= v * PAGE_SIZE

\* The difference of aligned numbers is a number of pages.
LEMMA Difference ==
  ASSUME NEW x \in Nat, NEW y \in Nat, Aligned(x), Aligned(y), y <= x
  PROVE  \E f \in Nat : f * PAGE_SIZE = x - y
<1>1. PICK z \in Nat : z = x - y
  OBVIOUS
<1>2. round_down(y + z, PAGE_SIZE) = y + round_down(z, PAGE_SIZE)
  BY RoundingMoved
<1>3. y + z = x
  BY <1>1
<1>4. round_down(x, PAGE_SIZE) = x
  BY Rounding
<1>5. round_down(z, PAGE_SIZE) \in Nat /\ round_down(z, PAGE_SIZE) = (z \div PAGE_SIZE) * PAGE_SIZE
  BY Rounding
<1>6. round_down(z, PAGE_SIZE) = z
  BY <1>1, <1>2, <1>3, <1>4, <1>5
<1>7. z \div PAGE_SIZE \in Nat
  BY DivMod, PmmAssumption
<1>8. PICK f \in Nat : f = z \div PAGE_SIZE
  BY <1>7
<1>9. f * PAGE_SIZE = z
  BY <1>5, <1>6, <1>8
<1> QED BY <1>1, <1>9

\* What a page of a request shows: a frame of it, at its place.
LEMMA PageOfRequest ==
  ASSUME layout \in Layouts, NEW r, NEW low \in BOOLEAN, Good(r, low), Whole(Rounded(r)),
         NEW v \in Nat, NEW s \in Nat, s <= Rounded(r).size, Within(Rounded(r), s, v)
  PROVE  \E f \in Nat : /\ f \in FramesOf(r.what, r.size) /\ Place(low, v, f)
                        /\ AskedAt(Rounded(r), v).frame = f
                        /\ Within(Rounded(r), Rounded(r).size, v)
<1>1. PICK q : q = Rounded(r)
  OBVIOUS
<1>2. /\ q.what \in Nat /\ q.where \in Nat /\ q.size \in Nat
      /\ low => q.where = q.what + HHDM /\ q.where + q.size <= layout.virtual_base
      /\ ~low => /\ q.where + layout.physical_base = q.what + layout.virtual_base
                 /\ layout.virtual_base <= q.where
  BY <1>1, Zenon DEF Good
<1>3. \A f \in Nat : f \in FramesOf(r.what, r.size)
                       <=> q.what <= f * PAGE_SIZE /\ f * PAGE_SIZE < q.what + q.size
  BY <1>1, Zenon DEF Good
<1>4. PICK p \in Nat : p = v * PAGE_SIZE
  BY TimesOrder
<1>5. q.where <= p /\ p < q.where + s
  BY <1>1, <1>4 DEF Within
<1>6. p < q.where + q.size
  BY <1>1, <1>2, <1>4, <1>5
<1>7. HHDM \in Nat /\ layout.physical_base \in Nat /\ layout.virtual_base \in Nat
  BY HandOver, VmmAssumption DEF HandedOver
<1>8. Aligned(p) /\ Aligned(q.where) /\ Aligned(q.what)
  <2>1. p % PAGE_SIZE = 0
    BY <1>4, Multiple, PmmAssumption
  <2> QED BY <1>1, <2>1 DEF Aligned, Whole
<1>9. PICK g \in Nat : g * PAGE_SIZE = p - q.where
  BY <1>2, <1>5, <1>8, Difference
<1>10. PICK w \in Nat : w * PAGE_SIZE = q.what
  <2>1. 0 <= q.what /\ Aligned(0) /\ q.what - 0 = q.what
    BY <1>2, PmmAssumption DEF Aligned
  <2> QED BY <1>2, <1>8, <2>1, Difference
<1>11. PICK f \in Nat : f = w + g
  OBVIOUS
<1>12. f * PAGE_SIZE = q.what + (p - q.where)
  <2>1. (w + g) * PAGE_SIZE = w * PAGE_SIZE + g * PAGE_SIZE
    BY Distribute, PmmAssumption
  <2> QED BY <1>9, <1>10, <1>11, <2>1
<1>13. PICK y \in Nat : y = f * PAGE_SIZE
  BY TimesOrder
<1>14. f \in FramesOf(r.what, r.size)
  BY <1>2, <1>3, <1>5, <1>6, <1>12, <1>13
<1>15. Place(low, v, f)
  BY <1>2, <1>4, <1>5, <1>6, <1>7, <1>12, <1>13 DEF Place
<1>16. AskedAt(q, v).frame = f
  <2>1. (f * PAGE_SIZE) \div PAGE_SIZE = f
    BY Multiple, PmmAssumption
  <2>2. q.what + (v * PAGE_SIZE - q.where) = y
    BY <1>4, <1>12, <1>13
  <2>3. AskedAt(q, v).frame = (q.what + (v * PAGE_SIZE - q.where)) \div PAGE_SIZE
    BY DEF AskedAt, AskedFor
  <2> QED BY <1>13, <2>1, <2>2, <2>3
<1>17. Within(q, q.size, v)
  BY <1>4, <1>5, <1>6 DEF Within
<1> QED BY <1>1, <1>14, <1>15, <1>16, <1>17

\* And the other way: where a frame of it belongs, there the request is shown.
LEMMA RequestAtPage ==
  ASSUME layout \in Layouts, NEW r, NEW low \in BOOLEAN, Good(r, low), Whole(Rounded(r)),
         NEW v \in Nat, NEW f \in FramesOf(r.what, r.size), f \in Nat, Place(low, v, f)
  PROVE  Within(Rounded(r), Rounded(r).size, v)
<1>1. PICK q : q = Rounded(r)
  OBVIOUS
<1>2. /\ q.what \in Nat /\ q.where \in Nat /\ q.size \in Nat
      /\ low => q.where = q.what + HHDM /\ q.where + q.size <= layout.virtual_base
      /\ ~low => /\ q.where + layout.physical_base = q.what + layout.virtual_base
                 /\ layout.virtual_base <= q.where
  BY <1>1, Zenon DEF Good
<1>3. q.what <= f * PAGE_SIZE /\ f * PAGE_SIZE < q.what + q.size
  BY <1>1, Zenon DEF Good
<1>4. PICK p \in Nat, y \in Nat : p = v * PAGE_SIZE /\ y = f * PAGE_SIZE
  BY TimesOrder
<1>5. HHDM \in Nat /\ layout.physical_base \in Nat /\ layout.virtual_base \in Nat
  BY HandOver, VmmAssumption DEF HandedOver
<1>6. q.where <= p /\ p < q.where + q.size
  BY <1>2, <1>3, <1>4, <1>5 DEF Place
<1>7. Within(q, q.size, v)
  BY <1>4, <1>6 DEF Within
<1> QED BY <1>1, <1>7

\* A page is the place of one frame only, and is in one half only.
LEMMA PlaceIs ==
  ASSUME layout \in Layouts, NEW v \in Nat, NEW f \in Nat, NEW g \in Nat,
         NEW low \in BOOLEAN, NEW high \in BOOLEAN, Place(low, v, f), Place(high, v, g)
  PROVE  low = high /\ f = g
<1>1. HHDM \in Nat /\ layout.physical_base \in Nat /\ layout.virtual_base \in Nat
  BY HandOver, VmmAssumption DEF HandedOver
<1>2. PICK p \in Nat, y \in Nat, z \in Nat :
        p = v * PAGE_SIZE /\ y = f * PAGE_SIZE /\ z = g * PAGE_SIZE
  BY TimesOrder
<1>3. low = high /\ y = z
  BY <1>1, <1>2 DEF Place
<1>4. f <= g /\ g <= f
  BY <1>2, <1>3, TimesOrder
<1> QED BY <1>3, <1>4

\* In either half, a frame has one place.
LEMMA OnePlace ==
  ASSUME layout \in Layouts, NEW v \in Nat, NEW w \in Nat, NEW f \in Nat,
         NEW low \in BOOLEAN, Place(low, v, f), Place(low, w, f)
  PROVE  v = w
<1>1. HHDM \in Nat /\ layout.physical_base \in Nat /\ layout.virtual_base \in Nat
  BY HandOver, VmmAssumption DEF HandedOver
<1>2. PICK p \in Nat, y \in Nat, z \in Nat :
        y = v * PAGE_SIZE /\ z = w * PAGE_SIZE /\ p = f * PAGE_SIZE
  BY TimesOrder
<1>3. y = z
  BY <1>1, <1>2 DEF Place
<1>4. v <= w /\ w <= v
  BY <1>2, <1>3, TimesOrder
<1> QED BY <1>4

\* A frame of a request has a place, in the address space.
LEMMA PlaceOf ==
  ASSUME layout \in Layouts, NEW r, NEW low \in BOOLEAN, Good(r, low), Whole(Rounded(r)),
         NEW f \in FramesOf(r.what, r.size), f \in Nat
  PROVE  \E v \in VirtualPages : Place(low, v, f)
<1>1. PICK q : q = Rounded(r)
  OBVIOUS
<1>2. /\ q.what \in Nat /\ q.where \in Nat /\ q.size \in Nat /\ InSpace(q.where, q.size)
      /\ low => q.where = q.what + HHDM /\ q.where + q.size <= layout.virtual_base
      /\ ~low => /\ q.where + layout.physical_base = q.what + layout.virtual_base
                 /\ layout.virtual_base <= q.where
  BY <1>1, Zenon DEF Good
<1>3. q.what <= f * PAGE_SIZE /\ f * PAGE_SIZE < q.what + q.size
  BY <1>1, Zenon DEF Good
<1>4. PICK y \in Nat : y = f * PAGE_SIZE /\ Aligned(y)
  <2>1. f * PAGE_SIZE \in Nat /\ (f * PAGE_SIZE) % PAGE_SIZE = 0
    BY TimesOrder, Multiple, PmmAssumption
  <2> QED BY <2>1 DEF Aligned
<1>5. HHDM \in Nat /\ layout.physical_base \in Nat /\ layout.virtual_base \in Nat
  BY HandOver, VmmAssumption DEF HandedOver
<1>6. Aligned(q.what) /\ Aligned(q.where)
  BY <1>1 DEF Whole
<1>7. PICK g \in Nat : g * PAGE_SIZE = y - q.what
  BY <1>2, <1>3, <1>4, <1>6, Difference
<1>8. PICK k \in Nat : k = y - q.what /\ k < q.size /\ k = g * PAGE_SIZE
  BY <1>2, <1>3, <1>4, <1>7
<1>9. PICK w \in Nat : w * PAGE_SIZE = q.where
  <2>1. 0 <= q.where /\ Aligned(0) /\ q.where - 0 = q.where
    BY <1>2, PmmAssumption DEF Aligned
  <2> QED BY <1>2, <1>6, <2>1, Difference
<1>10. PICK v \in Nat : v = w + g
  OBVIOUS
<1>11. v * PAGE_SIZE = q.where + k
  <2>1. (w + g) * PAGE_SIZE = w * PAGE_SIZE + g * PAGE_SIZE
    BY Distribute, PmmAssumption
  <2> QED BY <1>8, <1>9, <1>10, <2>1
<1>12. v \in VirtualPages
  <2>1. (q.where + k) \div PAGE_SIZE \in VirtualPages
    BY <1>2, <1>8, PageInSpace
  <2>2. (v * PAGE_SIZE) \div PAGE_SIZE = v
    BY Multiple, PmmAssumption
  <2> QED BY <1>11, <2>1, <2>2
<1>13. PICK p \in Nat : p = v * PAGE_SIZE
  BY TimesOrder
<1>14. p = q.where + k /\ y = q.what + k
  BY <1>2, <1>3, <1>4, <1>8, <1>11, <1>13
<1>15. low => p = y + HHDM /\ p < layout.virtual_base
  BY <1>2, <1>5, <1>8, <1>14
<1>16. ~low => p + layout.physical_base = y + layout.virtual_base /\ layout.virtual_base <= p
  BY <1>2, <1>5, <1>8, <1>14
<1>17. Place(low, v, f)
  BY <1>4, <1>13, <1>15, <1>16 DEF Place
<1> QED BY <1>12, <1>17

-----------------------------------------------------------------------------
(* Once the kernel's tables are loaded.                                    *)

\* The tables are in use, with the requests of vmm_init in them to their end: what the
\* rest of the proofs start from, in terms that do not change.
InUse(R, a, b, n, k, c) ==
  /\ layout \in Layouts /\ PML4 # 0 /\ cr3 = PML4
  /\ Arranged(R, a, b, n) /\ k \in 0 .. Len(R) /\ n <= k /\ c \in Nat
  /\ Exposed(R, k, c, mem, pat_msr, PML4)
  /\ \A j \in 1 .. k : /\ Extent(R, j, k, c) # 0 => Whole(Rounded(R[j]))
                       /\ Extent(R, j, k, c) \in Nat
                       /\ Extent(R, j, k, c) <= Rounded(R[j]).size
  /\ \A j \in 1 .. n : Extent(R, j, k, c) = Rounded(R[j]).size
  /\ pc \in Ends =>
       k = Len(R) /\ (k # 0 => Extent(R, k, k, c) = Rounded(R[k]).size)

\* Once the kernel's tables are loaded they are.
LEMMA AfterLoad ==
  ASSUME BInv, cr3 # 0
  PROVE  \E R, a, b, n : \E k \in 0 .. Len(R), c \in Nat :
           InUse(R, a, b, n, k, c) /\ Progress(R, n, k, c)
<1>1. layout \in Layouts /\ VInv
  BY Setting
<1>2. PICK R, n : Given(R, n) /\ \E k \in 0 .. Len(R), c \in Nat : Progress(R, n, k, c)
  BY Setting
<1>3. PICK k \in 0 .. Len(R), c \in Nat : Progress(R, n, k, c)
  BY <1>2
<1>4. PICK a, b : Arranged(R, a, b, n)
  BY <1>1, <1>2, Arrangement DEF Given
<1>5. PML4 # 0 /\ cr3 = PML4
  BY <1>1, <1>3 DEF Progress, Reached, VInv, Typing
<1>6. n \in Nat /\ Len(R) \in Nat /\ k \in Nat
  BY <1>2, <1>3 DEF Given
<1>7. /\ Exposed(R, k, c, mem, pat_msr, PML4)
      /\ \A j \in 1 .. k : Extent(R, j, k, c) # 0 => Whole(Rounded(R[j]))
      /\ k > 0 => c <= Rounded(R[k]).size
      /\ Finished(R, n, k, c)
  BY <1>3, <1>5 DEF Progress, Shown, Reached
<1>8. n <= k
  BY <1>6, <1>7 DEF Finished
<1>9. \A j \in 1 .. k : Rounded(R[j]).size \in Nat
  <2>1. \A j \in 1 .. Len(R) : Good(R[j], j <= a \/ j > n)
    BY <1>1, <1>4, AllGood
  <2> QED BY <1>6, <2>1 DEF Good
<1>10. ASSUME NEW j \in 1 .. k
       PROVE  /\ Extent(R, j, k, c) \in Nat
              /\ Extent(R, j, k, c) <= Rounded(R[j]).size
  BY <1>3, <1>6, <1>7, <1>9 DEF Extent
<1>11. ASSUME NEW j \in 1 .. n PROVE Extent(R, j, k, c) = Rounded(R[j]).size
  BY <1>6, <1>7, <1>8 DEF Extent, Finished
<1>12. ASSUME pc \in Ends
       PROVE  k = Len(R) /\ (k # 0 => Extent(R, k, k, c) = Rounded(R[k]).size)
  <2>1. k = Len(R) /\ Finished(R, Len(R), k, c)
    BY <1>3, <1>6, <1>12 DEF Progress, Reached
  <2> QED BY <1>6, <2>1 DEF Extent, Finished
<1>13. InUse(R, a, b, n, k, c)
  BY <1>1, <1>3, <1>4, <1>5, <1>7, <1>8, <1>10, <1>11, <1>12, Zenon DEF InUse
<1> QED BY <1>3, <1>13

\* The memory type that flags ask for.
CacheOf(flags) ==
  IF "M_CACHE_UC" \in flags THEN "UC-" ELSE IF "M_CACHE_WC" \in flags THEN "WC" ELSE "WB"

\* Page v shows frame f because the j-th request asked for it, the last to come there.
Explains(R, a, n, k, c, j, f, v) ==
  /\ j \in 1 .. k /\ f \in Nat /\ f \in FramesOf(R[j].what, R[j].size)
  /\ Place(j <= a \/ j > n, v, f)
  /\ Translates(mem, PML4, v)
  /\ View(mem, pat_msr, PML4, v).frame = f
  /\ View(mem, pat_msr, PML4, v).w <=> "M_W" \in R[j].flags
  /\ View(mem, pat_msr, PML4, v).x <=> "M_X" \in R[j].flags
  /\ ~View(mem, pat_msr, PML4, v).u
  /\ View(mem, pat_msr, PML4, v).cache = CacheOf(R[j].flags)
  /\ ~({"M_W", "M_X"} \subseteq R[j].flags)
  /\ Whole(Rounded(R[j])) /\ ~Later(R, j, k, c, v)

\* The request that came last to a page explains what is seen there.
LEMMA Explained ==
  ASSUME NEW R, NEW a, NEW b, NEW n, NEW k, NEW c, InUse(R, a, b, n, k, c),
         NEW v \in VirtualPages, NEW j \in 1 .. k,
         LastAsked(R, j, k, c, mem, pat_msr, PML4, v)
  PROVE  \E f : Explains(R, a, n, k, c, j, f, v)
<1>1. /\ layout \in Layouts /\ Arranged(R, a, b, n) /\ k \in 0 .. Len(R)
      /\ \A i \in 1 .. k : /\ Extent(R, i, k, c) # 0 => Whole(Rounded(R[i]))
                           /\ Extent(R, i, k, c) \in Nat
                           /\ Extent(R, i, k, c) <= Rounded(R[i]).size
  BY DEF InUse
<1>2. Len(R) \in Nat /\ k \in Nat /\ j \in 1 .. Len(R)
  BY <1>1 DEF Arranged
<1>3. PICK low \in BOOLEAN : low = (j <= a \/ j > n)
  <2>1. (j <= a \/ j > n) \in BOOLEAN
    OBVIOUS
  <2> QED BY <2>1
<1>4. Good(R[j], low)
  BY <1>1, <1>2, <1>3, AllGood
<1>5. PICK q, s : q = Rounded(R[j]) /\ s = Extent(R, j, k, c)
  OBVIOUS
<1>6. /\ Within(q, s, v) /\ ~Later(R, j, k, c, v)
      /\ Shows(mem, pat_msr, PML4, v, AskedAt(q, v))
      /\ ~({"M_W", "M_X"} \subseteq q.flags)
  BY <1>5 DEF LastAsked, Covers
<1>7. v \in Nat /\ s \in Nat /\ s <= q.size
  BY <1>1, <1>5, VmmAssumption DEF VirtualPages
<1>8. q.where \in Nat /\ q.flags = R[j].flags
  BY <1>4, <1>5, Zenon DEF Good
<1>9. s # 0
  <2>1. PICK p \in Nat : p = v * PAGE_SIZE
    BY <1>7, TimesOrder
  <2> QED BY <1>6, <1>7, <1>8, <2>1 DEF Within
<1>10. Whole(q)
  BY <1>1, <1>5, <1>9
<1>11. PICK f \in Nat : /\ f \in FramesOf(R[j].what, R[j].size) /\ Place(low, v, f)
                        /\ AskedAt(q, v).frame = f
  <2>1. \E f \in Nat : /\ f \in FramesOf(R[j].what, R[j].size) /\ Place(low, v, f)
                       /\ AskedAt(Rounded(R[j]), v).frame = f
                       /\ Within(Rounded(R[j]), Rounded(R[j]).size, v)
    BY <1>1, <1>4, <1>5, <1>6, <1>7, <1>10, PageOfRequest
  <2> QED BY <1>5, <2>1
<1>12. Translates(mem, PML4, v) /\ View(mem, pat_msr, PML4, v) = AskedAt(q, v)
  BY <1>6 DEF Shows
<1>13. /\ AskedAt(q, v).w <=> "M_W" \in R[j].flags
       /\ AskedAt(q, v).x <=> "M_X" \in R[j].flags
       /\ ~AskedAt(q, v).u
       /\ AskedAt(q, v).cache = CacheOf(R[j].flags)
  BY <1>8 DEF AskedAt, AskedFor, CacheOf
<1>14. Place(j <= a \/ j > n, v, f)
  BY <1>3, <1>11, Zenon
<1>15. Explains(R, a, n, k, c, j, f, v)
  BY <1>5, <1>6, <1>8, <1>10, <1>11, <1>12, <1>13, <1>14, Zenon DEF Explains
<1> QED BY <1>15

\* What the processor sees at a page, a request explains.
LEMMA SeenExplained ==
  ASSUME NEW R, NEW a, NEW b, NEW n, NEW k, NEW c, InUse(R, a, b, n, k, c),
         NEW v \in VirtualPages, Translates(mem, PML4, v)
  PROVE  \E j, f : Explains(R, a, n, k, c, j, f, v)
<1>1. PICK j \in 1 .. k : LastAsked(R, j, k, c, mem, pat_msr, PML4, v)
  BY DEF InUse, Exposed
<1> QED BY <1>1, Explained

\* And a frame that a whole request asked for is seen at its place, by that or a later
\* request of the same half.
LEMMA AskedIsSeen ==
  ASSUME NEW R, NEW a, NEW b, NEW n, NEW k, NEW c, InUse(R, a, b, n, k, c),
         NEW i \in 1 .. k, Extent(R, i, k, c) = Rounded(R[i]).size, Whole(Rounded(R[i])),
         NEW f \in Nat, f \in FramesOf(R[i].what, R[i].size),
         NEW v \in VirtualPages, Place(i <= a \/ i > n, v, f)
  PROVE  \E j : /\ Explains(R, a, n, k, c, j, f, v) /\ i <= j
                /\ (j <= a \/ j > n) <=> (i <= a \/ i > n)
<1>1. /\ layout \in Layouts /\ Arranged(R, a, b, n) /\ k \in 0 .. Len(R)
      /\ Exposed(R, k, c, mem, pat_msr, PML4)
  BY DEF InUse
<1>2. Len(R) \in Nat /\ k \in Nat /\ i \in 1 .. Len(R) /\ i \in Nat
  BY <1>1 DEF Arranged
<1>3. PICK low \in BOOLEAN : low = (i <= a \/ i > n)
  <2>1. (i <= a \/ i > n) \in BOOLEAN
    OBVIOUS
  <2> QED BY <2>1
<1>4. Good(R[i], low) /\ Place(low, v, f)
  BY <1>1, <1>2, <1>3, AllGood
<1>5. v \in Nat
  BY VmmAssumption DEF VirtualPages
<1>6. Within(Rounded(R[i]), Rounded(R[i]).size, v)
  BY <1>1, <1>4, <1>5, RequestAtPage
<1>7. Covers(R, i, k, c, v)
  BY <1>6, Zenon DEF Covers
<1>8. Translates(mem, PML4, v)
  BY <1>1, <1>7 DEF Exposed
<1>9. PICK j \in 1 .. k : LastAsked(R, j, k, c, mem, pat_msr, PML4, v)
  BY <1>1, <1>8 DEF Exposed
<1>10. PICK g : Explains(R, a, n, k, c, j, g, v)
  BY <1>9, Explained
<1>11. i <= j
  <2>1. ~(j < i)
    BY <1>7, <1>9 DEF LastAsked, Later
  <2> QED BY <1>2, <2>1
<1>12. PICK high \in BOOLEAN : high = (j <= a \/ j > n)
  <2>1. (j <= a \/ j > n) \in BOOLEAN
    OBVIOUS
  <2> QED BY <2>1
<1>13. g \in Nat /\ Place(high, v, g)
  BY <1>10, <1>12, Zenon DEF Explains
<1>14. low = high /\ f = g
  BY <1>1, <1>4, <1>5, <1>13, PlaceIs
<1> QED BY <1>3, <1>10, <1>11, <1>12, <1>14

\* r maps the i-th entry of the memory map at the HHDM, the i-th segment where it is
\* linked, or the registers of a controller.
Direct(r, i) ==
  /\ r = DirectTo(i) /\ i \in Mapping /\ FramesOf(r.what, r.size) = EntryFrames(layout, i)
  /\ r.flags = HhdmFlags(layout.memmap[i].type)

OfSegment(r, i, type) ==
  /\ r = LinkedTo(i) /\ i \in Segments(layout, {type})
  /\ FramesOf(r.what, r.size) = LinkedFrames(layout, i)
  /\ r.flags = elf_to_memory_flags(layout.phdrs[i].flags)

Window(r) ==
  \/ /\ r = LapicWindow /\ ~layout.x2apic /\ r.flags = {"M_W"}
     /\ FramesOf(r.what, r.size) = LapicFrames(layout)
  \/ /\ r = IoapicWindow /\ layout.has_ioapic /\ r.flags = {"M_W", "M_CACHE_UC"}
     /\ FramesOf(r.what, r.size) = IoapicFrames(layout)

\* What there is to say of the fields of these requests.
LEMMA Sorts ==
  /\ \A i \in Mapping : Direct(DirectTo(i), i)
  /\ \A type : \A i \in Segments(layout, {type}) : OfSegment(LinkedTo(i), i, type)
  /\ layout.has_ioapic => Window(IoapicWindow)
  /\ ~layout.x2apic => Window(LapicWindow)
<1>1. ASSUME NEW i \in Mapping PROVE Direct(DirectTo(i), i)
  <2>1. PICK r : r = DirectTo(i)
    OBVIOUS
  <2>2. /\ r.what = layout.memmap[i].base /\ r.size = layout.memmap[i].length
        /\ r.flags = HhdmFlags(layout.memmap[i].type)
    BY <2>1 DEF DirectTo, Request
  <2>3. FramesOf(r.what, r.size) = EntryFrames(layout, i)
    BY <2>2, Zenon DEF EntryFrames
  <2> QED BY <1>1, <2>1, <2>2, <2>3, Zenon DEF Direct
<1>2. ASSUME NEW type, NEW i \in Segments(layout, {type}) PROVE OfSegment(LinkedTo(i), i, type)
  <2>1. PICK what, where, size, flags :
          /\ what = layout.physical_base + layout.phdrs[i].vaddr
          /\ where = layout.virtual_base + layout.phdrs[i].vaddr
          /\ size = layout.phdrs[i].memsz
          /\ flags = elf_to_memory_flags(layout.phdrs[i].flags)
    OBVIOUS
  <2>2. PICK r : r = LinkedTo(i)
    OBVIOUS
  <2>3. PICK u : u = TRUE
    OBVIOUS
  <2>4. r = [what |-> what, where |-> where, size |-> size, flags |-> flags, unaligned |-> u]
    BY <2>1, <2>2, <2>3, Zenon DEF LinkedTo, Request
  <2>5. r.what = what /\ r.size = size /\ r.flags = flags
    BY <2>4
  <2>6. FramesOf(r.what, r.size) = LinkedFrames(layout, i)
    BY <2>1, <2>5, Zenon DEF LinkedFrames
  <2> QED BY <1>2, <2>1, <2>2, <2>5, <2>6, Zenon DEF OfSegment
<1>3. ASSUME layout.has_ioapic PROVE Window(IoapicWindow)
  <2>1. PICK r, what, where, size, flags, u :
          /\ r = IoapicWindow /\ what = layout.ioapic /\ where = phy_to_virt(layout.ioapic)
          /\ size = layout.ioapic_size /\ flags = {"M_W", "M_CACHE_UC"} /\ u = TRUE
    OBVIOUS
  <2>2. r = [what |-> what, where |-> where, size |-> size, flags |-> flags, unaligned |-> u]
    BY <2>1, Zenon DEF IoapicWindow, Request
  <2>3. r.what = what /\ r.size = size /\ r.flags = flags
    BY <2>2
  <2>4. FramesOf(r.what, r.size) = IoapicFrames(layout)
    BY <1>3, <2>1, <2>3, Zenon DEF IoapicFrames
  <2> QED BY <1>3, <2>1, <2>3, <2>4, Zenon DEF Window
<1>4. ASSUME ~layout.x2apic PROVE Window(LapicWindow)
  <2>1. PICK r, what, where, size, flags, u :
          /\ r = LapicWindow /\ what = layout.lapic /\ where = phy_to_virt(layout.lapic)
          /\ size = layout.lapic_size /\ flags = {"M_W"} /\ u = TRUE
    OBVIOUS
  <2>2. r = [what |-> what, where |-> where, size |-> size, flags |-> flags, unaligned |-> u]
    BY <2>1, Zenon DEF LapicWindow, Request
  <2>3. r.what = what /\ r.size = size /\ r.flags = flags
    BY <2>2
  <2>4. FramesOf(r.what, r.size) = LapicFrames(layout)
    BY <1>4, <2>1, <2>3, Zenon DEF LapicFrames
  <2> QED BY <1>4, <2>1, <2>3, <2>4, Zenon DEF Window
<1> QED BY <1>1, <1>2, <1>3, <1>4

\* The sort of a request is told by its place among them.
LEMMA SortOf ==
  ASSUME layout \in Layouts, NEW R, NEW a, NEW b, NEW n, Arranged(R, a, b, n),
         NEW j \in 1 .. Len(R)
  PROVE  /\ j <= a => \E i : Direct(R[j], i)
         /\ a < j /\ j <= b => \E i : OfSegment(R[j], i, "PT_LOAD")
         /\ b < j /\ j <= n => \E i : OfSegment(R[j], i, "PT_GNU_RELRO")
         /\ n < j => Window(R[j])
         /\ a <= b /\ b <= n /\ {a, b, n, j} \subseteq Nat
<1>1. /\ a \in Nat /\ b \in Nat /\ n \in Nat /\ a <= b /\ b <= n /\ n <= Len(R) /\ Len(R) \in Nat
      /\ j \in Nat
  BY DEF Arranged
<1>2. ASSUME j <= a PROVE \E i : Direct(R[j], i)
  <2>1. j \in 1 .. a
    BY <1>1, <1>2
  <2>2. PICK i \in Mapping : R[j] = DirectTo(i)
    BY <2>1 DEF Arranged
  <2> QED BY <2>2, Sorts, Zenon
<1>3. ASSUME a < j, j <= b PROVE \E i : OfSegment(R[j], i, "PT_LOAD")
  <2>1. j \in a + 1 .. b
    BY <1>1, <1>3
  <2>2. PICK i \in Segments(layout, {"PT_LOAD"}) : R[j] = LinkedTo(i)
    BY <2>1 DEF Arranged
  <2> QED BY <2>2, Sorts, Zenon
<1>4. ASSUME b < j, j <= n PROVE \E i : OfSegment(R[j], i, "PT_GNU_RELRO")
  <2>1. j \in b + 1 .. n
    BY <1>1, <1>4
  <2>2. PICK i \in Segments(layout, {"PT_GNU_RELRO"}) : R[j] = LinkedTo(i)
    BY <2>1 DEF Arranged
  <2> QED BY <2>2, Sorts, Zenon
<1>5. ASSUME n < j PROVE Window(R[j])
  <2>1. j \in n + 1 .. Len(R)
    BY <1>1, <1>5
  <2>2. \/ R[j] = LapicWindow /\ ~layout.x2apic
        \/ R[j] = IoapicWindow /\ layout.has_ioapic
    BY <2>1 DEF Arranged
  <2> QED BY <2>2, Sorts, Zenon
<1> QED BY <1>1, <1>2, <1>3, <1>4, <1>5

\* Entries that are used once share their frames with no other that is mapped.
LEMMA EntriesApart ==
  ASSUME layout \in Layouts, NEW i \in Entries, NEW j \in Mapping, i # j,
         layout.memmap[i].type \in ReclaimTypes \cup {"FRAMEBUFFER", "EXECUTABLE_AND_MODULES"},
         NEW f, f \in EntryFrames(layout, i), f \in EntryFrames(layout, j)
  PROVE  FALSE
BY HandOver DEF UsedOnce, Mapping, Entries

\* Registers share their frames with no mapped memory and no part of the kernel.
LEMMA RegistersApart ==
  ASSUME layout \in Layouts, NEW i \in Entries,
         layout.memmap[i].type \in HhdmTypes \cup {"EXECUTABLE_AND_MODULES"},
         NEW r, Window(r), NEW f, f \in EntryFrames(layout, i), f \in FramesOf(r.what, r.size)
  PROVE  FALSE
<1>1. f \in LapicFrames(layout) \cup IoapicFrames(layout)
  BY DEF Window
<1> QED BY <1>1, HandOver DEF UsedOnce, Entries

\* What the kernel is linked to, the direct map does not show.
LEMMA HalvesApart ==
  ASSUME layout \in Layouts, NEW R, NEW a, NEW b, NEW n, Arranged(R, a, b, n),
         NEW i \in 1 .. Len(R), a < i, i <= n,
         NEW j \in 1 .. Len(R), j <= a \/ j > n,
         NEW f, f \in FramesOf(R[i].what, R[i].size), f \in FramesOf(R[j].what, R[j].size)
  PROVE  FALSE
<1>1. PICK p : p \in Segments(layout, {"PT_LOAD", "PT_GNU_RELRO"}) /\ f \in LinkedFrames(layout, p)
  <2>1. (\E p : OfSegment(R[i], p, "PT_LOAD")) \/ (\E p : OfSegment(R[i], p, "PT_GNU_RELRO"))
    BY SortOf
  <2>2. PICK p, type : type \in {"PT_LOAD", "PT_GNU_RELRO"} /\ OfSegment(R[i], p, type)
    BY <2>1, Zenon
  <2> QED BY <2>2 DEF OfSegment, Segments
<1>2. PICK k \in Entries : /\ layout.memmap[k].type = "EXECUTABLE_AND_MODULES"
                           /\ f \in EntryFrames(layout, k)
  BY <1>1, HandOver DEF LinkedApart, Entries
<1>3. CASE j <= a
  <2>1. PICK q : Direct(R[j], q)
    BY <1>3, SortOf
  <2>2. q \in Mapping /\ f \in EntryFrames(layout, q)
    BY <2>1 DEF Direct
  <2>3. k # q
    BY <1>2, <2>2 DEF Mapping, HhdmTypes, RamTypes, ReclaimTypes
  <2> QED BY <1>2, <2>2, <2>3, EntriesApart
<1>4. CASE j > n
  <2>1. Window(R[j])
    BY <1>4, SortOf
  <2> QED BY <1>2, <2>1, RegistersApart
<1> QED BY <1>3, <1>4

\* Only a loaded segment is ever asked to be executable.
LEMMA CodeIsLinked ==
  ASSUME layout \in Layouts, NEW R, NEW a, NEW b, NEW n, Arranged(R, a, b, n),
         NEW j \in 1 .. Len(R), "M_X" \in R[j].flags
  PROVE  a < j /\ j <= b
<1>1. /\ a <= b /\ b <= n /\ {a, b, n, j} \subseteq Nat
  BY SortOf
<1>2. ~(j <= a)
  <2> SUFFICES ASSUME j <= a PROVE FALSE
    OBVIOUS
  <2>1. PICK i : Direct(R[j], i)
    BY SortOf
  <2> QED BY <2>1 DEF Direct, HhdmFlags
<1>3. ~(n < j)
  <2> SUFFICES ASSUME n < j PROVE FALSE
    OBVIOUS
  <2>1. Window(R[j])
    BY SortOf
  <2> QED BY <2>1 DEF Window
<1>4. ~(b < j /\ j <= n)
  <2> SUFFICES ASSUME b < j, j <= n PROVE FALSE
    OBVIOUS
  <2>1. PICK i : OfSegment(R[j], i, "PT_GNU_RELRO")
    BY SortOf
  <2>2. layout.phdrs[i].flags \cap {"PF_W", "PF_X"} = {}
    BY <2>1, HandOver DEF OfSegment, LinkedApart
  <2> QED BY <2>1, <2>2 DEF OfSegment, elf_to_memory_flags
<1> QED BY <1>1, <1>2, <1>3, <1>4

-----------------------------------------------------------------------------
(* Code.                                                                   *)

\* What the properties read at an address is what the processor sees at its page.
SeenAt(root, v, where) ==
  /\ Mapped(root, where) <=> Translates(mem, root, v)
  /\ Translation(root, where) = View(mem, pat_msr, root, v)

\* They follow the processor's walk.
LEMMA SeenAtPage ==
  ASSUME NEW root, NEW v \in Nat, NEW where, where = v * PAGE_SIZE
  PROVE  SeenAt(root, v, where)
<1>1. where \div PAGE_SIZE = v
  BY Multiple, PmmAssumption
<1>2. /\ Mapped(root, where) <=> Translates(mem, root, where \div PAGE_SIZE)
      /\ Translation(root, where) = View(mem, pat_msr, root, where \div PAGE_SIZE)
  BY SeenIs DEF View
<1> QED BY <1>1, <1>2, Zenon DEF SeenAt

\* Pages of the processor's view, and of the properties, are the same.
LEMMA PagesSeen ==
  ASSUME PML4 # 0, NEW v
  PROVE  /\ v \in MappedPages <=> v \in VirtualPages /\ Translates(mem, PML4, v)
         /\ v \in MappedPages => v \in Nat
<1>1. MappedPages = {w \in VirtualPages : Translates(mem, PML4, w)}
  BY MapIs DEF MapIsView
<1>2. v \in VirtualPages => v \in Nat
  BY VmmAssumption DEF VirtualPages
<1> QED BY <1>1, <1>2

\* What is executable is linked, and the frame of it is seen nowhere else.
LEMMA CodeSeenOnce ==
  ASSUME NEW R, NEW a, NEW b, NEW n, NEW k, NEW c, InUse(R, a, b, n, k, c),
         NEW v \in VirtualPages, NEW u \in VirtualPages,
         NEW i, NEW j, NEW f, Explains(R, a, n, k, c, i, f, v), Explains(R, a, n, k, c, j, f, u),
         a < i, i <= n
  PROVE  u = v
<1>1. layout \in Layouts /\ Arranged(R, a, b, n) /\ k \in 0 .. Len(R)
  BY DEF InUse
<1>2. /\ i \in 1 .. k /\ f \in Nat /\ f \in FramesOf(R[i].what, R[i].size)
      /\ Place(i <= a \/ i > n, v, f)
  BY DEF Explains
<1>3. /\ j \in 1 .. k /\ f \in FramesOf(R[j].what, R[j].size) /\ Place(j <= a \/ j > n, u, f)
  BY DEF Explains
<1>4. i \in 1 .. Len(R) /\ j \in 1 .. Len(R) /\ {a, n} \subseteq Nat
  BY <1>1, <1>2, <1>3 DEF Arranged
<1>5. ~(j <= a \/ j > n)
  BY <1>1, <1>2, <1>3, <1>4, HalvesApart
<1>6. ~(i <= a \/ i > n)
  BY <1>4
<1>7. PICK low \in BOOLEAN : low = FALSE /\ Place(low, v, f) /\ Place(low, u, f)
  <2>1. (i <= a \/ i > n) = FALSE /\ (j <= a \/ j > n) = FALSE
    BY <1>5, <1>6
  <2>2. Place(FALSE, v, f) /\ Place(FALSE, u, f)
    BY <1>2, <1>3, <2>1
  <2> QED BY <2>2
<1>8. v \in Nat /\ u \in Nat
  BY VmmAssumption DEF VirtualPages
<1> QED BY <1>1, <1>2, <1>7, <1>8, OnePlace

\* No frame that holds code is written, through whatever page.
LEMMA CodeIsNotWritten ==
  ASSUME BInv
  PROVE  NoWritableAlias
<1> SUFFICES ASSUME cr3 # 0, NEW v \in MappedPages, Translation(cr3, v * PAGE_SIZE).x,
                    NEW u \in Reaches(Translation(cr3, v * PAGE_SIZE).frame)
             PROVE  ~Translation(cr3, u * PAGE_SIZE).w
  BY DEF NoWritableAlias
<1>1. PICK R, a, b, n : \E k \in 0 .. Len(R), c \in Nat :
        InUse(R, a, b, n, k, c) /\ Progress(R, n, k, c)
  BY AfterLoad
<1>2. PICK k \in 0 .. Len(R), c \in Nat : InUse(R, a, b, n, k, c)
  BY <1>1
<1>3. PML4 # 0 /\ cr3 = PML4 /\ layout \in Layouts /\ Arranged(R, a, b, n)
  BY <1>2 DEF InUse
<1>4. u \in MappedPages /\ Translation(PML4, u * PAGE_SIZE).frame = Translation(cr3, v * PAGE_SIZE).frame
  BY DEF Reaches
<1>5. /\ v \in VirtualPages /\ Translates(mem, PML4, v) /\ v \in Nat
      /\ u \in VirtualPages /\ Translates(mem, PML4, u) /\ u \in Nat
  BY <1>3, <1>4, PagesSeen
<1>6. /\ Translation(cr3, v * PAGE_SIZE) = View(mem, pat_msr, PML4, v)
      /\ Translation(cr3, u * PAGE_SIZE) = View(mem, pat_msr, PML4, u)
  BY <1>3, <1>5, SeenAtPage DEF SeenAt
<1>7. PICK i, f : Explains(R, a, n, k, c, i, f, v)
  BY <1>2, <1>5, SeenExplained
<1>8. PICK j, g : Explains(R, a, n, k, c, j, g, u)
  BY <1>2, <1>5, SeenExplained
<1>9. f = g
  BY <1>3, <1>4, <1>6, <1>7, <1>8 DEF Explains
<1>10. i \in 1 .. Len(R) /\ "M_X" \in R[i].flags
  BY <1>3, <1>6, <1>7 DEF Explains, Arranged
<1>11. a < i /\ i <= b
  BY <1>3, <1>10, CodeIsLinked
<1>12. i <= n
  BY <1>3, <1>10, <1>11 DEF Arranged
<1>13. u = v
  BY <1>2, <1>5, <1>7, <1>8, <1>9, <1>11, <1>12, CodeSeenOnce
<1>14. ~View(mem, pat_msr, PML4, v).w
  BY <1>7, <1>10 DEF Explains
<1> QED BY <1>6, <1>13, <1>14

\* Whatever address it is reached by, a frame that holds code is written through none.
THEOREM CodeNeverWritten == BootSpec => []NoWritableAlias
BY CodeIsNotWritten, BootInductive, PTL

-----------------------------------------------------------------------------
(* The direct map.                                                         *)

\* vmm_map is called with an entry of the memory map as it is.
LEMMA DirectIs ==
  ASSUME NEW r, NEW i, Direct(r, i)
  PROVE  /\ Rounded(r).what = layout.memmap[i].base
         /\ Rounded(r).size = layout.memmap[i].length
         /\ r.what = layout.memmap[i].base /\ r.size = layout.memmap[i].length
<1>1. PICK e : e = layout.memmap[i]
  OBVIOUS
<1>2. /\ r.what = e.base /\ r.size = e.length /\ r.unaligned = FALSE
  BY <1>1 DEF Direct, DirectTo, Request
<1> QED BY <1>1, <1>2 DEF Rounded

\* A page that an entry of the memory map fills is seen in the direct map, and a
\* request of that half explains it.
LEMMA EntrySeen ==
  ASSUME NEW R, NEW a, NEW b, NEW n, NEW k, NEW c, InUse(R, a, b, n, k, c),
         NEW i \in Mapping, NEW f \in EntryPages(layout.memmap[i])
  PROVE  /\ f \in Nat /\ f \in EntryFrames(layout, i)
         /\ \E v \in VirtualPages : \E j :
              /\ v * PAGE_SIZE = phy_to_virt(f * PAGE_SIZE)
              /\ Explains(R, a, n, k, c, j, f, v) /\ (j <= a \/ j > n)
<1>1. /\ layout \in Layouts /\ Arranged(R, a, b, n) /\ k \in 0 .. Len(R) /\ n <= k
      /\ \A j \in 1 .. k : Extent(R, j, k, c) # 0 => Whole(Rounded(R[j]))
      /\ \A j \in 1 .. n : Extent(R, j, k, c) = Rounded(R[j]).size
  BY DEF InUse
<1>2. /\ {a, b, n, k, Len(R)} \subseteq Nat /\ a <= b /\ b <= n /\ n <= Len(R)
  BY <1>1 DEF Arranged
<1>3. PICK j \in 1 .. a : R[j] = DirectTo(i)
  BY <1>1 DEF Arranged
<1>4. j \in 1 .. n /\ j \in 1 .. k /\ j \in 1 .. Len(R)
  BY <1>1, <1>2
<1>5. f \in Nat /\ f \in EntryFrames(layout, i) /\ layout.memmap[i].length \in Nat \ {0}
  BY <1>1, PagesAreFrames DEF Mapping
<1>6. Direct(R[j], i)
  BY <1>3, Sorts, Zenon
<1>7. Rounded(R[j]).size # 0 /\ f \in FramesOf(R[j].what, R[j].size)
  BY <1>5, <1>6, DirectIs DEF Direct
<1>8. Extent(R, j, k, c) = Rounded(R[j]).size /\ Whole(Rounded(R[j]))
  BY <1>1, <1>4, <1>7
<1>9. Good(R[j], TRUE)
  BY <1>1, <1>3, DirectGood
<1>10. PICK v \in VirtualPages : Place(TRUE, v, f)
  BY <1>1, <1>5, <1>7, <1>8, <1>9, PlaceOf
<1>11. (j <= a \/ j > n) = TRUE
  BY <1>3
<1>12. Place(j <= a \/ j > n, v, f)
  BY <1>10, <1>11, Zenon
<1>13. PICK l : /\ Explains(R, a, n, k, c, l, f, v)
                /\ (l <= a \/ l > n) <=> (j <= a \/ j > n)
  BY <1>4, <1>5, <1>7, <1>8, <1>12, AskedIsSeen
<1>14. v * PAGE_SIZE = phy_to_virt(f * PAGE_SIZE)
  <2>1. PICK p \in Nat, y \in Nat : p = v * PAGE_SIZE /\ y = f * PAGE_SIZE /\ HHDM \in Nat
    BY <1>5, TimesOrder, VmmAssumption DEF VirtualPages
  <2>2. v * PAGE_SIZE = f * PAGE_SIZE + HHDM
    BY <1>10 DEF Place
  <2>3. p = HHDM + y
    BY <2>1, <2>2
  <2> QED BY <2>1, <2>3 DEF phy_to_virt
<1> QED BY <1>5, <1>11, <1>13, <1>14

\* No request that shows a page of memory to be handed out asks for less than all of
\* the direct map's rights.
LEMMA MemoryAskedAlike ==
  ASSUME NEW R, NEW a, NEW b, NEW n, layout \in Layouts, Arranged(R, a, b, n),
         NEW i \in Entries, layout.memmap[i].type \in RamTypes \cup ReclaimTypes,
         NEW f \in EntryPages(layout.memmap[i]),
         NEW j \in 1 .. Len(R), j <= a \/ j > n, f \in FramesOf(R[j].what, R[j].size),
         Whole(Rounded(R[j]))
  PROVE  R[j].flags = {"M_W"}
<1>1. f \in Nat /\ f \in EntryFrames(layout, i) /\ layout.memmap[i].length \in Nat \ {0}
  BY PagesAreFrames
<1>2. j <= a
  <2> SUFFICES ASSUME j > n PROVE FALSE
    OBVIOUS
  <2>1. {n, j} \subseteq Nat
    BY DEF Arranged
  <2>2. Window(R[j])
    BY <2>1, SortOf
  <2>3. layout.memmap[i].type \in HhdmTypes \cup {"EXECUTABLE_AND_MODULES"}
    BY DEF HhdmTypes
  <2> QED BY <1>1, <2>2, <2>3, RegistersApart
<1>3. PICK p : Direct(R[j], p)
  BY <1>2, SortOf
<1>4. /\ p \in Mapping /\ p \in Entries /\ f \in EntryFrames(layout, p)
      /\ R[j].flags = HhdmFlags(layout.memmap[p].type)
      /\ layout.memmap[p].type \in HhdmTypes
  BY <1>3 DEF Direct, Mapping
<1>5. CASE p = i
  <2>1. PICK t : t = layout.memmap[i].type /\ t \in RamTypes \cup ReclaimTypes
    OBVIOUS
  <2>2. HhdmFlags(t) = {"M_W"}
    BY <2>1 DEF HhdmFlags, RamTypes, ReclaimTypes
  <2> QED BY <1>4, <1>5, <2>1, <2>2
<1>6. CASE p # i
  <2>1. layout.memmap[i].type \notin ReclaimTypes
    BY <1>1, <1>4, <1>6, EntriesApart
  <2>2. layout.memmap[i].type = "USABLE" /\ layout.memmap[i].type \in HhdmTypes
    BY <2>1 DEF RamTypes, ReclaimTypes, HhdmTypes
  <2>3. layout.memmap[p].type \notin ReclaimTypes \cup {"FRAMEBUFFER"}
    BY <1>1, <1>4, <1>6, <2>2, EntriesApart DEF Mapping
  <2>4. CASE layout.memmap[p].type = "USABLE"
    BY <1>4, <2>4 DEF HhdmFlags, RamTypes
  <2>5. CASE layout.memmap[p].type = "RESERVED_MAPPED"
    <3>1. PICK e, g : e = layout.memmap[i] /\ g = layout.memmap[p]
      OBVIOUS
    <3>2. /\ e.base \in Nat /\ e.length \in Nat /\ g.base \in Nat /\ g.length \in Nat
          /\ EndOf(e) = e.base + e.length /\ EndOf(g) = g.base + g.length
      BY <1>4, <3>1, EntryFacts DEF Entry, EndOf
    <3>3. Aligned(e.base) /\ Aligned(e.length) /\ Apart(e, g)
      BY <1>4, <1>6, <2>2, <3>1, PmmAssumption DEF WellFormed, RamTypes, Entries
    <3>4. PICK y \in Nat : y = f * PAGE_SIZE
      BY <1>1, TimesOrder
    <3>5. e.base <= y /\ y < EndOf(e)
      <4>1. f \in PagesOf(e.base, e.length)
        BY <3>1 DEF EntryPages
      <4>2. PICK end \in Nat : end = e.base + e.length
        BY <3>2
      <4>3. e.base \div PAGE_SIZE <= f /\ f < end \div PAGE_SIZE
        BY <1>1, <3>2, <4>1, <4>2, PagesOfMember
      <4>4. PICK x \in Nat, z \in Nat :
              /\ x = e.base \div PAGE_SIZE /\ z = end \div PAGE_SIZE
              /\ x * PAGE_SIZE = e.base
              /\ round_down(end, PAGE_SIZE) = z * PAGE_SIZE /\ z * PAGE_SIZE <= end
        <5>1. e.base \div PAGE_SIZE \in Nat /\ end \div PAGE_SIZE \in Nat
          BY <3>2, DivMod, PmmAssumption
        <5>2. /\ round_down(e.base, PAGE_SIZE) = (e.base \div PAGE_SIZE) * PAGE_SIZE
              /\ round_down(e.base, PAGE_SIZE) = e.base
          BY <3>2, <3>3, Rounding
        <5>3. /\ round_down(end, PAGE_SIZE) = (end \div PAGE_SIZE) * PAGE_SIZE
              /\ round_down(end, PAGE_SIZE) <= end
          BY Rounding
        <5> QED BY <5>1, <5>2, <5>3
      <4>5. x <= f /\ f < z
        BY <4>3, <4>4
      <4>6. x * PAGE_SIZE <= f * PAGE_SIZE /\ f * PAGE_SIZE < z * PAGE_SIZE
        BY <1>1, <4>5, TimesOrder
      <4>7. PICK w \in Nat : w = z * PAGE_SIZE
        BY TimesOrder
      <4> QED BY <3>2, <3>4, <4>2, <4>4, <4>6, <4>7
    <3>6. g.base <= y /\ y < EndOf(g)
      <4>1. PICK q : q = Rounded(R[j])
        OBVIOUS
      <4>2. q.what = g.base /\ q.size = g.length
        BY <1>3, <3>1, <4>1, DirectIs
      <4>3. (j <= a \/ j > n) = TRUE
        BY <1>2
      <4>4. Good(R[j], TRUE)
        BY <4>3, AllGood
      <4>5. q.what <= f * PAGE_SIZE /\ f * PAGE_SIZE < q.what + q.size
        BY <1>1, <4>1, <4>4 DEF Good
      <4> QED BY <3>2, <3>4, <4>2, <4>5
    <3> QED BY <3>2, <3>3, <3>4, <3>5, <3>6 DEF Apart
  <2> QED BY <1>4, <2>3, <2>4, <2>5 DEF HhdmTypes, RamTypes, ReclaimTypes
<1> QED BY <1>5, <1>6
\* Memory the allocator deals in, and what the loader and the bitmap hold, are
\* entries of those types.
LEMMA MemoryIs ==
  ASSUME VInv, stage # "boot",
         NEW f \in FreePages \cup HeldPages \cup BitmapPages \cup StackPages \cup LoaderPages
  PROVE  \E i \in Entries : /\ layout.memmap[i].type \in RamTypes \cup ReclaimTypes
                            /\ f \in EntryPages(layout.memmap[i])
<1>1. Books /\ layout \in Layouts
  BY DEF VInv, Books
<1>2. FreePages \subseteq Managed /\ HeldPages \subseteq Managed
  BY <1>1 DEF Books, Conserved
<1>3. \A T \in SUBSET (RamTypes \cup ReclaimTypes) :
        PagesOfType(T) \subseteq PagesOfType(RamTypes \cup ReclaimTypes)
  BY PagesOfTypeMember
<1>4. {"USABLE"} \in SUBSET (RamTypes \cup ReclaimTypes)
      /\ ReclaimTypes \in SUBSET (RamTypes \cup ReclaimTypes)
      /\ {"BOOTLOADER_RECLAIMABLE"} \in SUBSET (RamTypes \cup ReclaimTypes)
  BY DEF RamTypes
<1>5. Managed \subseteq PagesOfType(RamTypes \cup ReclaimTypes)
  BY <1>3, <1>4, ManagedIs
<1>6. BitmapPages \subseteq PagesOfType(RamTypes \cup ReclaimTypes)
  BY <1>1, <1>3, <1>4, BitmapUsable
<1>7. StackPages \subseteq PagesOfType(RamTypes \cup ReclaimTypes)
  BY <1>1, <1>3, <1>4, StackInReclaimed
<1>8. LoaderPages \subseteq PagesOfType(RamTypes \cup ReclaimTypes)
  BY <1>3, <1>4 DEF LoaderPages
<1> QED BY <1>2, <1>5, <1>6, <1>7, <1>8, PagesOfTypeMember

\* Memory is seen in the direct map.
LEMMA MemoryIsReached ==
  ASSUME BInv
  PROVE  DirectMapReaches
<1> SUFFICES ASSUME cr3 # 0,
                    NEW f \in FreePages \cup HeldPages \cup BitmapPages \cup StackPages
                               \cup LoaderPages,
                    NEW where, where = phy_to_virt(f * PAGE_SIZE)
             PROVE  Mapped(cr3, where) /\
                    Translation(cr3, where) =
                      [frame |-> f, w |-> TRUE, x |-> FALSE, u |-> FALSE, cache |-> "WB"]
  BY Zenon DEF DirectMapReaches
<1>1. PICK R, a, b, n : \E k \in 0 .. Len(R), c \in Nat :
        InUse(R, a, b, n, k, c) /\ Progress(R, n, k, c)
  BY AfterLoad
<1>2. PICK k \in 0 .. Len(R), c \in Nat : InUse(R, a, b, n, k, c)
  BY <1>1
<1>3. PML4 # 0 /\ cr3 = PML4 /\ layout \in Layouts /\ Arranged(R, a, b, n)
  BY <1>2 DEF InUse
<1>4. VInv /\ stage # "boot"
  BY <1>3, Setting DEF VInv, Walking
<1>5. PICK i \in Entries : /\ layout.memmap[i].type \in RamTypes \cup ReclaimTypes
                           /\ f \in EntryPages(layout.memmap[i])
  BY <1>4, MemoryIs
<1>6. i \in Mapping
  BY <1>5 DEF Mapping, HhdmTypes
<1>7. PICK v, j :
        /\ v \in VirtualPages
        /\ v * PAGE_SIZE = phy_to_virt(f * PAGE_SIZE)
        /\ Explains(R, a, n, k, c, j, f, v) /\ (j <= a \/ j > n)
  BY <1>2, <1>5, <1>6, EntrySeen
<1>8. /\ j \in 1 .. k /\ f \in FramesOf(R[j].what, R[j].size) /\ Whole(Rounded(R[j]))
      /\ Translates(mem, PML4, v)
      /\ View(mem, pat_msr, PML4, v).frame = f
      /\ View(mem, pat_msr, PML4, v).w <=> "M_W" \in R[j].flags
      /\ View(mem, pat_msr, PML4, v).x <=> "M_X" \in R[j].flags
      /\ ~View(mem, pat_msr, PML4, v).u
      /\ View(mem, pat_msr, PML4, v).cache = CacheOf(R[j].flags)
  BY <1>7, Zenon DEF Explains
<1>9. j \in 1 .. Len(R)
  BY <1>3, <1>8 DEF Arranged
<1>10. R[j].flags = {"M_W"}
  BY <1>3, <1>5, <1>7, <1>8, <1>9, MemoryAskedAlike
<1>11. "M_W" \in R[j].flags /\ "M_X" \notin R[j].flags /\ CacheOf(R[j].flags) = "WB"
  BY <1>10 DEF CacheOf
<1>12. View(mem, pat_msr, PML4, v) =
         [frame |-> f, w |-> TRUE, x |-> FALSE, u |-> FALSE, cache |-> "WB"]
  <2>1. /\ (\A d \in Depths : Read(mem, PML4, v, d).rw) \in BOOLEAN
        /\ (\A d \in Depths : ~Read(mem, PML4, v, d).xd) \in BOOLEAN
        /\ (\A d \in Depths : Read(mem, PML4, v, d).us) \in BOOLEAN
    OBVIOUS
  <2>2. PICK w \in BOOLEAN, x \in BOOLEAN, u \in BOOLEAN :
          /\ w = (\A d \in Depths : Read(mem, PML4, v, d).rw)
          /\ x = (\A d \in Depths : ~Read(mem, PML4, v, d).xd)
          /\ u = (\A d \in Depths : Read(mem, PML4, v, d).us)
    BY <2>1
  <2>3. PICK t, g, m : /\ t = View(mem, pat_msr, PML4, v) /\ g = Read(mem, PML4, v, 3).addr
                       /\ m = pat_msr[Read(mem, PML4, v, 3).pat]
    OBVIOUS
  <2>4. t = View(mem, pat_msr, PML4, v) /\ t = [frame |-> g, w |-> w, x |-> x, u |-> u, cache |-> m]
    BY <2>3, <2>2 DEF View
  <2>5. t.frame = f /\ t.w = TRUE /\ t.x = FALSE /\ t.u = FALSE /\ t.cache = "WB"
    BY <1>8, <1>11, <2>4
  <2>6. g = f /\ w = TRUE /\ x = FALSE /\ u = FALSE /\ m = "WB"
    BY <2>4, <2>5
  <2> QED BY <2>4, <2>6, Zenon
<1>13. v \in Nat
  BY <1>7, VmmAssumption DEF VirtualPages
<1>14. SeenAt(PML4, v, where)
  BY <1>7, <1>13, SeenAtPage
<1> QED BY <1>3, <1>8, <1>12, <1>14, Zenon DEF SeenAt

\* Memory the allocator may hand out or has handed out is reached through the direct
\* map, as is what it reads and what the loader left: writable and no code.
THEOREM DirectMapComplete == BootSpec => []DirectMapReaches
BY MemoryIsReached, BootInductive, PTL

-----------------------------------------------------------------------------
(* Segments.                                                               *)

\* A segment that holds a byte of a frame is mapped in whole pages, as rights of a
\* program header say.
LEMMA SegmentIs ==
  ASSUME NEW R, NEW a, NEW b, NEW n, NEW k, NEW c, InUse(R, a, b, n, k, c),
         NEW i, NEW j \in 1 .. n, R[j] = LinkedTo(i),
         i \in Segments(layout, {"PT_LOAD", "PT_GNU_RELRO"}),
         NEW f \in Nat, f \in LinkedFrames(layout, i)
  PROVE  /\ f \in FramesOf(R[j].what, R[j].size)
         /\ Extent(R, j, k, c) = Rounded(R[j]).size /\ Whole(Rounded(R[j]))
<1>1. /\ layout \in Layouts /\ Arranged(R, a, b, n) /\ k \in 0 .. Len(R) /\ n <= k
      /\ \A l \in 1 .. k : Extent(R, l, k, c) # 0 => Whole(Rounded(R[l]))
      /\ \A l \in 1 .. n : Extent(R, l, k, c) = Rounded(R[l]).size
  BY DEF InUse
<1>2. {n, k} \subseteq Nat /\ j \in 1 .. k
  BY <1>1 DEF Arranged
<1>3. PICK h : h = layout.phdrs[i]
  OBVIOUS
<1>4. h.vaddr \in Nat /\ h.memsz \in Nat
  <2>1. i \in DOMAIN layout.phdrs /\ layout.phdrs \in Seq(Phdr)
    BY <1>1, HandOver DEF HandedOver, Segments
  <2>2. h \in Phdr
    BY <1>3, <2>1
  <2> QED BY <2>2 DEF Phdr
<1>5. /\ layout.physical_base \in Nat /\ layout.virtual_base \in Nat
      /\ Aligned(layout.physical_base) /\ Aligned(layout.virtual_base)
  BY <1>1, HandOver DEF HandedOver, LaidOut
<1>6. PICK flags : flags = elf_to_memory_flags(h.flags)
  OBVIOUS
<1>7. R[j] = Request(layout.physical_base + h.vaddr, layout.virtual_base + h.vaddr, h.memsz,
                     flags, TRUE)
  BY <1>3, <1>6, Zenon DEF LinkedTo
<1>8. PICK q, x : q = Rounded(R[j]) /\ x = layout.physical_base + h.vaddr
  OBVIOUS
<1>9. /\ q.size \in Nat /\ q.what \in Nat
      /\ q.what = round_down(x, PAGE_SIZE) /\ q.what + q.size = round_up(x + h.memsz, PAGE_SIZE)
  <2>1. WholePages(q, h.vaddr, h.memsz, layout.physical_base, layout.virtual_base, flags)
    BY <1>4, <1>5, <1>7, <1>8, UnalignedIs
  <2> QED BY <1>8, <2>1 DEF WholePages
<1>10. f \in FramesOf(x, h.memsz)
  BY <1>3, <1>8, Zenon DEF LinkedFrames
<1>11. q.what <= f * PAGE_SIZE /\ f * PAGE_SIZE < q.what + q.size
  BY <1>4, <1>5, <1>8, <1>9, <1>10, FramesBetween
<1>12. PICK y \in Nat : y = f * PAGE_SIZE
  BY TimesOrder
<1>13. q.size # 0
  BY <1>9, <1>11, <1>12
<1>14. OfSegment(R[j], i, layout.phdrs[i].type)
  <2>1. i \in Segments(layout, {layout.phdrs[i].type})
    BY DEF Segments
  <2> QED BY <2>1, Sorts
<1>15. f \in FramesOf(R[j].what, R[j].size)
  BY <1>14, Zenon DEF OfSegment
<1> QED BY <1>1, <1>2, <1>8, <1>13, <1>15

\* What is read-only after relocation is asked for without the right to write or to
\* execute.
LEMMA RelroFlags ==
  ASSUME layout \in Layouts, NEW r, NEW i, OfSegment(r, i, "PT_GNU_RELRO")
  PROVE  "M_W" \notin r.flags /\ "M_X" \notin r.flags
<1>1. layout.phdrs[i].flags \cap {"PF_W", "PF_X"} = {}
  BY HandOver DEF OfSegment, LinkedApart
<1> QED BY <1>1 DEF OfSegment, elf_to_memory_flags

\* A segment is seen where it is linked, with no other rights than its own.
LEMMA SegmentSeen ==
  ASSUME BInv, cr3 # 0, NEW i \in DOMAIN layout.phdrs, NEW h, h = layout.phdrs[i],
         h.type = "PT_LOAD", NEW f \in Nat, f \in LinkedFrames(layout, i),
         NEW where, where = LinkedAt(f), NEW t, t = Translation(cr3, where)
  PROVE  /\ Mapped(cr3, where) /\ t.frame = f
         /\ t.x <=> "PF_X" \in h.flags
         /\ t.w => "PF_W" \in h.flags
<1>1. PICK R, a, b, n : \E k \in 0 .. Len(R), c \in Nat :
        InUse(R, a, b, n, k, c) /\ Progress(R, n, k, c)
  BY AfterLoad
<1>2. PICK k \in 0 .. Len(R), c \in Nat : InUse(R, a, b, n, k, c)
  BY <1>1
<1>3. /\ PML4 # 0 /\ cr3 = PML4 /\ layout \in Layouts /\ Arranged(R, a, b, n)
      /\ k \in 0 .. Len(R) /\ n <= k
  BY <1>2 DEF InUse
<1>4. {a, b, n, k, Len(R)} \subseteq Nat /\ a <= b /\ b <= n /\ n <= Len(R)
  BY <1>3 DEF Arranged
<1>5. i \in Segments(layout, {"PT_LOAD"}) /\ i \in Segments(layout, {"PT_LOAD", "PT_GNU_RELRO"})
  BY DEF Segments
<1>6. PICK j \in a + 1 .. b : R[j] = LinkedTo(i)
  BY <1>3, <1>5 DEF Arranged
<1>7. j \in 1 .. n /\ j \in 1 .. k /\ j \in 1 .. Len(R) /\ (j <= a \/ j > n) = FALSE
  BY <1>3, <1>4
<1>8. /\ f \in FramesOf(R[j].what, R[j].size)
      /\ Extent(R, j, k, c) = Rounded(R[j]).size /\ Whole(Rounded(R[j]))
  BY <1>2, <1>5, <1>6, <1>7, SegmentIs
<1>9. Good(R[j], FALSE)
  BY <1>3, <1>5, <1>6, LinkedGood
<1>10. PICK v \in VirtualPages : Place(FALSE, v, f)
  BY <1>3, <1>8, <1>9, PlaceOf
<1>11. PICK l : /\ Explains(R, a, n, k, c, l, f, v) /\ j <= l
                /\ (l <= a \/ l > n) <=> (j <= a \/ j > n)
  <2>1. Place(j <= a \/ j > n, v, f)
    BY <1>7, <1>10, Zenon
  <2> QED BY <1>2, <1>7, <1>8, <2>1, AskedIsSeen
<1>12. /\ l \in 1 .. k /\ f \in FramesOf(R[l].what, R[l].size)
       /\ Translates(mem, PML4, v)
       /\ View(mem, pat_msr, PML4, v).frame = f
       /\ View(mem, pat_msr, PML4, v).w <=> "M_W" \in R[l].flags
       /\ View(mem, pat_msr, PML4, v).x <=> "M_X" \in R[l].flags
  BY <1>11, Zenon DEF Explains
<1>13. l \in 1 .. Len(R) /\ a < l /\ l <= n
  BY <1>4, <1>7, <1>11, <1>12
<1>14. /\ "M_X" \in R[l].flags <=> "PF_X" \in h.flags
       /\ "M_W" \in R[l].flags => "PF_W" \in h.flags
  <2>1. CASE l <= b
    <3>1. PICK p : OfSegment(R[l], p, "PT_LOAD")
      BY <1>3, <1>13, <2>1, SortOf
    <3>2. p = i
      BY <1>3, <1>5, <1>12, <3>1, HandOver DEF OfSegment, LinkedApart
    <3> QED BY <3>1, <3>2 DEF OfSegment, elf_to_memory_flags
  <2>2. CASE b < l
    <3>1. PICK p : OfSegment(R[l], p, "PT_GNU_RELRO")
      BY <1>3, <1>13, <2>2, SortOf
    <3>2. "M_W" \notin R[l].flags /\ "M_X" \notin R[l].flags
      BY <1>3, <3>1, RelroFlags
    <3>3. "PF_X" \notin h.flags
      BY <1>3, <1>5, <1>12, <3>1, HandOver DEF OfSegment, LinkedApart
    <3> QED BY <3>2, <3>3
  <2> QED BY <1>4, <1>13, <2>1, <2>2
<1>15. where = v * PAGE_SIZE /\ v \in Nat
  <2>1. v \in Nat
    BY VmmAssumption DEF VirtualPages
  <2>2. PICK p \in Nat, y \in Nat : p = v * PAGE_SIZE /\ y = f * PAGE_SIZE
    BY <2>1, TimesOrder
  <2>3. layout.physical_base \in Nat /\ layout.virtual_base \in Nat
    BY <1>3, HandOver DEF HandedOver
  <2>4. p + layout.physical_base = y + layout.virtual_base
    BY <1>10, <2>2 DEF Place
  <2> QED BY <2>1, <2>2, <2>3, <2>4 DEF LinkedAt
<1>16. SeenAt(PML4, v, where)
  BY <1>15, SeenAtPage
<1>17. t = View(mem, pat_msr, PML4, v) /\ Mapped(cr3, where)
  BY <1>3, <1>12, <1>16, Zenon DEF SeenAt
<1> QED BY <1>12, <1>14, <1>17

\* What is read-only after relocation is written through no address.
LEMMA RelroSeen ==
  ASSUME BInv, cr3 # 0, NEW i \in DOMAIN layout.phdrs, layout.phdrs[i].type = "PT_GNU_RELRO",
         NEW f \in Nat, f \in LinkedFrames(layout, i), NEW v \in Reaches(f)
  PROVE  ~Translation(cr3, v * PAGE_SIZE).w
<1>1. PICK R, a, b, n : \E k \in 0 .. Len(R), c \in Nat :
        InUse(R, a, b, n, k, c) /\ Progress(R, n, k, c)
  BY AfterLoad
<1>2. PICK k \in 0 .. Len(R), c \in Nat : InUse(R, a, b, n, k, c)
  BY <1>1
<1>3. /\ PML4 # 0 /\ cr3 = PML4 /\ layout \in Layouts /\ Arranged(R, a, b, n)
      /\ k \in 0 .. Len(R) /\ n <= k
  BY <1>2 DEF InUse
<1>4. {a, b, n, k, Len(R)} \subseteq Nat /\ a <= b /\ b <= n /\ n <= Len(R)
  BY <1>3 DEF Arranged
<1>5. /\ i \in Segments(layout, {"PT_GNU_RELRO"})
      /\ i \in Segments(layout, {"PT_LOAD", "PT_GNU_RELRO"})
  BY DEF Segments
<1>6. PICK j \in b + 1 .. n : R[j] = LinkedTo(i)
  BY <1>3, <1>5 DEF Arranged
<1>7. j \in 1 .. n /\ j \in 1 .. k /\ j \in 1 .. Len(R) /\ a < j /\ j <= n
  BY <1>3, <1>4
<1>8. /\ f \in FramesOf(R[j].what, R[j].size)
      /\ Extent(R, j, k, c) = Rounded(R[j]).size /\ Whole(Rounded(R[j]))
  BY <1>2, <1>5, <1>6, <1>7, SegmentIs
<1>9. v \in VirtualPages /\ v \in Nat /\ Translates(mem, PML4, v)
      /\ Translation(PML4, v * PAGE_SIZE).frame = f
  BY <1>3, PagesSeen DEF Reaches
<1>10. Translation(PML4, v * PAGE_SIZE) = View(mem, pat_msr, PML4, v)
  BY <1>9, SeenAtPage DEF SeenAt
<1>11. PICK p, g : Explains(R, a, n, k, c, p, g, v)
  BY <1>2, <1>9, SeenExplained
<1>12. /\ p \in 1 .. k /\ g = f /\ f \in FramesOf(R[p].what, R[p].size)
       /\ Place(p <= a \/ p > n, v, f)
  BY <1>9, <1>10, <1>11 DEF Explains
<1>13. p \in 1 .. Len(R)
  BY <1>3, <1>4, <1>12
<1>14. ~(p <= a \/ p > n)
  BY <1>3, <1>7, <1>8, <1>12, <1>13, HalvesApart
<1>15. (p <= a \/ p > n) = (j <= a \/ j > n)
  BY <1>4, <1>7, <1>14
<1>16. Place(j <= a \/ j > n, v, f)
  BY <1>12, <1>15
<1>17. PICK l : /\ Explains(R, a, n, k, c, l, f, v) /\ j <= l
                /\ (l <= a \/ l > n) <=> (j <= a \/ j > n)
  BY <1>2, <1>7, <1>8, <1>9, <1>16, AskedIsSeen
<1>18. /\ l \in 1 .. k
       /\ View(mem, pat_msr, PML4, v).w <=> "M_W" \in R[l].flags
  BY <1>17, Zenon DEF Explains
<1>19. l \in 1 .. Len(R) /\ b < l /\ l <= n
  BY <1>3, <1>4, <1>6, <1>7, <1>17, <1>18
<1>20. PICK m : OfSegment(R[l], m, "PT_GNU_RELRO")
  BY <1>3, <1>19, SortOf
<1>21. "M_W" \notin R[l].flags
  BY <1>3, <1>20, RelroFlags
<1> QED BY <1>3, <1>10, <1>18, <1>21

\* The segments are where the linker put them, with the rights it gave them.
LEMMA SegmentsAreProtected ==
  ASSUME BInv
  PROVE  SegmentsProtected
<1>1. ASSUME cr3 # 0, NEW i \in DOMAIN layout.phdrs, NEW h, h = layout.phdrs[i],
             NEW f \in SegmentFrames(h)
      PROVE  /\ h.type = "PT_LOAD" =>
                  /\ Mapped(cr3, LinkedAt(f)) /\ Translation(cr3, LinkedAt(f)).frame = f
                  /\ Translation(cr3, LinkedAt(f)).x <=> "PF_X" \in h.flags
                  /\ Translation(cr3, LinkedAt(f)).w => "PF_W" \in h.flags
             /\ h.type = "PT_GNU_RELRO" =>
                  \A v \in Reaches(f) : ~Translation(cr3, v * PAGE_SIZE).w
  <2>1. f \in Nat
    BY <1>1, VmmAssumption DEF SegmentFrames, Frames
  <2>2. layout \in Layouts
    BY Setting
  <2>3. f \in LinkedFrames(layout, i)
    <3>1. PICK x, y : /\ x = (layout.physical_base + h.vaddr) \div PAGE_SIZE
                      /\ y = PageCount(layout.physical_base + h.vaddr + h.memsz)
      OBVIOUS
    <3>2. x \in Nat /\ y \in Nat
      <4>1. h \in Phdr
        BY <1>1, <2>2, HandOver DEF HandedOver
      <4>2. h.vaddr \in Nat /\ h.memsz \in Nat /\ layout.physical_base \in Nat
        BY <2>2, <4>1, HandOver DEF HandedOver, Phdr
      <4>3. PICK p \in Nat, q \in Nat : /\ p = layout.physical_base + h.vaddr
                                        /\ q = layout.physical_base + h.vaddr + h.memsz
        BY <4>2
      <4>4. p \div PAGE_SIZE \in Nat /\ PageCount(q) \in Nat
        BY DivMod, PageCountNat, PmmAssumption
      <4> QED BY <3>1, <4>3, <4>4
    <3>3. x <= f /\ f < y
      BY <1>1, <3>1 DEF SegmentFrames
    <3>4. f \in x .. y - 1
      BY <2>1, <3>2, <3>3
    <3> QED BY <1>1, <3>1, <3>4, Zenon DEF LinkedFrames, FramesOf
  <2>4. ASSUME h.type = "PT_LOAD"
        PROVE  /\ Mapped(cr3, LinkedAt(f)) /\ Translation(cr3, LinkedAt(f)).frame = f
               /\ Translation(cr3, LinkedAt(f)).x <=> "PF_X" \in h.flags
               /\ Translation(cr3, LinkedAt(f)).w => "PF_W" \in h.flags
    BY <1>1, <2>1, <2>3, <2>4, SegmentSeen
  <2>5. ASSUME h.type = "PT_GNU_RELRO", NEW v \in Reaches(f)
        PROVE  ~Translation(cr3, v * PAGE_SIZE).w
    BY <1>1, <2>1, <2>3, <2>5, RelroSeen
  <2> QED BY <2>4, <2>5
<1> QED BY <1>1, Zenon DEF SegmentsProtected

\* Every byte of a loaded segment is where it was linked, with no right its header
\* does not give, and what PT_GNU_RELRO covers is written through no address.
THEOREM SegmentsStayProtected == BootSpec => []SegmentsProtected
BY SegmentsAreProtected, BootInductive, PTL

-----------------------------------------------------------------------------
(* Devices.                                                                *)

\* A frame buffer is seen in the direct map as its own entry asks, and no other.
LEMMA FrameBufferSeen ==
  ASSUME BInv, cr3 # 0, NEW f \in PagesOfType({"FRAMEBUFFER"})
  PROVE  Translation(cr3, phy_to_virt(f * PAGE_SIZE)).cache = "WC"
<1>1. PICK R, a, b, n : \E k \in 0 .. Len(R), c \in Nat :
        InUse(R, a, b, n, k, c) /\ Progress(R, n, k, c)
  BY AfterLoad
<1>2. PICK k \in 0 .. Len(R), c \in Nat : InUse(R, a, b, n, k, c)
  BY <1>1
<1>3. PML4 # 0 /\ cr3 = PML4 /\ layout \in Layouts /\ Arranged(R, a, b, n)
  BY <1>2 DEF InUse
<1>4. PICK i \in Entries : /\ layout.memmap[i].type = "FRAMEBUFFER"
                           /\ f \in EntryPages(layout.memmap[i])
  BY PagesOfTypeMember
<1>5. i \in Mapping
  BY <1>4 DEF Mapping, HhdmTypes
<1>6. f \in Nat /\ f \in EntryFrames(layout, i)
  BY <1>2, <1>4, <1>5, EntrySeen
<1>7. PICK v, j :
        /\ v \in VirtualPages
        /\ v * PAGE_SIZE = phy_to_virt(f * PAGE_SIZE)
        /\ Explains(R, a, n, k, c, j, f, v) /\ (j <= a \/ j > n)
  BY <1>2, <1>4, <1>5, EntrySeen
<1>8. /\ j \in 1 .. k /\ f \in FramesOf(R[j].what, R[j].size)
      /\ View(mem, pat_msr, PML4, v).cache = CacheOf(R[j].flags)
  BY <1>7, Zenon DEF Explains
<1>9. j \in 1 .. Len(R) /\ {a, n, j} \subseteq Nat
  BY <1>3, <1>8 DEF Arranged
<1>10. ~(j > n)
  <2> SUFFICES ASSUME j > n PROVE FALSE
    OBVIOUS
  <2>1. Window(R[j])
    BY <1>3, <1>9, SortOf
  <2> QED BY <1>3, <1>4, <1>6, <1>8, <2>1, RegistersApart DEF HhdmTypes
<1>11. PICK p : Direct(R[j], p)
  BY <1>3, <1>7, <1>9, <1>10, SortOf
<1>12. p = i
  BY <1>3, <1>4, <1>6, <1>8, <1>11, EntriesApart DEF Direct
<1>13. R[j].flags = {"M_W", "M_CACHE_WC"}
  <2>1. HhdmFlags("FRAMEBUFFER") = {"M_W", "M_CACHE_WC"}
    BY DEF HhdmFlags, RamTypes, ReclaimTypes
  <2> QED BY <1>4, <1>11, <1>12, <2>1 DEF Direct
<1>14. CacheOf(R[j].flags) = "WC"
  BY <1>13 DEF CacheOf
<1>15. v \in Nat
  BY <1>7, VmmAssumption DEF VirtualPages
<1>16. Translation(PML4, phy_to_virt(f * PAGE_SIZE)) = View(mem, pat_msr, PML4, v)
  BY <1>7, <1>15, SeenAtPage DEF SeenAt
<1> QED BY <1>3, <1>8, <1>14, <1>16

\* The window of the I/O APIC holds the page its registers begin in.
LEMMA WindowIs ==
  ASSUME layout \in Layouts, layout.has_ioapic, NEW f, f = layout.ioapic \div PAGE_SIZE
  PROVE  /\ f \in Nat /\ f \in IoapicFrames(layout)
         /\ Rounded(IoapicWindow).size # 0
         /\ f * PAGE_SIZE <= layout.ioapic /\ layout.ioapic < f * PAGE_SIZE + PAGE_SIZE
<1>1. PICK x \in Nat, s \in Nat \ {0} : x = layout.ioapic /\ s = layout.ioapic_size
  BY HandOver DEF HandedOver
<1>2. f \in Nat /\ round_down(x, PAGE_SIZE) = f * PAGE_SIZE
  BY <1>1, DivMod, Rounding, PmmAssumption
<1>3. PICK y \in Nat, z \in Nat : y = f * PAGE_SIZE /\ z = round_up(x + s, PAGE_SIZE)
                                  /\ x + s <= z
  <2>1. x + s \in Nat
    BY <1>1
  <2> QED BY <1>2, <2>1, TimesOrder, Rounding
<1>4. y <= x /\ x < y + PAGE_SIZE
  BY <1>2, <1>3, Rounding
<1>5. f \in FramesOf(x, s)
  <2>1. y < z
    BY <1>1, <1>3, <1>4
  <2>2. round_down(x, PAGE_SIZE) <= f * PAGE_SIZE /\ f * PAGE_SIZE < round_up(x + s, PAGE_SIZE)
    BY <1>2, <1>3, <2>1
  <2>3. s \in Nat
    BY <1>1
  <2> QED BY <1>2, <2>2, <2>3, FramesBetween
<1>6. PICK q : q = Rounded(IoapicWindow)
  OBVIOUS
<1>7. PICK flags : flags = {"M_W", "M_CACHE_UC"}
  OBVIOUS
<1>8. q = Rounded(Request(0 + x, HHDM + x, s, flags, TRUE))
  <2>1. 0 + x = x
    BY <1>1
  <2> QED BY <1>1, <1>6, <1>7, <2>1, Zenon DEF IoapicWindow, phy_to_virt
<1>9. WholePages(q, x, s, 0, HHDM, flags)
  <2>1. Aligned(0) /\ 0 \in Nat /\ Aligned(HHDM) /\ HHDM \in Nat
    BY HandOver, PmmAssumption, VmmAssumption DEF Aligned, LaidOut
  <2> QED BY <1>1, <1>8, <2>1, UnalignedIs
<1>10. q.where = HHDM + y /\ q.where + q.size = HHDM + z /\ q.size \in Nat /\ HHDM \in Nat
  BY <1>2, <1>3, <1>9, VmmAssumption DEF WholePages
<1>11. q.size # 0
  BY <1>1, <1>3, <1>4, <1>10
<1> QED BY <1>1, <1>2, <1>3, <1>4, <1>5, <1>6, <1>11 DEF IoapicFrames

\* The registers of the I/O APIC are uncached once they are mapped.
LEMMA RegistersSeen ==
  ASSUME BInv, pc \in Ends, layout.has_ioapic
  PROVE  Translation(cr3, phy_to_virt(layout.ioapic)).cache = "UC-"
<1>0. cr3 # 0
  <2>1. PICK R, n : Given(R, n) /\ \E k \in 0 .. Len(R), c \in Nat : Progress(R, n, k, c)
    BY Setting
  <2> QED BY <2>1 DEF Progress, Reached, Loaded
<1>1. PICK R, a, b, n : \E k \in 0 .. Len(R), c \in Nat :
        InUse(R, a, b, n, k, c) /\ Progress(R, n, k, c)
  BY <1>0, AfterLoad
<1>2. PICK k \in 0 .. Len(R), c \in Nat : InUse(R, a, b, n, k, c)
  BY <1>1
<1>3. /\ PML4 # 0 /\ cr3 = PML4 /\ layout \in Layouts /\ Arranged(R, a, b, n)
      /\ k = Len(R) /\ (k # 0 => Extent(R, k, k, c) = Rounded(R[k]).size)
      /\ \A j \in 1 .. k : Extent(R, j, k, c) # 0 => Whole(Rounded(R[j]))
  BY <1>2 DEF InUse
<1>4. {a, n, k} \subseteq Nat /\ n < k /\ k \in 1 .. k /\ R[k] = IoapicWindow
  BY <1>3 DEF Arranged
<1>5. PICK f : f = layout.ioapic \div PAGE_SIZE
  OBVIOUS
<1>6. /\ f \in Nat /\ f \in IoapicFrames(layout) /\ Rounded(R[k]).size # 0
      /\ f * PAGE_SIZE <= layout.ioapic /\ layout.ioapic < f * PAGE_SIZE + PAGE_SIZE
  BY <1>3, <1>4, <1>5, WindowIs
<1>7. PICK what, size : what = layout.ioapic /\ size = layout.ioapic_size
                        /\ R[k].what = what /\ R[k].size = size
                        /\ R[k].flags = {"M_W", "M_CACHE_UC"}
  <2>1. PICK what, where, size, flags, u :
          /\ what = layout.ioapic /\ where = phy_to_virt(layout.ioapic)
          /\ size = layout.ioapic_size /\ flags = {"M_W", "M_CACHE_UC"} /\ u = TRUE
    OBVIOUS
  <2>2. R[k] = [what |-> what, where |-> where, size |-> size, flags |-> flags, unaligned |-> u]
    BY <1>4, <2>1, Zenon DEF IoapicWindow, Request
  <2>3. R[k].what = what /\ R[k].size = size /\ R[k].flags = flags
    BY <2>2
  <2> QED BY <2>1, <2>3
<1>8. f \in FramesOf(R[k].what, R[k].size)
  BY <1>6, <1>7, Zenon DEF IoapicFrames
<1>9. Whole(Rounded(R[k])) /\ Extent(R, k, k, c) = Rounded(R[k]).size
  BY <1>3, <1>4, <1>6
<1>10. Good(R[k], TRUE)
  BY <1>3, <1>4, WindowGood
<1>11. PICK v \in VirtualPages : Place(TRUE, v, f)
  BY <1>3, <1>6, <1>8, <1>9, <1>10, PlaceOf
<1>12. Place(k <= a \/ k > n, v, f)
  <2>1. (k <= a \/ k > n) = TRUE
    BY <1>4
  <2> QED BY <1>11, <2>1, Zenon
<1>13. PICK j : Explains(R, a, n, k, c, j, f, v) /\ k <= j
  BY <1>2, <1>4, <1>6, <1>8, <1>9, <1>12, AskedIsSeen
<1>14. /\ j \in 1 .. k /\ View(mem, pat_msr, PML4, v).cache = CacheOf(R[j].flags)
  BY <1>13, Zenon DEF Explains
<1>15. j = k
  BY <1>4, <1>13, <1>14
<1>16. View(mem, pat_msr, PML4, v).cache = "UC-"
  BY <1>7, <1>14, <1>15 DEF CacheOf
<1>17. PICK x \in Nat, y \in Nat, p \in Nat, S \in Nat \ {0} :
         /\ x = layout.ioapic /\ y = f * PAGE_SIZE /\ p = v * PAGE_SIZE /\ S = PAGE_SIZE
         /\ p = v * S
         /\ p = y + HHDM /\ HHDM \in Nat /\ v \in Nat
  <2>1. v \in Nat
    BY VmmAssumption DEF VirtualPages
  <2>2. layout.ioapic \in Nat /\ HHDM \in Nat
    BY <1>3, HandOver, VmmAssumption DEF HandedOver
  <2>3. f * PAGE_SIZE \in Nat /\ v * PAGE_SIZE \in Nat /\ PAGE_SIZE \in Nat \ {0}
    BY <1>6, <2>1, TimesOrder, PmmAssumption
  <2>4. v * PAGE_SIZE = f * PAGE_SIZE + HHDM
    BY <1>11 DEF Place
  <2> QED BY <2>1, <2>2, <2>3, <2>4
<1>18. PICK d \in Nat : d = x - y /\ d < S
  BY <1>6, <1>17
<1>19. /\ HHDM + x = p + d /\ d < PAGE_SIZE /\ p \in Nat
       /\ v \in Nat /\ p = v * PAGE_SIZE
  <2>1. p = y + HHDM /\ HHDM \in Nat /\ x \in Nat /\ y \in Nat /\ p \in Nat
    BY <1>17
  <2>2. d = x - y
    BY <1>18
  <2>3. HHDM + x = p + d
    BY <1>18, <2>1, <2>2
  <2> QED BY <1>17, <1>18, <2>3
<1>20. (p + d) \div PAGE_SIZE = v
  <2>1. PICK w \in Nat : w = (p + d) \div PAGE_SIZE
    <3>1. PICK z \in Nat : z = p + d
      BY <1>18, <1>19
    <3> QED BY <3>1, DivMod, PmmAssumption
  <2>2. Aligned(p)
    BY <1>19, Multiple, PmmAssumption DEF Aligned
  <2>3. round_down(p + d, PAGE_SIZE) = p + round_down(d, PAGE_SIZE)
    BY <1>18, <1>19, <2>2, RoundingMoved
  <2>4. round_down(d, PAGE_SIZE) = 0
    BY <1>18, <1>19, PmmAssumption DEF round_down
  <2>5. round_down(p + d, PAGE_SIZE) = w * PAGE_SIZE
    BY <1>18, <1>19, <2>1, Rounding
  <2>6. w * PAGE_SIZE = v * PAGE_SIZE
    BY <1>19, <2>3, <2>4, <2>5
  <2>7. w <= v /\ v <= w
    <3>1. PICK y1 \in Nat, y2 \in Nat : y1 = w * PAGE_SIZE /\ y2 = v * PAGE_SIZE
      BY <1>19, <2>1, TimesOrder
    <3>2. w * PAGE_SIZE <= v * PAGE_SIZE /\ v * PAGE_SIZE <= w * PAGE_SIZE
      BY <2>6, <3>1
    <3>3. v \in Nat /\ w \in Nat
      BY <1>19, <2>1
    <3> QED BY <3>2, <3>3, TimesOrder
  <2> QED BY <1>19, <2>1, <2>7
<1>21. phy_to_virt(layout.ioapic) \div PAGE_SIZE = v
  BY <1>17, <1>19, <1>20 DEF phy_to_virt
<1>22. Translation(PML4, phy_to_virt(layout.ioapic)) = View(mem, pat_msr, PML4, v)
  BY <1>21, SeenIs, Zenon DEF View
<1> QED BY <1>3, <1>16, <1>22

\* Device memory is cached as its driver asks.
LEMMA DevicesAreCached ==
  ASSUME BInv
  PROVE  DevicesCachedAsAsked
BY FrameBufferSeen, RegistersSeen DEF DevicesCachedAsAsked, Ends

\* Frame buffer pages are write-combining and the registers of the I/O APIC uncached.
THEOREM DevicesStayUncached == BootSpec => []DevicesCachedAsAsked
BY DevicesAreCached, BootInductive, PTL

-----------------------------------------------------------------------------
(* No translation is taken back.                                           *)

\* Two windows that share a frame are one request.
LEMMA WindowsApart ==
  ASSUME layout \in Layouts, NEW R, NEW a, NEW b, NEW n, Arranged(R, a, b, n),
         NEW i \in 1 .. Len(R), NEW j \in 1 .. Len(R), n < i, n < j,
         NEW f, f \in FramesOf(R[i].what, R[i].size), f \in FramesOf(R[j].what, R[j].size)
  PROVE  i = j
<1>1. /\ n \in Nat /\ Len(R) \in Nat
      /\ \A l \in n + 1 .. Len(R) :
           \/ R[l] = LapicWindow /\ ~layout.x2apic /\ l = n + 1
           \/ R[l] = IoapicWindow /\ layout.has_ioapic /\ l = Len(R)
  BY DEF Arranged
<1>2. LapicFrames(layout) \cap IoapicFrames(layout) = {}
  BY HandOver DEF UsedOnce
<1>3. i \in n + 1 .. Len(R) /\ j \in n + 1 .. Len(R)
  BY <1>1
<1>4. layout.has_ioapic =>
        FramesOf(IoapicWindow.what, IoapicWindow.size) = IoapicFrames(layout)
  BY DEF IoapicWindow, Request, IoapicFrames
<1>5. ~layout.x2apic =>
        FramesOf(LapicWindow.what, LapicWindow.size) = LapicFrames(layout)
  BY DEF LapicWindow, Request, LapicFrames
<1>6. CASE R[i] = LapicWindow /\ ~layout.x2apic /\ i = n + 1
  <2>1. CASE R[j] = LapicWindow /\ j = n + 1
    BY <1>6, <2>1
  <2>2. CASE R[j] = IoapicWindow /\ layout.has_ioapic
    BY <1>2, <1>4, <1>5, <1>6, <2>2
  <2> QED BY <1>1, <1>3, <2>1, <2>2
<1>7. CASE R[i] = IoapicWindow /\ layout.has_ioapic /\ i = Len(R)
  <2>1. CASE R[j] = LapicWindow /\ ~layout.x2apic
    BY <1>2, <1>4, <1>5, <1>7, <2>1
  <2>2. CASE R[j] = IoapicWindow /\ j = Len(R)
    BY <1>7, <2>2
  <2> QED BY <1>1, <1>3, <2>1, <2>2
<1> QED BY <1>1, <1>3, <1>6, <1>7

\* Once the tables are loaded, a leaf goes to a page that translated to nothing.
LEMMA LeafIsNew ==
  ASSUME BInv, cr3 # 0, vmm_set_leaf
  PROVE  Page \in VirtualPages /\ ~Translates(mem, PML4, Page)
<1>1. PICK R, a, b, n : \E k \in 0 .. Len(R), c \in Nat :
        InUse(R, a, b, n, k, c) /\ Progress(R, n, k, c)
  BY AfterLoad
<1>2. PICK k \in 0 .. Len(R), c \in Nat : InUse(R, a, b, n, k, c) /\ Progress(R, n, k, c)
  BY <1>1
<1>3. /\ PML4 # 0 /\ layout \in Layouts /\ Arranged(R, a, b, n) /\ n <= k
      /\ Exposed(R, k, c, mem, pat_msr, PML4)
      /\ \A j \in 1 .. n : Extent(R, j, k, c) = Rounded(R[j]).size
  BY <1>2 DEF InUse
<1>4. {a, b, n, k, Len(R)} \subseteq Nat /\ a <= b /\ b <= n
  BY <1>3 DEF Arranged
<1>5. VInv /\ Page \in VirtualPages /\ Running /\ ~Idle
  BY LeafStep, Setting DEF vmm_set_leaf
<1>6. call \in Calls /\ call.done < call.size
  BY <1>5, Standing
<1>7. InCall(R, k, c)
  BY <1>2, <1>3, <1>5 DEF Progress, Standpoint
<1>8. PICK q : q = Rounded(R[k])
  OBVIOUS
<1>9. /\ k \in 1 .. k /\ k \in 1 .. Len(R) /\ c = call.done
      /\ call.what = q.what /\ call.where = q.where /\ call.size = q.size
  BY <1>2, <1>4, <1>5, <1>7, <1>8 DEF InCall
<1>10. Whole(q) /\ q.where \in Nat /\ q.size \in Nat /\ c < q.size
  BY <1>5, <1>6, <1>9 DEF VInv, Walking, Whole, Calls
<1>11. n < k
  <2>1. ~(k \in 1 .. n)
    BY <1>3, <1>8, <1>9, <1>10 DEF Extent
  <2> QED BY <1>4, <1>9, <2>1
<1>12. Page * PAGE_SIZE = q.where + c /\ Page \in Nat
  BY <1>5, <1>9, PageIsAt, VmmAssumption DEF VirtualPages
<1>13. Within(q, q.size, Page) /\ ~Within(q, c, Page)
  <2>1. PICK p \in Nat : p = Page * PAGE_SIZE
    BY <1>12, TimesOrder
  <2>2. p = q.where + c
    BY <1>12, <2>1
  <2>3. q.where <= p /\ p < q.where + q.size /\ ~(p < q.where + c)
    BY <1>10, <2>2
  <2> QED BY <2>1, <2>3 DEF Within
<1>14. PICK direct \in BOOLEAN : direct = TRUE /\ direct = (k <= a \/ k > n)
  BY <1>4, <1>11
<1>15. Good(R[k], direct)
  <2>1. Good(R[k], k <= a \/ k > n)
    BY <1>3, <1>9, AllGood
  <2> QED BY <1>14, <2>1
<1>16. PICK g \in Nat : g \in FramesOf(R[k].what, R[k].size) /\ Place(direct, Page, g)
  <2>1. Whole(Rounded(R[k])) /\ Within(Rounded(R[k]), q.size, Page)
    BY <1>8, <1>10, <1>13
  <2>2. q.size \in Nat /\ q.size <= Rounded(R[k]).size
    BY <1>8, <1>10
  <2>3. \E g \in Nat : /\ g \in FramesOf(R[k].what, R[k].size) /\ Place(direct, Page, g)
                       /\ AskedAt(Rounded(R[k]), Page).frame = g
                       /\ Within(Rounded(R[k]), Rounded(R[k]).size, Page)
    BY <1>3, <1>12, <1>15, <2>1, <2>2, PageOfRequest
  <2> QED BY <2>3
<1> SUFFICES ASSUME Translates(mem, PML4, Page) PROVE FALSE
  BY <1>5
<1>17. PICK j \in 1 .. k : LastAsked(R, j, k, c, mem, pat_msr, PML4, Page)
  BY <1>3, <1>5 DEF Exposed
<1>18. j # k
  <2> SUFFICES ASSUME j = k PROVE FALSE
    OBVIOUS
  <2>1. Extent(R, k, k, c) = c
    BY <1>4 DEF Extent
  <2>2. Within(q, c, Page)
    BY <1>8, <1>17, <2>1 DEF LastAsked, Covers
  <2> QED BY <1>13, <2>2
<1>19. PICK f : Explains(R, a, n, k, c, j, f, Page)
  BY <1>2, <1>5, <1>17, Explained
<1>20. f \in Nat /\ f \in FramesOf(R[j].what, R[j].size) /\ Place(j <= a \/ j > n, Page, f)
  BY <1>19 DEF Explains
<1>21. PICK low \in BOOLEAN : low = (j <= a \/ j > n)
  <2>1. (j <= a \/ j > n) \in BOOLEAN
    OBVIOUS
  <2> QED BY <2>1
<1>22. Place(low, Page, f)
  BY <1>20, <1>21, Zenon
<1>23. low = direct /\ f = g
  BY <1>3, <1>12, <1>16, <1>20, <1>22, PlaceIs
<1>24. j \in 1 .. Len(R) /\ j \in Nat
  BY <1>4, <1>9
<1>25. CASE j <= a
  <2>1. PICK p : Direct(R[j], p)
    BY <1>3, <1>24, <1>25, SortOf
  <2>2. Window(R[k])
    BY <1>3, <1>9, <1>11, SortOf
  <2>3. p \in Entries /\ layout.memmap[p].type \in HhdmTypes /\ f \in EntryFrames(layout, p)
    BY <1>20, <2>1 DEF Direct, Mapping
  <2> QED BY <1>3, <1>16, <1>23, <2>2, <2>3, RegistersApart
<1>26. CASE j > n
  <2>1. n < k /\ n < j
    BY <1>4, <1>11, <1>24, <1>26
  <2>2. g \in FramesOf(R[k].what, R[k].size) /\ g \in FramesOf(R[j].what, R[j].size)
    BY <1>16, <1>20, <1>23
  <2>3. layout \in Layouts /\ Arranged(R, a, b, n) /\ k \in 1 .. Len(R) /\ j \in 1 .. Len(R)
    BY <1>3, <1>9, <1>24
  <2>4. k = j
    BY <2>1, <2>2, <2>3, WindowsApart
  <2> QED BY <1>18, <2>4
<1>27. j <= a \/ j > n
  <2>1. low = TRUE
    BY <1>14, <1>23
  <2> QED BY <1>21, <2>1
<1> QED BY <1>25, <1>26, <1>27

\* What the properties say of a page that translates.
KeepsTranslations ==
  cr3 # 0 =>
    \A v \in MappedPages :
      Mapped(cr3, v * PAGE_SIZE)' /\
      Translation(cr3, v * PAGE_SIZE)' = Translation(cr3, v * PAGE_SIZE)

\* A step that takes nothing from the map, and changes nothing in it, keeps them.
LEMMA KeptInMap ==
  ASSUME PML4 # 0, cr3 = PML4, UNCHANGED <<PML4, cr3>>,
         \A v \in MappedPages : v \in MappedPages' /\ SeenMap'[v] = SeenMap[v]
  PROVE  KeepsTranslations
<1>1. ASSUME NEW v \in MappedPages
      PROVE  /\ Mapped(PML4, v * PAGE_SIZE)'
             /\ Translation(PML4, v * PAGE_SIZE)' = Translation(PML4, v * PAGE_SIZE)
  <2>1. v \in MappedPages' /\ SeenMap'[v] = SeenMap[v]
    OBVIOUS
  <2>2. SeenMap[v] = Translation(PML4, v * PAGE_SIZE)
    BY Zenon DEF SeenMap
  <2>3. SeenMap'[v] = Translation(PML4, v * PAGE_SIZE)'
    BY <2>1, Zenon DEF SeenMap
  <2>4. PML4' # 0
    OBVIOUS
  <2>5. MappedPages' = {w \in VirtualPages : Mapped(PML4, w * PAGE_SIZE)'}
    BY <2>4, Zenon DEF MappedPages
  <2> QED BY <2>1, <2>2, <2>3, <2>5, Zenon
<1>2. \A v : /\ Mapped(cr3, v * PAGE_SIZE)' <=> Mapped(PML4, v * PAGE_SIZE)'
             /\ Translation(cr3, v * PAGE_SIZE)' = Translation(PML4, v * PAGE_SIZE)'
             /\ Translation(cr3, v * PAGE_SIZE) = Translation(PML4, v * PAGE_SIZE)
  <2>1. cr3' = PML4' /\ cr3 = PML4
    OBVIOUS
  <2> QED BY <2>1 DEF Mapped, Translation, Walk
<1> QED BY <1>1, <1>2, Zenon DEF KeepsTranslations

\* No step of main takes a translation back once the tables are loaded.
LEMMA NothingIsTakenBack ==
  ASSUME BInv, [BootNext]_bootVars
  PROVE  KeepsTranslations
<1> SUFFICES ASSUME cr3 # 0 PROVE KeepsTranslations
  BY DEF KeepsTranslations
<1>1. PICK R, n : Given(R, n) /\ \E k \in 0 .. Len(R), c \in Nat : Progress(R, n, k, c)
  BY Setting
<1>2. PICK k \in 0 .. Len(R), c \in Nat : Progress(R, n, k, c)
  BY <1>1
<1>3. /\ PML4 # 0 /\ cr3 = PML4 /\ pc \in Loaded
  BY <1>2, Setting DEF Progress, Reached, VInv, Typing
<1>4. ASSUME Unseen, cr3' = cr3 PROVE KeepsTranslations
  <2>1. SeenMap' = SeenMap /\ PML4' = PML4
    BY <1>4, MapStays DEF Unseen
  <2>2. DOMAIN SeenMap = MappedPages /\ DOMAIN SeenMap' = MappedPages'
    BY DEF SeenMap
  <2>3. \A v \in MappedPages : v \in MappedPages' /\ SeenMap'[v] = SeenMap[v]
    BY <2>1, <2>2, Zenon
  <2> QED BY <1>3, <1>4, <2>1, <2>3, KeptInMap
<1>5. CASE UNCHANGED bootVars
  BY <1>4, <1>5 DEF bootVars, allVars, vmmVars, Unseen, Agree
<1>6. CASE boot_pmm_init \/ boot_vmm_init \/ boot_load_cr3
  BY <1>3, <1>6 DEF boot_pmm_init, boot_vmm_init, vmm_init, boot_load_cr3, load_cr3, At, Loaded, Ends
<1>7. CASE map_next
  <2>1. cr3' = cr3
    BY <1>7 DEF map_next, vmm_map, vmm_map_unaligned
  <2> QED BY <1>4, <1>7, <2>1, MapNextStep
<1>8. CASE map_page
  <2>1. CASE refuse_page \/ vmm_ensure_present
    <3>1. UNCHANGED <<pc, todo>> /\ cr3' = cr3
      BY <1>8, <2>1 DEF map_page, refuse_page, vmm_ensure_present, vmmVars
    <3> QED BY <1>4, <2>1, <3>1, PageStep
  <2>2. CASE vmm_set_leaf
    <3>1. VInv
      BY Setting
    <3>2. AS!Map(Page) /\ Page \in VirtualPages
      BY <2>2, <3>1, MapGrows
    <3>3. ~Translates(mem, PML4, Page)
      BY <2>2, LeafIsNew
    <3>4. Page \notin MappedPages
      BY <1>3, <3>3, PagesSeen
    <3>5. UNCHANGED <<PML4, cr3>>
      BY <2>2 DEF vmm_set_leaf
    <3>6. DOMAIN SeenMap = MappedPages /\ DOMAIN SeenMap' = MappedPages'
      BY DEF SeenMap
    <3>7. /\ DOMAIN SeenMap' = DOMAIN SeenMap \cup {Page}
          /\ \A u \in DOMAIN SeenMap \ {Page} : SeenMap'[u] = SeenMap[u]
      BY <3>2, Zenon DEF AS!Map, SeenMap
    <3>8. \A v \in MappedPages : v \in MappedPages' /\ SeenMap'[v] = SeenMap[v]
      BY <3>4, <3>6, <3>7
    <3> QED BY <1>3, <3>5, <3>8, KeptInMap
  <2> QED BY <1>8, <2>1, <2>2 DEF map_page
<1>9. CASE flanterm_fb_init
  <2>1. cr3' = cr3
    BY <1>9 DEF flanterm_fb_init, allocate, allVars, vmmVars
  <2> QED BY <1>4, <1>9, <2>1, ConsoleStep
<1>10. CASE acpi_done
  <2>1. cr3' = cr3
    BY <1>10 DEF acpi_done, allVars, vmmVars
  <2> QED BY <1>4, <1>10, <2>1, AcpiDoneStep
<1>11. CASE boot_pmm_reclaim \/ pmm_zero
  <2>1. cr3' = cr3
    BY <1>11 DEF boot_pmm_reclaim, pmm_zero, vmmVars
  <2> QED BY <1>4, <1>11, <2>1, EndStep
<1> QED BY <1>5, <1>6, <1>7, <1>8, <1>9, <1>10, <1>11 DEF BootNext

\* Once the kernel's tables are loaded, a page that translates keeps its translation.
THEOREM TranslationsStay == BootSpec => NoStaleTranslation
<1>1. BInv /\ [BootNext]_bootVars => [KeepsTranslations]_bootVars
  BY NothingIsTakenBack
<1>2. NoStaleTranslation <=> [][KeepsTranslations]_bootVars
  BY PTL DEF NoStaleTranslation, KeepsTranslations
<1> QED BY <1>1, <1>2, BootInductive, PTL DEF BootSpec

-----------------------------------------------------------------------------
(* The managers in main.                                                   *)

\* In main the managers keep the order that the proofs about them alone establish: main
\* makes only calls they allow, whatever the loader hands over.
THEOREM ManagersInOrder ==
  BootSpec => [](VmmTypeOK /\ TablesFormTree /\ KernelGetsWhatWasAsked
                   /\ HeldExclusively /\ Conserved /\ BitmapInsideUsable)
<1>1. BInv => VInv
  BY DEF BInv
<1>2. VInv => KernelGetsWhatWasAsked /\ HeldExclusively /\ Conserved /\ BitmapInsideUsable
  BY DEF VInv, Books
<1> QED BY <1>1, <1>2, TypingSuffices, TreeFormed, BootInductive, PTL

\* To main, too, the managers are an address space in which one page is mapped at a time.
THEOREM BootKeepsAddressSpace == BootSpec => ImplementsAddressSpace
<1>1. BootInit => AS!Init
  <2> SUFFICES ASSUME BootInit PROVE SeenMap = [v \in {} |-> v]
    BY DEF AS!Init, SeenMap
  <2>1. MappedPages = {}
    BY DEF BootInit, VmmInit, MappedPages
  <2> QED BY <2>1 DEF SeenMap
<1>2. BInv /\ [BootNext]_bootVars => [AS!Next]_SeenMap
  <2> SUFFICES ASSUME BInv, [BootNext]_bootVars, ~vmm_set_leaf PROVE SeenMap' = SeenMap
    <3>1. vmm_set_leaf /\ BInv => AS!Next
      BY MapGrows, Setting DEF AS!Next
    <3> QED BY <3>1
  <2>1. CASE UNCHANGED vmmVars
    BY <2>1, MapStays DEF vmmVars, Unseen, Agree
  <2>2. CASE UNCHANGED bootVars \/ boot_pmm_init
    BY <2>1, <2>2 DEF bootVars, allVars, boot_pmm_init
  <2>3. CASE boot_vmm_init
    <3>1. PML4 = 0 /\ (PML4' # 0 => \A v \in VirtualPages : ~Translates(mem', PML4', v))
      BY <2>3, VmmInitStep, Setting DEF boot_vmm_init
    <3>2. MapIsView /\ MapIsView'
      BY MapIs, PTL
    <3>3. MappedPages = {} /\ MappedPages' = {}
      BY <3>1, <3>2 DEF MapIsView
    <3> QED BY <3>3 DEF SeenMap
  <2>4. CASE boot_load_cr3
    BY <2>4, MapStays DEF boot_load_cr3, load_cr3, Unseen, Agree
  <2>5. CASE map_next
    BY <2>5, MapNextStep, MapStays
  <2>6. CASE map_page
    BY <2>6, PageStep, MapStays DEF map_page
  <2>7. CASE flanterm_fb_init \/ acpi_done \/ boot_pmm_reclaim \/ pmm_zero
    BY <2>7, ConsoleStep, AcpiDoneStep, EndStep, MapStays
  <2> QED BY <2>2, <2>3, <2>4, <2>5, <2>6, <2>7 DEF BootNext
<1> QED BY <1>1, <1>2, BootInductive, PTL DEF BootSpec, ImplementsAddressSpace, AS!Spec, SeenMap
=============================================================================
