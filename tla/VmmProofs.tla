----------------------------- MODULE VmmProofs -----------------------------
(***************************************************************************)
(* Proofs about the virtual memory manager on top of the physical one: for *)
(* every size of page and table, every memory map, and any sequence of     *)
(* requests, the tables stay a tree in memory of their own, and what the   *)
(* processor sees of them changes one page at a time.                      *)
(***************************************************************************)
EXTENDS Vmm, PmmProofs

-----------------------------------------------------------------------------
(* Page numbers and their digits.                                          *)

Depths == 0 .. 3

\* The digit of a page number that picks the slot at each depth of the walk.
Digit(page, depth) ==
  (CASE depth = 3 -> page
     [] depth = 2 -> page \div ENTRIES
     [] depth = 1 -> (page \div ENTRIES) \div ENTRIES
     [] depth = 0 -> ((page \div ENTRIES) \div ENTRIES) \div ENTRIES) % ENTRIES

\* The shifts and masks of vmm_map_page pick the digits the processor's walk picks.
LEMMA IndexIs ==
  ASSUME NEW where \in Nat, NEW depth \in Depths
  PROVE  Index(where, depth) = Digit(where \div PAGE_SIZE, depth)
<1> DEFINE page == where \div PAGE_SIZE
<1>1. page \in Nat /\ ENTRIES \in Nat \ {0}
  BY DivMod, PmmAssumption, VmmAssumption
<1> HIDE DEF page
<1>2. /\ (page \div ENTRIES) \div ENTRIES = page \div (ENTRIES * ENTRIES)
      /\ ((page \div ENTRIES) \div ENTRIES) \div ENTRIES = page \div (ENTRIES * ENTRIES * ENTRIES)
      /\ page \div 1 = page
  <2>1. \A n \in Nat, a, b \in Nat \ {0} : (n \div a) \div b = n \div (a * b)
    OBVIOUS
  <2>2. PICK square \in Nat \ {0} : square = ENTRIES * ENTRIES
    BY <1>1
  <2>3. (page \div ENTRIES) \div ENTRIES = page \div square
    BY <1>1, <2>1, <2>2
  <2>4. (page \div square) \div ENTRIES = page \div (square * ENTRIES)
    BY <1>1, <2>1, <2>2
  <2>5. page \div 1 = page
    BY <1>1
  <2> QED BY <2>2, <2>3, <2>4, <2>5
<1>3. depth \in {0, 1, 2, 3}
  BY DEF Depths
<1>4. Index(where, depth) = (page \div Shift(depth)) % ENTRIES
  BY DEF Index, page
<1> QED BY <1>2, <1>3, <1>4 DEF Digit, Shift, page

\* A digit is the number of a slot.
LEMMA DigitType ==
  ASSUME NEW page \in Nat, NEW depth \in Depths
  PROVE  Digit(page, depth) \in Slots
<1>1. ENTRIES \in Nat \ {0} /\ depth \in {0, 1, 2, 3}
  BY VmmAssumption DEF Depths
<1>2. \A n \in Nat : n \div ENTRIES \in Nat /\ n % ENTRIES \in 0 .. ENTRIES - 1
  BY <1>1, DivMod
<1> QED BY <1>1, <1>2 DEF Digit, Slots

\* Pages with the same digits are the same page.
LEMMA DigitsFix ==
  ASSUME NEW v \in VirtualPages, NEW w \in VirtualPages,
         \A depth \in Depths : Digit(v, depth) = Digit(w, depth)
  PROVE  v = w
<1> DEFINE E == ENTRIES
<1>1. E \in Nat \ {0}
  BY VmmAssumption
<1> HIDE DEF E
<1>2. \A n \in Nat : n \div E \in Nat /\ n = (n \div E) * E + (n % E)
  BY <1>1, DivMod
<1>3. \A n \in Nat, k \in Nat \ {0} : n < k * E => n \div E < k
  BY <1>1
<1>4. \A a, b \in Nat : a \div E = b \div E /\ a % E = b % E => a = b
  BY <1>2
<1>5. \A n \in Nat : n < E => n % E = n
  BY <1>1
<1>6. PICK v1 \in Nat, v2 \in Nat, v3 \in Nat :
        v1 = v \div E /\ v2 = v1 \div E /\ v3 = v2 \div E
  BY <1>2 DEF VirtualPages
<1>7. PICK w1 \in Nat, w2 \in Nat, w3 \in Nat :
        w1 = w \div E /\ w2 = w1 \div E /\ w3 = w2 \div E
  BY <1>2 DEF VirtualPages
<1>8. v \in Nat /\ w \in Nat /\ v < E * E * E * E /\ w < E * E * E * E
  <2>1. E * E * E * E \in Nat
    BY <1>1
  <2> QED BY <2>1 DEF VirtualPages, E
<1>9. v3 < E /\ w3 < E
  <2>1. E \in Nat \ {0} /\ E * E \in Nat \ {0} /\ E * E * E \in Nat \ {0}
    BY <1>1
  <2>2. v1 < E * E * E /\ w1 < E * E * E
    BY <1>3, <1>6, <1>7, <1>8, <2>1
  <2>3. v2 < E * E /\ w2 < E * E
    BY <1>3, <1>6, <1>7, <2>1, <2>2
  <2> QED BY <1>3, <1>6, <1>7, <2>1, <2>3
<1>10. /\ v % E = w % E /\ v1 % E = w1 % E /\ v2 % E = w2 % E /\ v3 % E = w3 % E
  <2>1. \A d \in {0, 1, 2, 3} : Digit(v, d) = Digit(w, d)
    BY DEF Depths
  <2> QED BY <1>6, <1>7, <2>1 DEF Digit, E
<1>11. v3 = w3
  BY <1>5, <1>9, <1>10
<1>12. v2 = w2
  BY <1>4, <1>6, <1>7, <1>10, <1>11
<1>13. v1 = w1
  BY <1>4, <1>6, <1>7, <1>10, <1>12
<1> QED BY <1>4, <1>6, <1>7, <1>8, <1>10, <1>13

-----------------------------------------------------------------------------
(* Trees of tables, for any contents m of the frames and any root.         *)

Memories == [Frames -> [Slots -> PageEntry]]

\* Slot s of table t leads to u.
Leads(m, t, s, u) == m[t][s].p /\ m[t][s].addr = u

Kids(m, T) == {u \in Nat : \E t \in T, s \in Slots : Leads(m, t, s, u)}

\* The tables at each depth of the walk.
Level(m, root, depth) ==
  CASE depth = 0 -> {root}
    [] depth = 1 -> Kids(m, {root})
    [] depth = 2 -> Kids(m, Kids(m, {root}))
    [] depth = 3 -> Kids(m, Kids(m, Kids(m, {root})))

\* The tables lie in H, no two entries above the leaves lead to the same table,
\* and none leads back to the root.
Tree(m, root, H) ==
  /\ \A k \in Depths : Level(m, root, k) \subseteq H
  /\ \A j, k \in 0 .. 2 : \A t \in Level(m, root, j), u \in Level(m, root, k) :
       \A s, q \in Slots, x \in Nat :
         Leads(m, t, s, x) /\ Leads(m, u, q, x) => t = u /\ s = q
  /\ \A k \in 1 .. 3 : root \notin Level(m, root, k)

\* A level below the root is what the one above it leads to.
LEMMA LevelIs ==
  ASSUME NEW m, NEW root
  PROVE  /\ Level(m, root, 0) = {root}
         /\ \A k \in 0 .. 2 : Level(m, root, k + 1) = Kids(m, Level(m, root, k))
<1>1. \A k \in 0 .. 2 : k = 0 \/ k = 1 \/ k = 2
  OBVIOUS
<1>2. Level(m, root, 0) = {root}
  BY DEF Level
<1>3. Level(m, root, 0 + 1) = Kids(m, Level(m, root, 0))
  BY DEF Level
<1>4. Level(m, root, 1 + 1) = Kids(m, Level(m, root, 1))
  BY DEF Level
<1>5. Level(m, root, 2 + 1) = Kids(m, Level(m, root, 2))
  BY DEF Level
<1> QED BY <1>1, <1>2, <1>3, <1>4, <1>5

\* No table is at two depths.
LEMMA LevelsApart ==
  ASSUME NEW m, NEW root, NEW H, Tree(m, root, H)
  PROVE  \A j, k \in Depths : j # k => Level(m, root, j) \cap Level(m, root, k) = {}
<1> DEFINE L(k) == Level(m, root, k)
<1>1. /\ L(0) = {root} /\ \A k \in 0 .. 2 : L(k + 1) = Kids(m, L(k))
      /\ \A k \in 1 .. 3 : root \notin L(k)
      /\ \A j, k \in 0 .. 2 : \A t \in L(j), u \in L(k) : \A s, q \in Slots, x \in Nat :
           Leads(m, t, s, x) /\ Leads(m, u, q, x) => t = u
  BY LevelIs DEF Tree
<1> HIDE DEF L
<1>2. ASSUME NEW j \in 0 .. 2, NEW k \in 0 .. 2, NEW x, x \in L(j + 1), x \in L(k + 1)
      PROVE  L(j) \cap L(k) # {}
  <2>1. x \in Kids(m, L(j)) /\ x \in Kids(m, L(k))
    BY <1>1, <1>2
  <2>2. x \in Nat
    BY <2>1 DEF Kids
  <2>3. PICK t \in L(j), s \in Slots : Leads(m, t, s, x)
    BY <2>1 DEF Kids
  <2>4. PICK u \in L(k), q \in Slots : Leads(m, u, q, x)
    BY <2>1 DEF Kids
  <2>5. t = u
    BY <1>1, <2>2, <2>3, <2>4
  <2> QED BY <2>3, <2>4, <2>5
<1>3. L(0) \cap L(1) = {} /\ L(0) \cap L(2) = {} /\ L(0) \cap L(3) = {}
  BY <1>1
<1>4. L(1) \cap L(2) = {} /\ L(1) \cap L(3) = {}
  <2>1. /\ \A x : x \in L(0 + 1) /\ x \in L(1 + 1) => L(0) \cap L(1) # {}
        /\ \A x : x \in L(0 + 1) /\ x \in L(2 + 1) => L(0) \cap L(2) # {}
    BY <1>2
  <2> QED BY <1>3, <2>1
<1>5. L(2) \cap L(3) = {}
  <2>1. \A x : x \in L(1 + 1) /\ x \in L(2 + 1) => L(1) \cap L(2) # {}
    BY <1>2
  <2> QED BY <1>4, <2>1
<1>6. \A j, k \in {0, 1, 2, 3} : j # k => L(j) \cap L(k) = {}
  BY <1>3, <1>4, <1>5
<1> QED BY <1>6 DEF L, Depths

\* Writing anywhere but in the tables above the leaves leaves the tree alone.
LEMMA TreeKept ==
  ASSUME NEW m, NEW n, NEW root, NEW H, Tree(m, root, H),
         \A k \in 0 .. 2 : \A t \in Level(m, root, k) : n[t] = m[t]
  PROVE  /\ \A k \in Depths : Level(n, root, k) = Level(m, root, k)
         /\ Tree(n, root, H)
<1>1. \A T : (\A t \in T : n[t] = m[t]) => Kids(n, T) = Kids(m, T)
  BY DEF Kids, Leads
<1>2. /\ Level(n, root, 0) = {root} /\ Level(m, root, 0) = {root}
      /\ \A k \in 0 .. 2 : Level(n, root, k + 1) = Kids(n, Level(n, root, k))
      /\ \A k \in 0 .. 2 : Level(m, root, k + 1) = Kids(m, Level(m, root, k))
  BY LevelIs
<1>3. \A k \in 0 .. 2 :
        Level(n, root, k) = Level(m, root, k) => Level(n, root, k + 1) = Level(m, root, k + 1)
  BY <1>1, <1>2
<1>4. Level(n, root, 0) = Level(m, root, 0)
  BY <1>2
<1>5. Level(n, root, 1) = Level(m, root, 1)
  BY <1>3, <1>4
<1>6. Level(n, root, 2) = Level(m, root, 2)
  BY <1>3, <1>5
<1>7. Level(n, root, 3) = Level(m, root, 3)
  BY <1>3, <1>6
<1>8. \A k \in {0, 1, 2, 3} : Level(n, root, k) = Level(m, root, k)
  BY <1>4, <1>5, <1>6, <1>7
<1>9. \A k \in Depths : Level(n, root, k) = Level(m, root, k)
  BY <1>8 DEF Depths
<1>10. \A k \in 0 .. 2 : \A t \in Level(m, root, k), s \in Slots, x \in Nat :
         Leads(n, t, s, x) <=> Leads(m, t, s, x)
  BY DEF Leads
<1>11. \A k \in 0 .. 2 : k \in Depths
  BY DEF Depths
<1>12. \A k \in 1 .. 3 : k \in Depths
  BY DEF Depths
<1> QED BY <1>9, <1>10, <1>11, <1>12 DEF Tree

\* Slot i of t now leads to a new and empty table; nothing else has changed.
Hangs(m, n, H, t, i, new) ==
  /\ \A u \in H : u # t => n[u] = m[u]
  /\ \A s \in Slots : s # i => n[t][s] = m[t][s]
  /\ Leads(n, t, i, new)
  /\ \A s \in Slots : ~n[new][s].p

\* Hanging an empty table below a slot that led nowhere makes the tree one table
\* larger.
LEMMA TreeGrows ==
  ASSUME NEW m, NEW n, NEW root, NEW H, Tree(m, root, H),
         NEW d \in 0 .. 2, NEW t \in Level(m, root, d), NEW i \in Slots, ~m[t][i].p,
         NEW page \in Nat \ H,
         Hangs(m, n, H, t, i, page)
  PROVE  /\ \A k \in Depths :
              Level(n, root, k) = Level(m, root, k) \cup (IF k = d + 1 THEN {page} ELSE {})
         /\ Tree(n, root, H \cup {page})
<1> USE DEF Hangs
<1> DEFINE L(k) == Level(m, root, k)
           N(k) == Level(n, root, k)
           Grown(k) == L(k) \cup (IF k = d + 1 THEN {page} ELSE {})
<1>1. /\ \A k \in Depths : L(k) \subseteq H
      /\ \A k \in 1 .. 3 : root \notin L(k)
      /\ L(0) = {root} /\ N(0) = {root}
      /\ \A k \in 0 .. 2 : L(k + 1) = Kids(m, L(k)) /\ N(k + 1) = Kids(n, N(k))
      /\ \A j, k \in 0 .. 2 : \A v \in L(j), w \in L(k) : \A s, q \in Slots, x \in Nat :
           Leads(m, v, s, x) /\ Leads(m, w, q, x) => v = w /\ s = q
  BY LevelIs DEF Tree
<1>2. \A k \in Depths : t \in L(k) <=> k = d
  <2>1. d \in Depths
    BY DEF Depths
  <2> QED BY <2>1, LevelsApart
<1>3. \A k \in 0 .. 2 : k \in Depths /\ k + 1 \in Depths /\ k # k + 1
  BY DEF Depths
<1>4. t \in H /\ root \in H /\ page # root /\ page # t
  BY <1>1, <1>3 DEF Depths
<1>5. \A u \in H, s \in Slots, x \in Nat :
        Leads(n, u, s, x) <=> Leads(m, u, s, x) \/ (u = t /\ s = i /\ x = page)
  BY DEF Leads
<1>6. \A s \in Slots, x \in Nat : ~Leads(n, page, s, x)
  BY DEF Leads
<1> HIDE DEF L, N
<1>7. ASSUME NEW k \in 0 .. 2, N(k) = Grown(k)
      PROVE  N(k + 1) = Grown(k + 1)
  <2>1. \A x \in Nat : x \in Kids(n, N(k))
                <=> x \in Kids(m, L(k)) \/ (k = d /\ x = page)
    <3>1. L(k) \subseteq H /\ (t \in L(k) <=> k = d)
      BY <1>1, <1>2, <1>3
    <3>2. \A x \in Nat : (\E u \in N(k), s \in Slots : Leads(n, u, s, x))
                     <=> (\E u \in L(k), s \in Slots : Leads(n, u, s, x))
      BY <1>6, <1>7
    <3>3. \A x \in Nat : (\E u \in L(k), s \in Slots : Leads(n, u, s, x))
                     <=> \/ \E u \in L(k), s \in Slots : Leads(m, u, s, x)
                         \/ k = d /\ x = page
      BY <1>5, <3>1
    <3> QED BY <3>2, <3>3 DEF Kids
  <2>2. Kids(n, N(k)) \subseteq Nat /\ Kids(m, L(k)) \subseteq Nat
    BY DEF Kids
  <2>3. k + 1 = d + 1 <=> k = d
    OBVIOUS
  <2> QED BY <1>1, <2>1, <2>2, <2>3
<1>8. \A k \in Depths : N(k) = Grown(k)
  <2>1. N(0) = Grown(0)
    BY <1>1
  <2>2. N(1) = Grown(1)
    BY <1>7, <2>1
  <2>3. N(2) = Grown(2)
    BY <1>7, <2>2
  <2>4. N(3) = Grown(3)
    BY <1>7, <2>3
  <2>5. \A k \in {0, 1, 2, 3} : N(k) = Grown(k)
    BY <2>1, <2>2, <2>3, <2>4
  <2> QED BY <2>5 DEF Depths
<1>9. \A k \in Depths : N(k) \subseteq H \cup {page}
  BY <1>1, <1>8
<1>10. \A k \in 1 .. 3 : root \notin N(k)
  <2>1. \A k \in 1 .. 3 : k \in Depths
    BY DEF Depths
  <2> QED BY <1>1, <1>4, <1>8, <2>1
<1>11. ASSUME NEW j \in 0 .. 2, NEW k \in 0 .. 2, NEW v \in N(j), NEW w \in N(k),
              NEW s \in Slots, NEW q \in Slots, NEW x \in Nat,
              Leads(n, v, s, x), Leads(n, w, q, x)
       PROVE  v = w /\ s = q
  <2>1. v \in L(j) /\ w \in L(k) /\ v \in H /\ w \in H
    BY <1>1, <1>3, <1>6, <1>8, <1>11
  <2>2. /\ Leads(m, v, s, x) \/ (v = t /\ s = i /\ x = page)
        /\ Leads(m, w, q, x) \/ (w = t /\ q = i /\ x = page)
    BY <1>5, <1>11, <2>1
  <2>3. ~Leads(m, v, s, page) /\ ~Leads(m, w, q, page)
    <3>1. page \notin L(j + 1) /\ page \notin L(k + 1)
      BY <1>1, <1>3
    <3> QED BY <1>1, <2>1, <3>1 DEF Kids
  <2> QED BY <1>1, <2>1, <2>2, <2>3
<1> QED BY <1>8, <1>9, <1>10, <1>11 DEF Tree, N, L
-----------------------------------------------------------------------------
(* The processor's walk through the contents m of the frames.              *)

\* The table the walk to a page comes to at each depth.
Table(m, root, page, depth) ==
  LET t1 == m[root][Digit(page, 0)].addr
      t2 == m[t1][Digit(page, 1)].addr
      t3 == m[t2][Digit(page, 2)].addr
  IN  CASE depth = 0 -> root
        [] depth = 1 -> t1
        [] depth = 2 -> t2
        [] depth = 3 -> t3

\* The entry it reads there.
Read(m, root, page, depth) == m[Table(m, root, page, depth)][Digit(page, depth)]

\* The entries before it are present.
Open(m, root, page, depth) == \A k \in 0 .. depth - 1 : Read(m, root, page, k).p

Translates(m, root, page) ==
  Open(m, root, page, 3) /\ Read(m, root, page, 3).p

\* The walk goes one level down.
LEMMA WalkOn ==
  ASSUME NEW m, NEW root, NEW page
  PROVE  /\ Table(m, root, page, 0) = root /\ Open(m, root, page, 0)
         /\ \A k \in 0 .. 2 :
              /\ Table(m, root, page, k + 1) = Read(m, root, page, k).addr
              /\ Open(m, root, page, k + 1)
                   <=> Open(m, root, page, k) /\ Read(m, root, page, k).p
<1>1. Table(m, root, page, 0) = root /\ Open(m, root, page, 0)
  BY DEF Table, Open
<1>2. \A k \in 0 .. 2 : Open(m, root, page, k + 1)
                          <=> Open(m, root, page, k) /\ Read(m, root, page, k).p
  <2>1. \A k \in 0 .. 2 : \A j \in 0 .. (k + 1) - 1 : j \in 0 .. k - 1 \/ j = k
    OBVIOUS
  <2>2. \A k \in 0 .. 2 : k \in 0 .. (k + 1) - 1 /\ \A j \in 0 .. k - 1 : j \in 0 .. (k + 1) - 1
    OBVIOUS
  <2> QED BY <2>1, <2>2, Zenon DEF Open
<1>3. Table(m, root, page, 0 + 1) = Read(m, root, page, 0).addr
  BY DEF Table, Read
<1>4. Table(m, root, page, 1 + 1) = Read(m, root, page, 1).addr
  BY DEF Table, Read
<1>5. Table(m, root, page, 2 + 1) = Read(m, root, page, 2).addr
  BY DEF Table, Read
<1>6. \A k \in 0 .. 2 : k = 0 \/ k = 1 \/ k = 2
  OBVIOUS
<1> QED BY <1>1, <1>2, <1>3, <1>4, <1>5, <1>6

\* A walk through present entries is at a table of the tree.
LEMMA WalkInTree ==
  ASSUME NEW m \in Memories, NEW root, NEW H \in SUBSET Frames, Tree(m, root, H),
         NEW page \in Nat
  PROVE  \A k \in Depths : Open(m, root, page, k) =>
           /\ Table(m, root, page, k) \in Level(m, root, k)
           /\ Table(m, root, page, k) \in H
           /\ Read(m, root, page, k) \in PageEntry
<1> DEFINE T(k) == Table(m, root, page, k)
           O(k) == Open(m, root, page, k)
           R(k) == Read(m, root, page, k)
<1>1. /\ T(0) = root /\ O(0)
      /\ \A k \in 0 .. 2 : T(k + 1) = R(k).addr /\ (O(k + 1) <=> O(k) /\ R(k).p)
  BY WalkOn
<1>2. ASSUME NEW k \in Depths, T(k) \in Level(m, root, k)
      PROVE  T(k) \in H /\ R(k) \in PageEntry
  <2>1. T(k) \in H
    BY <1>2 DEF Tree
  <2>2. Digit(page, k) \in Slots
    BY DigitType
  <2> QED BY <2>1, <2>2 DEF Memories, Read
<1>3. ASSUME NEW k \in 0 .. 2, O(k) => T(k) \in Level(m, root, k)
      PROVE  O(k + 1) => T(k + 1) \in Level(m, root, k + 1)
  <2> SUFFICES ASSUME O(k + 1) PROVE T(k + 1) \in Level(m, root, k + 1)
    OBVIOUS
  <2>1. O(k) /\ R(k).p /\ T(k) \in Level(m, root, k) /\ T(k + 1) = R(k).addr
    BY <1>1, <1>3
  <2>2. k \in Depths
    BY DEF Depths
  <2>3. R(k).addr \in Nat
    BY <1>2, <2>1, <2>2 DEF PageEntry
  <2>4. Leads(m, T(k), Digit(page, k), T(k + 1)) /\ Digit(page, k) \in Slots
    BY <2>1, <2>2, DigitType DEF Leads, Read
  <2>5. T(k + 1) \in Kids(m, Level(m, root, k))
    BY <2>1, <2>3, <2>4 DEF Kids
  <2> QED BY <2>5, LevelIs
<1> HIDE DEF T, O, R
<1>4. T(0) \in Level(m, root, 0)
  BY <1>1, LevelIs
<1>5. O(1) => T(1) \in Level(m, root, 1)
  BY <1>3, <1>4
<1>6. O(2) => T(2) \in Level(m, root, 2)
  BY <1>3, <1>5
<1>7. O(3) => T(3) \in Level(m, root, 3)
  BY <1>3, <1>6
<1>8. \A k \in {0, 1, 2, 3} : O(k) => T(k) \in Level(m, root, k)
  BY <1>4, <1>5, <1>6, <1>7
<1>9. \A k \in Depths : O(k) => T(k) \in Level(m, root, k)
  BY <1>8 DEF Depths
<1> QED BY <1>2, <1>9 DEF T, O, R

\* In a tree two walks that meet have come the same way.
LEMMA WalksMeet ==
  ASSUME NEW m \in Memories, NEW root, NEW H \in SUBSET Frames, Tree(m, root, H),
         NEW v \in Nat, NEW w \in Nat
  PROVE  \A k \in Depths :
           /\ Open(m, root, v, k) /\ Open(m, root, w, k)
           /\ Table(m, root, v, k) = Table(m, root, w, k)
           => \A j \in 0 .. k - 1 : Digit(v, j) = Digit(w, j)
<1> DEFINE Meet(k) == /\ Open(m, root, v, k) /\ Open(m, root, w, k)
                      /\ Table(m, root, v, k) = Table(m, root, w, k)
           Same(k) == \A j \in 0 .. k - 1 : Digit(v, j) = Digit(w, j)
<1>1. ASSUME NEW k \in 0 .. 2, Meet(k) => Same(k) PROVE Meet(k + 1) => Same(k + 1)
  <2> SUFFICES ASSUME Meet(k + 1) PROVE Same(k + 1)
    OBVIOUS
  <2>1. /\ Open(m, root, v, k) /\ Read(m, root, v, k).p
        /\ Open(m, root, w, k) /\ Read(m, root, w, k).p
        /\ Read(m, root, v, k).addr = Read(m, root, w, k).addr
    BY WalkOn
  <2>2. k \in Depths
    BY DEF Depths
  <2>3. /\ Table(m, root, v, k) \in Level(m, root, k) /\ Read(m, root, v, k) \in PageEntry
        /\ Table(m, root, w, k) \in Level(m, root, k)
    BY <2>1, <2>2, WalkInTree
  <2>4. PICK x \in Nat : x = Read(m, root, v, k).addr
    BY <2>3 DEF PageEntry
  <2>5. /\ Leads(m, Table(m, root, v, k), Digit(v, k), x)
        /\ Leads(m, Table(m, root, w, k), Digit(w, k), x)
        /\ Digit(v, k) \in Slots /\ Digit(w, k) \in Slots
    BY <2>1, <2>2, <2>4, DigitType DEF Leads, Read
  <2>6. Table(m, root, v, k) = Table(m, root, w, k) /\ Digit(v, k) = Digit(w, k)
    BY <2>3, <2>5 DEF Tree
  <2>7. Same(k)
    BY <1>1, <2>1, <2>6
  <2>8. \A j \in 0 .. (k + 1) - 1 : j \in 0 .. k - 1 \/ j = k
    OBVIOUS
  <2> QED BY <2>6, <2>7, <2>8
<1>2. Same(0)
  OBVIOUS
<1> HIDE DEF Meet, Same
<1>3. Meet(1) => Same(1)
  BY <1>1, <1>2
<1>4. Meet(2) => Same(2)
  BY <1>1, <1>3
<1>5. Meet(3) => Same(3)
  BY <1>1, <1>4
<1>6. \A k \in {0, 1, 2, 3} : Meet(k) => Same(k)
  BY <1>2, <1>3, <1>4, <1>5
<1> QED BY <1>6 DEF Meet, Same, Depths
\* A walk in two memories comes to the same entry at a depth.
Matches(m, n, root, page, k) ==
  Open(m, root, page, k) => n[Table(m, root, page, k)][Digit(page, k)] = Read(m, root, page, k)

Alike(m, n, root, page, k) ==
  /\ Open(n, root, page, k) <=> Open(m, root, page, k)
  /\ Open(m, root, page, k) => Table(n, root, page, k) = Table(m, root, page, k)

\* It has come the same way to the next depth.
LEMMA WalkSame ==
  ASSUME NEW m, NEW n, NEW root, NEW page
  PROVE  /\ Alike(m, n, root, page, 0)
         /\ \A k \in 0 .. 2 : Alike(m, n, root, page, k) /\ Matches(m, n, root, page, k)
                                => Alike(m, n, root, page, k + 1)
<1>1. ASSUME NEW k \in 0 .. 2, Alike(m, n, root, page, k), Matches(m, n, root, page, k)
      PROVE  Alike(m, n, root, page, k + 1)
  <2>1. Open(m, root, page, k) => Read(n, root, page, k) = Read(m, root, page, k)
    BY <1>1 DEF Read, Alike, Matches
  <2> QED BY <1>1, <2>1, WalkOn DEF Alike
<1>2. Alike(m, n, root, page, 0)
  BY WalkOn DEF Alike
<1> QED BY <1>1, <1>2

\* If it does so all the way, it reads the same all the way.
LEMMA AllAlike ==
  ASSUME NEW m, NEW n, NEW root, NEW page, NEW top \in Depths,
         \A k \in Depths : k < top => Matches(m, n, root, page, k)
  PROVE  \A k \in Depths : k <= top => Alike(m, n, root, page, k)
<1>1. top \in {0, 1, 2, 3} /\ \A k \in {0, 1, 2, 3} : k < top => Matches(m, n, root, page, k)
  BY DEF Depths
<1>2. Alike(m, n, root, page, 0)
  BY WalkSame
<1>3. 1 <= top => Alike(m, n, root, page, 0 + 1)
  BY <1>1, <1>2, WalkSame
<1>4. 2 <= top => Alike(m, n, root, page, 1 + 1)
  BY <1>1, <1>3, WalkSame
<1>5. 3 <= top => Alike(m, n, root, page, 2 + 1)
  BY <1>1, <1>4, WalkSame
<1>6. \A k \in {0, 1, 2, 3} : k <= top => Alike(m, n, root, page, k)
  BY <1>1, <1>2, <1>3, <1>4, <1>5
<1> QED BY <1>6 DEF Depths

\* A page translates in both memories or in neither, and by the same entries.
Agree(m, n, root, page) ==
  /\ Translates(n, root, page) <=> Translates(m, root, page)
  /\ Translates(m, root, page) =>
       \A k \in Depths : Read(n, root, page, k) = Read(m, root, page, k)

\* The walk to a page reads the same if what it comes through is the same.
LEMMA AgreeIf ==
  ASSUME NEW m, NEW n, NEW root, NEW page,
         \A k \in Depths : Matches(m, n, root, page, k)
  PROVE  Agree(m, n, root, page)
<1>1. 3 \in Depths /\ \A k \in Depths : k <= 3
  BY DEF Depths
<1>2. \A k \in Depths : Alike(m, n, root, page, k)
  BY <1>1, AllAlike
<1>3. \A k \in Depths : Open(m, root, page, k) => Read(n, root, page, k) = Read(m, root, page, k)
  BY <1>2 DEF Read, Alike, Matches
<1>4. Translates(m, root, page) => \A k \in Depths : Open(m, root, page, k)
  BY DEF Translates, Open, Depths
<1> QED BY <1>1, <1>2, <1>3, <1>4 DEF Agree, Translates, Alike

\* Who writes outside the tables changes no translation.
LEMMA SeenKept ==
  ASSUME NEW m \in Memories, NEW root, NEW H \in SUBSET Frames, Tree(m, root, H),
         NEW n, \A t \in H : n[t] = m[t], NEW page \in Nat
  PROVE  Agree(m, n, root, page)
<1>1. \A k \in Depths : Open(m, root, page, k) => Table(m, root, page, k) \in H
  BY WalkInTree
<1>2. \A k \in Depths : Matches(m, n, root, page, k)
  BY <1>1 DEF Matches, Read
<1> QED BY <1>2, AgreeIf

\* No page shows the table new, hung below slot i of t at depth d, and a walk that
\* came to that slot can go on.
Carried(m, n, root, d, t, i, new, page) ==
  /\ Agree(m, n, root, page)
  /\ /\ Open(m, root, page, d) /\ Table(m, root, page, d) = t /\ Digit(page, d) = i
     => Open(n, root, page, d + 1) /\ Table(n, root, page, d + 1) = new

\* So it is with every empty table.
LEMMA SeenGrown ==
  ASSUME NEW m \in Memories, NEW root, NEW H \in SUBSET Frames, Tree(m, root, H),
         NEW n, NEW d \in 0 .. 2, NEW t \in Level(m, root, d), NEW i \in Slots, ~m[t][i].p,
         NEW new \in Nat \ H,
         Hangs(m, n, H, t, i, new),
         NEW page \in Nat
  PROVE  Carried(m, n, root, d, t, i, new, page)
<1> USE DEF Hangs, Carried
<1>1. \A k \in 0 .. 2 : k \in Depths /\ k + 1 \in Depths
  BY DEF Depths
<1>2. \A k \in Depths : Open(m, root, page, k) =>
        Table(m, root, page, k) \in H /\ Table(m, root, page, k) \in Level(m, root, k)
        /\ Digit(page, k) \in Slots
  BY WalkInTree, DigitType
<1>3. \A k \in Depths : k # d => t \notin Level(m, root, k)
  BY <1>1, LevelsApart
<1>4. \A k \in Depths :
        \/ Matches(m, n, root, page, k)
        \/ k = d /\ Open(m, root, page, k) /\ Table(m, root, page, k) = t /\ Digit(page, k) = i
  BY <1>2, <1>3 DEF Matches, Read
<1>5. CASE Open(m, root, page, d) /\ Table(m, root, page, d) = t /\ Digit(page, d) = i
  <2>2. \A k \in Depths : k < d => Matches(m, n, root, page, k)
    BY <1>4 DEF Depths
  <2>3. Open(n, root, page, d) /\ Table(n, root, page, d) = t
    <3>1. d \in Depths /\ d <= d
      BY <1>1
    <3>2. Alike(m, n, root, page, d)
      BY <2>2, <3>1, AllAlike
    <3> QED BY <1>5, <3>2 DEF Alike
  <2>4. Open(n, root, page, d + 1) /\ Table(n, root, page, d + 1) = new
    BY <1>5, <2>3, WalkOn DEF Read, Leads
  <2>5. ~Read(m, root, page, d).p
    BY <1>5 DEF Read
  <2>6. ~Read(n, root, page, d + 1).p
    BY <1>1, <2>4, DigitType DEF Read
  <2>7. ~Translates(m, root, page)
    BY <2>5 DEF Translates, Open
  <2>8. ~Translates(n, root, page)
    <3>1. d + 1 = 3 \/ d + 1 \in 0 .. 3 - 1
      OBVIOUS
    <3> QED BY <2>6, <3>1 DEF Translates, Open
  <2> QED BY <2>4, <2>7, <2>8 DEF Agree
<1>6. CASE ~(Open(m, root, page, d) /\ Table(m, root, page, d) = t /\ Digit(page, d) = i)
  <2>1. \A k \in Depths : Matches(m, n, root, page, k)
    BY <1>4, <1>6
  <2> QED BY <1>6, <2>1, AgreeIf
<1> QED BY <1>5, <1>6

\* A leaf written at the end of the walk to a page maps that page, and no other
\* page sees it.
LEMMA SeenLeaf ==
  ASSUME NEW m \in Memories, NEW root, NEW H \in SUBSET Frames, Tree(m, root, H),
         NEW w \in VirtualPages, Open(m, root, w, 3),
         NEW n, NEW t, t = Table(m, root, w, 3), NEW i, i = Digit(w, 3),
         \A u \in H : u # t => n[u] = m[u],
         \A s \in Slots : s # i => n[t][s] = m[t][s],
         n[t][i].p
  PROVE  /\ Translates(n, root, w) /\ Read(n, root, w, 3) = n[t][i]
         /\ \A k \in 0 .. 2 : Read(n, root, w, k) = Read(m, root, w, k)
                              /\ Read(n, root, w, k) \in PageEntry
                              /\ Open(m, root, w, k) /\ Read(m, root, w, k).p
         /\ \A v \in VirtualPages \ {w} : Agree(m, n, root, v)
<1>1. \A k \in 0 .. 2 : k \in Depths /\ k # 3
  BY DEF Depths
<1>2. 3 \in Depths /\ VirtualPages \subseteq Nat
  BY DEF Depths, VirtualPages
<1>3. \A v \in VirtualPages : \A k \in Depths : Open(m, root, v, k) =>
        /\ Table(m, root, v, k) \in H /\ Table(m, root, v, k) \in Level(m, root, k)
        /\ Digit(v, k) \in Slots /\ Read(m, root, v, k) \in PageEntry
  BY <1>2, WalkInTree, DigitType
<1>4. t \in Level(m, root, 3)
  BY <1>2, <1>3
<1>5. \A k \in 0 .. 2 : t \notin Level(m, root, k)
  BY <1>1, <1>2, <1>4, LevelsApart
<1>6. \A v \in VirtualPages : \A k \in 0 .. 2 : Matches(m, n, root, v, k)
  BY <1>1, <1>3, <1>5 DEF Matches, Read
<1>7. ASSUME NEW v \in VirtualPages, v # w PROVE Agree(m, n, root, v)
  <2>1. ASSUME Open(m, root, v, 3), Table(m, root, v, 3) = t, Digit(v, 3) = i PROVE FALSE
    <3>1. \A j \in 0 .. 3 - 1 : Digit(v, j) = Digit(w, j)
      BY <1>2, <2>1, WalksMeet
    <3>2. \A j \in Depths : j \in 0 .. 3 - 1 \/ j = 3
      BY DEF Depths
    <3>3. \A j \in Depths : Digit(v, j) = Digit(w, j)
      BY <2>1, <3>1, <3>2
    <3> QED BY <1>7, <3>3, DigitsFix
  <2>2. Matches(m, n, root, v, 3)
    BY <1>2, <1>3, <2>1 DEF Matches, Read
  <2>3. \A k \in Depths : k \in 0 .. 2 \/ k = 3
    BY DEF Depths
  <2> QED BY <1>6, <2>2, <2>3, AgreeIf
<1>8. \A k \in Depths : Alike(m, n, root, w, k)
  <2>1. \A k \in Depths : k < 3 => Matches(m, n, root, w, k)
    BY <1>6 DEF Depths
  <2>2. \A k \in Depths : k <= 3
    BY DEF Depths
  <2> QED BY <1>2, <2>1, <2>2, AllAlike
<1>9. Open(n, root, w, 3) /\ Table(n, root, w, 3) = t
  BY <1>2, <1>8 DEF Alike
<1>10. Read(n, root, w, 3) = n[t][i] /\ Translates(n, root, w)
  BY <1>9 DEF Read, Translates
<1>11. \A k \in 0 .. 2 : Open(m, root, w, k) /\ Read(m, root, w, k).p
  BY DEF Open
<1>12. \A k \in 0 .. 2 : Read(n, root, w, k) = Read(m, root, w, k)
  BY <1>1, <1>6, <1>8, <1>11 DEF Read, Alike, Matches
<1>13. \A k \in 0 .. 2 : Read(n, root, w, k) \in PageEntry
  BY <1>1, <1>3, <1>11, <1>12
<1> QED BY <1>7, <1>10, <1>11, <1>12, <1>13
-----------------------------------------------------------------------------
(* The invariant.                                                          *)

\* The books of the physical memory manager, which a panic of either manager
\* leaves as they are.
Books ==
  /\ layout \in Layouts /\ stage \in {"boot", "ready", "reclaimed"}
  /\ num_pages \in Nat /\ bitmap_phy \in Nat
  /\ stage # "boot" =>
       bitmap \in [0 .. BitmapSize(num_pages) - 1 -> SUBSET (0 .. CHAR_BIT - 1)]
  /\ held \subseteq [page : Nat, size : KallocSizes]
  /\ NothingHeldAtBoot /\ Sized /\ HeldExclusively /\ Conserved /\ BitmapInsideUsable

Calls ==
  [what : Nat, where : Nat, size : Nat, flags : SUBSET MemoryFlags,
   done : Nat, depth : Depths, table : Frames]

Typing ==
  /\ mem \in Memories /\ PML4 \in Frames /\ cr3 \in {0, PML4} /\ panic \in Panics
  /\ pat_msr \in {PatReset, PatLayout} /\ call \in Calls

\* The page vmm_map has come to.
Page == Where \div PAGE_SIZE

\* A call of vmm_map works on whole pages inside the address space, and stands
\* where the processor's walk to its page leads.
Walking ==
  /\ Aligned(call.what) /\ Aligned(call.where) /\ Aligned(call.size) /\ Aligned(call.done)
  /\ call.done <= call.size /\ InSpace(call.where, call.size)
  /\ stage = "boot" => PML4 = 0
  /\ PML4 = 0 => call = NoCall
  /\ PML4 # 0 => pat_msr = PatLayout
  /\ Idle => call.depth = 0
  /\ ~Idle =>
       /\ Open(mem, PML4, Page, call.depth)
       /\ call.table = Table(mem, PML4, Page, call.depth)
       /\ call.depth > 0 => Refusal = "none"

\* Frames granted one by one, as pmm_alloc_page does.
Singles == {f \in Frames : [page |-> f, size |-> PAGE_SIZE] \in held}

\* The entries above the leaves withhold no right but the user's, which none gives.
Granting(m, root) ==
  \A k \in 0 .. 2 : \A t \in Level(m, root, k), s \in Slots :
    m[t][s].p => m[t][s].rw /\ ~m[t][s].xd /\ ~m[t][s].us

Planted == PML4 # 0 => Tree(mem, PML4, Singles) /\ Granting(mem, PML4)

VInv == Books /\ Typing /\ Walking /\ Planted /\ KernelGetsWhatWasAsked

-----------------------------------------------------------------------------
(* The operators of the model in the terms of the proof.                   *)

\* Mapped and Translation follow the processor's walk.
LEMMA SeenIs ==
  ASSUME NEW root, NEW where
  PROVE  /\ Mapped(root, where) <=> Translates(mem, root, where \div PAGE_SIZE)
         /\ Translation(root, where) =
              [frame |-> Read(mem, root, where \div PAGE_SIZE, 3).addr,
               w |-> \A k \in Depths : Read(mem, root, where \div PAGE_SIZE, k).rw,
               x |-> \A k \in Depths : ~Read(mem, root, where \div PAGE_SIZE, k).xd,
               u |-> \A k \in Depths : Read(mem, root, where \div PAGE_SIZE, k).us,
               cache |-> pat_msr[Read(mem, root, where \div PAGE_SIZE, 3).pat]]
<1> DEFINE page == where \div PAGE_SIZE
           R(k) == Read(mem, root, page, k)
           e == Walk(root, where)
<1>1. e[1] = R(0) /\ e[2] = R(1) /\ e[3] = R(2) /\ e[4] = R(3)
  <2>1. /\ Digit(page, 0) = (((page \div ENTRIES) \div ENTRIES) \div ENTRIES) % ENTRIES
        /\ Digit(page, 1) = ((page \div ENTRIES) \div ENTRIES) % ENTRIES
        /\ Digit(page, 2) = (page \div ENTRIES) % ENTRIES
        /\ Digit(page, 3) = page % ENTRIES
    BY DEF Digit
  <2>2. PICK r0, r1, r2, r3 :
          /\ r0 = mem[root][Digit(page, 0)] /\ r1 = mem[r0.addr][Digit(page, 1)]
          /\ r2 = mem[r1.addr][Digit(page, 2)] /\ r3 = mem[r2.addr][Digit(page, 3)]
    OBVIOUS
  <2>3. Walk(root, where) = <<r0, r1, r2, r3>>
    BY <2>1, <2>2 DEF Walk
  <2>4. R(0) = r0 /\ R(1) = r1 /\ R(2) = r2 /\ R(3) = r3
    <3>1. R(0) = mem[root][Digit(page, 0)]
      BY WalkOn DEF Read
    <3>2. \A k \in 0 .. 2 : R(k + 1) = mem[R(k).addr][Digit(page, k + 1)]
      BY WalkOn DEF Read
    <3> HIDE DEF R
    <3>3. /\ R(1) = mem[R(0).addr][Digit(page, 1)]
          /\ R(2) = mem[R(1).addr][Digit(page, 2)]
          /\ R(3) = mem[R(2).addr][Digit(page, 3)]
      <4>1. 0 + 1 = 1 /\ 1 + 1 = 2 /\ 2 + 1 = 3 /\ 0 \in 0 .. 2 /\ 1 \in 0 .. 2 /\ 2 \in 0 .. 2
        OBVIOUS
      <4> QED BY <3>2, <4>1, Zenon
    <3>5. R(0) = r0
      BY <2>2, <3>1
    <3>6. R(1) = r1
      BY <2>2, <3>3, <3>5, Zenon
    <3>7. R(2) = r2
      BY <2>2, <3>3, <3>6, Zenon
    <3>8. R(3) = r3
      BY <2>2, <3>3, <3>7, Zenon
    <3> QED BY <3>5, <3>6, <3>7, <3>8
  <2> HIDE DEF R
  <2> QED BY <2>3, <2>4
<1> HIDE DEF e
<1>2. (\A k \in 1 .. 4 : e[k].rw) <=> (\A k \in Depths : R(k).rw)
  <2>1. (\A k \in 1 .. 4 : e[k].rw) <=> e[1].rw /\ e[2].rw /\ e[3].rw /\ e[4].rw
    <3>1. \A k \in 1 .. 4 : k \in {1, 2, 3, 4}
      OBVIOUS
    <3> QED BY <3>1
  <2>2. (\A k \in Depths : R(k).rw) <=> R(0).rw /\ R(1).rw /\ R(2).rw /\ R(3).rw
    <3>1. \A k : k \in Depths <=> k \in {0, 1, 2, 3}
      BY DEF Depths
    <3> HIDE DEF R
    <3> QED BY <3>1
  <2> QED BY <1>1, <2>1, <2>2
<1>3. (\A k \in 1 .. 4 : ~e[k].xd) <=> (\A k \in Depths : ~R(k).xd)
  <2>1. (\A k \in 1 .. 4 : ~e[k].xd) <=> ~e[1].xd /\ ~e[2].xd /\ ~e[3].xd /\ ~e[4].xd
    <3>1. \A k \in 1 .. 4 : k \in {1, 2, 3, 4}
      OBVIOUS
    <3> QED BY <3>1
  <2>2. (\A k \in Depths : ~R(k).xd) <=> ~R(0).xd /\ ~R(1).xd /\ ~R(2).xd /\ ~R(3).xd
    <3>1. \A k : k \in Depths <=> k \in {0, 1, 2, 3}
      BY DEF Depths
    <3> HIDE DEF R
    <3> QED BY <3>1
  <2> QED BY <1>1, <2>1, <2>2
<1>7. (\A k \in 1 .. 4 : e[k].us) <=> (\A k \in Depths : R(k).us)
  <2>1. (\A k \in 1 .. 4 : e[k].us) <=> e[1].us /\ e[2].us /\ e[3].us /\ e[4].us
    <3>1. \A k \in 1 .. 4 : k \in {1, 2, 3, 4}
      OBVIOUS
    <3> QED BY <3>1
  <2>2. (\A k \in Depths : R(k).us) <=> R(0).us /\ R(1).us /\ R(2).us /\ R(3).us
    <3>1. \A k : k \in Depths <=> k \in {0, 1, 2, 3}
      BY DEF Depths
    <3> HIDE DEF R
    <3> QED BY <3>1
  <2> QED BY <1>1, <2>1, <2>2
<1>4. Translates(mem, root, page) <=> R(0).p /\ R(1).p /\ R(2).p /\ R(3).p
  <2>1. \A k : k \in 0 .. 3 - 1 <=> k \in {0, 1, 2}
    OBVIOUS
  <2> QED BY <2>1 DEF Translates, Open
<1>5. Mapped(root, where) <=> e[1].p /\ e[2].p /\ e[3].p /\ e[4].p
  BY DEF Mapped, e
<1>6. Translation(root, where) =
        [frame |-> e[4].addr, w |-> \A d \in 1 .. 4 : e[d].rw,
         x |-> \A d \in 1 .. 4 : ~e[d].xd, u |-> \A d \in 1 .. 4 : e[d].us,
         cache |-> pat_msr[e[4].pat]]
  BY DEF Translation, e
<1> QED BY <1>1, <1>2, <1>3, <1>4, <1>5, <1>6, <1>7

\* Below is what a set of tables leads to.
LEMMA BelowIs ==
  ASSUME mem \in Memories, NEW T \in SUBSET Frames
  PROVE  Below(T) = Kids(mem, T)
<1>1. ASSUME NEW t \in T, NEW s \in Slots PROVE mem[t][s].addr \in Nat
  BY DEF Memories, PageEntry
<1>2. \A x : x \in Below(T) <=> \E t \in T, s \in Slots : mem[t][s].p /\ x = mem[t][s].addr
  <2>1. \A x : x \in Below(T) <=>
          \E l \in {l \in T \X Slots : mem[l[1]][l[2]].p} : x = mem[l[1]][l[2]].addr
    BY Zenon DEF Below
  <2>2. \A l \in T \X Slots : l[1] \in T /\ l[2] \in Slots
    OBVIOUS
  <2>3. ASSUME NEW t \in T, NEW s \in Slots
        PROVE  \E l \in T \X Slots : l[1] = t /\ l[2] = s
    <3>1. <<t, s>> \in T \X Slots
      BY <2>3
    <3>2. WITNESS <<t, s>> \in T \X Slots
    <3> QED OBVIOUS
  <2>4. ASSUME NEW l \in T \X Slots, mem[l[1]][l[2]].p, NEW x, x = mem[l[1]][l[2]].addr
        PROVE  \E t \in T, s \in Slots : mem[t][s].p /\ x = mem[t][s].addr
    BY <2>2, <2>4, Zenon
  <2>5. ASSUME NEW t \in T, NEW s \in Slots, mem[t][s].p
        PROVE  mem[t][s].addr \in Below(T)
    <3>1. PICK l \in T \X Slots : l[1] = t /\ l[2] = s
      BY <2>3, <2>5, Zenon
    <3> QED BY <2>1, <2>5, <3>1
  <2> QED BY <2>1, <2>4, <2>5
<1>3. \A x : x \in Kids(mem, T)
         <=> x \in Nat /\ \E t \in T, s \in Slots : mem[t][s].p /\ mem[t][s].addr = x
  BY DEF Kids, Leads
<1>4. \A x : x \in Below(T) <=> x \in Kids(mem, T)
  BY <1>1, <1>2, <1>3
<1> QED BY <1>4

\* Directories and TableFrames are the levels of the tree.
LEMMA TablesAre ==
  ASSUME VInv, PML4 # 0
  PROVE  /\ \A x : x \in Directories <=> \E k \in 0 .. 2 : x \in Level(mem, PML4, k)
         /\ \A x : x \in TableFrames <=> \E k \in Depths : x \in Level(mem, PML4, k)
         /\ \A k \in Depths : Level(mem, PML4, k) \subseteq Singles
<1> DEFINE L(k) == Level(mem, PML4, k)
<1>1. /\ L(0) = {PML4} /\ L(0 + 1) = Kids(mem, L(0))
      /\ L(1 + 1) = Kids(mem, L(1)) /\ L(2 + 1) = Kids(mem, L(2))
  BY LevelIs
<1>2. \A k \in Depths : L(k) \subseteq Singles
  BY DEF VInv, Planted, Tree
<1>3. Singles \subseteq Frames
  BY DEF Singles
<1>4. L(0) \subseteq Frames /\ L(1) \subseteq Frames /\ L(2) \subseteq Frames
  BY <1>2, <1>3 DEF Depths
<1> HIDE DEF L
<1>5. Below(L(0)) = L(1) /\ Below(L(1)) = L(2) /\ Below(L(2)) = L(3)
  BY <1>1, <1>4, BelowIs DEF VInv, Typing
<1>6. Directories = L(0) \cup L(1) \cup L(2)
  BY <1>1, <1>5 DEF Directories
<1>7. Below(L(0) \cup L(1) \cup L(2)) = L(1) \cup L(2) \cup L(3)
  <2>1. \A A, B : Kids(mem, A \cup B) = Kids(mem, A) \cup Kids(mem, B)
    BY DEF Kids
  <2>2. L(0) \cup L(1) \cup L(2) \in SUBSET Frames
    BY <1>4
  <2>3. Below(L(0) \cup L(1) \cup L(2)) = Kids(mem, L(0) \cup L(1) \cup L(2))
    BY <2>2, BelowIs DEF VInv, Typing
  <2>4. Kids(mem, L(0) \cup L(1) \cup L(2))
          = Kids(mem, L(0)) \cup Kids(mem, L(1)) \cup Kids(mem, L(2))
    <3>1. PICK A : A = L(0) \cup L(1)
      OBVIOUS
    <3>2. Kids(mem, A \cup L(2)) = Kids(mem, A) \cup Kids(mem, L(2))
      BY <2>1
    <3>3. Kids(mem, L(0) \cup L(1)) = Kids(mem, L(0)) \cup Kids(mem, L(1))
      BY <2>1
    <3> QED BY <3>1, <3>2, <3>3
  <2>5. Kids(mem, L(0)) = L(1) /\ Kids(mem, L(1)) = L(2) /\ Kids(mem, L(2)) = L(3)
    BY <1>1
  <2> QED BY <2>3, <2>4, <2>5
<1>8. TableFrames = L(0) \cup L(1) \cup L(2) \cup L(3)
  BY <1>6, <1>7 DEF TableFrames
<1>9. \A k : (k \in Depths <=> k \in {0, 1, 2, 3}) /\ (k \in 0 .. 2 <=> k \in {0, 1, 2})
  BY DEF Depths
<1> QED BY <1>2, <1>6, <1>8, <1>9 DEF L
\* The tables are a tree in memory that was granted and is still held.
LEMMA TreeFormed ==
  ASSUME VInv
  PROVE  TablesFormTree
<1> SUFFICES ASSUME PML4 # 0
             PROVE  LET links == {l \in Directories \X Slots : mem[l[1]][l[2]].p}
                        Target(l) == mem[l[1]][l[2]].addr
                    IN  /\ \A l, m \in links : l # m => Target(l) # Target(m)
                        /\ \A l \in links : Target(l) # PML4
                        /\ TableBlocks \subseteq held
  BY DEF TablesFormTree
<1> DEFINE links == {l \in Directories \X Slots : mem[l[1]][l[2]].p}
           Target(l) == mem[l[1]][l[2]].addr
<1>1. /\ \A x : x \in Directories <=> \E k \in 0 .. 2 : x \in Level(mem, PML4, k)
      /\ \A x : x \in TableFrames <=> \E k \in Depths : x \in Level(mem, PML4, k)
      /\ \A k \in Depths : Level(mem, PML4, k) \subseteq Singles
  BY TablesAre
<1>2. \A k \in 0 .. 2 : k \in Depths
  BY DEF Depths
<1>3. ASSUME NEW l \in links
      PROVE  \E k \in 0 .. 2, t \in Frames, s \in Slots :
               /\ l = <<t, s>> /\ t \in Level(mem, PML4, k)
               /\ Target(l) \in Nat /\ Leads(mem, t, s, Target(l))
  <2>1. PICK t \in Directories, s \in Slots : l = <<t, s>> /\ mem[t][s].p
    BY <1>3
  <2>2. PICK k \in 0 .. 2 : t \in Level(mem, PML4, k)
    BY <1>1, <2>1
  <2>3. t \in Frames
    BY <1>1, <1>2, <2>2 DEF Singles
  <2>4. mem[t][s].addr \in Nat
    BY <2>1, <2>3 DEF VInv, Typing, Memories, PageEntry
  <2> QED BY <2>1, <2>2, <2>3, <2>4 DEF Leads
<1>4. ASSUME NEW l \in links, NEW m \in links, Target(l) = Target(m) PROVE l = m
  <2>1. PICK j \in 0 .. 2, t \in Frames, s \in Slots :
          /\ l = <<t, s>> /\ t \in Level(mem, PML4, j)
          /\ Target(l) \in Nat /\ Leads(mem, t, s, Target(l))
    BY <1>3
  <2>2. PICK k \in 0 .. 2, u \in Frames, q \in Slots :
          /\ m = <<u, q>> /\ u \in Level(mem, PML4, k)
          /\ Target(m) \in Nat /\ Leads(mem, u, q, Target(m))
    BY <1>3
  <2>3. PICK x \in Nat : x = Target(l) /\ x = Target(m)
    BY <1>4, <2>1
  <2>4. t = u /\ s = q
    BY <2>1, <2>2, <2>3 DEF VInv, Planted, Tree
  <2> QED BY <2>1, <2>2, <2>4
<1>5. ASSUME NEW l \in links PROVE Target(l) # PML4
  <2>1. PICK k \in 0 .. 2, t \in Frames, s \in Slots :
          /\ l = <<t, s>> /\ t \in Level(mem, PML4, k)
          /\ Target(l) \in Nat /\ Leads(mem, t, s, Target(l))
    BY <1>3, <1>5
  <2>2. Target(l) \in Kids(mem, Level(mem, PML4, k))
    BY <2>1 DEF Kids
  <2>3. Target(l) \in Level(mem, PML4, k + 1) /\ k + 1 \in 1 .. 3
    BY <2>2, LevelIs
  <2> QED BY <2>3 DEF VInv, Planted, Tree
<1>6. TableBlocks \subseteq held
  BY <1>1 DEF TableBlocks, Singles
<1> HIDE DEF links, Target
<1> QED BY <1>4, <1>5, <1>6 DEF links, Target

\* A type is a type.
LEMMA TypingSuffices ==
  ASSUME VInv
  PROVE  VmmTypeOK
BY DEF VInv, Typing, Walking, VmmTypeOK, Memories, Calls, Depths

-----------------------------------------------------------------------------
(* Steps of the physical memory manager.                                   *)

\* While no check has failed, the books are in the order that the proofs about the
\* physical memory manager start from; and they stay so.
LEMMA BooksAre ==
  /\ Books /\ Running => IInv
  /\ IInv => Books
<1>1. ASSUME Books, Running PROVE IInv
  BY <1>1 DEF Books, Running, IInv, TypeOK
<1>2. ASSUME IInv PROVE Books
  BY <1>2 DEF Books, IInv, TypeOK
<1> QED BY <1>1, <1>2

\* A check that fails leaves the books as they are.
LEMMA BooksStand ==
  ASSUME Books, UNCHANGED <<layout, stage, num_pages, bitmap, bitmap_phy, held>>
  PROVE  Books' /\ Singles' = Singles
<1>1. HeldPages' = HeldPages /\ FreePages' = FreePages /\ BitmapPages' = BitmapPages
  BY DEF HeldPages, FreePages, BitmapPages
<1>2. Managed' = Managed /\ HighestAddr' = HighestAddr
  BY <1>1 DEF Managed, PagesOfType, StackPages, HighestAddr
<1>3. NothingHeldAtBoot' /\ Sized' /\ HeldExclusively' /\ Conserved' /\ BitmapInsideUsable'
  BY <1>1, <1>2 DEF Books, NothingHeldAtBoot, Sized, HeldExclusively, Conserved,
     BitmapInsideUsable
<1> QED BY <1>3 DEF Books, Singles

\* A page is one page.
LEMMA OnePage ==
  /\ PageCount(PAGE_SIZE) = 1 /\ PAGE_SIZE \in KallocSizes
  /\ \A f \in Nat : PagesHeldBy([page |-> f, size |-> PAGE_SIZE]) = {f}
<1>1. PAGE_SIZE \in Nat \ {0} /\ PAGE_SIZE % PAGE_SIZE = 0 /\ PAGE_SIZE \div PAGE_SIZE = 1
  BY PmmAssumption
<1>2. PageCount(PAGE_SIZE) = 1
  BY <1>1 DEF PageCount, round_up
<1>3. \A f \in Nat : Run(f, 1) = {f}
  BY DEF Run
<1> QED BY <1>2, <1>3, VmmAssumption DEF PagesHeldBy

\* What is marked free lies in the frames modelled, and holds no table.
LEMMA FreeIs ==
  ASSUME Books, stage # "boot"
  PROVE  /\ FreePages \subseteq Frames /\ FreePages \cap Singles = {}
         /\ PML4 # 0 /\ Planted => \A k \in Depths : FreePages \cap Level(mem, PML4, k) = {}
<1>1. ASSUME NEW p \in FreePages PROVE p \in Frames
  <2>1. p \in Managed
    BY DEF Books, Conserved
  <2>2. PICK T \in SUBSET (RamTypes \cup ReclaimTypes) : p \in PagesOfType(T)
    BY <2>1 DEF Managed, RamTypes
  <2>3. PICK i \in Entries : layout.memmap[i].type \in T /\ p \in EntryPages(layout.memmap[i])
    BY <2>2, PagesOfTypeMember
  <2> DEFINE e == layout.memmap[i]
  <2>4. layout \in Layouts
    BY DEF Books
  <2>5. e \in Entry /\ EndOf(e) \in Nat /\ EndOf(e) <= FRAMES * PAGE_SIZE
    BY <2>2, <2>3, <2>4, EntryFacts, VmmAssumption DEF Entries
  <2> HIDE DEF e
  <2>6. e.base \in Nat /\ e.length \in Nat /\ EndOf(e) = e.base + e.length
    BY <2>5 DEF Entry, EndOf
  <2>7. p \in Nat /\ p < EndOf(e) \div PAGE_SIZE
    BY <2>3, <2>6, PagesOfMember DEF EntryPages, e
  <2>8. EndOf(e) \div PAGE_SIZE <= FRAMES
    <3>1. FRAMES * PAGE_SIZE \in Nat /\ (FRAMES * PAGE_SIZE) \div PAGE_SIZE = FRAMES
      BY Multiple, PmmAssumption, VmmAssumption
    <3> QED BY <2>5, <3>1, DivMonotone, PmmAssumption
  <2>9. EndOf(e) \div PAGE_SIZE \in Nat
    BY <2>5, DivMod, PmmAssumption
  <2> QED BY <2>7, <2>8, <2>9, VmmAssumption DEF Frames
<1>2. FreePages \cap Singles = {}
  <2> SUFFICES ASSUME NEW f \in Singles PROVE f \notin FreePages
    OBVIOUS
  <2>1. f \in Nat /\ [page |-> f, size |-> PAGE_SIZE] \in held
    BY DEF Singles, Frames
  <2>2. f \in HeldPages
    BY <2>1, OnePage, HeldMember
  <2> QED BY <2>2 DEF Books, HeldExclusively
<1>3. PML4 # 0 /\ Planted => \A k \in Depths : Level(mem, PML4, k) \subseteq Singles
  BY DEF Planted, Tree
<1> QED BY <1>1, <1>2, <1>3
\* pmm_alloc_page, the way both of its callers use it: a frame that was free, and so
\* held no table, becomes one that is held by itself, or a check fails.
LEMMA NewTable ==
  ASSUME Books, Running, stage # "boot", pmm_alloc_pages(1, PAGE_SIZE), UNCHANGED num_pages,
         NEW page, page = Least(FreeRuns(1))
  PROVE  /\ Books' /\ panic' \in Panics /\ UNCHANGED <<layout, stage>>
         /\ panic' # "none" => Singles' = Singles
         /\ panic' = "none" => page \in FreePages /\ page \in Frames /\ page \notin Singles
                               /\ Singles' = Singles \cup {page}
<1>1. IInv
  BY BooksAre
<1>2. PageCount(PAGE_SIZE) = 1 /\ PAGE_SIZE \in KallocSizes
  BY OnePage
<1>3. kalloc(PAGE_SIZE)
  BY <1>2 DEF kalloc
<1>4. IInv'
  BY <1>1, <1>2, <1>3, KallocStep
<1>5. Books'
  BY <1>4 DEF Books, IInv, TypeOK
<1>6. CASE FreeRuns(1) = {}
  <2>1. Panic("no_contiguous_pages")
    <3>1. Panic(IF 1 < 2 THEN "no_contiguous_pages" ELSE "page_out_of_range")
      BY <1>6, Zenon DEF pmm_alloc_pages
    <3>2. (IF 1 < 2 THEN "no_contiguous_pages" ELSE "page_out_of_range") = "no_contiguous_pages"
      OBVIOUS
    <3> QED BY <3>1, <3>2, Zenon
  <2> QED BY <1>5, <2>1 DEF Panics, Singles, Panic
<1>7. CASE FreeRuns(1) # {}
  <2>1. /\ held' = held \cup {[page |-> page, size |-> PAGE_SIZE]}
        /\ panic' = "none" /\ UNCHANGED <<layout, stage>>
    BY <1>7 DEF pmm_alloc_pages, Running
  <2>2. page \in Nat /\ Run(page, 1) \subseteq FreePages
    BY <1>7, RunFound DEF Books
  <2>3. page \in FreePages
    BY <2>2 DEF Run
  <2>4. page \in Frames /\ page \notin Singles
    BY <2>3, FreeIs
  <2>5. \A f : [page |-> f, size |-> PAGE_SIZE] = [page |-> page, size |-> PAGE_SIZE] <=> f = page
    OBVIOUS
  <2>6. Singles' = Singles \cup {page}
    BY <2>1, <2>4, <2>5 DEF Singles
  <2> QED BY <1>5, <2>1, <2>3, <2>4, <2>6 DEF Panics
<1> QED BY <1>6, <1>7

-----------------------------------------------------------------------------
(* What the processor sees.                                                *)

\* What an access to a page meets, with pat in the PAT register.
View(m, pat, root, page) ==
  [frame |-> Read(m, root, page, 3).addr,
   w |-> \A k \in Depths : Read(m, root, page, k).rw,
   x |-> \A k \in Depths : ~Read(m, root, page, k).xd,
   u |-> \A k \in Depths : Read(m, root, page, k).us,
   cache |-> pat[Read(m, root, page, 3).pat]]

\* The offsets of the pages a call has come through, and what it was asked for there.
Come(c) == {n \in 0 .. c.size - 1 : n < c.done /\ Aligned(n)}

AskedFor(c, k) ==
  [frame |-> (c.what + k) \div PAGE_SIZE,
   w |-> "M_W" \in c.flags, x |-> "M_X" \in c.flags, u |-> FALSE,
   cache |-> IF "M_CACHE_UC" \in c.flags THEN "UC-"
             ELSE IF "M_CACHE_WC" \in c.flags THEN "WC" ELSE "WB"]

Shows(m, pat, root, page, view) ==
  Translates(m, root, page) /\ View(m, pat, root, page) = view

AsAsked(m, pat, root, c) ==
  \A k \in Come(c) : Shows(m, pat, root, (c.where + k) \div PAGE_SIZE, AskedFor(c, k))

\* KernelGetsWhatWasAsked is about what the processor sees.
SeesWhatWasAsked == PML4 # 0 => AsAsked(mem, pat_msr, PML4, call)

LEMMA AskedIs == KernelGetsWhatWasAsked <=> SeesWhatWasAsked
<1>1. \A where : /\ Mapped(PML4, where) <=> Translates(mem, PML4, where \div PAGE_SIZE)
                 /\ Translation(PML4, where) = View(mem, pat_msr, PML4, where \div PAGE_SIZE)
  BY SeenIs DEF View
<1>2. \A k : Mapped(PML4, call.where + k) /\ Translation(PML4, call.where + k) = AskedFor(call, k)
        <=> Shows(mem, pat_msr, PML4, (call.where + k) \div PAGE_SIZE, AskedFor(call, k))
  BY <1>1, Zenon DEF Shows
<1>3. KernelGetsWhatWasAsked <=>
        (PML4 # 0 => \A k \in Come(call) : /\ Mapped(PML4, call.where + k)
                                           /\ Translation(PML4, call.where + k) = AskedFor(call, k))
  BY Zenon DEF KernelGetsWhatWasAsked, Come, AskedFor
<1> QED BY <1>2, <1>3, Zenon DEF AsAsked, SeesWhatWasAsked

\* Memories that agree on a page show the same there.
LEMMA ViewKept ==
  ASSUME NEW m, NEW n, NEW pat, NEW root, NEW page, Agree(m, n, root, page), NEW view
  PROVE  Shows(n, pat, root, page, view) <=> Shows(m, pat, root, page, view)
<1>1. CASE ~Translates(m, root, page)
  BY <1>1 DEF Agree, Shows
<1>2. CASE Translates(m, root, page)
  <2>1. /\ Translates(n, root, page)
        /\ \A k \in Depths : Read(n, root, page, k) = Read(m, root, page, k)
    BY <1>2 DEF Agree
  <2>2. Read(n, root, page, 3) = Read(m, root, page, 3)
    BY <2>1 DEF Depths
  <2>3. /\ (\A k \in Depths : Read(n, root, page, k).rw) <=> (\A k \in Depths : Read(m, root, page, k).rw)
        /\ (\A k \in Depths : ~Read(n, root, page, k).xd) <=> (\A k \in Depths : ~Read(m, root, page, k).xd)
        /\ (\A k \in Depths : Read(n, root, page, k).us) <=> (\A k \in Depths : Read(m, root, page, k).us)
    BY <2>1
  <2>4. View(n, pat, root, page) = View(m, pat, root, page)
    BY <2>2, <2>3 DEF View
  <2> QED BY <1>2, <2>1, <2>4 DEF Shows
<1> QED BY <1>1, <1>2

\* An address below the end of the address space lies in a page of it.
LEMMA PageInSpace ==
  ASSUME NEW where \in Nat, NEW size \in Nat, NEW k \in Nat, k < size, InSpace(where, size)
  PROVE  (where + k) \div PAGE_SIZE \in VirtualPages
<1>1. PICK top \in Nat : top = ENTRIES * ENTRIES * ENTRIES * ENTRIES
  BY VmmAssumption
<1>2. PAGE_SIZE \in Nat \ {0} /\ where + k < top * PAGE_SIZE
  <2>1. where + size <= top * PAGE_SIZE /\ PAGE_SIZE \in Nat \ {0}
    BY <1>1, PmmAssumption DEF InSpace
  <2>2. top * PAGE_SIZE \in Nat
    BY <1>1, <2>1
  <2> QED BY <2>1, <2>2
<1>3. \A n \in Nat, p \in Nat \ {0}, t \in Nat : n < t * p => n \div p \in Nat /\ n \div p < t
  OBVIOUS
<1>4. (where + k) \div PAGE_SIZE \in Nat /\ (where + k) \div PAGE_SIZE < top
  BY <1>1, <1>2, <1>3
<1> QED BY <1>1, <1>4 DEF VirtualPages
\* The step shows the processor nothing new.
Unseen ==
  /\ UNCHANGED <<PML4, pat_msr>>
  /\ PML4 # 0 => \A v \in VirtualPages : Agree(mem, mem', PML4, v)

\* Such a step leaves what was asked for in place, as long as the call is the same
\* and has come no further.
LEMMA AskedStays ==
  ASSUME VInv, Unseen,
         UNCHANGED <<call.what, call.where, call.size, call.flags, call.done>>
  PROVE  KernelGetsWhatWasAsked'
<1>0. /\ UNCHANGED <<PML4, pat_msr>>
      /\ PML4 # 0 => \A v \in VirtualPages : Agree(mem, mem', PML4, v)
  BY DEF Unseen
<1>1. (KernelGetsWhatWasAsked <=> SeesWhatWasAsked)'
  BY AskedIs, PTL
<1> SUFFICES ASSUME PML4 # 0
             PROVE  AsAsked(mem', pat_msr, PML4, call')
  BY <1>0, <1>1 DEF SeesWhatWasAsked
<1>2. AsAsked(mem, pat_msr, PML4, call)
  BY AskedIs DEF VInv, SeesWhatWasAsked
<1>3. Come(call') = Come(call) /\ \A k : AskedFor(call', k) = AskedFor(call, k)
  BY DEF Come, AskedFor
<1>4. ASSUME NEW k \in Come(call)
      PROVE  Shows(mem', pat_msr, PML4, (call.where + k) \div PAGE_SIZE, AskedFor(call, k))
  <2> DEFINE page == (call.where + k) \div PAGE_SIZE
  <2>1. /\ call.where \in Nat /\ call.size \in Nat /\ k \in Nat /\ k < call.size
        /\ InSpace(call.where, call.size)
    BY DEF VInv, Typing, Calls, Walking, Come
  <2>2. page \in VirtualPages
    BY <2>1, PageInSpace
  <2>3. Shows(mem, pat_msr, PML4, page, AskedFor(call, k))
    BY <1>2 DEF AsAsked
  <2> HIDE DEF page
  <2>4. Agree(mem, mem', PML4, page)
    BY <1>0, <2>2
  <2>5. Shows(mem', pat_msr, PML4, page, AskedFor(call, k))
    BY <2>3, <2>4, ViewKept
  <2> QED BY <2>5 DEF page
<1> QED BY <1>3, <1>4 DEF AsAsked

-----------------------------------------------------------------------------
(* The rights of directory entries.                                        *)

\* Where the tables lie says nothing about what they hold.
LEMMA TreeIn ==
  ASSUME NEW m, NEW root, NEW H, NEW G, Tree(m, root, H),
         \A k \in Depths : Level(m, root, k) \subseteq G
  PROVE  Tree(m, root, G)
BY DEF Tree

\* Rights are kept where the tables are.
LEMMA GrantingKept ==
  ASSUME NEW m, NEW n, NEW root, NEW H, Tree(m, root, H), Granting(m, root),
         \A k \in 0 .. 2 : \A t \in Level(m, root, k) : n[t] = m[t]
  PROVE  Granting(n, root)
<1>1. \A k \in 0 .. 2 : Level(n, root, k) = Level(m, root, k)
  <2>1. \A k \in Depths : Level(n, root, k) = Level(m, root, k)
    BY TreeKept
  <2> QED BY <2>1 DEF Depths
<1> QED BY <1>1 DEF Granting

\* An entry that grants the kernel all leads to an empty table: nothing is withheld.
LEMMA GrantingGrown ==
  ASSUME NEW m, NEW n, NEW root, NEW H, Tree(m, root, H), Granting(m, root),
         NEW d \in 0 .. 2, NEW t \in Level(m, root, d), NEW i \in Slots, ~m[t][i].p,
         NEW page \in Nat \ H,
         Hangs(m, n, H, t, i, page),
         n[t][i].rw, ~n[t][i].xd, ~n[t][i].us
  PROVE  Granting(n, root)
<1>1. /\ \A k \in Depths :
           Level(n, root, k) = Level(m, root, k) \cup (IF k = d + 1 THEN {page} ELSE {})
      /\ Tree(n, root, H \cup {page})
  BY TreeGrows
<1> USE DEF Hangs
<1>2. \A k \in 0 .. 2 : k \in Depths
  BY DEF Depths
<1>3. ASSUME NEW k \in 0 .. 2, NEW u \in Level(n, root, k), NEW s \in Slots, n[u][s].p
      PROVE  n[u][s].rw /\ ~n[u][s].xd /\ ~n[u][s].us
  <2>1. u \in Level(m, root, k) \/ u = page
    BY <1>1, <1>2
  <2>2. u # page
    BY <1>3
  <2>3. u \in Level(m, root, k) /\ u \in H
    BY <1>2, <2>1, <2>2 DEF Tree
  <2> QED BY <1>3, <2>3 DEF Granting
<1> QED BY <1>3 DEF Granting

\* A walk through present entries has lost no right of the kernel's on its way.
LEMMA WalkGrants ==
  ASSUME NEW m \in Memories, NEW root, NEW H \in SUBSET Frames, Tree(m, root, H),
         Granting(m, root), NEW page \in Nat
  PROVE  \A k \in 0 .. 2 : Open(m, root, page, k) /\ Read(m, root, page, k).p
           => /\ Read(m, root, page, k).rw /\ ~Read(m, root, page, k).xd
              /\ ~Read(m, root, page, k).us
<1>1. \A k \in 0 .. 2 : k \in Depths
  BY DEF Depths
<1> QED BY <1>1, WalkInTree, DigitType DEF Granting, Read

-----------------------------------------------------------------------------
(* The steps.                                                              *)

\* A step of the physical memory manager that takes no table back.
LEMMA Untouched ==
  ASSUME VInv, UNCHANGED vmmVars, Books', panic' \in Panics,
         stage' = "boot" => stage = "boot",
         PML4 # 0 => \A k \in Depths : Level(mem, PML4, k) \subseteq Singles'
  PROVE  VInv'
<1>1. UNCHANGED <<mem, PML4, cr3, pat_msr, call>>
  BY DEF vmmVars
<1>2. Typing'
  BY <1>1 DEF VInv, Typing
<1>3. Walking'
  <2>1. Page' = Page /\ Refusal' = Refusal
    BY <1>1 DEF Page, Where, Refusal
  <2> QED BY <1>1, <2>1 DEF VInv, Walking, Idle
<1>4. Planted'
  BY <1>1, TreeIn DEF VInv, Planted
<1>5. KernelGetsWhatWasAsked'
  <2>1. (KernelGetsWhatWasAsked <=> SeesWhatWasAsked)'
    BY AskedIs, PTL
  <2>2. KernelGetsWhatWasAsked <=> SeesWhatWasAsked
    BY AskedIs
  <2>3. SeesWhatWasAsked' <=> SeesWhatWasAsked
    BY <1>1, Zenon DEF SeesWhatWasAsked
  <2> QED BY <2>1, <2>2, <2>3 DEF VInv
<1> QED BY <1>2, <1>3, <1>4, <1>5 DEF VInv

\* What is granted while the tables stand does not move them.
LEMMA TablesStand ==
  ASSUME VInv, Singles \subseteq Singles'
  PROVE  PML4 # 0 => \A k \in Depths : Level(mem, PML4, k) \subseteq Singles'
BY DEF VInv, Planted, Tree

\* pmm_init finds no tables.
LEMMA PmmInitStep ==
  ASSUME VInv, pmm_init, UNCHANGED vmmVars
  PROVE  VInv'
<1>1. IInv'
  BY BooksAre, InitStep DEF VInv, pmm_init
<1>2. Books' /\ panic' \in Panics
  BY <1>1 DEF Books, IInv, TypeOK, Panics
<1>3. PML4 = 0 /\ stage = "boot"
  BY DEF VInv, Walking, pmm_init
<1> QED BY <1>2, <1>3, Untouched

\* pmm_reclaim takes nothing back from anyone.
LEMMA PmmReclaimStep ==
  ASSUME VInv, pmm_reclaim, UNCHANGED vmmVars
  PROVE  VInv'
<1>1. IInv'
  BY BooksAre, ReclaimStep DEF VInv, pmm_reclaim
<1>2. Books' /\ panic' \in Panics
  BY <1>1 DEF Books, IInv, TypeOK, Panics
<1>3. held' = held /\ (stage' = "boot" => stage = "boot")
  BY DEF pmm_reclaim, Panic
<1>4. Singles' = Singles
  BY <1>3 DEF Singles
<1> QED BY <1>2, <1>3, <1>4, TablesStand, Untouched

\* A caller gives back a block of its own: no frame of it is a table.
LEMMA ReleaseStep ==
  ASSUME VInv, NEW block \in held \ TableBlocks, release(block)
  PROVE  VInv'
<1>1. Running /\ kfree(block) /\ UNCHANGED vmmVars
  BY DEF release, kfree
<1>2. IInv'
  BY <1>1, BooksAre, KfreeStep DEF VInv
<1>3. Books' /\ panic' \in Panics
  BY <1>2 DEF Books, IInv, TypeOK, Panics
<1>4. held' = held \ {block} /\ stage' = stage
  BY <1>1 DEF kfree
<1>5. ASSUME PML4 # 0, NEW k \in Depths PROVE Level(mem, PML4, k) \subseteq Singles'
  <2>1. /\ \A x : x \in TableFrames <=> \E j \in Depths : x \in Level(mem, PML4, j)
        /\ Level(mem, PML4, k) \subseteq Singles
    BY <1>5, TablesAre
  <2>2. ASSUME NEW x \in Level(mem, PML4, k) PROVE x \in Singles'
    <3>1. x \in TableFrames /\ x \in Singles
      BY <2>1
    <3>2. [page |-> x, size |-> PAGE_SIZE] \in TableBlocks
      BY <3>1 DEF TableBlocks
    <3> QED BY <1>4, <3>1, <3>2 DEF Singles
  <2> QED BY <2>2
<1> QED BY <1>1, <1>3, <1>4, <1>5, Untouched

\* A caller writes to what it was granted: that was free, and so no table.
LEMMA AllocateStep ==
  ASSUME VInv, NEW size \in KallocSizes, NEW content \in Contents, allocate(size, content)
  PROVE  VInv' /\ Unseen
<1>1. /\ Running /\ stage # "boot" /\ Idle /\ kalloc(size)
      /\ UNCHANGED <<PML4, cr3, pat_msr, call>>
      /\ mem' = [f \in Frames |-> IF f \in FreePages \ FreePages'
                                 THEN [i \in Slots |-> content] ELSE mem[f]]
  BY DEF allocate, kalloc
<1>2. IInv'
  BY <1>1, BooksAre, KallocStep DEF VInv
<1>3. Books' /\ panic' \in Panics
  BY <1>2 DEF Books, IInv, TypeOK, Panics
<1>4. Singles \subseteq Singles' /\ stage' = stage
  <2>1. held \subseteq held' /\ stage' = stage
    BY <1>1 DEF kalloc, pmm_alloc_pages, Panic
  <2> QED BY <2>1 DEF Singles
<1>5. Typing'
  <2>1. [i \in Slots |-> content] \in [Slots -> PageEntry]
    BY VmmAssumption
  <2>2. \A f \in Frames : mem[f] \in [Slots -> PageEntry]
    BY DEF VInv, Typing, Memories
  <2>3. mem' \in Memories
    BY <1>1, <2>1, <2>2 DEF Memories
  <2> QED BY <1>1, <1>3, <2>3 DEF VInv, Typing
<1>6. Walking'
  <2>1. Idle'
    BY <1>1 DEF Idle
  <2> QED BY <1>1, <1>4, <2>1 DEF VInv, Walking, Idle
<1>7. \A t \in Singles : mem'[t] = mem[t]
  <2>1. FreePages \cap Singles = {} /\ Singles \subseteq Frames
    BY <1>1, FreeIs DEF VInv, Singles
  <2> QED BY <1>1, <2>1
<1>8. PML4 # 0 => Planted' /\ \A v \in VirtualPages : Agree(mem, mem', PML4, v)
  <2> SUFFICES ASSUME PML4 # 0
               PROVE  Planted' /\ \A v \in VirtualPages : Agree(mem, mem', PML4, v)
    OBVIOUS
  <2>1. /\ Tree(mem, PML4, Singles) /\ Granting(mem, PML4)
        /\ mem \in Memories /\ Singles \in SUBSET Frames
    BY DEF VInv, Planted, Typing, Singles
  <2>2. \A k \in 0 .. 2 : \A t \in Level(mem, PML4, k) : mem'[t] = mem[t]
    BY <1>7, <2>1 DEF Tree, Depths
  <2>3. Tree(mem', PML4, Singles) /\ Granting(mem', PML4)
    BY <2>1, <2>2, TreeKept, GrantingKept
  <2>4. Tree(mem', PML4, Singles')
    BY <1>4, <2>3, TreeIn DEF Tree
  <2>5. \A v \in VirtualPages : Agree(mem, mem', PML4, v)
    BY <1>7, <2>1, SeenKept DEF VirtualPages
  <2> QED BY <1>1, <2>3, <2>4, <2>5 DEF Planted
<1>9. Planted'
  BY <1>1, <1>8 DEF Planted
<1>10. Unseen
  BY <1>1, <1>8 DEF Unseen
<1>11. KernelGetsWhatWasAsked'
  BY <1>1, <1>10, AskedStays
<1> QED BY <1>3, <1>5, <1>6, <1>9, <1>10, <1>11 DEF VInv
\* vmm_init hangs nothing below the root it makes; on a machine that has no PAT, or
\* no memory, it makes none.
LEMMA VmmInitStep ==
  ASSUME VInv, vmm_init
  PROVE  /\ VInv' /\ PML4 = 0
         /\ PML4' # 0 => \A v \in VirtualPages : ~Translates(mem', PML4', v)
<1>1. /\ Running /\ stage = "ready" /\ PML4 = 0 /\ cr3 = 0 /\ call = NoCall
      /\ UNCHANGED <<num_pages, cr3, call>>
  BY DEF vmm_init, VInv, Typing, Walking
<1>2. CASE Panic("no_pat") /\ UNCHANGED <<mem, PML4, pat_msr>>
  <2>1. UNCHANGED vmmVars /\ UNCHANGED <<layout, stage, num_pages, bitmap, bitmap_phy, held>>
        /\ panic' \in Panics
    BY <1>1, <1>2 DEF vmmVars, Panic, Panics
  <2>2. Books' /\ Singles' = Singles
    BY <2>1, BooksStand DEF VInv
  <2>3. VInv'
    BY <1>1, <2>1, <2>2, Untouched
  <2> QED BY <1>1, <1>2, <2>3
<1>3. CASE pat_msr' = PatLayout /\ pmm_alloc_pages(1, PAGE_SIZE)
  <2> DEFINE page == Least(FreeRuns(1))
  <2>1. /\ panic' # "none" => UNCHANGED <<mem, PML4>>
        /\ panic' = "none" => PML4' = page /\ mem' = memzero({page})
    BY <1>1, <1>2, <1>3 DEF vmm_init, Panic
  <2> HIDE DEF page
  <2>2. /\ Books' /\ panic' \in Panics /\ UNCHANGED <<layout, stage>>
        /\ panic' = "none" => page \in Frames /\ page \in Singles'
    BY <1>1, <1>3, NewTable DEF VInv, page
  <2>3. mem' \in Memories /\ PML4' \in Frames
    <3>1. ZeroTable \in [Slots -> PageEntry]
      BY DEF ZeroTable, Clear, PageEntry
    <3> QED BY <2>1, <2>2, <3>1 DEF VInv, Typing, Memories, memzero
  <2>4. Typing'
    BY <1>1, <1>3, <2>2, <2>3 DEF VInv, Typing
  <2>5. Walking'
    BY <1>1, <1>3, <2>2 DEF VInv, Walking, NoCall, Idle
  <2>6. ASSUME PML4' # 0
        PROVE  /\ PML4' \in Singles' /\ \A s \in Slots : ~mem'[PML4'][s].p
    <3>1. panic' = "none" /\ PML4' = page /\ mem' = memzero({page}) /\ page \in Frames
      BY <1>1, <2>1, <2>2, <2>6
    <3>2. mem'[page] = ZeroTable
      BY <3>1 DEF memzero
    <3> QED BY <2>2, <3>1, <3>2 DEF ZeroTable, Clear
  <2>7. Planted'
    <3> SUFFICES ASSUME PML4' # 0
                 PROVE  Tree(mem', PML4', Singles') /\ Granting(mem', PML4')
      BY DEF Planted
    <3> DEFINE L(k) == Level(mem', PML4', k)
    <3>1. L(0) = {PML4'} /\ L(0 + 1) = Kids(mem', L(0)) /\ L(1 + 1) = Kids(mem', L(1))
          /\ L(2 + 1) = Kids(mem', L(2))
      BY LevelIs
    <3> HIDE DEF L
    <3>2. Kids(mem', {PML4'}) = {} /\ Kids(mem', {}) = {}
      BY <2>6 DEF Kids, Leads
    <3>3. L(1) = {} /\ L(2) = {} /\ L(3) = {}
      BY <3>1, <3>2
    <3>4. \A k : (k \in Depths <=> k \in {0, 1, 2, 3}) /\ (k \in 0 .. 2 <=> k \in {0, 1, 2})
                 /\ (k \in 1 .. 3 <=> k \in {1, 2, 3})
      BY DEF Depths
    <3>5. \A k \in Depths : L(k) \subseteq Singles'
      BY <2>6, <3>1, <3>3, <3>4
    <3>6. \A k \in 0 .. 2 : \A t \in L(k), s \in Slots : ~mem'[t][s].p
      BY <2>6, <3>1, <3>3, <3>4
    <3>7. \A k \in 1 .. 3 : PML4' \notin L(k)
      BY <3>3, <3>4
    <3> QED BY <3>5, <3>6, <3>7 DEF Tree, Granting, L, Leads
  <2>8. KernelGetsWhatWasAsked'
    BY <1>1 DEF KernelGetsWhatWasAsked, NoCall
  <2>9. \A v \in VirtualPages : PML4' # 0 => ~Translates(mem', PML4', v)
    <3> SUFFICES ASSUME NEW v \in VirtualPages, PML4' # 0 PROVE ~Translates(mem', PML4', v)
      OBVIOUS
    <3>1. ~Read(mem', PML4', v, 0).p
      BY <2>6, WalkOn, DigitType DEF Read, Depths, VirtualPages
    <3> QED BY <3>1 DEF Translates, Open
  <2>10. VInv'
    BY <2>2, <2>4, <2>5, <2>7, <2>8 DEF VInv
  <2> QED BY <1>1, <2>9, <2>10
<1> QED BY <1>2, <1>3 DEF vmm_init

\* The processor starts to walk the tables.
LEMMA LoadStep ==
  ASSUME VInv, load_cr3
  PROVE  VInv' /\ Unseen
<1>1. UNCHANGED <<pmmVars, mem, PML4, pat_msr, call>> /\ cr3' = PML4
  BY DEF load_cr3
<1>2. UNCHANGED <<layout, stage, panic, num_pages, bitmap, bitmap_phy, held>>
  BY <1>1 DEF pmmVars
<1>3. Books' /\ Singles' = Singles
  BY <1>2, BooksStand DEF VInv
<1>4. Typing'
  BY <1>1, <1>2 DEF VInv, Typing
<1>5. Walking'
  <2>1. Page' = Page /\ Refusal' = Refusal
    BY <1>1 DEF Page, Where, Refusal
  <2> QED BY <1>1, <1>2, <2>1 DEF VInv, Walking, Idle
<1>6. Planted'
  BY <1>1, <1>3 DEF VInv, Planted
<1>7. Unseen
  BY <1>1 DEF Unseen, Agree
<1>8. KernelGetsWhatWasAsked'
  BY <1>1, <1>7, AskedStays
<1> QED BY <1>3, <1>4, <1>5, <1>6, <1>7, <1>8 DEF VInv

\* A call of vmm_map begins at its first page, or is turned down.
LEMMA MapStep ==
  ASSUME VInv, NEW what \in Nat, NEW where \in Nat, NEW size \in Nat,
         NEW flags \in SUBSET MemoryFlags, InSpace(where, size),
         vmm_map(what, where, size, flags)
  PROVE  VInv' /\ Unseen
<1>1. /\ Running /\ Idle /\ PML4 # 0
      /\ UNCHANGED <<num_pages, mem, PML4, cr3, pat_msr>>
      /\ UNCHANGED <<layout, stage, bitmap, bitmap_phy, held>>
  BY DEF vmm_map, Panic
<1>2. Unseen
  BY <1>1 DEF Unseen, Agree
<1>3. Books' /\ Singles' = Singles
  BY <1>1, BooksStand DEF VInv
<1>4. CASE ~(Aligned(what) /\ Aligned(where) /\ Aligned(size))
  <2>1. UNCHANGED vmmVars /\ panic' \in Panics
    BY <1>1, <1>4 DEF vmm_map, Panic, vmmVars, Panics
  <2>2. VInv'
    BY <1>1, <1>3, <2>1, TablesStand, Untouched
  <2> QED BY <1>2, <2>2
<1>5. CASE Aligned(what) /\ Aligned(where) /\ Aligned(size)
  <2>1. /\ call' = [what |-> what, where |-> where, size |-> size, flags |-> flags,
                    done |-> 0, depth |-> 0, table |-> PML4]
        /\ panic' = panic
    BY <1>5 DEF vmm_map
  <2>2. Typing'
    BY <1>1, <2>1 DEF VInv, Typing, Calls, Depths
  <2>3. Walking'
    <3>1. Open(mem', PML4', Page', 0) /\ PML4' = Table(mem', PML4', Page', 0)
      BY WalkOn
    <3>2. Aligned(0)
      BY PmmAssumption DEF Aligned
    <3>3. PML4' # 0 /\ pat_msr' = PatLayout /\ stage' # "boot"
      BY <1>1 DEF VInv, Walking
    <3>4. /\ call'.what = what /\ call'.where = where /\ call'.size = size /\ call'.done = 0
          /\ call'.depth = 0 /\ call'.table = PML4'
      BY <1>1, <2>1
    <3>5. /\ Open(mem', PML4', Page', call'.depth)
          /\ call'.table = Table(mem', PML4', Page', call'.depth)
      BY <3>1, <3>4, Zenon
    <3> HIDE DEF vmm_map
    <3> QED BY <1>5, <3>2, <3>3, <3>4, <3>5 DEF Walking
  <2>4. Planted'
    BY <1>1, <1>3 DEF VInv, Planted
  <2>5. KernelGetsWhatWasAsked'
    BY <2>1 DEF KernelGetsWhatWasAsked
  <2>6. VInv'
    BY <1>3, <2>2, <2>3, <2>4, <2>5 DEF VInv
  <2> QED BY <1>2, <2>6
<1> QED BY <1>4, <1>5

\* vmm_map_unaligned asks for the whole pages its range touches.
LEMMA MapUnalignedStep ==
  ASSUME VInv, NEW r \in UnalignedRequests,
         vmm_map_unaligned(r.what, r.where, r.size, r.flags)
  PROVE  VInv' /\ Unseen
<1> DEFINE what == round_down(r.what, PAGE_SIZE)
           where == round_down(r.where, PAGE_SIZE)
           end == round_up(r.what + r.size, PAGE_SIZE)
<1>1. /\ r.what \in Nat /\ r.where \in Nat /\ r.size \in Nat /\ r.flags \subseteq MemoryFlags
      /\ InSpace(where, end - what)
  BY RequestAssumption
<1>2. vmm_map(what, where, end - what, r.flags)
  BY DEF vmm_map_unaligned
<1>3. \A n \in Nat : round_down(n, PAGE_SIZE) \in Nat /\ round_down(n, PAGE_SIZE) <= n
  BY PmmAssumption DEF round_down
<1>4. what \in Nat /\ where \in Nat /\ what <= r.what
  BY <1>1, <1>3
<1>5. end \in Nat /\ r.what + r.size <= end
  BY <1>1, RoundUp, PmmAssumption
<1> HIDE DEF what, where, end
<1>6. end - what \in Nat
  BY <1>1, <1>4, <1>5
<1> QED BY <1>1, <1>2, <1>4, <1>6, MapStep

\* A page that may not be mapped stops the machine.
LEMMA RefuseStep ==
  ASSUME VInv, refuse_page
  PROVE  VInv'
<1>1. /\ UNCHANGED vmmVars
      /\ UNCHANGED <<layout, stage, num_pages, bitmap, bitmap_phy, held>>
      /\ panic' = Refusal
  BY DEF refuse_page, Panic
<1>2. panic' \in Panics
  BY <1>1 DEF Refusal, Panics
<1>3. Books' /\ Singles' = Singles
  BY <1>1, BooksStand DEF VInv
<1> QED BY <1>1, <1>2, <1>3, TablesStand, Untouched
\* Where vmm_map stands: at a table of the tree, on the way to a page of the address
\* space.
LEMMA Standing ==
  ASSUME VInv, ~Idle
  PROVE  /\ PML4 # 0 /\ mem \in Memories /\ Tree(mem, PML4, Singles) /\ Granting(mem, PML4)
         /\ Singles \in SUBSET Frames /\ pat_msr = PatLayout /\ stage # "boot"
         /\ call \in Calls /\ call.done < call.size /\ Where \in Nat /\ What \in Nat
         /\ Page \in VirtualPages /\ Page \in Nat /\ call.depth \in Depths
         /\ Open(mem, PML4, Page, call.depth)
         /\ call.table = Table(mem, PML4, Page, call.depth)
         /\ call.table \in Level(mem, PML4, call.depth) /\ call.table \in Singles
         /\ Digit(Page, call.depth) \in Slots /\ Index(Where, call.depth) = Digit(Page, call.depth)
<1>1. PML4 # 0
  BY DEF VInv, Walking, NoCall, Idle
<1>2. /\ mem \in Memories /\ Tree(mem, PML4, Singles) /\ Granting(mem, PML4)
      /\ Singles \in SUBSET Frames /\ pat_msr = PatLayout /\ stage # "boot" /\ call \in Calls
  BY <1>1 DEF VInv, Typing, Walking, Planted, Singles
<1>3. /\ call.what \in Nat /\ call.where \in Nat /\ call.size \in Nat /\ call.done \in Nat
      /\ call.depth \in Depths
  BY <1>2 DEF Calls
<1>4. call.done < call.size /\ InSpace(call.where, call.size)
  BY <1>3 DEF VInv, Walking, Idle
<1>5. Where \in Nat /\ What \in Nat
  BY <1>3 DEF Where, What
<1>6. Page \in VirtualPages
  BY <1>3, <1>4, PageInSpace DEF Page, Where
<1>7. Page \in Nat
  BY <1>6 DEF VirtualPages
<1>8. /\ Open(mem, PML4, Page, call.depth)
      /\ call.table = Table(mem, PML4, Page, call.depth)
  BY DEF VInv, Walking
<1>9. call.table \in Level(mem, PML4, call.depth) /\ call.table \in Singles
  BY <1>2, <1>3, <1>7, <1>8, WalkInTree
<1>10. Digit(Page, call.depth) \in Slots /\ Index(Where, call.depth) = Digit(Page, call.depth)
  BY <1>3, <1>5, <1>7, DigitType, IndexIs DEF Page
<1> QED BY <1>1, <1>2, <1>3, <1>4, <1>5, <1>6, <1>7, <1>8, <1>9, <1>10

\* The walk of vmm_map goes one level down: the call stands at the next table.
LEMMA OneDown ==
  ASSUME VInv, ~Idle, call.depth < 3, Refusal = "none", NEW table \in Frames,
         call' = [call EXCEPT !.depth = @ + 1, !.table = table],
         UNCHANGED <<PML4, pat_msr, stage>>,
         Open(mem', PML4, Page, call.depth + 1),
         Table(mem', PML4, Page, call.depth + 1) = table
  PROVE  /\ call' \in Calls /\ Walking'
         /\ UNCHANGED <<call.what, call.where, call.size, call.flags, call.done>>
<1>1. call \in Calls /\ call.depth \in Depths /\ PML4 # 0
  BY Standing
<1>2. call.depth \in Nat /\ call.depth + 1 \in Depths
  BY <1>1 DEF Depths
<1>3. /\ call' \in Calls /\ call'.depth = call.depth + 1 /\ call'.table = table
      /\ UNCHANGED <<call.what, call.where, call.size, call.flags, call.done>>
  BY <1>1, <1>2 DEF Calls
<1>4. Page' = Page /\ Refusal' = Refusal
  BY <1>3 DEF Page, Where, Refusal
<1>5. ~Idle'
  BY <1>3 DEF Idle
<1>6. /\ Open(mem', PML4', Page', call'.depth)
      /\ call'.table = Table(mem', PML4', Page', call'.depth)
  BY <1>3, <1>4
<1>7. Walking'
  BY <1>1, <1>3, <1>4, <1>5, <1>6 DEF VInv, Walking
<1> QED BY <1>3, <1>7

\* One entry is written.
Wrote(m, n, t, i, e) == n = [m EXCEPT ![t][i] = e]

LEMMA Written ==
  ASSUME NEW m \in Memories, NEW t \in Frames, NEW i \in Slots, NEW e \in PageEntry,
         NEW n, Wrote(m, n, t, i, e)
  PROVE  /\ n \in Memories /\ n[t][i] = e
         /\ \A u \in Frames : u # t => n[u] = m[u]
         /\ \A s \in Slots : s # i => n[t][s] = m[t][s]
<1>1. m[t] \in [Slots -> PageEntry] /\ t \in DOMAIN m /\ DOMAIN m[t] = Slots
  BY DEF Memories
<1>2. PICK row : row = [m[t] EXCEPT ![i] = e]
  OBVIOUS
<1>3. row \in [Slots -> PageEntry] /\ row[i] = e /\ \A s \in Slots : s # i => row[s] = m[t][s]
  BY <1>1, <1>2
<1>4. [m EXCEPT ![t][i] = e] = [m EXCEPT ![t] = row]
  BY <1>2
<1>5. n = [m EXCEPT ![t] = row]
  BY <1>4 DEF Wrote
<1>6. n \in Memories /\ n[t] = row /\ \A u \in Frames : u # t => n[u] = m[u]
  BY <1>1, <1>3, <1>5 DEF Memories
<1> QED BY <1>3, <1>6, Zenon

\* Linked, for any memory.
Hung(m, n, t, i, page) ==
  n = [[f \in Frames |-> IF f = page THEN ZeroTable ELSE m[f]] EXCEPT ![t][i] = Directory(page)]

\* What it writes.
LEMMA HungIs ==
  ASSUME NEW m \in Memories, NEW n, NEW t \in Frames, NEW i \in Slots, NEW page \in Frames,
         page # t, Hung(m, n, t, i, page)
  PROVE  /\ n \in Memories
         /\ n[t][i] = Directory(page) /\ n[page] = ZeroTable
         /\ \A u \in Frames : u # t /\ u # page => n[u] = m[u]
         /\ \A s \in Slots : s # i => n[t][s] = m[t][s]
<1>1. ZeroTable \in [Slots -> PageEntry] /\ Directory(page) \in PageEntry
  BY DEF ZeroTable, Clear, PageEntry, Directory, Frames
<1>2. PICK z : z = [f \in Frames |-> IF f = page THEN ZeroTable ELSE m[f]]
  OBVIOUS
<1>3. z \in Memories /\ z[page] = ZeroTable /\ \A u \in Frames : u # page => z[u] = m[u]
  BY <1>1, <1>2 DEF Memories
<1>4. Wrote(z, n, t, i, Directory(page))
  BY <1>2, Zenon DEF Hung, Wrote
<1>5. /\ n \in Memories /\ n[t][i] = Directory(page)
      /\ \A u \in Frames : u # t => n[u] = z[u]
      /\ \A s \in Slots : s # i => n[t][s] = z[t][s]
  <2>1. /\ n \in Memories /\ n[t][i] = Directory(page)
        /\ \A u \in Frames : u # t => n[u] = z[u]
        /\ \A s \in Slots : s # i => n[t][s] = z[t][s]
    BY <1>1, <1>3, <1>4, Written
  <2> QED BY <2>1
<1> QED BY <1>3, <1>5

\* The tree after it.
LEMMA TreeHung ==
  ASSUME NEW m \in Memories, NEW n, NEW root, NEW H \in SUBSET Frames,
         Tree(m, root, H), Granting(m, root),
         NEW d \in 0 .. 2, NEW t \in Level(m, root, d), NEW i \in Slots, ~m[t][i].p,
         NEW page \in Frames, page \notin H, Hung(m, n, t, i, page)
  PROVE  /\ n \in Memories /\ Tree(n, root, H \cup {page}) /\ Granting(n, root)
         /\ \A v \in Nat : Carried(m, n, root, d, t, i, page, v)
<1>1. t \in H /\ t \in Frames /\ page # t /\ page \in Nat \ H
  <2>1. d \in Depths
    BY DEF Depths
  <2>2. t \in H
    BY <2>1 DEF Tree
  <2> QED BY <2>2 DEF Frames
<1>2. /\ n \in Memories
      /\ n[t][i] = Directory(page) /\ n[page] = ZeroTable
      /\ \A u \in Frames : u # t /\ u # page => n[u] = m[u]
      /\ \A s \in Slots : s # i => n[t][s] = m[t][s]
  BY <1>1, HungIs
<1>3. Hangs(m, n, H, t, i, page)
  BY <1>2 DEF Hangs, Leads, Directory, ZeroTable, Clear
<1>4. n[t][i].rw /\ ~n[t][i].xd /\ ~n[t][i].us
  BY <1>2 DEF Directory
<1>5. Tree(n, root, H \cup {page})
  BY <1>1, <1>3, TreeGrows
<1>6. Granting(n, root)
  BY <1>1, <1>3, <1>4, GrantingGrown
<1>7. ASSUME NEW v \in Nat
      PROVE  Carried(m, n, root, d, t, i, page, v)
  BY <1>1, <1>3, <1>7, SeenGrown
<1> QED BY <1>2, <1>5, <1>6, <1>7

\* vmm_ensure_present hangs a table of its own where there was none.
LEMMA GrowStep ==
  ASSUME VInv, ~Idle, call.depth < 3, NEW page \in Frames, page \notin Singles,
         ~mem[call.table][Index(Where, call.depth)].p,
         Hung(mem, mem', call.table, Index(Where, call.depth), page)
  PROVE  /\ mem' \in Memories
         /\ Tree(mem', PML4, Singles \cup {page}) /\ Granting(mem', PML4)
         /\ \A v \in VirtualPages : Agree(mem, mem', PML4, v)
         /\ Open(mem', PML4, Page, call.depth + 1)
         /\ Table(mem', PML4, Page, call.depth + 1) = page
<1> DEFINE d == call.depth
           t == call.table
           i == Index(Where, call.depth)
<1>1. /\ mem \in Memories /\ Tree(mem, PML4, Singles) /\ Granting(mem, PML4)
      /\ Singles \in SUBSET Frames /\ Page \in Nat
      /\ d \in 0 .. 2 /\ t \in Level(mem, PML4, d) /\ i \in Slots /\ ~mem[t][i].p
      /\ Open(mem, PML4, Page, d) /\ Table(mem, PML4, Page, d) = t /\ Digit(Page, d) = i
  BY Standing DEF Depths
<1>2. Hung(mem, mem', t, i, page)
  OBVIOUS
<1> HIDE DEF d, t, i
<1>3. /\ mem' \in Memories /\ Tree(mem', PML4, Singles \cup {page}) /\ Granting(mem', PML4)
      /\ \A v \in Nat : Carried(mem, mem', PML4, d, t, i, page, v)
  BY <1>1, <1>2, TreeHung
<1>4. Open(mem', PML4, Page, d + 1) /\ Table(mem', PML4, Page, d + 1) = page
  BY <1>1, <1>3 DEF Carried
<1>5. \A v \in VirtualPages : Agree(mem, mem', PML4, v)
  BY <1>3 DEF Carried, VirtualPages
<1> QED BY <1>3, <1>4, <1>5 DEF d

\* vmm_ensure_present: follow the entry, hang a table below it, or fail.
LEMMA EnsureStep ==
  ASSUME VInv, vmm_ensure_present
  PROVE  VInv' /\ Unseen
<1> DEFINE i == Index(Where, call.depth)
           entry == mem[call.table][i]
           page == Least(FreeRuns(1))
           Down(table) == [call EXCEPT !.depth = @ + 1, !.table = table]
<1>1. /\ Running /\ ~Idle /\ call.depth < 3
      /\ UNCHANGED <<num_pages, PML4, cr3, pat_msr>>
      /\ \/ entry.p /\ call' = Down(entry.addr) /\ UNCHANGED <<pmmVars, mem>>
         \/ /\ ~entry.p
            /\ pmm_alloc_pages(1, PAGE_SIZE)
            /\ \/ panic' # "none" /\ UNCHANGED <<mem, call>>
               \/ /\ panic' = "none"
                  /\ mem' = Linked(call.table, i, page)
                  /\ call' = Down(page)
  BY DEF vmm_ensure_present
<1>2. Refusal = "none"
  <2>1. call.depth \in Nat
    BY <1>1, Standing DEF Depths
  <2> QED BY <1>1, <2>1 DEF vmm_ensure_present, VInv, Walking
<1>3. CASE entry.p /\ call' = Down(entry.addr) /\ UNCHANGED <<pmmVars, mem>>
  <2>1. UNCHANGED <<layout, stage, panic, num_pages, bitmap, bitmap_phy, held, mem>>
    BY <1>3 DEF pmmVars
  <2>2. Books' /\ Singles' = Singles
    BY <2>1, BooksStand DEF VInv
  <2>3. PICK d \in 0 .. 2 : d = call.depth
    BY <1>1, Standing DEF Depths
  <2>4. entry = Read(mem, PML4, Page, d)
    BY <1>1, <2>3, Standing DEF Read
  <2>5. Open(mem, PML4, Page, d + 1) /\ Table(mem, PML4, Page, d + 1) = entry.addr
    BY <1>1, <1>3, <2>3, <2>4, Standing, WalkOn
  <2>6. entry.addr \in Frames
    <3>1. Table(mem, PML4, Page, d + 1) \in Singles
      <4>1. d + 1 \in Depths
        BY DEF Depths
      <4> QED BY <1>1, <2>5, <4>1, Standing, WalkInTree
    <3> QED BY <1>1, <2>5, <3>1, Standing
  <2> HIDE DEF entry
  <2>7. /\ call' \in Calls /\ Walking'
        /\ UNCHANGED <<call.what, call.where, call.size, call.flags, call.done>>
    <3>1. /\ Open(mem', PML4, Page, call.depth + 1)
          /\ Table(mem', PML4, Page, call.depth + 1) = entry.addr
      BY <2>1, <2>3, <2>5
    <3> QED BY <1>1, <1>2, <1>3, <2>1, <2>6, <3>1, OneDown
  <2>8. Unseen
    BY <1>1, <2>1 DEF Unseen, Agree
  <2>9. Typing'
    BY <1>1, <2>1, <2>7 DEF VInv, Typing
  <2>10. Planted'
    BY <1>1, <2>1, <2>2 DEF VInv, Planted
  <2>11. KernelGetsWhatWasAsked'
    BY <2>7, <2>8, AskedStays
  <2> QED BY <2>2, <2>7, <2>8, <2>9, <2>10, <2>11 DEF VInv
<1>4. CASE ~entry.p /\ pmm_alloc_pages(1, PAGE_SIZE)
  <2>1. stage # "boot"
    BY <1>1, Standing
  <2> HIDE DEF page
  <2>2. /\ Books' /\ panic' \in Panics /\ UNCHANGED <<layout, stage>>
        /\ panic' # "none" => Singles' = Singles
        /\ panic' = "none" => page \in Frames /\ page \notin Singles
                              /\ Singles' = Singles \cup {page}
    BY <1>1, <1>4, <2>1, NewTable DEF VInv, page
  <2>3. CASE panic' # "none"
    <3>1. UNCHANGED vmmVars
      BY <1>1, <1>3, <1>4, <2>3 DEF vmmVars
    <3>2. VInv'
      BY <2>2, <2>3, <3>1, TablesStand, Untouched
    <3>3. Unseen
      BY <3>1 DEF vmmVars, Unseen, Agree
    <3> QED BY <3>2, <3>3
  <2>4. CASE panic' = "none"
    <3>1. mem' = Linked(call.table, i, page) /\ call' = Down(page)
      BY <1>1, <1>4, <2>4
    <3>2. Hung(mem, mem', call.table, i, page)
      BY <3>1, Zenon DEF Hung, Linked, memzero
    <3>3. /\ mem' \in Memories
          /\ Tree(mem', PML4, Singles \cup {page}) /\ Granting(mem', PML4)
          /\ \A v \in VirtualPages : Agree(mem, mem', PML4, v)
          /\ Open(mem', PML4, Page, call.depth + 1)
          /\ Table(mem', PML4, Page, call.depth + 1) = page
      BY <1>1, <1>4, <2>2, <2>4, <3>2, GrowStep
    <3>4. Planted'
      BY <1>1, <2>2, <2>4, <3>3 DEF Planted
    <3>5. /\ call' \in Calls /\ Walking'
          /\ UNCHANGED <<call.what, call.where, call.size, call.flags, call.done>>
      BY <1>1, <1>2, <2>2, <2>4, <3>1, <3>3, OneDown
    <3>6. Typing'
      BY <1>1, <2>2, <3>3, <3>5 DEF VInv, Typing
    <3>7. Unseen
      BY <1>1, <3>3 DEF Unseen
    <3>8. KernelGetsWhatWasAsked'
      BY <3>5, <3>7, AskedStays
    <3> QED BY <2>2, <3>4, <3>5, <3>6, <3>7, <3>8 DEF VInv
  <2> QED BY <2>3, <2>4
<1> QED BY <1>1, <1>3, <1>4
\* Of two multiples of the page size the larger is at least a page larger, and
\* multiples are apart by whole pages.
LEMMA NextPage ==
  ASSUME NEW a \in Nat, NEW b \in Nat, Aligned(a), Aligned(b)
  PROVE  /\ Aligned(a + PAGE_SIZE) /\ Aligned(a + b)
         /\ a < b => a + PAGE_SIZE <= b
         /\ a \div PAGE_SIZE = b \div PAGE_SIZE => a = b
<1>1. PICK S \in Nat \ {0} : S = PAGE_SIZE
  BY PmmAssumption
<1>2. PICK p \in Nat, q \in Nat : p = a \div S /\ q = b \div S /\ a = p * S /\ b = q * S
  <2>1. a % S = 0 /\ b % S = 0
    BY <1>1 DEF Aligned
  <2>2. /\ a \div S \in Nat /\ a = (a \div S) * S + (a % S)
        /\ b \div S \in Nat /\ b = (b \div S) * S + (b % S)
    BY DivMod
  <2>3. (a \div S) * S \in Nat /\ (b \div S) * S \in Nat
    BY <2>2
  <2>4. a = (a \div S) * S /\ b = (b \div S) * S
    BY <2>1, <2>2, <2>3
  <2> QED BY <2>2, <2>4
<1>3. (p + 1) * S = p * S + S /\ (p + q) * S = p * S + q * S
  OBVIOUS
<1>4. ((p + 1) * S) % S = 0 /\ ((p + q) * S) % S = 0
  BY Multiple
<1>5. a < b => p + 1 <= q
  <2>1. \A k, l, m \in Nat : l <= k => l * m <= k * m
    OBVIOUS
  <2>2. q <= p => q * S <= p * S
    BY <2>1
  <2> QED BY <1>2, <2>2
<1>6. p + 1 <= q => (p + 1) * S <= q * S
  OBVIOUS
<1>7. Aligned(a + PAGE_SIZE) /\ Aligned(a + b)
  BY <1>1, <1>2, <1>3, <1>4 DEF Aligned
<1>8. a < b => a + PAGE_SIZE <= b
  BY <1>1, <1>2, <1>3, <1>5, <1>6
<1> QED BY <1>1, <1>2, <1>7, <1>8

\* The entries of flags that the checks let through.
LEMMA LeafIs ==
  ASSUME NEW what \in Nat, NEW flags \in SUBSET MemoryFlags,
         ~({"M_W", "M_X"} \subseteq flags), ~(CacheFlags \subseteq flags)
  PROVE  /\ Leaf(what, flags) \in PageEntry
         /\ Leaf(what, flags).p /\ Leaf(what, flags).addr = what \div PAGE_SIZE
         /\ Leaf(what, flags).rw <=> "M_W" \in flags
         /\ ~Leaf(what, flags).xd <=> "M_X" \in flags
         /\ PatLayout[Leaf(what, flags).pat] =
              IF "M_CACHE_UC" \in flags THEN "UC-"
              ELSE IF "M_CACHE_WC" \in flags THEN "WC" ELSE "WB"
<1> DEFINE leaf == Leaf(what, flags)
<1>1. /\ PatIndex(flags) \in 0 .. 7 => leaf \in PageEntry
      /\ leaf.p /\ leaf.addr = what \div PAGE_SIZE /\ leaf.pat = PatIndex(flags)
      /\ leaf.rw <=> "M_W" \in flags
      /\ ~leaf.xd <=> "M_X" \in flags
  <2>1. what \div PAGE_SIZE \in Nat
    BY DivMod, PmmAssumption
  <2>2. leaf = [p |-> TRUE, rw |-> "M_W" \in flags, us |-> "M_U" \in flags,
                xd |-> "M_X" \notin flags, pat |-> PatIndex(flags), addr |-> what \div PAGE_SIZE]
    BY DEF Leaf
  <2> HIDE DEF leaf
  <2>3. PatIndex(flags) \in 0 .. 7 => leaf \in PageEntry
    BY <2>1, <2>2 DEF PageEntry
  <2>4. leaf.p /\ leaf.addr = what \div PAGE_SIZE /\ leaf.pat = PatIndex(flags)
    BY <2>2
  <2>5. leaf.rw <=> "M_W" \in flags
    BY <2>2
  <2>6. ~leaf.xd <=> "M_X" \in flags
    BY <2>2
  <2> QED BY <2>3, <2>4, <2>5, <2>6
<1> HIDE DEF leaf
<1>0. PatLayout[0] = "WB" /\ PatLayout[2] = "UC-" /\ PatLayout[5] = "WC"
  BY DEF PatLayout
<1>2. CASE "M_CACHE_UC" \in flags
  <2>1. flags \cap CacheFlags = {"M_CACHE_UC"}
    BY <1>2 DEF CacheFlags
  <2>2. PatIndex(flags) = 2
    BY <2>1 DEF PatIndex
  <2> QED BY <1>0, <1>1, <1>2, <2>2 DEF leaf
<1>3. CASE "M_CACHE_UC" \notin flags /\ "M_CACHE_WC" \in flags
  <2>1. flags \cap CacheFlags = {"M_CACHE_WC"}
    BY <1>3 DEF CacheFlags
  <2>2. PatIndex(flags) = 5
    BY <2>1 DEF PatIndex
  <2> QED BY <1>0, <1>1, <1>3, <2>2 DEF leaf
<1>4. CASE "M_CACHE_UC" \notin flags /\ "M_CACHE_WC" \notin flags
  <2>1. flags \cap CacheFlags = {}
    BY <1>4 DEF CacheFlags
  <2>2. PatIndex(flags) = 0
    BY <2>1 DEF PatIndex
  <2> QED BY <1>0, <1>1, <1>4, <2>2 DEF leaf
<1> QED BY <1>2, <1>3, <1>4

\* The tables after a leaf is written at the end of the walk to a page.
LEMMA TreeLeaf ==
  ASSUME NEW m \in Memories, NEW n, NEW root, NEW H \in SUBSET Frames,
         Tree(m, root, H), Granting(m, root),
         NEW w \in VirtualPages, Open(m, root, w, 3), NEW e \in PageEntry, e.p,
         Wrote(m, n, Table(m, root, w, 3), Digit(w, 3), e)
  PROVE  /\ n \in Memories /\ Tree(n, root, H) /\ Granting(n, root)
         /\ Translates(n, root, w) /\ Read(n, root, w, 3) = e
         /\ \A k \in 0 .. 2 : /\ Read(n, root, w, k).rw /\ ~Read(n, root, w, k).xd
                              /\ ~Read(n, root, w, k).us
         /\ \A v \in VirtualPages \ {w} : Agree(m, n, root, v)
<1>1. PICK t, i : t = Table(m, root, w, 3) /\ i = Digit(w, 3)
  OBVIOUS
<1>2. w \in Nat /\ 3 \in Depths
  BY DEF VirtualPages, Depths
<1>3. t \in Level(m, root, 3) /\ t \in H /\ t \in Frames /\ i \in Slots
  BY <1>1, <1>2, WalkInTree, DigitType
<1>4. Wrote(m, n, t, i, e)
  BY <1>1
<1>5. /\ n \in Memories /\ n[t][i] = e
      /\ \A u \in Frames : u # t => n[u] = m[u]
      /\ \A s \in Slots : s # i => n[t][s] = m[t][s]
  BY <1>3, <1>4, Written
<1>6. \A k \in 0 .. 2 : \A u \in Level(m, root, k) : n[u] = m[u]
  <2>1. \A k \in 0 .. 2 : k \in Depths /\ k # 3
    BY DEF Depths
  <2>2. \A k \in 0 .. 2 : t \notin Level(m, root, k)
    BY <1>2, <1>3, <2>1, LevelsApart
  <2> QED BY <1>5, <2>1, <2>2 DEF Tree
<1>7. Tree(n, root, H) /\ Granting(n, root)
  BY <1>6, TreeKept, GrantingKept
<1>8. /\ \A u \in H : u # t => n[u] = m[u]
      /\ n[t][i].p
  BY <1>5
<1>9. /\ Translates(n, root, w) /\ Read(n, root, w, 3) = n[t][i]
      /\ \A k \in 0 .. 2 : Read(n, root, w, k) = Read(m, root, w, k)
                           /\ Open(m, root, w, k) /\ Read(m, root, w, k).p
      /\ \A v \in VirtualPages \ {w} : Agree(m, n, root, v)
  BY <1>1, <1>5, <1>8, SeenLeaf
<1>10. \A k \in 0 .. 2 : /\ Read(n, root, w, k).rw /\ ~Read(n, root, w, k).xd
                          /\ ~Read(n, root, w, k).us
  BY <1>2, <1>9, WalkGrants
<1> QED BY <1>5, <1>7, <1>9, <1>10
\* Equivalent formulas have one truth value.
LEMMA SameTruth ==
  ASSUME NEW a \in BOOLEAN, NEW b \in BOOLEAN, a <=> b
  PROVE  a = b
OBVIOUS

\* vmm_map_page has written its leaf: the page shows what the call asked for there,
\* no other page shows anything new, and vmm_map turns to the next.
LEMMA LeafStep ==
  ASSUME VInv, vmm_set_leaf
  PROVE  /\ VInv' /\ PML4 # 0 /\ UNCHANGED <<PML4, pat_msr>>
         /\ Page \in VirtualPages /\ Page # 0
         /\ Shows(mem', pat_msr, PML4, Page, AskedFor(call, call.done))
         /\ ~({"M_W", "M_X"} \subseteq call.flags)
         /\ \A v \in VirtualPages \ {Page} : Agree(mem, mem', PML4, v)
<1> DEFINE e == Leaf(What, call.flags)
           next == [call EXCEPT !.done = @ + PAGE_SIZE, !.depth = 0, !.table = PML4]
<1>1. /\ Running /\ ~Idle /\ call.depth = 3
      /\ Wrote(mem, mem', call.table, Index(Where, 3), e)
      /\ call' = next
      /\ UNCHANGED <<layout, stage, panic, num_pages, bitmap, bitmap_phy, held>>
      /\ UNCHANGED <<PML4, cr3, pat_msr>>
  BY DEF vmm_set_leaf, Wrote, pmmVars
<1>2. /\ PML4 # 0 /\ mem \in Memories /\ Tree(mem, PML4, Singles) /\ Granting(mem, PML4)
      /\ Singles \in SUBSET Frames /\ pat_msr = PatLayout /\ stage # "boot"
      /\ call \in Calls /\ call.done < call.size /\ Where \in Nat /\ What \in Nat
      /\ Page \in VirtualPages
      /\ Open(mem, PML4, Page, call.depth)
      /\ call.table = Table(mem, PML4, Page, call.depth)
      /\ Index(Where, call.depth) = Digit(Page, call.depth)
  BY <1>1, Standing
<1>3. /\ Aligned(call.what) /\ Aligned(call.where) /\ Aligned(call.size) /\ Aligned(call.done)
      /\ InSpace(call.where, call.size) /\ Refusal = "none"
      /\ call.what \in Nat /\ call.where \in Nat /\ call.size \in Nat /\ call.done \in Nat
      /\ call.flags \in SUBSET MemoryFlags
  BY <1>1, <1>2 DEF VInv, Walking, Calls
<1>4. /\ Where # 0 /\ ~({"M_W", "M_X"} \subseteq call.flags) /\ ~(CacheFlags \subseteq call.flags)
  BY <1>3 DEF Refusal
<1>5. /\ e \in PageEntry /\ e.p /\ e.addr = What \div PAGE_SIZE
      /\ e.rw <=> "M_W" \in call.flags
      /\ ~e.xd <=> "M_X" \in call.flags
      /\ PatLayout[e.pat] = AskedFor(call, call.done).cache
  <2>1. /\ e \in PageEntry /\ e.p /\ e.addr = What \div PAGE_SIZE
        /\ e.rw <=> "M_W" \in call.flags
        /\ ~e.xd <=> "M_X" \in call.flags
        /\ PatLayout[e.pat] = IF "M_CACHE_UC" \in call.flags THEN "UC-"
                              ELSE IF "M_CACHE_WC" \in call.flags THEN "WC" ELSE "WB"
    BY <1>2, <1>3, <1>4, LeafIs
  <2> HIDE DEF e
  <2> QED BY <2>1 DEF AskedFor
<1> HIDE DEF e
<1>6. Open(mem, PML4, Page, 3)
  BY <1>1, <1>2
<1>7. Wrote(mem, mem', Table(mem, PML4, Page, 3), Digit(Page, 3), e)
  BY <1>1, <1>2
<1>8. /\ mem' \in Memories /\ Tree(mem', PML4, Singles) /\ Granting(mem', PML4)
      /\ Translates(mem', PML4, Page) /\ Read(mem', PML4, Page, 3) = e
      /\ \A k \in 0 .. 2 : /\ Read(mem', PML4, Page, k).rw /\ ~Read(mem', PML4, Page, k).xd
                           /\ ~Read(mem', PML4, Page, k).us
      /\ \A v \in VirtualPages \ {Page} : Agree(mem, mem', PML4, v)
  BY <1>2, <1>5, <1>6, <1>7, TreeLeaf
<1>9. Shows(mem', pat_msr, PML4, Page, AskedFor(call, call.done))
  <2>1. \A k : k \in Depths <=> k \in 0 .. 2 \/ k = 3
    BY DEF Depths
  <2>2. /\ (\A k \in Depths : Read(mem', PML4, Page, k).rw) <=> "M_W" \in call.flags
        /\ (\A k \in Depths : ~Read(mem', PML4, Page, k).xd) <=> "M_X" \in call.flags
    BY <1>5, <1>8, <2>1
  <2>6. (\A k \in Depths : Read(mem', PML4, Page, k).us) = FALSE
    <3>1. 0 \in Depths /\ ~Read(mem', PML4, Page, 0).us
      BY <1>8 DEF Depths
    <3> QED BY <3>1
  <2>3. Read(mem', PML4, Page, 3).addr = (call.what + call.done) \div PAGE_SIZE
    BY <1>5, <1>8 DEF What
  <2>4. pat_msr[Read(mem', PML4, Page, 3).pat] = AskedFor(call, call.done).cache
    BY <1>2, <1>5, <1>8
  <2>5. View(mem', pat_msr, PML4, Page) = AskedFor(call, call.done)
    <3>1. View(mem', pat_msr, PML4, Page) =
            [frame |-> (call.what + call.done) \div PAGE_SIZE,
             w |-> "M_W" \in call.flags, x |-> "M_X" \in call.flags, u |-> FALSE,
             cache |-> AskedFor(call, call.done).cache]
      <4>1. /\ (\A k \in Depths : Read(mem', PML4, Page, k).rw) = ("M_W" \in call.flags)
            /\ (\A k \in Depths : ~Read(mem', PML4, Page, k).xd) = ("M_X" \in call.flags)
        <5>1. /\ (\A k \in Depths : Read(mem', PML4, Page, k).rw) \in BOOLEAN
              /\ (\A k \in Depths : ~Read(mem', PML4, Page, k).xd) \in BOOLEAN
              /\ ("M_W" \in call.flags) \in BOOLEAN /\ ("M_X" \in call.flags) \in BOOLEAN
          OBVIOUS
        <5> QED BY <2>2, <5>1, SameTruth
      <4> QED BY <2>3, <2>4, <2>6, <4>1, Zenon DEF View
    <3> QED BY <3>1 DEF AskedFor
  <2> QED BY <1>8, <2>5 DEF Shows
<1>10. Books' /\ Singles' = Singles
  BY <1>1, BooksStand DEF VInv
<1>11. Planted'
  BY <1>1, <1>8, <1>10 DEF Planted
<1>12. /\ call' \in Calls /\ call'.done = call.done + PAGE_SIZE /\ call'.depth = 0
       /\ call'.table = PML4
       /\ UNCHANGED <<call.what, call.where, call.size, call.flags>>
  <2>1. PML4 \in Frames /\ PAGE_SIZE \in Nat
    BY PmmAssumption DEF VInv, Typing
  <2>2. 0 \in Depths
    BY DEF Depths
  <2>3. call' = next /\ call \in Calls /\ call.done + PAGE_SIZE \in Nat
    BY <1>1, <1>2, <1>3, <2>1
  <2>4. next \in Calls
    BY <2>1, <2>2, <2>3 DEF Calls
  <2>5. /\ next.done = call.done + PAGE_SIZE /\ next.depth = 0 /\ next.table = PML4
        /\ next.what = call.what /\ next.where = call.where /\ next.size = call.size
        /\ next.flags = call.flags
    BY <2>3 DEF Calls
  <2> HIDE DEF next
  <2> QED BY <2>3, <2>4, <2>5
<1>13. Typing'
  BY <1>1, <1>8, <1>12 DEF VInv, Typing
<1>14. Aligned(call.done + PAGE_SIZE) /\ call.done + PAGE_SIZE <= call.size
  BY <1>2, <1>3, NextPage
<1>15. Walking'
  <2>1. Open(mem', PML4, Page', 0) /\ Table(mem', PML4, Page', 0) = PML4
    BY WalkOn
  <2>2. /\ Open(mem', PML4', Page', call'.depth)
        /\ call'.table = Table(mem', PML4', Page', call'.depth)
    BY <1>1, <1>12, <2>1
  <2> QED BY <1>1, <1>2, <1>3, <1>12, <1>14, <2>2 DEF Walking
<1>16. Page # 0
  <2>1. Aligned(call.where + call.done)
    BY <1>3, NextPage
  <2>2. Aligned(0) /\ 0 \div PAGE_SIZE = 0
    BY PmmAssumption DEF Aligned
  <2>3. Where \div PAGE_SIZE = 0 \div PAGE_SIZE => Where = 0
    BY <1>2, <2>1, <2>2, NextPage DEF Where
  <2> QED BY <1>4, <2>2, <2>3 DEF Page
<1>17. KernelGetsWhatWasAsked'
  <2>1. (KernelGetsWhatWasAsked <=> SeesWhatWasAsked)'
    BY AskedIs, PTL
  <2>2. AsAsked(mem, pat_msr, PML4, call)
    BY <1>2, AskedIs DEF VInv, SeesWhatWasAsked
  <2>3. \A k : AskedFor(call', k) = AskedFor(call, k)
    BY <1>12 DEF AskedFor
  <2>4. ASSUME NEW k \in Come(call')
        PROVE  Shows(mem', pat_msr, PML4, (call.where + k) \div PAGE_SIZE, AskedFor(call, k))
    <3>1. k \in Nat /\ k < call.size /\ k < call.done + PAGE_SIZE /\ Aligned(k)
      BY <1>3, <1>12, <2>4 DEF Come
    <3>2. CASE k = call.done
      BY <1>9, <3>2 DEF Page, Where
    <3>3. CASE k # call.done
      <4>1. k < call.done
        BY <1>3, <3>1, <3>3, NextPage, PmmAssumption
      <4>2. k \in Come(call)
        BY <1>3, <3>1, <4>1 DEF Come
      <4>3. Shows(mem, pat_msr, PML4, (call.where + k) \div PAGE_SIZE, AskedFor(call, k))
        BY <2>2, <4>2 DEF AsAsked
      <4>4. (call.where + k) \div PAGE_SIZE \in VirtualPages
        BY <1>3, <3>1, PageInSpace
      <4>5. (call.where + k) \div PAGE_SIZE # Page
        <5>1. Aligned(call.where + k) /\ Aligned(call.where + call.done)
          BY <1>3, <3>1, NextPage
        <5>2. call.where + k # call.where + call.done
          BY <1>3, <3>1, <3>3
        <5>3. call.where + k \in Nat /\ call.where + call.done \in Nat
          BY <1>3, <3>1
        <5>4. (call.where + k) \div PAGE_SIZE = (call.where + call.done) \div PAGE_SIZE
                => call.where + k = call.where + call.done
          BY <5>1, <5>3, NextPage
        <5> QED BY <5>2, <5>4 DEF Page, Where
      <4>6. PICK page \in VirtualPages \ {Page} : page = (call.where + k) \div PAGE_SIZE
        BY <4>4, <4>5
      <4>7. Agree(mem, mem', PML4, page)
        BY <1>8, <4>6
      <4>8. Shows(mem, pat_msr, PML4, page, AskedFor(call, k))
        BY <4>3, <4>6
      <4>9. Shows(mem', pat_msr, PML4, page, AskedFor(call, k))
        BY <4>7, <4>8, ViewKept
      <4> QED BY <4>6, <4>9
    <3> QED BY <3>2, <3>3
  <2>5. AsAsked(mem', pat_msr', PML4', call')
    BY <1>1, <1>12, <2>3, <2>4 DEF AsAsked
  <2> QED BY <2>1, <2>5 DEF SeesWhatWasAsked
<1> QED BY <1>1, <1>2, <1>4, <1>8, <1>9, <1>10, <1>11, <1>13, <1>15, <1>16, <1>17 DEF VInv

-----------------------------------------------------------------------------
(* The theorems.                                                           *)

\* At boot there are no tables.
LEMMA VmmStarts ==
  ASSUME VmmInit
  PROVE  VInv
<1>1. IInv
  BY DEF VmmInit, Init, IInv, TypeOK, NothingHeldAtBoot, Sized, HeldExclusively, Conserved,
     BitmapInsideUsable
<1>2. Books /\ panic \in Panics
  BY <1>1 DEF Books, IInv, TypeOK, Panics
<1>3. PML4 = 0 /\ cr3 = 0 /\ pat_msr = PatReset /\ call = NoCall
  BY DEF VmmInit
<1>4. 0 \in Frames /\ 0 \in Depths /\ Aligned(0)
  BY VmmAssumption, PmmAssumption DEF Frames, Depths, Aligned
<1>5. mem \in Memories
  <2>1. PICK content \in Contents : mem = [f \in Frames |-> [i \in Slots |-> content]]
    BY DEF VmmInit
  <2>2. content \in PageEntry
    BY VmmAssumption
  <2> QED BY <2>1, <2>2 DEF Memories
<1>6. Typing
  BY <1>2, <1>3, <1>4, <1>5 DEF Typing, Calls, NoCall
<1>7. Walking
  <2>1. InSpace(0, 0)
    BY VmmAssumption, PmmAssumption DEF InSpace
  <2> QED BY <1>3, <1>4, <2>1 DEF Walking, NoCall, Idle
<1>8. Planted /\ KernelGetsWhatWasAsked
  BY <1>3 DEF Planted, KernelGetsWhatWasAsked
<1> QED BY <1>2, <1>6, <1>7, <1>8 DEF VInv
\* Every operation, of the manager or of its callers, keeps the invariant.
LEMMA VmmStep ==
  ASSUME VInv, [VmmNext]_allVars
  PROVE  VInv'
<1>1. CASE pmm_init /\ UNCHANGED vmmVars
  BY <1>1, PmmInitStep
<1>2. CASE vmm_init
  BY <1>2, VmmInitStep
<1>3. CASE load_cr3
  BY <1>3, LoadStep
<1>4. ASSUME NEW r \in MapRequests, vmm_map(r.what, r.where, r.size, r.flags)
      PROVE  VInv'
  <2>1. /\ r.what \in Nat /\ r.where \in Nat /\ r.size \in Nat /\ r.flags \in SUBSET MemoryFlags
        /\ InSpace(r.where, r.size)
    BY RequestAssumption
  <2> QED BY <1>4, <2>1, MapStep
<1>5. ASSUME NEW r \in UnalignedRequests, vmm_map_unaligned(r.what, r.where, r.size, r.flags)
      PROVE  VInv'
  BY <1>5, MapUnalignedStep
<1>6. CASE refuse_page
  BY <1>6, RefuseStep
<1>7. CASE vmm_ensure_present
  BY <1>7, EnsureStep
<1>8. CASE vmm_set_leaf
  BY <1>8, LeafStep
<1>9. ASSUME NEW size \in KallocSizes, NEW content \in Contents, allocate(size, content)
      PROVE  VInv'
  BY <1>9, AllocateStep
<1>10. ASSUME NEW block \in held \ TableBlocks, release(block)
       PROVE  VInv'
  BY <1>10, ReleaseStep
<1>11. CASE pmm_reclaim /\ UNCHANGED vmmVars
  BY <1>11, PmmReclaimStep
<1>12. CASE UNCHANGED allVars
  <2>1. UNCHANGED vmmVars
        /\ UNCHANGED <<layout, stage, panic, num_pages, bitmap, bitmap_phy, held>>
    BY <1>12 DEF allVars, pmmVars
  <2>2. Books' /\ Singles' = Singles /\ panic' \in Panics
    BY <2>1, BooksStand DEF VInv, Typing
  <2> QED BY <2>1, <2>2, TablesStand, Untouched
<1> QED
  BY <1>1, <1>2, <1>3, <1>4, <1>5, <1>6, <1>7, <1>8, <1>9, <1>10, <1>11, <1>12
  DEF VmmNext

\* VInv holds at boot and every operation keeps it.
THEOREM VmmInductive == VmmSpec => []VInv
BY VmmStarts, VmmStep, PTL DEF VmmSpec

\* The walk in progress and the tables never leave the memory there is.
THEOREM VmmTyped == VmmSpec => []VmmTypeOK
BY VmmInductive, TypingSuffices, PTL

\* The tables are a tree, in memory that nobody else can be granted.
THEOREM TreeAlways == VmmSpec => []TablesFormTree
BY VmmInductive, TreeFormed, PTL

\* vmm_map does what it was asked, whatever was mapped there before.
THEOREM MappedAsAsked == VmmSpec => []KernelGetsWhatWasAsked
<1>1. VInv => KernelGetsWhatWasAsked
  BY DEF VInv
<1> QED BY <1>1, VmmInductive, PTL

\* The physical memory manager keeps its promises under the virtual one, whose
\* panics and tables it did not know of.
THEOREM BooksKept == VmmSpec => [](HeldExclusively /\ Conserved /\ BitmapInsideUsable)
<1>1. VInv => HeldExclusively /\ Conserved /\ BitmapInsideUsable
  BY DEF VInv, Books
<1> QED BY <1>1, VmmInductive, PTL

-----------------------------------------------------------------------------
(* The address space.                                                      *)

\* The map of the abstract specification.
SeenMap == [v \in MappedPages |-> Translation(PML4, v * PAGE_SIZE)]

MapIsView ==
  /\ MappedPages = IF PML4 = 0 THEN {} ELSE {v \in VirtualPages : Translates(mem, PML4, v)}
  /\ \A v \in VirtualPages : Translation(PML4, v * PAGE_SIZE) = View(mem, pat_msr, PML4, v)

\* It is what the processor sees.
LEMMA MapIs == MapIsView
<1>1. ASSUME NEW v \in VirtualPages
      PROVE  /\ Mapped(PML4, v * PAGE_SIZE) <=> Translates(mem, PML4, v)
             /\ Translation(PML4, v * PAGE_SIZE) = View(mem, pat_msr, PML4, v)
  <2>1. v \in Nat /\ PAGE_SIZE \in Nat \ {0}
    BY <1>1, PmmAssumption DEF VirtualPages
  <2>2. (v * PAGE_SIZE) \div PAGE_SIZE = v
    BY <2>1, Multiple
  <2>3. PICK where : where = v * PAGE_SIZE /\ where \div PAGE_SIZE = v
    BY <2>2
  <2>4. /\ Mapped(PML4, where) <=> Translates(mem, PML4, where \div PAGE_SIZE)
        /\ Translation(PML4, where) = View(mem, pat_msr, PML4, where \div PAGE_SIZE)
    BY SeenIs DEF View
  <2> QED BY <2>3, <2>4, Zenon
<1> QED BY <1>1, Zenon DEF MapIsView, MappedPages

\* A step that shows nothing new leaves the map alone.
LEMMA MapStays ==
  ASSUME Unseen
  PROVE  SeenMap' = SeenMap
<1>1. MapIsView /\ MapIsView'
  BY MapIs, PTL
<1>2. UNCHANGED <<PML4, pat_msr>> /\ (PML4 # 0 => \A v \in VirtualPages : Agree(mem, mem', PML4, v))
  BY DEF Unseen
<1>3. CASE PML4 = 0
  BY <1>1, <1>2, <1>3 DEF MapIsView, SeenMap
<1>4. CASE PML4 # 0
  <2>1. ASSUME NEW v \in VirtualPages
        PROVE  /\ Translates(mem', PML4, v) <=> Translates(mem, PML4, v)
               /\ Translates(mem, PML4, v) =>
                    View(mem', pat_msr, PML4, v) = View(mem, pat_msr, PML4, v)
    <3>1. Agree(mem, mem', PML4, v)
      BY <1>2, <1>4, <2>1
    <3>2. Shows(mem', pat_msr, PML4, v, View(mem, pat_msr, PML4, v))
            <=> Shows(mem, pat_msr, PML4, v, View(mem, pat_msr, PML4, v))
      BY <3>1, ViewKept
    <3> QED BY <3>1, <3>2 DEF Shows, Agree
  <2>2. MappedPages' = MappedPages
    BY <1>1, <1>2, <1>4, <2>1 DEF MapIsView
  <2>3. \A v \in MappedPages : v \in VirtualPages /\ Translates(mem, PML4, v)
    BY <1>1, <1>4 DEF MapIsView
  <2>4. \A v \in MappedPages :
          Translation(PML4, v * PAGE_SIZE)' = Translation(PML4, v * PAGE_SIZE)
    BY <1>1, <1>2, <2>1, <2>3 DEF MapIsView
  <2> QED BY <2>2, <2>4 DEF SeenMap
<1> QED BY <1>3, <1>4

\* A leaf is a step of the abstract address space.
LEMMA MapGrows ==
  ASSUME VInv, vmm_set_leaf
  PROVE  AS!Map(Page) /\ Page \in VirtualPages
<1>1. MapIsView /\ MapIsView'
  BY MapIs, PTL
<1>2. /\ PML4 # 0 /\ UNCHANGED <<PML4, pat_msr>>
      /\ Page \in VirtualPages /\ Page # 0
      /\ Shows(mem', pat_msr, PML4, Page, AskedFor(call, call.done))
      /\ ~({"M_W", "M_X"} \subseteq call.flags)
      /\ \A v \in VirtualPages \ {Page} : Agree(mem, mem', PML4, v)
  BY LeafStep
<1>3. ASSUME NEW v \in VirtualPages \ {Page}
      PROVE  /\ Translates(mem', PML4, v) <=> Translates(mem, PML4, v)
             /\ Translates(mem, PML4, v) =>
                  View(mem', pat_msr, PML4, v) = View(mem, pat_msr, PML4, v)
  <2>1. Agree(mem, mem', PML4, v)
    BY <1>2, <1>3
  <2>2. Shows(mem', pat_msr, PML4, v, View(mem, pat_msr, PML4, v))
          <=> Shows(mem, pat_msr, PML4, v, View(mem, pat_msr, PML4, v))
    BY <2>1, ViewKept
  <2> QED BY <2>1, <2>2 DEF Shows, Agree
<1>4. MappedPages' = MappedPages \cup {Page}
  BY <1>1, <1>2, <1>3 DEF MapIsView, Shows
<1>5. DOMAIN SeenMap = MappedPages /\ DOMAIN SeenMap' = MappedPages'
  BY DEF SeenMap
<1>6. \A v \in MappedPages' : SeenMap'[v] = View(mem', pat_msr, PML4, v)
  BY <1>1, <1>2 DEF SeenMap, MapIsView
<1>7. \A v \in MappedPages : v \in VirtualPages /\ Translates(mem, PML4, v)
                             /\ SeenMap[v] = View(mem, pat_msr, PML4, v)
  BY <1>1, <1>2 DEF SeenMap, MapIsView
<1>8. \A v \in MappedPages \ {Page} : SeenMap'[v] = SeenMap[v]
  BY <1>3, <1>4, <1>6, <1>7
<1>9. SeenMap'[Page] = AskedFor(call, call.done)
  BY <1>2, <1>4, <1>6 DEF Shows
<1>10. /\ AskedFor(call, call.done) \in
            [frame : Nat, w : BOOLEAN, x : BOOLEAN, u : BOOLEAN, cache : CachingTypes]
       /\ ~(AskedFor(call, call.done).w /\ AskedFor(call, call.done).x)
  <2>1. call.what + call.done \in Nat
    BY DEF VInv, Typing, Calls
  <2>2. (call.what + call.done) \div PAGE_SIZE \in Nat
    BY <2>1, DivMod, PmmAssumption
  <2>3. PICK frame \in Nat : frame = (call.what + call.done) \div PAGE_SIZE
    BY <2>2
  <2>4. PICK cache \in CachingTypes :
          cache = IF "M_CACHE_UC" \in call.flags THEN "UC-"
                  ELSE IF "M_CACHE_WC" \in call.flags THEN "WC" ELSE "WB"
    BY DEF CachingTypes
  <2>5. AskedFor(call, call.done) =
          [frame |-> frame, w |-> "M_W" \in call.flags, x |-> "M_X" \in call.flags,
           u |-> FALSE, cache |-> cache]
    BY <2>3, <2>4, Zenon DEF AskedFor
  <2> HIDE DEF AskedFor
  <2>6. ("M_W" \in call.flags) \in BOOLEAN /\ ("M_X" \in call.flags) \in BOOLEAN
    OBVIOUS
  <2>7. PICK w \in BOOLEAN, x \in BOOLEAN :
          w = ("M_W" \in call.flags) /\ x = ("M_X" \in call.flags)
    BY <2>6
  <2>8. AskedFor(call, call.done) =
          [frame |-> frame, w |-> w, x |-> x, u |-> FALSE, cache |-> cache]
    BY <2>5, <2>7, Zenon
  <2>9. ~(w /\ x)
    BY <1>2, <2>7
  <2>10. [frame |-> frame, w |-> w, x |-> x, u |-> FALSE, cache |-> cache] \in
            [frame : Nat, w : BOOLEAN, x : BOOLEAN, u : BOOLEAN, cache : CachingTypes]
    BY <2>3, <2>4, <2>7
  <2> QED BY <2>8, <2>9, <2>10
<1> QED BY <1>2, <1>4, <1>5, <1>8, <1>9, <1>10 DEF AS!Map, SeenMap

\* The virtual memory manager implements the address space: what the processor sees
\* changes at one page when a leaf is written, and at no other step.
THEOREM AddressSpaceKept == VmmSpec => ImplementsAddressSpace
<1>1. VmmInit => AS!Init
  <2> SUFFICES ASSUME VmmInit PROVE SeenMap = [v \in {} |-> v]
    BY DEF AS!Init, SeenMap
  <2>1. MappedPages = {}
    BY DEF VmmInit, MappedPages
  <2> QED BY <2>1 DEF SeenMap
<1>2. VInv /\ [VmmNext]_allVars => [AS!Next]_SeenMap
  <2> SUFFICES ASSUME VInv, [VmmNext]_allVars, ~vmm_set_leaf PROVE SeenMap' = SeenMap
    <3>1. vmm_set_leaf /\ VInv => AS!Next
      BY MapGrows DEF AS!Next
    <3> QED BY <3>1
  <2>0. ASSUME UNCHANGED vmmVars PROVE Unseen
    BY <2>0 DEF vmmVars, Unseen, Agree
  <2>1. CASE vmm_init
    <3>1. PML4 = 0 /\ (PML4' # 0 => \A v \in VirtualPages : ~Translates(mem', PML4', v))
      BY <2>1, VmmInitStep
    <3>2. MapIsView /\ MapIsView'
      BY MapIs, PTL
    <3>3. MappedPages = {} /\ MappedPages' = {}
      BY <3>1, <3>2 DEF MapIsView
    <3> QED BY <3>3 DEF SeenMap
  <2>2. CASE ~vmm_init
    <3>1. Unseen
      <4>1. CASE load_cr3
        BY <4>1, LoadStep
      <4>2. ASSUME NEW r \in MapRequests, vmm_map(r.what, r.where, r.size, r.flags)
            PROVE  Unseen
        <5>1. /\ r.what \in Nat /\ r.where \in Nat /\ r.size \in Nat
              /\ r.flags \in SUBSET MemoryFlags /\ InSpace(r.where, r.size)
          BY <4>2, RequestAssumption
        <5> QED BY <4>2, <5>1, MapStep
      <4>3. ASSUME NEW r \in UnalignedRequests,
                   vmm_map_unaligned(r.what, r.where, r.size, r.flags)
            PROVE  Unseen
        BY <4>3, MapUnalignedStep
      <4>4. CASE vmm_ensure_present
        BY <4>4, EnsureStep
      <4>5. ASSUME NEW size \in KallocSizes, NEW content \in Contents, allocate(size, content)
            PROVE  Unseen
        BY <4>5, AllocateStep
      <4>6. CASE UNCHANGED vmmVars
        BY <2>0, <4>6
      <4>7. /\ refuse_page => UNCHANGED vmmVars
            /\ UNCHANGED allVars => UNCHANGED vmmVars
            /\ \A block : release(block) => UNCHANGED vmmVars
        BY DEF refuse_page, allVars, release
      <4> QED BY <2>2, <4>1, <4>2, <4>3, <4>4, <4>5, <4>6, <4>7 DEF VmmNext
    <3> QED BY <3>1, MapStays
  <2> QED BY <2>1, <2>2
<1> QED BY <1>1, <1>2, VmmInductive, PTL DEF VmmSpec, ImplementsAddressSpace, AS!Spec, SeenMap
=============================================================================
