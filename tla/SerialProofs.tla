---------------------------- MODULE SerialProofs ----------------------------
(***************************************************************************)
(* Proofs about the serial console and the interrupts it is driven by: for *)
(* every depth of the FIFOs from two on, every trigger level, and any      *)
(* number of bytes, whatever arrives and interrupts whom.                  *)
(***************************************************************************)
EXTENDS Serial, TLAPS, SequenceTheorems

-----------------------------------------------------------------------------
(* Scripts: what is left of a frame's steps is the end of what its function *)
(* does from the beginning.                                                *)

Steps ==
  {"serial_early_init", "kprint", "enable_interrupts", "serial_init", "int3", "halt",
   "panic", "lapic_eoi", "serial_handle_interrupt", "ps2_handle_port1_interrupt",
   "ps2_handle_port2_interrupt"}

Script(who) == IF who = "main" THEN main ELSE interrupt_handler(who)

Rest(s, k) == SubSeq(s, k, Len(s))

Frames ==
  [who : {"main"} \cup Vectors, left : Seq(Steps), saved_if : BOOLEAN,
   out : 0 .. TextBytes + 3, polled : BOOLEAN]

\* Main never comes to an end, nor does the handler of a non-maskable interrupt,
\* which panics.
OnScript(f) ==
  \/ \E k \in 1 .. Len(Script(f.who)) : f.left = Rest(Script(f.who), k)
  \/ f.left = <<>> /\ f.who \notin {"main", "NMI"}
  \/ f.left = <<"halt">> /\ f.who = "NMI"

\* What is left of a script after its first k - 1 steps starts with the k-th.
LEMMA RestOf ==
  ASSUME NEW s \in Seq(Steps), NEW k \in 1 .. Len(s)
  PROVE  /\ Len(Rest(s, k)) = Len(s) + 1 - k
         /\ Rest(s, k) # <<>>
         /\ Head(Rest(s, k)) = s[k]
         /\ k < Len(s) => Tail(Rest(s, k)) = Rest(s, k + 1)
         /\ k = Len(s) => Tail(Rest(s, k)) = <<>>
<1>1. Len(s) \in Nat /\ \A i \in 1 .. Len(s) : s[i] \in Steps
  BY LenProperties, ElementOfSeq
<1>2. Head(Rest(s, k)) = s[k] /\ Tail(Rest(s, k)) = SubSeq(s, k + 1, Len(s))
  BY <1>1, HeadTailOfSubSeq DEF Rest
<1>3. Rest(s, k) \in Seq(Steps) /\ Len(Rest(s, k)) = Len(s) + 1 - k
  <2>1. \A i \in k .. Len(s) : s[i] \in Steps
    BY <1>1
  <2> QED BY <1>1, <2>1, SubSeqProperties DEF Rest
<1>4. Rest(s, k) # <<>>
  BY <1>1, <1>3, EmptySeq
<1>5. k = Len(s) => SubSeq(s, k + 1, Len(s)) = <<>>
  BY <1>1, SubSeqEmpty
<1> QED BY <1>1, <1>2, <1>3, <1>4, <1>5 DEF Rest

\* Main sets up the port first, and only once.
LEMMA MainScript ==
  Len(main) = 8 /\ \A k \in 1 .. 8 : main[k] = "serial_early_init" => k = 1
<1> SUFFICES ASSUME NEW k \in 2 .. 8 PROVE main[k] # "serial_early_init"
  BY DEF main
<1> k \in {2, 3, 4, 5, 6, 7, 8}
  OBVIOUS
<1> QED BY DEF main

\* What main does first and last, and what interrupt_handler does for each vector.
LEMMA Scripts ==
  /\ Len(main) = 8 /\ main[1] = "serial_early_init" /\ main[2] = "kprint"
  /\ main[3] = "enable_interrupts" /\ main[4] = "serial_init" /\ main[5] = "kprint"
  /\ main[6] = "int3" /\ main[7] = "kprint" /\ main[8] = "halt"
  /\ \A v \in IsaVectors :
       /\ Len(interrupt_handler(v)) = 2 /\ interrupt_handler(v)[2] = "lapic_eoi"
       /\ interrupt_handler(v)[1] \in
            {"serial_handle_interrupt", "ps2_handle_port1_interrupt", "ps2_handle_port2_interrupt"}
       /\ interrupt_handler(v)[1] = "serial_handle_interrupt" => v = "COM1"
  /\ \A v \in {"BP", "SPURIOUS"} :
       Len(interrupt_handler(v)) = 1 /\ interrupt_handler(v)[1] = "kprint"
  /\ Len(interrupt_handler("NMI")) = 2 /\ interrupt_handler("NMI")[1] = "kprint"
  /\ interrupt_handler("NMI")[2] = "panic"
BY DEF main, interrupt_handler, IsaVectors, Number

\* Every script is made of the steps the functions have.
LEMMA ScriptType ==
  ASSUME NEW who \in {"main"} \cup Vectors
  PROVE  Script(who) \in Seq(Steps)
<1> USE DEF Steps
<1>1. main \in Seq(Steps)
  BY DEF main
<1>2. interrupt_handler("KB") \in Seq(Steps)
  BY DEF interrupt_handler
<1>3. interrupt_handler("COM1") \in Seq(Steps)
  BY DEF interrupt_handler
<1>4. interrupt_handler("MOUSE") \in Seq(Steps)
  BY DEF interrupt_handler
<1>5. interrupt_handler("BP") \in Seq(Steps)
  BY DEF interrupt_handler
<1>6. interrupt_handler("SPURIOUS") \in Seq(Steps)
  BY DEF interrupt_handler
<1>7. interrupt_handler("NMI") \in Seq(Steps)
  BY DEF interrupt_handler
<1> QED
  BY <1>1, <1>2, <1>3, <1>4, <1>5, <1>6, <1>7 DEF Script, Vectors, IsaVectors, Number

\* What a step and the start of a kprint change in a frame.
LEMMA DoneIs ==
  ASSUME NEW f \in Frames
  PROVE  /\ Done(f).who = f.who /\ Done(f).left = Tail(f.left) /\ Done(f).out = f.out
         /\ Done(f).polled = f.polled
BY DEF Done, Frames

\* The start of a kprint leaves a frame's place in its function alone.
LEMMA KprintIs ==
  ASSUME NEW f \in Frames, NEW count \in 0 .. TextBytes + 3
  PROVE  /\ kprint(f, count) \in Frames /\ kprint(f, count).who = f.who
         /\ kprint(f, count).left = f.left /\ kprint(f, count).polled = f.polled
BY DEF kprint, Frames

\* The next step h of a frame, with t the steps after it: who takes it, and what
\* taking it leaves.
Taken(f, h, t) ==
  /\ h = "serial_early_init" => f.who = "main" /\ f.left = main
  /\ f.left = main => h = "serial_early_init"
  /\ h \in {"enable_interrupts", "serial_init", "int3"} => f.who = "main"
  /\ h = "kprint" => f.who \notin IsaVectors
  /\ h = "serial_handle_interrupt" => f.who = "COM1" /\ t # <<>>
  /\ h = "lapic_eoi" => f.who \in IsaVectors /\ t = <<>>
  /\ f.who \in IsaVectors /\ t = <<>> => h = "lapic_eoi"
  /\ h = "panic" => f.who = "NMI"
  /\ t # main /\ (t # <<>> => Head(t) # "serial_handle_interrupt")
  /\ h \notin {"panic", "halt"} => OnScript(Done(f)) /\ Done(f) \in Frames

\* Whoever is on its script takes its next step where the script has it.
LEMMA StepOf ==
  ASSUME NEW f \in Frames, OnScript(f), f.left # <<>>
  PROVE  Taken(f, Head(f.left), Tail(f.left))
<1>0. PICK h, t : h = Head(f.left) /\ t = Tail(f.left)
  OBVIOUS
<1> DEFINE s == Script(f.who)
<1>1. s \in Seq(Steps) /\ Len(s) \in Nat /\ f.who \in {"main"} \cup Vectors
  BY ScriptType, LenProperties DEF Frames
<1>13. PICK n \in Nat : n = Len(s)
  BY <1>1
<1>2. (f.who = "main" => s = main) /\ (f.who \in Vectors => s = interrupt_handler(f.who))
  BY DEF Script, Vectors, IsaVectors, Number
<1>3. /\ f.left \in Seq(Steps) /\ t \in Seq(Steps)
      /\ Done(f) = [f EXCEPT !.left = t]
  BY <1>0, HeadTailProperties DEF Frames, Done
<1>4. Done(f) \in Frames /\ Done(f).left = t /\ Done(f).who = f.who
  BY <1>3 DEF Frames
<1>7. \A k \in 1 .. n :
        /\ Len(Rest(s, k)) = n + 1 - k
        /\ Rest(s, k) # <<>>
        /\ Head(Rest(s, k)) = s[k]
        /\ k < n => Tail(Rest(s, k)) = Rest(s, k + 1)
        /\ k = n => Tail(Rest(s, k)) = <<>>
  BY <1>1, <1>13, RestOf
<1>8. OnScript(Done(f)) <=>
        \/ \E k \in 1 .. n : t = Rest(s, k)
        \/ t = <<>> /\ f.who \notin {"main", "NMI"}
        \/ t = <<"halt">> /\ f.who = "NMI"
  BY <1>4, <1>13 DEF OnScript
<1>9. OnScript(f) <=>
        \/ \E k \in 1 .. n : f.left = Rest(s, k)
        \/ f.left = <<>> /\ f.who \notin {"main", "NMI"}
        \/ f.left = <<"halt">> /\ f.who = "NMI"
  BY <1>13 DEF OnScript
<1>10. f.who \in IsaVectors \/ f.who \in {"BP", "SPURIOUS"} \/ f.who = "NMI" \/ f.who = "main"
  BY <1>1 DEF Vectors
<1>11. /\ "main" \notin IsaVectors /\ "NMI" \notin IsaVectors
       /\ "BP" \notin IsaVectors /\ "SPURIOUS" \notin IsaVectors
       /\ IsaVectors \subseteq Vectors /\ {"BP", "SPURIOUS", "NMI"} \subseteq Vectors
  BY DEF Vectors, IsaVectors, Number
<1>12. Len(<<>>) = 0 /\ Len(main) = 8
  BY Scripts
<1> HIDE DEF s
<1> USE DEF Taken
<1>5. ASSUME f.left = <<"halt">>, f.who = "NMI" PROVE Taken(f, h, t)
  <2>1. h = "halt" /\ t = <<>> /\ Len(f.left) = 1
    BY <1>0, <1>5
  <2>2. f.left # main /\ t # main
    BY <1>5, <2>1, Scripts
  <2> QED BY <1>11, <1>5, <2>1, <2>2
<1>6. ASSUME \E k \in 1 .. n : f.left = Rest(s, k)
      PROVE  Taken(f, h, t)
  <2>1. PICK k \in 1 .. n : f.left = Rest(s, k)
    BY <1>6
  <2>2. /\ Len(f.left) = n + 1 - k /\ h = s[k]
        /\ k < n => k + 1 \in 1 .. n /\ t = Rest(s, k + 1)
        /\ k = n => t = <<>>
    BY <1>13, <1>0, <1>1, <1>7, <2>1
  <2>3. /\ k < n => t # <<>> /\ Head(t) = s[k + 1]
        /\ Len(t) = n - k
    <3>1. CASE k < n
      BY <1>1, <1>7, <2>2, <3>1
    <3>2. CASE k = n
      BY <1>13, <1>1, <1>12, <2>2, <3>2
    <3> QED BY <1>1, <3>1, <3>2
  <2>4. k = n /\ f.who \in {"main", "NMI"} => h \in {"panic", "halt"}
    BY <1>2, <1>11, <1>13, <2>2, Scripts
  <2>5. h \notin {"panic", "halt"} => OnScript(Done(f))
    <3>1. CASE k < n
      BY <1>8, <2>2, <3>1
    <3>2. CASE k = n
      BY <1>8, <2>2, <2>4, <3>2
    <3> QED BY <1>1, <3>1, <3>2
  <2>6. CASE f.who = "main"
    <3>1. s = main /\ n = 8 /\ k \in 1 .. 8
      BY <1>2, <1>13, <2>6, Scripts
    <3>2. h = main[k] /\ Len(t) = 8 - k
      BY <2>2, <2>3, <3>1
    <3>3. h = "serial_early_init" => k = 1
      BY <3>1, <3>2, MainScript
    <3>4. k = 1 => f.left = main
      BY <1>1, <1>13, <2>1, <3>1, SubSeqFull DEF Rest
    <3>5. f.left = main => k = 1
      BY <1>13, <1>12, <2>2, <3>1
    <3>6. t # main
      <4>1. Len(t) # Len(main)
        BY <1>12, <3>1, <3>2
      <4> QED BY <4>1, Zenon
    <3>7. t # <<>> => Head(t) # "serial_handle_interrupt"
      BY <2>2, <2>3, <3>1, <3>2, Scripts
    <3>8. f.who \notin IsaVectors
      BY <2>6 DEF IsaVectors, Number
    <3>9. h \in {"serial_early_init", "kprint", "enable_interrupts",
                            "serial_init", "int3", "halt"}
      BY <3>2, Scripts
    <3> QED BY <1>4, <2>5, <2>6, <3>2, <3>3, <3>4, <3>5, <3>6, <3>7, <3>8, <3>9, Scripts
  <2>7. CASE f.who \in Vectors
    <3>1. s = interrupt_handler(f.who) /\ n \in 1 .. 2
      <4>1. s = interrupt_handler(f.who)
        BY <1>2, <2>7
      <4>2. f.who # "main"
        BY <2>7 DEF Vectors, IsaVectors, Number
      <4>3. Len(interrupt_handler(f.who)) \in 1 .. 2
        BY <1>10, <4>2, Scripts
      <4> QED BY <1>13, <4>1, <4>3
    <3>2. t # main /\ f.left # main
      <4>1. Len(f.left) = n + 1 - k /\ Len(t) = n - k
        BY <2>2, <2>3
      <4>2. n \in {1, 2} /\ k \in {1, 2}
        BY <3>1
      <4>3. Len(t) # 8 /\ Len(f.left) # 8
        BY <4>1, <4>2
      <4> QED BY <1>12, <4>3, Zenon
    <3>3. CASE f.who \in IsaVectors
      <4>1. n = 2 /\ s[2] = "lapic_eoi" /\ k \in 1 .. 2
        BY <1>13, <3>1, <3>3, Scripts
      <4>2. CASE k = 1
        BY <1>4, <2>2, <2>3, <2>5, <3>1, <3>2, <3>3, <4>1, <4>2, Scripts
      <4>3. CASE k = 2
        BY <1>4, <2>2, <2>3, <2>5, <3>1, <3>2, <3>3, <4>1, <4>3, Scripts
      <4> QED BY <4>1, <4>2, <4>3
    <3>4. CASE f.who \in {"BP", "SPURIOUS"}
      <4>1. n = 1 /\ h = "kprint" /\ k = 1
        BY <1>13, <2>2, <3>1, <3>4, Scripts
      <4>2. f.who \notin IsaVectors
        BY <3>4 DEF IsaVectors, Number
      <4> QED BY <1>4, <2>2, <2>5, <3>2, <4>1, <4>2
    <3>5. CASE f.who = "NMI"
      <4>1. n = 2 /\ k \in 1 .. 2 /\ s[1] = "kprint" /\ s[2] = "panic"
        BY <1>13, <3>1, <3>5, Scripts
      <4>2. f.who \notin IsaVectors
        BY <3>5 DEF IsaVectors, Number
      <4>3. CASE k = 1
        BY <1>4, <2>2, <2>3, <2>5, <3>2, <4>1, <4>2, <4>3
      <4>4. CASE k = 2
        BY <2>2, <3>2, <3>5, <4>1, <4>2, <4>4
      <4> QED BY <4>1, <4>3, <4>4
    <3> QED BY <2>7, <3>3, <3>4, <3>5 DEF Vectors
  <2> QED BY <1>1, <2>6, <2>7
<1> QED BY <1>0, <1>5, <1>6, <1>9

-----------------------------------------------------------------------------
(* The invariant.                                                          *)

\* A stack the processor can have: main, at most one handler that was let in by
\* the interrupt flag, and on top of either at most one non-maskable interrupt,
\* from which nobody returns.  A frame that has seen the transmitter empty still
\* owes it a byte.
WellStacked(s) ==
  /\ s \in Seq(Frames) /\ Len(s) \in 1 .. 3
  /\ \A i \in 1 .. Len(s) :
       /\ s[i].who = "main" <=> i = 1
       /\ OnScript(s[i])
       /\ s[i].polled => s[i].out > 0
  /\ Len(s) = 3 => s[3].who = "NMI" /\ s[2].who # "NMI"

\* The interrupts whose handlers have not sent their EOI.
Unended(s) ==
  {v \in IsaVectors : \E i \in 1 .. Len(s) : s[i].who = v /\ s[i].left # <<>>}

\* A handler of the serial port is about to read.
Reads(f) == f.left # <<>> /\ Head(f.left) = "serial_handle_interrupt"

Reading(s) == \E i \in 1 .. Len(s) : Reads(s[i])

NoNmi(s) == \A i \in 1 .. Len(s) : s[i].who # "NMI"

Owed(s, i) == IF i <= Len(s) /\ s[i].polled THEN 1 ELSE 0

Types ==
  /\ iflag \in BOOLEAN /\ ier \in BOOLEAN /\ fifos \in BOOLEAN /\ timeout \in BOOLEAN
  /\ lost \in BOOLEAN /\ EARLY_INIT_COMPLETE \in BOOLEAN
  /\ unmasked \subseteq IsaVectors /\ irr \subseteq unmasked
  /\ rx \in Seq(Input) /\ Len(rx) <= FIFO
  /\ tx \in 0 .. FIFO

Stacked == WellStacked(frames) /\ (Len(frames) > 1 => ~iflag)

\* In service is what a handler on the stack has yet to end.
Served == isr = Unended(frames)

\* Main has set up the port exactly when it is past its first step; before that
\* nothing can interrupt it but a non-maskable interrupt.
SetUp ==
  /\ EARLY_INIT_COMPLETE => ier /\ fifos /\ frames[1].left # main
  /\ ~EARLY_INIT_COMPLETE =>
       /\ frames[1].left = main /\ frames[1].out = 0
       /\ ~iflag /\ ~ier /\ ~fifos /\ unmasked = {}
       /\ \A i \in 2 .. Len(frames) : frames[i].who = "NMI"

\* Bytes in the transmitter and bytes owed to it: one for main and one for a
\* handler, since each waits until the transmitter is empty.
Transmitting ==
  /\ ~lost
  /\ NoNmi(frames) => tx + Owed(frames, 1) + Owed(frames, 2) <= 2
  /\ Top.who = "NMI" /\ Top.polled => tx = 0

\* From its edge to the read that answers it an interrupt keeps its cause.
Receiving ==
  /\ timeout => rx # <<>>
  /\ Reading(frames) \/ "COM1" \in irr => Line
  /\ Reading(frames) => "COM1" \notin irr

IInv == Types /\ Stacked /\ Served /\ SetUp /\ Transmitting /\ Receiving

-----------------------------------------------------------------------------
(* What happens to the stack.                                              *)

\* The vectors are not main.
LEMMA VectorFacts ==
  /\ IsaVectors \subseteq Vectors /\ "main" \notin Vectors
  /\ {"BP", "SPURIOUS", "NMI"} \subseteq Vectors
  /\ {"BP", "SPURIOUS", "NMI"} \cap IsaVectors = {}
  /\ {"COM1", "KB", "MOUSE"} = IsaVectors
BY DEF Vectors, IsaVectors, Number

\* The frame of an interrupt just taken.
LEMMA Fresh ==
  ASSUME NEW v \in Vectors, iflag \in BOOLEAN
  PROVE  LET f == Frame(v, interrupt_handler(v))
         IN  /\ f \in Frames /\ OnScript(f) /\ f.left # <<>>
             /\ f.who = v /\ f.out = 0 /\ ~f.polled
             /\ Reads(f) => v = "COM1"
<1> DEFINE f == Frame(v, interrupt_handler(v))
<1>1. v # "main" /\ Script(v) = interrupt_handler(v) /\ Script(v) \in Seq(Steps)
  BY ScriptType, VectorFacts DEF Script
<1>2. f.who = v /\ f.left = interrupt_handler(v) /\ f.out = 0 /\ f.polled = FALSE /\ f.saved_if = iflag
  BY DEF Frame
<1>3. f \in Frames
  BY <1>1, SerialAssumption DEF Frame, Frames
<1>4. PICK n \in Nat : n = Len(interrupt_handler(v))
  BY <1>1, LenProperties
<1>5. n \in 1 .. 2
  <2>1. v \in IsaVectors \/ v \in {"BP", "SPURIOUS"} \/ v = "NMI"
    BY DEF Vectors
  <2>2. Len(interrupt_handler(v)) \in 1 .. 2
    BY <2>1, Scripts
  <2> QED BY <1>4, <2>2
<1>6. interrupt_handler(v) = Rest(Script(v), 1) /\ f.left # <<>>
  BY <1>1, <1>2, <1>4, <1>5, SubSeqFull, EmptySeq DEF Rest
<1>7. OnScript(f)
  BY <1>1, <1>2, <1>4, <1>5, <1>6 DEF OnScript
<1>8. Reads(f) => v = "COM1"
  <2>1. Taken(f, Head(f.left), Tail(f.left))
    BY <1>3, <1>6, <1>7, StepOf
  <2> QED BY <1>2, <2>1 DEF Reads, Taken
<1> QED BY <1>2, <1>3, <1>6, <1>7, <1>8

\* The running function goes on.
LEMMA Replaced ==
  ASSUME NEW s, WellStacked(s), NEW n, n = Len(s),
         NEW f \in Frames, f.who = s[n].who, OnScript(f), f.polled => f.out > 0,
         NEW t \in Seq(Frames), Len(t) = n, t[n] = f, \A i \in 1 .. n : i # n => t[i] = s[i]
  PROVE  WellStacked(t)
<1>1. s \in Seq(Frames) /\ n \in 1 .. 3
  BY DEF WellStacked
<1>2. \A i \in 1 .. n : /\ t[i].who = s[i].who /\ OnScript(t[i])
                        /\ t[i].polled => t[i].out > 0
  BY DEF WellStacked
<1> QED BY <1>1, <1>2 DEF WellStacked

\* A function is entered.
LEMMA Pushed ==
  ASSUME NEW s, WellStacked(s), NEW n, n = Len(s), NEW v \in Vectors,
         v # "NMI" => n = 1, v = "NMI" => NoNmi(s), iflag \in BOOLEAN
  PROVE  LET f == Frame(v, interrupt_handler(v))
             t == Append(s, f)
         IN  /\ WellStacked(t) /\ Len(t) = n + 1 /\ t[n + 1] = f
             /\ \A i \in 1 .. n : t[i] = s[i]
<1> DEFINE f == Frame(v, interrupt_handler(v))
<1> DEFINE t == Append(s, f)
<1>0. f \in Frames /\ OnScript(f) /\ f.who = v /\ ~f.polled
  BY Fresh
<1> HIDE DEF f
<1>1. s \in Seq(Frames) /\ n \in 1 .. 3
  BY DEF WellStacked
<1>2. /\ t \in Seq(Frames) /\ Len(t) = n + 1 /\ t[n + 1] = f
      /\ \A i \in 1 .. n : t[i] = s[i]
  BY <1>0, <1>1
<1> HIDE DEF t
<1>3. n < 3
  BY <1>1 DEF WellStacked, NoNmi
<1>4. \A i \in 1 .. n + 1 :
        /\ t[i].who = "main" <=> i = 1
        /\ OnScript(t[i]) /\ (t[i].polled => t[i].out > 0)
  BY <1>0, <1>1, <1>2, VectorFacts DEF WellStacked
<1>5. n + 1 = 3 => t[3].who = "NMI" /\ t[2].who # "NMI"
  BY <1>0, <1>1, <1>2 DEF NoNmi
<1> QED BY <1>1, <1>2, <1>3, <1>4, <1>5 DEF WellStacked, f, t

\* The running function returns.
LEMMA Popped ==
  ASSUME NEW s, WellStacked(s), NEW n, n = Len(s), n # 1
  PROVE  LET t == SubSeq(s, 1, n - 1)
         IN  /\ WellStacked(t) /\ Len(t) = n - 1
             /\ \A i \in 1 .. n - 1 : t[i] = s[i]
<1> DEFINE t == SubSeq(s, 1, n - 1)
<1>1. s \in Seq(Frames) /\ n \in 2 .. 3
  BY DEF WellStacked
<1>2. t \in Seq(Frames) /\ Len(t) = n - 1 /\ \A i \in 1 .. n - 1 : t[i] = s[i]
  BY <1>1
<1> HIDE DEF t
<1> QED BY <1>1, <1>2 DEF WellStacked

\* The running frame, in the terms the steps are stated in.
LEMMA TopIs ==
  ASSUME IInv
  PROVE  /\ Len(frames) \in 1 .. 3 /\ Top = frames[Len(frames)]
         /\ Top \in Frames /\ OnScript(Top) /\ (Top.polled => Top.out > 0)
         /\ Top.who = "main" <=> Len(frames) = 1
         /\ Top.who # "main" => Top.who \in Vectors
         /\ Top.left # <<>> => Taken(Top, Head(Top.left), Tail(Top.left))
<1>1. Len(frames) \in 1 .. 3 /\ frames \in Seq(Frames)
  BY DEF IInv, Stacked, WellStacked
<1>2. PICK n \in 1 .. 3 : n = Len(frames)
  BY <1>1
<1>3. Top = frames[n] /\ Top \in Frames
  BY <1>1, <1>2, ElementOfSeq DEF Top
<1>4. OnScript(Top) /\ (Top.polled => Top.out > 0) /\ (Top.who = "main" <=> n = 1)
  BY <1>2, <1>3 DEF IInv, Stacked, WellStacked
<1>5. Top.who # "main" => Top.who \in Vectors
  BY <1>3 DEF Frames
<1>6. Top.left # <<>> => Taken(Top, Head(Top.left), Tail(Top.left))
  BY <1>3, <1>4, StepOf
<1> QED BY <1>2, <1>3, <1>4, <1>5, <1>6

\* The running function goes on: what that means for the invariant.
LEMMA Goes ==
  ASSUME IInv, NEW f \in Frames, f.who = Top.who, OnScript(f), f.polled => f.out > 0,
         Continue(f)
  PROVE  /\ WellStacked(frames') /\ Len(frames') = Len(frames) /\ Top' = f
         /\ \A i \in 1 .. Len(frames) : i # Len(frames) => frames'[i] = frames[i]
         /\ (f.who \in IsaVectors => (f.left = <<>> <=> Top.left = <<>>)) =>
              Unended(frames') = Unended(frames)
         /\ (Reads(f) => Reads(Top)) /\ Reading(frames') => Reading(frames)
         /\ NoNmi(frames') <=> NoNmi(frames)
<1>1. PICK n \in 1 .. 3 : n = Len(frames)
  BY TopIs
<1>2. Top = frames[n] /\ WellStacked(frames)
  BY <1>1 DEF IInv, Stacked, Top
<1>3. frames' = [frames EXCEPT ![n] = f]
  BY <1>1 DEF Continue
<1>4. /\ WellStacked(frames') /\ Len(frames') = n /\ frames'[n] = f
      /\ \A i \in 1 .. n : i # n => frames'[i] = frames[i]
  <2>1. f.who = frames[n].who /\ frames \in Seq(Frames)
    BY <1>2 DEF WellStacked
  <2>2. /\ frames' \in Seq(Frames) /\ Len(frames') = n /\ frames'[n] = f
        /\ \A i \in 1 .. n : i # n => frames'[i] = frames[i]
    BY <1>1, <1>3, <2>1, ExceptSeq
  <2> QED BY <1>1, <1>2, <2>1, <2>2, Replaced
<1>5. Top' = f
  BY <1>4 DEF Top
<1>6. ASSUME f.who \in IsaVectors => (f.left = <<>> <=> Top.left = <<>>)
      PROVE  Unended(frames') = Unended(frames)
  <2>1. \A i \in 1 .. n : /\ frames'[i].who = frames[i].who
                          /\ frames[i].who \in IsaVectors =>
                               (frames'[i].left = <<>> <=> frames[i].left = <<>>)
    BY <1>2, <1>4, <1>6
  <2> QED BY <1>1, <1>4, <2>1 DEF Unended
<1>7. (Reads(f) => Reads(Top)) /\ Reading(frames') => Reading(frames)
  BY <1>1, <1>2, <1>4 DEF Reading
<1>8. NoNmi(frames') <=> NoNmi(frames)
  BY <1>1, <1>2, <1>4 DEF NoNmi
<1> QED BY <1>1, <1>4, <1>5, <1>6, <1>7, <1>8

\* The running function has taken its next step h and has become f.
Advanced(h, f) ==
  /\ Taken(Top, h, Tail(Top.left)) /\ Top.left # <<>>
  /\ WellStacked(frames') /\ Len(frames') = Len(frames) /\ Top' = f
  /\ \A i \in 1 .. Len(frames) : i # Len(frames) => frames'[i] = frames[i]
  /\ h # "lapic_eoi" => Unended(frames') = Unended(frames)
  /\ ~Reads(f) /\ (Reading(frames') => Reading(frames))
  /\ NoNmi(frames') <=> NoNmi(frames)
  /\ ~f.polled /\ \A i \in 1 .. 3 : Owed(frames', i) = Owed(frames, i)
  /\ EARLY_INIT_COMPLETE => frames'[1].left # main
  /\ ~EARLY_INIT_COMPLETE /\ h # "serial_early_init" =>
       /\ Len(frames) # 1 /\ frames'[1] = frames[1]
       /\ \A i \in 2 .. Len(frames') : frames'[i].who = "NMI"

\* The running function takes its next step: what that leaves for the invariant.
LEMMA Advances ==
  ASSUME IInv, NEW h, At(h), h \notin {"panic", "halt"},
         NEW f \in Frames, f.who = Top.who, f.left = Tail(Top.left), f.polled = Top.polled,
         Continue(f)
  PROVE  Advanced(h, f)
<1>1. /\ Top.out = 0 /\ Top.left # <<>> /\ h = Head(Top.left)
      /\ Top \in Frames /\ OnScript(Top) /\ (Top.polled => Top.out > 0)
  BY TopIs DEF At
<1>2. Taken(Top, h, Tail(Top.left)) /\ ~f.polled
  BY <1>1, TopIs
<1>3. OnScript(Done(Top)) /\ Done(Top).who = f.who /\ Done(Top).left = f.left
  BY <1>1, <1>2 DEF Taken, Done, Frames
<1>4. OnScript(f)
  BY <1>3 DEF OnScript
<1>5. ~Reads(f)
  BY <1>2 DEF Taken, Reads
<1>6. PICK n \in 1 .. 3 : n = Len(frames)
  BY TopIs
<1>7. frames[n] = Top /\ frames'[n] = f
  <2>1. f = Top'
    BY <1>2, <1>4, Goes
  <2>2. Len(frames') = n
    BY <1>2, <1>4, <1>6, Goes
  <2> QED BY <1>6, <2>1, <2>2 DEF Top
<1>8. /\ WellStacked(frames') /\ Len(frames') = Len(frames) /\ Top' = f
      /\ \A i \in 1 .. Len(frames) : i # Len(frames) => frames'[i] = frames[i]
      /\ Reading(frames') => Reading(frames)
      /\ NoNmi(frames') <=> NoNmi(frames)
  BY <1>2, <1>4, <1>5, Goes
<1>9. ASSUME h # "lapic_eoi" PROVE Unended(frames') = Unended(frames)
  <2>1. f.who \in IsaVectors => f.left # <<>>
    BY <1>2, <1>9 DEF Taken
  <2> QED BY <1>1, <1>2, <1>4, <2>1, Goes
<1>10. \A i \in 1 .. 3 : Owed(frames', i) = Owed(frames, i)
  BY <1>6, <1>7, <1>8 DEF Owed
<1>11. EARLY_INIT_COMPLETE => frames'[1].left # main
  <2>1. CASE n = 1
    BY <1>2, <1>7, <2>1 DEF Taken
  <2>2. CASE n # 1
    BY <1>6, <1>8, <2>2 DEF IInv, SetUp
  <2> QED BY <2>1, <2>2
<1>12. ASSUME ~EARLY_INIT_COMPLETE, h # "serial_early_init"
       PROVE  /\ n # 1 /\ frames'[1] = frames[1]
              /\ \A i \in 2 .. n : frames'[i].who = "NMI"
  <2>1. frames[1].left = main /\ \A i \in 2 .. n : frames[i].who = "NMI"
    BY <1>6, <1>12 DEF IInv, SetUp
  <2>2. n # 1
    BY <1>2, <1>7, <1>12, <2>1 DEF Taken
  <2>3. \A i \in 1 .. n : frames'[i].who = frames[i].who
    BY <1>6, <1>7, <1>8
  <2> QED BY <1>6, <1>8, <2>1, <2>2, <2>3
<1> QED BY <1>1, <1>2, <1>5, <1>6, <1>7, <1>8, <1>9, <1>10, <1>11, <1>12 DEF Advanced

-----------------------------------------------------------------------------
(* Every action keeps the invariant.                                       *)

\* A kprint owes nothing to the transmitter when it begins.
LEMMA PrintKeeps ==
  ASSUME IInv, print
  PROVE  IInv'
<1> DEFINE f == kprint(Done(Top), TextBytes)
<1>1. At("kprint") /\ Continue(f)
      /\ UNCHANGED <<iflag, apicVars, EARLY_INIT_COMPLETE, uartVars, arrived, spurious>>
  BY DEF print
<1>2. Top.left # <<>> /\ "kprint" = Head(Top.left)
  BY <1>1 DEF At
<1>3. f \in Frames /\ f.who = Top.who /\ f.left = Tail(Top.left) /\ f.polled = Top.polled
  <2>1. Done(Top) \in Frames /\ Top \in Frames
    BY <1>2, TopIs DEF Taken
  <2>2. f \in Frames /\ f.who = Done(Top).who /\ f.left = Done(Top).left
        /\ f.polled = Done(Top).polled
    BY <2>1, SerialAssumption, KprintIs
  <2> QED BY <2>1, <2>2, DoneIs
<1> HIDE DEF f
<1>4. Advanced("kprint", f)
  BY <1>1, <1>3, Advances
<1> USE DEF apicVars, uartVars
<1>5. Types'
  BY <1>1 DEF IInv, Types
<1>6. Stacked'
  BY <1>1, <1>4 DEF IInv, Advanced, Stacked
<1>7. Served'
  BY <1>1, <1>4 DEF IInv, Advanced, Served
<1>8. SetUp'
  BY <1>1, <1>4 DEF IInv, Advanced, SetUp
<1>9. Transmitting'
  BY <1>1, <1>4 DEF IInv, Advanced, Transmitting
<1>10. Receiving'
  BY <1>1, <1>4 DEF IInv, Advanced, Receiving, Line
<1> QED BY <1>5, <1>6, <1>7, <1>8, <1>9, <1>10 DEF IInv

\* A step that leaves its function as Done does.
LEMMA DoneAdvances ==
  ASSUME IInv, NEW h, At(h), h \notin {"panic", "halt"}, Continue(Done(Top))
  PROVE  Advanced(h, Done(Top))
<1>1. Top.left # <<>> /\ h = Head(Top.left)
  BY DEF At
<1>2. Top \in Frames /\ Done(Top) \in Frames
  BY <1>1, TopIs DEF Taken
<1> QED BY <1>2, DoneIs, Advances

\* serial_early_init runs while nothing can interrupt it, and leaves the port set up.
LEMMA EarlyInitKeeps ==
  ASSUME IInv, serial_early_init
  PROVE  IInv'
<1>1. Advanced("serial_early_init", Done(Top))
  BY DoneAdvances DEF serial_early_init
<1>2. Len(frames) = 1 /\ Top.who = "main" /\ Top.left = main /\ frames[1] = Top
  BY <1>1, TopIs DEF Advanced, Taken
<1>3. ~EARLY_INIT_COMPLETE
  BY <1>2 DEF IInv, SetUp
<1>4. unmasked = {} /\ irr = {}
  BY <1>3 DEF IInv, SetUp, Types
<1>5. ier' = TRUE /\ fifos' = TRUE /\ EARLY_INIT_COMPLETE' = TRUE /\ rx' = <<>>
      /\ tx' = 0 /\ timeout' = FALSE
      /\ UNCHANGED <<iflag, unmasked, isr, lost>>
  BY DEF serial_early_init
<1>6. irr' = irr
  BY <1>4 DEF serial_early_init, Signal, Edge
<1>7. ~Reading(frames) /\ NoNmi(frames)
  BY <1>1, <1>2 DEF Reading, NoNmi, Advanced, Reads, serial_early_init, At
<1>8. Types'
  <2>1. rx' \in Seq(Input) /\ Len(rx') <= FIFO /\ tx' \in 0 .. FIFO
    BY <1>5, SerialAssumption
  <2>2. irr' \subseteq unmasked' /\ unmasked' \subseteq IsaVectors
    BY <1>5, <1>6 DEF IInv, Types
  <2>3. /\ iflag' \in BOOLEAN /\ ier' \in BOOLEAN /\ fifos' \in BOOLEAN
        /\ timeout' \in BOOLEAN /\ lost' \in BOOLEAN /\ EARLY_INIT_COMPLETE' \in BOOLEAN
    BY <1>5 DEF IInv, Types
  <2> QED BY <2>1, <2>2, <2>3 DEF Types
<1>9. Stacked'
  BY <1>1, <1>2 DEF Advanced, Stacked
<1>10. Served'
  BY <1>1, <1>5 DEF IInv, Served, Advanced
<1>11. SetUp'
  <2>1. frames'[1] = Done(Top) /\ Done(Top).left # main
    BY <1>1, <1>2, TopIs, DoneIs DEF Advanced, Taken, Top
  <2> QED BY <1>5, <2>1 DEF SetUp
<1>12. Transmitting'
  BY <1>1, <1>5, <1>7 DEF IInv, Transmitting, Advanced, Types, Owed
<1>13. Receiving'
  BY <1>1, <1>4, <1>5, <1>6, <1>7 DEF Receiving, Advanced
<1> QED BY <1>8, <1>9, <1>10, <1>11, <1>12, <1>13 DEF IInv

\* serial_init finds the port set up, and unmasks an interrupt that is not pending.
LEMMA InitKeeps ==
  ASSUME IInv, serial_init
  PROVE  IInv'
<1>1. At("serial_init") /\ UNCHANGED <<iflag, irr, isr, EARLY_INIT_COMPLETE, uartVars>>
  BY DEF serial_init
<1>2. Top.who = "main" /\ Len(frames) = 1 /\ frames[1] = Top /\ Top.left # main
  BY <1>1, TopIs DEF At, Taken
<1>3. EARLY_INIT_COMPLETE
  BY <1>2 DEF IInv, SetUp
<1>4. Continue(Done(Top)) /\ unmasked' = unmasked \cup {"COM1"}
  BY <1>3 DEF serial_init, ioapic_enable_isa_interrupt
<1>5. Advanced("serial_init", Done(Top))
  BY <1>1, <1>4, DoneAdvances
<1> USE DEF uartVars
<1>6. Types'
  BY <1>1, <1>4, VectorFacts DEF IInv, Types
<1>7. Stacked'
  BY <1>2, <1>5 DEF Advanced, Stacked
<1>8. Served'
  BY <1>1, <1>5 DEF IInv, Served, Advanced
<1>9. SetUp'
  BY <1>1, <1>3, <1>5 DEF IInv, SetUp, Advanced
<1>10. Transmitting'
  BY <1>1, <1>5 DEF IInv, Transmitting, Advanced
<1>11. Receiving'
  BY <1>1, <1>5 DEF IInv, Receiving, Advanced, Line
<1> QED BY <1>6, <1>7, <1>8, <1>9, <1>10, <1>11 DEF IInv

\* Interrupts are enabled by main alone, after the port is set up.
LEMMA EnableKeeps ==
  ASSUME IInv, enable_interrupts, UNCHANGED <<Others, spurious>>
  PROVE  IInv'
<1>1. At("enable_interrupts") /\ iflag' = TRUE /\ Continue(Done(Top))
      /\ UNCHANGED <<apicVars, Others>>
  BY DEF enable_interrupts
<1>2. Advanced("enable_interrupts", Done(Top))
  BY <1>1, DoneAdvances
<1>3. Len(frames) = 1 /\ EARLY_INIT_COMPLETE
  BY <1>2, TopIs DEF Advanced, Taken, IInv, Types
<1> USE DEF apicVars, Others, uartVars
<1>4. Types'
  BY <1>1 DEF IInv, Types
<1>5. Stacked'
  BY <1>2, <1>3 DEF Advanced, Stacked
<1>6. Served'
  BY <1>1, <1>2 DEF IInv, Served, Advanced
<1>7. SetUp'
  BY <1>1, <1>2, <1>3 DEF IInv, SetUp, Advanced
<1>8. Transmitting'
  BY <1>1, <1>2 DEF IInv, Transmitting, Advanced
<1>9. Receiving'
  BY <1>1, <1>2 DEF IInv, Receiving, Advanced, Line
<1> QED BY <1>4, <1>5, <1>6, <1>7, <1>8, <1>9 DEF IInv

\* The handler that sends an EOI is the only one with an interrupt in service.
LEMMA EoiOf ==
  ASSUME IInv, At("lapic_eoi")
  PROVE  /\ Len(frames) = 2 /\ Top = frames[2] /\ Top.who \in IsaVectors
         /\ isr = {Top.who} /\ Tail(Top.left) = <<>>
<1>1. Top.who \in IsaVectors /\ Tail(Top.left) = <<>> /\ Top.left # <<>>
  BY TopIs DEF At, Taken
<1>2. PICK n \in 1 .. 3 : n = Len(frames) /\ Top = frames[n]
  BY TopIs
<1>3. n = 2
  BY <1>1, <1>2, VectorFacts DEF IInv, Stacked, WellStacked
<1>4. frames[1].who = "main"
  BY <1>2 DEF IInv, Stacked, WellStacked
<1>5. Unended(frames) = {Top.who}
  BY <1>1, <1>2, <1>3, <1>4, VectorFacts DEF Unended
<1> QED BY <1>1, <1>2, <1>3, <1>5 DEF IInv, Served

\* The highest of one vector, and of several.
LEMMA HighestIs ==
  /\ \A v \in IsaVectors : Highest({v}) = v
  /\ \A V \in SUBSET IsaVectors : V # {} => Highest(V) \in V
<1>1. ASSUME NEW V \in SUBSET IsaVectors, V # {} PROVE Highest(V) \in V
  <2>1. Number["KB"] = 49 /\ Number["COM1"] = 52 /\ Number["MOUSE"] = 60
    BY DEF Number
  <2>2. \E v \in V : \A w \in V : Number[w] <= Number[v]
    <3>1. CASE "MOUSE" \in V
      BY <2>1, <3>1, VectorFacts
    <3>2. CASE "MOUSE" \notin V /\ "COM1" \in V
      BY <2>1, <3>2, VectorFacts
    <3>3. CASE V = {"KB"}
      BY <2>1, <3>3
    <3> QED BY <1>1, <3>1, <3>2, <3>3, VectorFacts
  <2> QED BY <2>2 DEF Highest
<1>2. ASSUME NEW v \in IsaVectors PROVE Highest({v}) = v
  BY <1>1, <1>2
<1> QED BY <1>1, <1>2

\* An EOI ends the interrupt of the handler that sends it, and no other is in service.
LEMMA EoiEnds ==
  ASSUME IInv, lapic_eoi
  PROVE  isr = {Top.who} /\ isr' = {}
<1>1. At("lapic_eoi") /\ isr' = IF isr = {} THEN {} ELSE isr \ {Highest(isr)}
  BY DEF lapic_eoi
<1> QED BY <1>1, EoiOf, HighestIs

\* The EOI leaves nothing in service, and no handler that owes one.
LEMMA EoiKeeps ==
  ASSUME IInv, lapic_eoi, UNCHANGED <<Others, spurious>>
  PROVE  IInv'
<1>1. At("lapic_eoi") /\ Continue(Done(Top)) /\ UNCHANGED <<iflag, unmasked, irr, Others>>
  BY DEF lapic_eoi
<1>2. Advanced("lapic_eoi", Done(Top))
  BY <1>1, DoneAdvances
<1>3. /\ Len(frames) = 2 /\ Top = frames[2] /\ Top.who \in IsaVectors
      /\ isr = {Top.who} /\ Tail(Top.left) = <<>>
  BY <1>1, EoiOf
<1>4. isr' = {}
  BY EoiEnds
<1>5. Unended(frames') = {}
  <2>1. frames'[2] = Done(Top) /\ Len(frames') = 2 /\ frames'[1] = frames[1]
    BY <1>2, <1>3 DEF Advanced, Top
  <2>2. Done(Top).left = <<>>
    BY <1>3, TopIs, DoneIs
  <2>3. frames[1].who = "main"
    BY <1>3 DEF IInv, Stacked, WellStacked
  <2> QED BY <2>1, <2>2, <2>3, <1>2, VectorFacts DEF Unended, Advanced
<1> USE DEF Others, uartVars
<1>6. Types'
  BY <1>1 DEF IInv, Types
<1>7. Stacked'
  BY <1>1, <1>2 DEF IInv, Advanced, Stacked
<1>8. Served'
  BY <1>4, <1>5 DEF Served
<1>9. SetUp'
  BY <1>1, <1>2 DEF IInv, SetUp, Advanced
<1>10. Transmitting'
  BY <1>1, <1>2 DEF IInv, Transmitting, Advanced
<1>11. Receiving'
  BY <1>1, <1>2 DEF IInv, Receiving, Advanced, Line
<1> QED BY <1>3, <1>4, <1>6, <1>7, <1>8, <1>9, <1>10, <1>11 DEF IInv

\* panic leaves the non-maskable interrupt's handler halted for good.
LEMMA PanicKeeps ==
  ASSUME IInv, panic, UNCHANGED <<Others, spurious>>
  PROVE  IInv'
<1> DEFINE f == [Top EXCEPT !.left = <<"halt">>]
<1>1. At("panic") /\ Continue(f) /\ iflag' = FALSE /\ UNCHANGED <<apicVars, Others>>
  BY DEF panic
<1>2. /\ Top \in Frames /\ Top.who = "NMI" /\ Top.left # <<>> /\ ~Top.polled
      /\ Len(frames) # 1 /\ Len(frames) \in 1 .. 3
  BY <1>1, TopIs DEF At, Taken
<1>3. f \in Frames /\ f.who = "NMI" /\ f.left = <<"halt">> /\ f.polled = Top.polled
  <2>1. <<"halt">> \in Seq(Steps)
    BY DEF Steps
  <2> QED BY <1>2, <2>1 DEF Frames
<1> HIDE DEF f
<1>4. OnScript(f) /\ ~Reads(f) /\ f.left # <<>> /\ ~f.polled
  BY <1>2, <1>3 DEF OnScript, Reads
<1>5. /\ WellStacked(frames') /\ Len(frames') = Len(frames) /\ Top' = f
      /\ \A i \in 1 .. Len(frames) : i # Len(frames) => frames'[i] = frames[i]
      /\ Unended(frames') = Unended(frames) /\ (Reading(frames') => Reading(frames))
      /\ NoNmi(frames') <=> NoNmi(frames)
  BY <1>1, <1>2, <1>3, <1>4, Goes
<1>6. ~NoNmi(frames)
  BY <1>2, TopIs DEF NoNmi
<1> USE DEF apicVars, Others, uartVars
<1>7. Types'
  BY <1>1 DEF IInv, Types
<1>8. Stacked'
  BY <1>1, <1>5 DEF Stacked
<1>9. Served'
  BY <1>1, <1>5 DEF IInv, Served
<1>10. SetUp'
  <2>1. frames'[1] = frames[1] /\ Top' = frames'[Len(frames)]
    BY <1>2, <1>5 DEF Top
  <2>2. \A i \in 2 .. Len(frames) : frames'[i].who = frames[i].who
    BY <1>2, <1>3, <1>5, <2>1, TopIs
  <2> QED BY <1>1, <1>5, <2>1, <2>2 DEF IInv, SetUp
<1>11. Transmitting'
  BY <1>1, <1>4, <1>5, <1>6 DEF IInv, Transmitting
<1>12. Receiving'
  BY <1>1, <1>5 DEF IInv, Receiving, Line
<1> QED BY <1>7, <1>8, <1>9, <1>10, <1>11, <1>12 DEF IInv

\* Only the handler of the serial port reads, on top of main, and it never finds
\* the receiver empty.
LEMMA ReaderIs ==
  ASSUME IInv, At("serial_handle_interrupt")
  PROVE  /\ Len(frames) = 2 /\ Top.who = "COM1" /\ Top.left # <<>>
         /\ Line /\ rx # <<>> /\ "COM1" \notin irr /\ ~Reads(frames[1])
<1>1. Top.who = "COM1" /\ Top.left # <<>> /\ Head(Top.left) = "serial_handle_interrupt"
  BY TopIs DEF At, Taken
<1>2. PICK n \in 1 .. 3 : n = Len(frames) /\ Top = frames[n]
  BY TopIs
<1>3. n = 2
  BY <1>1, <1>2, VectorFacts DEF IInv, Stacked, WellStacked
<1>4. ~Reads(frames[1])
  <2>1. frames[1].who = "main" /\ OnScript(frames[1]) /\ frames[1] \in Frames
    BY <1>2, ElementOfSeq DEF IInv, Stacked, WellStacked
  <2> QED BY <2>1, StepOf DEF Reads, Taken
<1>5. Line /\ "COM1" \notin irr
  BY <1>1, <1>2 DEF IInv, Receiving, Reading, Reads
<1>6. rx # <<>>
  BY <1>5, SerialAssumption DEF IInv, Receiving, Line
<1> QED BY <1>1, <1>2, <1>3, <1>4, <1>5, <1>6

\* serial_handle_interrupt reads the byte its interrupt announced; a new edge needs more.
LEMMA ReadKeeps ==
  ASSUME IInv, serial_handle_interrupt
  PROVE  IInv'
<1>1. /\ Len(frames) = 2 /\ Top.who = "COM1" /\ Top.left # <<>>
      /\ Line /\ rx # <<>> /\ "COM1" \notin irr /\ ~Reads(frames[1])
  BY ReaderIs DEF serial_handle_interrupt
<1> DEFINE f == kprint(Done(Top), EchoBytes(Head(rx)))
<1>2. /\ At("serial_handle_interrupt") /\ Continue(f) /\ rx' = Tail(rx) /\ timeout' = FALSE
      /\ Signal /\ UNCHANGED <<ier, fifos, tx, lost, iflag, unmasked, isr, EARLY_INIT_COMPLETE>>
  BY <1>1 DEF serial_handle_interrupt
<1>3. irr' = irr
  BY <1>1, <1>2 DEF Signal
<1>4. rx \in Seq(Input) /\ Len(rx) <= FIFO
  BY DEF IInv, Types
<1>5. Head(rx) \in Input /\ Tail(rx) \in Seq(Input) /\ Len(Tail(rx)) <= FIFO
  BY <1>1, <1>4, HeadTailProperties, LenProperties, SerialAssumption
<1>6. EchoBytes(Head(rx)) \in 0 .. TextBytes + 3
  BY <1>5, SerialAssumption DEF EchoBytes
<1>7. f \in Frames /\ f.who = Top.who /\ f.left = Tail(Top.left) /\ f.polled = Top.polled
  <2>1. Done(Top) \in Frames /\ Top \in Frames
    BY <1>2, TopIs DEF At, Taken
  <2> QED BY <1>6, <2>1, DoneIs, KprintIs
<1> HIDE DEF f
<1>8. Advanced("serial_handle_interrupt", f)
  BY <1>2, <1>7, Advances
<1>9. ~Reading(frames')
  <2>1. frames'[2] = f /\ frames'[1] = frames[1] /\ Len(frames') = 2
    BY <1>1, <1>8 DEF Advanced, Top
  <2> QED BY <1>1, <1>8, <2>1 DEF Advanced, Reading
<1>10. Types'
  BY <1>2, <1>3, <1>5 DEF IInv, Types
<1>11. Stacked'
  BY <1>2, <1>8 DEF IInv, Advanced, Stacked
<1>12. Served'
  BY <1>2, <1>8 DEF IInv, Served, Advanced
<1>13. SetUp'
  BY <1>2, <1>8 DEF IInv, SetUp, Advanced
<1>14. Transmitting'
  BY <1>2, <1>8 DEF IInv, Transmitting, Advanced
<1>15. Receiving'
  BY <1>1, <1>2, <1>3, <1>9 DEF Receiving
<1> QED BY <1>10, <1>11, <1>12, <1>13, <1>14, <1>15 DEF IInv

\* The two halves of serial_putc change neither who runs nor what is left to do.
LEMMA Puts ==
  ASSUME IInv, Top.out > 0, NEW f \in Frames,
         f.who = Top.who, f.left = Top.left, f.polled => f.out > 0, Continue(f)
  PROVE  /\ EARLY_INIT_COMPLETE \/ Top.who = "NMI"
         /\ WellStacked(frames') /\ Len(frames') = Len(frames) /\ Top' = f
         /\ \A i \in 1 .. Len(frames) : i # Len(frames) => frames'[i] = frames[i]
         /\ Unended(frames') = Unended(frames) /\ (Reading(frames') => Reading(frames))
         /\ NoNmi(frames') <=> NoNmi(frames)
         /\ NoNmi(frames) \/ Top.who = "NMI"
         /\ frames'[1].left = frames[1].left
         /\ Top.who = "NMI" => frames'[1] = frames[1]
         /\ \A i \in 1 .. Len(frames) : frames'[i].who = frames[i].who
<1>1. PICK n \in 1 .. 3 : n = Len(frames) /\ Top = frames[n]
  BY TopIs
<1>2. OnScript(f) /\ (Reads(f) => Reads(Top))
  BY TopIs DEF OnScript, Reads
<1>3. /\ WellStacked(frames') /\ Len(frames') = Len(frames) /\ Top' = f
      /\ \A i \in 1 .. Len(frames) : i # Len(frames) => frames'[i] = frames[i]
      /\ Unended(frames') = Unended(frames) /\ (Reading(frames') => Reading(frames))
      /\ NoNmi(frames') <=> NoNmi(frames)
  BY <1>2, Goes
<1>4. frames'[n] = f
  BY <1>1, <1>3 DEF Top
<1>5. NoNmi(frames) \/ Top.who = "NMI"
  BY <1>1 DEF NoNmi, IInv, Stacked, WellStacked
<1>6. EARLY_INIT_COMPLETE \/ Top.who = "NMI"
  <2>1. CASE n = 1
    BY <1>1, <2>1 DEF IInv, SetUp
  <2>2. CASE n # 1
    BY <1>1, <2>2 DEF IInv, SetUp
  <2> QED BY <2>1, <2>2
<1>7. Top.who = "NMI" => n # 1
  BY <1>1, TopIs
<1> QED BY <1>1, <1>3, <1>4, <1>5, <1>6, <1>7

\* A wait ends on an empty transmitter, so that only what is owed already can precede.
LEMMA WaitKeeps ==
  ASSUME IInv, serial_wait
  PROVE  IInv'
<1> DEFINE f == [Top EXCEPT !.polled = TRUE]
<1>1. /\ Top.out > 0 /\ tx = 0 /\ Continue(f)
      /\ UNCHANGED <<iflag, apicVars, EARLY_INIT_COMPLETE, uartVars>>
  BY DEF serial_wait, TransmitterEmpty
<1>2. /\ f \in Frames /\ f.who = Top.who /\ f.left = Top.left /\ f.polled = TRUE
      /\ f.out = Top.out
  BY TopIs DEF Frames
<1> HIDE DEF f
<1>3. /\ EARLY_INIT_COMPLETE \/ Top.who = "NMI"
      /\ WellStacked(frames') /\ Len(frames') = Len(frames) /\ Top' = f
      /\ Unended(frames') = Unended(frames) /\ (Reading(frames') => Reading(frames))
      /\ frames'[1].left = frames[1].left
      /\ Top.who = "NMI" => frames'[1] = frames[1]
      /\ \A i \in 1 .. Len(frames) : frames'[i].who = frames[i].who
  BY <1>1, <1>2, Puts
<1> USE DEF apicVars, uartVars
<1>4. Types'
  BY <1>1 DEF IInv, Types
<1>5. Stacked'
  BY <1>1, <1>3 DEF IInv, Stacked
<1>6. Served'
  BY <1>1, <1>3 DEF IInv, Served
<1>7. SetUp'
  <2>1. CASE EARLY_INIT_COMPLETE
    BY <1>1, <1>3, <2>1 DEF IInv, SetUp
  <2>2. CASE ~EARLY_INIT_COMPLETE
    BY <1>1, <1>3, <2>2, TopIs DEF IInv, SetUp
  <2> QED BY <2>1, <2>2
<1>8. Transmitting'
  BY <1>1 DEF IInv, Transmitting, Owed
<1>9. Receiving'
  BY <1>1, <1>3 DEF IInv, Receiving, Line
<1> QED BY <1>4, <1>5, <1>6, <1>7, <1>8, <1>9 DEF IInv

\* A byte that is owed finds room.
LEMMA RoomFor ==
  ASSUME IInv, Top.out > 0, Top.polled
  PROVE  /\ tx < Depth /\ Depth <= FIFO
         /\ Top.who = "NMI" => tx = 0
         /\ Top.who # "NMI" => NoNmi(frames) /\ tx <= 1 /\ Len(frames) <= 2
<1>1. PICK n \in 1 .. 3 : n = Len(frames) /\ Top = frames[n]
  BY TopIs
<1>2. /\ Depth \in Nat /\ 1 <= Depth /\ Depth <= FIFO /\ (fifos => 2 <= Depth) /\ tx \in Nat
  BY SerialAssumption DEF Depth, IInv, Types
<1>3. Top.who = "NMI" => tx = 0
  BY DEF IInv, Transmitting
<1>4. ASSUME Top.who # "NMI"
      PROVE  NoNmi(frames) /\ tx <= 1 /\ n <= 2 /\ fifos
  <2>1. NoNmi(frames) /\ n <= 2
    BY <1>1, <1>4 DEF NoNmi, IInv, Stacked, WellStacked
  <2>2. tx + Owed(frames, 1) + Owed(frames, 2) <= 2
    BY <2>1 DEF IInv, Transmitting
  <2>3. Owed(frames, 1) \in 0 .. 1 /\ Owed(frames, 2) \in 0 .. 1
    BY DEF Owed
  <2>4. Owed(frames, n) = 1
    BY <1>1 DEF Owed
  <2>5. tx <= 1
    BY <1>1, <1>2, <2>1, <2>2, <2>3, <2>4
  <2>6. EARLY_INIT_COMPLETE
    <3>1. CASE n = 1
      BY <1>1, <3>1 DEF IInv, SetUp
    <3>2. CASE n = 2
      BY <1>1, <1>4, <3>2 DEF IInv, SetUp
    <3> QED BY <2>1, <3>1, <3>2
  <2> QED BY <2>1, <2>5, <2>6 DEF IInv, SetUp
<1> QED BY <1>1, <1>2, <1>3, <1>4

\* The byte that was owed is written; there was room for it.
LEMMA PutcKeeps ==
  ASSUME IInv, serial_putc
  PROVE  IInv'
<1> DEFINE f == [Top EXCEPT !.out = @ - 1, !.polled = FALSE]
<1>1. /\ Top.out > 0 /\ Top.polled /\ Continue(f)
      /\ UNCHANGED <<iflag, apicVars, EARLY_INIT_COMPLETE, ier, fifos, rx, timeout>>
  BY DEF serial_putc
<1>2. /\ f \in Frames /\ f.who = Top.who /\ f.left = Top.left /\ f.polled = FALSE
  <2>1. Top \in Frames /\ Top.out - 1 \in 0 .. TextBytes + 3
    BY <1>1, TopIs, SerialAssumption DEF Frames
  <2> QED BY <2>1 DEF Frames
<1> HIDE DEF f
<1>3. /\ EARLY_INIT_COMPLETE \/ Top.who = "NMI"
      /\ WellStacked(frames') /\ Len(frames') = Len(frames) /\ Top' = f
      /\ \A i \in 1 .. Len(frames) : i # Len(frames) => frames'[i] = frames[i]
      /\ Unended(frames') = Unended(frames) /\ (Reading(frames') => Reading(frames))
      /\ NoNmi(frames') <=> NoNmi(frames)
      /\ frames'[1].left = frames[1].left
      /\ Top.who = "NMI" => frames'[1] = frames[1]
      /\ \A i \in 1 .. Len(frames) : frames'[i].who = frames[i].who
  BY <1>1, <1>2, Puts
<1>4. /\ tx < Depth /\ Depth <= FIFO
      /\ Top.who = "NMI" => tx = 0
      /\ Top.who # "NMI" => NoNmi(frames) /\ tx <= 1 /\ Len(frames) <= 2
  BY <1>1, RoomFor
<1>5. tx' = tx + 1 /\ lost' = lost /\ tx \in Nat
  BY <1>4 DEF serial_putc, IInv, Types
<1> USE DEF apicVars
<1>6. Types'
  BY <1>1, <1>4, <1>5, SerialAssumption DEF IInv, Types, Depth
<1>7. Stacked'
  BY <1>1, <1>3 DEF IInv, Stacked
<1>8. Served'
  BY <1>1, <1>3 DEF IInv, Served
<1>9. SetUp'
  <2>1. CASE EARLY_INIT_COMPLETE
    BY <1>1, <1>3, <2>1 DEF IInv, SetUp
  <2>2. CASE ~EARLY_INIT_COMPLETE
    BY <1>1, <1>3, <2>2, TopIs DEF IInv, SetUp
  <2> QED BY <2>1, <2>2
<1>10. Transmitting'
  <2>1. ~Top'.polled
    BY <1>2, <1>3
  <2>2. ASSUME NoNmi(frames) PROVE tx' + Owed(frames', 1) + Owed(frames', 2) <= 2
    <3>1. PICK n \in 1 .. 2 : n = Len(frames) /\ Top = frames[n] /\ frames'[n] = f
      <4>1. Top.who # "NMI"
        BY <2>2, TopIs DEF NoNmi
      <4> QED BY <1>3, <1>4, <4>1, TopIs DEF Top
    <3>2. tx + Owed(frames, 1) + Owed(frames, 2) <= 2
      BY <2>2 DEF IInv, Transmitting
    <3>3. CASE n = 1
      BY <1>1, <1>2, <1>3, <1>5, <3>1, <3>2, <3>3 DEF Owed
    <3>4. CASE n = 2
      BY <1>1, <1>2, <1>3, <1>5, <3>1, <3>2, <3>4 DEF Owed
    <3> QED BY <3>3, <3>4
  <2> QED BY <1>3, <1>5, <2>1, <2>2 DEF IInv, Transmitting
<1>11. Receiving'
  BY <1>1, <1>3 DEF IInv, Receiving, Line
<1> QED BY <1>6, <1>7, <1>8, <1>9, <1>10, <1>11 DEF IInv

\* An interrupt is taken on top of stack s.
LEMMA Entered ==
  ASSUME NEW s, WellStacked(s), NEW n, n = Len(s), NEW v \in Vectors,
         v # "NMI" => n = 1, v = "NMI" => NoNmi(s), Types, Enter(v, s)
  PROVE  /\ WellStacked(frames') /\ Len(frames') = n + 1
         /\ \A i \in 1 .. n : frames'[i] = s[i]
         /\ Top'.who = v /\ ~Top'.polled /\ Top' = frames'[n + 1] /\ iflag' = FALSE
         /\ Unended(frames') = Unended(s) \cup ({v} \cap IsaVectors)
         /\ Reading(frames') => Reading(s) \/ v = "COM1"
         /\ NoNmi(frames') => NoNmi(s)
         /\ \A i \in 1 .. 3 : Owed(frames', i) = Owed(s, i)
<1>1. PICK f \in Frames : /\ f = Frame(v, interrupt_handler(v)) /\ f.left # <<>>
                          /\ f.who = v /\ ~f.polled /\ (Reads(f) => v = "COM1")
  BY Fresh DEF Types
<1>2. PICK t : t = Append(s, Frame(v, interrupt_handler(v)))
  OBVIOUS
<1>3. frames' = t /\ iflag' = FALSE
  BY <1>2 DEF Enter, GateDisables
<1>4. /\ WellStacked(t) /\ Len(t) = n + 1 /\ t[n + 1] = f
      /\ \A i \in 1 .. n : t[i] = s[i]
  BY <1>1, <1>2, Pushed DEF Types
<1>5. n \in 1 .. 3 /\ \A i \in 1 .. n + 1 : i \in 1 .. n \/ i = n + 1
  BY DEF WellStacked
<1>6. Unended(t) = Unended(s) \cup ({v} \cap IsaVectors)
  BY <1>1, <1>4, <1>5 DEF Unended
<1>7. Reading(t) => Reading(s) \/ v = "COM1"
  BY <1>1, <1>4, <1>5 DEF Reading
<1>8. NoNmi(t) => NoNmi(s)
  BY <1>4, <1>5 DEF NoNmi
<1>9. \A i \in 1 .. 3 : Owed(t, i) = Owed(s, i)
  BY <1>1, <1>4, <1>5 DEF Owed
<1>10. Top' = t[n + 1]
  BY <1>3, <1>4 DEF Top
<1> QED BY <1>1, <1>3, <1>4, <1>6, <1>7, <1>8, <1>9, <1>10

\* An interrupt is delivered to main only, and takes its cause with it.
LEMMA DeliverKeeps ==
  ASSUME IInv, deliver, UNCHANGED <<Others, spurious>>
  PROVE  IInv'
<1>0. PICK v : v = Highest(irr)
  OBVIOUS
<1>1. /\ iflag /\ irr # {} /\ isr = {} /\ irr' = irr \ {v} /\ isr' = isr \cup {v}
      /\ Enter(v, frames) /\ UNCHANGED <<unmasked, Others>>
  BY <1>0 DEF deliver
<1>2. v \in irr /\ v \in IsaVectors /\ v \in Vectors /\ v # "NMI"
  BY <1>0, <1>1, HighestIs, VectorFacts DEF IInv, Types
<1>3. Len(frames) = 1 /\ WellStacked(frames) /\ EARLY_INIT_COMPLETE
  BY <1>1, TopIs DEF IInv, Stacked, SetUp
<1>4. /\ WellStacked(frames') /\ Len(frames') = 2 /\ frames'[1] = frames[1]
      /\ Top'.who = v /\ ~Top'.polled /\ Top' = frames'[2] /\ iflag' = FALSE
      /\ Unended(frames') = Unended(frames) \cup {v}
      /\ Reading(frames') => Reading(frames) \/ v = "COM1"
      /\ NoNmi(frames') => NoNmi(frames)
      /\ \A i \in 1 .. 3 : Owed(frames', i) = Owed(frames, i)
  <2>1. Types /\ {v} \cap IsaVectors = {v}
    BY <1>2 DEF IInv
  <2>2. PICK n : n = Len(frames) /\ n = 1
    BY <1>3
  <2>3. /\ WellStacked(frames') /\ Len(frames') = n + 1
        /\ \A i \in 1 .. n : frames'[i] = frames[i]
        /\ Top'.who = v /\ ~Top'.polled /\ Top' = frames'[n + 1] /\ iflag' = FALSE
        /\ Unended(frames') = Unended(frames) \cup ({v} \cap IsaVectors)
        /\ Reading(frames') => Reading(frames) \/ v = "COM1"
        /\ NoNmi(frames') => NoNmi(frames)
        /\ \A i \in 1 .. 3 : Owed(frames', i) = Owed(frames, i)
    BY <1>1, <1>2, <1>3, <2>1, <2>2, Entered
  <2> QED BY <2>1, <2>2, <2>3
<1>5. ~Reading(frames)
  <2>1. frames[1].who = "main" /\ OnScript(frames[1]) /\ frames[1] \in Frames
    BY <1>3, ElementOfSeq DEF WellStacked
  <2> QED BY <1>3, <2>1, StepOf DEF Reading, Reads, Taken
<1> USE DEF Others, uartVars
<1>6. Types'
  BY <1>1, <1>4 DEF IInv, Types
<1>7. Stacked'
  BY <1>1, <1>4 DEF Stacked
<1>8. Served'
  BY <1>1, <1>4 DEF IInv, Served
<1>9. SetUp'
  BY <1>1, <1>3, <1>4 DEF IInv, SetUp
<1>10. Transmitting'
  BY <1>1, <1>4 DEF IInv, Transmitting
<1>11. Receiving'
  BY <1>1, <1>2, <1>4, <1>5 DEF IInv, Receiving, Line
<1> QED BY <1>6, <1>7, <1>8, <1>9, <1>10, <1>11 DEF IInv

\* A spurious interrupt is nobody's to end.
LEMMA SpuriousKeeps ==
  ASSUME IInv, SpuriousInterrupt
  PROVE  IInv'
<1>1. iflag /\ UNCHANGED <<apicVars, Others>> /\ Enter("SPURIOUS", frames)
  BY DEF SpuriousInterrupt, deliver_spurious
<1>2. "SPURIOUS" \in Vectors /\ {"SPURIOUS"} \cap IsaVectors = {}
  BY VectorFacts
<1>3. Len(frames) = 1 /\ WellStacked(frames) /\ EARLY_INIT_COMPLETE
  BY <1>1, TopIs DEF IInv, Stacked, SetUp
<1>4. /\ WellStacked(frames') /\ Len(frames') = 2 /\ frames'[1] = frames[1]
      /\ ~Top'.polled /\ iflag' = FALSE
      /\ Unended(frames') = Unended(frames) /\ (Reading(frames') => Reading(frames))
      /\ NoNmi(frames') => NoNmi(frames)
      /\ \A i \in 1 .. 3 : Owed(frames', i) = Owed(frames, i)
  <2>1. Types
    BY DEF IInv
  <2>2. PICK n : n = Len(frames) /\ n = 1
    BY <1>3
  <2>3. /\ WellStacked(frames') /\ Len(frames') = n + 1
        /\ \A i \in 1 .. n : frames'[i] = frames[i]
        /\ ~Top'.polled /\ iflag' = FALSE
        /\ Unended(frames') = Unended(frames) \cup ({"SPURIOUS"} \cap IsaVectors)
        /\ Reading(frames') => Reading(frames) \/ "SPURIOUS" = "COM1"
        /\ NoNmi(frames') => NoNmi(frames)
        /\ \A i \in 1 .. 3 : Owed(frames', i) = Owed(frames, i)
    BY <1>1, <1>2, <1>3, <2>1, <2>2, Entered
  <2> QED BY <1>2, <2>2, <2>3
<1> USE DEF Others, uartVars, apicVars
<1>5. Types'
  BY <1>1, <1>4 DEF IInv, Types
<1>6. Stacked'
  BY <1>1, <1>4 DEF Stacked
<1>7. Served'
  BY <1>1, <1>4 DEF IInv, Served
<1>8. SetUp'
  BY <1>1, <1>3, <1>4 DEF IInv, SetUp
<1>9. Transmitting'
  BY <1>1, <1>4 DEF IInv, Transmitting
<1>10. Receiving'
  BY <1>1, <1>4 DEF IInv, Receiving, Line
<1> QED BY <1>5, <1>6, <1>7, <1>8, <1>9, <1>10 DEF IInv

\* A non-maskable interrupt comes in at any step, and only once.
LEMMA NmiKeeps ==
  ASSUME IInv, deliver_nmi, UNCHANGED <<Others, spurious>>
  PROVE  IInv'
<1>1. PICK n \in 1 .. 3 : n = Len(frames)
  BY TopIs
<1>2. NoNmi(frames) /\ UNCHANGED <<apicVars, Others>> /\ Enter("NMI", frames)
  <2>1. DOMAIN frames = 1 .. n
    BY <1>1, LenProperties DEF IInv, Stacked, WellStacked
  <2> QED BY <1>1, <2>1 DEF deliver_nmi, NoNmi
<1>3. "NMI" \in Vectors /\ {"NMI"} \cap IsaVectors = {}
  BY VectorFacts
<1>4. /\ WellStacked(frames') /\ Len(frames') = n + 1
      /\ \A i \in 1 .. n : frames'[i] = frames[i]
      /\ Top'.who = "NMI" /\ ~Top'.polled /\ Top' = frames'[n + 1] /\ iflag' = FALSE
      /\ Unended(frames') = Unended(frames) /\ (Reading(frames') => Reading(frames))
  <2>1. Types /\ WellStacked(frames)
    BY DEF IInv, Stacked
  <2> QED BY <1>1, <1>2, <1>3, <2>1, Entered
<1> USE DEF Others, uartVars, apicVars
<1>5. Types'
  BY <1>2, <1>4 DEF IInv, Types
<1>6. Stacked'
  BY <1>4 DEF Stacked
<1>7. Served'
  BY <1>2, <1>4 DEF IInv, Served
<1>8. SetUp'
  <2>1. \A i \in 2 .. n + 1 : i \in 2 .. n \/ i = n + 1
    BY <1>1
  <2> QED BY <1>1, <1>2, <1>4, <2>1 DEF IInv, SetUp
<1>9. Transmitting'
  <2>1. ~NoNmi(frames')
    BY <1>1, <1>4 DEF NoNmi
  <2> QED BY <1>2, <1>4, <2>1 DEF IInv, Transmitting
<1>10. Receiving'
  BY <1>2, <1>4 DEF IInv, Receiving, Line
<1> QED BY <1>5, <1>6, <1>7, <1>8, <1>9, <1>10 DEF IInv

\* The breakpoint interrupts main with no byte owed.
LEMMA BreakpointKeeps ==
  ASSUME IInv, breakpoint, UNCHANGED <<Others, spurious>>
  PROVE  IInv'
<1>1. PICK s : s = [frames EXCEPT ![Len(frames)] = Done(Top)]
  OBVIOUS
<1>2. At("int3") /\ Enter("BP", s) /\ UNCHANGED <<apicVars, Others>>
  BY <1>1 DEF breakpoint
<1>3. /\ Top.left # <<>> /\ Top.out = 0 /\ Taken(Top, "int3", Tail(Top.left))
      /\ Top \in Frames /\ (Top.polled => Top.out > 0)
  BY <1>2, TopIs DEF At
<1>4. PICK n : n = Len(frames) /\ n = 1 /\ frames[1] = Top
  BY <1>3, TopIs DEF Taken
<1>5. PICK f : f = Done(Top)
  OBVIOUS
<1>6. /\ f \in Frames /\ OnScript(f) /\ f.who = "main" /\ f.left # main
      /\ ~f.polled /\ ~Reads(f) /\ ~Top.polled /\ frames[1].who = "main"
  <2>1. f \in Frames /\ OnScript(f) /\ Top.who = "main"
    BY <1>3, <1>5 DEF Taken
  <2>2. f.who = Top.who /\ f.left = Tail(Top.left) /\ f.out = Top.out /\ f.polled = Top.polled
    BY <1>3, <1>5, DoneIs
  <2>3. Tail(Top.left) # main
        /\ (Tail(Top.left) # <<>> => Head(Tail(Top.left)) # "serial_handle_interrupt")
    BY <1>3 DEF Taken
  <2>4. f.left # main /\ ~Reads(f)
    BY <2>2, <2>3 DEF Reads
  <2>5. Top.polled \in BOOLEAN /\ ~Top.polled
    BY <1>3 DEF Frames
  <2> QED BY <1>4, <2>1, <2>2, <2>4, <2>5
<1>7. WellStacked(frames) /\ frames \in Seq(Frames)
  BY DEF IInv, Stacked, WellStacked
<1>8. s \in Seq(Frames) /\ Len(s) = 1 /\ s[1] = f
  <2>1. s = [frames EXCEPT ![n] = f]
    BY <1>1, <1>4, <1>5
  <2>2. n \in 1 .. Len(frames) /\ f \in Frames
    BY <1>4, <1>6
  <2>3. /\ [frames EXCEPT ![n] = f] \in Seq(Frames)
        /\ Len([frames EXCEPT ![n] = f]) = Len(frames)
        /\ [frames EXCEPT ![n] = f][n] = f
    BY <1>7, <2>2, ExceptSeq
  <2> QED BY <1>4, <2>1, <2>3
<1>9. WellStacked(s)
  <2>1. n = Len(frames) /\ f.who = frames[n].who /\ f \in Frames /\ OnScript(f)
        /\ (f.polled => f.out > 0)
    BY <1>4, <1>6
  <2>2. s \in Seq(Frames) /\ Len(s) = n /\ s[n] = f /\ \A i \in 1 .. n : i # n => s[i] = frames[i]
    BY <1>4, <1>8
  <2> QED BY <1>7, <2>1, <2>2, Replaced
<1>10. Unended(s) = {} /\ Unended(frames) = {} /\ ~Reading(s) /\ NoNmi(s) /\ NoNmi(frames)
       /\ \A i \in 1 .. 3 : Owed(s, i) = 0
  BY <1>4, <1>6, <1>8, VectorFacts DEF Unended, Reading, NoNmi, Owed
<1>11. PICK m : m = Len(s) /\ m = 1
  BY <1>8
<1>12. /\ WellStacked(frames') /\ Len(frames') = m + 1
       /\ \A i \in 1 .. m : frames'[i] = s[i]
       /\ ~Top'.polled /\ iflag' = FALSE
       /\ Unended(frames') = Unended(s) \cup ({"BP"} \cap IsaVectors)
       /\ Reading(frames') => Reading(s) \/ "BP" = "COM1"
       /\ \A i \in 1 .. 3 : Owed(frames', i) = Owed(s, i)
  BY <1>2, <1>9, <1>11, VectorFacts, Entered DEF IInv
<1>13. EARLY_INIT_COMPLETE /\ frames'[1] = f
  BY <1>3, <1>4, <1>8, <1>11, <1>12 DEF IInv, SetUp, Taken
<1> USE DEF apicVars, Others, uartVars
<1>14. Types'
  BY <1>2, <1>12 DEF IInv, Types
<1>15. Stacked'
  BY <1>12 DEF Stacked
<1>16. Served'
  BY <1>2, <1>10, <1>12, VectorFacts DEF IInv, Served
<1>17. SetUp'
  BY <1>2, <1>6, <1>13 DEF IInv, SetUp
<1>18. Transmitting'
  <2>1. tx \in Nat /\ tx + Owed(frames, 1) + Owed(frames, 2) <= 2
    BY <1>10 DEF IInv, Types, Transmitting
  <2>2. Owed(frames, 1) \in 0 .. 1 /\ Owed(frames, 2) \in 0 .. 1
    BY DEF Owed
  <2>3. tx + 0 + 0 <= 2
    BY <2>1, <2>2
  <2> QED BY <1>2, <1>10, <1>12, <2>3 DEF IInv, Transmitting
<1>19. Receiving'
  BY <1>2, <1>10, <1>12 DEF IInv, Receiving, Line
<1> QED BY <1>14, <1>15, <1>16, <1>17, <1>18, <1>19 DEF IInv

\* Whoever returns has sent its EOI and owes no byte; main goes on where it was.
LEMMA ReturnKeeps ==
  ASSUME IInv, iretq, UNCHANGED <<Others, spurious>>
  PROVE  IInv'
<1>1. PICK n \in 1 .. 3 : n = Len(frames) /\ Top = frames[n]
  BY TopIs
<1>2. /\ n # 1 /\ Top.left = <<>> /\ Top.out = 0 /\ iflag' = Top.saved_if
      /\ frames' = SubSeq(frames, 1, n - 1) /\ UNCHANGED <<apicVars, Others>>
  BY <1>1 DEF iretq, InMain
<1>3. Top.who # "NMI" /\ n = 2 /\ ~Top.polled /\ iflag' \in BOOLEAN
  <2>1. Top \in Frames /\ OnScript(Top) /\ (Top.polled => Top.out > 0)
    BY TopIs
  <2>2. Script(Top.who) \in Seq(Steps)
    BY <2>1, ScriptType DEF Frames
  <2>3. \A k \in 1 .. Len(Script(Top.who)) : Rest(Script(Top.who), k) # <<>>
    BY <2>2, RestOf
  <2>4. <<"halt">> # <<>>
    OBVIOUS
  <2>5. Top.who # "NMI"
    BY <1>2, <2>1, <2>3, <2>4 DEF OnScript
  <2>6. n = 2
    BY <1>1, <1>2, <2>5 DEF IInv, Stacked, WellStacked
  <2> QED BY <1>2, <2>1, <2>5, <2>6 DEF Frames
<1>4. WellStacked(frames') /\ Len(frames') = 1 /\ frames'[1] = frames[1]
  <2>1. WellStacked(frames)
    BY DEF IInv, Stacked
  <2>2. LET t == SubSeq(frames, 1, n - 1)
        IN  WellStacked(t) /\ Len(t) = n - 1 /\ \A i \in 1 .. n - 1 : t[i] = frames[i]
    BY <1>1, <1>2, <2>1, Popped
  <2> QED BY <1>2, <1>3, <2>2
<1>5. frames[1].who = "main" /\ frames'[1].who = "main" /\ Top = frames[2] /\ Len(frames) = 2
  BY <1>1, <1>3, <1>4 DEF IInv, Stacked, WellStacked
<1>6. Unended(frames') = Unended(frames) /\ (Reading(frames') => Reading(frames))
  <2>1. Unended(frames) = {} /\ Unended(frames') = {}
    BY <1>2, <1>4, <1>5, VectorFacts DEF Unended
  <2> QED BY <1>4, <1>5, <2>1 DEF Reading
<1>7. /\ NoNmi(frames) /\ Owed(frames', 1) = Owed(frames, 1)
      /\ Owed(frames', 2) = 0 /\ Owed(frames, 2) = 0 /\ Top' = frames'[1]
  BY <1>3, <1>4, <1>5 DEF NoNmi, Owed, Top
<1> USE DEF apicVars, Others, uartVars
<1>8. Types'
  BY <1>2, <1>3 DEF IInv, Types
<1>9. Stacked'
  BY <1>4 DEF Stacked
<1>10. Served'
  BY <1>2, <1>6 DEF IInv, Served
<1>11. SetUp'
  BY <1>2, <1>3, <1>4, <1>5 DEF IInv, SetUp
<1>12. Transmitting'
  BY <1>2, <1>5, <1>7 DEF IInv, Transmitting
<1>13. Receiving'
  BY <1>2, <1>6 DEF IInv, Receiving, Line
<1> QED BY <1>8, <1>9, <1>10, <1>11, <1>12, <1>13 DEF IInv

\* What arrives: an edge on the line has a cause.
LEMMA SignalKeeps ==
  ASSUME IInv, Signal, UNCHANGED <<cpuVars, unmasked, isr, EARLY_INIT_COMPLETE>>,
         UNCHANGED <<ier, fifos, tx, lost>>, rx' \in Seq(Input), Len(rx') <= FIFO,
         timeout' \in BOOLEAN, timeout' => rx' # <<>>, Line => Line'
  PROVE  IInv'
<1> USE DEF cpuVars
<1>1. irr' \subseteq unmasked /\ ("COM1" \in irr' => Line') /\ (Line => irr' = irr)
  BY DEF Signal, Edge, IInv, Types, Receiving
<1>2. Types'
  BY <1>1 DEF IInv, Types
<1>3. Stacked'
  BY DEF IInv, Stacked
<1>4. Served'
  BY DEF IInv, Served
<1>5. SetUp'
  BY DEF IInv, SetUp
<1>6. Transmitting'
  BY DEF IInv, Transmitting, Top
<1>7. Receiving'
  BY <1>1 DEF IInv, Receiving
<1> QED BY <1>2, <1>3, <1>4, <1>5, <1>6, <1>7 DEF IInv

\* Another byte arrives, or finds no room.
LEMMA ReceiveKeeps ==
  ASSUME IInv, receive
  PROVE  IInv'
<1>1. /\ Signal /\ UNCHANGED <<cpuVars, unmasked, isr, EARLY_INIT_COMPLETE>>
      /\ UNCHANGED <<ier, fifos, timeout, tx, lost>>
  BY DEF receive
<1>2. PICK byte \in Input : rx' = IF Len(rx) < Depth THEN Append(rx, byte) ELSE rx
  BY DEF receive
<1>3. PICK k \in Nat : k = Len(rx) /\ rx \in Seq(Input) /\ k <= FIFO /\ (rx = <<>> => k = 0)
  BY LenProperties DEF IInv, Types
<1>4. Depth \in Nat /\ Depth <= FIFO
  BY SerialAssumption DEF Depth
<1>5. rx' \in Seq(Input) /\ Len(rx') \in {k, k + 1} /\ Len(rx') <= FIFO /\ (k # 0 => rx' # <<>>)
  <2>1. CASE k < Depth
    <3>1. rx' = Append(rx, byte)
      BY <1>2, <1>3, <2>1
    <3>2. rx' \in Seq(Input) /\ Len(rx') = k + 1
      BY <1>2, <1>3, <3>1
    <3> QED BY <1>3, <1>4, <2>1, <3>2, EmptySeq, SerialAssumption
  <2>2. CASE ~(k < Depth)
    BY <1>2, <1>3, <2>2
  <2> QED BY <2>1, <2>2
<1>6. timeout' \in BOOLEAN /\ (timeout' => rx' # <<>>)
  BY <1>1, <1>2, <1>3, <1>5, EmptySeq DEF IInv, Types, Receiving
<1>7. Line => Line'
  <2>1. PICK m \in Nat : m = Len(rx') /\ m >= k
    BY <1>3, <1>5
  <2> QED BY <1>1, <1>3, <2>1, SerialAssumption DEF Line
<1> QED BY <1>1, <1>5, <1>6, <1>7, SignalKeeps

\* Bytes have waited for too long.
LEMMA TimeoutKeeps ==
  ASSUME IInv, receive_timeout
  PROVE  IInv'
<1>1. /\ Signal /\ UNCHANGED <<cpuVars, unmasked, isr, EARLY_INIT_COMPLETE>>
      /\ UNCHANGED <<ier, fifos, rx, tx, lost>> /\ timeout' = TRUE /\ rx # <<>>
  BY DEF receive_timeout
<1>2. rx' \in Seq(Input) /\ Len(rx') <= FIFO /\ timeout' \in BOOLEAN /\ (timeout' => rx' # <<>>)
  BY <1>1 DEF IInv, Types
<1>3. Line => Line'
  BY <1>1 DEF Line
<1> QED BY <1>1, <1>2, <1>3, SignalKeeps

\* The transmitter sends a byte.
LEMMA TransmitKeeps ==
  ASSUME IInv, transmit
  PROVE  IInv'
<1>1. tx > 0 /\ tx' = tx - 1 /\ tx \in 0 .. FIFO
      /\ UNCHANGED <<interruptVars, EARLY_INIT_COMPLETE, ier, fifos, rx, timeout, lost>>
  BY DEF transmit, IInv, Types
<1> USE DEF interruptVars, cpuVars, apicVars
<1>2. Types'
  BY <1>1, SerialAssumption DEF IInv, Types
<1>3. Stacked'
  BY <1>1 DEF IInv, Stacked
<1>4. Served'
  BY <1>1 DEF IInv, Served
<1>5. SetUp'
  BY <1>1 DEF IInv, SetUp
<1>6. Transmitting'
  <2>1. Owed(frames, 1) \in 0 .. 1 /\ Owed(frames, 2) \in 0 .. 1
    BY DEF Owed
  <2> QED BY <1>1, <2>1 DEF IInv, Transmitting, Top
<1>7. Receiving'
  BY <1>1 DEF IInv, Receiving, Line
<1> QED BY <1>2, <1>3, <1>4, <1>5, <1>6, <1>7 DEF IInv

\* A step that changes nothing.
LEMMA StutterKeeps ==
  ASSUME IInv, UNCHANGED serialVars
  PROVE  IInv'
<1> USE DEF serialVars, interruptVars, cpuVars, apicVars, uartVars
<1>1. Types'
  BY DEF IInv, Types
<1>2. Stacked'
  BY DEF IInv, Stacked
<1>3. Served'
  BY DEF IInv, Served
<1>4. SetUp'
  BY DEF IInv, SetUp
<1>5. Transmitting'
  BY DEF IInv, Transmitting, Top
<1>6. Receiving'
  BY DEF IInv, Receiving, Line
<1> QED BY <1>1, <1>2, <1>3, <1>4, <1>5, <1>6 DEF IInv

\* The machine starts in main, with everything still to do.
LEMMA Starts ==
  ASSUME Init
  PROVE  IInv
<1>1. PICK f : f = [who |-> "main", left |-> main, saved_if |-> FALSE, out |-> 0,
                    polled |-> FALSE]
  OBVIOUS
<1>2. /\ frames = <<f>> /\ iflag = FALSE /\ unmasked = {} /\ irr = {} /\ isr = {}
      /\ EARLY_INIT_COMPLETE = FALSE
      /\ ier = FALSE /\ fifos = FALSE /\ rx = <<>> /\ timeout = FALSE /\ tx = 0 /\ lost = FALSE
  BY <1>1 DEF Init, InterruptInit
<1>3. main \in Seq(Steps) /\ Script("main") = main
  BY ScriptType DEF Script
<1>4. f \in Frames /\ f.who = "main" /\ f.left = main /\ f.out = 0 /\ f.polled = FALSE
  BY <1>1, <1>3, SerialAssumption DEF Frames
<1>5. OnScript(f) /\ ~Reads(f)
  <2>1. main = Rest(main, 1) /\ 1 \in 1 .. Len(main)
    BY <1>3, Scripts, SubSeqFull DEF Rest
  <2>2. main # <<>> /\ Head(main) = "serial_early_init"
    BY DEF main
  <2> QED BY <1>3, <1>4, <2>1, <2>2 DEF OnScript, Reads
<1>6. frames \in Seq(Frames) /\ Len(frames) = 1 /\ frames[1] = f
  BY <1>2, <1>4
<1>7. Types
  <2>1. rx \in Seq(Input) /\ Len(rx) <= FIFO /\ tx \in 0 .. FIFO
    BY <1>2, SerialAssumption
  <2> QED BY <1>2, <2>1 DEF Types
<1>8. Stacked
  BY <1>2, <1>4, <1>5, <1>6 DEF Stacked, WellStacked
<1>9. Unended(frames) = {} /\ ~Reading(frames) /\ NoNmi(frames) /\ Top = f
      /\ Owed(frames, 1) = 0 /\ Owed(frames, 2) = 0
  BY <1>4, <1>5, <1>6, VectorFacts DEF Unended, Reading, NoNmi, Owed, Top
<1>10. SetUp
  BY <1>2, <1>4, <1>6 DEF SetUp
<1> QED BY <1>2, <1>4, <1>7, <1>8, <1>9, <1>10 DEF IInv, Served, Transmitting, Receiving

-----------------------------------------------------------------------------
(* The theorems.                                                           *)

\* Every step of the machine keeps the invariant.
LEMMA NextKeeps ==
  ASSUME IInv, [Next]_serialVars
  PROVE  IInv'
<1>1. CASE Processor
  <2>1. CASE serial_early_init
    BY <2>1, EarlyInitKeeps
  <2>2. CASE serial_init
    BY <2>2, InitKeeps
  <2>3. CASE print
    BY <2>3, PrintKeeps
  <2>4. CASE serial_handle_interrupt
    BY <2>4, ReadKeeps
  <2>5. CASE serial_wait
    BY <2>5, WaitKeeps
  <2>6. CASE serial_putc
    BY <2>6, PutcKeeps
  <2>7. CASE UNCHANGED <<Others, spurious>>
             /\ (deliver \/ enable_interrupts \/ breakpoint \/ lapic_eoi \/ iretq \/ panic)
    BY <2>7, DeliverKeeps, EnableKeeps, BreakpointKeeps, EoiKeeps, ReturnKeeps, PanicKeeps
  <2> QED BY <1>1, <2>1, <2>2, <2>3, <2>4, <2>5, <2>6, <2>7 DEF Processor
<1>2. CASE receive
  BY <1>2, ReceiveKeeps
<1>3. CASE receive_timeout
  BY <1>3, TimeoutKeeps
<1>4. CASE transmit
  BY <1>4, TransmitKeeps
<1>5. CASE SpuriousInterrupt
  BY <1>5, SpuriousKeeps
<1>6. CASE deliver_nmi /\ UNCHANGED <<Others, spurious>>
  BY <1>6, NmiKeeps
<1>7. CASE UNCHANGED serialVars
  BY <1>7, StutterKeeps
<1> QED BY <1>1, <1>2, <1>3, <1>4, <1>5, <1>6, <1>7 DEF Next

\* IInv holds when main begins and whatever the processor, the UART and those who
\* type do keeps it.
THEOREM Inductive == Spec => []IInv
<1>1. Init => IInv
  BY Starts
<1>2. IInv /\ [Next]_serialVars => IInv'
  BY NextKeeps
<1> QED BY <1>1, <1>2, PTL DEF Spec

\* The variables stay in their types and the stack never holds more than main, one
\* handler and one non-maskable interrupt.
THEOREM Typed == Spec => []TypeOK
<1>1. IInv => TypeOK
  <2> SUFFICES ASSUME IInv PROVE TypeOK
    OBVIOUS
  <2>1. PICK n \in 1 .. 3 : n = Len(frames)
    BY TopIs
  <2>2. WellStacked(frames) /\ DOMAIN frames = 1 .. n
    BY <2>1, LenProperties DEF IInv, Stacked, WellStacked
  <2>3. ASSUME NEW i \in 1 .. n
        PROVE  /\ frames[i].who \in (IF i = 1 THEN {"main"} ELSE Vectors)
               /\ frames[i].out \in 0 .. TextBytes + 3 /\ frames[i].polled \in BOOLEAN
    <3>1. frames[i] \in Frames /\ (frames[i].who = "main" <=> i = 1)
      BY <2>1, <2>2, <2>3, ElementOfSeq DEF WellStacked
    <3> QED BY <3>1 DEF Frames
  <2>4. ~InMain => ~iflag
    BY <2>1 DEF IInv, Stacked, InMain
  <2>5. isr \subseteq IsaVectors /\ irr \subseteq IsaVectors /\ unmasked \subseteq IsaVectors
    BY DEF IInv, Served, Unended, Types
  <2>6. UNION {unmasked, irr, isr} \subseteq IsaVectors
    BY <2>5
  <2>7. {iflag, ier, fifos, timeout, lost, EARLY_INIT_COMPLETE} \subseteq BOOLEAN
    BY DEF IInv, Types
  <2>8. rx \in Seq(Input) /\ Len(rx) <= FIFO /\ tx \in 0 .. FIFO
    BY DEF IInv, Types
  <2> QED BY <2>1, <2>2, <2>3, <2>4, <2>6, <2>7, <2>8 DEF TypeOK
<1> QED BY <1>1, Inductive, PTL

\* An interrupt is in service only while its handler is on the stack, so that none
\* is left behind to hold back the others.
THEOREM ServiceMatched == Spec => []InServiceMatches
<1>1. IInv => InServiceMatches
  <2> SUFFICES ASSUME IInv PROVE InServiceMatches
    OBVIOUS
  <2>1. PICK n \in 1 .. 3 : n = Len(frames)
    BY TopIs
  <2>2. WellStacked(frames) /\ DOMAIN frames = 1 .. n /\ isr = Unended(frames)
    BY <2>1, LenProperties DEF IInv, Stacked, WellStacked, Served
  <2>3. InMain => isr = {}
    BY <2>1, <2>2, VectorFacts DEF InMain, Unended, WellStacked
  <2>4. \A v \in isr : \E i \in DOMAIN frames : frames[i].who = v
    BY <2>1, <2>2 DEF Unended
  <2> QED BY <2>3, <2>4 DEF InServiceMatches
<1> QED BY <1>1, Inductive, PTL

\* interrupt_handler sends every EOI for the interrupt it serves, and the local APIC
\* ends that one.
THEOREM EoiMatched == Spec => EoiMatches
<1>1. IInv /\ [Next]_serialVars =>
        [lapic_eoi => Top.who \in isr /\ isr' = isr \ {Top.who}]_interruptVars
  BY EoiEnds
<1> QED BY <1>1, Inductive, PTL DEF Spec, EoiMatches

\* Main and a handler that interrupted it between its wait and its write, in any
\* order with the transmitter, never write to a full transmit FIFO.
THEOREM KeepsUp == Spec => []TransmitterKeepsUp
<1>1. IInv => TransmitterKeepsUp
  BY DEF IInv, Transmitting, TransmitterKeepsUp
<1> QED BY <1>1, Inductive, PTL

\* serial_handle_interrupt, which does not ask whether a byte waits, always finds
\* one.
THEOREM NeverEmpty == Spec => []NeverReadsEmpty
<1>1. IInv => NeverReadsEmpty
  BY ReaderIs DEF NeverReadsEmpty
<1> QED BY <1>1, Inductive, PTL
=============================================================================
