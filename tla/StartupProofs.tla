---------------------------- MODULE StartupProofs ----------------------------
(***************************************************************************)
(* Theorems about Startup, for every processor, every hand-over of the     *)
(* loader and every address of the TSS and of the stubs.                   *)
(*                                                                         *)
(* The argument: what main still has to do says what it has done, and what *)
(* it has done says which tables, segments, control bits and writer are in *)
(* place.  Handlers change none of them, and they come only when main has  *)
(* put in place what they need.                                            *)
(***************************************************************************)
EXTENDS Startup, TLAPS, SequenceTheorems

-----------------------------------------------------------------------------
(* What main has left to do.                                               *)

Steps ==
  {"security_init", "enforce_smap", "kprint_configure_serial", "kprint", "lgdt", "ltr",
   "flush_segments", "flush_push", "flush_lretq", "lidt", "framebuffer", "rsdp", "fp_init",
   "int3", "halt", "flanterm_fb_init", "kprint_configure_flanterm", "panic"}

Rest(n) == SubSeq(main, n, 16)

\* Before its twelfth step main may have two steps for the framebuffer, before its
\* thirteenth two that end it without an RSDP.
Inserted(n) == IF n = 12 THEN FlantermSteps ELSE <<"kprint", "panic">>

\* Main is before its n-th step, with j inserted ones to do first.
Place(n, j) ==
  /\ n \in Nat /\ 1 <= n /\ n <= 16
  /\ j \in {0, 1, 2} /\ (j # 0 => n \in {12, 13})

Left(n, j) ==
  IF j = 0 THEN Rest(n)
  ELSE IF j = 1 THEN <<Inserted(n)[2]>> \o Rest(n)
  ELSE Inserted(n) \o Rest(n)

Coming(n, j) == IF j = 0 THEN main[n] ELSE Inserted(n)[3 - j]

\* The sixteen steps of main.
LEMMA MainIs ==
  /\ main \in Seq(Steps) /\ Len(main) = 16
  /\ main[1] = "security_init" /\ main[2] = "enforce_smap"
  /\ main[3] = "kprint_configure_serial" /\ main[4] = "kprint"
  /\ main[5] = "lgdt" /\ main[6] = "ltr" /\ main[7] = "flush_segments"
  /\ main[8] = "flush_push" /\ main[9] = "flush_lretq" /\ main[10] = "lidt"
  /\ main[11] = "framebuffer" /\ main[12] = "rsdp" /\ main[13] = "fp_init"
  /\ main[14] = "int3" /\ main[15] = "kprint" /\ main[16] = "halt"
BY DEF main, TableSteps, Steps
\* What is left of main from its n-th step on.
LEMMA RestIs ==
  ASSUME NEW n \in Nat, 1 <= n, n <= 16
  PROVE  /\ Rest(n) \in Seq(Steps) /\ Rest(n) # <<>>
         /\ Head(Rest(n)) = main[n]
         /\ n < 16 => Tail(Rest(n)) = Rest(n + 1)
<1>1. main \in Seq(Steps) /\ Len(main) = 16 /\ \A i \in 1 .. 16 : main[i] \in Steps
  BY MainIs, ElementOfSeq
<1>2. Head(Rest(n)) = main[n] /\ Tail(Rest(n)) = SubSeq(main, n + 1, 16)
  BY <1>1, HeadTailOfSubSeq DEF Rest
<1>3. Rest(n) \in Seq(Steps) /\ Len(Rest(n)) = 17 - n
  <2>1. \A i \in n .. 16 : main[i] \in Steps
    BY <1>1
  <2> QED
    BY <2>1, SubSeqProperties DEF Rest
<1>4. Rest(n) # <<>>
  BY <1>3, EmptySeq
<1> QED
  BY <1>2, <1>3, <1>4 DEF Rest

\* Nothing but the halt.
LEMMA HaltIs ==
  <<"halt">> \in Seq(Steps)
BY DEF Steps

\* The last step alone.
LEMMA LastIs ==
  Rest(16) = <<"halt">>
<1>1. main \in Seq(Steps) /\ main[16] = "halt" /\ main[16] \in Steps
  BY MainIs DEF Steps
<1>2. PICK s : s = SubSeq(main, 16, 16)
  OBVIOUS
<1>3. s \in Seq(Steps) /\ Len(s) = 1 /\ s[1] = main[16]
  <2>1. \A i \in 16 .. 16 : main[i] \in Steps
    BY <1>1
  <2> QED
    BY <1>2, <2>1, SubSeqProperties
<1>4. PICK t \in Seq(Steps) : t = <<"halt">>
  BY HaltIs
<1>5. Len(t) = 1 /\ t[1] = "halt"
  BY <1>4
<1>6. \A i \in 1 .. Len(s) : s[i] = t[i]
  BY <1>1, <1>3, <1>5
<1>7. s = t
  BY <1>3, <1>4, <1>5, <1>6, SeqEqual
<1> QED
  BY <1>2, <1>4, <1>7 DEF Rest

\* A step put in front of a sequence.
LEMMA InFront ==
  ASSUME NEW a \in Steps, NEW s \in Seq(Steps)
  PROVE  /\ <<a>> \o s \in Seq(Steps) /\ <<a>> \o s # <<>>
         /\ Head(<<a>> \o s) = a /\ Tail(<<a>> \o s) = s
<1>1. <<a>> \in Seq(Steps) /\ Len(<<a>>) = 1 /\ <<a>>[1] = a
  OBVIOUS
<1>2. PICK t : t = <<a>> \o s
  OBVIOUS
<1>3. /\ t \in Seq(Steps) /\ Len(t) = 1 + Len(s) /\ t[1] = a
      /\ \A i \in 1 .. Len(s) : t[i + 1] = s[i]
  <2>1. \A i \in 1 .. Len(<<a>>) + Len(s) :
          t[i] = IF i <= Len(<<a>>) THEN <<a>>[i] ELSE s[i - Len(<<a>>)]
    BY <1>1, <1>2, ConcatProperties
  <2>2. t \in Seq(Steps) /\ Len(t) = Len(<<a>>) + Len(s)
    BY <1>1, <1>2, ConcatProperties
  <2> QED
    BY <1>1, <2>1, <2>2, LenProperties
<1>4. t # <<>> /\ Head(t) = a
  BY <1>3, LenProperties, EmptySeq
<1>5. Tail(t) = s
  <2>1. /\ Tail(t) \in Seq(Steps) /\ Len(Tail(t)) = Len(s)
        /\ \A i \in 1 .. Len(s) : Tail(t)[i] = t[i + 1]
    BY <1>3, <1>4, LenProperties, HeadTailProperties
  <2> QED
    BY <1>3, <2>1, SeqEqual
<1> QED
  BY <1>2, <1>3, <1>4, <1>5

\* The inserted steps, one by one.
LEMMA InsertedIs ==
  /\ Inserted(12)[1] = "flanterm_fb_init" /\ Inserted(12)[2] = "kprint_configure_flanterm"
  /\ Inserted(13)[1] = "kprint" /\ Inserted(13)[2] = "panic"
BY DEF Inserted, FlantermSteps

\* Two steps, one in front of the other.
LEMMA Two ==
  ASSUME NEW a \in Steps, NEW b \in Steps
  PROVE  <<a, b>> = <<a>> \o <<b>>
<1>1. <<a>> \in Seq(Steps) /\ <<b>> \in Seq(Steps) /\ <<a, b>> \in Seq(Steps)
  OBVIOUS
<1>2. PICK t : t = <<a>> \o <<b>>
  OBVIOUS
<1>3. t \in Seq(Steps) /\ Len(t) = 2 /\ t[1] = a /\ t[2] = b
  BY <1>1, <1>2
<1>4. PICK s \in Seq(Steps) : s = <<a, b>>
  BY <1>1
<1>5. Len(s) = 2 /\ s[1] = a /\ s[2] = b
  BY <1>4
<1>6. \A i \in 1 .. Len(s) : s[i] = t[i]
  BY <1>3, <1>5
<1>7. s = t
  BY <1>3, <1>4, <1>5, <1>6, SeqEqual
<1> QED
  BY <1>2, <1>4, <1>7

\* So are those inserted.
LEMMA InsertedTwo ==
  ASSUME NEW n \in {12, 13}
  PROVE  \E a, b \in Steps :
           /\ Inserted(n)[1] = a /\ Inserted(n)[2] = b
           /\ Inserted(n) = <<a>> \o <<b>>
<1>1. CASE n = 12
  <2>1. "flanterm_fb_init" \in Steps /\ "kprint_configure_flanterm" \in Steps
    BY DEF Steps
  <2>2. FlantermSteps = <<"flanterm_fb_init">> \o <<"kprint_configure_flanterm">>
    BY <2>1, Two, Zenon DEF FlantermSteps
  <2>3. Inserted(n) = FlantermSteps
    BY <1>1, Zenon DEF Inserted
  <2> QED
    BY <1>1, <2>1, <2>2, <2>3, InsertedIs, Zenon
<1>2. CASE n = 13
  <2>1. "kprint" \in Steps /\ "panic" \in Steps
    BY DEF Steps
  <2>2. Inserted(n) = <<"kprint">> \o <<"panic">>
    BY <1>2 DEF Inserted
  <2> QED
    BY <1>2, <2>1, <2>2, InsertedIs, Zenon
<1> QED
  BY <1>1, <1>2

\* The step main comes to, and what is left after it.
LEMMA LeftIs ==
  ASSUME NEW n, NEW j, Place(n, j)
  PROVE  /\ Left(n, j) \in Seq(Steps) /\ Left(n, j) # <<>>
         /\ Head(Left(n, j)) = Coming(n, j)
         /\ j # 0 => Tail(Left(n, j)) = Left(n, j - 1)
         /\ j = 0 /\ n # 16 => Tail(Left(n, j)) = Left(n + 1, 0)
<1>1. /\ n \in Nat /\ 1 <= n /\ n <= 16
      /\ j \in {0, 1, 2} /\ (j # 0 => n \in {12, 13})
  BY DEF Place
<1>2. CASE j = 0
  <2>1. Left(n, j) = Rest(n) /\ Left(n + 1, 0) = Rest(n + 1) /\ Coming(n, j) = main[n]
    BY <1>2 DEF Left, Coming
  <2>2. j = 0 /\ (n # 16 => n < 16)
    BY <1>1, <1>2
  <2> QED
    BY <1>1, <1>2, <2>1, <2>2, RestIs, Zenon
<1>3. CASE j = 1
  <2>1. n \in {12, 13} /\ Rest(n) \in Seq(Steps)
    BY <1>1, <1>3, RestIs
  <2>2. PICK a \in Steps, b \in Steps :
          Inserted(n)[1] = a /\ Inserted(n)[2] = b /\ Inserted(n) = <<a>> \o <<b>>
    BY <2>1, InsertedTwo
  <2>3. Left(n, j) = <<b>> \o Rest(n) /\ Coming(n, j) = b
    BY <1>3, <2>2 DEF Left, Coming
  <2>4. Left(n, j - 1) = Rest(n)
    BY <1>3 DEF Left
  <2>5. /\ <<b>> \o Rest(n) \in Seq(Steps) /\ <<b>> \o Rest(n) # <<>>
        /\ Head(<<b>> \o Rest(n)) = b /\ Tail(<<b>> \o Rest(n)) = Rest(n)
    BY <2>1, <2>2, InFront
  <2>6. j # 0
    BY <1>3
  <2> QED
    BY <2>3, <2>4, <2>5, <2>6, Zenon
<1>4. CASE j = 2
  <2>1. n \in {12, 13} /\ Rest(n) \in Seq(Steps)
    BY <1>1, <1>4, RestIs
  <2>2. PICK a \in Steps, b \in Steps :
          Inserted(n)[1] = a /\ Inserted(n)[2] = b /\ Inserted(n) = <<a>> \o <<b>>
    BY <2>1, InsertedTwo
  <2>3. Left(n, j - 1) = <<b>> \o Rest(n)
    BY <1>4, <2>2 DEF Left
  <2>4. Left(n, j) = (<<a>> \o <<b>>) \o Rest(n) /\ Coming(n, j) = a
    BY <1>4, <2>2 DEF Left, Coming
  <2>5. (<<a>> \o <<b>>) \o Rest(n) = <<a>> \o (<<b>> \o Rest(n))
    <3>1. <<a>> \in Seq(Steps) /\ <<b>> \in Seq(Steps)
      BY <2>2
    <3> QED
      BY <2>1, <3>1, ConcatAssociative
  <2>6. <<b>> \o Rest(n) \in Seq(Steps)
    BY <2>1, <2>2, InFront
  <2>7. PICK s \in Seq(Steps) : s = <<b>> \o Rest(n)
    BY <2>6
  <2>8. /\ <<a>> \o s \in Seq(Steps) /\ <<a>> \o s # <<>>
        /\ Head(<<a>> \o s) = a /\ Tail(<<a>> \o s) = s
    BY <2>2, <2>7, InFront
  <2>9. j # 0
    BY <1>4
  <2> QED
    BY <2>3, <2>4, <2>5, <2>7, <2>8, <2>9, Zenon
<1> QED
  BY <1>1, <1>2, <1>3, <1>4

\* Where main is when it comes to a step.
LEMMA Where ==
  ASSUME NEW n, NEW j, Place(n, j)
  PROVE  /\ Coming(n, j) = "security_init" => n = 1 /\ j = 0
         /\ Coming(n, j) = "enforce_smap" => n = 2 /\ j = 0
         /\ Coming(n, j) = "kprint_configure_serial" => n = 3 /\ j = 0
         /\ Coming(n, j) = "kprint" => (n \in {4, 15} /\ j = 0) \/ (n = 13 /\ j = 2)
         /\ Coming(n, j) = "lgdt" => n = 5 /\ j = 0
         /\ Coming(n, j) = "ltr" => n = 6 /\ j = 0
         /\ Coming(n, j) = "flush_segments" => n = 7 /\ j = 0
         /\ Coming(n, j) = "flush_push" => n = 8 /\ j = 0
         /\ Coming(n, j) = "flush_lretq" => n = 9 /\ j = 0
         /\ Coming(n, j) = "lidt" => n = 10 /\ j = 0
         /\ Coming(n, j) = "framebuffer" => n = 11 /\ j = 0
         /\ Coming(n, j) = "flanterm_fb_init" => n = 12 /\ j = 2
         /\ Coming(n, j) = "kprint_configure_flanterm" => n = 12 /\ j = 1
         /\ Coming(n, j) = "rsdp" => n = 12 /\ j = 0
         /\ Coming(n, j) = "panic" => n = 13 /\ j = 1
         /\ Coming(n, j) = "fp_init" => n = 13 /\ j = 0
         /\ Coming(n, j) = "int3" => n = 14 /\ j = 0
         /\ Coming(n, j) = "halt" => n = 16 /\ j = 0
<1>1. /\ n \in Nat /\ 1 <= n /\ n <= 16
      /\ j \in {0, 1, 2} /\ (j # 0 => n \in {12, 13})
  BY DEF Place
<1>2. CASE j = 0
  <2>1. Coming(n, j) = main[n]
    BY <1>2 DEF Coming
  <2>2. n \in {1, 2, 3, 4, 5, 6, 7, 8, 9, 10, 11, 12, 13, 14, 15, 16}
    BY <1>1
  <2> QED
    BY <1>2, <2>1, <2>2, MainIs
<1>3. CASE j = 1
  <2>1. Coming(n, j) = Inserted(n)[2] /\ n \in {12, 13}
    BY <1>1, <1>3 DEF Coming
  <2>2. \/ n = 12 /\ Coming(n, j) = "kprint_configure_flanterm"
        \/ n = 13 /\ Coming(n, j) = "panic"
    BY <2>1, InsertedIs
  <2> QED
    BY <1>3, <2>2, Zenon
<1>4. CASE j = 2
  <2>1. Coming(n, j) = Inserted(n)[1] /\ n \in {12, 13}
    BY <1>1, <1>4 DEF Coming
  <2>2. \/ n = 12 /\ Coming(n, j) = "flanterm_fb_init"
        \/ n = 13 /\ Coming(n, j) = "kprint"
    BY <2>1, InsertedIs
  <2> QED
    BY <1>4, <2>2, Zenon
<1>5. j = 0 \/ j = 1 \/ j = 2
  BY <1>1
<1> QED
  BY <1>2, <1>3, <1>4, <1>5, Zenon
-----------------------------------------------------------------------------
(* The invariant.                                                          *)

Activation ==
  [who : {"main", "BP", "NMI"}, left : Seq(Steps), saved_if : {FALSE},
   out : {0}, polled : BOOLEAN]

\* A handler prints; the one of a non-maskable interrupt never returns.
Handler(f) ==
  \/ f.who = "BP" /\ f.left \in {<<"kprint">>, <<>>}
  \/ f.who = "NMI" /\ f.left \in {<<"kprint", "panic">>, <<"panic">>, <<"halt">>}

Stacked(s) ==
  /\ s \in Seq(Activation) /\ s # <<>>
  /\ s[1].who = "main"
  /\ \A i \in 1 .. Len(s) : i # 1 => Handler(s[i])

\* Nothing has faulted.
Runs == fault = ""

\* What holds wherever main is.
Sound ==
  /\ machine \in Machines /\ NoOtherFault /\ iflag = FALSE
  /\ HAS_SMAP => "SMAP" \in machine.features
  /\ machine.cr4 \subseteq cr4 /\ ~Reserved(cr4)
  /\ g_writer = "flanterm" => flanterm_context = machine.context

\* The kernel's table with the address of the TSS in it.
KernelGDT(type, tss) ==
  [i \in 0 .. 4 |->
     IF i = 3 THEN [kind |-> "low", p |-> 1, type |-> type,
                    base_low |-> tss % 8, base_high |-> BaseHigh(tss)]
     ELSE IF i = 4 THEN [kind |-> "high", base_veryhigh |-> (tss \div 16) % 16]
     ELSE StaticGDT[i]]

\* What main has done before its n-th step: the control registers,
Protected(n) ==
  /\ n > 1 => {FeatureBit[f] : f \in machine.features} \subseteq cr4
  /\ n <= 13 => cr0 = machine.cr0
  /\ (n > 13 /\ machine.rsdp) =>
       /\ {CR4_OSFXSR, CR4_OSXMMEXCPT} \subseteq cr4
       /\ CR0_EM \notin cr0 /\ {CR0_TS, CR0_MP, CR0_NE} \cup (machine.cr0 \ {CR0_EM}) \subseteq cr0

\* the tables and segments, and the stack of flush_gdt,
Popped == <<"return_address">>
Pushed == <<"return_address", 8>>

Loaded(n) ==
  /\ n <= 5 => GDT = StaticGDT
  /\ n > 5 => gdtr = "kernel"
  /\ n = 6 => GDT = KernelGDT(9, machine.tss)
  /\ n > 6 => GDT = KernelGDT(11, machine.tss) /\ tr = machine.tss
  /\ n > 7 => ss = 0
  /\ n = 8 => saved = Popped
  /\ n = 9 => saved = Pushed
  /\ n > 9 => cs = 8
  /\ n <= 10 => idtr = "loader"
  /\ n > 10 => idtr = "kernel"

\* the writer, and why main may be about to panic.
Writing(n, j) ==
  /\ n > 3 => g_writer # "null"
  /\ (n = 12 /\ j = 1) => flanterm_context = machine.context
  /\ (n = 13 /\ j # 0) => ~machine.rsdp

Progress(n, j) == Protected(n) /\ Loaded(n) /\ Writing(n, j)

\* The inductive invariant: main is at some place, and has done what is before it; a
\* handler comes only when the kernel's gates are in place.
IInv ==
  /\ Stacked(frames) /\ Sound
  /\ \E n, j :
       /\ Place(n, j) /\ frames[1].left = Left(n, j) /\ Progress(n, j)
       /\ Len(frames) # 1 => n > 10

-----------------------------------------------------------------------------
(* The stack.                                                              *)

\* The running activation is main's or a handler's.
LEMMA TopIs ==
  ASSUME Stacked(frames)
  PROVE  /\ Len(frames) \in Nat /\ 1 <= Len(frames)
         /\ Top \in Activation /\ Top.out = 0
         /\ Len(frames) # 1 => Handler(Top)
<1>1. frames \in Seq(Activation) /\ frames # <<>>
  BY DEF Stacked
<1>2. Len(frames) \in Nat \ {0}
  BY <1>1, EmptySeq
<1>3. PICK n \in Nat \ {0} : n = Len(frames)
  BY <1>2
<1>4. n \in 1 .. n
  BY <1>3
<1>5. frames[n] \in Activation
  BY <1>1, <1>3, <1>4, ElementOfSeq
<1>6. Top = frames[n]
  BY <1>3, Zenon DEF Top
<1>7. n # 1 => Handler(frames[n])
  BY <1>3, <1>4, Zenon DEF Stacked
<1>8. frames[n].out = 0
  BY <1>5 DEF Activation
<1> QED
  BY <1>2, <1>3, <1>5, <1>6, <1>7, <1>8

\* What a handler comes to: it prints, it panics, or it is stopped for good.
LEMMA HandlerIs ==
  ASSUME NEW h \in Activation, Handler(h)
  PROVE  /\ h.left # <<>> => Head(h.left) \in {"kprint", "panic", "halt"}
         /\ (h.left # <<>> /\ Head(h.left) = "kprint") => Handler(Done(h))
         /\ (h.left # <<>> /\ Head(h.left) = "panic") => Handler([h EXCEPT !.left = <<"halt">>])
         /\ h.left = <<>> => h.who = "BP"
         /\ h.who # "main"
<1>1. h.who \in {"BP", "NMI"} /\ h.who # "main"
  BY DEF Handler
<1>2. /\ Done(h).who = h.who /\ Done(h).left = Tail(h.left)
      /\ [h EXCEPT !.left = <<"halt">>].who = h.who
      /\ [h EXCEPT !.left = <<"halt">>].left = <<"halt">>
  BY DEF Done, Activation
<1>3. CASE h.left = <<>>
  <2>1. h.left \notin {<<"kprint", "panic">>, <<"panic">>, <<"halt">>}
    BY <1>3
  <2> QED
    BY <1>1, <1>3, <2>1 DEF Handler
<1>4. CASE h.left = <<"kprint">> /\ h.who = "BP"
  <2>1. Head(h.left) = "kprint" /\ Tail(h.left) = <<>> /\ h.left # <<>>
    BY <1>4
  <2>2. Handler(Done(h))
    BY <1>2, <1>4, <2>1, Zenon DEF Handler
  <2> QED
    BY <1>1, <2>1, <2>2
<1>5. CASE h.left = <<"kprint", "panic">> /\ h.who = "NMI"
  <2>1. Head(h.left) = "kprint" /\ Tail(h.left) = <<"panic">> /\ h.left # <<>>
    BY <1>5
  <2>2. Handler(Done(h))
    BY <1>2, <1>5, <2>1, Zenon DEF Handler
  <2> QED
    BY <1>1, <2>1, <2>2
<1>6. CASE h.left = <<"panic">> /\ h.who = "NMI"
  <2>1. Head(h.left) = "panic" /\ h.left # <<>>
    BY <1>6
  <2>2. Handler([h EXCEPT !.left = <<"halt">>])
    BY <1>2, <1>6, Zenon DEF Handler
  <2> QED
    BY <1>1, <2>1, <2>2
<1>7. CASE h.left = <<"halt">> /\ h.who = "NMI"
  <2>1. Head(h.left) = "halt" /\ h.left # <<>>
    BY <1>7
  <2> QED
    BY <1>1, <2>1
<1> QED
  BY <1>3, <1>4, <1>5, <1>6, <1>7 DEF Handler

With(s, a) == [s EXCEPT ![Len(s)] = a]
Onto(s, v) == Append(s, Frame(v, interrupt_handler(v)))
Without(s) == SubSeq(s, 1, Len(s) - 1)

\* The running function goes on.
LEMMA Replaced ==
  ASSUME NEW s, Stacked(s), NEW a \in Activation,
         Len(s) = 1 => a.who = "main", Len(s) # 1 => Handler(a)
  PROVE  /\ Stacked(With(s, a)) /\ Len(With(s, a)) = Len(s)
         /\ Len(s) = 1 => With(s, a)[1] = a
         /\ Len(s) # 1 => With(s, a)[1] = s[1]
<1>1. s \in Seq(Activation) /\ s # <<>> /\ Len(s) \in Nat \ {0}
  BY EmptySeq DEF Stacked
<1>2. PICK n \in Nat \ {0} : n = Len(s)
  BY <1>1
<1>3. PICK t : t = With(s, a)
  OBVIOUS
<1>4. t = [s EXCEPT ![n] = a]
  BY <1>2, <1>3, Zenon DEF With
<1>5. /\ t \in Seq(Activation) /\ Len(t) = n
      /\ \A i \in 1 .. n : t[i] = IF i = n THEN a ELSE s[i]
  <2>1. n \in 1 .. Len(s)
    BY <1>1, <1>2
  <2> QED
    BY <1>1, <1>2, <1>4, <2>1, ExceptSeq
<1>6. 1 \in 1 .. n /\ n \in 1 .. n
  BY <1>2
<1>7. t # <<>>
  BY <1>2, <1>5, EmptySeq
<1>8. t[n] = a /\ (n # 1 => t[1] = s[1])
  BY <1>5, <1>6
<1>9. t[1].who = "main"
  BY <1>2, <1>8 DEF Stacked
<1>10. \A i \in 1 .. Len(t) : i # 1 => Handler(t[i])
  <2> SUFFICES ASSUME NEW i \in 1 .. n, i # 1 PROVE Handler(t[i])
    BY <1>5
  <2>1. CASE i = n
    BY <1>2, <1>8, <2>1
  <2>2. CASE i # n
    <3>1. t[i] = s[i]
      BY <1>5, <2>2
    <3> QED
      BY <1>2, <3>1 DEF Stacked
  <2> QED
    BY <2>1, <2>2
<1>11. Stacked(t)
  BY <1>5, <1>7, <1>9, <1>10 DEF Stacked
<1> QED
  BY <1>2, <1>3, <1>5, <1>8, <1>11

\* A handler is entered.
LEMMA Entered ==
  ASSUME NEW s, Stacked(s), NEW v \in {"BP", "NMI"}, iflag = FALSE
  PROVE  /\ Stacked(Onto(s, v)) /\ Len(Onto(s, v)) # 1
         /\ Onto(s, v)[1] = s[1]
<1>1. s \in Seq(Activation) /\ s # <<>> /\ Len(s) \in Nat \ {0}
  BY EmptySeq DEF Stacked
<1>2. PICK n \in Nat \ {0} : n = Len(s)
  BY <1>1
<1>3. PICK a : a = Frame(v, interrupt_handler(v))
  OBVIOUS
<1>4. PICK t : t = Onto(s, v)
  OBVIOUS
<1>5. interrupt_handler("BP") = <<"kprint">> /\ interrupt_handler("NMI") = <<"kprint", "panic">>
  BY DEF interrupt_handler
<1>6. a.who = v /\ a.left = interrupt_handler(v)
  BY <1>3 DEF Frame
<1>7. Handler(a)
  BY <1>5, <1>6, Zenon DEF Handler
<1>8. a \in Activation
  <2>1. <<"kprint">> \in Seq(Steps) /\ <<"kprint", "panic">> \in Seq(Steps)
    BY DEF Steps
  <2>2. interrupt_handler(v) \in Seq(Steps)
    BY <1>5, <2>1
  <2> QED
    BY <1>3, <2>2 DEF Frame, Activation
<1>9. t = Append(s, a)
  BY <1>3, <1>4, Zenon DEF Onto
<1>10. /\ t \in Seq(Activation) /\ t # <<>> /\ Len(t) = n + 1
       /\ \A i \in 1 .. n : t[i] = s[i]
       /\ t[n + 1] = a
  BY <1>1, <1>2, <1>8, <1>9, AppendProperties
<1>11. t[1] = s[1]
  BY <1>2, <1>10
<1>12. \A i \in 1 .. Len(t) : i # 1 => Handler(t[i])
  <2> SUFFICES ASSUME NEW i \in 1 .. (n + 1), i # 1 PROVE Handler(t[i])
    BY <1>10
  <2>1. i = n + 1 \/ i \in 1 .. n
    BY <1>2
  <2>2. i \in 1 .. n => Handler(s[i])
    BY <1>2 DEF Stacked
  <2> QED
    BY <1>7, <1>10, <2>1, <2>2
<1>13. Stacked(t)
  BY <1>10, <1>11, <1>12 DEF Stacked
<1>14. Len(t) # 1
  BY <1>2, <1>10
<1> QED
  BY <1>4, <1>11, <1>13, <1>14

\* A handler returns.
LEMMA Returned ==
  ASSUME NEW s, Stacked(s), Len(s) # 1
  PROVE  Stacked(Without(s)) /\ Without(s)[1] = s[1]
<1>1. s \in Seq(Activation) /\ s # <<>> /\ Len(s) \in Nat \ {0, 1}
  BY EmptySeq DEF Stacked
<1>2. PICK n \in Nat \ {0, 1} : n = Len(s)
  BY <1>1
<1>3. PICK m \in Nat \ {0} : m = n - 1
  BY <1>2
<1>4. PICK t : t = Without(s)
  OBVIOUS
<1>5. t = SubSeq(s, 1, m)
  BY <1>2, <1>3, <1>4, Zenon DEF Without
<1>6. t \in Seq(Activation) /\ Len(t) = m /\ \A i \in 1 .. m : t[i] = s[i]
  <2>1. \A i \in 1 .. m : s[i] \in Activation
    BY <1>1, <1>2, <1>3, ElementOfSeq
  <2> QED
    BY <1>5, <1>3, <2>1, SubSeqProperties
<1>7. t # <<>>
  BY <1>3, <1>6, EmptySeq
<1>8. t[1] = s[1]
  BY <1>3, <1>6
<1>9. \A i \in 1 .. m : i \in 1 .. n
  BY <1>2, <1>3
<1>10. \A i \in 1 .. Len(t) : i # 1 => Handler(t[i])
  BY <1>2, <1>6, <1>9 DEF Stacked
<1>11. Stacked(t)
  BY <1>6, <1>7, <1>8, <1>10 DEF Stacked
<1> QED
  BY <1>4, <1>8, <1>11

-----------------------------------------------------------------------------
(* What a step leaves as it is.                                            *)

\* A step that leaves the tables alone, at a place where nothing of them is due.
LEMMA LoadedKept ==
  ASSUME NEW n \in Nat, NEW m, UNCHANGED <<machine, segmentVars, idtr>>, Loaded(n),
         m = n \/ (m = n + 1 /\ n \notin {5, 6, 7, 8, 9, 10})
  PROVE  Loaded(m)'
<1>1. machine' = machine
  OBVIOUS
<1>2. machine'.tss = machine.tss
  BY <1>1
<1>3. /\ gdtr' = gdtr /\ GDT' = GDT /\ cs' = cs /\ ss' = ss /\ tr' = tr /\ saved' = saved
      /\ idtr' = idtr
  BY DEF segmentVars
<1>4. /\ m <= 5 => n <= 5
      /\ m > 5 => n > 5
      /\ m = 6 => n = 6
      /\ m > 6 => n > 6
      /\ m > 7 => n > 7
      /\ m = 8 => n = 8
      /\ m = 9 => n = 9
      /\ m > 9 => n > 9
      /\ m <= 10 => n <= 10
      /\ m > 10 => n > 10
  OBVIOUS
<1>5. StaticGDT' = StaticGDT
  BY DEF StaticGDT
<1> QED
  BY <1>1, <1>2, <1>3, <1>4, <1>5, Zenon DEF Loaded

\* A step that leaves the control registers alone.
LEMMA ProtectedKept ==
  ASSUME NEW n \in Nat, NEW m, UNCHANGED <<machine, crVars>>, Protected(n),
         m = n \/ (m = n + 1 /\ n \notin {1, 13})
  PROVE  Protected(m)'
<1>1. machine' = machine /\ cr0' = cr0 /\ cr4' = cr4
  BY DEF crVars
<1>2. m > 1 => n > 1
  OBVIOUS
<1>3. m <= 13 => n <= 13
  OBVIOUS
<1>4. m > 13 => n > 13
  OBVIOUS
<1> QED
  BY <1>1, <1>2, <1>3, <1>4 DEF Protected

\* A step that leaves the writer alone, whatever is inserted after it already checked.
LEMMA WritingKept ==
  ASSUME NEW n \in Nat, NEW j, NEW m, NEW k, UNCHANGED <<machine, writerVars>>, Writing(n, j),
         m = n \/ (m = n + 1 /\ n # 3),
         (m = n /\ k = j) \/ k = 0 \/ (n = 13 /\ m = 13 /\ j # 0)
  PROVE  Writing(m, k)'
<1>1. machine' = machine /\ g_writer' = g_writer /\ flanterm_context' = flanterm_context
  BY DEF writerVars
<1>2. m > 3 => n > 3
  OBVIOUS
<1> QED
  BY <1>1, <1>2 DEF Writing

\* A step without a fault has no fault but those there may be.
LEMMA Faultless ==
  fault' = "" => NoOtherFault'
BY DEF NoOtherFault

\* A step of main or of a handler that faults as it may and leaves the rest alone.
LEMMA SoundKept ==
  ASSUME Sound, UNCHANGED <<machine, crVars, writerVars>>, iflag' = FALSE,
         fault' # "" => NoOtherFault'
  PROVE  Sound'
<1>1. /\ machine' = machine /\ HAS_SMAP' = HAS_SMAP /\ cr4' = cr4
      /\ g_writer' = g_writer /\ flanterm_context' = flanterm_context
  BY DEF crVars, writerVars
<1>2. Reserved(cr4)' = Reserved(cr4)
  BY <1>1, Zenon DEF Reserved
<1>3. NoOtherFault'
  BY Faultless, Zenon
<1> QED
  BY <1>1, <1>2, <1>3, Zenon DEF Sound

-----------------------------------------------------------------------------
(* Tables.                                                                 *)

\* An address cut in three, as the TSS's is, and one cut in two, as a stub's is.
LEMMA CutAndJoined ==
  ASSUME NEW a \in Int, 0 <= a, a <= 255
  PROVE  /\ (a % 8) + 8 * BaseHigh(a) + 16 * ((a \div 16) % 16) = a
         /\ (a % 4) + 4 * ((a \div 4) % 64) = a
<1>1. BaseHigh(a) = (a \div 8) % 2
  BY DEF BaseHigh
<1>2. (a % 8) + 8 * ((a \div 8) % 2) + 16 * ((a \div 16) % 16) = a
  OBVIOUS
<1>3. (a % 4) + 4 * ((a \div 4) % 64) = a
  OBVIOUS
<1> QED
  BY <1>1, <1>2, <1>3

\* No two features have one bit.
LEMMA OneBit ==
  ASSUME NEW f \in DOMAIN FeatureBit, NEW h \in DOMAIN FeatureBit, FeatureBit[f] = FeatureBit[h]
  PROVE  f = h
BY DEF FeatureBit

\* The machine's addresses and bits.
LEMMA MachineIs ==
  ASSUME machine \in Machines
  PROVE  /\ machine.features \subseteq DOMAIN FeatureBit
         /\ machine.framebuffer \in BOOLEAN /\ machine.rsdp \in BOOLEAN
         /\ machine.tss \in Int /\ 0 <= machine.tss /\ machine.tss <= 255
         /\ machine.stub \in Int /\ 0 <= machine.stub /\ machine.stub <= 255
         /\ ~Reserved(machine.cr4)
BY StartupAssumption DEF Reserved

\* The tables entry by entry.
LEMMA StaticGDTIs ==
  /\ DOMAIN StaticGDT = 0 .. 4
  /\ StaticGDT[1] = Code64
  /\ StaticGDT[3] = [kind |-> "low", p |-> 1, type |-> 9, base_low |-> 0, base_high |-> 0]
  /\ StaticGDT[4] = [kind |-> "high", base_veryhigh |-> 0]
<1>1. 0 \in 0 .. 4 /\ 1 \in 0 .. 4 /\ 3 \in 0 .. 4 /\ 4 \in 0 .. 4
  OBVIOUS
<1>2. GDT_IDX_NULL = 0 /\ GDT_IDX_CODE64 = 1 /\ GDT_IDX_TSS = 3 /\ TssType = 9
  BY DEF GDT_IDX_NULL, GDT_IDX_CODE64, GDT_IDX_TSS, TssType
<1>3. StaticGDT[1] = Code64
  BY <1>1, <1>2 DEF StaticGDT
<1>4. StaticGDT[3] = [kind |-> "low", p |-> 1, type |-> 9, base_low |-> 0, base_high |-> 0]
  BY <1>1, <1>2 DEF StaticGDT
<1>5. StaticGDT[4] = [kind |-> "high", base_veryhigh |-> 0]
  BY <1>1, <1>2 DEF StaticGDT
<1>6. DOMAIN StaticGDT = 0 .. 4
  BY DEF StaticGDT
<1> QED
  BY <1>3, <1>4, <1>5, <1>6

\* The table the kernel makes of it.
LEMMA KernelGDTIs ==
  ASSUME NEW type
  PROVE  /\ DOMAIN KernelGDT(type, machine.tss) = 0 .. 4
         /\ KernelGDT(type, machine.tss)[1] = Code64
         /\ KernelGDT(type, machine.tss)[3] = [kind |-> "low", p |-> 1, type |-> type,
                                  base_low |-> machine.tss % 8, base_high |-> BaseHigh(machine.tss)]
         /\ KernelGDT(type, machine.tss)[4] = [kind |-> "high",
                                               base_veryhigh |-> (machine.tss \div 16) % 16]
<1>1. 0 \in 0 .. 4 /\ 1 \in 0 .. 4 /\ 3 \in 0 .. 4 /\ 4 \in 0 .. 4
  OBVIOUS
<1>2. StaticGDT[1] = Code64
  BY <1>1, StaticGDTIs
<1> QED
  BY <1>1, <1>2 DEF KernelGDT

\* The fields of its two entries for the TSS.
LEMMA TssIs ==
  ASSUME NEW type
  PROVE  LET g == KernelGDT(type, machine.tss)
         IN  /\ g[3].kind = "low" /\ g[3].type = type /\ g[3].p = 1
             /\ g[3].base_low = machine.tss % 8 /\ g[3].base_high = BaseHigh(machine.tss)
             /\ g[4].base_veryhigh = (machine.tss \div 16) % 16
<1>1. PICK low, high, veryhigh :
        /\ low = machine.tss % 8 /\ high = BaseHigh(machine.tss)
        /\ veryhigh = (machine.tss \div 16) % 16
  OBVIOUS
<1>2. PICK g : g = KernelGDT(type, machine.tss)
  OBVIOUS
<1>3. /\ g[3] = [kind |-> "low", p |-> 1, type |-> type, base_low |-> low, base_high |-> high]
      /\ g[4] = [kind |-> "high", base_veryhigh |-> veryhigh]
  BY <1>1, <1>2, KernelGDTIs
<1>4. /\ g[3].kind = "low" /\ g[3].type = type /\ g[3].p = 1
      /\ g[3].base_low = low /\ g[3].base_high = high
      /\ g[4].base_veryhigh = veryhigh
  BY <1>3
<1> QED
  BY <1>1, <1>2, <1>4, Zenon

\* The selector of GDT_IDX_CODE64 is good for CS in the kernel's table.
LEMMA CodeExecutable ==
  ASSUME gdtr = "kernel", GDT = KernelGDT(11, machine.tss)
  PROVE  Executable(8) /\ Executable(MAKE_DESCRIPTOR(GDT_IDX_CODE64))
<1>1. InUse = KernelGDT(11, machine.tss)
  BY DEF InUse
<1>2. MAKE_DESCRIPTOR(GDT_IDX_CODE64) = 8 /\ 8 \div 8 = 1 /\ 1 \in 0 .. 4
  BY DEF MAKE_DESCRIPTOR, GDT_IDX_CODE64
<1>3. /\ Code64.kind = "segment" /\ Code64.p = 1 /\ Code64.e = 1 /\ Code64.l = 1
      /\ Code64.db = 0
  BY DEF Code64, CodeSegment
<1>4. Executable(8)
  BY <1>1, <1>2, <1>3, KernelGDTIs DEF Executable
<1> QED
  BY <1>2, <1>4

\* The null selector is good for a data segment.
LEMMA NullLoadable ==
  Loadable(0)
BY DEF Loadable

\* A gate of the kernel's leads to its stub.
LEMMA GateEnters ==
  ASSUME Sound, gdtr = "kernel", GDT = KernelGDT(11, machine.tss)
  PROVE  Enters
<1>1. ~ClacFaults
  BY DEF Sound, ClacFaults
<1>2. Gate.p = 1 /\ Gate.selector = MAKE_DESCRIPTOR(GDT_IDX_CODE64)
  BY DEF Gate
<1>3. Gate.offset_low = machine.stub % 4 /\ Gate.offset_high = (machine.stub \div 4) % 64
  BY DEF Gate
<1>4. machine.stub \in Int /\ 0 <= machine.stub /\ machine.stub <= 255
  BY MachineIs DEF Sound
<1>5. (machine.stub % 4) + 4 * ((machine.stub \div 4) % 64) = machine.stub
  BY <1>4, CutAndJoined
<1> QED
  BY <1>1, <1>2, <1>3, <1>5, CodeExecutable DEF Enters

\* load_gdt's table.
LEMMA TableFilled ==
  ASSUME GDT = StaticGDT
  PROVE  [GDT EXCEPT ![GDT_IDX_TSS].base_low = machine.tss % 8,
                     ![GDT_IDX_TSS].base_high = BaseHigh(machine.tss),
                     ![GDT_IDX_TSS + 1].base_veryhigh = (machine.tss \div 16) % 16]
         = KernelGDT(9, machine.tss)
<1>1. GDT_IDX_TSS = 3 /\ GDT_IDX_TSS + 1 = 4
  BY DEF GDT_IDX_TSS
<1>2. PICK low : low = machine.tss % 8
  OBVIOUS
<1>3. PICK high : high = BaseHigh(machine.tss)
  OBVIOUS
<1>4. PICK veryhigh : veryhigh = (machine.tss \div 16) % 16
  OBVIOUS
<1>5. PICK g : g = [StaticGDT EXCEPT ![3].base_low = low, ![3].base_high = high,
                                     ![4].base_veryhigh = veryhigh]
  OBVIOUS
<1>6. 3 \in 0 .. 4 /\ 4 \in 0 .. 4
  OBVIOUS
<1>7. DOMAIN g = 0 .. 4 /\ g = [i \in 0 .. 4 |-> g[i]]
  BY <1>5, StaticGDTIs
<1>8. g[3] = [kind |-> "low", p |-> 1, type |-> 9, base_low |-> low, base_high |-> high]
  BY <1>5, <1>6, StaticGDTIs
<1>9. g[4] = [kind |-> "high", base_veryhigh |-> veryhigh]
  BY <1>5, <1>6, StaticGDTIs
<1>10. \A i \in 0 .. 4 : i # 3 /\ i # 4 => g[i] = StaticGDT[i]
  BY <1>5, StaticGDTIs
<1>11. \A i \in 0 .. 4 : g[i] = KernelGDT(9, machine.tss)[i]
  BY <1>2, <1>3, <1>4, <1>8, <1>9, <1>10 DEF KernelGDT
<1>12. g = KernelGDT(9, machine.tss)
  BY <1>7, <1>11 DEF KernelGDT
<1> QED
  BY <1>1, <1>2, <1>3, <1>4, <1>5, <1>12, Zenon

\* ltr's.
LEMMA TableBusy ==
  ASSUME GDT = KernelGDT(9, machine.tss)
  PROVE  [GDT EXCEPT ![GDT_IDX_TSS].type = 11] = KernelGDT(11, machine.tss)
<1>1. GDT_IDX_TSS = 3 /\ 3 \in 0 .. 4
  BY DEF GDT_IDX_TSS
<1>2. PICK g : g = [KernelGDT(9, machine.tss) EXCEPT ![3].type = 11]
  OBVIOUS
<1>3. DOMAIN g = 0 .. 4 /\ g = [i \in 0 .. 4 |-> g[i]]
  BY <1>2, KernelGDTIs
<1>4. g[3] = KernelGDT(11, machine.tss)[3]
  <2>1. PICK low, high : low = machine.tss % 8 /\ high = BaseHigh(machine.tss)
    OBVIOUS
  <2>2. KernelGDT(9, machine.tss)[3] = [kind |-> "low", p |-> 1, type |-> 9,
                                        base_low |-> low, base_high |-> high]
    BY <2>1, KernelGDTIs
  <2>3. KernelGDT(11, machine.tss)[3] = [kind |-> "low", p |-> 1, type |-> 11,
                                         base_low |-> low, base_high |-> high]
    BY <2>1, KernelGDTIs
  <2>4. g[3] = [KernelGDT(9, machine.tss)[3] EXCEPT !.type = 11]
    BY <1>1, <1>2, KernelGDTIs
  <2>5. g[3] = [kind |-> "low", p |-> 1, type |-> 11, base_low |-> low, base_high |-> high]
    BY <2>2, <2>4
  <2> QED
    BY <2>3, <2>5
<1>5. \A i \in 0 .. 4 : i # 3 => g[i] = KernelGDT(9, machine.tss)[i]
  BY <1>2, KernelGDTIs
<1>6. \A i \in 0 .. 4 : i # 3 => KernelGDT(9, machine.tss)[i] = KernelGDT(11, machine.tss)[i]
  BY DEF KernelGDT
<1>7. g = KernelGDT(11, machine.tss)
  BY <1>3, <1>4, <1>5, <1>6, KernelGDTIs DEF KernelGDT
<1> QED
  BY <1>1, <1>2, <1>7, Zenon

-----------------------------------------------------------------------------
(* Main's steps.                                                           *)

\* A step that neither prints nor panics is main's.
LEMMA MainOnly ==
  ASSUME IInv, NEW step, At(step), step \notin {"kprint", "panic", "halt"}
  PROVE  /\ Len(frames) = 1 /\ Stacked(frames) /\ Sound
         /\ \E n, j : /\ Place(n, j) /\ frames[1].left = Left(n, j) /\ Progress(n, j)
                      /\ Coming(n, j) = step
<1>1. Stacked(frames) /\ Sound
  BY DEF IInv
<1>2. Top.left # <<>> /\ Head(Top.left) = step
  BY DEF At
<1>3. Len(frames) = 1
  BY <1>1, <1>2, TopIs, HandlerIs
<1>4. PICK n, j : Place(n, j) /\ frames[1].left = Left(n, j) /\ Progress(n, j)
  BY DEF IInv
<1>5. Head(frames[1].left) = step
  BY <1>2, <1>3 DEF Top
<1>6. Coming(n, j) = step
  BY <1>4, <1>5, LeftIs
<1> QED
  BY <1>1, <1>3, <1>4, <1>6

\* Main goes on to its next step.
LEMMA MainGoesOn ==
  ASSUME Stacked(frames), Len(frames) = 1,
         NEW n, NEW j, Place(n, j), frames[1].left = Left(n, j), n # 16,
         Continue(Done(Top)), Sound',
         NEW m, NEW k, IF j = 0 THEN m = n + 1 /\ k = 0 ELSE m = n /\ k = j - 1,
         Progress(m, k)'
  PROVE  IInv'
<1>1. Top = frames[1] /\ Top \in Activation /\ Top.who = "main"
  BY TopIs, Zenon DEF Top, Stacked
<1>2. Left(n, j) \in Seq(Steps) /\ Left(n, j) # <<>> /\ Tail(Left(n, j)) = Left(m, k)
  BY LeftIs
<1>3. /\ Done(Top).left = Left(m, k) /\ Done(Top).who = "main"
      /\ Done(Top) \in Activation
  <2>1. Tail(Top.left) \in Seq(Steps)
    BY <1>1, <1>2, HeadTailProperties
  <2> QED
    BY <1>1, <1>2, <2>1 DEF Done, Activation
<1>4. Place(m, k)
  BY DEF Place
<1>5. PICK a \in Activation : a = Done(Top)
  BY <1>3
<1>6. frames' = With(frames, a)
  BY <1>5, Zenon DEF Continue, With
<1>7. /\ Stacked(With(frames, a)) /\ Len(With(frames, a)) = Len(frames)
      /\ With(frames, a)[1] = a
  BY <1>3, <1>5, Replaced
<1>8. Stacked(frames') /\ Len(frames') = 1 /\ frames'[1] = a
  BY <1>6, <1>7
<1>9. Stacked(frames)'
  BY <1>8
<1> QED
  BY <1>3, <1>4, <1>5, <1>8, <1>9 DEF IInv

\* It goes on to the next of its sixteen.
LEMMA MainSteps ==
  ASSUME Stacked(frames), Len(frames) = 1,
         NEW n \in 1 .. 15, Place(n, 0), frames[1].left = Left(n, 0),
         Continue(Done(Top)), Sound', Progress(n + 1, 0)'
  PROVE  IInv'
<1>1. n # 16 /\ (IF 0 = 0 THEN n + 1 = n + 1 /\ 0 = 0 ELSE n + 1 = n /\ 0 = 0 - 1)
  OBVIOUS
<1> QED
  BY <1>1, MainGoesOn

\* security_init sets the bits the processor has.
LEMMA SecurityInit ==
  ASSUME IInv, security_init
  PROVE  IInv'
<1>1. At("security_init") /\ "security_init" \notin {"kprint", "panic", "halt"}
  BY DEF security_init
<1>2. Len(frames) = 1 /\ Stacked(frames) /\ Sound
  BY <1>1, MainOnly
<1>3. PICK n, j : /\ Place(n, j) /\ frames[1].left = Left(n, j) /\ Progress(n, j)
                  /\ Coming(n, j) = "security_init"
  BY <1>1, MainOnly
<1>4. n = 1 /\ j = 0
  BY <1>3, Where
<1>5. Protected(1) /\ Loaded(1) /\ Writing(1, 0)
  BY <1>3, <1>4 DEF Progress
<1>6. ~Reserved(cr4')
  <2>1. machine \in Machines /\ ~Reserved(cr4)
    BY <1>2 DEF Sound
  <2>2. cr4' = cr4 \cup {FeatureBit[f] : f \in machine.features}
    BY DEF security_init, Supported
  <2>3. machine.features \subseteq DOMAIN FeatureBit
    BY <2>1, MachineIs
  <2> SUFFICES ASSUME NEW f \in DOMAIN FeatureBit, FeatureBit[f] \in cr4', f \notin machine.features
               PROVE  FALSE
    BY DEF Reserved
  <2>4. FeatureBit[f] \notin cr4
    BY <2>1 DEF Reserved
  <2>5. PICK h \in machine.features : FeatureBit[h] = FeatureBit[f]
    BY <2>2, <2>4
  <2>6. h = f
    BY <2>3, <2>5, OneBit
  <2> QED
    BY <2>5, <2>6
<1>7. fault' = "" /\ Continue(Done(Top)) /\ iflag' = iflag /\ machine' = machine
  BY <1>6 DEF security_init, Does
<1>8. Protected(2)'
  <2>1. cr4' = cr4 \cup {FeatureBit[f] : f \in machine.features}
    BY DEF security_init, Supported
  <2>2. cr0 = machine.cr0
    BY <1>5 DEF Protected
  <2>3. {FeatureBit[f] : f \in machine.features} \subseteq cr4'
    BY <2>1
  <2>4. cr0' = cr0
    BY DEF security_init
  <2>5. machine' = machine
    BY <1>7
  <2> QED
    BY <2>2, <2>3, <2>4, <2>5 DEF Protected
<1>9. Loaded(2)'
  <2>1. UNCHANGED <<machine, segmentVars, idtr>>
    BY <1>7 DEF security_init
  <2> QED
    BY <1>5, <2>1, LoadedKept
<1>10. Writing(2, 0)'
  <2>1. UNCHANGED <<machine, writerVars>>
    BY <1>7 DEF security_init
  <2> QED
    BY <1>5, <2>1, WritingKept
<1>11. Sound'
  <2>1. cr4' = cr4 \cup {FeatureBit[f] : f \in machine.features}
    BY DEF security_init, Supported
  <2>2. HAS_SMAP' => "SMAP" \in machine.features
    BY DEF security_init, Supported
  <2>3. g_writer' = g_writer /\ flanterm_context' = flanterm_context
    BY DEF security_init, writerVars
  <2>4. ~Reserved(cr4)'
    BY <1>6, <1>7 DEF Reserved
  <2>5. NoOtherFault'
    BY <1>7, Faultless
  <2> QED
    BY <1>2, <1>7, <2>1, <2>2, <2>3, <2>4, <2>5 DEF Sound
<1>12. Progress(2, 0)'
  BY <1>8, <1>9, <1>10 DEF Progress
<1>13. n \in 1 .. 15 /\ Place(n, 0) /\ frames[1].left = Left(n, 0)
  BY <1>3, <1>4
<1>14. Progress(n + 1, 0)'
  BY <1>4, <1>12
<1> QED
  BY <1>2, <1>7, <1>11, <1>13, <1>14, MainSteps

\* enforce_smap executes clac where there is SMAP.
LEMMA EnforceSmap ==
  ASSUME IInv, enforce_smap
  PROVE  IInv'
<1>1. At("enforce_smap") /\ "enforce_smap" \notin {"kprint", "panic", "halt"}
  BY DEF enforce_smap
<1>2. Len(frames) = 1 /\ Stacked(frames) /\ Sound
  BY <1>1, MainOnly
<1>3. PICK n, j : /\ Place(n, j) /\ frames[1].left = Left(n, j) /\ Progress(n, j)
                  /\ Coming(n, j) = "enforce_smap"
  BY <1>1, MainOnly
<1>4. n = 2 /\ j = 0
  BY <1>3, Where
<1>5. Protected(2) /\ Loaded(2) /\ Writing(2, 0)
  BY <1>3, <1>4 DEF Progress
<1>6. ~ClacFaults
  BY <1>2 DEF Sound, ClacFaults
<1>7. fault' = "" /\ Continue(Done(Top)) /\ iflag' = iflag /\ machine' = machine
  BY <1>6 DEF enforce_smap, Does
<1>8. Protected(3)'
  <2>1. UNCHANGED <<machine, crVars>>
    BY <1>7 DEF enforce_smap
  <2> QED
    BY <1>5, <2>1, ProtectedKept
<1>9. Loaded(3)'
  <2>1. UNCHANGED <<machine, segmentVars, idtr>>
    BY <1>7 DEF enforce_smap
  <2> QED
    BY <1>5, <2>1, LoadedKept
<1>10. Writing(3, 0)'
  <2>1. UNCHANGED <<machine, writerVars>>
    BY <1>7 DEF enforce_smap
  <2> QED
    BY <1>5, <2>1, WritingKept
<1>11. Sound'
  <2>1. UNCHANGED <<machine, crVars, writerVars>> /\ iflag' = FALSE
    BY <1>2, <1>7 DEF enforce_smap, Sound
  <2> QED
    BY <1>2, <1>7, <2>1, SoundKept
<1>12. Progress(3, 0)'
  BY <1>8, <1>9, <1>10 DEF Progress
<1>13. n \in 1 .. 15 /\ Place(n, 0) /\ frames[1].left = Left(n, 0)
  BY <1>3, <1>4
<1>14. Progress(n + 1, 0)'
  BY <1>4, <1>12
<1> QED
  BY <1>2, <1>7, <1>11, <1>13, <1>14, MainSteps

\* lgdt, with the address of the TSS in the table.
LEMMA Lgdt ==
  ASSUME IInv, lgdt
  PROVE  IInv'
<1>1. At("lgdt") /\ "lgdt" \notin {"kprint", "panic", "halt"}
  BY DEF lgdt
<1>2. Len(frames) = 1 /\ Stacked(frames) /\ Sound
  BY <1>1, MainOnly
<1>3. PICK n, j : /\ Place(n, j) /\ frames[1].left = Left(n, j) /\ Progress(n, j)
                  /\ Coming(n, j) = "lgdt"
  BY <1>1, MainOnly
<1>4. n = 5 /\ j = 0
  BY <1>3, Where
<1>5. Protected(5) /\ Loaded(5) /\ Writing(5, 0)
  BY <1>3, <1>4 DEF Progress
<1>7. fault' = "" /\ Continue(Done(Top)) /\ iflag' = iflag /\ machine' = machine
  BY DEF lgdt, Does
<1>8. Protected(6)'
  <2>1. UNCHANGED <<machine, crVars>>
    BY <1>7 DEF lgdt
  <2> QED
    BY <1>5, <2>1, ProtectedKept
<1>9. Loaded(6)'
  <2>1. GDT = StaticGDT
    BY <1>5 DEF Loaded
  <2>2. GDT' = KernelGDT(9, machine.tss)
    BY <2>1, TableFilled DEF lgdt
  <2>3. machine' = machine
    BY <1>7
  <2>4. GDT' = KernelGDT(9, machine'.tss)
    BY <2>2, <2>3
  <2>5. gdtr' = "kernel" /\ idtr' = idtr
    BY DEF lgdt
  <2>6. idtr = "loader"
    BY <1>5 DEF Loaded
  <2> QED
    BY <2>4, <2>5, <2>6 DEF Loaded
<1>10. Writing(6, 0)'
  <2>1. UNCHANGED <<machine, writerVars>>
    BY <1>7 DEF lgdt
  <2> QED
    BY <1>5, <2>1, WritingKept
<1>11. Sound'
  <2>1. UNCHANGED <<machine, crVars, writerVars>> /\ iflag' = FALSE
    BY <1>2, <1>7 DEF lgdt, Sound
  <2> QED
    BY <1>2, <1>7, <2>1, SoundKept
<1>12. Progress(6, 0)'
  BY <1>8, <1>9, <1>10 DEF Progress
<1>13. n \in 1 .. 15 /\ Place(n, 0) /\ frames[1].left = Left(n, 0)
  BY <1>3, <1>4
<1>14. Progress(n + 1, 0)'
  BY <1>4, <1>12
<1> QED
  BY <1>2, <1>7, <1>11, <1>13, <1>14, MainSteps

\* flush_gdt loads the null selector and finds the return address.
LEMMA FlushSegments ==
  ASSUME IInv, flush_segments
  PROVE  IInv'
<1>0. ss' = 0
  <2>1. ss' = MAKE_DESCRIPTOR(GDT_IDX_NULL)
    BY Zenon DEF flush_segments
  <2>2. MAKE_DESCRIPTOR(GDT_IDX_NULL) = 0
    BY DEF MAKE_DESCRIPTOR, GDT_IDX_NULL
  <2> QED
    BY <2>1, <2>2
<1>1. At("flush_segments") /\ "flush_segments" \notin {"kprint", "panic", "halt"}
  BY DEF flush_segments
<1>2. Len(frames) = 1 /\ Stacked(frames) /\ Sound
  BY <1>1, MainOnly
<1>3. PICK n, j : /\ Place(n, j) /\ frames[1].left = Left(n, j) /\ Progress(n, j)
                  /\ Coming(n, j) = "flush_segments"
  BY <1>1, MainOnly
<1>4. n = 7 /\ j = 0
  BY <1>3, Where
<1>5. Protected(7) /\ Loaded(7) /\ Writing(7, 0)
  BY <1>3, <1>4 DEF Progress
<1>6. Loadable(ss')
  <2>1. ss' = 0
    BY <1>0
  <2> QED
    BY <2>1 DEF Loadable
<1>7. fault' = "" /\ Continue(Done(Top)) /\ iflag' = iflag /\ machine' = machine
  <2>1. fault' = IF Loadable(ss') THEN "" ELSE "#GP"
    BY Zenon DEF flush_segments, Does
  <2>2. fault' = ""
    BY <1>6, <2>1
  <2>3. Continue(Done(Top)) /\ UNCHANGED <<iflag, apicVars, machine>>
    BY Zenon DEF flush_segments, Does
  <2> QED
    BY <2>2, <2>3
<1>8. Protected(8)'
  <2>1. UNCHANGED <<machine, crVars>>
    BY <1>7 DEF flush_segments
  <2> QED
    BY <1>5, <2>1, ProtectedKept
<1>9. Loaded(8)'
  <2>1. /\ gdtr' = gdtr /\ GDT' = GDT /\ tr' = tr /\ idtr' = idtr
        /\ saved' = Popped
    BY Zenon DEF flush_segments, Popped
  <2>2. ss' = 0
    BY <1>0
  <2>3. machine' = machine
    BY <1>7
  <2> QED
    <3>1. /\ gdtr = "kernel" /\ GDT = KernelGDT(11, machine.tss) /\ tr = machine.tss
          /\ idtr = "loader"
      BY <1>5 DEF Loaded
    <3> QED
      BY <2>1, <2>2, <2>3, <3>1 DEF Loaded
<1>10. Writing(8, 0)'
  <2>1. UNCHANGED <<machine, writerVars>>
    BY <1>7 DEF flush_segments
  <2> QED
    BY <1>5, <2>1, WritingKept
<1>11. Sound'
  <2>1. UNCHANGED <<machine, crVars, writerVars>> /\ iflag' = FALSE
    BY <1>2, <1>7 DEF flush_segments, Sound
  <2> QED
    BY <1>2, <1>7, <2>1, SoundKept
<1>12. Progress(8, 0)'
  BY <1>8, <1>9, <1>10 DEF Progress
<1>13. n \in 1 .. 15 /\ Place(n, 0) /\ frames[1].left = Left(n, 0)
  BY <1>3, <1>4
<1>14. Progress(n + 1, 0)'
  BY <1>4, <1>12
<1> QED
  BY <1>2, <1>7, <1>11, <1>13, <1>14, MainSteps

\* It pushes them for a far return.
LEMMA FlushPush ==
  ASSUME IInv, flush_push
  PROVE  IInv'
<1>1. At("flush_push") /\ "flush_push" \notin {"kprint", "panic", "halt"}
  BY DEF flush_push
<1>2. Len(frames) = 1 /\ Stacked(frames) /\ Sound
  BY <1>1, MainOnly
<1>3. PICK n, j : /\ Place(n, j) /\ frames[1].left = Left(n, j) /\ Progress(n, j)
                  /\ Coming(n, j) = "flush_push"
  BY <1>1, MainOnly
<1>4. n = 8 /\ j = 0
  BY <1>3, Where
<1>5. Protected(8) /\ Loaded(8) /\ Writing(8, 0)
  BY <1>3, <1>4 DEF Progress
<1>7. fault' = "" /\ Continue(Done(Top)) /\ iflag' = iflag /\ machine' = machine
  BY DEF flush_push, Does
<1>8. Protected(9)'
  <2>1. UNCHANGED <<machine, crVars>>
    BY <1>7 DEF flush_push
  <2> QED
    BY <1>5, <2>1, ProtectedKept
<1>9. Loaded(9)'
  <2>1. /\ gdtr' = gdtr /\ GDT' = GDT /\ tr' = tr /\ ss' = ss /\ idtr' = idtr
    BY DEF flush_push
  <2>2. saved' = Pushed
    <3>1. saved = Popped
      BY <1>5 DEF Loaded
    <3>2. saved' = <<Head(saved), 1 * 8>>
      BY DEF flush_push, FarFrame, MAKE_DESCRIPTOR, GDT_IDX_CODE64
    <3>3. Head(Popped) = "return_address"
      BY DEF Popped
    <3>4. 1 * 8 = 8
      OBVIOUS
    <3> QED
      BY <3>1, <3>2, <3>3, <3>4, Zenon DEF Pushed
  <2>3. machine' = machine
    BY <1>7
  <2> QED
    <3>1. /\ gdtr = "kernel" /\ GDT = KernelGDT(11, machine.tss) /\ tr = machine.tss
          /\ idtr = "loader" /\ ss = 0
      BY <1>5 DEF Loaded
    <3> QED
      BY <2>1, <2>2, <2>3, <3>1 DEF Loaded
<1>10. Writing(9, 0)'
  <2>1. UNCHANGED <<machine, writerVars>>
    BY <1>7 DEF flush_push
  <2> QED
    BY <1>5, <2>1, WritingKept
<1>11. Sound'
  <2>1. UNCHANGED <<machine, crVars, writerVars>> /\ iflag' = FALSE
    BY <1>2, <1>7 DEF flush_push, Sound
  <2> QED
    BY <1>2, <1>7, <2>1, SoundKept
<1>12. Progress(9, 0)'
  BY <1>8, <1>9, <1>10 DEF Progress
<1>13. n \in 1 .. 15 /\ Place(n, 0) /\ frames[1].left = Left(n, 0)
  BY <1>3, <1>4
<1>14. Progress(n + 1, 0)'
  BY <1>4, <1>12
<1> QED
  BY <1>2, <1>7, <1>11, <1>13, <1>14, MainSteps

\* lidt.
LEMMA Lidt ==
  ASSUME IInv, lidt
  PROVE  IInv'
<1>1. At("lidt") /\ "lidt" \notin {"kprint", "panic", "halt"}
  BY DEF lidt
<1>2. Len(frames) = 1 /\ Stacked(frames) /\ Sound
  BY <1>1, MainOnly
<1>3. PICK n, j : /\ Place(n, j) /\ frames[1].left = Left(n, j) /\ Progress(n, j)
                  /\ Coming(n, j) = "lidt"
  BY <1>1, MainOnly
<1>4. n = 10 /\ j = 0
  BY <1>3, Where
<1>5. Protected(10) /\ Loaded(10) /\ Writing(10, 0)
  BY <1>3, <1>4 DEF Progress
<1>7. fault' = "" /\ Continue(Done(Top)) /\ iflag' = iflag /\ machine' = machine
  BY DEF lidt, Does
<1>8. Protected(11)'
  <2>1. UNCHANGED <<machine, crVars>>
    BY <1>7 DEF lidt
  <2> QED
    BY <1>5, <2>1, ProtectedKept
<1>9. Loaded(11)'
  <2>1. /\ gdtr' = gdtr /\ GDT' = GDT /\ tr' = tr /\ ss' = ss /\ cs' = cs /\ idtr' = "kernel"
    BY DEF lidt, segmentVars
  <2>3. machine' = machine
    BY <1>7
  <2> QED
    <3>1. /\ gdtr = "kernel" /\ GDT = KernelGDT(11, machine.tss) /\ tr = machine.tss
          /\ ss = 0 /\ cs = 8
      BY <1>5 DEF Loaded
    <3> QED
      BY <2>1, <2>3, <3>1 DEF Loaded
<1>10. Writing(11, 0)'
  <2>1. UNCHANGED <<machine, writerVars>>
    BY <1>7 DEF lidt
  <2> QED
    BY <1>5, <2>1, WritingKept
<1>11. Sound'
  <2>1. UNCHANGED <<machine, crVars, writerVars>> /\ iflag' = FALSE
    BY <1>2, <1>7 DEF lidt, Sound
  <2> QED
    BY <1>2, <1>7, <2>1, SoundKept
<1>12. Progress(11, 0)'
  BY <1>8, <1>9, <1>10 DEF Progress
<1>13. n \in 1 .. 15 /\ Place(n, 0) /\ frames[1].left = Left(n, 0)
  BY <1>3, <1>4
<1>14. Progress(n + 1, 0)'
  BY <1>4, <1>12
<1> QED
  BY <1>2, <1>7, <1>11, <1>13, <1>14, MainSteps

\* fp_init keeps the bits of CR4 it finds.
LEMMA FpInit ==
  ASSUME IInv, fp_init
  PROVE  IInv'
<1>1. At("fp_init") /\ "fp_init" \notin {"kprint", "panic", "halt"}
  BY DEF fp_init
<1>2. Len(frames) = 1 /\ Stacked(frames) /\ Sound
  BY <1>1, MainOnly
<1>3. PICK n, j : /\ Place(n, j) /\ frames[1].left = Left(n, j) /\ Progress(n, j)
                  /\ Coming(n, j) = "fp_init"
  BY <1>1, MainOnly
<1>4. n = 13 /\ j = 0
  BY <1>3, Where
<1>5. Protected(13) /\ Loaded(13) /\ Writing(13, 0)
  BY <1>3, <1>4 DEF Progress
<1>6. ~Reserved(cr4')
  <2>1. ~Reserved(cr4)
    BY <1>2 DEF Sound
  <2>2. cr4' = cr4 \cup {10, 9}
    BY DEF fp_init, NewCr4, CR4_OSXMMEXCPT, CR4_OSFXSR
  <2>3. \A f \in DOMAIN FeatureBit : FeatureBit[f] \notin {10, 9}
    BY DEF FeatureBit
  <2> QED
    BY <2>1, <2>2, <2>3 DEF Reserved
<1>7. fault' = "" /\ Continue(Done(Top)) /\ iflag' = iflag /\ machine' = machine
  BY <1>6 DEF fp_init, Does
<1>8. Protected(14)'
  <2>1. /\ cr4' = cr4 \cup {CR4_OSXMMEXCPT, CR4_OSFXSR}
        /\ cr0' = (cr0 \ {CR0_EM}) \cup {CR0_NE, CR0_TS, CR0_MP}
    BY DEF fp_init, NewCr4
  <2>2. cr0 = machine.cr0 /\ {FeatureBit[f] : f \in machine.features} \subseteq cr4
    BY <1>5 DEF Protected
  <2>3. CR0_EM \notin cr0'
    BY <2>1 DEF CR0_EM, CR0_NE, CR0_TS, CR0_MP
  <2>4. /\ {CR4_OSFXSR, CR4_OSXMMEXCPT} \subseteq cr4'
        /\ {CR0_TS, CR0_MP, CR0_NE} \cup (machine.cr0 \ {CR0_EM}) \subseteq cr0'
    BY <2>1, <2>2
  <2>5. {FeatureBit[f] : f \in machine.features} \subseteq cr4'
    BY <2>1, <2>2
  <2>6. machine' = machine
    BY <1>7
  <2> QED
    BY <2>3, <2>4, <2>5, <2>6 DEF Protected
<1>9. Loaded(14)'
  <2>1. UNCHANGED <<machine, segmentVars, idtr>>
    BY <1>7 DEF fp_init
  <2> QED
    BY <1>5, <2>1, LoadedKept
<1>10. Writing(14, 0)'
  <2>1. UNCHANGED <<machine, writerVars>>
    BY <1>7 DEF fp_init
  <2> QED
    BY <1>5, <2>1, WritingKept
<1>11. Sound'
  <2>1. cr4' = cr4 \cup {CR4_OSXMMEXCPT, CR4_OSFXSR} /\ HAS_SMAP' = HAS_SMAP
    BY DEF fp_init, NewCr4
  <2>2. g_writer' = g_writer /\ flanterm_context' = flanterm_context
    BY DEF fp_init, writerVars
  <2>3. ~Reserved(cr4)'
    BY <1>6, <1>7 DEF Reserved
  <2>4. NoOtherFault'
    BY <1>7, Faultless
  <2> QED
    BY <1>2, <1>7, <2>1, <2>2, <2>3, <2>4 DEF Sound
<1>12. Progress(14, 0)'
  BY <1>8, <1>9, <1>10 DEF Progress
<1>13. n \in 1 .. 15 /\ Place(n, 0) /\ frames[1].left = Left(n, 0)
  BY <1>3, <1>4
<1>14. Progress(n + 1, 0)'
  BY <1>4, <1>12
<1> QED
  BY <1>2, <1>7, <1>11, <1>13, <1>14, MainSteps

-----------------------------------------------------------------------------
(* Main's steps that have cases.                                           *)

\* ltr finds the TSS's two entries and puts its address together.
LEMMA Ltr ==
  ASSUME IInv, ltr
  PROVE  IInv'
<1>1. At("ltr") /\ "ltr" \notin {"kprint", "panic", "halt"}
  BY DEF ltr
<1>2. Len(frames) = 1 /\ Stacked(frames) /\ Sound
  BY <1>1, MainOnly
<1>3. PICK n, j : /\ Place(n, j) /\ frames[1].left = Left(n, j) /\ Progress(n, j)
                  /\ Coming(n, j) = "ltr"
  BY <1>1, MainOnly
<1>4. n = 6 /\ j = 0
  BY <1>3, Where
<1>5. Protected(6) /\ Loaded(6) /\ Writing(6, 0)
  BY <1>3, <1>4 DEF Progress
<1>6. /\ {GDT_IDX_TSS, GDT_IDX_TSS + 1} \subseteq DOMAIN InUse
      /\ InUse[GDT_IDX_TSS].kind = "low" /\ InUse[GDT_IDX_TSS].type = 9
      /\ InUse[GDT_IDX_TSS].p = 1
  <2>1. gdtr = "kernel" /\ GDT = KernelGDT(9, machine.tss)
    BY <1>5 DEF Loaded
  <2>2. InUse = KernelGDT(9, machine.tss)
    BY <2>1 DEF InUse
  <2>3. 3 \in 0 .. 4 /\ 4 \in 0 .. 4 /\ GDT_IDX_TSS = 3 /\ GDT_IDX_TSS + 1 = 4
    BY DEF GDT_IDX_TSS
  <2>4. PICK entry : entry = KernelGDT(9, machine.tss)[3]
    OBVIOUS
  <2>5. entry.kind = "low" /\ entry.type = 9 /\ entry.p = 1
    BY <2>4, TssIs
  <2> QED
    BY <2>2, <2>3, <2>4, <2>5, KernelGDTIs
<1>7. fault' = "" /\ Continue(Done(Top)) /\ iflag' = iflag /\ machine' = machine
  BY <1>6 DEF ltr, Does
<1>8. Protected(7)'
  <2>1. UNCHANGED <<machine, crVars>>
    BY <1>7 DEF ltr
  <2> QED
    BY <1>5, <2>1, ProtectedKept
<1>9. Loaded(7)'
  <2>1. gdtr = "kernel" /\ GDT = KernelGDT(9, machine.tss) /\ idtr = "loader"
    BY <1>5 DEF Loaded
  <2>2. GDT' = KernelGDT(11, machine.tss)
    BY <1>6, <2>1, TableBusy DEF ltr
  <2>3. tr' = machine.tss
    <3>1. /\ GDT[3].base_low = machine.tss % 8 /\ GDT[3].base_high = BaseHigh(machine.tss)
          /\ GDT[4].base_veryhigh = (machine.tss \div 16) % 16
      BY <2>1, TssIs
    <3>2. tr' = GDT[3].base_low + 8 * GDT[3].base_high + 16 * GDT[4].base_veryhigh
      <4>1. GDT_IDX_TSS = 3 /\ GDT_IDX_TSS + 1 = 4
        BY DEF GDT_IDX_TSS
      <4>2. tr' = GDT[GDT_IDX_TSS].base_low + 8 * GDT[GDT_IDX_TSS].base_high
                  + 16 * GDT[GDT_IDX_TSS + 1].base_veryhigh
        BY <1>6 DEF ltr
      <4> QED
        BY <4>1, <4>2, Zenon
    <3>3. machine.tss \in Int /\ 0 <= machine.tss /\ machine.tss <= 255
      BY <1>2, MachineIs DEF Sound
    <3>4. (machine.tss % 8) + 8 * BaseHigh(machine.tss) + 16 * ((machine.tss \div 16) % 16)
          = machine.tss
      BY <3>3, CutAndJoined
    <3> QED
      BY <3>1, <3>2, <3>4, Zenon
  <2>4. gdtr' = gdtr /\ idtr' = idtr
    BY DEF ltr
  <2>5. machine' = machine
    BY <1>7
  <2> QED
    BY <2>1, <2>2, <2>3, <2>4, <2>5 DEF Loaded
<1>10. Writing(7, 0)'
  <2>1. UNCHANGED <<machine, writerVars>>
    BY <1>7 DEF ltr
  <2> QED
    BY <1>5, <2>1, WritingKept
<1>11. Sound'
  <2>1. UNCHANGED <<machine, crVars, writerVars>> /\ iflag' = FALSE
    BY <1>2, <1>7 DEF ltr, Sound
  <2> QED
    BY <1>2, <1>7, <2>1, SoundKept
<1>12. Progress(7, 0)'
  BY <1>8, <1>9, <1>10 DEF Progress
<1>13. n \in 1 .. 15 /\ Place(n, 0) /\ frames[1].left = Left(n, 0)
  BY <1>3, <1>4
<1>14. Progress(n + 1, 0)'
  BY <1>4, <1>12
<1> QED
  BY <1>2, <1>7, <1>11, <1>13, <1>14, MainSteps

\* The far return finds its two words and a segment of code.
LEMMA FlushLretq ==
  ASSUME IInv, flush_lretq
  PROVE  IInv'
<1>1. At("flush_lretq") /\ "flush_lretq" \notin {"kprint", "panic", "halt"}
  BY DEF flush_lretq
<1>2. Len(frames) = 1 /\ Stacked(frames) /\ Sound
  BY <1>1, MainOnly
<1>3. PICK n, j : /\ Place(n, j) /\ frames[1].left = Left(n, j) /\ Progress(n, j)
                  /\ Coming(n, j) = "flush_lretq"
  BY <1>1, MainOnly
<1>4. n = 9 /\ j = 0
  BY <1>3, Where
<1>5. Protected(9) /\ Loaded(9) /\ Writing(9, 0)
  BY <1>3, <1>4 DEF Progress
<1>6. saved[1] = "return_address" /\ saved[2] = 8 /\ Executable(MAKE_DESCRIPTOR(GDT_IDX_CODE64))
  <2>1. gdtr = "kernel" /\ GDT = KernelGDT(11, machine.tss) /\ saved = Pushed
    BY <1>5 DEF Loaded
  <2>2. Executable(MAKE_DESCRIPTOR(GDT_IDX_CODE64))
    BY <2>1, CodeExecutable
  <2>3. Pushed[1] = "return_address" /\ Pushed[2] = 8
    BY DEF Pushed
  <2> QED
    BY <2>1, <2>2, <2>3
<1>7. fault' = "" /\ Continue(Done(Top)) /\ iflag' = iflag /\ machine' = machine
  BY <1>6 DEF flush_lretq, Does
<1>8. Protected(10)'
  <2>1. UNCHANGED <<machine, crVars>>
    BY <1>7 DEF flush_lretq
  <2> QED
    BY <1>5, <2>1, ProtectedKept
<1>9. Loaded(10)'
  <2>1. /\ gdtr = "kernel" /\ GDT = KernelGDT(11, machine.tss) /\ tr = machine.tss
        /\ ss = 0 /\ idtr = "loader"
    BY <1>5 DEF Loaded
  <2>2. gdtr' = gdtr /\ GDT' = GDT /\ tr' = tr /\ ss' = ss /\ idtr' = idtr
    BY DEF flush_lretq
  <2>3. cs' = 8
    BY <1>6 DEF flush_lretq
  <2>4. machine' = machine
    BY <1>7
  <2> QED
    BY <2>1, <2>2, <2>3, <2>4 DEF Loaded
<1>10. Writing(10, 0)'
  <2>1. UNCHANGED <<machine, writerVars>>
    BY <1>7 DEF flush_lretq
  <2> QED
    BY <1>5, <2>1, WritingKept
<1>11. Sound'
  <2>1. UNCHANGED <<machine, crVars, writerVars>> /\ iflag' = FALSE
    BY <1>2, <1>7 DEF flush_lretq, Sound
  <2> QED
    BY <1>2, <1>7, <2>1, SoundKept
<1>12. Progress(10, 0)'
  BY <1>8, <1>9, <1>10 DEF Progress
<1>13. n \in 1 .. 15 /\ Place(n, 0) /\ frames[1].left = Left(n, 0)
  BY <1>3, <1>4
<1>14. Progress(n + 1, 0)'
  BY <1>4, <1>12
<1> QED
  BY <1>2, <1>7, <1>11, <1>13, <1>14, MainSteps

\* A step that leaves the control registers alone and a writer that works.
LEMMA SoundStill ==
  ASSUME Sound, UNCHANGED <<machine, crVars>>, fault' = "", iflag' = FALSE,
         g_writer' = "flanterm" => flanterm_context' = machine'.context
  PROVE  Sound'
<1>1. machine' = machine /\ HAS_SMAP' = HAS_SMAP /\ cr4' = cr4
  BY DEF crVars
<1>2. Reserved(cr4)' = Reserved(cr4)
  BY <1>1, Zenon DEF Reserved
<1>3. NoOtherFault'
  BY Faultless, Zenon
<1> QED
  BY <1>1, <1>2, <1>3, Zenon DEF Sound

\* kprint_configure(serial_write).
LEMMA ConfigureSerial ==
  ASSUME IInv, kprint_configure, At("kprint_configure_serial")
  PROVE  IInv'
<1>1. "kprint_configure_serial" \notin {"kprint", "panic", "halt"}
  OBVIOUS
<1>2. Len(frames) = 1 /\ Stacked(frames) /\ Sound
  BY <1>1, MainOnly
<1>3. PICK n, j : /\ Place(n, j) /\ frames[1].left = Left(n, j) /\ Progress(n, j)
                  /\ Coming(n, j) = "kprint_configure_serial"
  BY <1>1, MainOnly
<1>4. n = 3 /\ j = 0
  BY <1>3, Where
<1>5. Protected(3) /\ Loaded(3) /\ Writing(3, 0)
  BY <1>3, <1>4 DEF Progress
<1>6. g_writer' = "serial" /\ flanterm_context' = flanterm_context
  <2>1. PICK writer \in {"serial", "flanterm"} :
          /\ At(IF writer = "serial" THEN "kprint_configure_serial"
                ELSE "kprint_configure_flanterm")
          /\ g_writer' = writer /\ flanterm_context' = flanterm_context
    BY DEF kprint_configure
  <2>2. writer = "serial"
    BY <2>1 DEF At
  <2> QED
    BY <2>1, <2>2
<1>7. fault' = "" /\ Continue(Done(Top)) /\ iflag' = iflag /\ machine' = machine
  BY <1>6, Zenon DEF kprint_configure, Does
<1>8. Protected(4)'
  <2>1. UNCHANGED <<machine, crVars>>
    BY <1>7 DEF kprint_configure
  <2> QED
    BY <1>5, <2>1, ProtectedKept
<1>9. Loaded(4)'
  <2>1. UNCHANGED <<machine, segmentVars, idtr>>
    BY <1>7 DEF kprint_configure
  <2> QED
    BY <1>5, <2>1, LoadedKept
<1>10. Writing(4, 0)'
  BY <1>6 DEF Writing
<1>11. Sound'
  <2>1. UNCHANGED <<machine, crVars>> /\ iflag' = FALSE /\ fault' = ""
    BY <1>2, <1>7 DEF kprint_configure, Sound
  <2>2. g_writer' = "flanterm" => flanterm_context' = machine'.context
    BY <1>6, <1>7
  <2> QED
    BY <1>2, <2>1, <2>2, SoundStill
<1>12. Progress(4, 0)'
  BY <1>8, <1>9, <1>10 DEF Progress
<1>13. n \in 1 .. 15 /\ Place(n, 0) /\ frames[1].left = Left(n, 0)
  BY <1>3, <1>4
<1>14. Progress(n + 1, 0)'
  BY <1>4, <1>12
<1> QED
  BY <1>2, <1>7, <1>11, <1>13, <1>14, MainSteps

\* kprint_configure(flanterm_write), with the context there is.
LEMMA ConfigureFlanterm ==
  ASSUME IInv, kprint_configure, At("kprint_configure_flanterm")
  PROVE  IInv'
<1>1. "kprint_configure_flanterm" \notin {"kprint", "panic", "halt"}
  OBVIOUS
<1>2. Len(frames) = 1 /\ Stacked(frames) /\ Sound
  BY <1>1, MainOnly
<1>3. PICK n, j : /\ Place(n, j) /\ frames[1].left = Left(n, j) /\ Progress(n, j)
                  /\ Coming(n, j) = "kprint_configure_flanterm"
  BY <1>1, MainOnly
<1>4. n = 12 /\ j = 1
  BY <1>3, Where
<1>5. Protected(12) /\ Loaded(12) /\ Writing(12, 1)
  BY <1>3, <1>4 DEF Progress
<1>6. g_writer' = "flanterm" /\ flanterm_context' = flanterm_context
  <2>1. PICK writer \in {"serial", "flanterm"} :
          /\ At(IF writer = "serial" THEN "kprint_configure_serial"
                ELSE "kprint_configure_flanterm")
          /\ g_writer' = writer /\ flanterm_context' = flanterm_context
    BY DEF kprint_configure
  <2>2. writer = "flanterm"
    BY <2>1 DEF At
  <2> QED
    BY <2>1, <2>2
<1>7. fault' = "" /\ Continue(Done(Top)) /\ iflag' = iflag /\ machine' = machine
  BY <1>6, Zenon DEF kprint_configure, Does
<1>8. Protected(12)'
  <2>1. UNCHANGED <<machine, crVars>>
    BY <1>7 DEF kprint_configure
  <2> QED
    BY <1>5, <2>1, ProtectedKept
<1>9. Loaded(12)'
  <2>1. UNCHANGED <<machine, segmentVars, idtr>>
    BY <1>7 DEF kprint_configure
  <2> QED
    BY <1>5, <2>1, LoadedKept
<1>10. Writing(12, 0)'
  BY <1>6 DEF Writing
<1>11. Sound'
  <2>1. UNCHANGED <<machine, crVars>> /\ iflag' = FALSE /\ fault' = ""
    BY <1>2, <1>7 DEF kprint_configure, Sound
  <2>2. g_writer' = "flanterm" => flanterm_context' = machine'.context
    BY <1>5, <1>6, <1>7 DEF Writing
  <2> QED
    BY <1>2, <2>1, <2>2, SoundStill
<1>12. Progress(12, 0)'
  BY <1>8, <1>9, <1>10 DEF Progress
<1>13. n # 16 /\ (IF j = 0 THEN n = n + 1 /\ 0 = 0 ELSE n = n /\ 0 = j - 1)
  BY <1>4
<1>14. Progress(n, 0)'
  BY <1>4, <1>12
<1> QED
  BY <1>2, <1>3, <1>7, <1>11, <1>13, <1>14, MainGoesOn

\* flanterm_fb_init makes the context, or none.
LEMMA FlantermInit ==
  ASSUME IInv, flanterm_fb_init, At("flanterm_fb_init")
  PROVE  IInv'
<1>1. "flanterm_fb_init" \notin {"kprint", "panic", "halt"}
  OBVIOUS
<1>2. Len(frames) = 1 /\ Stacked(frames) /\ Sound
  BY <1>1, MainOnly
<1>3. PICK n, j : /\ Place(n, j) /\ frames[1].left = Left(n, j) /\ Progress(n, j)
                  /\ Coming(n, j) = "flanterm_fb_init"
  BY <1>1, MainOnly
<1>4. n = 12 /\ j = 2
  BY <1>3, Where
<1>5. Protected(12) /\ Loaded(12) /\ Writing(12, 2)
  BY <1>3, <1>4 DEF Progress
<1>6. g_writer' = g_writer /\ flanterm_context' = machine.context
  BY DEF flanterm_fb_init
<1>7. fault' = "" /\ Continue(Done(Top)) /\ iflag' = iflag /\ machine' = machine
  BY <1>6, Zenon DEF flanterm_fb_init, Does
<1>8. Protected(12)'
  <2>1. UNCHANGED <<machine, crVars>>
    BY <1>7 DEF flanterm_fb_init
  <2> QED
    BY <1>5, <2>1, ProtectedKept
<1>9. Loaded(12)'
  <2>1. UNCHANGED <<machine, segmentVars, idtr>>
    BY <1>7 DEF flanterm_fb_init
  <2> QED
    BY <1>5, <2>1, LoadedKept
<1>10. Writing(12, 1)'
  BY <1>5, <1>6, <1>7 DEF Writing
<1>11. Sound'
  <2>1. UNCHANGED <<machine, crVars>> /\ iflag' = FALSE /\ fault' = ""
    BY <1>2, <1>7 DEF flanterm_fb_init, Sound
  <2>2. g_writer' = "flanterm" => flanterm_context' = machine'.context
    BY <1>6, <1>7
  <2> QED
    BY <1>2, <2>1, <2>2, SoundStill
<1>12. Progress(12, 1)'
  BY <1>8, <1>9, <1>10 DEF Progress
<1>13. n # 16 /\ (IF j = 0 THEN n = n + 1 /\ 1 = 0 ELSE n = n /\ 1 = j - 1)
  BY <1>4
<1>14. Progress(n, 1)'
  BY <1>4, <1>12
<1> QED
  BY <1>2, <1>3, <1>7, <1>11, <1>13, <1>14, MainGoesOn

\* A step of main's that decides what is left.
LEMMA MainTurns ==
  ASSUME Stacked(frames), Len(frames) = 1, NEW a \in Activation, a.who = "main",
         Continue(a), Sound',
         NEW m, NEW k, Place(m, k), a.left = Left(m, k), Progress(m, k)'
  PROVE  IInv'
<1>1. frames' = With(frames, a)
  BY Zenon DEF Continue, With
<1>2. /\ Stacked(With(frames, a)) /\ Len(With(frames, a)) = Len(frames)
      /\ With(frames, a)[1] = a
  BY Replaced
<1>3. Stacked(frames') /\ Len(frames') = 1 /\ frames'[1] = a
  BY <1>1, <1>2
<1>4. Stacked(frames)'
  BY <1>3
<1> QED
  BY <1>3, <1>4 DEF IInv

\* The activation of main before a step.
LEMMA MainIsTop ==
  ASSUME Stacked(frames), Len(frames) = 1, NEW steps \in Seq(Steps)
  PROVE  /\ Top = frames[1] /\ Top \in Activation /\ Top.who = "main"
         /\ [Top EXCEPT !.left = steps] \in Activation
         /\ [Top EXCEPT !.left = steps].who = "main"
         /\ [Top EXCEPT !.left = steps].left = steps
<1>1. Top = frames[1] /\ Top \in Activation /\ Top.who = "main"
  BY TopIs, Zenon DEF Top, Stacked
<1> QED
  BY <1>1 DEF Activation

\* With no step in front.
LEMMA NothingInFront ==
  ASSUME NEW s \in Seq(Steps)
  PROVE  <<>> \o s = s
<1>1. <<>> \in Seq(Steps) /\ Len(<<>>) = 0
  OBVIOUS
<1>2. PICK t : t = <<>> \o s
  OBVIOUS
<1>3. t \in Seq(Steps) /\ Len(t) = Len(s) /\ \A i \in 1 .. Len(s) : t[i] = s[i]
  <2>1. \A i \in 1 .. Len(<<>>) + Len(s) :
          t[i] = IF i <= Len(<<>>) THEN <<>>[i] ELSE s[i - Len(<<>>)]
    BY <1>1, <1>2, ConcatProperties
  <2>2. t \in Seq(Steps) /\ Len(t) = Len(<<>>) + Len(s)
    BY <1>1, <1>2, ConcatProperties
  <2> QED
    BY <1>1, <2>1, <2>2, LenProperties
<1>4. t = s
  BY <1>3, SeqEqual
<1> QED
  BY <1>2, <1>4

\* With a framebuffer, main makes a console of it before it goes on.
LEMMA Framebuffer ==
  ASSUME IInv, Runs, framebuffer
  PROVE  IInv'
<1>1. At("framebuffer") /\ "framebuffer" \notin {"kprint", "panic", "halt"}
  BY DEF framebuffer
<1>2. Len(frames) = 1 /\ Stacked(frames) /\ Sound
  BY <1>1, MainOnly
<1>3. PICK n, j : /\ Place(n, j) /\ frames[1].left = Left(n, j) /\ Progress(n, j)
                  /\ Coming(n, j) = "framebuffer"
  BY <1>1, MainOnly
<1>4. n = 11 /\ j = 0
  BY <1>3, Where
<1>5. Protected(11) /\ Loaded(11) /\ Writing(11, 0)
  BY <1>3, <1>4 DEF Progress
<1>6. PICK k \in {0, 2} : k = IF machine.framebuffer THEN 2 ELSE 0
  OBVIOUS
<1>7. Place(12, k)
  BY DEF Place
<1>8. UNCHANGED <<machine, crVars, segmentVars, idtr, writerVars, fault, iflag>>
  BY DEF framebuffer
<1>9. Progress(12, k)'
  <2>1. Protected(12)'
    <3>1. UNCHANGED <<machine, crVars>>
      BY <1>8
    <3> QED
      BY <1>5, <3>1, ProtectedKept
  <2>2. Loaded(12)'
    <3>1. UNCHANGED <<machine, segmentVars, idtr>>
      BY <1>8
    <3> QED
      BY <1>5, <3>1, LoadedKept
  <2>3. Writing(12, k)'
    <3>1. g_writer' = g_writer
      BY <1>8 DEF writerVars
    <3> QED
      BY <1>5, <3>1 DEF Writing
  <2> QED
    BY <2>1, <2>2, <2>3 DEF Progress
<1>10. Sound'
  <2>1. UNCHANGED <<machine, crVars, writerVars>> /\ fault' = "" /\ iflag' = FALSE
    BY <1>2, <1>8 DEF Sound, Runs
  <2> QED
    BY <1>2, <2>1, SoundKept
<1>11. Tail(Top.left) = Rest(12) /\ Rest(12) \in Seq(Steps)
  <2>1. Top = frames[1]
    BY <1>2, Zenon DEF Top
  <2>2. Place(11, 0) /\ frames[1].left = Left(11, 0) /\ 11 + 1 = 12
    BY <1>3, <1>4
  <2>3. Tail(Left(11, 0)) = Left(11 + 1, 0)
    BY <2>2, LeftIs
  <2>4. Left(11 + 1, 0) = Rest(12)
    BY <2>2 DEF Left
  <2>5. 12 \in Nat /\ 1 <= 12 /\ 12 <= 16
    OBVIOUS
  <2> QED
    BY <2>1, <2>2, <2>3, <2>4, <2>5, RestIs
<1>12. (IF machine.framebuffer THEN FlantermSteps ELSE <<>>) \o Rest(12) = Left(12, k)
  <2>1. CASE machine.framebuffer
    BY <1>6, <2>1 DEF Left, Inserted
  <2>2. CASE ~machine.framebuffer
    <3>1. Left(12, k) = Rest(12)
      BY <1>6, <2>2 DEF Left
    <3> QED
      BY <1>11, <2>2, <3>1, NothingInFront
  <2> QED
    BY <2>1, <2>2
<1>13. PICK a : a = [Top EXCEPT !.left = Left(12, k)]
  OBVIOUS
<1>14. a \in Activation /\ a.who = "main" /\ a.left = Left(12, k)
  BY <1>2, <1>7, <1>13, LeftIs, MainIsTop
<1>15. Continue(a)
  <2>1. Continue([Top EXCEPT !.left = (IF machine.framebuffer THEN FlantermSteps ELSE <<>>)
                                      \o Tail(Top.left)])
    BY Zenon DEF framebuffer
  <2> QED
    BY <1>11, <1>12, <1>13, <2>1, Zenon
<1> QED
  BY <1>2, <1>7, <1>9, <1>10, <1>14, <1>15, MainTurns

\* Without an RSDP, main prints and panics.
LEMMA Rsdp ==
  ASSUME IInv, Runs, rsdp
  PROVE  IInv'
<1>1. At("rsdp") /\ "rsdp" \notin {"kprint", "panic", "halt"}
  BY DEF rsdp
<1>2. Len(frames) = 1 /\ Stacked(frames) /\ Sound
  BY <1>1, MainOnly
<1>3. PICK n, j : /\ Place(n, j) /\ frames[1].left = Left(n, j) /\ Progress(n, j)
                  /\ Coming(n, j) = "rsdp"
  BY <1>1, MainOnly
<1>4. n = 12 /\ j = 0
  BY <1>3, Where
<1>5. Protected(12) /\ Loaded(12) /\ Writing(12, 0)
  BY <1>3, <1>4 DEF Progress
<1>6. PICK k \in {0, 2} : k = IF machine.rsdp THEN 0 ELSE 2
  OBVIOUS
<1>7. Place(13, k)
  BY DEF Place
<1>8. UNCHANGED <<machine, crVars, segmentVars, idtr, writerVars, fault, iflag>>
  BY DEF rsdp
<1>9. Progress(13, k)'
  <2>1. Protected(13)'
    <3>1. UNCHANGED <<machine, crVars>>
      BY <1>8
    <3> QED
      BY <1>5, <3>1, ProtectedKept
  <2>2. Loaded(13)'
    <3>1. UNCHANGED <<machine, segmentVars, idtr>>
      BY <1>8
    <3> QED
      BY <1>5, <3>1, LoadedKept
  <2>3. Writing(13, k)'
    <3>1. g_writer' = g_writer /\ machine' = machine
      BY <1>8 DEF writerVars
    <3>2. k # 0 => ~machine.rsdp
      BY <1>6
    <3> QED
      BY <1>5, <3>1, <3>2 DEF Writing
  <2> QED
    BY <2>1, <2>2, <2>3 DEF Progress
<1>10. Sound'
  <2>1. UNCHANGED <<machine, crVars, writerVars>> /\ fault' = "" /\ iflag' = FALSE
    BY <1>2, <1>8 DEF Sound, Runs
  <2> QED
    BY <1>2, <2>1, SoundKept
<1>11. Tail(Top.left) = Rest(13) /\ Rest(13) \in Seq(Steps)
  <2>1. Top = frames[1]
    BY <1>2, Zenon DEF Top
  <2>2. Place(12, 0) /\ frames[1].left = Left(12, 0) /\ 12 + 1 = 13
    BY <1>3, <1>4
  <2>3. Tail(Left(12, 0)) = Left(12 + 1, 0)
    BY <2>2, LeftIs
  <2>4. Left(12 + 1, 0) = Rest(13)
    BY <2>2 DEF Left
  <2>5. 13 \in Nat /\ 1 <= 13 /\ 13 <= 16
    OBVIOUS
  <2> QED
    BY <2>1, <2>2, <2>3, <2>4, <2>5, RestIs
<1>12. (IF machine.rsdp THEN <<>> ELSE <<"kprint", "panic">>) \o Rest(13) = Left(13, k)
  <2>1. CASE ~machine.rsdp
    BY <1>6, <2>1 DEF Left, Inserted
  <2>2. CASE machine.rsdp
    <3>1. Left(13, k) = Rest(13)
      BY <1>6, <2>2 DEF Left
    <3> QED
      BY <1>11, <2>2, <3>1, NothingInFront
  <2> QED
    BY <2>1, <2>2
<1>13. PICK a : a = [Top EXCEPT !.left = Left(13, k)]
  OBVIOUS
<1>14. a \in Activation /\ a.who = "main" /\ a.left = Left(13, k)
  BY <1>2, <1>7, <1>13, LeftIs, MainIsTop
<1>15. Continue(a)
  <2>1. Continue([Top EXCEPT !.left = (IF machine.rsdp THEN <<>> ELSE <<"kprint", "panic">>)
                                      \o Tail(Top.left)])
    BY Zenon DEF rsdp
  <2> QED
    BY <1>11, <1>12, <1>13, <2>1, Zenon
<1> QED
  BY <1>2, <1>7, <1>9, <1>10, <1>14, <1>15, MainTurns

-----------------------------------------------------------------------------
(* Steps of handlers, and those that main and handlers have in common.     *)

\* A place after the tenth.
LEMMA MoreThanTen ==
  ASSUME NEW n \in Nat, ~(n <= 10)
  PROVE  n > 10
OBVIOUS

\* A step that is not main's changes nothing main has done.
LEMMA Aside ==
  ASSUME IInv, UnchangedHere, fault' # "" => NoOtherFault', iflag' = FALSE,
         Stacked(frames'), frames'[1] = frames[1], Len(frames) # 1 \/ idtr = "kernel"
  PROVE  IInv'
<1>1. Sound
  BY DEF IInv
<1>2. PICK n, j : /\ Place(n, j) /\ frames[1].left = Left(n, j) /\ Progress(n, j)
                  /\ Len(frames) # 1 => n > 10
  BY DEF IInv
<1>3. n \in Nat
  BY <1>2 DEF Place
<1>4. Protected(n) /\ Loaded(n) /\ Writing(n, j)
  BY <1>2 DEF Progress
<1>5. /\ UNCHANGED <<machine, crVars>> /\ UNCHANGED <<machine, segmentVars, idtr>>
      /\ UNCHANGED <<machine, writerVars>> /\ UNCHANGED <<machine, crVars, writerVars>>
  BY DEF UnchangedHere
<1>6. Sound'
  BY <1>1, <1>5, SoundKept
<1>7. Protected(n)'
  BY <1>3, <1>4, <1>5, ProtectedKept
<1>8. Loaded(n)'
  BY <1>3, <1>4, <1>5, LoadedKept
<1>9. Writing(n, j)'
  BY <1>3, <1>4, <1>5, WritingKept
<1>10. n > 10
  <2>1. CASE Len(frames) # 1
    BY <1>2, <2>1, Zenon
  <2>2. CASE idtr = "kernel"
    <3>1. idtr # "loader"
      BY <2>2
    <3>2. ~(n <= 10)
      BY <1>4, <3>1, Zenon DEF Loaded
    <3> QED
      BY <1>3, <3>2, MoreThanTen, Zenon
  <2> QED
    BY <2>1, <2>2
<1>11. frames'[1].left = Left(n, j)
  BY <1>2
<1>12. Progress(n, j)'
  BY <1>7, <1>8, <1>9 DEF Progress
<1>13. Stacked(frames)'
  OBVIOUS
<1> QED
  BY <1>2, <1>6, <1>10, <1>11, <1>12, <1>13 DEF IInv

\* A handler goes on.
LEMMA HandlerGoesOn ==
  ASSUME IInv, UnchangedHere, fault' # "" => NoOtherFault', iflag' = FALSE,
         Len(frames) # 1, NEW a \in Activation, Handler(a), Continue(a)
  PROVE  IInv'
<1>1. Stacked(frames)
  BY DEF IInv
<1>2. frames' = With(frames, a)
  BY Zenon DEF Continue, With
<1>3. Stacked(With(frames, a)) /\ With(frames, a)[1] = frames[1]
  BY <1>1, Replaced
<1>4. Stacked(frames') /\ frames'[1] = frames[1]
  BY <1>2, <1>3
<1> QED
  BY <1>4, Aside

\* Where main is while handlers run, and what a handler comes to.
LEMMA InHandler ==
  ASSUME IInv, Len(frames) # 1
  PROVE  /\ Top \in Activation /\ Handler(Top)
         /\ g_writer # "null" /\ gdtr = "kernel" /\ GDT = KernelGDT(11, machine.tss)
         /\ cs = 8 /\ ss = 0
<1>1. Stacked(frames)
  BY DEF IInv
<1>2. Top \in Activation /\ Handler(Top)
  BY <1>1, TopIs
<1>3. PICK n, j : Place(n, j) /\ Progress(n, j) /\ n > 10
  BY DEF IInv
<1>4. n \in Nat /\ n > 3 /\ n > 5 /\ n > 6 /\ n > 7 /\ n > 9
  BY <1>3 DEF Place
<1>5. Loaded(n) /\ Writing(n, j)
  BY <1>3 DEF Progress
<1>6. g_writer # "null"
  BY <1>4, <1>5 DEF Writing
<1>7. gdtr = "kernel" /\ GDT = KernelGDT(11, machine.tss) /\ cs = 8 /\ ss = 0
  BY <1>4, <1>5 DEF Loaded
<1> QED
  BY <1>2, <1>6, <1>7

\* Its activation after a step.
LEMMA HandlerDone ==
  ASSUME NEW h \in Activation, h.left # <<>>
  PROVE  Done(h) \in Activation /\ [h EXCEPT !.left = <<"halt">>] \in Activation
<1>1. h.left \in Seq(Steps)
  BY DEF Activation
<1>2. Tail(h.left) \in Seq(Steps)
  BY <1>1, HeadTailProperties
<1>3. <<"halt">> \in Seq(Steps)
  BY DEF Steps
<1> QED
  BY <1>2, <1>3 DEF Done, Activation

\* Main is about to print, or to panic.
LEMMA MainAt ==
  ASSUME IInv, Len(frames) = 1, NEW step, At(step)
  PROVE  \E n, j : /\ Place(n, j) /\ frames[1].left = Left(n, j) /\ Progress(n, j)
                   /\ Coming(n, j) = step
<1>1. PICK n, j : Place(n, j) /\ frames[1].left = Left(n, j) /\ Progress(n, j)
  BY DEF IInv
<1>2. Head(frames[1].left) = step
  BY Zenon DEF At, Top
<1>3. Coming(n, j) = step
  BY <1>1, <1>2, LeftIs
<1> QED
  BY <1>1, <1>3

\* Whoever prints finds a writer that works.
LEMMA Prints ==
  ASSUME IInv, kprint
  PROVE  IInv'
<1>1. At("kprint") /\ Top.left # <<>> /\ Head(Top.left) = "kprint"
  BY DEF kprint, At
<1>2. Stacked(frames) /\ Sound
  BY DEF IInv
<1>3. g_writer = "flanterm" => flanterm_context = machine.context
  BY <1>2 DEF Sound
<1>4. UNCHANGED <<crVars, segmentVars, idtr, writerVars>>
  BY DEF kprint
<1>5. ASSUME g_writer # "null"
      PROVE  fault' # "" => NoOtherFault'
  <2>1. fault' = (IF g_writer # "null" /\ (g_writer = "flanterm" => flanterm_context)
                  THEN "" ELSE "#PF")
    BY Zenon DEF kprint, Does
  <2>2. g_writer' = g_writer /\ machine' = machine
    BY DEF kprint, Does, writerVars
  <2>3. fault' # "" => g_writer = "flanterm" /\ ~machine.context /\ fault' = "#PF"
    BY <1>3, <1>5, <2>1
  <2> QED
    BY <2>2, <2>3 DEF NoOtherFault
<1>6. Continue(Done(Top)) /\ iflag' = iflag /\ machine' = machine
  BY Zenon DEF kprint, Does
<1>7. iflag' = FALSE
  BY <1>2, <1>6 DEF Sound
<1>8. CASE Len(frames) # 1
  <2>1. Top \in Activation /\ Handler(Top) /\ (fault' # "" => NoOtherFault')
    BY <1>5, <1>8, InHandler
  <2>2. Handler(Done(Top)) /\ Done(Top) \in Activation
    BY <1>1, <2>1, HandlerIs, HandlerDone
  <2>3. UnchangedHere
    BY <1>4, <1>6 DEF UnchangedHere
  <2> QED
    BY <1>6, <1>7, <1>8, <2>1, <2>2, <2>3, HandlerGoesOn
<1>9. CASE Len(frames) = 1
  <2>1. PICK n, j : /\ Place(n, j) /\ frames[1].left = Left(n, j) /\ Progress(n, j)
                    /\ Coming(n, j) = "kprint"
    BY <1>1, <1>9, MainAt
  <2>2. (n \in {4, 15} /\ j = 0) \/ (n = 13 /\ j = 2)
    BY <2>1, Where
  <2>3. Protected(n) /\ Loaded(n) /\ Writing(n, j)
    BY <2>1 DEF Progress
  <2>4. fault' # "" => NoOtherFault'
    <3>1. g_writer # "null"
      BY <2>2, <2>3 DEF Writing
    <3> QED
      BY <1>5, <3>1
  <2>5. PICK m, k : IF j = 0 THEN m = n + 1 /\ k = 0 ELSE m = n /\ k = j - 1
    OBVIOUS
  <2>6. /\ n \in Nat /\ n # 16 /\ n # 3 /\ n \notin {5, 6, 7, 8, 9, 10}
        /\ m = n + 1 => n \notin {1, 13}
    BY <2>2, <2>5
  <2>7. m = n \/ m = n + 1
    BY <2>5
  <2>8. /\ UNCHANGED <<machine, crVars>> /\ UNCHANGED <<machine, segmentVars, idtr>>
        /\ UNCHANGED <<machine, writerVars>> /\ UNCHANGED <<machine, crVars, writerVars>>
    BY <1>4, <1>6
  <2>9. Protected(m)'
    BY <2>3, <2>6, <2>7, <2>8, ProtectedKept
  <2>10. Loaded(m)'
    BY <2>3, <2>6, <2>7, <2>8, LoadedKept
  <2>11. Writing(m, k)'
    <3>1. k = 0 \/ (n = 13 /\ m = 13 /\ j # 0)
      BY <2>2, <2>5
    <3> QED
      BY <2>3, <2>6, <2>7, <2>8, <3>1, WritingKept
  <2>12. Progress(m, k)'
    BY <2>9, <2>10, <2>11 DEF Progress
  <2>13. Sound'
    BY <1>2, <1>7, <2>4, <2>8, SoundKept
  <2> QED
    BY <1>2, <1>6, <1>9, <2>1, <2>5, <2>6, <2>12, <2>13, MainGoesOn
<1> QED
  BY <1>8, <1>9

\* Main panics for want of an RSDP; a handler's panic stops the machine.
LEMMA Stop ==
  ASSUME IInv, Runs, stop
  PROVE  IInv'
<1>1. At("panic") /\ Top.left # <<>> /\ Head(Top.left) = "panic"
  BY DEF stop, panic, At
<1>2. Stacked(frames) /\ Sound
  BY DEF IInv
<1>3. /\ Continue([Top EXCEPT !.left = <<"halt">>])
      /\ iflag' = FALSE /\ UnchangedHere /\ fault' = fault
  BY Zenon DEF stop, panic
<1>4. fault' = ""
  BY <1>3 DEF Runs
<1>5. CASE Len(frames) # 1
  <2>1. Top \in Activation /\ Handler(Top)
    BY <1>5, InHandler
  <2>2. PICK a : a = [Top EXCEPT !.left = <<"halt">>]
    OBVIOUS
  <2>3. a \in Activation /\ Handler(a)
    BY <1>1, <2>1, <2>2, HandlerIs, HandlerDone
  <2>4. Continue(a)
    BY <1>3, <2>2
  <2> QED
    BY <1>3, <1>4, <1>5, <2>3, <2>4, HandlerGoesOn
<1>6. CASE Len(frames) = 1
  <2>1. PICK n, j : /\ Place(n, j) /\ frames[1].left = Left(n, j) /\ Progress(n, j)
                    /\ Coming(n, j) = "panic"
    BY <1>1, <1>6, MainAt
  <2>2. n = 13 /\ j = 1
    BY <2>1, Where
  <2>3. Protected(13) /\ Loaded(13) /\ Writing(13, 1)
    BY <2>1, <2>2 DEF Progress
  <2>4. ~machine.rsdp
    BY <2>3 DEF Writing
  <2>5. /\ UNCHANGED <<machine, crVars>> /\ UNCHANGED <<machine, segmentVars, idtr>>
        /\ UNCHANGED <<machine, writerVars>> /\ UNCHANGED <<machine, crVars, writerVars>>
    BY <1>3 DEF UnchangedHere
  <2>6. Protected(16)'
    <3>1. machine' = machine /\ cr4' = cr4
      BY <2>5 DEF crVars
    <3>2. {FeatureBit[f] : f \in machine.features} \subseteq cr4
      BY <2>3 DEF Protected
    <3> QED
      BY <2>4, <3>1, <3>2 DEF Protected
  <2>7. Loaded(16)'
    <3>1. /\ gdtr = "kernel" /\ GDT = KernelGDT(11, machine.tss) /\ tr = machine.tss
          /\ ss = 0 /\ cs = 8 /\ idtr = "kernel"
      BY <2>3 DEF Loaded
    <3>2. /\ machine' = machine /\ gdtr' = gdtr /\ GDT' = GDT /\ cs' = cs /\ ss' = ss
          /\ tr' = tr /\ idtr' = idtr
      BY <2>5 DEF segmentVars
    <3> QED
      BY <3>1, <3>2 DEF Loaded
  <2>8. Writing(16, 0)'
    <3>1. g_writer' = g_writer
      BY <2>5 DEF writerVars
    <3> QED
      BY <2>3, <3>1 DEF Writing
  <2>9. Progress(16, 0)'
    BY <2>6, <2>7, <2>8 DEF Progress
  <2>10. Sound'
    BY <1>2, <1>3, <1>4, <2>5, SoundKept
  <2>11. PICK halt \in Seq(Steps) : halt = <<"halt">>
    BY HaltIs
  <2>12. PICK a : a = [Top EXCEPT !.left = halt]
    OBVIOUS
  <2>13. a \in Activation /\ a.who = "main" /\ a.left = halt
    BY <1>2, <1>6, <2>12, MainIsTop
  <2>14. Continue(a)
    BY <1>3, <2>11, <2>12, Zenon
  <2>15. Place(16, 0) /\ Left(16, 0) = Rest(16)
    BY DEF Place, Left
  <2>16. Rest(16) = halt
    BY <2>11, LastIs
  <2> QED
    BY <1>2, <1>6, <2>9, <2>10, <2>13, <2>14, <2>15, <2>16, MainTurns
<1> QED
  BY <1>5, <1>6

\* A handler is through; main's selectors are good in the kernel's table.
LEMMA Returns ==
  ASSUME IInv, return_from_interrupt
  PROVE  IInv'
<1>1. Stacked(frames) /\ Sound
  BY DEF IInv
<1>2. Len(frames) # 1
  BY DEF return_from_interrupt, iretq, InMain
<1>3. /\ iflag' = Top.saved_if /\ frames' = Without(frames)
      /\ fault' = (IF Executable(cs) /\ Loadable(ss) THEN "" ELSE "#GP") /\ UnchangedHere
  BY Zenon DEF return_from_interrupt, iretq, Without
<1>4. Top \in Activation /\ gdtr = "kernel" /\ GDT = KernelGDT(11, machine.tss) /\ cs = 8 /\ ss = 0
  BY <1>2, InHandler
<1>5. iflag' = FALSE
  BY <1>3, <1>4 DEF Activation
<1>6. Executable(cs) /\ Loadable(ss)
  <2>1. Executable(8)
    BY <1>4, CodeExecutable
  <2> QED
    BY <1>4, <2>1, NullLoadable, Zenon
<1>7. fault' = ""
  BY <1>3, <1>6
<1>8. Stacked(frames') /\ frames'[1] = frames[1]
  <2>1. Stacked(Without(frames)) /\ Without(frames)[1] = frames[1]
    BY <1>1, <1>2, Returned
  <2> QED
    BY <1>3, <2>1
<1> QED
  BY <1>2, <1>3, <1>5, <1>7, <1>8, Aside

\* A non-maskable interrupt, once the kernel's gates are in place.
LEMMA Nmi ==
  ASSUME IInv, nmi
  PROVE  IInv'
<1>1. Stacked(frames) /\ Sound
  BY DEF IInv
<1>2. /\ idtr = "kernel" /\ UnchangedHere /\ fault' = (IF Enters THEN "" ELSE "#DF")
      /\ frames' = Onto(frames, "NMI") /\ iflag' = (iflag /\ ~GateDisables)
  BY Zenon DEF nmi, deliver_nmi, Enter, Onto
<1>3. iflag = FALSE /\ iflag' = FALSE
  BY <1>1, <1>2 DEF Sound
<1>4. PICK n, j : Place(n, j) /\ Progress(n, j)
  BY DEF IInv
<1>5. n \in Nat /\ Loaded(n)
  BY <1>4 DEF Place, Progress
<1>6. ~(n <= 10)
  <2>1. idtr # "loader"
    BY <1>2
  <2> QED
    BY <1>5, <2>1, Zenon DEF Loaded
<1>7. gdtr = "kernel" /\ GDT = KernelGDT(11, machine.tss)
  <2>1. n > 5 /\ n > 6
    BY <1>5, <1>6
  <2> QED
    BY <1>5, <2>1 DEF Loaded
<1>8. Enters
  BY <1>1, <1>7, GateEnters
<1>9. fault' = ""
  BY <1>2, <1>8
<1>10. Stacked(frames') /\ frames'[1] = frames[1]
  <2>1. Stacked(Onto(frames, "NMI")) /\ Onto(frames, "NMI")[1] = frames[1]
    BY <1>1, <1>3, Entered
  <2> QED
    BY <1>2, <2>1
<1> QED
  BY <1>2, <1>3, <1>9, <1>10, Aside

\* The breakpoint: main is past it when its handler begins.
LEMMA Breakpoint ==
  ASSUME IInv, int3
  PROVE  IInv'
<1>1. At("int3") /\ "int3" \notin {"kprint", "panic", "halt"}
  BY DEF int3, breakpoint
<1>2. Len(frames) = 1 /\ Stacked(frames) /\ Sound
  BY <1>1, MainOnly
<1>3. PICK n, j : /\ Place(n, j) /\ frames[1].left = Left(n, j) /\ Progress(n, j)
                  /\ Coming(n, j) = "int3"
  BY <1>1, MainOnly
<1>4. n = 14 /\ j = 0
  BY <1>3, Where
<1>5. Protected(14) /\ Loaded(14) /\ Writing(14, 0)
  BY <1>3, <1>4 DEF Progress
<1>6. /\ UnchangedHere /\ fault' = (IF idtr = "kernel" /\ Enters THEN "" ELSE "#DF")
      /\ frames' = Onto(With(frames, Done(Top)), "BP") /\ iflag' = (iflag /\ ~GateDisables)
  BY Zenon DEF int3, breakpoint, Enter, Onto, With
<1>7. iflag = FALSE /\ iflag' = FALSE
  BY <1>2, <1>6 DEF Sound
<1>8. gdtr = "kernel" /\ GDT = KernelGDT(11, machine.tss) /\ idtr = "kernel"
  BY <1>5 DEF Loaded
<1>9. Enters
  BY <1>2, <1>8, GateEnters
<1>10. fault' = ""
  BY <1>6, <1>8, <1>9
<1>11. PICK steps \in Seq(Steps) : steps = Tail(Top.left)
  <2>1. Top.left \in Seq(Steps) /\ Top.left # <<>>
    BY <1>1, <1>2, TopIs DEF At, Activation
  <2> QED
    BY <2>1, HeadTailProperties
<1>12. PICK a : a = Done(Top)
  OBVIOUS
<1>13. a \in Activation /\ a.who = "main" /\ a.left = steps
  <2>1. a = [Top EXCEPT !.left = steps]
    BY <1>11, <1>12, Zenon DEF Done
  <2> QED
    BY <1>2, <2>1, MainIsTop
<1>14. steps = Left(15, 0)
  <2>1. Top = frames[1]
    BY <1>2, Zenon DEF Top
  <2>2. Place(14, 0) /\ frames[1].left = Left(14, 0) /\ 14 + 1 = 15
    BY <1>3, <1>4
  <2>3. Tail(Left(14, 0)) = Left(14 + 1, 0)
    BY <2>2, LeftIs
  <2> QED
    BY <1>11, <2>1, <2>2, <2>3, Zenon
<1>15. Stacked(frames') /\ Len(frames') # 1 /\ frames'[1] = a
  <2>1. PICK s : s = With(frames, a)
    OBVIOUS
  <2>2. Stacked(s) /\ s[1] = a
    BY <1>2, <1>13, <2>1, Replaced
  <2>3. Stacked(Onto(s, "BP")) /\ Len(Onto(s, "BP")) # 1 /\ Onto(s, "BP")[1] = s[1]
    BY <1>7, <2>2, Entered
  <2>4. frames' = Onto(s, "BP")
    BY <1>6, <1>12, <2>1, Zenon
  <2> QED
    BY <2>2, <2>3, <2>4
<1>16. /\ UNCHANGED <<machine, crVars>> /\ UNCHANGED <<machine, segmentVars, idtr>>
       /\ UNCHANGED <<machine, writerVars>> /\ UNCHANGED <<machine, crVars, writerVars>>
  BY <1>6 DEF UnchangedHere
<1>17. Progress(15, 0)'
  <2>1. Protected(15)'
    BY <1>5, <1>16, ProtectedKept
  <2>2. Loaded(15)'
    BY <1>5, <1>16, LoadedKept
  <2>3. Writing(15, 0)'
    BY <1>5, <1>16, WritingKept
  <2> QED
    BY <2>1, <2>2, <2>3 DEF Progress
<1>18. Sound'
  BY <1>2, <1>7, <1>10, <1>16, SoundKept
<1>19. Place(15, 0) /\ 15 > 10
  BY DEF Place
<1>20. frames'[1].left = Left(15, 0)
  BY <1>13, <1>14, <1>15
<1>21. Stacked(frames)'
  BY <1>15
<1> QED
  BY <1>17, <1>18, <1>19, <1>20, <1>21, Zenon DEF IInv

-----------------------------------------------------------------------------
(* The theorems.                                                           *)

\* Before its first step main has all of them to do.
LEMMA RestOfAll ==
  Rest(1) = main
<1>1. main \in Seq(Steps) /\ Len(main) = 16 /\ \A i \in 1 .. 16 : main[i] \in Steps
  BY MainIs, ElementOfSeq
<1>2. PICK s : s = SubSeq(main, 1, 16)
  OBVIOUS
<1>3. s \in Seq(Steps) /\ Len(s) = 16 /\ \A i \in 1 .. 16 : s[i] = main[i]
  BY <1>1, <1>2, SubSeqProperties
<1>4. s = main
  BY <1>1, <1>3, SeqEqual
<1> QED
  BY <1>2, <1>4 DEF Rest

\* The loader's hand-over.
LEMMA Started ==
  ASSUME Init
  PROVE  IInv
<1>1. PICK a : a = [who |-> "main", left |-> main, saved_if |-> FALSE, out |-> 0,
                    polled |-> FALSE]
  OBVIOUS
<1>2. a \in Activation /\ a.who = "main" /\ a.left = main
  BY <1>1, MainIs DEF Activation
<1>3. frames = <<a>>
  BY <1>1, Zenon DEF Init, InterruptInit
<1>4. /\ frames \in Seq(Activation) /\ Len(frames) = 1 /\ frames[1] = a
  BY <1>2, <1>3
<1>5. Stacked(frames)
  <2>1. frames # <<>>
    BY <1>4, EmptySeq
  <2>2. \A i \in 1 .. Len(frames) : i # 1 => Handler(frames[i])
    BY <1>4
  <2> QED
    BY <1>2, <1>4, <2>1, <2>2 DEF Stacked
<1>6. Sound
  <2>1. /\ machine \in Machines /\ fault = "" /\ iflag = FALSE /\ HAS_SMAP = FALSE
        /\ cr4 = machine.cr4 /\ g_writer = "null"
    BY Zenon DEF Init, InterruptInit
  <2>2. ~Reserved(machine.cr4)
    BY <2>1, MachineIs
  <2>3. machine.cr4 \subseteq cr4
    BY <2>1
  <2>4. "null" # "flanterm"
    OBVIOUS
  <2>5. NoOtherFault
    BY <2>1 DEF NoOtherFault
  <2> QED
    BY <2>1, <2>2, <2>3, <2>4, <2>5, Zenon DEF Sound
<1>7. Place(1, 0) /\ Left(1, 0) = main
  BY RestOfAll DEF Place, Left
<1>8. Progress(1, 0)
  <2>1. cr0 = machine.cr0 /\ GDT = StaticGDT /\ idtr = "loader"
    BY Zenon DEF Init
  <2>2. Protected(1)
    BY <2>1 DEF Protected
  <2>3. Loaded(1)
    BY <2>1 DEF Loaded
  <2>4. Writing(1, 0)
    BY DEF Writing
  <2> QED
    BY <2>2, <2>3, <2>4 DEF Progress
<1>9. frames[1].left = Left(1, 0)
  BY <1>2, <1>4, <1>7
<1> QED
  BY <1>4, <1>5, <1>6, <1>7, <1>8, <1>9 DEF IInv

\* Nothing changes where nothing of Startup does.
LEMMA Unchanged ==
  ASSUME IInv, UNCHANGED startupVars
  PROVE  IInv'
<1>1. Stacked(frames) /\ Sound
  BY DEF IInv
<1>2. /\ frames' = frames /\ iflag' = iflag /\ fault' = fault
      /\ UNCHANGED <<machine, crVars>> /\ UNCHANGED <<machine, segmentVars, idtr>>
      /\ UNCHANGED <<machine, writerVars>> /\ UNCHANGED <<machine, crVars, writerVars>>
  BY DEF startupVars, interruptVars, cpuVars
<1>3. PICK n, j : /\ Place(n, j) /\ frames[1].left = Left(n, j) /\ Progress(n, j)
                  /\ Len(frames) # 1 => n > 10
  BY DEF IInv
<1>4. n \in Nat /\ Protected(n) /\ Loaded(n) /\ Writing(n, j)
  BY <1>3 DEF Place, Progress
<1>5. Protected(n)' /\ Loaded(n)' /\ Writing(n, j)'
  BY <1>2, <1>4, ProtectedKept, LoadedKept, WritingKept
<1>6. NoOtherFault' /\ iflag' = FALSE
  <2>1. g_writer' = g_writer /\ machine' = machine
    BY <1>2 DEF writerVars
  <2>2. NoOtherFault /\ iflag = FALSE
    BY <1>1, Zenon DEF Sound
  <2> QED
    BY <1>2, <2>1, <2>2 DEF NoOtherFault
<1>7. Sound'
  BY <1>1, <1>2, <1>6, SoundKept
<1>8. Stacked(frames)'
  BY <1>1, <1>2
<1>9. Progress(n, j)'
  BY <1>5 DEF Progress
<1>10. frames'[1].left = Left(n, j) /\ (Len(frames') # 1 => n > 10)
  BY <1>2, <1>3
<1> QED
  BY <1>3, <1>7, <1>8, <1>9, <1>10, Zenon DEF IInv

\* Every step of main, of a handler and of the interrupts keeps the invariant.
LEMMA Kept ==
  ASSUME IInv, [Next]_startupVars
  PROVE  IInv'
<1> SUFFICES ASSUME Runs, Processor \/ nmi
             PROVE  IInv'
  BY Unchanged, Zenon DEF Next, Runs
<1>1. CASE security_init
  BY <1>1, SecurityInit
<1>2. CASE enforce_smap
  BY <1>2, EnforceSmap
<1>3. CASE fp_init
  BY <1>3, FpInit
<1>4. CASE lgdt
  BY <1>4, Lgdt
<1>5. CASE ltr
  BY <1>5, Ltr
<1>6. CASE flush_segments
  BY <1>6, FlushSegments
<1>7. CASE flush_push
  BY <1>7, FlushPush
<1>8. CASE flush_lretq
  BY <1>8, FlushLretq
<1>9. CASE lidt
  BY <1>9, Lidt
<1>10. CASE kprint_configure
  <2>1. At("kprint_configure_serial") \/ At("kprint_configure_flanterm")
    BY <1>10 DEF kprint_configure
  <2> QED
    BY <1>10, <2>1, ConfigureSerial, ConfigureFlanterm
<1>11. CASE flanterm_fb_init
  <2>1. At("flanterm_fb_init")
    BY <1>11 DEF flanterm_fb_init
  <2> QED
    BY <1>11, <2>1, FlantermInit
<1>12. CASE kprint
  BY <1>12, Prints
<1>13. CASE framebuffer
  BY <1>13, Framebuffer
<1>14. CASE rsdp
  BY <1>14, Rsdp
<1>15. CASE int3
  BY <1>15, Breakpoint
<1>16. CASE return_from_interrupt
  BY <1>16, Returns
<1>17. CASE stop
  BY <1>17, Stop
<1>18. CASE nmi
  BY <1>18, Nmi
<1> QED
  BY <1>1, <1>2, <1>3, <1>4, <1>5, <1>6, <1>7, <1>8, <1>9, <1>10, <1>11, <1>12, <1>13,
     <1>14, <1>15, <1>16, <1>17, <1>18, Zenon DEF Processor

\* What main has left to do says what it has done, always.
THEOREM Inductive ==
  Spec => []IInv
<1>1. Init => IInv
  BY Started
<1>2. IInv /\ [Next]_startupVars => IInv'
  BY Kept
<1> QED
  BY <1>1, <1>2, PTL DEF Spec

\* Nothing that main or a handler does faults, but for printing through the null
\* pointer of a console library that gave no context: security_init and fp_init set no
\* reserved bit (src/src/security.c, main.c), load_gdt loads good selectors and its far
\* return finds its words (gdt.c, gdt.s), gates lead to their stubs (interrupt.c) and
\* kprint has a writer (common.c).
THEOREM NeverFaults ==
  Spec => []NoOtherFault
<1>1. IInv => NoOtherFault
  BY Zenon DEF IInv, Sound
<1> QED
  BY <1>1, Inductive, PTL

\* From security_init on every protection of the processor is on (src/src/security.c),
\* nothing the loader switched on goes off, and at main's end SSE state is saved lazily
\* (fp_init of src/src/main.c).
THEOREM KeepsProtection ==
  Spec => []ProtectionKept
<1>1. IInv => ProtectionKept
  <2> SUFFICES ASSUME IInv
               PROVE  ProtectionKept
    OBVIOUS
  <2>1. Stacked(frames) /\ machine.cr4 \subseteq cr4
    BY Zenon DEF IInv, Sound
  <2>2. PICK n, j : /\ Place(n, j) /\ frames[1].left = Left(n, j) /\ Progress(n, j)
                    /\ Len(frames) # 1 => n > 10
    BY DEF IInv
  <2>3. n \in Nat /\ 1 <= n /\ Protected(n)
    BY <2>2 DEF Place, Progress
  <2>4. Head(frames[1].left) = Coming(n, j)
    BY <2>2, LeftIs
  <2>5. ASSUME ~InMain \/ Head(Top.left) # "security_init"
        PROVE  machine.cr4 \cup {FeatureBit[f] : f \in machine.features} \subseteq cr4
    <3>1. n # 1
      <4>1. CASE ~InMain
        BY <2>2, <4>1 DEF InMain
      <4>2. CASE InMain /\ Head(Top.left) # "security_init"
        <5>1. Coming(n, j) # "security_init"
          BY <2>4, <4>2 DEF InMain, Top
        <5>2. n = 1 => Coming(n, j) = "security_init"
          BY <2>2, MainIs DEF Place, Coming
        <5> QED
          BY <5>1, <5>2
      <4> QED
        BY <2>5, <4>1, <4>2
    <3>2. n > 1
      BY <2>3, <3>1
    <3> QED
      BY <2>1, <2>3, <3>2 DEF Protected
  <2>6. ASSUME InMain, At("halt"), machine.rsdp
        PROVE  /\ {CR4_OSFXSR, CR4_OSXMMEXCPT} \subseteq cr4
               /\ CR0_EM \notin cr0
               /\ {CR0_TS, CR0_MP, CR0_NE} \cup (machine.cr0 \ {CR0_EM}) \subseteq cr0
    <3>1. n = 16
      <4>1. Coming(n, j) = "halt"
        BY <2>4, <2>6, Zenon DEF InMain, At, Top
      <4> QED
        BY <2>2, <4>1, Where
    <3>2. n > 13
      BY <3>1
    <3> QED
      BY <2>3, <2>6, <3>2, Zenon DEF Protected
  <2> QED
    BY <2>5, <2>6, Zenon DEF ProtectionKept
<1> QED
  BY <1>1, Inductive, PTL

\* At its end main runs in the kernel's own segments, the processor uses the kernel's
\* tables (src/src/gdt.c, interrupt.c), and the task register has the address of the
\* TSS that load_gdt cut in three.
EndsLoaded ==
  (InMain /\ At("halt")) =>
    /\ cs = 8 /\ ss = 0 /\ tr = machine.tss
    /\ gdtr = "kernel" /\ idtr = "kernel" /\ Executable(cs) /\ Enters

\* Main ends so, always.
THEOREM Loads ==
  Spec => []EndsLoaded
<1>1. IInv => EndsLoaded
  <2> SUFFICES ASSUME IInv, InMain, At("halt")
               PROVE  /\ cs = 8 /\ ss = 0 /\ tr = machine.tss
                      /\ gdtr = "kernel" /\ idtr = "kernel" /\ Executable(cs) /\ Enters
    BY Zenon DEF EndsLoaded
  <2>1. Len(frames) = 1 /\ Sound
    BY Zenon DEF IInv, InMain
  <2>2. PICK n, j : /\ Place(n, j) /\ frames[1].left = Left(n, j) /\ Progress(n, j)
                    /\ Coming(n, j) = "halt"
    BY <2>1, MainAt
  <2>3. n = 16
    BY <2>2, Where
  <2>4. Loaded(16)
    BY <2>2, <2>3 DEF Progress
  <2>5. /\ cs = 8 /\ ss = 0 /\ tr = machine.tss /\ gdtr = "kernel" /\ idtr = "kernel"
        /\ GDT = KernelGDT(11, machine.tss)
    BY <2>4 DEF Loaded
  <2>6. Executable(8) /\ Enters
    BY <2>1, <2>5, CodeExecutable, GateEnters
  <2> QED
    BY <2>5, <2>6
<1> QED
  BY <1>1, Inductive, PTL

=============================================================================
