------------------------ MODULE InterruptEntryProofs ------------------------
(***************************************************************************)
(* Theorems about InterruptEntry, for every set of vectors and every stack  *)
(* pointer at which an interrupt may come.                                 *)
(*                                                                         *)
(* The argument: the words below the aligned stack pointer are those of     *)
(* Pushed, as deep as Depth says after so many instructions, and a register *)
(* that is not among Lost still holds what the interrupted code had in it.  *)
(* The pushes make the stack deeper by the register they save, the pops     *)
(* make it shallower by the register they give back.                       *)
(***************************************************************************)
EXTENDS InterruptEntry, TLAPS

base == top - (top % 2)

\* struct stack_frame read backwards: what is pushed, in order.
Pushed ==
  <<"ss", "rsp", "rflags", "cs", "rip", "error_code", "reserved", "rdi",
    "rax", "rcx", "rdx", "rsi", "r8", "r9", "r10", "r11">>

\* Words between base and the stack pointer after n instructions.
Depth(n) ==
  IF n = 0 THEN (IF PushesErrorCode(vector) THEN 6 ELSE 5)
  ELSE IF n = 1 THEN 7
  ELSE IF n = 2 THEN 8
  ELSE IF n <= 11 THEN n + 5
  ELSE IF n <= 14 THEN 16
  ELSE IF n <= 23 THEN 30 - n
  ELSE 5

\* Registers that do not hold what they held when the interrupt came.
Lost(n) ==
  {"rsp"} \cup
  (IF n >= 14 THEN {"rflags"} \cup {Pushed[k] : k \in 8 .. Depth(n)}
   ELSE (IF n >= 3 THEN {"rdi"} ELSE {}) \cup (IF n >= 12 THEN {"rflags"} ELSE {})
        \cup (IF n = 13 THEN {"rsi"} ELSE {}))

\* The k-th word below base is what struct stack_frame says.
Holds(k, word) ==
  /\ (k = 6 /\ PushesErrorCode(vector)) => word = ErrorCode
  /\ k \notin {6, 7} => word = Interrupted[Pushed[k]]

StackPointer == regs["rsp"] = Number(base - Depth(ip))
Words == \A k \in 1 .. Depth(ip) : Holds(k, stack[base - k])
Kept == \A r \in Registers \ Lost(ip) : regs[r] = Old(r)
Arguments ==
  /\ ip \in 3 .. 13 => regs["rdi"] = Number(vector)
  /\ ip \in 12 .. 13 => regs["rflags"] = Forward
  /\ ip = 13 => regs["rsi"] = Number(base - 16)

\* The inductive invariant.
IInv ==
  /\ TypeOK
  /\ Resumes
  /\ InStub => StackPointer /\ Words /\ Kept /\ Arguments

-----------------------------------------------------------------------------
(* The program.                                                            *)

\* The common part has 22 instructions.
LEMMA GenericLength == Len(generic_interrupt_stub) = 22
BY DEF generic_interrupt_stub

\* Three instructions of its own, then the common part.
LEMMA StubIs ==
  ASSUME NEW v
  PROVE  /\ Len(interrupt_stub(v)) = 25
         /\ interrupt_stub(v)[1] = <<"sub", IF HasErrorCodeStub(v) THEN 1 ELSE 2>>
         /\ interrupt_stub(v)[2] = <<"push", "rdi">>
         /\ interrupt_stub(v)[3] = <<"vector", "rdi">>
         /\ \A i \in 4 .. 25 : interrupt_stub(v)[i] = generic_interrupt_stub[i - 3]
BY GenericLength DEF interrupt_stub, generic_interrupt_stub
\* The instruction at each position.
LEMMA Program ==
  ASSUME vector \in 0 .. 255, ip \in 0 .. 24
  PROVE  /\ ip = 0 => Instruction = <<"sub", IF HasErrorCodeStub(vector) THEN 1 ELSE 2>>
         /\ ip = 1 => Instruction = <<"push", "rdi">>
         /\ ip = 2 => Instruction = <<"vector", "rdi">>
         /\ ip = 3 => Instruction = <<"push", "rax">>
         /\ ip = 4 => Instruction = <<"push", "rcx">>
         /\ ip = 5 => Instruction = <<"push", "rdx">>
         /\ ip = 6 => Instruction = <<"push", "rsi">>
         /\ ip = 7 => Instruction = <<"push", "r8">>
         /\ ip = 8 => Instruction = <<"push", "r9">>
         /\ ip = 9 => Instruction = <<"push", "r10">>
         /\ ip = 10 => Instruction = <<"push", "r11">>
         /\ ip = 11 => Instruction = <<"cld">>
         /\ ip = 12 => Instruction = <<"frame", "rsi">>
         /\ ip = 13 => Instruction = <<"call", "interrupt_handler">>
         /\ ip = 14 => Instruction = <<"pop", "r11">>
         /\ ip = 15 => Instruction = <<"pop", "r10">>
         /\ ip = 16 => Instruction = <<"pop", "r9">>
         /\ ip = 17 => Instruction = <<"pop", "r8">>
         /\ ip = 18 => Instruction = <<"pop", "rsi">>
         /\ ip = 19 => Instruction = <<"pop", "rdx">>
         /\ ip = 20 => Instruction = <<"pop", "rcx">>
         /\ ip = 21 => Instruction = <<"pop", "rax">>
         /\ ip = 22 => Instruction = <<"pop", "rdi">>
         /\ ip = 23 => Instruction = <<"add", 2>>
         /\ ip = 24 => Instruction = <<"iretq">>
<1>1. Instruction = interrupt_stub(vector)[ip + 1]
  BY DEF Instruction, IDT
<1>2. ip \in 3 .. 24 => Instruction = generic_interrupt_stub[ip - 2]
  BY <1>1, StubIs
<1>3. ip \in 0 .. 2 \/ ip \in 3 .. 24
  OBVIOUS
<1> QED
  BY <1>1, <1>2, <1>3, StubIs DEF generic_interrupt_stub

\* Where the stub is when an instruction of each kind is next.
LEMMA Places ==
  ASSUME vector \in 0 .. 255, ip \in 0 .. 24
  PROVE  /\ Instruction[1] = "sub" => ip = 0
         /\ Instruction[1] = "push" => ip \in {1} \cup 3 .. 10
         /\ Instruction[1] = "vector" => ip = 2
         /\ Instruction[1] = "cld" => ip = 11
         /\ Instruction[1] = "frame" => ip = 12
         /\ Instruction[1] = "call" => ip = 13
         /\ Instruction[1] = "pop" => ip \in 14 .. 22
         /\ Instruction[1] = "add" => ip = 23
         /\ Instruction[1] = "iretq" => ip = 24
<1>1. \A i \in 0 .. 24 : \/ i \in {0, 1, 2, 3, 4, 5, 6, 7, 8, 9, 10, 11}
                         \/ i \in {12, 13, 14, 15, 16, 17, 18, 19, 20, 21, 22, 23, 24}
  OBVIOUS
<1> QED
  BY <1>1, Program

\* A push saves the register whose turn it is, one nothing has touched yet.
LEMMA PushIs ==
  ASSUME vector \in 0 .. 255, ip \in 0 .. 24, Instruction[1] = "push"
  PROVE  /\ Instruction[2] = Pushed[Depth(ip) + 1]
         /\ Depth(ip + 1) = Depth(ip) + 1
         /\ Instruction[2] \in Saved \ Lost(ip)
         /\ Lost(ip + 1) = Lost(ip)
<1>1. ip \in {1, 3, 4, 5, 6, 7, 8, 9, 10}
  BY Places
<1>2. Instruction[2] = Pushed[Depth(ip) + 1] /\ Depth(ip + 1) = Depth(ip) + 1
  BY <1>1, Program DEF Pushed, Depth
<1>3. Instruction[2] \in Saved \ Lost(ip) /\ Lost(ip + 1) = Lost(ip)
  BY <1>1, Program DEF Saved, Lost
<1> QED
  BY <1>2, <1>3

\* A pop gives back the register saved last.
LEMMA PopIs ==
  ASSUME vector \in 0 .. 255, ip \in 0 .. 24, Instruction[1] = "pop"
  PROVE  /\ Instruction[2] = Pushed[Depth(ip)]
         /\ Depth(ip) \in 8 .. 16 /\ Depth(ip + 1) = Depth(ip) - 1
         /\ Instruction[2] \in Saved
         /\ Lost(ip) = Lost(ip + 1) \cup {Instruction[2]}
<1>1. ip \in {14, 15, 16, 17, 18, 19, 20, 21, 22}
  BY Places
<1>2. /\ Instruction[2] = Pushed[Depth(ip)]
      /\ Depth(ip) \in 8 .. 16 /\ Depth(ip + 1) = Depth(ip) - 1
  BY <1>1, Program DEF Pushed, Depth
<1>3. Instruction[2] \in Saved
  BY <1>1, Program DEF Saved
<1>4. \A k : k \in 8 .. Depth(ip) <=> k \in 8 .. Depth(ip + 1) \/ k = Depth(ip)
  BY <1>2
<1>5. ip >= 14 /\ ip + 1 >= 14
  BY <1>1
<1>6. Lost(ip) = Lost(ip + 1) \cup {Instruction[2]}
  BY <1>2, <1>4, <1>5 DEF Lost
<1> QED
  BY <1>2, <1>3, <1>6
-----------------------------------------------------------------------------
(* What the processor pushes.                                              *)

\* The interrupted registers are values, and each word pushed is one of them.
LEMMA InterruptedIs ==
  /\ DOMAIN Interrupted = Registers
  /\ \A r \in Registers : Interrupted[r][1] \in Values
  /\ \A r \in Registers \ {"rsp"} : Interrupted[r] = Old(r)
  /\ Interrupted["rsp"] = Number(top)
BY DEF Interrupted, Registers, Old, Number, Values, Saved, Preserved

LEMMA PushedIs ==
  /\ \A k \in 1 .. 16 : k \notin {6, 7} => Pushed[k] \in Registers
  /\ Pushed[1] = "ss" /\ Pushed[2] = "rsp" /\ Pushed[3] = "rflags" /\ Pushed[4] = "cs" /\ Pushed[5] = "rip"
  /\ \A k \in 8 .. 16 : Pushed[k] \in Saved
<1>1. \A k \in 1 .. 16 : k \in {1, 2, 3, 4, 5, 6, 7, 8, 9, 10, 11, 12, 13, 14, 15, 16}
  OBVIOUS
<1> QED
  BY <1>1 DEF Pushed, Registers, Saved

\* Five words, and for some exceptions an error code.
LEMMA FrameIs ==
  ASSUME NEW v
  PROVE  /\ DOMAIN ProcessorFrame(v) = 1 .. Len(ProcessorFrame(v))
         /\ Len(ProcessorFrame(v)) = IF PushesErrorCode(v) THEN 6 ELSE 5
         /\ \A k \in 1 .. 5 : ProcessorFrame(v)[k] = Interrupted[Pushed[k]]
         /\ PushesErrorCode(v) => ProcessorFrame(v)[6] = ErrorCode
<1> DEFINE words == [i \in 1 .. 5 |-> Interrupted[<<"ss", "rsp", "rflags", "cs", "rip">>[i]]]
           code == IF PushesErrorCode(v) THEN <<ErrorCode>> ELSE <<>>
           S == {Interrupted[Pushed[k]] : k \in 1 .. 5} \cup {ErrorCode}
<1>1. \A k \in 1 .. 5 : <<"ss", "rsp", "rflags", "cs", "rip">>[k] = Pushed[k]
  BY DEF Pushed
<1>2. Len(words) = 5 /\ DOMAIN words = 1 .. 5
      /\ \A k \in 1 .. 5 : words[k] = Interrupted[Pushed[k]]
  BY <1>1
<1>3. words \in Seq(S)
  BY <1>2
<1>4. /\ PushesErrorCode(v) => Len(code) = 1 /\ code[1] = ErrorCode
      /\ ~PushesErrorCode(v) => Len(code) = 0
      /\ code \in Seq(S)
  <2>1. CASE PushesErrorCode(v)
    <3>1. code = <<ErrorCode>>
      BY <2>1
    <3>2. ErrorCode \in S
      OBVIOUS
    <3> HIDE DEF code, S
    <3> QED
      BY <2>1, <3>1, <3>2
  <2>2. CASE ~PushesErrorCode(v)
    <3>1. code = <<>>
      BY <2>2
    <3> HIDE DEF code, S
    <3> QED
      BY <2>2, <3>1
  <2> QED
    BY <2>1, <2>2
<1> HIDE DEF words, code, S
<1>5. /\ DOMAIN (words \o code) = 1 .. Len(words \o code)
      /\ Len(words \o code) = IF PushesErrorCode(v) THEN 6 ELSE 5
      /\ \A k \in 1 .. 5 : (words \o code)[k] = words[k]
      /\ PushesErrorCode(v) => (words \o code)[6] = code[1]
  <2>1. words \o code \in Seq(S) /\ Len(words \o code) = Len(words) + Len(code)
    BY <1>3, <1>4
  <2>2. \A k \in 1 .. Len(words) + Len(code) :
          (words \o code)[k] = IF k <= Len(words) THEN words[k] ELSE code[k - Len(words)]
    BY <1>3, <1>4
  <2> QED
    BY <1>2, <1>4, <2>1, <2>2
<1>6. ProcessorFrame(v) = words \o code
  BY DEF ProcessorFrame, words, code
<1> QED
  BY <1>2, <1>4, <1>5, <1>6

\* The stack pointer is aligned by less than it is worth.
LEMMA BaseIs ==
  ASSUME top \in Tops
  PROVE  base \in 32 .. 64 /\ base % 2 = 0
<1>1. top \in 32 .. 64
  BY EntryAssumption
<1> QED
  BY <1>1 DEF base

\* A word of the frame is a value.
LEMMA FrameValues ==
  ASSUME NEW v, NEW k \in DOMAIN ProcessorFrame(v)
  PROVE  k \in 1 .. 6 /\ ProcessorFrame(v)[k][1] \in Values
<1>1. k \in 1 .. 5 \/ (k = 6 /\ PushesErrorCode(v))
  BY FrameIs
<1>2. CASE k \in 1 .. 5
  BY <1>2, FrameIs, PushedIs, InterruptedIs
<1>3. CASE k = 6 /\ PushesErrorCode(v)
  BY <1>3, FrameIs DEF ErrorCode, Values
<1> QED
  BY <1>1, <1>2, <1>3
-----------------------------------------------------------------------------
(* The invariant, step by step.                                            *)

\* The types, with the length of the stub and the depth of the stack counted out.
LEMMA TypesAre ==
  /\ TypeOK <=>
       /\ vector \in 0 .. 255 /\ top \in Tops /\ ip \in -1 .. 24
       /\ DOMAIN regs = Registers /\ \A r \in Registers : regs[r][1] \in Values
       /\ DOMAIN stack = 0 .. 64 /\ \A w \in 0 .. 64 : stack[w][1] \in Values
       /\ regs["rsp"] \in {Number(n) : n \in 0 .. 64}
  /\ \A n \in 0 .. 24 : Depth(n) \in 5 .. 16
<1>1. Len(interrupt_stub(IDT[vector])) - 1 = 24
  BY StubIs
<1>2. \A n \in 0 .. 24 : Depth(n) \in 5 .. 16
  BY DEF Depth
<1> QED
  BY <1>1, <1>2, Zenon DEF TypeOK
\* The invariant counted out the same way.
LEMMA InvariantIs ==
  ASSUME IInv
  PROVE  /\ vector \in 0 .. 255 /\ top \in Tops /\ ip \in -1 .. 24
         /\ DOMAIN regs = Registers /\ \A r \in Registers : regs[r][1] \in Values
         /\ DOMAIN stack = 0 .. 64 /\ \A w \in 0 .. 64 : stack[w][1] \in Values
         /\ ip = -1 => regs = Interrupted
         /\ InStub => /\ ip \in 0 .. 24 /\ Depth(ip) \in 5 .. 16
                      /\ rsp = base - Depth(ip) /\ rsp \in 16 .. 59
                      /\ StackPointer /\ Words /\ Kept /\ Arguments
<1>1. TypeOK
  BY DEF IInv
<1>2. InStub => ip \in 0 .. 24 /\ Depth(ip) \in 5 .. 16
  BY <1>1, TypesAre DEF InStub
<1>3. InStub => rsp = base - Depth(ip)
  BY DEF IInv, StackPointer, rsp, Number
<1>4. base \in 32 .. 64
  BY <1>1, TypesAre, BaseIs
<1>5. InStub => rsp \in 16 .. 59
  BY <1>2, <1>3, <1>4
<1>6. InStub => StackPointer /\ Words /\ Kept /\ Arguments
  BY DEF IInv
<1>7. ip = -1 => regs = Interrupted
  BY DEF IInv, Resumes
<1> QED
  BY <1>1, <1>2, <1>3, <1>5, <1>6, <1>7, TypesAre, Zenon

\* Positions within the stub.
LEMMA Within ==
  ASSUME NEW i \in 0 .. 24, NEW n, n - 1 = 24
  PROVE  i \in -1 .. (n - 1)
OBVIOUS

LEMMA Idle ==
  ASSUME NEW n, n - 1 = 24
  PROVE  -1 \in -1 .. (n - 1)
OBVIOUS

\* The word k below an address of the stack.
LEMMA Below ==
  ASSUME NEW b \in Int, 32 <= b, b <= 64, NEW n \in Int, n <= 16, NEW k \in 0 .. n
  PROVE  b - k \in 0 .. 64 /\ b - (b - k) = k
OBVIOUS

\* From one instruction of the stub to the next it is enough to look at registers
\* and stack.
LEMMA NextInvariant ==
  ASSUME IInv, InStub, ip # 24, Next_instruction, UNCHANGED <<vector, top>>,
         DOMAIN regs' = Registers, \A r \in Registers : regs'[r][1] \in Values,
         DOMAIN stack' = 0 .. 64, \A w \in 0 .. 64 : stack'[w][1] \in Values,
         regs'["rsp"] = Number(base - Depth(ip + 1)),
         \A k \in 1 .. Depth(ip + 1) : Holds(k, stack'[base - k]),
         \A r \in Registers \ Lost(ip + 1) : regs'[r] = Old(r),
         ip + 1 \in 3 .. 13 => regs'["rdi"] = Number(vector),
         ip + 1 \in 12 .. 13 => regs'["rflags"] = Forward,
         ip + 1 = 13 => regs'["rsi"] = Number(base - 16)
  PROVE  IInv'
<1>1. vector \in 0 .. 255 /\ top \in Tops /\ ip \in 0 .. 24
  BY InvariantIs
<1>2. vector' = vector /\ top' = top /\ ip' = ip + 1 /\ ip + 1 \in 1 .. 24
  BY <1>1 DEF Next_instruction
<1>3. base' = base /\ Depth(ip)' = Depth(ip + 1) /\ Lost(ip)' = Lost(ip + 1)
  BY <1>2, Zenon DEF base, Depth, Lost
<1>4. ASSUME NEW k, NEW word
      PROVE  Holds(k, word)' <=> Holds(k, word)
  BY <1>2, Zenon DEF Holds, Interrupted
<1>5. base - Depth(ip + 1) \in 0 .. 64
  BY <1>1, <1>2, BaseIs, TypesAre
<1>6. Len(interrupt_stub(IDT[vector]))' - 1 = 24
  BY StubIs
<1>7. TypeOK'
  <2>1. regs'["rsp"] \in {Number(n) : n \in 0 .. 64}
    BY <1>5
  <2>2. ip' \in -1 .. (Len(interrupt_stub(IDT[vector]))' - 1)
    <3>1. ip' \in 0 .. 24
      BY <1>2
    <3> QED
      BY <1>6, <3>1, Within, Zenon
  <2>3. vector' \in 0 .. 255 /\ top' \in Tops
    BY <1>1, <1>2
  <2> QED
    BY <2>1, <2>2, <2>3, Zenon DEF TypeOK
<1>8. Resumes'
  BY <1>2 DEF Resumes
<1>9. StackPointer' /\ Kept'
  BY <1>3, Zenon DEF StackPointer, Kept
<1>10. Words'
  BY <1>3, <1>4 DEF Words
<1>11. Arguments'
  BY <1>2, <1>3 DEF Arguments
<1> QED
  BY <1>7, <1>8, <1>9, <1>10, <1>11 DEF IInv
\* The interrupt comes, wherever the last return left the stack pointer.
LEMMA InterruptStep ==
  ASSUME IInv, NEW v \in Vectors, Interrupt(v)
  PROVE  IInv'
<1> DEFINE pushed == ProcessorFrame(v)
<1>1. /\ v \in 0 .. 255 /\ top \in Tops /\ ip = -1
      /\ DOMAIN stack = 0 .. 64 /\ \A w \in 0 .. 64 : stack[w][1] \in Values
      /\ regs = Interrupted
  BY EntryAssumption, InvariantIs DEF Interrupt
<1>2. /\ vector' = v /\ ip' = 0 /\ top' = top
      /\ stack' = [w \in DOMAIN stack |->
                     IF base - w \in DOMAIN pushed THEN pushed[base - w] ELSE stack[w]]
      /\ regs' = [regs EXCEPT !["rsp"] = Number(base - Len(pushed))]
  BY DEF Interrupt, base
<1>3. /\ DOMAIN pushed = 1 .. Len(pushed)
      /\ Len(pushed) = IF PushesErrorCode(v) THEN 6 ELSE 5
      /\ \A k \in 1 .. 5 : pushed[k] = Interrupted[Pushed[k]]
      /\ PushesErrorCode(v) => pushed[6] = ErrorCode
      /\ \A k \in DOMAIN pushed : pushed[k][1] \in Values
  BY FrameIs, FrameValues
<1> HIDE DEF pushed
<1>4. base \in Int /\ 32 <= base /\ base <= 64
  BY <1>1, BaseIs
<1>5. PICK n \in Int : n = Len(pushed)
  BY <1>3
<1>6. 5 <= n /\ n <= 6
  BY <1>3, <1>5
<1>7. /\ \A k \in 1 .. n : k \in 1 .. 5 \/ (k = 6 /\ PushesErrorCode(v))
      /\ DOMAIN pushed = 1 .. n
  BY <1>3, <1>5
<1>8. base' = base /\ Interrupted' = Interrupted
  BY <1>2 DEF base, Interrupted
<1>9. Depth(ip)' = n
  BY <1>2, <1>3, <1>5 DEF Depth
<1>10. Lost(ip)' = {"rsp"}
  BY <1>2 DEF Lost
<1>11. /\ DOMAIN regs' = Registers /\ regs'["rsp"] = Number(base - n)
       /\ \A r \in Registers \ {"rsp"} : regs'[r] = Old(r)
       /\ \A r \in Registers : regs'[r][1] \in Values
  <2>1. "rsp" \in Registers
    BY DEF Registers
  <2>2. Number(base - n)[1] \in Values
    BY DEF Number, Values
  <2>3. regs' = [regs EXCEPT !["rsp"] = Number(base - n)]
    BY <1>2, <1>5
  <2> QED
    BY <1>1, <2>1, <2>2, <2>3, InterruptedIs
<1>12. DOMAIN stack' = 0 .. 64 /\ \A w \in 0 .. 64 : stack'[w][1] \in Values
  <2>1. DOMAIN stack' = 0 .. 64
    BY <1>1, <1>2, Zenon
  <2>2. ASSUME NEW w \in 0 .. 64
        PROVE  stack'[w] = IF base - w \in DOMAIN pushed THEN pushed[base - w] ELSE stack[w]
    BY <1>1, <1>2, Zenon
  <2>3. \A k \in DOMAIN pushed : pushed[k][1] \in Values
    BY <1>3
  <2>4. \A w \in 0 .. 64 : stack[w][1] \in Values
    BY <1>1
  <2> QED
    BY <2>1, <2>2, <2>3, <2>4
<1>13. ASSUME NEW k \in 1 .. n
       PROVE  stack'[base - k] = pushed[k]
  <2>1. base - k \in 0 .. 64 /\ base - (base - k) = k
    BY <1>4, <1>6, Below
  <2>2. stack'[base - k] = IF base - (base - k) \in DOMAIN pushed
                           THEN pushed[base - (base - k)] ELSE stack[base - k]
    BY <1>1, <1>2, <2>1, Zenon
  <2> QED
    BY <1>7, <2>1, <2>2
<1>14. Words'
  <2>1. ASSUME NEW k \in 1 .. n, NEW word, word = pushed[k]
        PROVE  Holds(k, word)'
    <3>1. CASE k \in 1 .. 5
      <4>1. k # 6 /\ word = Interrupted'[Pushed[k]]
        BY <1>3, <1>8, <2>1, <3>1
      <4> QED
        BY <4>1 DEF Holds
    <3>2. CASE k = 6 /\ PushesErrorCode(v)
      <4>1. k \in {6, 7} /\ word = ErrorCode
        BY <1>3, <2>1, <3>2
      <4> QED
        BY <4>1 DEF Holds
    <3> QED
      BY <1>7, <3>1, <3>2
  <2>2. ASSUME NEW k \in 1 .. n
        PROVE  Holds(k, stack[base - k])'
    <3>1. stack'[base - k] = pushed[k]
      BY <1>13
    <3>2. stack'[base' - k] = pushed[k]
      BY <1>8, <3>1, Zenon
    <3>3. \A word : word = pushed[k] => Holds(k, word)'
      BY <2>1
    <3> QED
      BY <3>2, <3>3, Zenon DEF Holds
  <2> QED
    BY <1>9, <2>2, Zenon DEF Words
<1>15. TypeOK'
  <2>1. Len(interrupt_stub(IDT[vector]))' - 1 = 24
    BY StubIs
  <2>2. ip' \in -1 .. (Len(interrupt_stub(IDT[vector]))' - 1)
    <3>1. ip' \in 0 .. 24
      BY <1>2
    <3> QED
      BY <2>1, <3>1, Within, Zenon
  <2>3. base - n \in 0 .. 64
    BY <1>4, <1>6, Below
  <2>4. regs'["rsp"] \in {Number(m) : m \in 0 .. 64}
    BY <1>11, <2>3, Zenon
  <2>5. vector' \in 0 .. 255 /\ top' \in Tops
    BY <1>1, <1>2, Zenon
  <2> QED
    BY <1>11, <1>12, <2>2, <2>4, <2>5, Zenon DEF TypeOK
<1>16. StackPointer' /\ Kept'
  BY <1>8, <1>9, <1>10, <1>11, Zenon DEF StackPointer, Kept
<1>17. Resumes' /\ Arguments'
  BY <1>2 DEF Resumes, Arguments
<1> QED
  BY <1>14, <1>15, <1>16, <1>17 DEF IInv
\* What every instruction of the stub but the last has in common.
LEMMA StubIsRunning ==
  ASSUME IInv, NEW op, Step(op)
  PROVE  /\ InStub /\ ip \in 0 .. 24 /\ Instruction[1] = op
         /\ Next_instruction /\ UNCHANGED <<vector, top>>
         /\ op # "iretq" => ip # 24
         /\ base \in Int /\ 32 <= base /\ base <= 64
         /\ Depth(ip) \in Int /\ 5 <= Depth(ip) /\ Depth(ip) <= 16
         /\ rsp = base - Depth(ip)
<1>1. InStub /\ Instruction[1] = op /\ Next_instruction /\ UNCHANGED <<vector, top>>
  BY DEF Step
<1>2. /\ vector \in 0 .. 255 /\ top \in Tops /\ ip \in 0 .. 24
      /\ Depth(ip) \in 5 .. 16 /\ rsp = base - Depth(ip)
  BY <1>1, InvariantIs
<1>3. op # "iretq" => ip # 24
  <2>1. ip = 24 => Instruction[1] = "iretq"
    BY <1>2, Program
  <2> QED
    BY <1>1, <2>1
<1>4. base \in Int /\ 32 <= base /\ base <= 64
  BY <1>2, BaseIs
<1>5. Depth(ip) \in Int /\ 5 <= Depth(ip) /\ Depth(ip) <= 16
  BY <1>2
<1> QED
  BY <1>1, <1>2, <1>3, <1>4, <1>5

\* A push puts the register whose turn it is where it belongs.
LEMMA PushStep ==
  ASSUME IInv, push
  PROVE  IInv'
<1>1. /\ InStub /\ ip \in 0 .. 24 /\ ip # 24 /\ Instruction[1] = "push"
      /\ Next_instruction /\ UNCHANGED <<vector, top>>
      /\ rsp = base - Depth(ip)
  BY StubIsRunning DEF push
<1>2. /\ base \in Int /\ 32 <= base /\ base <= 64
      /\ Depth(ip) \in Int /\ 5 <= Depth(ip) /\ Depth(ip) <= 16
  BY StubIsRunning DEF push
<1>3. /\ vector \in 0 .. 255 /\ DOMAIN regs = Registers
      /\ \A r \in Registers : regs[r][1] \in Values
      /\ DOMAIN stack = 0 .. 64 /\ \A w \in 0 .. 64 : stack[w][1] \in Values
      /\ Words /\ Kept /\ Arguments
  BY <1>1, InvariantIs
<1>4. ip \in {1} \cup 3 .. 10
  BY <1>1, <1>3, Places
<1> DEFINE r0 == Instruction[2]
<1>5. /\ r0 = Pushed[Depth(ip) + 1] /\ Depth(ip + 1) = Depth(ip) + 1
      /\ r0 \in Saved \ Lost(ip) /\ Lost(ip + 1) = Lost(ip)
  BY <1>1, <1>3, PushIs
<1>6. /\ stack' = [stack EXCEPT ![rsp - 1] = regs[r0]]
      /\ regs' = [regs EXCEPT !["rsp"] = Number(rsp - 1)]
  BY DEF push
<1> HIDE DEF r0
<1>7. 8 <= Depth(ip + 1) /\ Depth(ip + 1) <= 16
  BY <1>4 DEF Depth
<1>8. rsp - 1 = base - Depth(ip + 1)
  BY <1>1, <1>2, <1>5
<1>9. "rsp" \in Registers /\ "rsp" \in Lost(ip) /\ r0 \in Registers /\ r0 # "rsp"
  BY <1>5 DEF Registers, Saved, Lost
<1>10. /\ DOMAIN regs' = Registers /\ regs'["rsp"] = Number(base - Depth(ip + 1))
       /\ \A r \in Registers \ {"rsp"} : regs'[r] = regs[r]
  BY <1>3, <1>6, <1>8, <1>9, Zenon
<1>11. \A r \in Registers : regs'[r][1] \in Values
  BY <1>3, <1>10 DEF Number, Values
<1>12. \A r \in Registers \ Lost(ip + 1) : regs'[r] = Old(r)
  BY <1>3, <1>5, <1>9, <1>10, Zenon DEF Kept
<1>13. regs[r0] = Old(r0) /\ Old(r0) = Interrupted[r0]
  BY <1>3, <1>5, <1>9, InterruptedIs, Zenon DEF Kept
<1> DEFINE d == Depth(ip + 1)
<1>14. d \in Int /\ 8 <= d /\ d <= 16 /\ d - 1 = Depth(ip)
  BY <1>2, <1>5, <1>7
<1> HIDE DEF d
<1>15. stack' = [stack EXCEPT ![base - d] = regs[r0]]
  BY <1>6, <1>8, Zenon DEF d
<1>16. base - d \in 0 .. 64 /\ \A k \in 1 .. d : base - k \in 0 .. 64
  <2>1. d \in 0 .. d /\ \A k \in 1 .. d : k \in 0 .. d
    BY <1>14
  <2> QED
    BY <1>2, <1>14, <2>1, Below
<1>17. DOMAIN stack' = 0 .. 64 /\ \A w \in 0 .. 64 : stack'[w][1] \in Values
  <2>1. DOMAIN stack' = 0 .. 64
    BY <1>3, <1>15, Zenon
  <2>2. ASSUME NEW w \in 0 .. 64
        PROVE  stack'[w] = regs[r0] \/ stack'[w] = stack[w]
    BY <1>3, <1>15, Zenon
  <2> QED
    BY <1>3, <1>9, <2>1, <2>2, Zenon
<1>18. ASSUME NEW k \in 1 .. d
       PROVE  Holds(k, stack'[base - k])
  <2>1. CASE k = d
    <3>1. stack'[base - k] = Interrupted[Pushed[k]]
      BY <1>3, <1>5, <1>13, <1>15, <1>16, <2>1, Zenon DEF d
    <3>2. k # 6
      BY <1>14, <2>1
    <3> QED
      BY <3>1, <3>2 DEF Holds
  <2>2. CASE k # d
    <3>1. k \in 1 .. (d - 1) /\ base - k # base - d
      BY <1>2, <1>14, <2>2
    <3>2. stack'[base - k] = stack[base - k]
      BY <1>3, <1>15, <1>16, <3>1, Zenon
    <3>3. Holds(k, stack[base - k])
      BY <1>3, <1>14, <3>1, Zenon DEF Words
    <3> QED
      BY <3>2, <3>3, Zenon
  <2> QED
    BY <2>1, <2>2
<1>19. /\ ip + 1 \in 3 .. 13 => regs'["rdi"] = Number(vector)
       /\ ip + 1 \in 12 .. 13 => regs'["rflags"] = Forward
       /\ ip + 1 = 13 => regs'["rsi"] = Number(base - 16)
  <2>1. ip + 1 \in 3 .. 13 => ip \in 3 .. 13
    BY <1>4
  <2>2. "rdi" \in Registers \ {"rsp"}
    BY DEF Registers, Saved
  <2>3. ip + 1 \in 3 .. 13 => regs'["rdi"] = Number(vector)
    BY <1>3, <1>10, <2>1, <2>2, Zenon DEF Arguments
  <2>4. ip + 1 \notin 12 .. 13 /\ ip + 1 # 13
    BY <1>4
  <2> QED
    BY <2>3, <2>4
<1>20. \A k \in 1 .. Depth(ip + 1) : Holds(k, stack'[base - k])
  BY <1>18 DEF d
<1> QED
  BY <1>1, <1>10, <1>11, <1>12, <1>17, <1>19, <1>20, NextInvariant
\* A pop gives a register back what it was.
LEMMA PopStep ==
  ASSUME IInv, pop
  PROVE  IInv'
<1>1. /\ InStub /\ ip \in 0 .. 24 /\ ip # 24 /\ Instruction[1] = "pop"
      /\ Next_instruction /\ UNCHANGED <<vector, top>>
      /\ rsp = base - Depth(ip)
  BY StubIsRunning DEF pop
<1>2. base \in Int /\ 32 <= base /\ base <= 64
  BY StubIsRunning DEF pop
<1>3. /\ vector \in 0 .. 255 /\ DOMAIN regs = Registers
      /\ \A r \in Registers : regs[r][1] \in Values
      /\ DOMAIN stack = 0 .. 64 /\ \A w \in 0 .. 64 : stack[w][1] \in Values
      /\ Words /\ Kept
  BY <1>1, InvariantIs
<1>4. ip \in 14 .. 22
  BY <1>1, <1>3, Places
<1> DEFINE r0 == Instruction[2]
           d == Depth(ip)
<1>5. /\ r0 = Pushed[d]
      /\ d \in 8 .. 16 /\ Depth(ip + 1) = d - 1
      /\ r0 \in Saved
      /\ Lost(ip) = Lost(ip + 1) \cup {r0}
  BY <1>1, <1>3, PopIs
<1>6. regs' = [regs EXCEPT ![r0] = stack[rsp], !["rsp"] = Number(rsp + 1)] /\ stack' = stack
  BY DEF pop
<1>7. /\ d \in Int /\ 8 <= d /\ d <= 16 /\ d \in 1 .. d /\ d \in 0 .. d
      /\ \A k \in 1 .. (d - 1) : k \in 1 .. d
  BY <1>5
<1>8. rsp = base - d
  BY <1>1
<1> HIDE DEF r0, d
<1>9. rsp + 1 = base - (d - 1)
  BY <1>2, <1>7, <1>8
<1>10. "rsp" \in Registers /\ r0 \in Registers /\ r0 # "rsp" /\ "rsp" \in Lost(ip + 1)
  BY <1>5 DEF Registers, Saved, Lost
<1>11. base - d \in 0 .. 64
  BY <1>2, <1>7, Below
<1>12. stack[rsp] = Old(r0) /\ stack[rsp][1] \in Values
  <2>1. Holds(d, stack[base - d])
    BY <1>3, <1>7, Zenon DEF Words, d
  <2>2. d \notin {6, 7}
    BY <1>7
  <2>3. stack[base - d] = Interrupted[r0]
    BY <1>5, <2>1, <2>2, Zenon DEF Holds
  <2> QED
    BY <1>3, <1>8, <1>10, <1>11, <2>3, InterruptedIs, Zenon
<1>13. /\ DOMAIN regs' = Registers /\ regs'["rsp"] = Number(base - (d - 1))
       /\ regs'[r0] = Old(r0)
       /\ \A r \in Registers \ {"rsp", r0} : regs'[r] = regs[r]
  <2>1. regs' = [[regs EXCEPT ![r0] = stack[rsp]] EXCEPT !["rsp"] = Number(rsp + 1)]
    BY <1>6
  <2>2. regs'["rsp"] = Number(rsp + 1)
    BY <1>3, <1>10, <2>1, Zenon
  <2> QED
    BY <1>3, <1>9, <1>10, <1>12, <2>1, <2>2, Zenon
<1>14. \A r \in Registers : regs'[r][1] \in Values
  <2>1. Number(base - (d - 1))[1] \in Values /\ Old(r0)[1] \in Values
    BY DEF Number, Old, Values
  <2> QED
    BY <1>3, <1>13, <2>1
<1>15. \A r \in Registers \ Lost(ip + 1) : regs'[r] = Old(r)
  <2> SUFFICES ASSUME NEW r \in Registers \ Lost(ip + 1)
               PROVE  regs'[r] = Old(r)
    OBVIOUS
  <2>1. CASE r = r0
    BY <1>13, <2>1, Zenon
  <2>2. CASE r # r0
    <3>1. r \in Registers \ Lost(ip) /\ r \in Registers \ {"rsp", r0}
      BY <1>5, <1>10, <2>2
    <3> QED
      BY <1>3, <1>13, <3>1, Zenon DEF Kept
  <2> QED
    BY <2>1, <2>2
<1>16. \A k \in 1 .. Depth(ip + 1) : Holds(k, stack'[base - k])
  BY <1>3, <1>5, <1>6, <1>7, Zenon DEF Words, d
<1>17. ip + 1 \notin 3 .. 13 /\ ip + 1 \notin 12 .. 13 /\ ip + 1 # 13
  BY <1>4
<1>18. regs'["rsp"] = Number(base - Depth(ip + 1))
  BY <1>5, <1>13, Zenon
<1>19. DOMAIN stack' = 0 .. 64 /\ \A w \in 0 .. 64 : stack'[w][1] \in Values
  BY <1>3, <1>6, Zenon
<1> QED
  BY <1>1, <1>13, <1>14, <1>15, <1>16, <1>17, <1>18, <1>19, NextInvariant

\* Instructions that write one register and leave the stack alone.
LEMMA WriteStep ==
  ASSUME IInv, NEW op, op # "iretq", Step(op), NEW r0 \in Registers, NEW value,
         regs' = [regs EXCEPT ![r0] = value], value[1] \in Values, UNCHANGED stack,
         r0 \in Lost(ip + 1), Lost(ip) \subseteq Lost(ip + 1),
         r0 = "rsp" => value = Number(base - Depth(ip + 1)),
         r0 # "rsp" => Depth(ip + 1) = Depth(ip),
         ip = 0 \/ Depth(ip + 1) \in 1 .. Depth(ip),
         ip + 1 \in 3 .. 13 =>
           IF r0 = "rdi" THEN value = Number(vector) ELSE ip \in 3 .. 13,
         ip + 1 \in 12 .. 13 =>
           IF r0 = "rflags" THEN value = Forward ELSE ip \in 12 .. 13,
         ip + 1 = 13 =>
           IF r0 = "rsi" THEN value = Number(base - 16) ELSE ip = 13
  PROVE  IInv'
<1>1. /\ InStub /\ ip \in 0 .. 24 /\ ip # 24
      /\ Next_instruction /\ UNCHANGED <<vector, top>>
      /\ rsp = base - Depth(ip)
  BY StubIsRunning
<1>2. /\ Depth(ip) \in Int /\ 5 <= Depth(ip) /\ Depth(ip) <= 16
  BY StubIsRunning
<1>3. /\ vector \in 0 .. 255 /\ DOMAIN regs = Registers
      /\ \A r \in Registers : regs[r][1] \in Values
      /\ DOMAIN stack = 0 .. 64 /\ \A w \in 0 .. 64 : stack[w][1] \in Values
      /\ StackPointer /\ Words /\ Kept /\ Arguments
  BY <1>1, InvariantIs
<1>4. /\ DOMAIN regs' = Registers /\ regs'[r0] = value
      /\ \A r \in Registers \ {r0} : regs'[r] = regs[r]
  BY <1>3, Zenon
<1>5. \A r \in Registers : regs'[r][1] \in Values
  BY <1>3, <1>4, Zenon
<1>6. "rsp" \in Registers /\ "rdi" \in Registers /\ "rsi" \in Registers /\ "rflags" \in Registers
  BY DEF Registers, Saved
<1>7. regs'["rsp"] = Number(base - Depth(ip + 1))
  BY <1>3, <1>4, <1>6, Zenon DEF StackPointer
<1>8. \A r \in Registers \ Lost(ip + 1) : regs'[r] = Old(r)
  <2>1. \A r \in Registers \ Lost(ip + 1) : r \in Registers \ Lost(ip) /\ r \in Registers \ {r0}
    OBVIOUS
  <2> QED
    BY <1>3, <1>4, <2>1, Zenon DEF Kept
<1>9. \A k \in 1 .. Depth(ip + 1) : Holds(k, stack'[base - k])
  <2>1. stack' = stack
    OBVIOUS
  <2>2. \A k \in 1 .. Depth(ip) : Holds(k, stack[base - k])
    BY <1>3, Zenon DEF Words
  <2>3. ASSUME NEW k \in 1 .. Depth(ip + 1)
        PROVE  k \in 1 .. Depth(ip) \/ (ip = 0 /\ k = 7) \/ (ip = 0 /\ k = 6 /\ ~PushesErrorCode(vector))
    <3>1. CASE ip = 0
      BY <3>1 DEF Depth
    <3>2. CASE ip # 0
      <4>1. Depth(ip + 1) \in 1 .. Depth(ip)
        BY <3>2
      <4> QED
        BY <1>2, <4>1
    <3> QED
      BY <3>1, <3>2
  <2>4. \A k, word : k = 7 \/ (k = 6 /\ ~PushesErrorCode(vector)) => Holds(k, word)
    BY DEF Holds
  <2> QED
    BY <2>1, <2>2, <2>3, <2>4, Zenon
<1>10. /\ ip + 1 \in 3 .. 13 => regs'["rdi"] = Number(vector)
       /\ ip + 1 \in 12 .. 13 => regs'["rflags"] = Forward
       /\ ip + 1 = 13 => regs'["rsi"] = Number(base - 16)
  BY <1>3, <1>4, <1>6, Zenon DEF Arguments
<1>11. DOMAIN stack' = 0 .. 64 /\ \A w \in 0 .. 64 : stack'[w][1] \in Values
  BY <1>3, Zenon
<1> QED
  BY <1>1, <1>4, <1>5, <1>7, <1>8, <1>9, <1>10, <1>11, NextInvariant
\* The stub leaves as much room as makes the frame the same for every vector, and
\* takes the handler's two words away at the end.
LEMMA AdjustStep ==
  ASSUME IInv, adjust
  PROVE  IInv'
<1>1. UNCHANGED stack
  BY DEF adjust
<1>2. CASE Step("sub") /\ regs' = [regs EXCEPT !["rsp"] = Number(rsp - Instruction[2])]
  <2>1. /\ InStub /\ ip \in 0 .. 24 /\ Instruction[1] = "sub" /\ rsp = base - Depth(ip)
        /\ vector \in 0 .. 255 /\ base \in Int
    BY <1>2, StubIsRunning, InvariantIs
  <2>2. ip = 0
    BY <2>1, Places
  <2>3. Instruction[2] = IF PushesErrorCode(vector) THEN 1 ELSE 2
    BY <2>1, <2>2, Program DEF HasErrorCodeStub, PushesErrorCode
  <2>4. /\ Depth(ip) = IF PushesErrorCode(vector) THEN 6 ELSE 5
        /\ Depth(ip + 1) = 7
    BY <2>2 DEF Depth
  <2>5. rsp - Instruction[2] = base - Depth(ip + 1)
    BY <2>1, <2>3, <2>4
  <2>6. "rsp" \in Registers /\ "rsp" \in Lost(ip + 1) /\ Lost(ip) \subseteq Lost(ip + 1)
    BY <2>2 DEF Registers, Lost
  <2>7. Number(base - Depth(ip + 1))[1] \in Values
    BY DEF Number, Values
  <2>8. ip + 1 \notin 3 .. 13 /\ ip + 1 \notin 12 .. 13 /\ ip + 1 # 13
    BY <2>2
  <2>9. regs' = [regs EXCEPT !["rsp"] = Number(base - Depth(ip + 1))]
    BY <1>2, <2>5, Zenon
  <2>10. "sub" # "iretq"
    OBVIOUS
  <2> QED
    BY <1>1, <1>2, <2>2, <2>6, <2>7, <2>8, <2>9, <2>10, WriteStep, Zenon
<1>3. CASE Step("add") /\ regs' = [regs EXCEPT !["rsp"] = Number(rsp + Instruction[2])]
  <2>1. /\ InStub /\ ip \in 0 .. 24 /\ Instruction[1] = "add" /\ rsp = base - Depth(ip)
        /\ vector \in 0 .. 255 /\ base \in Int
    BY <1>3, StubIsRunning, InvariantIs
  <2>2. ip = 23
    BY <2>1, Places
  <2>3. Instruction[2] = 2
    BY <2>1, <2>2, Program
  <2>4. Depth(ip) = 7 /\ Depth(ip + 1) = 5
    BY <2>2 DEF Depth
  <2>5. rsp + Instruction[2] = base - Depth(ip + 1)
    BY <2>1, <2>3, <2>4
  <2>6. "rsp" \in Registers /\ "rsp" \in Lost(ip + 1) /\ Lost(ip) \subseteq Lost(ip + 1)
    BY <2>2, <2>4 DEF Registers, Lost
  <2>7. Number(base - Depth(ip + 1))[1] \in Values
    BY DEF Number, Values
  <2>8. ip + 1 \notin 3 .. 13 /\ ip + 1 \notin 12 .. 13 /\ ip + 1 # 13
    BY <2>2
  <2>9. regs' = [regs EXCEPT !["rsp"] = Number(base - Depth(ip + 1))]
    BY <1>3, <2>5, Zenon
  <2>10. "add" # "iretq" /\ Depth(ip + 1) \in 1 .. Depth(ip)
    BY <2>4
  <2> QED
    BY <1>1, <1>3, <2>6, <2>7, <2>8, <2>9, <2>10, WriteStep, Zenon
<1> QED
  BY <1>2, <1>3 DEF adjust

\* The arguments: the vector, and where the frame begins.
LEMMA ArgumentStep ==
  ASSUME IInv, argument
  PROVE  IInv'
<1>1. UNCHANGED stack
  BY DEF argument
<1>2. CASE Step("vector") /\ regs' = [regs EXCEPT ![Instruction[2]] = Number(IDT[vector])]
  <2>1. /\ InStub /\ ip \in 0 .. 24 /\ Instruction[1] = "vector" /\ vector \in 0 .. 255
    BY <1>2, StubIsRunning, InvariantIs
  <2>2. ip = 2
    BY <2>1, Places
  <2>3. Instruction[2] = "rdi" /\ IDT[vector] = vector
    BY <2>1, <2>2, Program DEF IDT
  <2>4. Depth(ip + 1) = 8 /\ Depth(ip) = 8
    BY <2>2 DEF Depth
  <2>5. "rdi" \in Registers /\ "rdi" \in Lost(ip + 1) /\ Lost(ip) \subseteq Lost(ip + 1)
    BY <2>2 DEF Registers, Saved, Lost
  <2>6. Number(vector)[1] \in Values
    BY DEF Number, Values
  <2>7. ip + 1 \notin 12 .. 13 /\ ip + 1 # 13
    BY <2>2
  <2>8. regs' = [regs EXCEPT !["rdi"] = Number(vector)]
    BY <1>2, <2>3, Zenon
  <2>9. "vector" # "iretq" /\ Depth(ip + 1) \in 1 .. Depth(ip) /\ "rdi" # "rsp"
    BY <2>4
  <2>10. Depth(ip + 1) = Depth(ip)
    BY <2>4
  <2> QED
    BY <1>1, <1>2, <2>5, <2>6, <2>7, <2>8, <2>9, <2>10, WriteStep, Zenon
<1>3. CASE Step("frame") /\ regs' = [regs EXCEPT ![Instruction[2]] = Number(rsp)]
  <2>1. /\ InStub /\ ip \in 0 .. 24 /\ Instruction[1] = "frame" /\ rsp = base - Depth(ip)
        /\ vector \in 0 .. 255
    BY <1>3, StubIsRunning, InvariantIs
  <2>2. ip = 12
    BY <2>1, Places
  <2>3. Instruction[2] = "rsi"
    BY <2>1, <2>2, Program
  <2>4. Depth(ip + 1) = 16 /\ Depth(ip) = 16
    BY <2>2 DEF Depth
  <2>5. "rsi" \in Registers /\ "rsi" \in Lost(ip + 1) /\ Lost(ip) \subseteq Lost(ip + 1)
    BY <2>2 DEF Registers, Saved, Lost
  <2>6. Number(base - 16)[1] \in Values
    BY DEF Number, Values
  <2>7. ip \in 3 .. 13 /\ ip \in 12 .. 13
    BY <2>2
  <2>8. regs' = [regs EXCEPT !["rsi"] = Number(base - 16)]
    BY <1>3, <2>1, <2>3, <2>4, Zenon
  <2>9. /\ "frame" # "iretq" /\ Depth(ip + 1) \in 1 .. Depth(ip)
        /\ "rsi" # "rsp" /\ "rsi" # "rdi" /\ "rsi" # "rflags"
    BY <2>4
  <2>10. Depth(ip + 1) = Depth(ip)
    BY <2>4
  <2> QED
    BY <1>1, <1>3, <2>5, <2>6, <2>7, <2>8, <2>9, <2>10, WriteStep, Zenon
<1> QED
  BY <1>2, <1>3 DEF argument

\* The direction flag is cleared.
LEMMA CldStep ==
  ASSUME IInv, cld
  PROVE  IInv'
<1>1. Step("cld") /\ regs' = [regs EXCEPT !["rflags"] = Forward] /\ UNCHANGED stack
  BY DEF cld
<1>2. InStub /\ ip \in 0 .. 24 /\ Instruction[1] = "cld" /\ vector \in 0 .. 255
  BY <1>1, StubIsRunning, InvariantIs
<1>3. ip = 11
  BY <1>2, Places
<1>4. Depth(ip + 1) = 16 /\ Depth(ip) = 16
  BY <1>3 DEF Depth
<1>5. "rflags" \in Registers /\ "rflags" \in Lost(ip + 1) /\ Lost(ip) \subseteq Lost(ip + 1)
  BY <1>3 DEF Registers, Lost
<1>6. Forward[1] \in Values
  BY DEF Forward, Values
<1>7. ip \in 3 .. 13 /\ ip + 1 # 13
  BY <1>3
<1>8. /\ "cld" # "iretq" /\ Depth(ip + 1) \in 1 .. Depth(ip)
      /\ "rflags" # "rsp" /\ "rflags" # "rdi"
  BY <1>4
<1>9. Depth(ip + 1) = Depth(ip)
  BY <1>4
<1> QED
  BY <1>1, <1>5, <1>6, <1>7, <1>8, <1>9, WriteStep, Zenon

\* The handler destroys what it may, and everything it destroys has been saved.
LEMMA CallStep ==
  ASSUME IInv, call
  PROVE  IInv'
<1>1. /\ InStub /\ ip \in 0 .. 24 /\ ip # 24 /\ Instruction[1] = "call"
      /\ Next_instruction /\ UNCHANGED <<vector, top>>
      /\ rsp = base - Depth(ip) /\ base \in Int
  BY StubIsRunning DEF call
<1>2. /\ vector \in 0 .. 255 /\ DOMAIN regs = Registers
      /\ \A r \in Registers : regs[r][1] \in Values
      /\ DOMAIN stack = 0 .. 64 /\ \A w \in 0 .. 64 : stack[w][1] \in Values
      /\ StackPointer /\ Words /\ Kept
  BY <1>1, InvariantIs
<1>3. ip = 13
  BY <1>1, <1>2, Places
<1>4. Depth(ip) = 16 /\ Depth(ip + 1) = 16
  BY <1>3 DEF Depth
<1>5. /\ regs' = [r \in Registers |-> IF r \in Saved \cup {"rflags"} THEN Junk ELSE regs[r]]
      /\ stack' = [w \in DOMAIN stack |-> IF w < rsp THEN Junk ELSE stack[w]]
  BY DEF call
<1>6. Junk[1] \in Values
  BY DEF Junk, Values
<1>7. "rsp" \in Registers /\ "rsp" \notin Saved \cup {"rflags"}
  BY DEF Registers, Saved
<1>8. Lost(ip + 1) = {"rsp", "rflags"} \cup Saved /\ Lost(ip) \subseteq Lost(ip + 1)
  <2>1. \A k : k \in 8 .. 16 <=> k \in {8, 9, 10, 11, 12, 13, 14, 15, 16}
    OBVIOUS
  <2>2. {Pushed[k] : k \in 8 .. 16} = Saved
    BY <2>1 DEF Pushed, Saved
  <2>3. Lost(ip + 1) = {"rsp", "rflags"} \cup {Pushed[k] : k \in 8 .. 16}
    BY <1>3, <1>4 DEF Lost
  <2>4. Lost(ip) = {"rsp", "rdi", "rflags", "rsi"}
    BY <1>3 DEF Lost
  <2> QED
    BY <2>2, <2>3, <2>4 DEF Saved
<1>9. DOMAIN regs' = Registers /\ \A r \in Registers : regs'[r][1] \in Values
  BY <1>2, <1>5, <1>6
<1>10. regs'["rsp"] = Number(base - Depth(ip + 1))
  BY <1>2, <1>4, <1>5, <1>7 DEF StackPointer
<1>11. \A r \in Registers \ Lost(ip + 1) : regs'[r] = Old(r)
  BY <1>2, <1>5, <1>8 DEF Kept
<1>12. DOMAIN stack' = 0 .. 64 /\ \A w \in 0 .. 64 : stack'[w][1] \in Values
  BY <1>2, <1>5, <1>6
<1>13. ASSUME NEW k \in 1 .. Depth(ip + 1)
       PROVE  Holds(k, stack'[base - k])
  <2>1. 32 <= base /\ base <= 64
    BY StubIsRunning DEF call
  <2>2. base - k \in 0 .. 64
    BY <1>1, <1>4, <2>1, Below
  <2>3. ~(base - k < rsp)
    BY <1>1, <1>4
  <2>4. stack'[base - k] = stack[base - k]
    BY <1>2, <1>5, <2>2, <2>3, Zenon
  <2> QED
    BY <1>2, <1>4, <2>4, Zenon DEF Words
<1>14. ip + 1 \notin 3 .. 13 /\ ip + 1 \notin 12 .. 13 /\ ip + 1 # 13
  BY <1>3
<1> QED
  BY <1>1, <1>9, <1>10, <1>11, <1>12, <1>13, <1>14, NextInvariant
\* iretq takes the five words from where the processor put them.
LEMMA IretqStep ==
  ASSUME IInv, iretq
  PROVE  IInv'
<1>1. InStub /\ Instruction[1] = "iretq" /\ ip' = -1 /\ UNCHANGED <<vector, top, stack>>
  BY DEF iretq
<1>2. /\ vector \in 0 .. 255 /\ top \in Tops /\ ip \in 0 .. 24 /\ DOMAIN regs = Registers
      /\ DOMAIN stack = 0 .. 64 /\ \A w \in 0 .. 64 : stack[w][1] \in Values
      /\ rsp = base - Depth(ip)
      /\ Words /\ Kept
  BY <1>1, InvariantIs
<1>3. ip = 24
  BY <1>1, <1>2, Places
<1>4. Depth(ip) = 5 /\ Lost(ip) = {"rsp", "rflags"}
  <2>1. Depth(ip) = 5
    BY <1>3 DEF Depth
  <2>2. {Pushed[k] : k \in 8 .. 5} = {}
    OBVIOUS
  <2> QED
    BY <1>3, <2>1, <2>2 DEF Lost
<1>5. base \in Int
  BY <1>2, BaseIs
<1>6. /\ rsp = base - 5 /\ rsp + 1 = base - 4 /\ rsp + 2 = base - 3
      /\ rsp + 3 = base - 2 /\ rsp + 4 = base - 1
  BY <1>2, <1>4, <1>5
<1>7. \A k \in 1 .. 5 : stack[base - k] = Interrupted[Pushed[k]]
  <2>1. \A k \in 1 .. 5 : k \in 1 .. Depth(ip) /\ k \notin {6, 7}
    BY <1>4
  <2> QED
    BY <1>2, <2>1, Zenon DEF Words, Holds
<1>8. /\ stack[rsp] = Interrupted["rip"] /\ stack[rsp + 1] = Interrupted["cs"]
      /\ stack[rsp + 2] = Interrupted["rflags"] /\ stack[rsp + 3] = Interrupted["rsp"]
      /\ stack[rsp + 4] = Interrupted["ss"]
  <2>1. 1 \in 1 .. 5 /\ 2 \in 1 .. 5 /\ 3 \in 1 .. 5 /\ 4 \in 1 .. 5 /\ 5 \in 1 .. 5
    OBVIOUS
  <2> QED
    BY <1>6, <1>7, <2>1, PushedIs, Zenon
<1>9. regs' = [regs EXCEPT !["rip"] = Interrupted["rip"], !["cs"] = Interrupted["cs"],
                           !["rflags"] = Interrupted["rflags"], !["rsp"] = Interrupted["rsp"],
                           !["ss"] = Interrupted["ss"]]
  BY <1>8, Zenon DEF iretq
<1>10. regs' = Interrupted
  <2>1. \A r \in Registers \ {"rip", "cs", "rflags", "rsp", "ss"} : regs[r] = Interrupted[r]
    BY <1>2, <1>4, InterruptedIs DEF Kept
  <2>2. \A r \in Registers : regs'[r] = Interrupted[r]
    BY <1>2, <1>9, <2>1
  <2>3. DOMAIN regs' = Registers /\ DOMAIN Interrupted = Registers
    BY <1>2, <1>9, InterruptedIs
  <2>4. regs' = [r \in Registers |-> regs'[r]]
    BY <1>2, <1>9
  <2>5. Interrupted = [r \in Registers |-> Interrupted[r]]
    BY DEF Interrupted
  <2> QED
    BY <2>2, <2>4, <2>5, Zenon
<1>11. Interrupted' = Interrupted
  BY <1>1 DEF Interrupted
<1>12. Resumes'
  BY <1>10, <1>11 DEF Resumes
<1>13. TypeOK'
  <2>1. Len(interrupt_stub(IDT[vector]))' - 1 = 24
    BY StubIs
  <2>2. ip' \in -1 .. (Len(interrupt_stub(IDT[vector]))' - 1)
    BY <1>1, <2>1, Idle, Zenon
  <2>3. top \in 0 .. 64
    BY <1>2, EntryAssumption
  <2>4. regs'["rsp"] \in {Number(n) : n \in 0 .. 64}
    BY <1>10, <2>3, InterruptedIs, Zenon
  <2>5. vector' \in 0 .. 255 /\ top' \in Tops
    BY <1>1, <1>2, Zenon
  <2>6. DOMAIN stack' = 0 .. 64 /\ \A w \in 0 .. 64 : stack'[w][1] \in Values
    BY <1>1, <1>2, Zenon
  <2> QED
    BY <1>10, <2>2, <2>4, <2>5, <2>6, InterruptedIs, Zenon DEF TypeOK
<1> QED
  BY <1>1, <1>12, <1>13 DEF IInv, InStub

\* Each step, or none.
LEMMA EntryStep == IInv /\ [Next]_entryVars => IInv'
<1> SUFFICES ASSUME IInv, [Next]_entryVars PROVE IInv'
  OBVIOUS
<1>1. CASE UNCHANGED entryVars
  <2>1. UNCHANGED <<vector, top, ip, regs, stack>>
    BY <1>1 DEF entryVars
  <2>2. TypeOK' /\ Resumes'
    BY <2>1 DEF IInv, TypeOK, Resumes, Interrupted
  <2>3. base' = base /\ Interrupted' = Interrupted /\ InStub' = InStub
        /\ Depth(ip)' = Depth(ip) /\ Lost(ip)' = Lost(ip)
    BY <2>1, Zenon DEF base, Interrupted, InStub, Depth, Lost
  <2>4. \A k, word : Holds(k, word)' <=> Holds(k, word)
    BY <2>1, <2>3, Zenon DEF Holds
  <2>5. InStub => Words'
    BY <2>1, <2>3, <2>4 DEF IInv, Words
  <2>6. InStub => StackPointer' /\ Kept' /\ Arguments'
    BY <2>1, <2>3, Zenon DEF IInv, StackPointer, Kept, Arguments
  <2> QED
    BY <2>2, <2>3, <2>5, <2>6 DEF IInv
<1>2. CASE Next
  BY <1>2, InterruptStep, PushStep, PopStep, AdjustStep, ArgumentStep, CldStep,
     CallStep, IretqStep DEF Next
<1> QED
  BY <1>1, <1>2

\* At the start nothing is interrupted.
LEMMA EntryInit == Init => IInv
<1> SUFFICES ASSUME Init PROVE IInv
  OBVIOUS
<1>1. /\ top \in Tops /\ vector = 0 /\ ip = -1 /\ regs = Interrupted
      /\ stack = [w \in 0 .. 64 |-> Junk]
  BY DEF Init
<1>2. Len(interrupt_stub(IDT[vector])) - 1 = 24
  BY StubIs
<1>3. ip \in -1 .. (Len(interrupt_stub(IDT[vector])) - 1)
  BY <1>1, <1>2, Idle, Zenon
<1>4. top \in 0 .. 64 /\ vector \in 0 .. 255
  BY <1>1, EntryAssumption
<1>5. regs["rsp"] \in {Number(n) : n \in 0 .. 64}
  BY <1>1, <1>4, InterruptedIs, Zenon
<1>6. DOMAIN stack = 0 .. 64 /\ \A w \in 0 .. 64 : stack[w][1] \in Values
  BY <1>1 DEF Junk, Values
<1>7. TypeOK
  BY <1>1, <1>3, <1>4, <1>5, <1>6, InterruptedIs, Zenon DEF TypeOK
<1> QED
  BY <1>1, <1>7 DEF IInv, Resumes, InStub

-----------------------------------------------------------------------------
(* The theorems.                                                           *)

\* The inductive invariant: after so many instructions of the stub for whatever vector,
\* the stack is as deep as the pushes made it, its words are those of the interrupted
\* code, and so are the registers not yet used.
THEOREM Inductive == Spec => []IInv
BY EntryInit, EntryStep, PTL DEF Spec

\* Registers and stack hold values, the stub never runs past its end, and the stack
\* pointer stays on the stack.
THEOREM Typed == Spec => []TypeOK
<1>1. IInv => TypeOK
  BY DEF IInv
<1> QED
  BY <1>1, Inductive, PTL

\* The interrupted code finds every register as it was.
THEOREM Resumed == Spec => []Resumes
<1>1. IInv => Resumes
  BY DEF IInv
<1> QED
  BY <1>1, Inductive, PTL

\* The state at the call: the stub has done 13 instructions.
LEMMA CallIs ==
  ASSUME IInv, AtCall
  PROVE  /\ ip = 13 /\ base \in Int /\ rsp = base - 16 /\ base % 2 = 0
         /\ Words /\ Arguments /\ Depth(ip) = 16
<1>1. InStub /\ Instruction[1] = "call"
  BY DEF AtCall
<1>2. /\ vector \in 0 .. 255 /\ top \in Tops /\ ip \in 0 .. 24 /\ rsp = base - Depth(ip)
      /\ Words /\ Arguments
  BY <1>1, InvariantIs
<1>3. ip = 13
  BY <1>1, <1>2, Places
<1>4. Depth(ip) = 16
  BY <1>3 DEF Depth
<1>5. base \in Int /\ base % 2 = 0
  BY <1>2, BaseIs
<1> QED
  BY <1>2, <1>3, <1>4, <1>5

\* For every vector the handler is called as compiled code expects, on a stack pointer
\* that is a multiple of sixteen bytes and with the direction flag clear.
THEOREM Compiled == Spec => []CallAsCompiled
<1>1. IInv => CallAsCompiled
  <2> SUFFICES ASSUME IInv, AtCall PROVE rsp % 2 = 0 /\ regs["rflags"] = Forward
    BY DEF CallAsCompiled
  <2>1. ip \in 12 .. 13 /\ base \in Int /\ rsp = base - 16 /\ base % 2 = 0 /\ Arguments
    BY CallIs
  <2>2. regs["rflags"] = Forward
    BY <2>1 DEF Arguments
  <2>3. rsp % 2 = 0
    BY <2>1
  <2> QED
    BY <2>2, <2>3
<1> QED
  BY <1>1, Inductive, PTL

\* For every vector the C code gets the frame its struct declares, field by field, and
\* is told the vector.
THEOREM Declared == Spec => []FrameAsDeclared
<1>1. IInv => FrameAsDeclared
  <2> SUFFICES ASSUME IInv, AtCall
               PROVE  /\ regs["rdi"] = Number(vector) /\ regs["rsi"] = Number(rsp)
                      /\ \A i \in DOMAIN stack_frame :
                           LET word == stack[rsp + i - 1]
                           IN  CASE stack_frame[i] = "reserved" -> TRUE
                                 [] stack_frame[i] = "error_code" ->
                                      PushesErrorCode(vector) => word = ErrorCode
                                 [] OTHER -> word = Interrupted[stack_frame[i]]
    BY DEF FrameAsDeclared
  <2>1. /\ ip = 13 /\ base \in Int /\ rsp = base - 16 /\ Words /\ Arguments
        /\ Depth(ip) = 16
    BY CallIs
  <2>2. regs["rdi"] = Number(vector) /\ regs["rsi"] = Number(rsp)
    BY <2>1 DEF Arguments
  <2>3. ASSUME NEW i \in DOMAIN stack_frame
        PROVE  LET word == stack[rsp + i - 1]
               IN  CASE stack_frame[i] = "reserved" -> TRUE
                     [] stack_frame[i] = "error_code" ->
                          PushesErrorCode(vector) => word = ErrorCode
                     [] OTHER -> word = Interrupted[stack_frame[i]]
    <3>1. i \in 1 .. 16
      BY DEF stack_frame
    <3>2. rsp + i - 1 = base - (17 - i) /\ 17 - i \in 1 .. Depth(ip)
      BY <2>1, <3>1
    <3>3. Holds(17 - i, stack[rsp + i - 1])
      BY <2>1, <3>2, Zenon DEF Words
    <3>4. /\ stack_frame[i] = Pushed[17 - i]
          /\ stack_frame[i] = "reserved" <=> 17 - i = 7
          /\ stack_frame[i] = "error_code" <=> 17 - i = 6
      <4>1. i \in {1, 2, 3, 4, 5, 6, 7, 8, 9, 10, 11, 12, 13, 14, 15, 16}
        BY <3>1
      <4> QED
        BY <4>1 DEF stack_frame, Pushed
    <3>5. CASE 17 - i = 7
      BY <3>4, <3>5
    <3>6. CASE 17 - i = 6
      <4>1. PushesErrorCode(vector) => stack[rsp + i - 1] = ErrorCode
        BY <3>3, <3>6 DEF Holds
      <4>2. stack_frame[i] # "reserved"
        BY <3>4, <3>6
      <4> QED
        BY <3>4, <3>6, <4>1, <4>2
    <3>7. CASE 17 - i # 6 /\ 17 - i # 7
      <4>1. stack[rsp + i - 1] = Interrupted[stack_frame[i]]
        BY <3>3, <3>4, <3>7 DEF Holds
      <4> QED
        BY <3>4, <3>7, <4>1
    <3> QED
      BY <3>5, <3>6, <3>7
  <2> QED
    BY <2>2, <2>3
<1> QED
  BY <1>1, Inductive, PTL
=============================================================================
