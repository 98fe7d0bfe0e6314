--------------------------- MODULE InterruptEntry ---------------------------
(***************************************************************************)
(* The way into and out of interrupt_handler: the processor's interrupt    *)
(* frame, the 256 stubs and generic_interrupt_stub of src/src/interrupt.s,  *)
(* and struct stack_frame of src/src/interrupt.c, through which C reads    *)
(* what the stubs pushed.  One step is one instruction.                    *)
(*                                                                         *)
(* The stack is counted in words of eight bytes and grows downwards.  A    *)
(* value is a tag and a number: what a register held when the interrupt     *)
(* came, a number the stub put there, or something the C code left.        *)
(***************************************************************************)
EXTENDS Integers, Sequences

CONSTANTS
  Vectors,       \* the vectors that occur: 0 .. 255
  Tops           \* stack pointers, in words, at which an interrupt may come

ASSUME EntryAssumption == Vectors \subseteq 0 .. 255 /\ Tops \subseteq 32 .. 64

VARIABLES
  vector,        \* the interrupt that came
  top,           \* the interrupted stack pointer
  ip,            \* instructions of the stub done; -1 when not in a stub
  regs,          \* general registers and, as a number of words, rsp
  stack          \* words of the stack

entryVars == <<vector, top, ip, regs, stack>>

-----------------------------------------------------------------------------
(* The processor (external).                                               *)

Saved == {"rax", "rcx", "rdx", "rsi", "rdi", "r8", "r9", "r10", "r11"}
Preserved == {"rbx", "rbp", "r12", "r13", "r14", "r15"}
Registers == Saved \cup Preserved \cup {"rip", "cs", "rflags", "rsp", "ss"}

\* What a register held when the interrupt came, and the error code pushed then.
Old(register) == <<"old", register>>
ErrorCode == <<"error", 0>>
Number(n) == <<"number", n>>
Junk == <<"junk", 0>>

\* rflags as far as compiled code minds it: the direction flag is clear.
Forward == <<"forward", 0>>

Interrupted == [r \in Registers |-> IF r = "rsp" THEN Number(top) ELSE Old(r)]

\* Exceptions for which the processor pushes an error code.
PushesErrorCode(v) == v \in {8, 10, 11, 12, 13, 14, 17, 21, 29, 30}

\* What the processor pushes, first word first.
ProcessorFrame(v) ==
  [i \in 1 .. 5 |-> Interrupted[<<"ss", "rsp", "rflags", "cs", "rip">>[i]]]
    \o (IF PushesErrorCode(v) THEN <<ErrorCode>> ELSE <<>>)

-----------------------------------------------------------------------------
(* The stubs.                                                              *)

\* The stub each gate of the IDT leads to: FOR_EACH_INTERRUPT names every vector
\* once, and load_idt fills in every gate it names.
IDT == [v \in 0 .. 255 |-> v]

\* Mutant: one vector in the table with the wrong macro.
HasErrorCodeStub_NotVC(v) == v \in {8, 10, 11, 12, 13, 14, 17, 21, 30}

\* Which of the two macros the table of stubs uses for a vector.
HasErrorCodeStub(v) == v \in {8, 10, 11, 12, 13, 14, 17, 21, 29, 30}

\* Mutant: rsi is not given back.
generic_interrupt_stub_NoRsi ==
  << <<"push", "rax">>, <<"push", "rcx">>, <<"push", "rdx">>, <<"push", "rsi">>,
     <<"push", "r8">>, <<"push", "r9">>, <<"push", "r10">>, <<"push", "r11">>,
     <<"cld">>, <<"frame", "rsi">>, <<"call", "interrupt_handler">>,
     <<"pop", "r11">>, <<"pop", "r10">>, <<"pop", "r9">>, <<"pop", "r8">>,
     <<"add", 1>>, <<"pop", "rdx">>, <<"pop", "rcx">>, <<"pop", "rax">>,
     <<"pop", "rdi">>, <<"add", 2>>, <<"iretq">> >>

\* Mutant: the stub ends without a return.
generic_interrupt_stub_NoIretq ==
  << <<"push", "rax">>, <<"push", "rcx">>, <<"push", "rdx">>, <<"push", "rsi">>,
     <<"push", "r8">>, <<"push", "r9">>, <<"push", "r10">>, <<"push", "r11">>,
     <<"cld">>, <<"frame", "rsi">>, <<"call", "interrupt_handler">>,
     <<"pop", "r11">>, <<"pop", "r10">>, <<"pop", "r9">>, <<"pop", "r8">>,
     <<"pop", "rsi">>, <<"pop", "rdx">>, <<"pop", "rcx">>, <<"pop", "rax">>,
     <<"pop", "rdi">>, <<"add", 2>> >>

generic_interrupt_stub ==
  << <<"push", "rax">>, <<"push", "rcx">>, <<"push", "rdx">>, <<"push", "rsi">>,
     <<"push", "r8">>, <<"push", "r9">>, <<"push", "r10">>, <<"push", "r11">>,
     <<"cld">>, <<"frame", "rsi">>, <<"call", "interrupt_handler">>,
     <<"pop", "r11">>, <<"pop", "r10">>, <<"pop", "r9">>, <<"pop", "r8">>,
     <<"pop", "rsi">>, <<"pop", "rdx">>, <<"pop", "rcx">>, <<"pop", "rax">>,
     <<"pop", "rdi">>, <<"add", 2>>, <<"iretq">> >>

\* Mutant: both macros leave one word.
interrupt_stub_OneWord(v) ==
  << <<"sub", 1>>, <<"push", "rdi">>, <<"vector", "rdi">> >> \o generic_interrupt_stub

\* interrupt_stub leaves two words where interrupt_stub_ec finds the error code
\* and leaves one.
interrupt_stub(v) ==
  << <<"sub", IF HasErrorCodeStub(v) THEN 1 ELSE 2>>,
     <<"push", "rdi">>, <<"vector", "rdi">> >> \o generic_interrupt_stub

InStub == ip >= 0

Instruction == interrupt_stub(IDT[vector])[ip + 1]

Next_instruction == ip' = ip + 1

-----------------------------------------------------------------------------
(* Instructions.                                                           *)

\* In 64-bit mode the frame starts at a 16-byte boundary, whatever rsp was.
Interrupt(v) ==
  /\ ip = -1
  /\ vector' = v
  /\ ip' = 0
  /\ LET base  == top - (top % 2)
         frame == ProcessorFrame(v)
     IN  /\ stack' = [w \in DOMAIN stack |->
                        IF base - w \in DOMAIN frame THEN frame[base - w] ELSE stack[w]]
         /\ regs' = [regs EXCEPT !["rsp"] = Number(base - Len(frame))]
  /\ UNCHANGED top

rsp == regs["rsp"][2]

Step(op) == InStub /\ Instruction[1] = op /\ Next_instruction /\ UNCHANGED <<vector, top>>

push ==
  /\ Step("push")
  /\ stack' = [stack EXCEPT ![rsp - 1] = regs[Instruction[2]]]
  /\ regs' = [regs EXCEPT !["rsp"] = Number(rsp - 1)]

pop ==
  /\ Step("pop")
  /\ regs' = [regs EXCEPT ![Instruction[2]] = stack[rsp], !["rsp"] = Number(rsp + 1)]
  /\ UNCHANGED stack

adjust ==
  /\ \/ Step("sub") /\ regs' = [regs EXCEPT !["rsp"] = Number(rsp - Instruction[2])]
     \/ Step("add") /\ regs' = [regs EXCEPT !["rsp"] = Number(rsp + Instruction[2])]
  /\ UNCHANGED stack

\* mov $idx, %edi, and mov %rsp, %rsi: the arguments of interrupt_handler.
argument ==
  /\ \/ Step("vector") /\ regs' = [regs EXCEPT ![Instruction[2]] = Number(IDT[vector])]
     \/ Step("frame") /\ regs' = [regs EXCEPT ![Instruction[2]] = Number(rsp)]
  /\ UNCHANGED stack

cld ==
  /\ Step("cld")
  /\ regs' = [regs EXCEPT !["rflags"] = Forward]
  /\ UNCHANGED stack

\* C code may leave anything in the registers its calling convention lets it
\* use, and below its caller's stack pointer.  For the vectors on which
\* interrupt_handler panics this step is not taken in the program.
call ==
  /\ Step("call")
  /\ regs' = [r \in Registers |-> IF r \in Saved \cup {"rflags"} THEN Junk ELSE regs[r]]
  /\ stack' = [w \in DOMAIN stack |-> IF w < rsp THEN Junk ELSE stack[w]]

\* The five words the processor pushed go back to where they came from.
iretq ==
  /\ InStub /\ Instruction[1] = "iretq"
  /\ ip' = -1
  /\ regs' = [regs EXCEPT !["rip"] = stack[rsp], !["cs"] = stack[rsp + 1],
                          !["rflags"] = stack[rsp + 2], !["rsp"] = stack[rsp + 3],
                          !["ss"] = stack[rsp + 4]]
  /\ UNCHANGED <<vector, top, stack>>

Init ==
  /\ top \in Tops
  /\ vector = 0 /\ ip = -1
  /\ regs = Interrupted
  /\ stack = [w \in 0 .. 64 |-> Junk]

Next ==
  \/ \E v \in Vectors : Interrupt(v)
  \/ push \/ pop \/ adjust \/ argument \/ cld \/ call \/ iretq

Spec == Init /\ [][Next]_entryVars

-----------------------------------------------------------------------------
(* Properties.                                                             *)

\* struct stack_frame, lowest address first.
stack_frame ==
  <<"r11", "r10", "r9", "r8", "rsi", "rdx", "rcx", "rax", "rdi",
    "reserved", "error_code", "rip", "cs", "rflags", "rsp", "ss">>

AtCall == InStub /\ Instruction[1] = "call"

\* The registers and the stack hold values, execution stays within the stub, and
\* the stack pointer stays a number and on the stack.
Values == {"old", "error", "number", "junk", "forward"}

TypeOK ==
  /\ vector \in 0 .. 255 /\ top \in Tops
  /\ ip \in -1 .. Len(interrupt_stub(IDT[vector])) - 1
  /\ DOMAIN regs = Registers /\ \A r \in Registers : regs[r][1] \in Values
  /\ DOMAIN stack = 0 .. 64 /\ \A w \in 0 .. 64 : stack[w][1] \in Values
  /\ regs["rsp"] \in {Number(n) : n \in 0 .. 64}

\* For every vector interrupt_handler is told which one it is, and each field of
\* the stack_frame it is handed is what its name says of the interrupted code;
\* error_code is the processor's when there is one.
FrameAsDeclared ==
  AtCall =>
    /\ regs["rdi"] = Number(vector) /\ regs["rsi"] = Number(rsp)
    /\ \A i \in DOMAIN stack_frame :
         LET word == stack[rsp + i - 1]
         IN  CASE stack_frame[i] = "reserved" -> TRUE
               [] stack_frame[i] = "error_code" -> PushesErrorCode(vector) => word = ErrorCode
               [] OTHER -> word = Interrupted[stack_frame[i]]

\* At the call the stack pointer is a multiple of sixteen bytes and the direction
\* flag is clear, as compiled code expects, for both kinds of stub and wherever
\* the interrupt came.
CallAsCompiled == AtCall => rsp % 2 = 0 /\ regs["rflags"] = Forward

\* The interrupted code goes on as if nothing had happened: every register is
\* what it was, though the handler may have used all it is allowed to.
Resumes == ip = -1 => regs = Interrupted
=============================================================================
