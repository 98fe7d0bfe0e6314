----------------------------- MODULE Interrupts -----------------------------
(***************************************************************************)
(* How control passes between main and interrupt_handler                   *)
(* (src/src/interrupt.c) on the one processor of UmbralOS, with what the   *)
(* local APIC and the I/O APIC remember of an interrupt on its way.        *)
(*                                                                         *)
(* A frame is a function activation the processor can come back to: main's *)
(* at the bottom, and one for each interrupt taken and not yet returned    *)
(* from.  It holds the steps left to do.  What the steps of a device's     *)
(* driver do is said in the device's module.                               *)
(***************************************************************************)
EXTENDS Integers, Sequences

VARIABLES
  frames,        \* the stack, main first
  iflag,         \* RFLAGS.IF: interrupts are enabled
  unmasked,      \* ISA interrupts whose I/O APIC pin is not masked
  irr,           \* vectors the local APIC has accepted and not yet delivered
  isr            \* vectors in service: delivered, no EOI yet

cpuVars == <<frames, iflag>>
apicVars == <<unmasked, irr, isr>>
interruptVars == <<cpuVars, apicVars>>

-----------------------------------------------------------------------------
(* Vectors.                                                                *)

\* IDT_IDX_ISA_BASE + IRQ_KB, + IRQ_COM1, + IRQ_MOUSE.
Number == [KB |-> 49, COM1 |-> 52, MOUSE |-> 60]

IsaVectors == DOMAIN Number

\* BP is the breakpoint main ends with; NMI stands for every vector without a
\* case of its own.
Vectors == IsaVectors \cup {"BP", "SPURIOUS", "NMI"}

\* Mutant: no EOI for the serial port.
interrupt_handler_NoEoi(vector) ==
  CASE vector = "BP" -> <<"kprint">>
    [] vector = "KB" -> <<"ps2_handle_port1_interrupt", "lapic_eoi">>
    [] vector = "COM1" -> <<"serial_handle_interrupt">>
    [] vector = "MOUSE" -> <<"ps2_handle_port2_interrupt", "lapic_eoi">>
    [] vector = "SPURIOUS" -> <<"kprint">>
    [] vector = "NMI" -> <<"kprint", "panic">>

\* Mutant: a spurious interrupt is ended like any other.
interrupt_handler_EoiAlways(vector) ==
  CASE vector = "BP" -> <<"kprint">>
    [] vector = "KB" -> <<"ps2_handle_port1_interrupt", "lapic_eoi">>
    [] vector = "COM1" -> <<"serial_handle_interrupt", "lapic_eoi">>
    [] vector = "MOUSE" -> <<"ps2_handle_port2_interrupt", "lapic_eoi">>
    [] vector = "SPURIOUS" -> <<"kprint", "lapic_eoi">>
    [] vector = "NMI" -> <<"kprint", "panic">>

\* Mutant: the breakpoint has no case.
interrupt_handler_NoBreakpoint(vector) ==
  CASE vector = "KB" -> <<"ps2_handle_port1_interrupt", "lapic_eoi">>
    [] vector = "COM1" -> <<"serial_handle_interrupt", "lapic_eoi">>
    [] vector = "MOUSE" -> <<"ps2_handle_port2_interrupt", "lapic_eoi">>
    [] vector = "SPURIOUS" -> <<"kprint">>
    [] vector \in {"BP", "NMI"} -> <<"kprint", "panic">>

\* Mutant: no EOI for the keyboard.
interrupt_handler_NoKeyboardEoi(vector) ==
  CASE vector = "BP" -> <<"kprint">>
    [] vector = "KB" -> <<"ps2_handle_port1_interrupt">>
    [] vector = "COM1" -> <<"serial_handle_interrupt", "lapic_eoi">>
    [] vector = "MOUSE" -> <<"ps2_handle_port2_interrupt", "lapic_eoi">>
    [] vector = "SPURIOUS" -> <<"kprint">>
    [] vector = "NMI" -> <<"kprint", "panic">>

\* What interrupt_handler does for a vector.
interrupt_handler(vector) ==
  CASE vector = "BP" -> <<"kprint">>
    [] vector = "KB" -> <<"ps2_handle_port1_interrupt", "lapic_eoi">>
    [] vector = "COM1" -> <<"serial_handle_interrupt", "lapic_eoi">>
    [] vector = "MOUSE" -> <<"ps2_handle_port2_interrupt", "lapic_eoi">>
    [] vector = "SPURIOUS" -> <<"kprint">>
    [] vector = "NMI" -> <<"kprint", "panic">>

\* Mutant: the gates are of type DT_SYS_TYPE_TRAP64.
GateDisables_Trap == FALSE

\* Gates of type DT_SYS_TYPE_INTR64: interrupts are disabled on the way in.
GateDisables == TRUE

-----------------------------------------------------------------------------
(* Frames.                                                                 *)

\* saved_if is the flag in the rflags the processor pushed; out and polled belong
\* to the serial_write in progress: bytes left, and whether its wait is over.
Frame(who, steps) ==
  [who |-> who, left |-> steps, saved_if |-> iflag, out |-> 0, polled |-> FALSE]

Top == frames[Len(frames)]

InMain == Len(frames) = 1

\* The running function has come to the given step.
At(step) == Top.out = 0 /\ Top.left # <<>> /\ Head(Top.left) = step

\* Replace the running function's frame.
Continue(frame) == frames' = [frames EXCEPT ![Len(frames)] = frame]

Done(frame) == [frame EXCEPT !.left = Tail(@)]

Enter(vector, stack) ==
  /\ frames' = Append(stack, Frame(vector, interrupt_handler(vector)))
  /\ iflag' = (iflag /\ ~GateDisables)

-----------------------------------------------------------------------------
(* Interrupt controllers.                                                  *)

\* A line of an edge-triggered pin rises (external): while the pin is masked the
\* edge is not remembered.
Edge(vector) == irr' = IF vector \in unmasked THEN irr \cup {vector} ELSE irr

Highest(vectors) ==
  CHOOSE v \in vectors : \A w \in vectors : Number[w] <= Number[v]

\* The three vectors are of one priority class: one in service holds back the
\* others (external).
deliver ==
  /\ iflag /\ irr # {} /\ isr = {}
  /\ LET v == Highest(irr)
     IN  irr' = irr \ {v} /\ isr' = isr \cup {v} /\ Enter(v, frames)
  /\ UNCHANGED unmasked

\* Vector 0xFF: nothing is in service for it (external).
deliver_spurious ==
  /\ iflag
  /\ Enter("SPURIOUS", frames)
  /\ UNCHANGED apicVars

\* A non-maskable interrupt (external); another waits until iretq.
deliver_nmi ==
  /\ \A i \in DOMAIN frames : frames[i].who # "NMI"
  /\ Enter("NMI", frames)
  /\ UNCHANGED apicVars

\* Ends the service of the highest vector; with none in service, nothing.
lapic_eoi ==
  /\ At("lapic_eoi")
  /\ isr' = IF isr = {} THEN {} ELSE isr \ {Highest(isr)}
  /\ Continue(Done(Top))
  /\ UNCHANGED <<iflag, unmasked, irr>>

\* ioapic_enable_isa_interrupt, for an interrupt firmware overrides nothing of.
ioapic_enable_isa_interrupt(vector) == unmasked' = unmasked \cup {vector}

-----------------------------------------------------------------------------
(* The processor.                                                          *)

enable_interrupts ==
  /\ At("enable_interrupts")
  /\ iflag' = TRUE
  /\ Continue(Done(Top))
  /\ UNCHANGED apicVars

breakpoint ==
  /\ At("int3")
  /\ Enter("BP", [frames EXCEPT ![Len(frames)] = Done(Top)])
  /\ UNCHANGED apicVars

\* interrupt_handler is through and its stub returns.
iretq ==
  /\ ~InMain /\ Top.left = <<>> /\ Top.out = 0
  /\ iflag' = Top.saved_if
  /\ frames' = SubSeq(frames, 1, Len(frames) - 1)
  /\ UNCHANGED apicVars

\* panic prints, then halt_and_catch_fire disables interrupts for good.
panic ==
  /\ At("panic")
  /\ Continue([Top EXCEPT !.left = <<"halt">>])
  /\ iflag' = FALSE
  /\ UNCHANGED apicVars

InterruptInit(main) ==
  /\ frames = <<[who |-> "main", left |-> main, saved_if |-> FALSE, out |-> 0, polled |-> FALSE]>>
  /\ iflag = FALSE /\ unmasked = {} /\ irr = {} /\ isr = {}

-----------------------------------------------------------------------------
(* Properties.                                                             *)

\* A vector is in service only while its handler is on the stack: when main runs,
\* none is, so none is ever left behind to hold back the others.
InServiceMatches ==
  /\ InMain => isr = {}
  /\ \A v \in isr : \E i \in DOMAIN frames : frames[i].who = v

\* What interrupt.c:431 asks for: an EOI is sent for the interrupt its sender
\* serves, never by a handler with nothing in service.
EoiMatches ==
  [][lapic_eoi => Top.who \in isr /\ isr' = isr \ {Top.who}]_interruptVars
=============================================================================
