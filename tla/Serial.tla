------------------------------- MODULE Serial -------------------------------
(***************************************************************************)
(* The serial console (src/src/drivers/serial.c): main prints through COM1 *)
(* while the handler of its interrupt reads what arrives and echoes it.    *)
(* Both wait for the transmitter and then write, and between the two steps *)
(* of main's an interrupt may come.                                        *)
(*                                                                         *)
(* What is printed is counted in bytes; of what arrives only the bytes     *)
(* that are echoed differently are told apart.                             *)
(***************************************************************************)
EXTENDS Interrupts

CONSTANTS
  FIFO,          \* depth of both FIFOs: 16
  TRIGGER,       \* bytes at which the receiver interrupts: 14
  TextBytes,     \* bytes of what a kprint of main or a handler prints
  Input,         \* what may arrive: bytes, told apart by their echo
  MaxInput,      \* bound: bytes that arrive
  MaxSpurious    \* bound: spurious interrupts

ASSUME SerialAssumption ==
  /\ TRIGGER \in Nat \ {0} /\ FIFO \in Nat /\ TRIGGER <= FIFO /\ 2 <= FIFO
  /\ Input \subseteq {"CR", "LF", "other"}
  /\ TextBytes \in Nat \ {0} /\ MaxInput \in Nat /\ MaxSpurious \in Nat

VARIABLES
  EARLY_INIT_COMPLETE,
  ier,           \* the received data interrupt is enabled
  fifos,         \* the FIFOs are enabled
  rx,            \* bytes received and not read
  timeout,       \* bytes have waited in the receive FIFO for too long
  tx,            \* number of bytes in the transmit FIFO
  lost,          \* history: a byte was written to a full transmitter
  arrived,       \* history: bytes that arrived
  spurious       \* history: spurious interrupts

uartVars == <<ier, fifos, rx, timeout, tx, lost>>
serialVars == <<interruptVars, EARLY_INIT_COMPLETE, uartVars, arrived, spurious>>

-----------------------------------------------------------------------------
(* The UART (external), a 16550A.                                          *)

Depth == IF fifos THEN FIFO ELSE 1

\* The interrupt line: enough bytes wait, or some have waited for long.
Line == ier /\ (timeout \/ Len(rx) >= (IF fifos THEN TRIGGER ELSE 1))

\* Every change of the receiver shows on the pin of the I/O APIC.
Signal == IF ~Line /\ Line' THEN Edge("COM1") ELSE UNCHANGED irr

receive ==
  /\ arrived < MaxInput /\ arrived' = arrived + 1
  /\ \E byte \in Input : rx' = IF Len(rx) < Depth THEN Append(rx, byte) ELSE rx
  /\ UNCHANGED <<ier, fifos, timeout, tx, lost>>
  /\ Signal
  /\ UNCHANGED <<cpuVars, unmasked, isr, EARLY_INIT_COMPLETE, spurious>>

\* No byte was received or read for the time of four.
receive_timeout ==
  /\ fifos /\ rx # <<>> /\ ~timeout
  /\ timeout' = TRUE
  /\ UNCHANGED <<ier, fifos, rx, tx, lost>>
  /\ Signal
  /\ UNCHANGED <<cpuVars, unmasked, isr, EARLY_INIT_COMPLETE, arrived, spurious>>

transmit ==
  /\ tx > 0 /\ tx' = tx - 1
  /\ UNCHANGED <<interruptVars, EARLY_INIT_COMPLETE, ier, fifos, rx, timeout, lost,
                 arrived, spurious>>

\* Bit 5 of the line status: the transmit FIFO is empty.
TransmitterEmpty == tx = 0

-----------------------------------------------------------------------------
(* The driver.                                                             *)

\* Mutant: the FIFO control register is left alone.
serial_early_init_NoFifo ==
  /\ At("serial_early_init") /\ Continue(Done(Top))
  /\ ier' = TRUE /\ EARLY_INIT_COMPLETE' = TRUE
  /\ UNCHANGED <<fifos, rx, timeout, tx, lost>>
  /\ Signal
  /\ UNCHANGED <<iflag, unmasked, isr, arrived, spurious>>

\* Mutant: the interrupt is not enabled.
serial_early_init_NoInterrupt ==
  /\ At("serial_early_init") /\ Continue(Done(Top))
  /\ ier' = FALSE /\ fifos' = TRUE /\ EARLY_INIT_COMPLETE' = TRUE
  /\ rx' = <<>> /\ tx' = 0 /\ timeout' = FALSE
  /\ UNCHANGED lost
  /\ Signal
  /\ UNCHANGED <<iflag, unmasked, isr, arrived, spurious>>

\* FIFOs on and cleared, then the received data interrupt.
serial_early_init ==
  /\ At("serial_early_init") /\ Continue(Done(Top))
  /\ ier' = TRUE /\ fifos' = TRUE /\ EARLY_INIT_COMPLETE' = TRUE
  /\ rx' = <<>> /\ tx' = 0 /\ timeout' = FALSE
  /\ UNCHANGED lost
  /\ Signal
  /\ UNCHANGED <<iflag, unmasked, isr, arrived, spurious>>

\* Mutant: the port is set up again, after its interrupt is let through.
serial_init_Again ==
  /\ At("serial_init")
  /\ Continue([Top EXCEPT !.left = <<"serial_early_init">> \o Tail(@)])
  /\ ioapic_enable_isa_interrupt("COM1")
  /\ UNCHANGED <<iflag, irr, isr, EARLY_INIT_COMPLETE, uartVars, arrived, spurious>>

\* serial_early_init if it was not called yet, then the I/O APIC pin.
serial_init ==
  /\ At("serial_init")
  /\ UNCHANGED <<iflag, irr, isr, EARLY_INIT_COMPLETE, uartVars, arrived, spurious>>
  /\ IF EARLY_INIT_COMPLETE
     THEN Continue(Done(Top)) /\ ioapic_enable_isa_interrupt("COM1")
     ELSE Continue([Top EXCEPT !.left = <<"serial_early_init">> \o @]) /\ UNCHANGED unmasked

\* Bytes on the wire for a byte of input: serial_write puts CR before LF, and
\* kprint prints a CR of its own before a newline.
EchoBytes(byte) == CASE byte = "CR" -> 3 [] byte = "LF" -> 2 [] byte = "other" -> 1

kprint(frame, count) == [frame EXCEPT !.out = count]

print ==
  /\ At("kprint")
  /\ Continue(kprint(Done(Top), TextBytes))
  /\ UNCHANGED <<iflag, apicVars, EARLY_INIT_COMPLETE, uartVars, arrived, spurious>>

\* serial_read, whose answer is anything when no byte waits; then the echo.
serial_handle_interrupt ==
  /\ At("serial_handle_interrupt")
  /\ IF rx = <<>>
     THEN /\ \E byte \in Input : Continue(kprint(Done(Top), EchoBytes(byte)))
          /\ UNCHANGED rx
     ELSE /\ Continue(kprint(Done(Top), EchoBytes(Head(rx))))
          /\ rx' = Tail(rx)
  /\ timeout' = FALSE
  /\ UNCHANGED <<ier, fifos, tx, lost>>
  /\ Signal
  /\ UNCHANGED <<iflag, unmasked, isr, EARLY_INIT_COMPLETE, arrived, spurious>>

\* The two halves of serial_putc: the wait has seen an empty transmitter; the
\* byte is written.
serial_wait ==
  /\ Top.out > 0 /\ ~Top.polled /\ TransmitterEmpty
  /\ Continue([Top EXCEPT !.polled = TRUE])
  /\ UNCHANGED <<iflag, apicVars, EARLY_INIT_COMPLETE, uartVars, arrived, spurious>>

serial_putc ==
  /\ Top.out > 0 /\ Top.polled
  /\ Continue([Top EXCEPT !.out = @ - 1, !.polled = FALSE])
  /\ IF tx < Depth THEN tx' = tx + 1 /\ UNCHANGED lost ELSE lost' = TRUE /\ UNCHANGED tx
  /\ UNCHANGED <<iflag, apicVars, EARLY_INIT_COMPLETE, ier, fifos, rx, timeout, arrived, spurious>>

-----------------------------------------------------------------------------
(* The machine.                                                            *)

\* main, as far as it prints or concerns interrupts.
main ==
  <<"serial_early_init", "kprint", "enable_interrupts", "serial_init", "kprint",
    "int3", "kprint", "halt">>

Others == <<EARLY_INIT_COMPLETE, uartVars, arrived>>

SpuriousInterrupt ==
  /\ spurious < MaxSpurious /\ spurious' = spurious + 1
  /\ deliver_spurious
  /\ UNCHANGED Others

Processor ==
  \/ serial_early_init \/ serial_init \/ print \/ serial_handle_interrupt
  \/ serial_wait \/ serial_putc
  \/ /\ deliver \/ enable_interrupts \/ breakpoint \/ lapic_eoi \/ iretq \/ panic
     /\ UNCHANGED <<Others, spurious>>

Init ==
  /\ InterruptInit(main)
  /\ EARLY_INIT_COMPLETE = FALSE
  /\ ier = FALSE /\ fifos = FALSE /\ rx = <<>> /\ timeout = FALSE /\ tx = 0
  /\ lost = FALSE /\ arrived = 0 /\ spurious = 0

Next ==
  \/ Processor
  \/ receive \/ receive_timeout \/ transmit
  \/ SpuriousInterrupt
  \/ deliver_nmi /\ UNCHANGED <<Others, spurious>>

Spec == Init /\ [][Next]_serialVars

\* The processor goes on, whether main or a handler runs, and takes an interrupt
\* when it has nothing else to do; the UART sends what it was given and notices
\* bytes that wait.
Fairness ==
  /\ WF_serialVars(Processor)
  /\ WF_serialVars(transmit) /\ WF_serialVars(receive_timeout)

FairSpec == Spec /\ Fairness

-----------------------------------------------------------------------------
(* Properties.                                                             *)

\* Every variable stays in its type; a handler runs with interrupts disabled, so
\* the stack never grows beyond main, one handler and a non-maskable interrupt.
TypeOK ==
  /\ Len(frames) \in 1 .. 3 /\ (~InMain => ~iflag)
  /\ \A i \in DOMAIN frames :
       /\ frames[i].who \in (IF i = 1 THEN {"main"} ELSE Vectors)
       /\ frames[i].out \in 0 .. TextBytes + 3 /\ frames[i].polled \in BOOLEAN
  /\ {iflag, ier, fifos, timeout, lost, EARLY_INIT_COMPLETE} \subseteq BOOLEAN
  /\ UNION {unmasked, irr, isr} \subseteq IsaVectors
  /\ rx \in Seq(Input) /\ Len(rx) <= FIFO
  /\ tx \in 0 .. FIFO

\* serial_putc writes on what it saw before an interrupt whose handler wrote too:
\* no byte is ever written to a full transmitter all the same.
TransmitterKeepsUp == ~lost

\* The handler reads one byte each time, without asking whether there is one: there
\* always is, since no interrupt outlives the byte that raised it.
NeverReadsEmpty == At("serial_handle_interrupt") => rx # <<>>

Masked == "COM1" \notin unmasked

Panicked == Top.left = <<"halt">> /\ ~InMain

\* Input is read to the last byte, provided that none comes before the pin is
\* unmasked and never more than the trigger level wait.
InputRead ==
  [](Masked => rx = <<>>) /\ [](Len(rx) <= TRIGGER) /\ [](~Panicked) =>
    [](rx # <<>> => <>(rx = <<>>))

\* main gets to its end, whatever arrives and interrupts it; a vector that nobody
\* expects is all that can stop it.
BootFinishes ==
  <>(\/ InMain /\ At("halt")
     \/ Panicked /\ Top.who = "NMI")

\* serial.h:8, "Configures the serial port for input/output": after serial_init
\* what arrives is read.
InputIsRead == []((~Masked /\ rx # <<>>) => <>(rx = <<>> \/ Panicked))
=============================================================================
