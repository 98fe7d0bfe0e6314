-------------------------------- MODULE Ps2 ---------------------------------
(***************************************************************************)
(* The PS/2 driver (src/src/drivers/ps2.c) against a controller with two   *)
(* devices: ps2_init, which talks to all three through one data port, and  *)
(* the handlers, which read from it what the user typed or moved.          *)
(*                                                                         *)
(* A byte is the set of its bits that are 1; of a byte in the output       *)
(* buffer the model also remembers who sent it and in answer to what.      *)
(* What is printed is Serial's.                                            *)
(***************************************************************************)
EXTENDS Interrupts, FiniteSets

CONSTANTS
  Machines,      \* controllers and devices, as firmware leaves them
  MaxInput       \* bound: bytes the user makes a device send

ASSUME Ps2Assumption == MaxInput \in Nat

VARIABLES
  machine,
  config,        \* local variable of ps2_init
  has_mouse,     \* local variable of ps2_init
  ibf,           \* what waits to be handled by the controller
  obf,           \* the output buffer is full
  out,           \* byte in it, or last byte read from it
  ccb,           \* the controller's configuration byte
  next_data,     \* where the next byte written to the data port goes
  queue,         \* bytes each device has to send, by what they answer
  scanning,      \* devices that report what the user does
  sent,          \* history: last command or byte that has an answer
  verdict,       \* history: the message ps2_init gave up with
  inputs,        \* history: bytes of input
  early          \* history: input came while the device's pin was masked

controllerVars == <<machine, ibf, obf, out, ccb, next_data, queue, scanning>>
localVars == <<config, has_mouse>>
historyVars == <<sent, verdict, inputs, early>>
ps2Vars == <<interruptVars, controllerVars, localVars, historyVars>>

Devices == {"KB", "MOUSE"}

-----------------------------------------------------------------------------
(* The controller and its devices (external).                              *)

Nothing == [port |-> "none", value |-> {}]

\* Bits of the configuration byte: interrupt, and clock switched off.
Irq(device) == IF device = "KB" THEN 0 ELSE 1
ClockOff(device) == IF device = "KB" THEN 4 ELSE 5
Translation == 6

Attached == {device \in Devices : machine.attached[device]}

\* Commands that put a byte into the output buffer.
HasReply(command) ==
  command \in {"20", "AA", "AB"} \cup (IF machine.channel2 THEN {"A9"} ELSE {})

\* The controller can handle what was written; a reply needs room.
CanHandle == ibf.port # "none" /\ (ibf.port = "command" /\ HasReply(ibf.value) => ~obf)

\* Every full buffer raises the line of its sender's interrupt, and the
\* controller's own bytes raise the keyboard's.
Line(vector) ==
  obf /\ Irq(vector) \in ccb /\ (vector = "MOUSE" <=> out.from = "MOUSE")

Signal ==
  IF \E v \in Devices : ~Line(v) /\ Line(v)'
  THEN Edge(CHOOSE v \in Devices : ~Line(v) /\ Line(v)')
  ELSE UNCHANGED irr

Fill(byte) == obf' = TRUE /\ out' = byte

Reply(command) ==
  [from |-> "controller", answers |-> command,
   value |-> CASE command = "20" -> ccb
               [] command = "AA" -> IF machine.passes["AA"] THEN {0, 2, 4, 6} ELSE {2, 3, 4, 5, 6, 7}
               [] OTHER -> IF machine.passes[command] THEN {} ELSE {0}]

\* The configuration byte after a command.  Without a second channel bit 5 is 1.
\* Some controllers forget theirs in the self test.
Configured(command) ==
  CASE command = "AD" -> ccb \cup {4}
    [] command = "AE" -> ccb \ {4}
    [] command = "A7" -> ccb \cup {5}
    [] command = "A8" -> IF machine.channel2 THEN ccb \ {5} ELSE ccb
    [] command = "AA" /\ machine.forgets -> IF machine.channel2 THEN {0, 6} ELSE {0, 5, 6}
    [] OTHER -> ccb

handle_command ==
  /\ CanHandle /\ ibf.port = "command"
  /\ LET command == ibf.value
     IN  /\ IF HasReply(command) THEN Fill(Reply(command)) ELSE UNCHANGED <<obf, out>>
         /\ ccb' = Configured(command)
         /\ next_data' = CASE command = "60" -> "config"
                           [] command = "D4" -> "MOUSE"
                           [] OTHER -> next_data
  /\ ibf' = Nothing
  /\ UNCHANGED <<machine, queue, scanning>>

\* The two bytes ps2_init sends to a device.
Bits == [FF |-> 0 .. 7, F4 |-> {2, 4, 5, 6, 7}]

\* Bytes a device sends for one it receives: an acknowledgement, and after a reset
\* the result of the self test and, from a mouse, its identity.
Answers(device, byte) ==
  IF byte = Bits.FF
  THEN IF device = "KB" THEN <<"FF", "FF">> ELSE <<"FF", "FF", "FF">>
  ELSE IF byte = Bits.F4 THEN <<"F4">> ELSE <<"other">>

\* A reset empties the device's own buffer and leaves only a keyboard reporting.
handle_data ==
  /\ CanHandle /\ ibf.port = "data"
  /\ \/ /\ next_data = "config"
        /\ ccb' = IF machine.channel2 THEN ibf.value ELSE ibf.value \cup {5}
        /\ UNCHANGED <<queue, scanning>>
     \/ /\ next_data \in Devices
        /\ IF next_data \in Attached
           THEN /\ queue' = [queue EXCEPT ![next_data] =
                     (IF ibf.value = Bits.FF THEN <<>> ELSE @) \o Answers(next_data, ibf.value)]
                /\ scanning' = CASE ibf.value = Bits.FF /\ next_data = "MOUSE" -> scanning \ {"MOUSE"}
                                 [] ibf.value \in {Bits.FF, Bits.F4} -> scanning \cup {next_data}
                                 [] OTHER -> scanning
           ELSE UNCHANGED <<queue, scanning>>
        /\ UNCHANGED ccb
  /\ ibf' = Nothing /\ next_data' = "KB"
  /\ UNCHANGED <<machine, obf, out>>

controller ==
  /\ handle_command \/ handle_data
  /\ Signal
  /\ UNCHANGED <<cpuVars, unmasked, isr, localVars, historyVars>>

\* A device whose clock runs sends a byte into an empty buffer.
device_send(device) ==
  /\ queue[device] # <<>> /\ ~obf /\ ClockOff(device) \notin ccb
  /\ queue' = [queue EXCEPT ![device] = Tail(@)]
  /\ Fill([from |-> device, answers |-> Head(queue[device]), value |-> {1, 3, 5, 7}])
  /\ UNCHANGED <<machine, ibf, ccb, next_data, scanning, cpuVars, unmasked, isr,
                 localVars, historyVars>>
  /\ Signal

\* The user types or moves.
input(device) ==
  /\ device \in scanning /\ inputs < MaxInput
  /\ inputs' = inputs + 1
  /\ early' = (early \/ device \notin unmasked)
  /\ queue' = [queue EXCEPT ![device] = Append(@, "user")]
  /\ UNCHANGED <<interruptVars, machine, ibf, obf, out, ccb, next_data, scanning,
                 localVars, sent, verdict>>

-----------------------------------------------------------------------------
(* Port access.                                                            *)

\* A prompt controller is done before the next instruction.
Access == machine.prompt => ~CanHandle

Others == <<machine, out, ccb, next_data, queue, scanning, inputs, early>>

\* outb, which replaces a value that was not handled in time.
outb(port, value, of) ==
  /\ Access
  /\ ibf' = [port |-> port, value |-> value]
  /\ sent' = of
  /\ UNCHANGED <<iflag, apicVars, obf, Others, localVars, verdict>>

\* inb(DATA_PORT): the value is out.value, whether or not the buffer is full.
inb ==
  /\ Access
  /\ obf' = FALSE
  /\ UNCHANGED <<iflag, unmasked, isr, ibf, Others, sent>>
  /\ Signal

-----------------------------------------------------------------------------
(* ps2_init.                                                               *)

\* Mutant: the answer to a reset is taken to be one byte long.
ResetDevice_OneReply(device) ==
  IF device = "KB" THEN <<"FF", "poll_reply">> ELSE <<"D4", "FF", "poll_reply">>

\* Mutant: a mouse is taken to answer with four bytes.
ResetDevice_LongReply(device) ==
  IF device = "KB" THEN <<"FF", "poll_reply", "poll_reply">>
                   ELSE <<"D4", "FF", "poll_reply", "poll_reply", "poll_reply", "poll_reply">>

\* A device's reset, and as many poll_replies as it answers bytes.
ResetDevice(device) ==
  IF device = "KB" THEN <<"FF", "poll_reply", "poll_reply">>
                   ELSE <<"D4", "FF", "poll_reply", "poll_reply", "poll_reply">>

EnableScanning(device) ==
  (IF device = "KB" THEN <<>> ELSE <<"D4">>) \o <<"F4", "poll_reply">>

\* Mutant: the pins are unmasked first.
BringUp_PinsFirst(mouse) ==
  <<"20", "enable", "60", "write_config_byte", "ioapic KB">>
  \o (IF mouse THEN <<"ioapic MOUSE">> ELSE <<>>)
  \o ResetDevice("KB") \o EnableScanning("KB")
  \o (IF mouse THEN ResetDevice("MOUSE") \o EnableScanning("MOUSE") ELSE <<>>)

\* From "Enable interrupts" to the end.  has_kb is true whenever this is reached.
BringUp(mouse) ==
  <<"20", "enable", "60", "write_config_byte">>
  \o ResetDevice("KB") \o EnableScanning("KB")
  \o (IF mouse THEN ResetDevice("MOUSE") \o EnableScanning("MOUSE") ELSE <<>>)
  \o <<"ioapic KB">> \o (IF mouse THEN <<"ioapic MOUSE">> ELSE <<>>)

\* Mutant: the configuration byte is not set again after the self test.
Identify_Once == <<"A8", "20", "channels", "AB", "port1_selftest_result">>

\* From the end of the self test to the first port's.
Identify == <<"60", "write_config_byte", "A8", "20", "channels", "AB", "port1_selftest_result">>

\* Mutant: the output buffer is not cleared.
Quiet_NotCleared == <<"AD", "A7", "20", "mask", "60", "write_config_byte",
                      "AA", "self_test_result">>

\* Steps up to the self test; a command with a reply is followed by the step that
\* reads it.
Quiet == <<"AD", "A7", "clear", "20", "mask", "60", "write_config_byte",
           "AA", "self_test_result">>

ps2_init ==
  /\ At("ps2_init")
  /\ Continue([Top EXCEPT !.left = Quiet \o Tail(@)])
  /\ UNCHANGED <<iflag, apicVars, controllerVars, localVars, historyVars>>

\* send_command_noreply, and the first half of send_command.
send_command ==
  \E command \in {"AD", "A7", "20", "60", "AA", "A8", "AB", "AE", "A9", "D4"} :
    /\ At(command)
    /\ outb("command", command,
            IF HasReply(command) THEN [to |-> "controller", what |-> command] ELSE sent)
    /\ Continue(Done(Top))

write_config_byte ==
  /\ At("write_config_byte")
  /\ outb("data", config, sent)
  /\ Continue(Done(Top))

send_to_device ==
  \E byte \in {"FF", "F4"} :
    /\ At(byte) /\ ibf.port = "none"
    /\ outb("data", Bits[byte], [to |-> next_data, what |-> byte])
    /\ Continue(Done(Top))

poll_reply ==
  /\ At("poll_reply") /\ obf
  /\ Continue(Done(Top))
  /\ inb
  /\ UNCHANGED <<localVars, verdict>>

\* What ps2_init goes on with after it has read a byte.
GoOn(steps) == Continue([Top EXCEPT !.left = steps \o Tail(@)])

\* return, from the body of ps2_init
Return(why) == Continue([Top EXCEPT !.left = <<"halt">>]) /\ verdict' = why

clear == At("clear") /\ GoOn(<<>>) /\ UNCHANGED <<localVars, verdict>>

\* Bits 6 and 0 of the byte read are cleared.
mask ==
  /\ At("mask")
  /\ config' = out.value \ {Translation, Irq("KB")} /\ GoOn(<<>>)
  /\ UNCHANGED <<has_mouse, verdict>>

self_test ==
  /\ At("self_test_result")
  /\ IF out.value = {0, 2, 4, 6} THEN GoOn(Identify) /\ UNCHANGED verdict
                                 ELSE Return("PS/2 self test failed")
  /\ UNCHANGED localVars

channels ==
  /\ At("channels")
  /\ config' = out.value /\ has_mouse' = (5 \notin out.value) /\ GoOn(<<>>)
  /\ UNCHANGED verdict

port1_selftest ==
  /\ At("port1_selftest_result")
  /\ IF out.value = {}
     THEN /\ GoOn(<<"AE">> \o (IF has_mouse THEN <<"A9", "port2_selftest_result">> ELSE BringUp(FALSE)))
          /\ UNCHANGED verdict
     ELSE GoOn(<<"panic">>) /\ verdict' = "PS/2 port 1 (kb) faulty"
  /\ UNCHANGED localVars

port2_selftest ==
  /\ At("port2_selftest_result")
  /\ IF out.value = {} THEN GoOn(<<"A8">> \o BringUp(TRUE)) /\ UNCHANGED verdict
                       ELSE GoOn(<<"panic">>) /\ verdict' = "PS/2 port 2 (mouse) faulty"
  /\ UNCHANGED localVars

enable ==
  /\ At("enable")
  /\ config' = out.value \cup {0} \cup (IF has_mouse THEN {1} ELSE {})
  /\ GoOn(<<>>)
  /\ UNCHANGED <<has_mouse, verdict>>

\* inb(DATA_PORT) in ps2_init, with what the code does with the byte.
read_reply ==
  /\ clear \/ mask \/ self_test \/ channels \/ port1_selftest \/ port2_selftest \/ enable
  /\ inb

enable_pin ==
  \E vector \in Devices :
    /\ At(IF vector = "KB" THEN "ioapic KB" ELSE "ioapic MOUSE")
    /\ ioapic_enable_isa_interrupt(vector)
    /\ Continue(Done(Top))
    /\ UNCHANGED <<iflag, irr, isr, controllerVars, localVars, historyVars>>

\* Both handlers: PORT1_DRIVER and PORT2_DRIVER are never set, so the byte is
\* dropped.
ps2_handle_interrupt ==
  /\ At("ps2_handle_port1_interrupt") \/ At("ps2_handle_port2_interrupt")
  /\ Continue(Done(Top))
  /\ inb
  /\ UNCHANGED <<localVars, verdict>>

-----------------------------------------------------------------------------
(* The machine.                                                            *)

main == <<"enable_interrupts", "ps2_init", "halt">>

Processor ==
  \/ ps2_init \/ send_command \/ write_config_byte \/ send_to_device \/ poll_reply
  \/ read_reply \/ enable_pin \/ ps2_handle_interrupt
  \/ /\ deliver \/ enable_interrupts \/ lapic_eoi \/ iretq \/ panic
     /\ UNCHANGED <<controllerVars, localVars, historyVars>>

Init ==
  /\ InterruptInit(main)
  /\ machine \in Machines
  /\ config = {} /\ has_mouse = FALSE
  /\ ibf = Nothing /\ obf = machine.leftover
  /\ out = [from |-> "KB", answers |-> "user", value |-> {2, 3, 4}]
  /\ ccb = machine.ccb /\ next_data = "KB"
  /\ queue = [device \in Devices |-> <<>>] /\ scanning = machine.scanning
  /\ sent = [to |-> "controller", what |-> "none"]
  /\ verdict = "" /\ inputs = 0 /\ early = FALSE

Next ==
  \/ Processor
  \/ controller
  \/ \E device \in Devices : device_send(device) \/ input(device)

Spec == Init /\ [][Next]_ps2Vars

\* The processor goes on, the controller handles what it is given, a device sends
\* what it has to send when it may.
Fairness ==
  /\ WF_ps2Vars(Processor) /\ WF_ps2Vars(controller)
  /\ \A device \in Devices : WF_ps2Vars(device_send(device))

FairSpec == Spec /\ Fairness

-----------------------------------------------------------------------------
(* Properties.                                                             *)

Passed == InMain /\ At("halt") /\ verdict = ""
Stopped == ~InMain /\ At("halt")

Expected == {"KB"} \cup (IF machine.channel2 THEN {"MOUSE"} ELSE {})

\* Steps that read without asking the controller whether it has answered.
Unpolled == {"mask", "self_test_result", "channels", "port1_selftest_result",
             "port2_selftest_result", "enable"}

\* As long as the user does nothing, every byte ps2_init reads is the answer to the
\* last thing it asked for: no answer is left behind for the next question, and
\* none is read before it is there.  Afterwards the two handlers read the one port:
\* each finds a byte, and from its own device, however they hold one another back.
RepliesMatch ==
  /\ At("ps2_handle_port1_interrupt") => obf /\ out.from = "KB"
  /\ At("ps2_handle_port2_interrupt") => obf /\ out.from = "MOUSE"
  /\ ~early => /\ \A step \in Unpolled : At(step) /\ Access => obf
               /\ \A step \in Unpolled \cup {"poll_reply"} : At(step) /\ Access /\ obf =>
                    out.from = sent.to /\ out.answers = sent.what

\* Interrupts, clocks and pins of exactly the ports there are, translation off,
\* devices reporting.
Working ==
  /\ Translation \notin ccb
  /\ \A device \in Devices : /\ device \in Expected => Irq(device) \in ccb
                            /\ device \in Expected <=> ClockOff(device) \notin ccb
  /\ unmasked = Expected /\ Expected \subseteq scanning

\* As long as the user does nothing, ps2_init leaves what it found working, also on a
\* controller that forgets its configuration in the self test, and gives up or stops
\* exactly when a self test of the hardware fails.
DevicesReady ==
  ~early =>
    /\ verdict = "PS/2 self test failed" => ~machine.passes["AA"]
    /\ verdict = "PS/2 port 1 (kb) faulty" => ~machine.passes["AB"]
    /\ verdict = "PS/2 port 2 (mouse) faulty" => machine.channel2 /\ ~machine.passes["A9"]
    /\ Passed => /\ Working
                 /\ \A test \in {"AA", "AB"} \cup (IF machine.channel2 THEN {"A9"} ELSE {}) :
                      machine.passes[test]

\* As long as the user does nothing before the pins are unmasked, what the devices
\* send is read to the last byte, answers and input alike.
InputRead ==
  [](~early) =>
    \A device \in Devices :
      [](queue[device] # <<>> \/ obf => <>(queue[device] = <<>> /\ ~obf))

\* ps2_init comes to its end if every port it finds has a device behind it and the
\* user does nothing meanwhile: poll_reply waits for ever otherwise.
Ps2Finishes ==
  (Expected \subseteq Attached /\ [](~early)) => <>((InMain /\ At("halt")) \/ Stopped)

\* The message of ps2.c:60, "PS/2 self test failed", is true.
SelfTestVerdict == verdict = "PS/2 self test failed" => ~machine.passes["AA"]
=============================================================================
