------------------------------- MODULE MCPs2 -------------------------------
(***************************************************************************)
(* Controllers and devices for Ps2: any firmware configuration and any     *)
(* missing device on sound hardware, and one fault at a time.              *)
(***************************************************************************)
EXTENDS Ps2

Usual ==
  [prompt |-> TRUE, channel2 |-> TRUE, forgets |-> FALSE, leftover |-> FALSE,
   passes |-> [test \in {"AA", "AB", "A9"} |-> TRUE],
   attached |-> [device \in Devices |-> TRUE], scanning |-> {"KB"}, ccb |-> {0, 6}]

\* A machine without a second channel has no mouse.
NoChannel2(m) ==
  [m EXCEPT !.channel2 = FALSE, !.attached["MOUSE"] = FALSE, !.scanning = @ \ {"MOUSE"},
            !.ccb = @ \cup {5}]

Sound ==
  {[Usual EXCEPT !.forgets = f, !.leftover = l, !.ccb = byte, !.scanning = report] :
     f, l \in BOOLEAN, byte \in {{0, 6}, {0, 1, 6}, {4, 5}},
     report \in {{"KB"}, {"KB", "MOUSE"}}}

MCMachines ==
  Sound \cup {NoChannel2(m) : m \in Sound}
  \cup {[m EXCEPT !.passes[test] = FALSE] : m \in {Usual, NoChannel2(Usual)}, test \in {"AA", "AB", "A9"}}
  \cup {[Usual EXCEPT !.attached[device] = FALSE, !.scanning = @ \ {device}] : device \in Devices}

\* A controller that takes its time, as a chip does.
Late == {[Usual EXCEPT !.prompt = FALSE]}
=============================================================================
