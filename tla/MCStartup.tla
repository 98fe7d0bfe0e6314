----------------------------- MODULE MCStartup -----------------------------
(***************************************************************************)
(* Machines for Startup: every set of features, with and without a         *)
(* framebuffer, a context from the console library and an RSDP, at one     *)
(* address; every address on one machine.                                  *)
(*                                                                         *)
(* Formats for Kprint: numbers of three hexadecimal digits, which need up  *)
(* to four decimal ones as those of 64 bits, of sixteen, need twenty;      *)
(* the decimal ones here are those of at most three digits.                *)
(***************************************************************************)
EXTENDS Startup

Kp == INSTANCE Kprint WITH MaxDigits <- 3, NUM_BUF_LEN <- 4

Usual ==
  [features |-> {"SMAP", "SMEP", "UMIP"}, framebuffer |-> TRUE, context |-> TRUE, rsdp |-> TRUE,
   cr0 |-> {0, 2, 31}, cr4 |-> {5, 7}, tss |-> 173, stub |-> 91]

MCMachines ==
  {[Usual EXCEPT !.features = f, !.framebuffer = fb, !.context = ctx, !.rsdp = r, !.cr0 = c] :
     f \in SUBSET {"SMAP", "SMEP", "UMIP"}, fb, ctx, r \in BOOLEAN, c \in {{0, 2, 31}, {0, 1, 16, 31}}}
  \cup {[Usual EXCEPT !.tss = a, !.stub = 255 - a] : a \in 0 .. 255}

\* Decimal numbers print_unsigned has the turns for, and every hexadecimal number.
Numbers ==
  {<<d>> : d \in {Kp!LongUnsigned(v) : v \in 0 .. 10 ^ 3 - 1}
                 \cup {Kp!LongHex(v) : v \in 0 .. Kp!Long - 1}
                 \cup {Kp!Pointer(v) : v \in 0 .. Kp!Long - 1}
                 \cup {Kp!Unsigned(v) : v \in 0 .. Kp!Short - 1}
                 \cup {Kp!Hex(v) : v \in 0 .. Kp!Short - 1}}

Known ==
  {Kp!Text("a"), Kp!Text("\n"), Kp!Char("\n"), Kp!Char("%"), Kp!String(<<>>),
   Kp!String(<<"%", "u">>), Kp!Unsigned(60), Kp!LongUnsigned(807), Kp!LongUnsigned(302),
   Kp!Hex(0), Kp!LongHex(Kp!Long - 1), Kp!Pointer(2570)}

Unknown == {Kp!Unknown(<<"d">>, "d"), Kp!Unknown(<<"%">>, "%"), Kp!Unknown(<<"l", "l", "d">>, "d")}

\* A format that ends in the middle of a directive.
Unfinished == {Kp!Unknown(<<>>, "end"), Kp!Unknown(<<"l">>, "end")}

Mixed ==
  {<<a, b, c>> : a \in Known, b \in Known \cup Unknown, c \in Known \cup Unknown \cup Unfinished}

Printed == \A directives \in Numbers \cup Mixed : Kp!PrintsLikePrintf(directives)

\* Wherever main or a handler prints, kprint and panic write what printf makes of any
\* format whose decimal numbers have at most MaxDigits digits, and any hexadecimal
\* ones; a directive that print_escape does not know ends either in exactly one message
\* and a halt, though the function that stumbled prints it.  Left out: longer decimal
\* numbers, of which print_unsigned prints the last MaxDigits digits only although
\* kprint is declared printf-like (src/src/common.h:15); the case of hexadecimal letters.
PrintsWhatFits == At("kprint") => Printed
=============================================================================
