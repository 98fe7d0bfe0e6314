------------------------------ MODULE MCSerial ------------------------------
(***************************************************************************)
(* Serial with FIFOs of three bytes that interrupt at two, so input can    *)
(* pass the trigger level before anyone reads it, and a fourth byte is lost. *)
(***************************************************************************)
EXTENDS Serial
=============================================================================
