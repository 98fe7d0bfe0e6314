-------------------------- MODULE MCInterruptEntry --------------------------
(***************************************************************************)
(* InterruptEntry for every vector, at both alignments of the stack.       *)
(***************************************************************************)
EXTENDS InterruptEntry

MCVectors == 0 .. 255
=============================================================================
