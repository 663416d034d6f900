------------------------------- MODULE MCFifo -------------------------------
(* Instance of Fifo for TLC. *)
EXTENDS Fifo, TLC

Symmetry == Permutations(Tasks) \cup Permutations(Msgs)
=============================================================================
