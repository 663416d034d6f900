---------------------------- MODULE MCReadyQueue ----------------------------
(* One name: a queue and its successor.                                     *)
EXTENDS ReadyQueue
=============================================================================
