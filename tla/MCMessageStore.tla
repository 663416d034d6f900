--------------------------- MODULE MCMessageStore ---------------------------
(* Two tasks share the message and use every setter, with failed stores,   *)
(* failed removals, crashes and restarts.                                  *)
EXTENDS MessageStore, TLC
CONSTANTS t1, t2

TaskSymmetry == Permutations(Tasks)
=============================================================================
