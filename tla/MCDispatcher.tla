---------------------------- MODULE MCDispatcher ----------------------------
(* One ready queue with one place, two sessions and one message.            *)
EXTENDS Dispatcher, TLC
Symmetry == Permutations(Dispatchers) \cup Permutations(Msgs) \cup Permutations(Rcpts)
=============================================================================
