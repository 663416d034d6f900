------------------------------ MODULE MCTimeQ ------------------------------
(* A wheel of two lists per tier and two units per tick.  Two entry slots  *)
(* let one message leave a cancelled slot behind and take another.         *)
EXTENDS TimeQ
=============================================================================
