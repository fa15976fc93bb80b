------------------------------ MODULE MCTimer ------------------------------
(***************************************************************************)
(* The timers of the main task and of up to three other timers at a time.  *)
(***************************************************************************)
EXTENDS Timer, TLC

CONSTANTS a, b, c

Symmetry == Permutations({a, b, c})
=============================================================================
