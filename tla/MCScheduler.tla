---------------------------- MODULE MCScheduler ----------------------------
(***************************************************************************)
(* The scheduler with the main task, the idle task and a few tasks that    *)
(* come and go as consoles and commands.                                   *)
(***************************************************************************)
EXTENDS Scheduler, TLC

Symmetry == Permutations(Pool)
=============================================================================
