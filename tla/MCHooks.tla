------------------------------- MODULE MCHooks -------------------------------
(***************************************************************************)
(* Instances of Hooks: every choice of one agent, two versions of the Core *)
(* and two command lines, until an edit is lost to a command.              *)
(***************************************************************************)
EXTENDS Hooks, TLC

Symmetry == Permutations(Process) \cup Permutations(Core)
Undisturbed == clobbered = {} /\ edits + faults <= 2
=============================================================================
