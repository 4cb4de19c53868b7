------------------------------ MODULE MCUpgrade ------------------------------
(***************************************************************************)
(* Instances of Upgrade: two pre-M2 versions and a later one, and two       *)
(* commands, which start in any order and may overlap.                     *)
(***************************************************************************)
EXTENDS Upgrade, TLC

Symmetry == Permutations(Command) \cup Permutations(PreM2)

\* Nothing is promised once two commands have overlapped.
Undisturbed == ~disturbed

=============================================================================
