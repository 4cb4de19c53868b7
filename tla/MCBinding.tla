------------------------------ MODULE MCBinding ------------------------------
(***************************************************************************)
(* Instances of Binding: one code that may be sent to two chats, and three *)
(* commands, so that two binds or a bind and a setup race with a third.    *)
(***************************************************************************)
EXTENDS Binding, TLC

Symmetry == Permutations(Process) \cup Permutations(Chat)
=============================================================================
