----------------------------- MODULE MCEnqueue -----------------------------
(***************************************************************************)
(* Small instances of Enqueue for TLC.                                     *)
(***************************************************************************)
EXTENDS Enqueue

CONSTANTS e1, e2, e3

MCEmitters == {e1, e2, e3}
=============================================================================
