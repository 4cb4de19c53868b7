------------------------------ MODULE MCOutbox ------------------------------
(***************************************************************************)
(* Small instances of Outbox for TLC.                                      *)
(***************************************************************************)
EXTENDS Outbox, TLC

CONSTANTS p1, p2, k1, k2, f1, none, nolock

MCProducers == {p1, p2}
MCKeys == {k1, k2}
MCOneForwarder == {f1}
MCBackoff == <<1, 1>>
MCSymmetry == Permutations(MCProducers) \cup Permutations(MCKeys)
=============================================================================
