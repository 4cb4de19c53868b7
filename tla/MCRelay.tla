------------------------------- MODULE MCRelay -------------------------------
(***************************************************************************)
(* Small instances of Relay for TLC.                                       *)
(***************************************************************************)
EXTENDS Relay

CONSTANTS p1, k1, f1, h1, h2, none, nolock

MCOneProducer == {p1}
MCKeys == {k1}
MCForwarders == {f1}
MCHandlers == {h1, h2}
MCBackoff == <<1, 1>>
=============================================================================
