----------------------------- MODULE MCEnrolment -----------------------------
(***************************************************************************)
(* Instances of Enrolment: one code given to two devices, and three        *)
(* requests, so that one of them arrives twice.                            *)
(***************************************************************************)
EXTENDS Enrolment, TLC

\* A connector matters until the pairing command has read it: one of a device
\* that pairs over HTTPS is left out, and none is removed later.
ConnectorsMatter ==
  \A d \in Device :
    IF d \in connectors THEN device[d].transport = "stdio"
    ELSE device[d].transport = "stdio" => device[d].pc = "idle"

Symmetry == Permutations(Device) \cup Permutations(Request)
=============================================================================
