------------------------------ MODULE Delivery ------------------------------
(***************************************************************************)
(* What the relay promises of a delivery key, without outboxes, requests,  *)
(* nonces or receipts (docs/architecture.md, "remote events"): an event    *)
(* that the remote device has accepted is kept; it enters the local queue  *)
(* of the host at most once, and only if it was accepted; it is            *)
(* acknowledged only when it is there; every accepted event is, in the     *)
(* end, acknowledged or given up, and never both.                          *)
(***************************************************************************)
CONSTANTS Key

VARIABLES
  accepted,       \* keys in the outbox
  delivered,      \* keys whose event is in the local queue of the host
  acknowledged,   \* keys the outbox has an acknowledgement for
  abandoned       \* keys the outbox has given up

vars == <<accepted, delivered, acknowledged, abandoned>>

Init ==
  accepted = {} /\ delivered = {} /\ acknowledged = {} /\ abandoned = {}

Accept(k) ==
  /\ k \notin accepted
  /\ accepted' = accepted \cup {k}
  /\ UNCHANGED <<delivered, acknowledged, abandoned>>

\* A late request is delivered even when the outbox has given up waiting.
Deliver(k) ==
  /\ k \in accepted \ delivered
  /\ delivered' = delivered \cup {k}
  /\ UNCHANGED <<accepted, acknowledged, abandoned>>

Acknowledge(k) ==
  /\ k \in delivered \ (acknowledged \cup abandoned)
  /\ acknowledged' = acknowledged \cup {k}
  /\ UNCHANGED <<accepted, delivered, abandoned>>

GiveUp(k) ==
  /\ k \in accepted \ (acknowledged \cup abandoned)
  /\ abandoned' = abandoned \cup {k}
  /\ UNCHANGED <<accepted, delivered, acknowledged>>

Next ==
  \E k \in Key : Accept(k) \/ Deliver(k) \/ Acknowledge(k) \/ GiveUp(k)

Spec ==
  /\ Init /\ [][Next]_vars
  /\ \A k \in Key : WF_vars(Acknowledge(k) \/ GiveUp(k))
=============================================================================
