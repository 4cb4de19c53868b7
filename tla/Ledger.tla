------------------------------- MODULE Ledger -------------------------------
(***************************************************************************)
(* The per-target delivery ledger of one queue item (queue/ledger.go), as  *)
(* pure operators on values.  A ledger maps every target to an entry; the  *)
(* state "none" marks a target that is not in the ledger, so the nil       *)
(* ledger of a legacy item is the one whose entries are all "none".        *)
(* Times are naturals and 0 is Go's zero time.  Message ids and error      *)
(* texts are left out: no decision of the code reads them.                 *)
(***************************************************************************)
EXTENDS Naturals, Sequences

CONSTANTS
  Target,    \* delivery targets: a channel id together with a template id
  Backoff    \* service.Backoff, the delays between attempts

ASSUME BackoffAssumption == Backoff \in Seq(Nat) /\ Len(Backoff) >= 1

ZeroTime == 0

DeliveryState == {"pending", "succeeded", "dead"}

Entry == [state : DeliveryState \cup {"none"}, attempts : Nat, next : Nat]

Ledgers == [Target -> Entry]

NoEntry == [state |-> "none", attempts |-> 0, next |-> ZeroTime]

NilLedger == [t \in Target |-> NoEntry]

HasLedger(l) == \E t \in Target : l[t].state # "none"

newDeliveryLedger(T) ==
  [t \in Target |-> IF t \in T THEN [NoEntry EXCEPT !.state = "pending"]
                               ELSE NoEntry]

pendingTargets(l) == {t \in Target : l[t].state = "pending"}

\* Mutant: every entry of the ledger is ready, whatever its state.
readyTargetsAnyState(l, at) == {t \in Target : l[t].state # "none" /\ l[t].next <= at}

readyTargets(l, at) == {t \in pendingTargets(l) : l[t].next <= at}

deliveryLedgerTerminal(l) == pendingTargets(l) = {}

\* AckTarget, NackTarget and DeadTarget as changes of one pending entry.
AckEntry(e) ==
  [state |-> "succeeded", attempts |-> e.attempts + 1, next |-> ZeroTime]

NackEntry(e, nextAttemptAt) ==
  [state |-> "pending", attempts |-> e.attempts + 1, next |-> nextAttemptAt]

DeadEntry(e) ==
  [state |-> "dead", attempts |-> e.attempts + 1, next |-> ZeroTime]

\* A delay of zero is rounded up so that the item can be deferred.
RetryDelay(attempts) ==
  IF Backoff[attempts + 1] = 0 THEN 1 ELSE Backoff[attempts + 1]

failTarget(e, permanent, at) ==
  IF permanent \/ e.attempts + 1 >= Len(Backoff)
  THEN DeadEntry(e)
  ELSE NackEntry(e, at + RetryDelay(e.attempts))

=============================================================================
