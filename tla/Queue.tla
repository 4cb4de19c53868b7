-------------------------------- MODULE Queue --------------------------------
(***************************************************************************)
(* The filesystem spool (queue/queue.go): four directories that may each   *)
(* hold one copy of an item's envelope, and the clock the stored times are *)
(* compared with.  Items are numbered in the order of their CreatedAt.     *)
(* One file operation of the code is one change of disk; a transition is   *)
(* two of them, the destination first and then the source, so that a       *)
(* process can die in between.                                             *)
(***************************************************************************)
EXTENDS Ledger, FiniteSets

CONSTANTS
  MaxItems,  \* bound: how many events are emitted
  Lease,     \* the lease of a claim
  None       \* no file of that name in the directory

ASSUME QueueAssumption == MaxItems \in Nat /\ Lease \in Nat

Item == 1 .. MaxItems
NoItem == 0
Dir == {"pending", "inflight", "history", "dead"}

Envelope == [attempts : Nat, next : Nat, lease : Nat, ledger : Ledgers]

ASSUME NoneAssumption == None \notin Envelope

VARIABLES
  disk,      \* disk[d][i]: the envelope of i in directory d, or None
  now        \* the wall clock

NewEnvelope ==
  [attempts |-> 0, next |-> ZeroTime, lease |-> ZeroTime, ledger |-> NilLedger]

exists(d, i) == disk[d][i] # None

inDirectory(d) == {i \in Item : exists(d, i)}

onDisk(i) == \E d \in Dir : exists(d, i)

write(d, i, envelope) == disk' = [disk EXCEPT ![d][i] = envelope]

remove(d, i) == disk' = [disk EXCEPT ![d][i] = None]

\* Mutant: Claim skips every item that has a next attempt.
claimableUndeferred == {i \in inDirectory("pending") : disk["pending"][i].next = ZeroTime}

\* The pending items Claim does not skip, and the one it reaches first.
claimable == {i \in inDirectory("pending") : disk["pending"][i].next <= now}

isFirst(i, S) == i \in S /\ \A j \in S : i <= j

claimEnvelope(envelope) == [envelope EXCEPT !.lease = now + Lease]

ackEnvelope(envelope) ==
  [envelope EXCEPT !.lease = ZeroTime, !.next = ZeroTime]

\* Mutant: one attempt more than the backoff has entries.
nackIsFinalLate(envelope, permanent) ==
  permanent \/ envelope.attempts + 1 > Len(Backoff)

\* Nack of an item without a ledger; a permanent error has an empty backoff.
nackIsFinal(envelope, permanent) ==
  permanent \/ envelope.attempts + 1 >= Len(Backoff)

nackEnvelope(envelope, permanent, at) ==
  [envelope EXCEPT
     !.attempts = @ + 1,
     !.lease = ZeroTime,
     !.next = IF nackIsFinal(envelope, permanent) THEN ZeroTime
              ELSE at + Backoff[envelope.attempts + 1]]

deferEnvelope(envelope, nextAttemptAt) ==
  [envelope EXCEPT !.lease = ZeroTime, !.next = nextAttemptAt]

\* Mutant: recovery drops the ledger.
recoverEnvelopeAfresh(envelope) == [NewEnvelope EXCEPT !.attempts = envelope.attempts]

recoverEnvelope(envelope) == [envelope EXCEPT !.lease = ZeroTime]

\* RecoverExpired takes an inflight copy for the rest of a finished
\* transition when the item also has a copy elsewhere.
completedTransition(i) ==
  \E d \in {"pending", "history", "dead"} : exists(d, i)

\* CleanupDead drops the oldest items above its maximum.
excessDead(maximum) ==
  {i \in inDirectory("dead") :
     Cardinality({j \in inDirectory("dead") : j >= i}) > maximum}

=============================================================================
