------------------------------- MODULE Ingress -------------------------------
(***************************************************************************)
(* The receiving side of the relay: Ingress.Accept (relay/ingress.go) with *)
(* its nonce store, its receipt store and the local queue it feeds.  Every *)
(* request is handled by a thread of its own (an HTTP request of `relay    *)
(* run`, or a pull of the host scheduler), and all of them share the       *)
(* files.  One file operation is one step; the receiver can be killed and  *)
(* restarted between any two.                                              *)
(*                                                                         *)
(* Requests are well-formed and signed by an enrolled peer.  Queue.Enqueue *)
(* is one step here: it keeps the first event of a delivery key.           *)
(***************************************************************************)
EXTENDS Naturals, StorageLock, Clock

CONSTANTS
  Handler,       \* threads that call Accept
  Body,          \* signed envelopes; each has a nonce of its own
  DeliveryKey,   \* delivery keys
  NoBody,        \* no receipt, no event of that key
  MaxSkew,       \* DefaultMaxSkew
  Retention,     \* MinimumNonceRetention
  MaxFailures    \* bound: kills of the receiver and failed calls of Queue.Enqueue

ASSUME IngressAssumption ==
  /\ MaxSkew \in Nat \ {0} /\ Retention \in Nat /\ MaxFailures \in Nat
  /\ Retention >= 2 * MaxSkew /\ NoBody \notin Body

VARIABLES
  nonce,        \* per body: when its nonce record expires, 0 without a record
  pending,      \* per key: the body of its pending receipt
  committed,    \* per key: the body of its committed receipt
  receiptLock,  \* per key: the storage lock of CommitIngress
  localQueue,   \* per key: the body of the event in the local queue
  hand,         \* per handler: where it is and its request
  enqueues,     \* history: per key, the calls of Queue.Enqueue
  crashes,      \* history: kills of the receiver
  faults        \* history: failed calls of Queue.Enqueue

stores == <<nonce, pending, committed, receiptLock, localQueue>>
ingressVars == <<stores, hand, enqueues, crashes, faults>>

Free == [pc |-> "free", key |-> NoBody, body |-> NoBody, sentAt |-> 0,
         at |-> 0, from |-> NoBody, exchange |-> 0, result |-> ""]

IngressInit ==
  /\ nonce = [b \in Body |-> 0]
  /\ pending = [k \in DeliveryKey |-> NoBody]
  /\ committed = [k \in DeliveryKey |-> NoBody]
  /\ receiptLock = [k \in DeliveryKey |-> NoLock]
  /\ localQueue = [k \in DeliveryKey |-> NoBody]
  /\ hand = [h \in Handler |-> Free]
  /\ enqueues = [k \in DeliveryKey |-> 0]
  /\ crashes = 0 /\ faults = 0

key(h) == hand[h].key
body(h) == hand[h].body
at(h, pc) == hand[h].pc = pc
goes(h, pc) == hand' = [hand EXCEPT ![h].pc = pc]

\* A lock belongs to a handler of one run of the receiver.
token(h) == <<h, crashes>>

-----------------------------------------------------------------------------
\* A request arrives: from, and which exchange of from it is.
Arrive(h, k, b, sentAt, from, exchange) ==
  /\ at(h, "free")
  /\ hand' = [hand EXCEPT ![h] =
       [Free EXCEPT !.pc = "verify", !.key = k, !.body = b, !.sentAt = sentAt,
                    !.from = from, !.exchange = exchange]]
  /\ UNCHANGED <<stores, enqueues, crashes, faults>>

\* VerifyPeer reads the clock; a timestamp outside the skew is refused before
\* anything else is looked at.
VerifyPeer(h) ==
  /\ at(h, "verify")
  /\ hand' = [hand EXCEPT ![h].at = now,
       ![h].pc = IF hand[h].sentAt + MaxSkew < now \/ hand[h].sentAt > now + MaxSkew
                 THEN "refused" ELSE "lookup"]
  /\ UNCHANGED <<stores, enqueues, crashes, faults>>

\* LookupCommitted, before the nonce and once more after a used one.
LookupCommitted(h) ==
  /\ hand[h].pc \in {"lookup", "lookupAgain"}
  /\ goes(h, CASE committed[key(h)] = body(h) -> "ack"
               [] committed[key(h)] = NoBody ->
                    IF at(h, "lookup") THEN "nonce" ELSE "refused"
               [] OTHER -> "refused")
  /\ UNCHANGED <<stores, enqueues, crashes, faults>>

\* Mutant: the nonce of a request is not recorded.
NonceAcceptAlways(h) ==
  /\ at(h, "nonce")
  /\ goes(h, "lock")
  /\ UNCHANGED <<stores, enqueues, crashes, faults>>

\* NonceStore.Accept: the exclusive write, or a look at the record that is there.
NonceAccept(h) ==
  /\ at(h, "nonce")
  /\ \/ /\ nonce[body(h)] = 0
        /\ nonce' = [nonce EXCEPT ![body(h)] = hand[h].at + Retention]
        /\ goes(h, "lock")
     \/ /\ nonce[body(h)] # 0
        /\ goes(h, IF nonce[body(h)] <= hand[h].at THEN "expired" ELSE "lookupAgain")
        /\ UNCHANGED nonce
  /\ UNCHANGED <<pending, committed, receiptLock, localQueue, enqueues, crashes, faults>>

\* An expired record is removed by its name, and the write is tried again.
NonceRemove(h) ==
  /\ at(h, "expired")
  /\ nonce' = [nonce EXCEPT ![body(h)] = 0]
  /\ goes(h, "nonce")
  /\ UNCHANGED <<pending, committed, receiptLock, localQueue, enqueues, crashes, faults>>

\* The nonce clean-up of relayRuntime.run.
Cleanup(b) ==
  /\ nonce[b] # 0 /\ nonce[b] <= now
  /\ nonce' = [nonce EXCEPT ![b] = 0]
  /\ UNCHANGED <<pending, committed, receiptLock, localQueue, hand, enqueues, crashes, faults>>

-----------------------------------------------------------------------------
\* CommitIngress, under the storage lock of the key.

ReceiptAcquire(h) ==
  /\ at(h, "lock")
  /\ \/ /\ ~isHeld(receiptLock, key(h))
        /\ receiptLock' = created(receiptLock, key(h), token(h))
        /\ goes(h, "committed")
     \/ /\ isStale(receiptLock, key(h))
        /\ goes(h, "steal")
        /\ UNCHANGED receiptLock
     \/ /\ isHeld(receiptLock, key(h)) /\ ~isStale(receiptLock, key(h))
        /\ goes(h, "refused")
        /\ UNCHANGED receiptLock
  /\ UNCHANGED <<nonce, pending, committed, localQueue, enqueues, crashes, faults>>

ReceiptSteal(h) ==
  /\ at(h, "steal")
  /\ receiptLock' = removed(receiptLock, key(h))
  /\ goes(h, "lock")
  /\ UNCHANGED <<nonce, pending, committed, localQueue, enqueues, crashes, faults>>

releases(h, result) == hand' = [hand EXCEPT ![h].pc = "release", ![h].result = result]

ReadCommitted(h) ==
  /\ at(h, "committed")
  /\ CASE committed[key(h)] = NoBody -> goes(h, "pending")
       [] committed[key(h)] = body(h) -> releases(h, "ack")
       [] OTHER -> releases(h, "refused")
  /\ UNCHANGED <<stores, enqueues, crashes, faults>>

\* Mutant: the receipt is committed before the event is enqueued.
PendingReceiptCommits(h) ==
  /\ at(h, "pending")
  /\ committed' = [committed EXCEPT ![key(h)] = body(h)]
  /\ goes(h, "enqueue")
  /\ UNCHANGED <<nonce, pending, receiptLock, localQueue, enqueues, crashes, faults>>

\* readPending, or else the pending receipt is written.
PendingReceipt(h) ==
  /\ at(h, "pending")
  /\ pending' = [pending EXCEPT ![key(h)] = IF @ = NoBody THEN body(h) ELSE @]
  /\ IF pending'[key(h)] = body(h) THEN goes(h, "enqueue") ELSE releases(h, "refused")
  /\ UNCHANGED <<nonce, committed, receiptLock, localQueue, enqueues, crashes, faults>>

Enqueue(h) ==
  /\ at(h, "enqueue")
  /\ localQueue' = [localQueue EXCEPT ![key(h)] = IF @ = NoBody THEN body(h) ELSE @]
  /\ enqueues' = [enqueues EXCEPT ![key(h)] = @ + 1]
  /\ goes(h, "commit")
  /\ UNCHANGED <<nonce, pending, committed, receiptLock, crashes, faults>>

\* A failed Enqueue leaves the pending receipt and the used nonce.
EnqueueFails(h) ==
  /\ at(h, "enqueue") /\ crashes + faults < MaxFailures
  /\ faults' = faults + 1
  /\ releases(h, "refused")
  /\ UNCHANGED <<stores, enqueues, crashes>>

Commit(h) ==
  /\ at(h, "commit")
  /\ committed' = [committed EXCEPT ![key(h)] = IF @ = NoBody THEN body(h) ELSE @]
  /\ IF committed'[key(h)] = body(h) THEN goes(h, "unpend") ELSE releases(h, "refused")
  /\ UNCHANGED <<nonce, pending, receiptLock, localQueue, enqueues, crashes, faults>>

RemovePending(h) ==
  /\ at(h, "unpend")
  /\ pending' = [pending EXCEPT ![key(h)] = NoBody]
  /\ releases(h, "ack")
  /\ UNCHANGED <<nonce, committed, receiptLock, localQueue, enqueues, crashes, faults>>

ReceiptRelease(h) ==
  /\ at(h, "release")
  /\ receiptLock' = released(receiptLock, key(h), token(h))
  /\ goes(h, hand[h].result)
  /\ UNCHANGED <<nonce, pending, committed, localQueue, enqueues, crashes, faults>>

\* The reply is written to a connection whose other end has gone.
ReplyLost(h) ==
  /\ hand[h].pc \in {"ack", "refused"}
  /\ hand' = [hand EXCEPT ![h] = Free]
  /\ UNCHANGED <<stores, enqueues, crashes, faults>>

-----------------------------------------------------------------------------
Crash ==
  /\ crashes + faults < MaxFailures /\ \E h \in Handler : ~at(h, "free")
  /\ hand' = [h \in Handler |-> Free]
  /\ crashes' = crashes + 1
  /\ UNCHANGED <<stores, enqueues, faults>>

\* A lock whose owner runs is younger than storageLockStale.
ReceiptLockAges(k) ==
  /\ isHeld(receiptLock, k) /\ ~receiptLock[k].old
  /\ receiptLock[k].owner[2] # crashes
  /\ receiptLock' = aged(receiptLock, k)
  /\ UNCHANGED <<nonce, pending, committed, localQueue, hand, enqueues, crashes, faults>>

AcceptStep(h) ==
  \/ VerifyPeer(h) \/ LookupCommitted(h) \/ NonceAccept(h) \/ NonceRemove(h)
  \/ ReceiptAcquire(h) \/ ReceiptSteal(h) \/ ReadCommitted(h) \/ PendingReceipt(h)
  \/ Enqueue(h) \/ EnqueueFails(h) \/ Commit(h) \/ RemovePending(h) \/ ReceiptRelease(h)

\* No handler is between reading the clock and its reply.
Prompt == \A h \in Handler : hand[h].pc \in {"free", "verify", "ack", "refused"}
=============================================================================
