------------------------------- MODULE Outbox -------------------------------
(***************************************************************************)
(* The durable outbox of a remote device (relay/outbox.go): the `remote    *)
(* emit` and `remote test` processes that fill it, each with an envelope   *)
(* signed afresh, and the forwarders that empty it (relay/forwarder.go,    *)
(* run by the push worker of the host scheduler or by `remote drain`).     *)
(* One file operation is one step.  What the receiver does with a request  *)
(* is left open here: Send returns an acknowledgement or an error.         *)
(*                                                                         *)
(* An item is named by its delivery key, a body by the process that signed *)
(* it.  Every item has the size 1.  CreatedAt only orders a listing, and   *)
(* the order in which a forwarder goes through one is left open.           *)
(***************************************************************************)
EXTENDS Naturals, Sequences, FiniteSets, StorageLock, Clock

CONSTANTS
  Producer,     \* emit processes; a body is named by its producer
  Key,          \* delivery keys
  Forwarder,    \* processes that drain the outbox
  None,         \* no file of that name, no key
  Backoff,      \* the delays of Forwarder.Backoff
  Lease,        \* the lease of a claim
  Capacity,     \* configValue.Outbox.MaxBytes, in items
  Drains,       \* a forwarder may be a drain, which does not call Recover
  MaxKills      \* bound: killed processes

\* OutboxItem.
Item == [body : Producer, attempts : Nat, next : Nat, lease : Nat]

ASSUME OutboxAssumption ==
  /\ Backoff \in Seq(Nat \ {0}) /\ Len(Backoff) >= 1
  /\ Lease \in Nat \ {0} /\ Capacity \in Nat \ {0}
  /\ Drains \in BOOLEAN /\ MaxKills \in Nat
  /\ None \notin Key \cup Item /\ "capacity" \notin Key
  /\ NoLock \notin [owner : Producer, old : BOOLEAN]

VARIABLES
  disk,     \* disk[d][k]: the item of key k in directory d, or None
  lock,     \* the lock files: "capacity" and one for every key
  stolen,   \* history: locks that were removed as stale when they were not
  prod,     \* per producer: where it is, its key, the directory it looks into,
            \* and, as history, whether an item went back while it counted
  fwd,      \* per forwarder: where it is, its listing, the item it holds
  sent,     \* history: per key, the bodies passed to Transport.Send
  sends,    \* history: per key, the number of calls of Transport.Send
  kills     \* history: killed processes

outboxVars == <<disk, lock, stolen, prod, fwd, now, sent, sends, kills>>

Dir == {"pending", "inflight", "history", "dead"}

exists(d, k) == disk[d][k] # None
listing(d) == {k \in Key : exists(d, k)}
put(d, k, item) == disk' = [disk EXCEPT ![d][k] = item]
remove(d, k) == disk' = [disk EXCEPT ![d][k] = None]

\* Mutant: what has been acknowledged is not searched.
enqueueOrderLive == <<"pending", "inflight", "dead">>

enqueueOrder == <<"pending", "inflight", "history", "dead">>
lookupOrder == <<"history", "dead", "inflight", "pending">>

NoListing == [k \in {} |-> None]
Idle == [pc |-> "idle", at |-> ZeroTime, todo |-> NoListing,
         key |-> None, item |-> None, dest |-> "", then |-> ""]

OutboxInit ==
  /\ disk = [d \in Dir |-> [k \in Key |-> None]]
  /\ lock = [n \in Key \cup {"capacity"} |-> NoLock] /\ stolen = {}
  /\ prod = [p \in Producer |->
               [pc |-> "start", key |-> None, sentAt |-> ZeroTime,
                probe |-> 1, used |-> 0, moved |-> FALSE, result |-> ""]]
  /\ fwd = [f \in Forwarder |-> Idle]
  /\ now = 1
  /\ sent = [k \in Key |-> {}]
  /\ sends = [k \in Key |-> 0]
  /\ kills = 0

-----------------------------------------------------------------------------
\* enqueueRemoteNotification and EnqueueBounded.

goto(p, pc) == prod' = [prod EXCEPT ![p].pc = pc, ![p].probe = 1]
finish(p, pc, result) ==
  prod' = [prod EXCEPT ![p].pc = pc, ![p].probe = 1, ![p].result = result]

Emit(p, k) ==
  /\ prod[p].pc = "start"
  /\ prod' = [prod EXCEPT ![p].pc = "lookup", ![p].key = k, ![p].sentAt = now]
  /\ UNCHANGED <<disk, lock, stolen, fwd, now, sent, sends, kills>>

Order(pc) ==
  IF pc \in {"bounded", "enqueue"} THEN enqueueOrder ELSE lookupOrder

\* Mutant: an item that is inflight is reported as acknowledged.
FoundEarly(p, d) ==
  CASE prod[p].pc \in {"lookup", "relookup"} -> goto(p, "duplicate")
    [] prod[p].pc = "bounded" -> finish(p, "releaseCapacity", "relookup")
    [] prod[p].pc = "enqueue" -> finish(p, "releaseItem", "relookup")
    [] prod[p].pc = "status" ->
         goto(p, CASE d \in {"history", "inflight"} -> "acknowledged"
                   [] d = "dead" -> "deadLetter"
                   [] OTHER -> "wait")

\* What a search that has found the item in d goes on with.  The body in the
\* outbox is another producer's, so a search of EnqueueBounded is a conflict,
\* after which the caller looks once more.
Found(p, d) ==
  CASE prod[p].pc \in {"lookup", "relookup"} -> goto(p, "duplicate")
    [] prod[p].pc = "bounded" -> finish(p, "releaseCapacity", "relookup")
    [] prod[p].pc = "enqueue" -> finish(p, "releaseItem", "relookup")
    [] prod[p].pc = "status" ->
         goto(p, CASE d = "history" -> "acknowledged"
                   [] d = "dead" -> "deadLetter"
                   [] OTHER -> "wait")

NotFound(p) ==
  goto(p, CASE prod[p].pc = "lookup" -> "capacityLock"
            [] prod[p].pc = "relookup" -> "error"
            [] prod[p].pc = "bounded" -> "usage"
            [] prod[p].pc = "enqueue" -> "write"
            [] prod[p].pc = "status" -> "error")

\* LookupDelivery, Status and the searches of EnqueueBounded and Enqueue read
\* one directory after the other while forwarders move items.
Probe(p) ==
  /\ prod[p].pc \in {"lookup", "bounded", "enqueue", "relookup", "status"}
  /\ LET order == Order(prod[p].pc)
         d == order[prod[p].probe] IN
     \/ exists(d, prod[p].key) /\ Found(p, d)
     \/ /\ ~exists(d, prod[p].key) /\ prod[p].probe < Len(order)
        /\ prod' = [prod EXCEPT ![p].probe = @ + 1]
     \/ ~exists(d, prod[p].key) /\ prod[p].probe = Len(order) /\ NotFound(p)
  /\ UNCHANGED <<disk, lock, stolen, fwd, now, sent, sends, kills>>

\* acquireStorageLock for the capacity lock and for the item's lock.
lockName(p) == IF prod[p].pc \in {"capacityLock", "capacitySteal"}
               THEN "capacity" ELSE prod[p].key

Acquire(p) ==
  /\ prod[p].pc \in {"capacityLock", "itemLock"}
  /\ ~isHeld(lock, lockName(p))
  /\ lock' = created(lock, lockName(p), p)
  /\ goto(p, IF prod[p].pc = "capacityLock" THEN "bounded" ELSE "enqueue")
  /\ UNCHANGED <<disk, stolen, fwd, now, sent, sends, kills>>

SeesStale(p) ==
  /\ prod[p].pc \in {"capacityLock", "itemLock"}
  /\ isStale(lock, lockName(p))
  /\ goto(p, IF prod[p].pc = "capacityLock" THEN "capacitySteal" ELSE "itemSteal")
  /\ UNCHANGED <<disk, lock, stolen, fwd, now, sent, sends, kills>>

Steal(p) ==
  /\ prod[p].pc \in {"capacitySteal", "itemSteal"}
  /\ lock' = removed(lock, lockName(p))
  /\ stolen' = IF isHeld(lock, lockName(p)) /\ ~isStale(lock, lockName(p))
               THEN stolen \cup {lockName(p)} ELSE stolen
  /\ goto(p, IF prod[p].pc = "capacitySteal" THEN "capacityLock" ELSE "itemLock")
  /\ UNCHANGED <<disk, fwd, now, sent, sends, kills>>

LockTimeout(p) ==
  /\ prod[p].pc \in {"capacityLock", "itemLock"}
  /\ isHeld(lock, lockName(p)) /\ ~isStale(lock, lockName(p))
  /\ IF prod[p].pc = "capacityLock" THEN goto(p, "error")
     ELSE finish(p, "releaseCapacity", "error")
  /\ UNCHANGED <<disk, lock, stolen, fwd, now, sent, sends, kills>>

usageOrder == <<"pending", "inflight", "dead">>

\* Mutant: what is inflight is not counted.
retryUsagePendingOnly(p) ==
  /\ prod[p].pc = "usage"
  /\ IF Cardinality(listing("pending")) + 1 > Capacity
     THEN finish(p, "releaseCapacity", "refused") ELSE goto(p, "itemLock")
  /\ UNCHANGED <<disk, lock, stolen, fwd, now, sent, sends, kills>>

\* retryUsage adds up one directory after the other.
retryUsage(p) ==
  /\ prod[p].pc = "usage"
  /\ LET used == prod[p].used
                   + Cardinality(listing(usageOrder[prod[p].probe])) IN
     \/ /\ prod[p].probe < 3
        /\ prod' = [prod EXCEPT ![p].probe = @ + 1, ![p].used = used]
     \/ /\ prod[p].probe = 3
        /\ IF used + 1 > Capacity THEN finish(p, "releaseCapacity", "refused")
           ELSE goto(p, "itemLock")
  /\ UNCHANGED <<disk, lock, stolen, fwd, now, sent, sends, kills>>

\* writeNew publishes the item with an exclusive link.
WriteItem(p) ==
  /\ prod[p].pc = "write"
  /\ IF exists("pending", prod[p].key)
     THEN UNCHANGED disk /\ finish(p, "releaseItem", "duplicate")
     ELSE /\ put("pending", prod[p].key,
                 [body |-> p, attempts |-> 0, next |-> ZeroTime, lease |-> ZeroTime])
          /\ finish(p, "releaseItem", "queued")
  /\ UNCHANGED <<lock, stolen, fwd, now, sent, sends, kills>>

\* The deferred releases, Enqueue's first.
Release(p) ==
  /\ \/ /\ prod[p].pc = "releaseItem"
        /\ lock' = released(lock, prod[p].key, p)
        /\ goto(p, "releaseCapacity")
     \/ /\ prod[p].pc = "releaseCapacity"
        /\ lock' = released(lock, "capacity", p)
        /\ goto(p, prod[p].result)
  /\ UNCHANGED <<disk, stolen, fwd, now, sent, sends, kills>>

\* runRemoteTest asks for the state of what it has queued; waitRemoteOutbox
\* polls until the item is acknowledged or dead, or its time is over.
AskStatus(p) ==
  /\ prod[p].pc \in {"queued", "duplicate", "wait"}
  /\ goto(p, "status")
  /\ UNCHANGED <<disk, lock, stolen, fwd, now, sent, sends, kills>>

WaitTimeout(p) ==
  /\ prod[p].pc = "wait"
  /\ goto(p, "timeout")
  /\ UNCHANGED <<disk, lock, stolen, fwd, now, sent, sends, kills>>

-----------------------------------------------------------------------------
\* pushAttempt and DrainOutbox: an optional Recover, then ForwardOne until
\* nothing is due, an exchange fails or the item limit is reached.

restricted(d, K) == [k \in K |-> disk[d][k]]
rest(f, k) == [j \in DOMAIN fwd[f].todo \ {k} |-> fwd[f].todo[j]]

\* A push worker recovers before it claims.
Start(f) ==
  /\ fwd[f].pc = "idle"
  /\ \/ fwd' = [fwd EXCEPT ![f] =
                   [Idle EXCEPT !.pc = "recover", !.at = now,
                                !.todo = restricted("inflight", listing("inflight"))]]
     \/ Drains /\ fwd' = [fwd EXCEPT ![f] = [Idle EXCEPT !.pc = "claim"]]
  /\ UNCHANGED <<disk, lock, stolen, prod, now, sent, sends, kills>>

\* Mutant: an inflight item without a copy elsewhere is dropped as well.
RecoverDrops(f, k) ==
  /\ fwd[f].pc = "recover" /\ k \in DOMAIN fwd[f].todo
  /\ remove("inflight", k)
  /\ fwd' = [fwd EXCEPT ![f].todo = rest(f, k)]
  /\ UNCHANGED <<lock, stolen, prod, now, sent, sends, kills>>

\* Recover, for one item of its listing: the rest of a finished transition is
\* removed, a running lease is left alone, an expired one goes to pending.
Recover(f, k) ==
  /\ fwd[f].pc = "recover" /\ k \in DOMAIN fwd[f].todo
  /\ LET item == fwd[f].todo[k] IN
     \/ /\ \E d \in {"pending", "history", "dead"} : exists(d, k)
        /\ fwd' = [fwd EXCEPT ![f].pc = "remove", ![f].todo = rest(f, k),
                              ![f].key = k, ![f].then = "recover"]
     \/ /\ \A d \in {"pending", "history", "dead"} : ~exists(d, k)
        /\ item.lease > fwd[f].at
        /\ fwd' = [fwd EXCEPT ![f].todo = rest(f, k)]
     \/ /\ \A d \in {"pending", "history", "dead"} : ~exists(d, k)
        /\ item.lease <= fwd[f].at
        /\ fwd' = [fwd EXCEPT ![f].pc = "transition", ![f].todo = rest(f, k),
                              ![f].key = k, ![f].dest = "pending",
                              ![f].item = [item EXCEPT !.lease = ZeroTime],
                              ![f].then = "recover"]
  /\ UNCHANGED <<disk, lock, stolen, prod, now, sent, sends, kills>>

RecoverDone(f) ==
  /\ fwd[f].pc = "recover" /\ DOMAIN fwd[f].todo = {}
  /\ fwd' = [fwd EXCEPT ![f] = [Idle EXCEPT !.pc = "claim"]]
  /\ UNCHANGED <<disk, lock, stolen, prod, now, sent, sends, kills>>

\* transition writes the destination, unless a copy of the same body is there,
\* and then removes the inflight file by its name.
Transition(f) ==
  /\ fwd[f].pc = "transition"
  /\ LET k == fwd[f].key d == fwd[f].dest IN
     \/ /\ ~exists(d, k)
        /\ put(d, k, fwd[f].item)
        /\ fwd' = [fwd EXCEPT ![f].pc = "remove"]
        /\ prod' = [p \in Producer |-> [prod[p] EXCEPT !.moved =
                      @ \/ (d = "pending" /\ prod[p].pc = "usage")]]
     \/ /\ exists(d, k)
        /\ fwd' = [fwd EXCEPT ![f] =
                     IF disk[d][k].body = fwd[f].item.body
                     THEN [@ EXCEPT !.pc = "remove"] ELSE Idle]
        /\ UNCHANGED <<disk, prod>>
  /\ UNCHANGED <<lock, stolen, now, sent, sends, kills>>

Remove(f) ==
  /\ fwd[f].pc = "remove"
  /\ remove("inflight", fwd[f].key)
  /\ fwd' = [fwd EXCEPT ![f] = [Idle EXCEPT !.pc = fwd[f].then,
                                            !.at = IF fwd[f].then = "recover"
                                                   THEN fwd[f].at ELSE ZeroTime,
                                            !.todo = fwd[f].todo]]
  /\ UNCHANGED <<lock, stolen, prod, now, sent, sends, kills>>

\* Claim lists what is due.  NextAttemptAt and the rest of the item are those
\* of the listing, however much later the item is reached.
ClaimList(f) ==
  /\ fwd[f].pc \in {"claim", "next"}
  /\ LET due == {k \in listing("pending") : disk["pending"][k].next <= now} IN
     fwd' = [fwd EXCEPT ![f] =
               [Idle EXCEPT !.pc = "claiming", !.at = now,
                            !.todo = restricted("pending", due)]]
  /\ UNCHANGED <<disk, lock, stolen, prod, now, sent, sends, kills>>

ClaimNone(f) ==
  /\ fwd[f].pc = "claiming" /\ DOMAIN fwd[f].todo = {}
  /\ fwd' = [fwd EXCEPT ![f] = Idle]
  /\ UNCHANGED <<disk, lock, stolen, prod, now, sent, sends, kills>>

\* The claim is the exclusive link into inflight.  A link that is there already
\* is taken for a finished claim, whose pending file is removed.
ClaimItem(f, k) ==
  /\ fwd[f].pc = "claiming" /\ k \in DOMAIN fwd[f].todo
  /\ LET item == [fwd[f].todo[k] EXCEPT !.lease = fwd[f].at + Lease] IN
     \/ /\ exists("inflight", k)
        /\ fwd' = [fwd EXCEPT ![f].pc = "claimDrop", ![f].key = k,
                              ![f].todo = rest(f, k)]
        /\ UNCHANGED disk
     \/ /\ ~exists("inflight", k)
        /\ put("inflight", k, item)
        /\ fwd' = [fwd EXCEPT ![f] = [Idle EXCEPT !.pc = "claimRemove", !.at = fwd[f].at,
                                                  !.key = k, !.item = item]]
  /\ UNCHANGED <<lock, stolen, prod, now, sent, sends, kills>>

ClaimDrop(f) ==
  /\ fwd[f].pc = "claimDrop"
  /\ remove("pending", fwd[f].key)
  /\ fwd' = [fwd EXCEPT ![f].pc = "claiming", ![f].key = None]
  /\ UNCHANGED <<lock, stolen, prod, now, sent, sends, kills>>

ClaimRemove(f) ==
  /\ fwd[f].pc = "claimRemove"
  /\ remove("pending", fwd[f].key)
  /\ fwd' = [fwd EXCEPT ![f].pc = "send"]
  /\ UNCHANGED <<lock, stolen, prod, now, sent, sends, kills>>

\* ForwardOne passes the request to Transport.Send...
Send(f) ==
  /\ fwd[f].pc = "send"
  /\ fwd' = [fwd EXCEPT ![f].pc = "sending"]
  /\ sent' = [sent EXCEPT ![fwd[f].key] = @ \cup {fwd[f].item.body}]
  /\ sends' = [sends EXCEPT ![fwd[f].key] = @ + 1]
  /\ UNCHANGED <<disk, lock, stolen, prod, now, kills>>

\* ...which returns a valid acknowledgement: Ack...
Acked(f) ==
  /\ fwd[f].pc \in {"sending", "awaiting"}
  /\ fwd' = [fwd EXCEPT ![f].pc = "transition", ![f].dest = "history",
                        ![f].item = [@ EXCEPT !.lease = ZeroTime, !.next = ZeroTime],
                        ![f].then = "next"]
  /\ UNCHANGED <<disk, lock, stolen, prod, now, sent, sends, kills>>

nacked(item, at) ==
  [item EXCEPT !.attempts = @ + 1, !.lease = ZeroTime,
     !.next = IF item.attempts + 1 >= Len(Backoff) THEN ZeroTime
              ELSE at + Backoff[item.attempts + 1]]

\* Mutant: a failed exchange is not counted.
FailedUncounted(f) ==
  /\ fwd[f].pc \in {"sending", "awaiting"}
  /\ fwd' = [fwd EXCEPT ![f].pc = "transition", ![f].dest = "pending",
                        ![f].item = [@ EXCEPT !.lease = ZeroTime], ![f].then = "idle"]
  /\ UNCHANGED <<disk, lock, stolen, prod, now, sent, sends, kills>>

\* ...or an error, a timeout or an acknowledgement that is not for this item:
\* Nack, with the time of the claim, which ends the attempt.
Failed(f) ==
  /\ fwd[f].pc \in {"sending", "awaiting"}
  /\ fwd' = [fwd EXCEPT ![f].pc = "transition",
                        ![f].dest = IF fwd[f].item.attempts + 1 >= Len(Backoff)
                                    THEN "dead" ELSE "pending",
                        ![f].item = nacked(@, fwd[f].at), ![f].then = "idle"]
  /\ UNCHANGED <<disk, lock, stolen, prod, now, sent, sends, kills>>

\* The item limit, or a listing with a file that another forwarder moved.
End(f) ==
  /\ \/ fwd[f].pc = "next"
     \/ fwd[f].pc = "claim" /\ \E g \in Forwarder \ {f} : fwd[g].pc # "idle"
  /\ fwd' = [fwd EXCEPT ![f] = Idle]
  /\ UNCHANGED <<disk, lock, stolen, prod, now, sent, sends, kills>>

-----------------------------------------------------------------------------
Ended == {"refused", "error", "killed", "timeout", "acknowledged", "deadLetter"}
AtRest == Ended \cup {"start", "queued", "duplicate", "wait", "status"}

KillProducer(p) ==
  /\ prod[p].pc \notin AtRest /\ kills < MaxKills
  /\ goto(p, "killed")
  /\ kills' = kills + 1
  /\ UNCHANGED <<disk, lock, stolen, fwd, now, sent, sends>>

KillForwarder(f) ==
  /\ fwd[f].pc # "idle" /\ kills < MaxKills
  /\ fwd' = [fwd EXCEPT ![f] = Idle]
  /\ kills' = kills + 1
  /\ UNCHANGED <<disk, lock, stolen, prod, now, sent, sends>>

\* An emit is over within a tick of the clock: a lock is stale only if its
\* owner has been killed, and a backoff does not run out in the middle of one.
LockAges(n) ==
  /\ isHeld(lock, n) /\ ~lock[n].old
  /\ prod[lock[n].owner].pc = "killed"
  /\ lock' = aged(lock, n)
  /\ UNCHANGED <<disk, stolen, prod, fwd, now, sent, sends, kills>>

Tick ==
  /\ \A p \in Producer : prod[p].pc \in AtRest
  /\ \/ \E k \in listing("pending") : disk["pending"][k].next > now
     \/ \E k \in listing("inflight") : disk["inflight"][k].lease > now
  /\ now' = now + 1
  /\ UNCHANGED <<disk, lock, stolen, prod, fwd, sent, sends, kills>>

EmitStep(p) ==
  \/ Probe(p) \/ Acquire(p) \/ SeesStale(p) \/ Steal(p) \/ LockTimeout(p)
  \/ retryUsage(p) \/ WriteItem(p) \/ Release(p)

TestStep(p) == AskStatus(p) \/ WaitTimeout(p)

\* The steps of a forwarder before and after the exchange.
ForwardStep(f) ==
  \/ Start(f) \/ RecoverDone(f) \/ Transition(f) \/ Remove(f) \/ ClaimList(f)
  \/ ClaimNone(f) \/ ClaimDrop(f) \/ ClaimRemove(f) \/ Send(f) \/ End(f)
  \/ \E k \in Key : Recover(f, k) \/ ClaimItem(f, k)

OutboxNext ==
  \/ Tick
  \/ \E n \in Key \cup {"capacity"} : LockAges(n)
  \/ \E p \in Producer : EmitStep(p) \/ TestStep(p) \/ KillProducer(p) \/ \E k \in Key : Emit(p, k)
  \/ \E f \in Forwarder : ForwardStep(f) \/ Acked(f) \/ Failed(f) \/ KillForwarder(f)

OutboxSpec == OutboxInit /\ [][OutboxNext]_outboxVars

-----------------------------------------------------------------------------
Told == {"queued", "duplicate", "wait", "status", "timeout", "acknowledged", "deadLetter"}
told(k) == \E p \in Producer : prod[p].key = k /\ prod[p].pc \in Told

\* What an emit has reported as queued, or as a duplicate of what is queued, is
\* in the outbox from then on: no order of the file operations of producers and
\* forwarder, and no kill between two of them, leaves it in no directory.
NoLostDelivery ==
  \A k \in Key : told(k) => \E d \in Dir : exists(d, k)

\* A producer of k may have lost both the locks that keep the others out.
Unlocked(k) == {k, "capacity"} \subseteq stolen

\* A delivery key is sent with one body only.  The envelope that a second emit of the
\* same event signs never replaces, or joins, the one that is in the outbox.
OneEnvelope == \A k \in Key : Cardinality(sent[k]) <= 1 \/ Unlocked(k)

\* An item is sent at most once per entry of the backoff, and once more for
\* each kill, whose attempt is not recorded.
SendBudget == \A k \in Key : sends[k] <= Len(Backoff) + kills \/ Unlocked(k)

\* The producers keep the outbox within its capacity.  Two of them never both
\* take the last place; the one way past it is an item that a forwarder moves
\* back to pending while a producer adds up the directories.
CapacityKept ==
  \/ Cardinality(listing("pending") \cup listing("inflight") \cup listing("dead"))
       <= Capacity
  \/ \E p \in Producer : prod[p].moved
  \/ "capacity" \in stolen

\* A remote test reports an acknowledgement, or a dead letter, only of an item
\* that is in that directory for good, although it reads the directories one
\* after the other while the item moves.
TestReport ==
  \A p \in Producer :
    /\ prod[p].pc = "acknowledged" => exists("history", prod[p].key)
    /\ prod[p].pc = "deadLetter" => exists("dead", prod[p].key)

=============================================================================
