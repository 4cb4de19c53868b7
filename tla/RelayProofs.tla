----------------------------- MODULE RelayProofs -----------------------------
(***************************************************************************)
(* Theorems about Relay: an acknowledgement is never ahead of the durable  *)
(* receipt and the event in the host's queue, for any number of producers, *)
(* forwarders, handlers, keys, kills, failures and repeated requests.      *)
(*                                                                         *)
(* This proof does not use the storage lock of CommitIngress, the nonces   *)
(* or the locks of the outbox: the order pending, event, committed is      *)
(* enough.  The lemmas after it are about the steps of the two sides that  *)
(* DeliveryProofs puts together.                                           *)
(***************************************************************************)
EXTENDS Relay, OutboxInvariants, TLAPS

\* Records that are changed by EXCEPT have their fields.
HandFields == {"pc", "key", "body", "sentAt", "at", "from", "exchange", "result"}
HandShape ==
  /\ hand = [h \in Handler |-> hand[h]]
  /\ \A h \in Handler : hand[h] = [x \in HandFields |-> hand[h][x]]

Holding == {"transition", "claimRemove", "send", "sending", "awaiting"}

-----------------------------------------------------------------------------
\* The inductive invariant.

StoreType ==
  /\ pending \in [DeliveryKey -> Body \cup {NoBody}]
  /\ committed \in [DeliveryKey -> Body \cup {NoBody}]
  /\ localQueue \in [DeliveryKey -> Body \cup {NoBody}]

\* An event is in the queue under its committed receipt or its pending one.
Receipts ==
  \A k \in DeliveryKey :
    /\ committed[k] # NoBody => localQueue[k] = committed[k]
    /\ committed[k] = NoBody /\ localQueue[k] # NoBody => pending[k] = localQueue[k]

\* What a handler knows of its key, whatever other handlers do meanwhile.
Knows(h) ==
  /\ hand[h].pc # "free" => hand[h].key \in DeliveryKey /\ hand[h].body \in Body
  /\ hand[h].pc = "release" => hand[h].result \in {"ack", "refused"}
  /\ hand[h].pc \in {"enqueue", "commit"} =>
       \/ pending[hand[h].key] = hand[h].body
       \/ committed[hand[h].key] # NoBody
  /\ hand[h].pc = "commit" => localQueue[hand[h].key] # NoBody
  /\ \/ hand[h].pc \in {"unpend", "ack"}
     \/ hand[h].pc = "release" /\ hand[h].result = "ack"
     => committed[hand[h].key] = hand[h].body

ReceiverInv ==
  /\ HandShape /\ StoreType /\ Receipts
  /\ \A h \in Handler : Knows(h)

FileType ==
  /\ disk \in [Dir -> [Key -> Item \cup {None}]]
  /\ now \in Nat

\* The item the record r of a forwarder holds, and where it goes.
Carries(r) ==
  /\ Shaped(r) /\ r.at \in Nat
  /\ \A k \in DOMAIN r.todo : k \in Key /\ r.todo[k] \in Item
  /\ r.pc \in Holding => r.key \in Key /\ r.item \in Item
  /\ r.pc \in {"transition", "remove"} => r.then \in {"recover", "next", "idle"}
  /\ r.pc = "transition" /\ r.dest = "history" => committed[r.key] # NoBody

HistoryCommitted == \A k \in Key : disk["history"][k] # None => committed[k] # NoBody

SenderInv ==
  /\ fwd = [f \in Forwarder |-> fwd[f]]
  /\ \A f \in Forwarder : Carries(fwd[f])
  /\ FileType /\ HistoryCommitted

RelayInv == ReceiverInv /\ SenderInv

-----------------------------------------------------------------------------
\* How the steps of a handler change its record.

LEMMA GoesEffect ==
  ASSUME HandShape, NEW h \in Handler, NEW pc, goes(h, pc)
  PROVE  /\ HandShape'
         /\ \A g \in Handler :
              /\ hand'[g].key = hand[g].key /\ hand'[g].body = hand[g].body
              /\ hand'[g].result = hand[g].result
              /\ hand'[g].pc = IF g = h THEN pc ELSE hand[g].pc
<1>1. hand' = [g \in Handler |-> IF g = h THEN [hand[h] EXCEPT !.pc = pc] ELSE hand[g]]
  BY Zenon DEF HandShape, HandFields, goes
<1>2. \A g \in Handler :
        /\ hand'[g].key = hand[g].key /\ hand'[g].body = hand[g].body
        /\ hand'[g].result = hand[g].result
        /\ hand'[g].pc = IF g = h THEN pc ELSE hand[g].pc
  BY <1>1 DEF HandShape, HandFields
<1>3. HandShape'
  BY <1>1, SMTT(30) DEF HandShape, HandFields
<1> QED
  BY <1>2, <1>3, Zenon

LEMMA ReleasesEffect ==
  ASSUME HandShape, NEW h \in Handler, NEW result, releases(h, result)
  PROVE  /\ HandShape'
         /\ \A g \in Handler :
              /\ hand'[g].key = hand[g].key /\ hand'[g].body = hand[g].body
              /\ hand'[g].result = IF g = h THEN result ELSE hand[g].result
              /\ hand'[g].pc = IF g = h THEN "release" ELSE hand[g].pc
<1>1. hand' = [g \in Handler |->
                 IF g = h THEN [hand[h] EXCEPT !.pc = "release", !.result = result]
                 ELSE hand[g]]
  BY Zenon DEF HandShape, HandFields, releases
<1>2. \A g \in Handler :
        /\ hand'[g].key = hand[g].key /\ hand'[g].body = hand[g].body
        /\ hand'[g].result = IF g = h THEN result ELSE hand[g].result
        /\ hand'[g].pc = IF g = h THEN "release" ELSE hand[g].pc
  BY <1>1 DEF HandShape, HandFields
<1>3. HandShape'
  BY <1>1, Zenon DEF HandShape, HandFields
<1> QED
  BY <1>2, <1>3, Zenon

\* Unchanged stores: only what the handler itself knows can change.
LEMMA FreeHandler ==
  ASSUME ReceiverInv, NEW h \in Handler, hand' = [hand EXCEPT ![h] = Free],
         UNCHANGED <<pending, committed, localQueue>>
  PROVE  ReceiverInv'
<1>1. hand' = [g \in Handler |-> IF g = h THEN Free ELSE hand[g]]
  BY Zenon DEF ReceiverInv, HandShape, HandFields
<1>2. HandShape'
  BY <1>1, Zenon DEF ReceiverInv, HandShape, HandFields, Free
<1>3. StoreType' /\ Receipts'
  BY Zenon DEF ReceiverInv, StoreType, Receipts
<1>4. ASSUME NEW g \in Handler PROVE Knows(g)'
  <2>1. CASE g = h
    <3>1. hand'[g] = Free
      BY <1>1, <2>1, Zenon
    <3>2. Free.pc = "free"
      BY Zenon DEF Free
    <3> QED
      BY <3>1, <3>2, Zenon DEF Knows
  <2>2. CASE g # h
    <3>1. hand'[g] = hand[g]
      BY <1>1, <2>2, Zenon
    <3> QED
      BY <3>1, Zenon DEF ReceiverInv, Knows
  <2> QED
    BY <2>1, <2>2, Zenon
<1> QED
  BY <1>2, <1>3, <1>4, Zenon DEF ReceiverInv

LEMMA GoesKeeps ==
  ASSUME ReceiverInv, NEW h \in Handler, NEW pc, goes(h, pc),
         UNCHANGED <<pending, committed, localQueue>>,
         hand[h].pc # "free", pc \notin {"enqueue", "commit", "unpend", "release"},
         pc = "ack" => committed[hand[h].key] = hand[h].body
  PROVE  ReceiverInv'
<1>1. HandShape
  BY Zenon DEF ReceiverInv
<1>2. /\ HandShape'
      /\ \A g \in Handler :
           /\ hand'[g].key = hand[g].key /\ hand'[g].body = hand[g].body
           /\ hand'[g].result = hand[g].result
           /\ hand'[g].pc = IF g = h THEN pc ELSE hand[g].pc
  BY <1>1, GoesEffect, Zenon
<1>3. StoreType' /\ Receipts'
  BY Zenon DEF ReceiverInv, StoreType, Receipts
<1>4. ASSUME NEW g \in Handler PROVE Knows(g)'
  <2>1. Knows(g)
    BY Zenon DEF ReceiverInv
  <2> QED
    BY <1>2, <2>1 DEF Knows
<1> QED
  BY <1>2, <1>3, <1>4, Zenon DEF ReceiverInv

LEMMA ReleasesKeeps ==
  ASSUME ReceiverInv, NEW h \in Handler, NEW result \in {"ack", "refused"},
         releases(h, result), UNCHANGED <<pending, committed, localQueue>>,
         hand[h].pc # "free",
         result = "ack" => committed[hand[h].key] = hand[h].body
  PROVE  ReceiverInv'
<1>1. HandShape
  BY Zenon DEF ReceiverInv
<1>2. /\ HandShape'
      /\ \A g \in Handler :
           /\ hand'[g].key = hand[g].key /\ hand'[g].body = hand[g].body
           /\ hand'[g].result = IF g = h THEN result ELSE hand[g].result
           /\ hand'[g].pc = IF g = h THEN "release" ELSE hand[g].pc
  BY <1>1, ReleasesEffect, Zenon
<1>3. StoreType' /\ Receipts'
  BY Zenon DEF ReceiverInv, StoreType, Receipts
<1>4. ASSUME NEW g \in Handler PROVE Knows(g)'
  <2>1. Knows(g)
    BY Zenon DEF ReceiverInv
  <2> QED
    BY <1>2, <2>1 DEF Knows
<1> QED
  BY <1>2, <1>3, <1>4, Zenon DEF ReceiverInv

-----------------------------------------------------------------------------
\* The three writes of CommitIngress and the removal after them.

\* A pending receipt is never replaced.
LEMMA PendingReceiptKeeps ==
  ASSUME ReceiverInv, NEW h \in Handler, PendingReceipt(h)
  PROVE  ReceiverInv'
<1> DEFINE k == hand[h].key
<1>1. HandShape /\ StoreType /\ Receipts /\ Knows(h)
  BY Zenon DEF ReceiverInv
<1>2. hand[h].pc = "pending" /\ k \in DeliveryKey /\ hand[h].body \in Body
  BY <1>1, Zenon DEF PendingReceipt, at, Knows
<1>3. /\ pending' = [pending EXCEPT ![k] = IF pending[k] = NoBody THEN hand[h].body
                                          ELSE pending[k]]
      /\ UNCHANGED <<committed, localQueue>>
  BY <1>1, <1>2, Zenon DEF PendingReceipt, key, body, StoreType
<1>4. StoreType' /\ \A j \in DeliveryKey : pending[j] # NoBody => pending'[j] = pending[j]
  BY <1>1, <1>2, <1>3, Zenon DEF StoreType
<1>5. Receipts'
  BY <1>1, <1>3, <1>4, Zenon DEF Receipts
<1>6. /\ HandShape'
      /\ \A g \in Handler :
           /\ hand'[g].key = hand[g].key /\ hand'[g].body = hand[g].body
           /\ g # h => hand'[g].result = hand[g].result /\ hand'[g].pc = hand[g].pc
      /\ \/ hand'[h].pc = "enqueue" /\ pending'[k] = hand[h].body
         \/ hand'[h].pc = "release" /\ hand'[h].result = "refused"
  <2>1. CASE pending'[k] = hand[h].body
    <3>1. goes(h, "enqueue")
      BY <2>1, Zenon DEF PendingReceipt, key, body
    <3> QED
      BY <1>1, <2>1, <3>1, GoesEffect
  <2>2. CASE pending'[k] # hand[h].body
    <3>1. releases(h, "refused")
      BY <2>2, Zenon DEF PendingReceipt, key, body
    <3> QED
      BY <1>1, <3>1, ReleasesEffect
  <2> QED
    BY <2>1, <2>2, Zenon
<1>7. ASSUME NEW g \in Handler PROVE Knows(g)'
  <2>1. Knows(g)
    BY Zenon DEF ReceiverInv
  <2>2. CASE g = h
    BY <1>2, <1>3, <1>6, <2>2, Zenon DEF Knows
  <2>3. CASE g # h
    BY <1>3, <1>4, <1>6, <2>1, <2>3, IngressAssumption DEF Knows
  <2> QED
    BY <2>2, <2>3, Zenon
<1> QED
  BY <1>4, <1>5, <1>6, <1>7, Zenon DEF ReceiverInv

\* The event goes in under the handler's pending receipt, or it is there already.
LEMMA EnqueueKeeps ==
  ASSUME ReceiverInv, NEW h \in Handler, Enqueue(h)
  PROVE  ReceiverInv'
<1> DEFINE k == hand[h].key
<1>1. HandShape /\ StoreType /\ Receipts /\ Knows(h)
  BY Zenon DEF ReceiverInv
<1>2. hand[h].pc = "enqueue" /\ k \in DeliveryKey /\ hand[h].body \in Body
  BY <1>1, Zenon DEF Enqueue, at, Knows
<1>3. /\ localQueue' = [localQueue EXCEPT ![k] = IF localQueue[k] = NoBody
                                                THEN hand[h].body ELSE localQueue[k]]
      /\ UNCHANGED <<pending, committed>>
  BY <1>1, <1>2, Zenon DEF Enqueue, key, body, StoreType
<1>4. /\ StoreType' /\ localQueue'[k] # NoBody
      /\ \A j \in DeliveryKey : localQueue[j] # NoBody => localQueue'[j] = localQueue[j]
      /\ \A j \in DeliveryKey : j # k => localQueue'[j] = localQueue[j]
      /\ localQueue[k] = NoBody => localQueue'[k] = hand[h].body
  BY <1>1, <1>2, <1>3, IngressAssumption, Zenon DEF StoreType
<1>5. Receipts'
  <2>1. localQueue[k] = NoBody /\ committed[k] = NoBody => pending[k] = hand[h].body
    BY <1>1, <1>2, Zenon DEF Knows
  <2>2. committed[k] # NoBody => localQueue[k] # NoBody
    BY <1>1, <1>2, Zenon DEF Receipts
  <2> QED
    BY <1>1, <1>2, <1>3, <1>4, <2>1, <2>2 DEF Receipts
<1>6. /\ HandShape'
      /\ \A g \in Handler :
           /\ hand'[g].key = hand[g].key /\ hand'[g].body = hand[g].body
           /\ hand'[g].result = hand[g].result
           /\ hand'[g].pc = IF g = h THEN "commit" ELSE hand[g].pc
  <2>1. goes(h, "commit")
    BY Zenon DEF Enqueue
  <2> QED
    BY <1>1, <2>1, GoesEffect, Zenon
<1>7. ASSUME NEW g \in Handler PROVE Knows(g)'
  <2>1. Knows(g)
    BY Zenon DEF ReceiverInv
  <2>2. CASE g = h
    BY <1>1, <1>2, <1>3, <1>4, <1>6, <2>2, Zenon DEF Knows
  <2>3. CASE g # h
    BY <1>3, <1>4, <1>6, <2>1, <2>3 DEF Knows
  <2> QED
    BY <2>2, <2>3, Zenon
<1> QED
  BY <1>4, <1>5, <1>6, <1>7, Zenon DEF ReceiverInv

\* The receipt that is committed is the one the event was enqueued under.
LEMMA CommitKeeps ==
  ASSUME ReceiverInv, NEW h \in Handler, Commit(h)
  PROVE  /\ ReceiverInv'
         /\ \A k \in DeliveryKey : committed[k] # NoBody => committed'[k] # NoBody
<1> DEFINE k == hand[h].key
<1>1. HandShape /\ StoreType /\ Receipts /\ Knows(h)
  BY Zenon DEF ReceiverInv
<1>2. hand[h].pc = "commit" /\ k \in DeliveryKey /\ hand[h].body \in Body
  BY <1>1, Zenon DEF Commit, at, Knows
<1>3. /\ committed' = [committed EXCEPT ![k] = IF committed[k] = NoBody
                                              THEN hand[h].body ELSE committed[k]]
      /\ UNCHANGED <<pending, localQueue>>
  BY <1>1, <1>2, Zenon DEF Commit, key, body, StoreType
<1>4. /\ StoreType' /\ committed'[k] # NoBody
      /\ \A j \in DeliveryKey : committed[j] # NoBody => committed'[j] = committed[j]
      /\ \A j \in DeliveryKey : j # k => committed'[j] = committed[j]
      /\ committed[k] = NoBody => committed'[k] = hand[h].body
  BY <1>1, <1>2, <1>3, IngressAssumption, Zenon DEF StoreType
<1>5. Receipts'
  <2>1. committed[k] = NoBody => localQueue[k] = hand[h].body
    BY <1>1, <1>2, Zenon DEF Knows, Receipts
  <2> QED
    BY <1>1, <1>2, <1>3, <1>4, <2>1 DEF Receipts
<1>6. /\ HandShape'
      /\ \A g \in Handler :
           /\ hand'[g].key = hand[g].key /\ hand'[g].body = hand[g].body
           /\ g # h => hand'[g].result = hand[g].result /\ hand'[g].pc = hand[g].pc
      /\ \/ hand'[h].pc = "unpend" /\ committed'[k] = hand[h].body
         \/ hand'[h].pc = "release" /\ hand'[h].result = "refused"
  <2>1. CASE committed'[k] = hand[h].body
    <3>1. goes(h, "unpend")
      BY <2>1, Zenon DEF Commit, key, body
    <3> QED
      BY <1>1, <2>1, <3>1, GoesEffect
  <2>2. CASE committed'[k] # hand[h].body
    <3>1. releases(h, "refused")
      BY <2>2, Zenon DEF Commit, key, body
    <3> QED
      BY <1>1, <3>1, ReleasesEffect
  <2> QED
    BY <2>1, <2>2, Zenon
<1>7. ASSUME NEW g \in Handler PROVE Knows(g)'
  <2>1. Knows(g)
    BY Zenon DEF ReceiverInv
  <2>2. CASE g = h
    BY <1>2, <1>3, <1>6, <2>2, Zenon DEF Knows
  <2>3. CASE g # h
    BY <1>3, <1>4, <1>6, <2>1, <2>3, IngressAssumption DEF Knows
  <2> QED
    BY <2>2, <2>3, Zenon
<1> QED
  BY <1>4, <1>5, <1>6, <1>7, Zenon DEF ReceiverInv

\* The pending receipt goes only when the committed one is there.
LEMMA RemovePendingKeeps ==
  ASSUME ReceiverInv, NEW h \in Handler, RemovePending(h)
  PROVE  ReceiverInv'
<1> DEFINE k == hand[h].key
<1>1. HandShape /\ StoreType /\ Receipts /\ Knows(h)
  BY Zenon DEF ReceiverInv
<1>2. /\ hand[h].pc = "unpend" /\ k \in DeliveryKey /\ hand[h].body \in Body
      /\ committed[k] = hand[h].body /\ committed[k] # NoBody
  BY <1>1, IngressAssumption, Zenon DEF RemovePending, at, Knows
<1>3. pending' = [pending EXCEPT ![k] = NoBody] /\ UNCHANGED <<committed, localQueue>>
  BY Zenon DEF RemovePending, key
<1>4. StoreType' /\ \A j \in DeliveryKey : j # k => pending'[j] = pending[j]
  BY <1>1, <1>2, <1>3, Zenon DEF StoreType
<1>5. Receipts'
  BY <1>1, <1>2, <1>3, <1>4, Zenon DEF Receipts
<1>6. /\ HandShape'
      /\ \A g \in Handler :
           /\ hand'[g].key = hand[g].key /\ hand'[g].body = hand[g].body
           /\ hand'[g].result = IF g = h THEN "ack" ELSE hand[g].result
           /\ hand'[g].pc = IF g = h THEN "release" ELSE hand[g].pc
  <2>1. releases(h, "ack")
    BY Zenon DEF RemovePending
  <2> QED
    BY <1>1, <2>1, ReleasesEffect, Zenon
<1>7. ASSUME NEW g \in Handler PROVE Knows(g)'
  <2>1. Knows(g)
    BY Zenon DEF ReceiverInv
  <2>2. CASE g = h
    BY <1>2, <1>3, <1>6, <2>2, Zenon DEF Knows
  <2>3. CASE g # h
    BY <1>2, <1>3, <1>4, <1>6, <2>1, <2>3 DEF Knows
  <2> QED
    BY <2>2, <2>3, Zenon
<1> QED
  BY <1>4, <1>5, <1>6, <1>7, Zenon DEF ReceiverInv

-----------------------------------------------------------------------------
\* Every step of a handler.
LEMMA AcceptKeeps ==
  ASSUME ReceiverInv, NEW h \in Handler, AcceptStep(h)
  PROVE  /\ ReceiverInv'
         /\ \A k \in DeliveryKey : committed[k] # NoBody => committed'[k] # NoBody
<1>1. HandShape /\ Knows(h)
  BY Zenon DEF ReceiverInv
<1>2. CASE VerifyPeer(h)
  <2> DEFINE pc == IF hand[h].sentAt + MaxSkew < now \/ hand[h].sentAt > now + MaxSkew
                   THEN "refused" ELSE "lookup"
  <2>1. /\ hand' = [g \in Handler |->
                     IF g = h THEN [hand[h] EXCEPT !.at = now, !.pc = pc] ELSE hand[g]]
        /\ hand[h].pc = "verify"
        /\ UNCHANGED <<pending, committed, localQueue>>
    BY <1>1, <1>2, Zenon DEF HandShape, HandFields, VerifyPeer, at, stores
  <2>2. pc \in {"refused", "lookup"}
    OBVIOUS
  <2> HIDE DEF pc
  <2>3. \A g \in Handler :
          /\ hand'[g].key = hand[g].key /\ hand'[g].body = hand[g].body
          /\ hand'[g].result = hand[g].result
          /\ hand'[g].pc = IF g = h THEN pc ELSE hand[g].pc
    BY <1>1, <2>1 DEF HandShape, HandFields
  <2>4. HandShape'
    BY <1>1, <2>1, Zenon DEF HandShape, HandFields
  <2>5. StoreType' /\ Receipts'
    BY <2>1, Zenon DEF ReceiverInv, StoreType, Receipts
  <2>6. ASSUME NEW g \in Handler PROVE Knows(g)'
    <3>1. Knows(g)
      BY Zenon DEF ReceiverInv
    <3> QED
      BY <2>1, <2>2, <2>3, <3>1 DEF Knows
  <2> QED
    BY <2>1, <2>4, <2>5, <2>6, Zenon DEF ReceiverInv
<1>3. CASE LookupCommitted(h)
  <2> DEFINE pc == CASE committed[key(h)] = body(h) -> "ack"
                     [] committed[key(h)] = NoBody ->
                          IF at(h, "lookup") THEN "nonce" ELSE "refused"
                     [] OTHER -> "refused"
  <2>1. goes(h, pc) /\ UNCHANGED <<pending, committed, localQueue>> /\ hand[h].pc # "free"
    BY <1>3, Zenon DEF LookupCommitted, stores
  <2>2. /\ pc \in {"ack", "nonce", "refused"}
        /\ pc = "ack" => committed[hand[h].key] = hand[h].body
    BY Zenon DEF key, body
  <2> HIDE DEF pc
  <2> QED
    BY <2>1, <2>2, GoesKeeps, Zenon
<1>4. CASE NonceAccept(h)
  <2>1. PICK pc \in {"lock", "expired", "lookupAgain"} : goes(h, pc)
    BY <1>4, Zenon DEF NonceAccept
  <2>2. UNCHANGED <<pending, committed, localQueue>> /\ hand[h].pc = "nonce"
    BY <1>4, Zenon DEF NonceAccept, at
  <2> QED
    BY <2>1, <2>2, GoesKeeps, Zenon
<1>5. CASE NonceRemove(h)
  BY <1>5, GoesKeeps, Zenon DEF NonceRemove, at
<1>6. CASE ReceiptAcquire(h)
  <2>1. PICK pc \in {"committed", "steal", "refused"} : goes(h, pc)
    BY <1>6, Zenon DEF ReceiptAcquire
  <2>2. UNCHANGED <<pending, committed, localQueue>> /\ hand[h].pc = "lock"
    BY <1>6, Zenon DEF ReceiptAcquire, at
  <2> QED
    BY <2>1, <2>2, GoesKeeps, Zenon
<1>7. CASE ReceiptSteal(h)
  BY <1>7, GoesKeeps, Zenon DEF ReceiptSteal, at
<1>8. CASE ReadCommitted(h)
  <2>1. UNCHANGED <<pending, committed, localQueue>> /\ hand[h].pc = "committed"
    BY <1>8, Zenon DEF ReadCommitted, at, stores
  <2>2. \/ goes(h, "pending")
        \/ releases(h, "ack") /\ committed[hand[h].key] = hand[h].body
        \/ releases(h, "refused")
    BY <1>8, Zenon DEF ReadCommitted, key, body
  <2>3. CASE goes(h, "pending")
    BY <2>1, <2>3, GoesKeeps, Zenon
  <2>4. CASE releases(h, "ack") /\ committed[hand[h].key] = hand[h].body
    BY <2>1, <2>4, ReleasesKeeps, Zenon
  <2>5. CASE releases(h, "refused")
    BY <2>1, <2>5, ReleasesKeeps, Zenon
  <2> QED
    BY <2>2, <2>3, <2>4, <2>5, Zenon
<1>9. CASE PendingReceipt(h)
  BY <1>9, PendingReceiptKeeps, Zenon DEF PendingReceipt
<1>10. CASE Enqueue(h)
  BY <1>10, EnqueueKeeps, Zenon DEF Enqueue
<1>11. CASE EnqueueFails(h)
  BY <1>11, ReleasesKeeps, Zenon DEF EnqueueFails, at, stores
<1>12. CASE Commit(h)
  BY <1>12, CommitKeeps, Zenon
<1>13. CASE RemovePending(h)
  BY <1>13, RemovePendingKeeps, Zenon DEF RemovePending
<1>14. CASE ReceiptRelease(h)
  <2>1. /\ goes(h, hand[h].result) /\ hand[h].pc = "release"
        /\ UNCHANGED <<pending, committed, localQueue>>
    BY <1>14, Zenon DEF ReceiptRelease, at
  <2>2. /\ hand[h].result \in {"ack", "refused"}
        /\ hand[h].result = "ack" => committed[hand[h].key] = hand[h].body
    BY <1>1, <2>1, Zenon DEF Knows
  <2> QED
    BY <2>1, <2>2, GoesKeeps, Zenon
<1> QED
  BY <1>2, <1>3, <1>4, <1>5, <1>6, <1>7, <1>8, <1>9, <1>10, <1>11, <1>12, <1>13, <1>14, Zenon
     DEF AcceptStep

-----------------------------------------------------------------------------
\* A forwarder's step replaces its record.
LEMMA ForwarderKeeps ==
  ASSUME SenderInv, NEW f \in Forwarder, NEW r, fwd' = [fwd EXCEPT ![f] = r],
         Carries(r), UNCHANGED committed, FileType', HistoryCommitted'
  PROVE  SenderInv'
<1>1. fwd' = [g \in Forwarder |-> IF g = f THEN r ELSE fwd[g]]
  BY Zenon DEF SenderInv
<1>2. ASSUME NEW g \in Forwarder PROVE Carries(fwd[g])'
  <2>1. Carries(fwd[g])
    BY Zenon DEF SenderInv
  <2>2. CASE g = f
    <3>1. fwd'[g] = r
      BY <1>1, <2>2, Zenon
    <3> QED
      BY <3>1, Zenon DEF Carries, Shaped
  <2>3. CASE g # f
    <3>1. fwd'[g] = fwd[g]
      BY <1>1, <2>3, Zenon
    <3> QED
      BY <2>1, <3>1, Zenon DEF Carries, Shaped
  <2> QED
    BY <2>2, <2>3, Zenon
<1>3. fwd' = [g \in Forwarder |-> fwd'[g]]
  BY <1>1, Zenon
<1> QED
  BY <1>2, <1>3, Zenon DEF SenderInv

LEMMA IdleCarries == Carries(Idle)
<1>1. \A k \in DOMAIN Idle.todo : FALSE
  BY Zenon DEF Idle, NoListing
<1>2. Shaped(Idle) /\ Idle.at = 0 /\ Idle.pc = "idle"
  BY Zenon DEF Idle, Shaped, Fields, ZeroTime
<1> QED
  BY <1>1, <1>2 DEF Carries, Holding

\* A file of an item, or none, is put where it belongs.
LEMMA WriteKeeps ==
  ASSUME FileType, HistoryCommitted, UNCHANGED <<now, committed>>, NEW d, NEW k,
         NEW v \in Item \cup {None}, disk' = [disk EXCEPT ![d][k] = v],
         d = "history" => v = None \/ committed[k] # NoBody
  PROVE  FileType' /\ HistoryCommitted'
<1>1. disk' = [e \in Dir |-> IF e = d THEN [disk[d] EXCEPT ![k] = v] ELSE disk[e]]
  BY Zenon DEF FileType
<1>2. ASSUME NEW e \in Dir PROVE disk'[e] \in [Key -> Item \cup {None}]
  <2>1. disk[e] \in [Key -> Item \cup {None}]
    BY Zenon DEF FileType
  <2>2. disk'[e] = IF e = d THEN [disk[e] EXCEPT ![k] = v] ELSE disk[e]
    BY <1>1, Zenon
  <2>3. [disk[e] EXCEPT ![k] = v] \in [Key -> Item \cup {None}]
    <3> DEFINE T == Item \cup {None}
    <3>1. disk[e] \in [Key -> T] /\ v \in T
      BY <2>1, Zenon
    <3> HIDE DEF T
    <3>2. [disk[e] EXCEPT ![k] = v] \in [Key -> T]
      BY <3>1, Zenon
    <3> QED
      BY <3>2, Zenon DEF T
  <2> QED
    BY <2>1, <2>2, <2>3, Zenon
<1>3. \A j \in Key : disk'["history"][j] =
        IF d = "history" /\ j = k THEN v ELSE disk["history"][j]
  BY <1>1 DEF FileType, Dir
<1> QED
  BY <1>1, <1>2, <1>3, Zenon DEF FileType, HistoryCommitted

LEMMA SameFiles ==
  ASSUME FileType, HistoryCommitted, UNCHANGED <<disk, committed>>, now' \in Nat
  PROVE  FileType' /\ HistoryCommitted'
BY Zenon DEF FileType, HistoryCommitted

LEMMA RestrictedOK ==
  ASSUME FileType, NEW d \in Dir, NEW K \in SUBSET listing(d)
  PROVE  \A k \in DOMAIN restricted(d, K) :
           k \in Key /\ restricted(d, K)[k] \in Item
<1>1. \A k \in K : k \in Key /\ disk[d][k] # None
  BY Zenon DEF listing, exists
<1> QED
  BY <1>1, Zenon DEF restricted, FileType

LEMMA RestOK ==
  ASSUME NEW f \in Forwarder, Carries(fwd[f]), NEW k \in Key
  PROVE  \A j \in DOMAIN rest(f, k) : j \in Key /\ rest(f, k)[j] \in Item
BY Zenon DEF rest, Carries

-----------------------------------------------------------------------------
\* The steps of a forwarder that write no file.
LEMMA QuietForwardKeeps ==
  ASSUME SenderInv, NEW f \in Forwarder, UNCHANGED <<disk, now, committed>>,
         NEW r, fwd' = [fwd EXCEPT ![f] = r], Carries(r)
  PROVE  SenderInv'
<1>1. FileType' /\ HistoryCommitted'
  BY SameFiles, Zenon DEF SenderInv, FileType
<1> QED
  BY <1>1, ForwarderKeeps, Zenon

LEMMA RecoverKeeps ==
  ASSUME SenderInv, NEW f \in Forwarder, NEW k \in Key, Recover(f, k), UNCHANGED committed
  PROVE  SenderInv'
<1> DEFINE r1 == [fwd[f] EXCEPT !.pc = "remove", !.todo = rest(f, k), !.key = k,
                                !.then = "recover"]
           r2 == [fwd[f] EXCEPT !.todo = rest(f, k)]
           r3 == [fwd[f] EXCEPT !.pc = "transition", !.todo = rest(f, k), !.key = k,
                                !.dest = "pending",
                                !.item = [fwd[f].todo[k] EXCEPT !.lease = ZeroTime],
                                !.then = "recover"]
<1>1. /\ Carries(fwd[f]) /\ Shaped(fwd[f]) /\ fwd[f].pc = "recover"
      /\ k \in DOMAIN fwd[f].todo
  BY Zenon DEF SenderInv, Carries, Recover
<1>2. fwd[f].todo[k] \in Item
  BY <1>1, Zenon DEF Carries
<1>3. \A j \in DOMAIN rest(f, k) : j \in Key /\ rest(f, k)[j] \in Item
  BY <1>1, RestOK, Zenon
<1>4. UNCHANGED <<disk, now>>
  BY Zenon DEF Recover
<1>5. \/ fwd' = [fwd EXCEPT ![f] = r1]
      \/ fwd' = [fwd EXCEPT ![f] = r2]
      \/ fwd' = [fwd EXCEPT ![f] = r3]
  BY <1>1, Zenon DEF Recover
<1>6. Carries(r1)
  <2>1. /\ r1.pc = "remove" /\ r1.at = fwd[f].at /\ r1.todo = rest(f, k)
        /\ r1.then = "recover" /\ Shaped(r1)
    BY <1>1, Zenon DEF Shaped, Fields
  <2> HIDE DEF r1
  <2> QED
    BY <1>1, <1>3, <2>1, Zenon DEF Carries, Holding
<1>7. Carries(r2)
  <2>1. r2.pc = "recover" /\ r2.at = fwd[f].at /\ r2.todo = rest(f, k) /\ Shaped(r2)
    BY <1>1, Zenon DEF Shaped, Fields
  <2> HIDE DEF r2
  <2> QED
    BY <1>1, <1>3, <2>1, Zenon DEF Carries, Holding
<1>8. Carries(r3)
  <2> DEFINE item == [fwd[f].todo[k] EXCEPT !.lease = ZeroTime]
  <2>1. item \in Item
    BY <1>2, Zenon DEF Item, ZeroTime
  <2>2. /\ r3.pc = "transition" /\ r3.at = fwd[f].at /\ r3.todo = rest(f, k)
        /\ r3.key = k /\ r3.item = item /\ r3.dest = "pending"
        /\ r3.then = "recover" /\ Shaped(r3)
    BY <1>1, Zenon DEF Shaped, Fields
  <2> HIDE DEF r3, item
  <2> QED
    BY <1>1, <1>3, <2>1, <2>2, Zenon DEF Carries, Holding
<1> HIDE DEF r1, r2, r3
<1> QED
  BY <1>4, <1>5, <1>6, <1>7, <1>8, QuietForwardKeeps, Zenon

LEMMA IdleExceptCarries ==
  ASSUME NEW pc, pc \notin Holding \cup {"remove"}, NEW time \in Nat, NEW todo,
         \A k \in DOMAIN todo : k \in Key /\ todo[k] \in Item
  PROVE  Carries([Idle EXCEPT !.pc = pc, !.at = time, !.todo = todo])
<1> DEFINE r == [Idle EXCEPT !.pc = pc, !.at = time, !.todo = todo]
<1>1. r.pc = pc /\ r.at = time /\ r.todo = todo /\ Shaped(r)
  BY Zenon DEF Idle, Shaped, Fields
<1>2. Carries(r)
  <2> HIDE DEF r
  <2> QED
    BY <1>1, Zenon DEF Carries, Holding
<1> QED
  BY <1>2, Zenon

LEMMA IdleClaims == Carries([Idle EXCEPT !.pc = "claim"])
<1> DEFINE r == [Idle EXCEPT !.pc = "claim"]
<1>1. r.pc = "claim" /\ r.at = 0 /\ r.todo = NoListing /\ Shaped(r)
  BY Zenon DEF Idle, Shaped, Fields, ZeroTime
<1>2. \A k \in DOMAIN NoListing : FALSE
  BY Zenon DEF NoListing
<1>3. Carries(r)
  <2> HIDE DEF r
  <2> QED
    BY <1>1, <1>2 DEF Carries, Holding
<1> QED
  BY <1>3, Zenon

\* Acked, of an exchange whose receipt is committed, and Failed.
LEMMA AckedKeeps ==
  ASSUME SenderInv, NEW f \in Forwarder, Acked(f), UNCHANGED committed,
         committed[fwd[f].key] # NoBody
  PROVE  SenderInv'
<1> DEFINE item == [fwd[f].item EXCEPT !.lease = ZeroTime, !.next = ZeroTime]
           r == [fwd[f] EXCEPT !.pc = "transition", !.dest = "history",
                               !.item = item, !.then = "next"]
<1>1. /\ Carries(fwd[f]) /\ Shaped(fwd[f])
      /\ fwd[f].pc \in {"sending", "awaiting"}
  BY Zenon DEF SenderInv, Carries, Acked
<1>2. fwd[f].key \in Key /\ fwd[f].item \in Item
  BY <1>1, Zenon DEF Carries, Holding
<1>3. item \in Item
  BY <1>2, Zenon DEF Item, ZeroTime
<1>4. fwd' = [fwd EXCEPT ![f] = r] /\ UNCHANGED <<disk, now>>
  BY <1>1, Zenon DEF Acked
<1>5. Carries(r)
  <2>1. /\ r.pc = "transition" /\ r.at = fwd[f].at /\ r.todo = fwd[f].todo
        /\ r.key = fwd[f].key /\ r.item = item /\ r.dest = "history"
        /\ r.then = "next" /\ Shaped(r)
    BY <1>1, Zenon DEF Shaped, Fields
  <2> HIDE DEF r, item
  <2> QED
    BY <1>1, <1>2, <1>3, <2>1, Zenon DEF Carries, Holding
<1> HIDE DEF r
<1> QED
  BY <1>4, <1>5, QuietForwardKeeps, Zenon

LEMMA NackedOK ==
  ASSUME NEW item \in Item, NEW time \in Nat
  PROVE  nacked(item, time) \in Item
<1> DEFINE next == IF item.attempts + 1 >= Len(Backoff) THEN ZeroTime
                   ELSE time + Backoff[item.attempts + 1]
<1>1. next \in Nat
  <2>1. item.attempts \in Nat
    BY Zenon DEF Item
  <2>2. Len(Backoff) \in Nat /\ \A i \in 1..Len(Backoff) : Backoff[i] \in Nat
    BY OutboxAssumption
  <2> QED
    BY <2>1, <2>2, SMTT(30), SMTT(30) DEF ZeroTime
<1>2. nacked(item, time) = [item EXCEPT !.attempts = item.attempts + 1, !.lease = ZeroTime,
                                        !.next = next]
  BY Zenon DEF nacked, Item
<1>3. item.attempts + 1 \in Nat
  BY DEF Item
<1> HIDE DEF next
<1>4. ASSUME NEW a \in Nat, NEW n \in Nat
      PROVE  [item EXCEPT !.attempts = a, !.lease = ZeroTime, !.next = n] \in Item
  BY Zenon DEF Item, ZeroTime
<1> QED
  BY <1>1, <1>2, <1>3, <1>4, Zenon

LEMMA FailedKeeps ==
  ASSUME SenderInv, NEW f \in Forwarder, Failed(f), UNCHANGED committed
  PROVE  SenderInv'
<1> DEFINE item == nacked(fwd[f].item, fwd[f].at)
           dest == IF fwd[f].item.attempts + 1 >= Len(Backoff) THEN "dead" ELSE "pending"
           r == [fwd[f] EXCEPT !.pc = "transition", !.dest = dest, !.item = item,
                               !.then = "idle"]
<1>1. /\ Carries(fwd[f]) /\ Shaped(fwd[f])
      /\ fwd[f].pc \in {"sending", "awaiting"}
  BY Zenon DEF SenderInv, Carries, Failed
<1>2. fwd[f].key \in Key /\ fwd[f].item \in Item /\ fwd[f].at \in Nat
  BY <1>1, Zenon DEF Carries, Holding
<1>3. item \in Item /\ dest # "history"
  BY <1>2, NackedOK, Zenon
<1>4. fwd' = [fwd EXCEPT ![f] = r] /\ UNCHANGED <<disk, now>>
  BY <1>1, Zenon DEF Failed
<1>5. Carries(r)
  <2> HIDE DEF item, dest
  <2>1. /\ r.pc = "transition" /\ r.at = fwd[f].at /\ r.todo = fwd[f].todo
        /\ r.key = fwd[f].key /\ r.item = item /\ r.dest = dest
        /\ r.then = "idle" /\ Shaped(r)
    BY <1>1, Zenon DEF Shaped, Fields
  <2> HIDE DEF r
  <2> QED
    BY <1>1, <1>2, <1>3, <2>1, Zenon DEF Carries, Holding
<1> HIDE DEF r
<1> QED
  BY <1>4, <1>5, QuietForwardKeeps, Zenon

-----------------------------------------------------------------------------
\* The steps of a forwarder that write or remove a file.

\* Only an acknowledged item is put into the history.
LEMMA TransitionCommits ==
  ASSUME SenderInv, NEW f \in Forwarder, Transition(f), UNCHANGED committed
  PROVE  SenderInv'
<1> DEFINE k == fwd[f].key
           d == fwd[f].dest
           r == [fwd[f] EXCEPT !.pc = "remove"]
<1>1. Carries(fwd[f]) /\ Shaped(fwd[f]) /\ fwd[f].pc = "transition" /\ UNCHANGED now
  BY Zenon DEF SenderInv, Carries, Transition
<1>2. /\ k \in Key /\ fwd[f].item \in Item
      /\ d = "history" => committed[k] # NoBody
  BY <1>1, Zenon DEF Carries, Holding
<1>3. Carries(r)
  <2>1. /\ r.pc = "remove" /\ r.at = fwd[f].at /\ r.todo = fwd[f].todo
        /\ r.then = fwd[f].then /\ Shaped(r)
    BY <1>1, Zenon DEF Shaped, Fields
  <2> HIDE DEF r
  <2> QED
    BY <1>1, <2>1, Zenon DEF Carries, Holding
<1>4. CASE ~exists(d, k)
  <2>1. disk' = [disk EXCEPT ![d][k] = fwd[f].item] /\ fwd' = [fwd EXCEPT ![f] = r]
    BY <1>1, <1>4, Zenon DEF Transition, put
  <2>2. FileType' /\ HistoryCommitted'
    BY <1>1, <1>2, <2>1, WriteKeeps, Zenon DEF SenderInv
  <2> HIDE DEF r
  <2> QED
    BY <1>3, <2>1, <2>2, ForwarderKeeps, Zenon
<1>5. CASE exists(d, k)
  <2>1. /\ UNCHANGED disk
        /\ \/ fwd' = [fwd EXCEPT ![f] = r]
           \/ fwd' = [fwd EXCEPT ![f] = Idle]
    BY <1>1, <1>5, Zenon DEF Transition
  <2> HIDE DEF r
  <2> QED
    BY <1>1, <1>3, <2>1, IdleCarries, QuietForwardKeeps, Zenon
<1> QED
  BY <1>4, <1>5, Zenon

LEMMA RemovalKeeps ==
  ASSUME SenderInv, NEW d, NEW k, UNCHANGED <<now, committed>>, remove(d, k)
  PROVE  FileType' /\ HistoryCommitted'
BY WriteKeeps, Zenon DEF remove, SenderInv

LEMMA RemoveKeeps ==
  ASSUME SenderInv, NEW f \in Forwarder, Remove(f), UNCHANGED committed
  PROVE  SenderInv'
<1> DEFINE time == IF fwd[f].then = "recover" THEN fwd[f].at ELSE ZeroTime
           r == [Idle EXCEPT !.pc = fwd[f].then, !.at = time, !.todo = fwd[f].todo]
<1>1. Carries(fwd[f]) /\ fwd[f].pc = "remove" /\ UNCHANGED now
  BY Zenon DEF SenderInv, Remove
<1>2. /\ fwd[f].then \in {"recover", "next", "idle"} /\ time \in Nat
      /\ \A k \in DOMAIN fwd[f].todo : k \in Key /\ fwd[f].todo[k] \in Item
  BY <1>1, Zenon DEF Carries, ZeroTime
<1>3. fwd' = [fwd EXCEPT ![f] = r] /\ remove("inflight", fwd[f].key)
  BY Zenon DEF Remove
<1>4. Carries(r)
  <2> HIDE DEF time
  <2> QED
    BY <1>2, IdleExceptCarries, Zenon DEF Holding
<1>5. FileType' /\ HistoryCommitted'
  BY <1>1, <1>3, RemovalKeeps, Zenon
<1> HIDE DEF r
<1> QED
  BY <1>3, <1>4, <1>5, ForwarderKeeps, Zenon

LEMMA ClaimItemKeeps ==
  ASSUME SenderInv, NEW f \in Forwarder, NEW k \in Key, ClaimItem(f, k),
         UNCHANGED committed
  PROVE  SenderInv'
<1> DEFINE item == [fwd[f].todo[k] EXCEPT !.lease = fwd[f].at + Lease]
           r1 == [fwd[f] EXCEPT !.pc = "claimDrop", !.key = k, !.todo = rest(f, k)]
           r2 == [Idle EXCEPT !.pc = "claimRemove", !.at = fwd[f].at, !.key = k,
                              !.item = item]
<1>1. /\ Carries(fwd[f]) /\ Shaped(fwd[f]) /\ fwd[f].pc = "claiming"
      /\ k \in DOMAIN fwd[f].todo /\ UNCHANGED now
  BY Zenon DEF SenderInv, Carries, ClaimItem
<1>2. fwd[f].todo[k] \in Item /\ fwd[f].at \in Nat
  BY <1>1, Zenon DEF Carries
<1>3. item \in Item
  <2>1. fwd[f].at + Lease \in Nat
    BY <1>2, OutboxAssumption
  <2> QED
    BY <1>2, <2>1, Zenon DEF Item
<1>4. CASE exists("inflight", k)
  <2>1. fwd' = [fwd EXCEPT ![f] = r1] /\ UNCHANGED disk
    BY <1>1, <1>4, Zenon DEF ClaimItem
  <2>2. \A j \in DOMAIN rest(f, k) : j \in Key /\ rest(f, k)[j] \in Item
    BY <1>1, RestOK, Zenon
  <2>3. Carries(r1)
    <3>1. /\ r1.pc = "claimDrop" /\ r1.at = fwd[f].at /\ r1.todo = rest(f, k)
          /\ Shaped(r1)
      BY <1>1, Zenon DEF Shaped, Fields
    <3> HIDE DEF r1
    <3> QED
      BY <1>2, <2>2, <3>1, Zenon DEF Carries, Holding
  <2> HIDE DEF r1
  <2> QED
    BY <1>1, <2>1, <2>3, QuietForwardKeeps, Zenon
<1>5. CASE ~exists("inflight", k)
  <2>1. fwd' = [fwd EXCEPT ![f] = r2] /\ disk' = [disk EXCEPT !["inflight"][k] = item]
    BY <1>1, <1>5, Zenon DEF ClaimItem, put
  <2>2. FileType' /\ HistoryCommitted'
    <3> HIDE DEF item
    <3> QED
      BY <1>1, <1>3, <2>1, WriteKeeps, Zenon DEF SenderInv
  <2>3. Carries(r2)
    <3> HIDE DEF item
    <3>1. /\ r2.pc = "claimRemove" /\ r2.at = fwd[f].at /\ r2.todo = NoListing
          /\ r2.key = k /\ r2.item = item /\ Shaped(r2)
      BY Zenon DEF Idle, Shaped, Fields
    <3>2. \A j \in DOMAIN NoListing : FALSE
      BY Zenon DEF NoListing
    <3> HIDE DEF r2
    <3> QED
      BY <1>2, <1>3, <3>1, <3>2, Zenon DEF Carries, Holding
  <2> HIDE DEF r2
  <2> QED
    BY <2>1, <2>2, <2>3, ForwarderKeeps, Zenon
<1> QED
  BY <1>4, <1>5, Zenon

LEMMA ClaimDropKeeps ==
  ASSUME SenderInv, NEW f \in Forwarder, ClaimDrop(f) \/ ClaimRemove(f), UNCHANGED committed
  PROVE  SenderInv'
<1>1. Carries(fwd[f]) /\ Shaped(fwd[f]) /\ UNCHANGED now /\ remove("pending", fwd[f].key)
  BY Zenon DEF SenderInv, Carries, ClaimDrop, ClaimRemove
<1>2. FileType' /\ HistoryCommitted'
  BY <1>1, RemovalKeeps, Zenon
<1>3. CASE ClaimDrop(f)
  <2> DEFINE r == [fwd[f] EXCEPT !.pc = "claiming", !.key = None]
  <2>1. fwd' = [fwd EXCEPT ![f] = r]
    BY <1>1, <1>3, Zenon DEF ClaimDrop
  <2>2. r.pc = "claiming" /\ r.at = fwd[f].at /\ r.todo = fwd[f].todo /\ Shaped(r)
    BY <1>1, Zenon DEF Shaped, Fields
  <2> HIDE DEF r
  <2>3. Carries(r)
    BY <1>1, <2>2, Zenon DEF Carries, Holding
  <2> QED
    BY <1>2, <2>1, <2>3, ForwarderKeeps, Zenon
<1>4. CASE ClaimRemove(f)
  <2> DEFINE r == [fwd[f] EXCEPT !.pc = "send"]
  <2>1. fwd' = [fwd EXCEPT ![f] = r] /\ fwd[f].pc = "claimRemove"
    BY <1>1, <1>4, Zenon DEF ClaimRemove
  <2>2. /\ r.pc = "send" /\ r.at = fwd[f].at /\ r.todo = fwd[f].todo
        /\ r.key = fwd[f].key /\ r.item = fwd[f].item /\ Shaped(r)
    BY <1>1, Zenon DEF Shaped, Fields
  <2> HIDE DEF r
  <2>3. Carries(r)
    BY <1>1, <2>1, <2>2, Zenon DEF Carries, Holding
  <2> QED
    BY <1>2, <2>1, <2>3, ForwarderKeeps, Zenon
<1> QED
  BY <1>3, <1>4, Zenon

-----------------------------------------------------------------------------
\* From the send to the exchange: Send here, and Deliver of the composition.
LEMMA SendingCarries ==
  ASSUME NEW f \in Forwarder, Carries(fwd[f]), fwd[f].pc \in {"send", "sending"},
         NEW pc \in {"sending", "awaiting"}
  PROVE  Carries([fwd[f] EXCEPT !.pc = pc])
<1> DEFINE r == [fwd[f] EXCEPT !.pc = pc]
<1>1. Shaped(fwd[f])
  BY Zenon DEF Carries
<1>2. /\ r.pc = pc /\ r.at = fwd[f].at /\ r.todo = fwd[f].todo
      /\ r.key = fwd[f].key /\ r.item = fwd[f].item /\ Shaped(r)
  BY <1>1, Zenon DEF Shaped, Fields
<1>3. Carries(r)
  <2> HIDE DEF r
  <2> QED
    BY <1>2, Zenon DEF Carries, Holding
<1> QED
  BY <1>3, Zenon

\* Every step of a forwarder before and after the exchange.
LEMMA ForwardKeeps ==
  ASSUME SenderInv, NEW f \in Forwarder, ForwardStep(f), UNCHANGED committed
  PROVE  SenderInv'
<1>1. Carries(fwd[f]) /\ Shaped(fwd[f]) /\ FileType /\ now \in Nat
  BY Zenon DEF SenderInv, Carries, FileType
<1>2. CASE Start(f)
  <2>1. UNCHANGED <<disk, now>> /\ listing("inflight") \in SUBSET listing("inflight")
    BY <1>2, Zenon DEF Start
  <2> DEFINE todo == restricted("inflight", listing("inflight"))
             r == [Idle EXCEPT !.pc = "recover", !.at = now, !.todo = todo]
  <2>2. \/ fwd' = [fwd EXCEPT ![f] = r]
        \/ fwd' = [fwd EXCEPT ![f] = [Idle EXCEPT !.pc = "claim"]]
    BY <1>2, Zenon DEF Start
  <2>3. \A k \in DOMAIN todo : k \in Key /\ todo[k] \in Item
    BY <1>1, <2>1, RestrictedOK, Zenon DEF Dir
  <2>4. Carries(r)
    <3> HIDE DEF todo
    <3> QED
      BY <1>1, <2>3, IdleExceptCarries, Zenon DEF Holding
  <2> HIDE DEF r
  <2> QED
    BY <2>1, <2>2, <2>4, IdleClaims, QuietForwardKeeps, Zenon
<1>3. CASE RecoverDone(f)
  BY <1>3, IdleClaims, QuietForwardKeeps, Zenon DEF RecoverDone
<1>4. CASE Transition(f)
  BY <1>4, TransitionCommits, Zenon
<1>5. CASE Remove(f)
  BY <1>5, RemoveKeeps, Zenon
<1>6. CASE ClaimList(f)
  <2> DEFINE due == {k \in listing("pending") : disk["pending"][k].next <= now}
             todo == restricted("pending", due)
             r == [Idle EXCEPT !.pc = "claiming", !.at = now, !.todo = todo]
  <2>1. fwd' = [fwd EXCEPT ![f] = r] /\ UNCHANGED <<disk, now>>
    BY <1>6, Zenon DEF ClaimList
  <2>2. \A k \in DOMAIN todo : k \in Key /\ todo[k] \in Item
    <3>1. due \in SUBSET listing("pending")
      OBVIOUS
    <3> HIDE DEF due
    <3> QED
      BY <1>1, <3>1, RestrictedOK, Zenon DEF Dir
  <2>3. Carries(r)
    <3> HIDE DEF todo
    <3> QED
      BY <1>1, <2>2, IdleExceptCarries, Zenon DEF Holding
  <2> HIDE DEF r
  <2> QED
    BY <2>1, <2>3, QuietForwardKeeps, Zenon
<1>7. CASE ClaimNone(f) \/ End(f)
  BY <1>7, IdleCarries, QuietForwardKeeps, Zenon DEF ClaimNone, End
<1>8. CASE ClaimDrop(f) \/ ClaimRemove(f)
  BY <1>8, ClaimDropKeeps, Zenon
<1>9. CASE Send(f)
  <2>1. /\ fwd' = [fwd EXCEPT ![f] = [fwd[f] EXCEPT !.pc = "sending"]]
        /\ fwd[f].pc = "send" /\ UNCHANGED <<disk, now>>
    BY <1>9, Zenon DEF Send
  <2>2. Carries([fwd[f] EXCEPT !.pc = "sending"])
    BY <1>1, <2>1, SendingCarries, Zenon
  <2> QED
    BY <2>1, <2>2, QuietForwardKeeps, Zenon
<1>10. ASSUME NEW k \in Key, Recover(f, k) PROVE SenderInv'
  BY <1>10, RecoverKeeps, Zenon
<1>11. ASSUME NEW k \in Key, ClaimItem(f, k) PROVE SenderInv'
  BY <1>11, ClaimItemKeeps, Zenon
<1> QED
  BY <1>2, <1>3, <1>4, <1>5, <1>6, <1>7, <1>8, <1>9, <1>10, <1>11, Zenon DEF ForwardStep

-----------------------------------------------------------------------------
\* The composition.

\* What the receiver does leaves the sender's knowledge true.
LEMMA SenderStays ==
  ASSUME SenderInv, UNCHANGED <<fwd, disk>>, now' \in Nat, RelayAssumption,
         \A k \in DeliveryKey : committed[k] # NoBody => committed'[k] # NoBody
  PROVE  SenderInv'
<1>1. ASSUME NEW f \in Forwarder PROVE Carries(fwd[f])'
  <2>1. Carries(fwd[f]) /\ fwd'[f] = fwd[f]
    BY Zenon DEF SenderInv
  <2> QED
    BY <2>1, RelayAssumption, Zenon DEF Carries, Shaped, Holding
<1>2. FileType' /\ HistoryCommitted'
  BY RelayAssumption, Zenon DEF SenderInv, FileType, HistoryCommitted
<1> QED
  BY <1>1, <1>2, Zenon DEF SenderInv

LEMMA ReceiverStays ==
  ASSUME ReceiverInv, UNCHANGED <<hand, pending, committed, localQueue>>
  PROVE  ReceiverInv'
<1>1. HandShape' /\ StoreType' /\ Receipts'
  BY Zenon DEF ReceiverInv, HandShape, HandFields, StoreType, Receipts
<1>2. ASSUME NEW h \in Handler PROVE Knows(h)'
  BY Zenon DEF ReceiverInv, Knows
<1> QED
  BY <1>1, <1>2, Zenon DEF ReceiverInv

LEMMA SenderStepKeeps ==
  ASSUME RelayInv, SenderStep
  PROVE  RelayInv'
<1>1. UNCHANGED <<hand, pending, committed, localQueue>>
  BY Zenon DEF SenderStep, ingressVars, stores
<1>2. ReceiverInv' /\ SenderInv /\ now \in Nat
  BY <1>1, ReceiverStays, Zenon DEF RelayInv, SenderInv, FileType
<1>3. ASSUME UNCHANGED <<fwd, disk, now>> PROVE SenderInv'
  BY <1>1, <1>2, <1>3, SenderStays, RelayAssumption, Zenon
<1>4. ASSUME NEW n \in Key \cup {"capacity"}, LockAges(n) PROVE SenderInv'
  BY <1>3, <1>4, Zenon DEF LockAges
<1>5. ASSUME NEW p \in Producer,
             EmitStep(p) \/ KillProducer(p) \/ \E k \in Key : Emit(p, k)
      PROVE  SenderInv'
  <2>1. CASE WriteItem(p)
    <3> DEFINE item == [body |-> p, attempts |-> 0, next |-> ZeroTime, lease |-> ZeroTime]
    <3>1. CASE exists("pending", prod[p].key)
      BY <1>3, <2>1, <3>1, Zenon DEF WriteItem
    <3>2. CASE ~exists("pending", prod[p].key)
      <4>1. /\ disk' = [disk EXCEPT !["pending"][prod[p].key] = item]
            /\ UNCHANGED <<fwd, now>>
        BY <2>1, <3>2, Zenon DEF WriteItem, put
      <4>2. item \in Item
        BY Zenon DEF Item, ZeroTime
      <4> HIDE DEF item
      <4>3. FileType' /\ HistoryCommitted'
        BY <1>1, <1>2, <4>1, <4>2, WriteKeeps, Zenon DEF SenderInv
      <4>4. ASSUME NEW f \in Forwarder PROVE Carries(fwd[f])'
        BY <1>1, <1>2, <4>1, Zenon DEF SenderInv, Carries, Shaped
      <4> QED
        BY <1>2, <4>1, <4>3, <4>4, Zenon DEF SenderInv
    <3> QED
      BY <3>1, <3>2, Zenon
  <2>2. CASE \/ Probe(p) \/ Acquire(p) \/ SeesStale(p) \/ Steal(p) \/ LockTimeout(p)
             \/ retryUsage(p) \/ Release(p) \/ KillProducer(p) \/ \E k \in Key : Emit(p, k)
    <3>1. UNCHANGED <<fwd, disk, now>>
      BY <2>2, Zenon DEF Probe, Acquire, SeesStale, Steal, LockTimeout, retryUsage, Release,
                  KillProducer, Emit
    <3> QED
      BY <1>3, <3>1, Zenon
  <2> QED
    BY <1>5, <2>1, <2>2, Zenon DEF EmitStep
<1>6. ASSUME NEW f \in Forwarder, ForwardStep(f) \/ Failed(f) \/ KillForwarder(f)
      PROVE  SenderInv'
  <2>1. CASE ForwardStep(f)
    BY <1>1, <1>2, <2>1, ForwardKeeps, Zenon
  <2>2. CASE Failed(f)
    BY <1>1, <1>2, <2>2, FailedKeeps, Zenon
  <2>3. CASE KillForwarder(f)
    BY <1>1, <1>2, <2>3, IdleCarries, QuietForwardKeeps, Zenon DEF KillForwarder
  <2> QED
    BY <1>6, <2>1, <2>2, <2>3, Zenon
<1> QED
  BY <1>2, <1>4, <1>5, <1>6, Zenon DEF SenderStep, RelayInv

LEMMA ReceiverStepKeeps ==
  ASSUME RelayInv, ReceiverStep
  PROVE  RelayInv'
<1>1. UNCHANGED <<fwd, disk, now>> /\ ReceiverInv /\ SenderInv /\ now \in Nat
  BY Zenon DEF ReceiverStep, outboxVars, RelayInv, SenderInv, FileType
<1>2. ASSUME ReceiverInv',
             \A k \in DeliveryKey : committed[k] # NoBody => committed'[k] # NoBody
      PROVE  RelayInv'
  BY <1>1, <1>2, SenderStays, RelayAssumption, Zenon DEF RelayInv
<1>3. CASE Crash
  <2>1. hand' = [h \in Handler |-> Free] /\ UNCHANGED <<pending, committed, localQueue>>
    BY <1>3, Zenon DEF Crash, stores
  <2>2. HandShape'
    BY <2>1, Zenon DEF HandShape, HandFields, Free
  <2>3. StoreType' /\ Receipts'
    BY <1>1, <2>1, Zenon DEF ReceiverInv, StoreType, Receipts
  <2>4. ASSUME NEW h \in Handler PROVE Knows(h)'
    <3>1. hand'[h] = Free
      BY <2>1, Zenon
    <3>2. Free.pc = "free"
      BY Zenon DEF Free
    <3> QED
      BY <3>1, <3>2, Zenon DEF Knows
  <2> QED
    BY <1>2, <2>1, <2>2, <2>3, <2>4, Zenon DEF ReceiverInv
<1>4. ASSUME NEW k \in Key, ReceiptLockAges(k) PROVE RelayInv'
  BY <1>1, <1>2, <1>4, ReceiverStays, Zenon DEF ReceiptLockAges
<1>5. ASSUME NEW h \in Handler, AcceptStep(h) PROVE RelayInv'
  BY <1>1, <1>2, <1>5, AcceptKeeps, Zenon
<1>6. ASSUME NEW h \in Handler, ReplyLost(h) PROVE RelayInv'
  BY <1>1, <1>2, <1>6, FreeHandler, Zenon DEF ReplyLost, stores
<1> QED
  BY <1>3, <1>4, <1>5, <1>6, Zenon DEF ReceiverStep

\* A request carries the key and the body of the item the forwarder holds.
LEMMA DeliverKeeps ==
  ASSUME RelayInv, NEW f \in Forwarder, NEW h \in Handler, Deliver(f, h)
  PROVE  RelayInv'
<1> DEFINE req == [Free EXCEPT !.pc = "verify", !.key = fwd[f].key,
                     !.body = fwd[f].item.body, !.sentAt = prod[fwd[f].item.body].sentAt,
                     !.from = f, !.exchange = sends[fwd[f].key]]
<1>1. /\ ReceiverInv /\ SenderInv /\ Carries(fwd[f]) /\ fwd[f].pc = "sending"
      /\ UNCHANGED <<disk, now, pending, committed, localQueue>>
  BY Zenon DEF RelayInv, SenderInv, Deliver, Arrive, stores
<1>2. fwd[f].key \in DeliveryKey /\ fwd[f].item.body \in Body
  BY <1>1, RelayAssumption, Zenon DEF Carries, Holding, Item
<1>3. hand' = [g \in Handler |-> IF g = h THEN req ELSE hand[g]]
  BY <1>1, Zenon DEF Deliver, Arrive, ReceiverInv, HandShape, HandFields
<1>4. /\ req.pc = "verify" /\ req.key = fwd[f].key /\ req.body = fwd[f].item.body
      /\ req = [x \in HandFields |-> req[x]]
  BY Zenon DEF Free, HandFields
<1> HIDE DEF req
<1>5. HandShape'
  BY <1>1, <1>3, <1>4, Zenon DEF ReceiverInv, HandShape, HandFields
<1>6. StoreType' /\ Receipts'
  BY <1>1, Zenon DEF ReceiverInv, StoreType, Receipts
<1>7. ASSUME NEW g \in Handler PROVE Knows(g)'
  <2>1. CASE g = h
    <3>1. hand'[g] = req
      BY <1>3, <2>1, Zenon
    <3> QED
      BY <1>2, <1>4, <3>1, Zenon DEF Knows
  <2>2. CASE g # h
    <3>1. hand'[g] = hand[g]
      BY <1>3, <2>2, Zenon
    <3> QED
      BY <1>1, <3>1, Zenon DEF ReceiverInv, Knows
  <2> QED
    BY <2>1, <2>2, Zenon
<1>8. SenderInv'
  <2>1. fwd' = [fwd EXCEPT ![f] = [fwd[f] EXCEPT !.pc = "awaiting"]]
    BY Zenon DEF Deliver
  <2>2. Carries([fwd[f] EXCEPT !.pc = "awaiting"])
    BY <1>1, SendingCarries, Zenon
  <2> QED
    BY <1>1, <2>1, <2>2, QuietForwardKeeps, Zenon
<1> QED
  BY <1>5, <1>6, <1>7, <1>8, Zenon DEF RelayInv, ReceiverInv

\* A reply belongs to the item of the exchange it answers.
LEMMA ReplyKeeps ==
  ASSUME RelayInv, NEW f \in Forwarder, NEW h \in Handler, Reply(f, h)
  PROVE  RelayInv'
<1>1. /\ ReceiverInv /\ SenderInv /\ Knows(h) /\ hand[h].key = fwd[f].key
      /\ hand' = [hand EXCEPT ![h] = Free]
      /\ UNCHANGED <<pending, committed, localQueue>>
  BY Zenon DEF RelayInv, ReceiverInv, Reply, isReply, stores
<1>2. ReceiverInv'
  BY <1>1, FreeHandler, Zenon
<1>3. CASE hand[h].pc = "ack" /\ Acked(f)
  <2>1. committed[fwd[f].key] # NoBody
    BY <1>1, <1>3, IngressAssumption, Zenon DEF Knows
  <2> QED
    BY <1>1, <1>2, <1>3, <2>1, AckedKeeps, Zenon DEF RelayInv
<1>4. CASE Failed(f)
  BY <1>1, <1>2, <1>4, FailedKeeps, Zenon DEF RelayInv
<1> QED
  BY <1>3, <1>4, Zenon DEF Reply

LEMMA RelayInit_Inv == RelayInit => RelayInv
<1> SUFFICES ASSUME RelayInit PROVE RelayInv
  OBVIOUS
<1>1. HandShape /\ StoreType /\ Receipts
  BY Zenon DEF RelayInit, IngressInit, HandShape, HandFields, Free, StoreType, Receipts
<1>2. ASSUME NEW h \in Handler PROVE Knows(h)
  <2>1. hand[h] = Free /\ Free.pc = "free"
    BY Zenon DEF RelayInit, IngressInit, Free
  <2> QED
    BY <2>1, Zenon DEF Knows
<1>3. FileType /\ HistoryCommitted /\ fwd = [f \in Forwarder |-> fwd[f]]
  BY Zenon DEF RelayInit, OutboxInit, FileType, HistoryCommitted, Dir
<1>4. ASSUME NEW f \in Forwarder PROVE Carries(fwd[f])
  BY IdleCarries, Zenon DEF RelayInit, OutboxInit
<1> QED
  BY <1>1, <1>2, <1>3, <1>4, Zenon DEF RelayInv, ReceiverInv, SenderInv

LEMMA RelayNext_Inv == RelayInv /\ [RelayNext]_relayVars => RelayInv'
<1> SUFFICES ASSUME RelayInv, [RelayNext]_relayVars PROVE RelayInv'
  OBVIOUS
<1>1. ReceiverInv /\ SenderInv /\ now \in Nat
  BY Zenon DEF RelayInv, SenderInv, FileType
<1>2. ASSUME UNCHANGED <<fwd, disk, hand, pending, committed, localQueue>>, now' \in Nat
      PROVE  RelayInv'
  BY <1>1, <1>2, SenderStays, ReceiverStays, RelayAssumption, Zenon DEF RelayInv
<1>3. CASE RelayTick
  <2>1. /\ UNCHANGED <<fwd, disk, hand, pending, committed, localQueue>>
        /\ now' = now + 1
    BY <1>3, Zenon DEF RelayTick, Tick, ingressVars, stores
  <2> QED
    BY <1>1, <1>2, <2>1
<1>4. CASE SenderStep
  BY <1>4, SenderStepKeeps, Zenon
<1>5. CASE ReceiverStep
  BY <1>5, ReceiverStepKeeps, Zenon
<1>6. ASSUME NEW b \in Body, Clean(b) PROVE RelayInv'
  BY <1>1, <1>2, <1>6, Zenon DEF Clean, Cleanup, outboxVars
<1>7. ASSUME NEW f \in Forwarder, NEW h \in Handler, Deliver(f, h) \/ Reply(f, h)
      PROVE  RelayInv'
  BY <1>7, DeliverKeeps, ReplyKeeps, Zenon
<1>8. CASE UNCHANGED relayVars
  BY <1>1, <1>2, <1>8, Zenon DEF relayVars, outboxVars, ingressVars, stores
<1> QED
  BY <1>3, <1>4, <1>5, <1>6, <1>7, <1>8, Zenon DEF RelayNext

\* The relay never has an acknowledgement, on its way or in the outbox, of a
\* delivery whose receipt or whose event in the host's queue is not durable.
THEOREM AcknowledgementIsDurable == RelaySpec => []AcknowledgedIsDurable
<1>1. RelayInv => AcknowledgedIsDurable
  <2> SUFFICES ASSUME RelayInv, NEW k \in Key,
                      \/ exists("history", k)
                      \/ \E h \in Handler : hand[h].key = k /\ hand[h].pc = "ack"
               PROVE  committed[k] # NoBody /\ localQueue[k] = committed[k]
    BY Zenon DEF AcknowledgedIsDurable
  <2>1. committed[k] # NoBody
    <3>1. CASE exists("history", k)
      BY <3>1, Zenon DEF RelayInv, SenderInv, HistoryCommitted, exists
    <3>2. ASSUME NEW h \in Handler, hand[h].key = k, hand[h].pc = "ack"
          PROVE  committed[k] # NoBody
      BY <3>2, IngressAssumption, Zenon DEF RelayInv, ReceiverInv, Knows
    <3> QED
      BY <3>1, <3>2, Zenon
  <2> QED
    BY <2>1, RelayAssumption, Zenon DEF RelayInv, ReceiverInv, Receipts
<1> QED
  BY <1>1, RelayInit_Inv, RelayNext_Inv, PTL DEF RelaySpec

-----------------------------------------------------------------------------
\* The rest is about one forwarder, for which the invariant of the outbox holds.

Signed(b) == prod[b].pc # "start"

\* What is in the outbox was signed by a producer, and what is under way was sent.
Authors ==
  /\ \A d \in Dir, k \in Key : exists(d, k) => Signed(disk[d][k].body)
  /\ \A f \in Forwarder : fwd[f].pc \in Holding => Signed(fwd[f].item.body)
  /\ \A f \in Forwarder : fwd[f].pc \in {"sending", "awaiting"} =>
       fwd[f].item.body \in sent[fwd[f].key]
  /\ \A k \in Key : \A b \in sent[k] : Signed(b)
  /\ \A p \in Producer : Signed(p) => prod[p].sentAt \in Nat /\ prod[p].sentAt <= now

\* A request was sent by the outbox, and its handler, once it has read the clock,
\* is done before the clock goes on.
Requested(h) ==
  /\ hand[h].pc # "free" =>
       /\ hand[h].key \in Key /\ hand[h].body \in Producer
       /\ hand[h].body \in sent[hand[h].key] /\ Stored(hand[h].key)
       /\ Signed(hand[h].body) /\ hand[h].sentAt = prod[hand[h].body].sentAt
  /\ hand[h].pc \notin {"free", "verify", "ack", "refused"} =>
       hand[h].at = now /\ now <= hand[h].sentAt + MaxSkew
  /\ hand[h].pc # "expired"

\* The record of a nonce outlives the time stamp of its body.
Nonces ==
  /\ nonce \in [Body -> Nat]
  /\ \A b \in Body : nonce[b] # 0 =>
       b \in Producer /\ Signed(b) /\ prod[b].sentAt + MaxSkew < nonce[b]

\* No further request with this body gets past the nonce.
Used(b) == nonce[b] # 0 \/ prod[b].sentAt + MaxSkew < now

Past == {"lock", "steal", "committed", "pending", "enqueue"}
PastNonce(h, k) == hand[h].pc \in Past /\ hand[h].key = k

Once(k) ==
  /\ \A h \in Handler : PastNonce(h, k) => enqueues[k] = 0 /\ Used(hand[h].body)
  /\ \A g, h \in Handler : PastNonce(g, k) /\ PastNonce(h, k) => g = h
  /\ enqueues[k] # 0 => sent[k] # {} /\ \A b \in sent[k] : Used(b)
  /\ enqueues[k] <= 1

OnceInv ==
  /\ OutboxInv /\ RelayInv /\ Authors
  /\ \A h \in Handler : Requested(h)
  /\ Nonces /\ enqueues \in [Key -> Nat]
  /\ \A k \in Key : ~Unlocked(k) => Once(k)


-----------------------------------------------------------------------------


-----------------------------------------------------------------------------
\* What a step of the outbox is news of.

SameNews(x) ==
  /\ Stored(x)' <=> Stored(x)
  /\ exists("history", x)' <=> exists("history", x)
  /\ exists("dead", x)' <=> exists("dead", x)

\* k is new in the outbox.
Accepts(k) ==
  /\ ~Stored(k) /\ Stored(k)'
  /\ exists("history", k)' <=> exists("history", k)
  /\ exists("dead", k)' <=> exists("dead", k)
  /\ \A x \in Key \ {k} : SameNews(x)

\* k gets its acknowledgement, or is given up.
Settles(k) ==
  /\ Stored(k) /\ Stored(k)' /\ (Unlocked(k) \/ ~Settled(k))
  /\ \/ /\ exists("history", k)' /\ committed[k] # NoBody
        /\ exists("dead", k)' <=> exists("dead", k)
     \/ /\ exists("dead", k)'
        /\ exists("history", k)' <=> exists("history", k)
  /\ \A x \in Key \ {k} : SameNews(x)

LEMMA PutNews ==
  ASSUME DiskType, NEW d \in Dir, NEW k \in Key, NEW v \in Item \cup {None},
         disk' = [disk EXCEPT ![d][k] = v]
  PROVE  /\ exists(d, k)' <=> v # None
         /\ \A e \in Dir \ {d} : exists(e, k)' <=> exists(e, k)
         /\ \A x \in Key \ {k} : SameNews(x)
<1>1. /\ disk'[d][k] = v
      /\ \A e \in Dir, x \in Key : e # d \/ x # k => disk'[e][x] = disk[e][x]
  <2> DEFINE g == [disk[d] EXCEPT ![k] = v]
  <2>1. disk = [e \in Dir |-> disk[e]] /\ disk[d] = [x \in Key |-> disk[d][x]]
    BY Zenon DEF DiskType
  <2>2. g[k] = v /\ \A x \in Key : x # k => g[x] = disk[d][x]
    BY <2>1, Zenon
  <2>3. disk' = [disk EXCEPT ![d] = g]
    OBVIOUS
  <2> HIDE DEF g
  <2> QED
    BY <2>1, <2>2, <2>3, Zenon
<1>2. \A e \in Dir, x \in Key : e # d \/ x # k => (exists(e, x)' <=> exists(e, x))
  BY <1>1, Zenon DEF exists
<1>3. ASSUME NEW x \in Key \ {k} PROVE SameNews(x)
  <2>1. \A e \in Dir : exists(e, x)' <=> exists(e, x)
    BY <1>2, Zenon
  <2> QED
    BY <2>1, Zenon DEF SameNews, Stored, Dir
<1>4. exists(d, k)' <=> v # None
  BY <1>1, Zenon DEF exists
<1>5. \A e \in Dir \ {d} : exists(e, k)' <=> exists(e, k)
  BY <1>2, Zenon
<1> QED
  BY <1>3, <1>4, <1>5, Zenon

\* A file in pending or inflight comes or goes, and another copy is there.
LEMMA MoveNews ==
  ASSUME DiskType, NEW d \in {"pending", "inflight"}, NEW k \in Key, NEW v \in Item \cup {None},
         disk' = [disk EXCEPT ![d][k] = v], NEW e \in Dir \ {d}, exists(e, k)
  PROVE  \A x \in Key : SameNews(x)
<1>1. d \in Dir
  BY Zenon DEF Dir
<1>2. /\ exists(d, k)' <=> v # None
      /\ \A c \in Dir \ {d} : exists(c, k)' <=> exists(c, k)
      /\ \A x \in Key \ {k} : SameNews(x)
  BY <1>1, PutNews, Zenon
<1>3. Stored(k) /\ Stored(k)'
  BY <1>2, Zenon DEF Stored
<1>4. SameNews(k)
  BY <1>2, <1>3, Zenon DEF SameNews, Dir
<1> QED
  BY <1>2, <1>4, Zenon


\* A forwarder's file operations.
LEMMA ForwarderNews ==
  ASSUME OutboxInv, RelayInv, NEW f \in Forwarder,
         ForwardStep(f) \/ Acked(f) \/ Failed(f) \/ KillForwarder(f)
  PROVE  (\A x \in Key : SameNews(x)) \/ \E k \in Key : Settles(k)
<1>1. ForwarderOK(fwd[f]) /\ DiskType /\ Carries(fwd[f])
  BY Zenon DEF OutboxInv, OutboxType, RelayInv, SenderInv
<1>2. ASSUME UNCHANGED disk PROVE \A x \in Key : SameNews(x)
  BY <1>2, Zenon DEF SameNews, Stored, exists
<1>3. CASE Transition(f)
  <2>1. /\ fwd[f].pc = "transition" /\ fwd[f].key \in Key /\ exists("inflight", fwd[f].key)
        /\ fwd[f].dest \in {"pending", "history", "dead"} /\ fwd[f].item \in Item
        /\ fwd[f].dest = "history" => committed[fwd[f].key] # NoBody
    BY <1>1, <1>3, Zenon DEF Transition, ForwarderOK, Carries
  <2>2. PICK k \in Key, d \in {"pending", "history", "dead"}, v \in Item :
          k = fwd[f].key /\ d = fwd[f].dest /\ v = fwd[f].item
    BY <2>1, Zenon
  <2>3. CASE UNCHANGED disk
    BY <1>2, <2>3, Zenon
  <2>4. CASE ~exists(d, k) /\ disk' = [disk EXCEPT ![d][k] = v]
    <3>1. d \in Dir /\ v \in Item \cup {None} /\ v # None /\ "inflight" \in Dir \ {d}
      BY <2>2, OutboxAssumption, Zenon DEF Dir
    <3>2. /\ exists(d, k)' <=> v # None
          /\ \A e \in Dir \ {d} : exists(e, k)' <=> exists(e, k)
          /\ \A x \in Key \ {k} : SameNews(x)
      BY <1>1, <2>4, <3>1, PutNews, Zenon
    <3>3. CASE d = "pending"
      BY <1>1, <2>1, <2>2, <2>4, <3>1, <3>3, MoveNews, Zenon
    <3>4. CASE d # "pending"
      <4>1. Stored(k) /\ Stored(k)'
        BY <2>1, <2>2, <3>1, <3>2, Zenon DEF Stored
      <4>2. Unlocked(k) \/ ~Settled(k)
        <5>1. ~Unlocked(k) => Handles(fwd[f], k)
          BY Zenon DEF OutboxInv, ItemInv
        <5>2. fwd[f].then # "recover"
          BY <1>1, <2>1, <2>2, <3>4, Zenon DEF ForwarderOK
        <5> QED
          BY <2>1, <2>2, <5>1, <5>2, Zenon DEF Handles, Holds
      <4>3. CASE d = "history"
        BY <2>1, <2>2, <3>1, <3>2, <4>1, <4>2, <4>3, Zenon DEF Settles, Dir
      <4>4. CASE d = "dead"
        BY <2>2, <3>1, <3>2, <4>1, <4>2, <4>4, Zenon DEF Settles, Dir
      <4> QED
        BY <3>4, <4>3, <4>4, Zenon
    <3> QED
      BY <3>3, <3>4, Zenon
  <2> QED
    BY <1>3, <2>2, <2>3, <2>4, Zenon DEF Transition, put
<1>4. CASE Remove(f)
  <2>1. /\ disk' = [disk EXCEPT !["inflight"][fwd[f].key] = None]
        /\ fwd[f].key \in Key /\ \E d \in {"pending", "history", "dead"} : exists(d, fwd[f].key)
    BY <1>1, <1>4, Zenon DEF Remove, remove, ForwarderOK
  <2>2. PICK k \in Key, d \in Dir \ {"inflight"} : k = fwd[f].key /\ exists(d, k)
    BY <2>1, Zenon DEF Dir
  <2> QED
    BY <1>1, <2>1, <2>2, MoveNews, Zenon
<1>5. CASE ClaimDrop(f) \/ ClaimRemove(f)
  <2>1. /\ disk' = [disk EXCEPT !["pending"][fwd[f].key] = None]
        /\ fwd[f].key \in Key /\ exists("inflight", fwd[f].key)
    BY <1>1, <1>5, Zenon DEF ClaimDrop, ClaimRemove, remove, ForwarderOK
  <2>2. PICK k \in Key, d \in Dir \ {"pending"} : k = fwd[f].key /\ exists(d, k)
    BY <2>1, Zenon DEF Dir
  <2> QED
    BY <1>1, <2>1, <2>2, MoveNews, Zenon
<1>6. ASSUME NEW k \in Key, ClaimItem(f, k) PROVE \A x \in Key : SameNews(x)
  <2>1. CASE UNCHANGED disk
    BY <1>2, <2>1, Zenon
  <2>2. CASE put("inflight", k, [fwd[f].todo[k] EXCEPT !.lease = fwd[f].at + Lease])
    <3>1. /\ fwd[f].at \in Nat /\ fwd[f].todo[k] \in Item /\ "pending" \in Dir \ {"inflight"}
          /\ exists("pending", k)
      BY <1>1, <1>6, Zenon DEF ClaimItem, Carries, ForwarderOK, Lists, exists, Dir
    <3>2. PICK v \in Item \cup {None} : disk' = [disk EXCEPT !["inflight"][k] = v]
      <4>1. PICK i \in Item, t \in Nat : i = fwd[f].todo[k] /\ t = fwd[f].at + Lease
        BY <3>1, OutboxAssumption
      <4>2. [i EXCEPT !.lease = t] \in Item
        BY ONLY i \in Item, t \in Nat, Zenon DEF Item
      <4> QED
        BY <2>2, <4>1, <4>2, Zenon DEF put
    <3> QED
      BY <1>1, <3>1, <3>2, MoveNews, Zenon
  <2> QED
    BY <1>6, <2>1, <2>2, Zenon DEF ClaimItem
<1>7. CASE \/ Start(f) \/ RecoverDone(f) \/ ClaimList(f) \/ ClaimNone(f) \/ Send(f) \/ End(f)
           \/ Acked(f) \/ Failed(f) \/ KillForwarder(f) \/ \E k \in Key : Recover(f, k)
  BY <1>2, <1>7, Zenon DEF Start, RecoverDone, ClaimList, ClaimNone, Send, End, Acked, Failed,
                    KillForwarder, Recover
<1> QED
  BY <1>3, <1>4, <1>5, <1>6, <1>7, Zenon DEF ForwardStep

\* A producer's file operation.
LEMMA ProducerNews ==
  ASSUME OutboxInv, NEW p \in Producer,
         EmitStep(p) \/ KillProducer(p) \/ \E k \in Key : Emit(p, k)
  PROVE  (\A x \in Key : SameNews(x)) \/ \E k \in Key : Accepts(k)
<1>1. ASSUME UNCHANGED disk PROVE \A x \in Key : SameNews(x)
  BY <1>1, Zenon DEF SameNews, Stored, exists
<1>2. CASE WriteItem(p)
  <2>1. prod[p].key \in Key /\ DiskType
    BY <1>2, Zenon DEF WriteItem, OutboxInv, OutboxType, ProdOK
  <2>2. CASE UNCHANGED disk
    BY <1>1, <2>2, Zenon
  <2>3. ASSUME put("pending", prod[p].key,
                   [body |-> p, attempts |-> 0, next |-> ZeroTime, lease |-> ZeroTime])
        PROVE  (\A x \in Key : SameNews(x)) \/ \E k \in Key : Accepts(k)
    <3>1. PICK k \in Key, v \in Item :
            k = prod[p].key /\ disk' = [disk EXCEPT !["pending"][k] = v]
      BY <2>1, <2>3, Zenon DEF put, Item, ZeroTime
    <3>2. v # None /\ v \in Item \cup {None} /\ "pending" \in Dir
      BY OutboxAssumption, Zenon DEF Dir
    <3>3. /\ exists("pending", k)' <=> v # None
          /\ \A e \in Dir \ {"pending"} : exists(e, k)' <=> exists(e, k)
          /\ \A x \in Key \ {k} : SameNews(x)
      BY <2>1, <3>1, <3>2, PutNews, Zenon
    <3>4. Stored(k)'
      BY <3>2, <3>3, Zenon DEF Stored
    <3>5. CASE Stored(k)
      <4>1. SameNews(k)
        BY <3>3, <3>4, <3>5, Zenon DEF SameNews, Dir
      <4> QED
        BY <3>3, <4>1, Zenon
    <3>6. CASE ~Stored(k)
      BY <3>3, <3>4, <3>6, Zenon DEF Accepts, Dir
    <3> QED
      BY <3>5, <3>6, Zenon
  <2> QED
    BY <1>2, <2>2, <2>3, Zenon DEF WriteItem
<1>3. CASE \/ Probe(p) \/ Acquire(p) \/ SeesStale(p) \/ Steal(p) \/ LockTimeout(p)
           \/ retryUsage(p) \/ Release(p) \/ KillProducer(p) \/ \E k \in Key : Emit(p, k)
  BY <1>1, <1>3, Zenon DEF Probe, Acquire, SeesStale, Steal, LockTimeout, retryUsage, Release,
                    KillProducer, Emit
<1> QED
  BY <1>2, <1>3, Zenon DEF EmitStep


-----------------------------------------------------------------------------
\* The promise of a delivery, step by step.

LEMMA SamePromise ==
  ASSUME \A x \in Key : SameNews(x), UNCHANGED localQueue
  PROVE  UNCHANGED Promise!vars
BY Zenon DEF Promise!vars, SameNews, Stored, listing

LEMMA PromiseAccepts ==
  ASSUME NEW k \in Key, Accepts(k), UNCHANGED localQueue
  PROVE  Promise!Accept(k)
BY Zenon DEF Promise!Accept, Accepts, SameNews, Stored, listing

LEMMA PromiseSettles ==
  ASSUME RelayInv, NEW k \in Key, Settles(k), UNCHANGED localQueue
  PROVE  Promise!Acknowledge(k) \/ Promise!GiveUp(k) \/ Unlocked(k)
<1>1. committed[k] # NoBody => localQueue[k] # NoBody
  BY RelayAssumption, Zenon DEF RelayInv, ReceiverInv, Receipts
<1>2. \A x \in Key \ {k} :
        /\ Stored(x)' <=> Stored(x)
        /\ exists("history", x)' <=> exists("history", x)
        /\ exists("dead", x)' <=> exists("dead", x)
  BY Zenon DEF Settles, SameNews
<1>3. Stored(k) /\ Stored(k)'
  BY Zenon DEF Settles
<1>4. CASE /\ ~Settled(k) /\ exists("history", k)' /\ committed[k] # NoBody
           /\ exists("dead", k)' <=> exists("dead", k)
  BY <1>1, <1>2, <1>3, <1>4, Zenon DEF Promise!Acknowledge, Settled, Stored, listing
<1>5. CASE /\ ~Settled(k) /\ exists("dead", k)'
           /\ exists("history", k)' <=> exists("history", k)
  BY <1>2, <1>3, <1>5, Zenon DEF Promise!GiveUp, Settled, Stored, listing
<1> QED
  BY <1>4, <1>5, Zenon DEF Settles

\* The first event of a key enters the queue; every further one finds it there.
LEMMA PromiseDelivers ==
  ASSUME RelayInv, NEW h \in Handler, Requested(h), Enqueue(h), UNCHANGED disk
  PROVE  (\E k \in Key : Promise!Deliver(k)) \/ UNCHANGED Promise!vars
<1>1. /\ hand[h].key \in Key /\ Stored(hand[h].key) /\ hand[h].body # NoBody
      /\ localQueue \in [Key -> Body \cup {NoBody}]
  BY RelayAssumption, IngressAssumption, Zenon
     DEF Requested, Enqueue, at, RelayInv, ReceiverInv, StoreType
<1>2. PICK k \in Key, b \in Body : k = hand[h].key /\ b = hand[h].body /\ b # NoBody
  BY <1>1, RelayAssumption, Zenon DEF Requested, Enqueue, at
<1>3. localQueue' = [localQueue EXCEPT ![k] = IF localQueue[k] = NoBody THEN b ELSE localQueue[k]]
  BY <1>2, Zenon DEF Enqueue, key, body
<1>4. CASE localQueue[k] = NoBody
  <2>1. localQueue'[k] # NoBody /\ \A x \in Key \ {k} : localQueue'[x] = localQueue[x]
    BY <1>1, <1>2, <1>3, <1>4, Zenon
  <2>2. Promise!Deliver(k)
    BY <1>1, <1>2, <1>4, <2>1 DEF Promise!Deliver, Stored, exists, listing
  <2> QED
    BY <1>2, <2>2, Zenon
<1>5. CASE localQueue[k] # NoBody
  <2>1. UNCHANGED localQueue
    BY <1>1, <1>3, <1>5, Zenon
  <2> QED
    BY <2>1, Zenon DEF Promise!vars, exists, listing
<1> QED
  BY <1>4, <1>5, Zenon

LEMMA PromiseSteps ==
  ASSUME OutboxInv, RelayInv, \A h \in Handler : Requested(h), [RelayNext]_relayVars
  PROVE  [Promise!Next \/ \E k \in Key : Unlocked(k)]_(Promise!vars)
<1>1. ASSUME UNCHANGED <<disk, localQueue>> PROVE UNCHANGED Promise!vars
  BY <1>1, Zenon DEF Promise!vars, exists, listing
<1>2. ASSUME NEW f \in Forwarder, UNCHANGED localQueue,
             ForwardStep(f) \/ Acked(f) \/ Failed(f) \/ KillForwarder(f)
      PROVE  [Promise!Next \/ \E k \in Key : Unlocked(k)]_(Promise!vars)
  <2>1. CASE \A x \in Key : SameNews(x)
    BY <1>2, <2>1, SamePromise, Zenon
  <2>2. ASSUME NEW k \in Key, Settles(k)
        PROVE  Promise!Next \/ \E x \in Key : Unlocked(x)
    BY <1>2, <2>2, PromiseSettles, Zenon DEF Promise!Next
  <2> QED
    BY <1>2, <2>1, <2>2, ForwarderNews, Zenon
<1>3. ASSUME NEW p \in Producer, UNCHANGED localQueue,
             EmitStep(p) \/ KillProducer(p) \/ \E k \in Key : Emit(p, k)
      PROVE  [Promise!Next]_(Promise!vars)
  <2>1. CASE \A x \in Key : SameNews(x)
    BY <1>3, <2>1, SamePromise, Zenon
  <2>2. ASSUME NEW k \in Key, Accepts(k) PROVE Promise!Next
    BY <1>3, <2>2, PromiseAccepts, Zenon DEF Promise!Next
  <2> QED
    BY <1>3, <2>1, <2>2, ProducerNews, Zenon
<1>4. CASE RelayTick
  BY <1>1, <1>4, Zenon DEF RelayTick, Tick, ingressVars, stores
<1>5. CASE SenderStep
  <2>1. UNCHANGED localQueue
    BY <1>5, Zenon DEF SenderStep, ingressVars, stores
  <2>2. ASSUME NEW n \in Key \cup {"capacity"}, LockAges(n) PROVE UNCHANGED disk
    BY <2>2, Zenon DEF LockAges
  <2> QED
    BY <1>1, <1>2, <1>3, <1>5, <2>1, <2>2, Zenon DEF SenderStep
<1>6. CASE ReceiverStep
  <2>1. UNCHANGED disk
    BY <1>6, Zenon DEF ReceiverStep, outboxVars
  <2>2. CASE Crash \/ (\E k \in Key : ReceiptLockAges(k)) \/ \E h \in Handler : ReplyLost(h)
    BY <1>1, <2>1, <2>2, Zenon DEF Crash, ReceiptLockAges, ReplyLost, stores
  <2>3. ASSUME NEW h \in Handler, Enqueue(h) PROVE [Promise!Next]_(Promise!vars)
    BY <2>1, <2>3, PromiseDelivers, Zenon DEF Promise!Next
  <2>4. ASSUME NEW h \in Handler, AcceptStep(h), ~Enqueue(h) PROVE UNCHANGED localQueue
    BY <2>4, Zenon DEF AcceptStep, VerifyPeer, LookupCommitted, NonceAccept, NonceRemove, ReceiptAcquire,
                ReceiptSteal, ReadCommitted, PendingReceipt, EnqueueFails, Commit, RemovePending,
                ReceiptRelease, stores
  <2> QED
    BY <1>1, <1>6, <2>1, <2>2, <2>3, <2>4, Zenon DEF ReceiverStep
<1>7. ASSUME NEW b \in Body, Clean(b) PROVE UNCHANGED Promise!vars
  BY <1>1, <1>7, Zenon DEF Clean, Cleanup, outboxVars
<1>8. ASSUME NEW f \in Forwarder, NEW h \in Handler, Deliver(f, h) PROVE UNCHANGED Promise!vars
  BY <1>1, <1>8, Zenon DEF Deliver, Arrive, stores
<1>9. ASSUME NEW f \in Forwarder, NEW h \in Handler, Reply(f, h)
      PROVE  [Promise!Next \/ \E k \in Key : Unlocked(k)]_(Promise!vars)
  BY <1>2, <1>9, Zenon DEF Reply, stores
<1>10. CASE UNCHANGED relayVars
  BY <1>1, <1>10, Zenon DEF relayVars, outboxVars, ingressVars, stores
<1> QED
  BY <1>4, <1>5, <1>6, <1>7, <1>8, <1>9, <1>10, Zenon DEF RelayNext


-----------------------------------------------------------------------------
\* What grows: nothing that was sent, stored or signed is forgotten.

Grows ==
  /\ stolen \subseteq stolen' /\ now' \in Nat /\ now <= now'
  /\ \A k \in Key : sent[k] \subseteq sent'[k] /\ (Stored(k) => Stored(k)')
  /\ \A p \in Producer : Signed(p) => Signed(p)' /\ prod'[p].sentAt = prod[p].sentAt

\* The files and the sends, apart from the producers.
LEMMA AuthorsStay ==
  ASSUME Authors, Grows, OutboxInv,
         \A d \in Dir, k \in Key : exists(d, k)' =>
           \/ exists(d, k) /\ disk'[d][k] = disk[d][k]
           \/ disk'[d][k].body \in Producer /\ Signed(disk[d][k].body)',
         \A f \in Forwarder : fwd'[f].pc \in Holding =>
           fwd'[f].item.body \in Producer /\ Signed(fwd[f].item.body)',
         \A f \in Forwarder : fwd'[f].pc \in {"sending", "awaiting"} =>
           fwd'[f].item.body \in sent'[fwd'[f].key],
         \A k \in Key : \A b \in sent'[k] : b \in sent[k] \/ Signed(b)',
         \A p \in Producer : Signed(p)' => Signed(p) \/ prod'[p].sentAt = now
  PROVE  Authors'
<1>1. /\ \A d \in Dir, k \in Key : exists(d, k) => disk[d][k].body \in Producer
      /\ \A k \in Key : sent[k] \subseteq Producer
      /\ now \in Nat
  <2>1. \A d \in Dir, k \in Key : disk[d][k] # None => disk[d][k] \in Item
    BY Zenon DEF OutboxInv, OutboxType, DiskType
  <2> QED
    BY <2>1, Zenon DEF OutboxInv, OutboxType, DiskType, exists, Item
<1>2. \A d \in Dir, k \in Key : exists(d, k)' => Signed(disk[d][k].body)'
  <2> SUFFICES ASSUME NEW d \in Dir, NEW k \in Key, exists(d, k)'
               PROVE  Signed(disk[d][k].body)'
    OBVIOUS
  <2>1. CASE exists(d, k) /\ disk'[d][k] = disk[d][k]
    <3>1. PICK b \in Producer : b = disk[d][k].body /\ b = disk'[d][k].body /\ Signed(b)
      BY <1>1, <2>1, ZenonT(30) DEF Authors
    <3>2. Signed(b)'
      BY <3>1, Zenon DEF Grows
    <3> QED
      BY <3>1, <3>2, Zenon DEF Signed
  <2> QED
    BY <2>1, Zenon
<1>3. \A k \in Key : \A b \in sent'[k] : Signed(b)'
  BY <1>1, Zenon DEF Grows, Authors
<1>4. \A p \in Producer : Signed(p)' => prod'[p].sentAt \in Nat /\ prod'[p].sentAt <= now'
  BY <1>1 DEF Grows, Authors
<1>5. \A f \in Forwarder : fwd'[f].pc \in Holding => Signed(fwd[f].item.body)'
  OBVIOUS
<1> QED
  BY <1>2, <1>3, <1>4, <1>5, Zenon DEF Authors, exists, Signed

Signs(b) == b \in Producer /\ Signed(b)

\* What f's step may change.
LEMMA ForwarderAuthors ==
  ASSUME Authors, OutboxInv, NEW f \in Forwarder, UNCHANGED <<stolen, now>>,
         \A g \in Forwarder \ {f} : fwd'[g] = fwd[g],
         \A p \in Producer : prod'[p].pc = prod[p].pc /\ prod'[p].sentAt = prod[p].sentAt,
         \A k \in Key : Stored(k) => Stored(k)',
         \A d \in Dir, k \in Key : exists(d, k)' =>
           (exists(d, k) /\ disk'[d][k] = disk[d][k]) \/ Signs(disk'[d][k].body),
         fwd'[f].pc \in Holding => Signs(fwd'[f].item.body),
         fwd'[f].pc \in {"sending", "awaiting"} => fwd'[f].item.body \in sent'[fwd'[f].key],
         \A k \in Key : sent[k] \subseteq sent'[k] /\ \A b \in sent'[k] : b \in sent[k] \/ Signs(b)
  PROVE  Grows /\ Authors'
<1>1. Grows
  BY DEF Grows, Signed, OutboxInv, OutboxType, DiskType
<1>2. \A b : Signs(b) => Signed(b)'
  BY Zenon DEF Signs, Signed
<1>3. \A d \in Dir, k \in Key : exists(d, k)' =>
        \/ exists(d, k) /\ disk'[d][k] = disk[d][k]
        \/ disk'[d][k].body \in Producer /\ Signed(disk[d][k].body)'
  BY <1>2, Zenon DEF Signs, Signed
<1>4. ASSUME NEW g \in Forwarder
      PROVE  /\ fwd'[g].pc \in Holding => fwd'[g].item.body \in Producer /\ Signed(fwd[g].item.body)'
             /\ fwd'[g].pc \in {"sending", "awaiting"} => fwd'[g].item.body \in sent'[fwd'[g].key]
  <2>1. CASE g = f
    BY <1>2, <2>1, Zenon DEF Signs, Signed
  <2>2. CASE g # f
    <3>1. fwd'[g] = fwd[g] /\ ForwarderOK(fwd[g])
      BY <2>2, Zenon DEF OutboxInv, OutboxType
    <3>2. fwd[g].pc \in Holding => Signs(fwd[g].item.body)
      <4>1. fwd[g].pc \in Holding => fwd[g].item \in Item
        BY <3>1, Zenon DEF ForwarderOK, Holding, Exchange
      <4> QED
        BY <4>1, Zenon DEF Authors, Signs, Item
    <3>3. fwd[g].pc \in {"sending", "awaiting"} =>
            fwd[g].key \in Key /\ fwd[g].item.body \in sent[fwd[g].key]
      BY <3>1, Zenon DEF ForwarderOK, Exchange, Authors
    <3> QED
      BY <1>2, <3>1, <3>2, <3>3, Zenon DEF Signs, Signed
  <2> QED
    BY <2>1, <2>2, Zenon
<1>5. \A k \in Key : \A b \in sent'[k] : b \in sent[k] \/ Signed(b)'
  BY <1>2, Zenon
<1>6. \A p \in Producer : Signed(p)' => Signed(p) \/ prod'[p].sentAt = now
  BY Zenon DEF Signed
<1> QED
  BY <1>1, <1>3, <1>4, <1>5, <1>6, AuthorsStay, Zenon


\* A producer that has signed goes on with the same time stamp.
LEMMA ProducerMoves ==
  ASSUME OutboxInv, NEW p \in Producer, EmitStep(p) \/ KillProducer(p) \/ \E k \in Key : Emit(p, k)
  PROVE  /\ \A q \in Producer \ {p} : prod'[q] = prod[q]
         /\ prod'[p].pc # "start"
         /\ prod'[p].sentAt = IF prod[p].pc = "start" THEN now ELSE prod[p].sentAt
<1>1. /\ prod = [q \in Producer |-> prod[q]] /\ ProdOK(prod[p])
      /\ prod[p] = [x \in ProdFields |-> prod[p][x]]
  BY Zenon DEF OutboxInv, OutboxType, ProdOK
<1>2. ASSUME NEW r, prod' = [prod EXCEPT ![p] = r] PROVE prod'[p] = r /\ \A q \in Producer \ {p} : prod'[q] = prod[q]
  BY <1>1, <1>2, Zenon
<1>3. CASE prod[p].pc = "start"
  <2>1. PICK k \in Key : Emit(p, k)
    BY <1>3, Zenon DEF EmitStep, Probe, Acquire, SeesStale, Steal, LockTimeout, retryUsage, WriteItem, Release,
                KillProducer, AtRest
  <2> DEFINE r == [prod[p] EXCEPT !.pc = "lookup", !.key = k, !.sentAt = now]
  <2>2. r.pc = "lookup" /\ r.sentAt = now
    BY <1>1, Zenon DEF ProdFields
  <2>3. prod' = [prod EXCEPT ![p] = r]
    BY <2>1, Zenon DEF Emit
  <2> HIDE DEF r
  <2> QED
    BY <1>2, <1>3, <2>2, <2>3, ZenonT(30)
<1>4. CASE prod[p].pc # "start"
  <2>1. ASSUME NEW x, x # "start", goto(p, x)
        PROVE  /\ \A q \in Producer \ {p} : prod'[q] = prod[q]
               /\ prod'[p].pc # "start" /\ prod'[p].sentAt = prod[p].sentAt
    <3> DEFINE r == [prod[p] EXCEPT !.pc = x, !.probe = 1]
    <3>1. r.pc = x /\ r.sentAt = prod[p].sentAt
      BY <1>1, Zenon DEF ProdFields
    <3>2. prod' = [prod EXCEPT ![p] = r]
      BY <2>1, Zenon DEF goto
    <3> HIDE DEF r
    <3> QED
      BY <1>2, <2>1, <3>1, <3>2, Zenon
  <2>2. ASSUME NEW x, x # "start", NEW res, finish(p, x, res)
        PROVE  /\ \A q \in Producer \ {p} : prod'[q] = prod[q]
               /\ prod'[p].pc # "start" /\ prod'[p].sentAt = prod[p].sentAt
    <3> DEFINE r == [prod[p] EXCEPT !.pc = x, !.probe = 1, !.result = res]
    <3>1. r.pc = x /\ r.sentAt = prod[p].sentAt
      BY <1>1, Zenon DEF ProdFields
    <3>2. prod' = [prod EXCEPT ![p] = r]
      BY <2>2, Zenon DEF finish
    <3> HIDE DEF r
    <3> QED
      BY <1>2, <2>2, <3>1, <3>2, Zenon
  <2>3. ASSUME NEW n, NEW u, prod' = [prod EXCEPT ![p].probe = n, ![p].used = u]
        PROVE  /\ \A q \in Producer \ {p} : prod'[q] = prod[q]
               /\ prod'[p].pc # "start" /\ prod'[p].sentAt = prod[p].sentAt
    <3> DEFINE r == [prod[p] EXCEPT !.probe = n, !.used = u]
    <3>1. r.pc = prod[p].pc /\ r.sentAt = prod[p].sentAt
      BY <1>1, Zenon DEF ProdFields
    <3>2. prod' = [prod EXCEPT ![p] = r]
      BY <2>3, Zenon
    <3> HIDE DEF r
    <3> QED
      BY <1>2, <1>4, <3>1, <3>2, Zenon
  <2>4. ASSUME NEW n, prod' = [prod EXCEPT ![p].probe = n]
        PROVE  /\ \A q \in Producer \ {p} : prod'[q] = prod[q]
               /\ prod'[p].pc # "start" /\ prod'[p].sentAt = prod[p].sentAt
    <3> DEFINE r == [prod[p] EXCEPT !.probe = n]
    <3>1. r.pc = prod[p].pc /\ r.sentAt = prod[p].sentAt
      BY <1>1, Zenon DEF ProdFields
    <3>2. prod' = [prod EXCEPT ![p] = r]
      BY <2>4, Zenon
    <3> HIDE DEF r
    <3> QED
      BY <1>2, <1>4, <3>1, <3>2, Zenon
  <2>5. CASE Probe(p)
    <3>1. ASSUME NEW d, Found(p, d)
          PROVE  (\E x : x # "start" /\ goto(p, x)) \/ \E x, res : x # "start" /\ finish(p, x, res)
      BY <2>5, <3>1, Zenon DEF Probe, Found
    <3>2. NotFound(p) => \E x : x # "start" /\ goto(p, x)
      BY <2>5, Zenon DEF Probe, NotFound
    <3> QED
      BY <1>4, <2>1, <2>2, <2>4, <2>5, <3>1, <3>2, Zenon DEF Probe
  <2>6. CASE Acquire(p) \/ SeesStale(p) \/ Steal(p) \/ KillProducer(p)
    <3>1. \E x : x # "start" /\ goto(p, x)
      BY <2>6, Zenon DEF Acquire, SeesStale, Steal, KillProducer
    <3> QED
      BY <1>4, <2>1, <3>1, Zenon
  <2>7. CASE LockTimeout(p)
    BY <1>4, <2>1, <2>2, <2>7, Zenon DEF LockTimeout
  <2>8. CASE retryUsage(p)
    BY <1>4, <2>1, <2>2, <2>3, <2>8, Zenon DEF retryUsage
  <2>9. CASE WriteItem(p)
    BY <1>4, <2>2, <2>9, Zenon DEF WriteItem
  <2>10. CASE Release(p)
    <3>1. \E x : x # "start" /\ goto(p, x)
      BY <1>1, <2>10, Zenon DEF Release, ProdOK
    <3> QED
      BY <1>4, <2>1, <3>1, Zenon
  <2>11. ASSUME NEW k \in Key, Emit(p, k) PROVE FALSE
    BY <1>4, <2>11, Zenon DEF Emit
  <2> QED
    BY <2>5, <2>6, <2>7, <2>8, <2>9, <2>10, <2>11, Zenon DEF EmitStep
<1> QED
  BY <1>3, <1>4, Zenon

LEMMA ProducerSigns ==
  ASSUME OutboxInv, Authors, NEW p \in Producer,
         EmitStep(p) \/ KillProducer(p) \/ \E k \in Key : Emit(p, k)
  PROVE  Grows /\ Authors'
<1>1. UNCHANGED <<fwd, now, sent>> /\ stolen \subseteq stolen'
  BY Zenon DEF EmitStep, Probe, Acquire, SeesStale, Steal, LockTimeout, retryUsage, WriteItem, Release,
         KillProducer, Emit
<1>2. \A k \in Key : Stored(k) => Stored(k)'
  BY ProducerNews, Zenon DEF SameNews, Accepts
<1>3. \A q \in Producer : Signed(q) => Signed(q)' /\ prod'[q].sentAt = prod[q].sentAt
  BY ProducerMoves, Zenon DEF Signed
<1>4. \A q \in Producer : Signed(q)' => Signed(q) \/ prod'[q].sentAt = now
  BY ProducerMoves, Zenon DEF Signed
<1>5. Grows
  BY <1>1, <1>2, <1>3 DEF Grows, OutboxInv, OutboxType, DiskType
<1>6. Signed(p)'
  BY ProducerMoves, Zenon DEF Signed
<1>7. \A d \in Dir, k \in Key : exists(d, k)' =>
        \/ exists(d, k) /\ disk'[d][k] = disk[d][k]
        \/ disk'[d][k].body \in Producer /\ Signed(disk[d][k].body)'
  <2>1. CASE UNCHANGED disk
    BY <2>1, Zenon DEF exists
  <2>2. ASSUME NEW v, v.body = p, disk' = [disk EXCEPT !["pending"][prod[p].key] = v]
        PROVE  \A d \in Dir, k \in Key :
                 \/ disk'[d][k] = disk[d][k]
                 \/ disk'[d][k].body \in Producer /\ Signed(disk[d][k].body)'
    <3>1. \A d \in Dir, k \in Key : disk'[d][k] = disk[d][k] \/ disk'[d][k] = v
      BY <2>2, Zenon DEF OutboxInv, OutboxType, DiskType
    <3> QED
      BY <1>6, <2>2, <3>1, Zenon DEF Signed
  <2>3. CASE WriteItem(p)
    BY <2>1, <2>2, <2>3 DEF WriteItem, put, exists
  <2>4. CASE ~WriteItem(p)
    BY <2>1, <2>4, Zenon DEF EmitStep, Probe, Acquire, SeesStale, Steal, LockTimeout, retryUsage, Release,
                      KillProducer, Emit
  <2> QED
    BY <2>3, <2>4, Zenon
<1>8. ASSUME NEW f \in Forwarder
      PROVE  /\ fwd'[f].pc \in Holding => fwd'[f].item.body \in Producer /\ Signed(fwd[f].item.body)'
             /\ fwd'[f].pc \in {"sending", "awaiting"} => fwd'[f].item.body \in sent'[fwd'[f].key]
  <2>1. fwd[f].pc \in Holding => fwd[f].item \in Item
    BY Zenon DEF OutboxInv, OutboxType, ForwarderOK, Holding, Exchange
  <2>2. fwd[f].pc \in Holding => fwd[f].item.body \in Producer /\ Signed(fwd[f].item.body)
    BY <2>1, Zenon DEF Authors, Item
  <2> QED
    BY <1>1, <1>3, <2>2, Zenon DEF Authors, Signed
<1> QED
  BY <1>1, <1>4, <1>5, <1>7, <1>8, AuthorsStay, Zenon


-----------------------------------------------------------------------------
\* The handlers.

Clocked(h) == hand[h].pc \notin {"free", "verify", "ack", "refused"}

\* A handler's own step: it keeps its request, reads the clock once, and gets past
\* the nonce only by recording it.
Handled(h) ==
  /\ \A g \in Handler \ {h} : hand'[g] = hand[g]
  /\ hand'[h].key = hand[h].key /\ hand'[h].body = hand[h].body
  /\ hand'[h].sentAt = hand[h].sentAt
  /\ hand[h].pc \notin {"free", "ack", "refused"} /\ hand'[h].pc \notin {"free", "verify"}
  /\ \/ Clocked(h) /\ hand'[h].at = hand[h].at
     \/ /\ hand[h].pc = "verify" /\ hand'[h].at = now
        /\ hand'[h].pc \in {"lookup", "refused"}
        /\ hand'[h].pc = "lookup" => ~(hand[h].sentAt + MaxSkew < now)
  /\ hand'[h].pc = "expired" =>
       hand[h].pc = "nonce" /\ nonce[hand[h].body] # 0 /\ nonce[hand[h].body] <= hand[h].at
  /\ hand'[h].pc \in Past =>
       hand[h].pc \in Past \/ (hand[h].pc = "nonce" /\ nonce[hand[h].body] = 0)

LEMMA HandlerGoes ==
  ASSUME HandShape, NEW h \in Handler, Clocked(h), NEW pc, pc \notin {"free", "verify"},
         goes(h, pc) \/ (pc = "release" /\ \E res : releases(h, res)),
         pc = "expired" =>
           hand[h].pc = "nonce" /\ nonce[hand[h].body] # 0 /\ nonce[hand[h].body] <= hand[h].at,
         pc \in Past => hand[h].pc \in Past \/ (hand[h].pc = "nonce" /\ nonce[hand[h].body] = 0)
  PROVE  Handled(h)
<1>1. PICK r : /\ hand' = [hand EXCEPT ![h] = r] /\ r.pc = pc /\ r.key = hand[h].key
               /\ r.body = hand[h].body /\ r.sentAt = hand[h].sentAt /\ r.at = hand[h].at
  <2>1. hand[h] = [x \in HandFields |-> hand[h][x]]
    BY Zenon DEF HandShape
  <2>2. CASE goes(h, pc)
    <3> DEFINE q == [hand[h] EXCEPT !.pc = pc]
    <3>1. /\ q.pc = pc /\ q.key = hand[h].key /\ q.body = hand[h].body
          /\ q.sentAt = hand[h].sentAt /\ q.at = hand[h].at
      BY <2>1, Zenon DEF HandFields
    <3>2. hand' = [hand EXCEPT ![h] = q]
      BY <2>2, Zenon DEF goes
    <3> HIDE DEF q
    <3> QED
      BY <3>1, <3>2, Zenon
  <2>3. ASSUME pc = "release", NEW res, releases(h, res)
        PROVE  \E r : /\ hand' = [hand EXCEPT ![h] = r] /\ r.pc = pc /\ r.key = hand[h].key
                      /\ r.body = hand[h].body /\ r.sentAt = hand[h].sentAt /\ r.at = hand[h].at
    <3> DEFINE q == [hand[h] EXCEPT !.pc = "release", !.result = res]
    <3>1. /\ q.pc = "release" /\ q.key = hand[h].key /\ q.body = hand[h].body
          /\ q.sentAt = hand[h].sentAt /\ q.at = hand[h].at
      BY <2>1, Zenon DEF HandFields
    <3>2. hand' = [hand EXCEPT ![h] = q]
      BY <2>3, Zenon DEF releases
    <3> HIDE DEF q
    <3> QED
      BY <2>3, <3>1, <3>2, Zenon
  <2> QED
    BY <2>2, <2>3, Zenon
<1>2. hand'[h] = r /\ \A g \in Handler \ {h} : hand'[g] = hand[g]
  BY <1>1, Zenon DEF HandShape
<1> QED
  BY <1>1, <1>2, Zenon DEF Handled, Clocked

LEMMA AcceptHandles ==
  ASSUME RelayInv, NEW h \in Handler, AcceptStep(h)
  PROVE  Handled(h)
<1>1. HandShape /\ hand[h] = [x \in HandFields |-> hand[h][x]]
  BY Zenon DEF RelayInv, ReceiverInv, HandShape
<1>2. CASE VerifyPeer(h)
  <2> DEFINE pc == IF hand[h].sentAt + MaxSkew < now \/ hand[h].sentAt > now + MaxSkew
                   THEN "refused" ELSE "lookup"
             r == [hand[h] EXCEPT !.at = now, !.pc = pc]
  <2>1. hand[h].pc = "verify" /\ hand' = [hand EXCEPT ![h] = r]
    BY <1>2, Zenon DEF VerifyPeer, at
  <2>2. pc \in {"lookup", "refused"} /\ (pc = "lookup" => ~(hand[h].sentAt + MaxSkew < now))
    OBVIOUS
  <2> HIDE DEF pc
  <2>3. /\ r.pc = pc /\ r.at = now /\ r.key = hand[h].key /\ r.body = hand[h].body
        /\ r.sentAt = hand[h].sentAt
    BY <1>1, Zenon DEF HandFields
  <2> HIDE DEF r
  <2>4. hand'[h] = r /\ \A g \in Handler \ {h} : hand'[g] = hand[g]
    BY <1>1, <2>1, Zenon DEF HandShape
  <2> QED
    BY <2>1, <2>2, <2>3, <2>4, Zenon DEF Handled, Past
<1>3. CASE LookupCommitted(h)
  <2>1. Clocked(h) /\ \E pc \in {"ack", "nonce", "refused"} : goes(h, pc)
    BY <1>3, Zenon DEF LookupCommitted, at, Clocked
  <2> QED
    BY <1>1, <2>1, HandlerGoes, Zenon DEF Past
<1>4. CASE NonceAccept(h)
  <2>1. Clocked(h) /\ hand[h].pc = "nonce"
    BY <1>4, Zenon DEF NonceAccept, at, Clocked
  <2>2. CASE nonce[hand[h].body] = 0 /\ goes(h, "lock")
    BY <1>1, <2>1, <2>2, HandlerGoes
  <2>3. CASE nonce[hand[h].body] # 0 /\ nonce[hand[h].body] <= hand[h].at /\ goes(h, "expired")
    BY <1>1, <2>1, <2>3, HandlerGoes DEF Past
  <2>4. CASE goes(h, "lookupAgain")
    BY <1>1, <2>1, <2>4, HandlerGoes DEF Past
  <2> QED
    BY <1>4, <2>2, <2>3, <2>4, Zenon DEF NonceAccept, body
<1>5. CASE NonceRemove(h)
  <2>1. Clocked(h) /\ goes(h, "nonce")
    BY <1>5, Zenon DEF NonceRemove, at, Clocked
  <2> QED
    BY <1>1, <2>1, HandlerGoes DEF Past
<1>6. CASE ReceiptAcquire(h) \/ ReceiptSteal(h)
  <2>1. /\ Clocked(h) /\ hand[h].pc \in Past
        /\ \E pc \in {"committed", "steal", "refused", "lock"} : goes(h, pc)
    BY <1>6, Zenon DEF ReceiptAcquire, ReceiptSteal, at, Clocked, Past
  <2> QED
    BY <1>1, <2>1, HandlerGoes, Zenon
<1>7. CASE ReadCommitted(h)
  <2>1. /\ Clocked(h) /\ hand[h].pc \in Past
        /\ goes(h, "pending") \/ \E res : releases(h, res)
    BY <1>7, Zenon DEF ReadCommitted, at, Clocked, Past
  <2>2. CASE goes(h, "pending")
    BY <1>1, <2>1, <2>2, HandlerGoes
  <2>3. CASE \E res : releases(h, res)
    BY <1>1, <2>1, <2>3, HandlerGoes
  <2> QED
    BY <2>1, <2>2, <2>3, Zenon
<1>8. CASE PendingReceipt(h)
  <2>1. /\ Clocked(h) /\ hand[h].pc \in Past
        /\ goes(h, "enqueue") \/ \E res : releases(h, res)
    BY <1>8, Zenon DEF PendingReceipt, at, Clocked, Past
  <2>2. CASE goes(h, "enqueue")
    BY <1>1, <2>1, <2>2, HandlerGoes
  <2>3. CASE \E res : releases(h, res)
    BY <1>1, <2>1, <2>3, HandlerGoes
  <2> QED
    BY <2>1, <2>2, <2>3, Zenon
<1>9. CASE Enqueue(h) \/ Commit(h)
  <2>1. Clocked(h) /\ ((\E pc \in {"commit", "unpend"} : goes(h, pc)) \/ \E res : releases(h, res))
    BY <1>9, Zenon DEF Enqueue, Commit, at, Clocked
  <2>2. CASE \E pc \in {"commit", "unpend"} : goes(h, pc)
    BY <1>1, <2>1, <2>2, HandlerGoes, Zenon DEF Past
  <2>3. CASE \E res : releases(h, res)
    BY <1>1, <2>1, <2>3, HandlerGoes DEF Past
  <2> QED
    BY <2>1, <2>2, <2>3, Zenon
<1>10. CASE EnqueueFails(h) \/ RemovePending(h)
  <2>1. Clocked(h) /\ \E res : releases(h, res)
    BY <1>10, Zenon DEF EnqueueFails, RemovePending, at, Clocked
  <2> QED
    BY <1>1, <2>1, HandlerGoes DEF Past
<1>11. CASE ReceiptRelease(h)
  <2>1. Clocked(h) /\ \E pc \in {"ack", "refused"} : goes(h, pc)
    <3>1. hand[h].pc = "release" /\ hand[h].result \in {"ack", "refused"} /\ goes(h, hand[h].result)
      BY <1>11, Zenon DEF ReceiptRelease, at, RelayInv, ReceiverInv, Knows
    <3> QED
      BY <3>1, Zenon DEF Clocked, goes
  <2> QED
    BY <1>1, <2>1, HandlerGoes, Zenon DEF Past
<1> QED
  BY <1>2, <1>3, <1>4, <1>5, <1>6, <1>7, <1>8, <1>9, <1>10, <1>11, Zenon DEF AcceptStep


-----------------------------------------------------------------------------
\* The nonces, and what they say of the calls of Queue.Enqueue.

\* A record is new, or it is as it was; one that is gone was out of date.
Renewed ==
  /\ nonce' \in [Body -> Nat]
  /\ \A b \in Body : nonce'[b] # 0 =>
       \/ nonce'[b] = nonce[b]
       \/ b \in Producer /\ Signed(b) /\ prod[b].sentAt + MaxSkew < nonce'[b]
  /\ \A b \in Body : nonce[b] # 0 => nonce'[b] # 0 \/ nonce[b] <= now

LEMMA NoncesStay ==
  ASSUME Nonces, Grows, Renewed
  PROVE  Nonces'
<1> SUFFICES ASSUME NEW b \in Body, nonce'[b] # 0
             PROVE  b \in Producer /\ Signed(b)' /\ prod'[b].sentAt + MaxSkew < nonce'[b]
  BY Zenon DEF Nonces, Renewed
<1>1. b \in Producer /\ Signed(b) /\ prod[b].sentAt + MaxSkew < nonce'[b]
  BY Zenon DEF Renewed, Nonces
<1>2. Signed(b)' /\ prod'[b].sentAt = prod[b].sentAt
  BY <1>1, Zenon DEF Grows
<1> QED
  BY <1>1, <1>2, Zenon

LEMMA UsedStays ==
  ASSUME OutboxInv, Nonces, Authors, Grows, Renewed, NEW b \in Producer, Signed(b), Used(b)
  PROVE  Used(b)'
<1>1. /\ b \in Body /\ prod'[b].sentAt = prod[b].sentAt /\ prod[b].sentAt \in Nat
      /\ now \in Nat /\ now' \in Nat /\ now <= now' /\ MaxSkew \in Nat /\ nonce[b] \in Nat
  BY RelayAssumption, IngressAssumption, Zenon DEF Grows, Authors, Nonces, OutboxInv, OutboxType, DiskType
<1>2. CASE nonce[b] # 0
  <2>1. CASE nonce'[b] # 0
    BY <2>1, Zenon DEF Used
  <2>2. CASE nonce[b] <= now
    <3>1. prod[b].sentAt + MaxSkew < nonce[b]
      BY <1>1, <1>2, Zenon DEF Nonces
    <3>2. prod[b].sentAt + MaxSkew < now'
      BY <1>1, <2>2, <3>1
    <3> QED
      BY <1>1, <3>2, Zenon DEF Used
  <2> QED
    BY <1>1, <1>2, <2>1, <2>2, Zenon DEF Renewed
<1>3. CASE prod[b].sentAt + MaxSkew < now
  <2>1. prod[b].sentAt + MaxSkew < now'
    BY <1>1, <1>3
  <2> QED
    BY <1>1, <2>1, Zenon DEF Used
<1> QED
  BY <1>2, <1>3, Zenon DEF Used

LEMMA RequestStays ==
  ASSUME Grows, NEW h \in Handler, Requested(h), hand'[h] = hand[h], now' = now \/ ~Clocked(h)
  PROVE  Requested(h)'
<1>1. PICK r : r = hand[h] /\ r = hand'[h]
  OBVIOUS
<1>2. r.pc # "free" =>
        /\ r.key \in Key /\ r.body \in Producer /\ r.body \in sent[r.key] /\ Stored(r.key)
        /\ Signed(r.body) /\ r.sentAt = prod[r.body].sentAt
  BY <1>1, Zenon DEF Requested
<1>3. r.pc # "free" =>
        /\ r.body \in sent'[r.key] /\ Stored(r.key)'
        /\ Signed(r.body)' /\ r.sentAt = prod'[r.body].sentAt
  <2> SUFFICES ASSUME r.pc # "free"
               PROVE  /\ r.body \in sent'[r.key] /\ Stored(r.key)'
                      /\ Signed(r.body)' /\ r.sentAt = prod'[r.body].sentAt
    OBVIOUS
  <2>1. PICK k \in Key, b \in Producer : k = r.key /\ b = r.body
    BY <1>2, Zenon
  <2>2. b \in sent'[k] /\ Stored(k)' /\ Signed(b)' /\ prod'[b].sentAt = prod[b].sentAt
    BY <1>2, <2>1, Zenon DEF Grows
  <2> QED
    BY <1>2, <2>1, <2>2, Zenon
<1>4. /\ r.pc \notin {"free", "verify", "ack", "refused"} => r.at = now' /\ now' <= r.sentAt + MaxSkew
      /\ r.pc # "expired"
  BY <1>1, Zenon DEF Requested, Clocked
<1> QED
  BY <1>1, <1>2, <1>3, <1>4, Zenon DEF Requested

\* What is known of a handler that is past the nonce.
LEMMA PastKnows ==
  ASSUME OnceInv, NEW h \in Handler, hand[h].pc \in Past
  PROVE  /\ hand[h].key \in Key /\ hand[h].body \in Producer /\ Signed(hand[h].body)
         /\ hand[h].body \in sent[hand[h].key]
BY Zenon DEF OnceInv, Requested, Past

\* The bodies a key was sent with are one, and stay used.
LEMMA SentIsUsed ==
  ASSUME OnceInv, OutboxInv', Grows, Renewed, NEW k \in Key, ~Unlocked(k)',
         NEW b \in sent[k], Used(b)
  PROVE  sent'[k] # {} /\ \A c \in sent'[k] : Used(c)'
<1>1. b \in Producer /\ Signed(b)
  BY Zenon DEF OnceInv, OutboxInv, OutboxType, DiskType, Authors
<1>2. Used(b)'
  BY <1>1, UsedStays, Zenon DEF OnceInv
<1>3. b \in sent'[k]
  BY Zenon DEF Grows
<1>4. \A c, d \in sent'[k] : c = d
  BY Zenon DEF OutboxInv, ItemInv, OneBody
<1> QED
  BY <1>2, <1>3, <1>4, Zenon

LEMMA OnceStays ==
  ASSUME OnceInv, OutboxInv', Grows, Renewed, NEW k \in Key, ~Unlocked(k)',
         \A g \in Handler : PastNonce(g, k)' => PastNonce(g, k) /\ hand'[g].body = hand[g].body,
         enqueues'[k] = enqueues[k]
  PROVE  Once(k)'
<1>1. Once(k)
  BY Zenon DEF OnceInv, Grows, Unlocked
<1>2. ASSUME NEW g \in Handler, PastNonce(g, k)'
      PROVE  enqueues'[k] = 0 /\ Used(hand[g].body)'
  <2>1. PastNonce(g, k) /\ hand'[g].body = hand[g].body
    BY <1>2, Zenon
  <2>2. PICK b \in Producer : b = hand[g].body /\ b = hand'[g].body /\ Signed(b)
    BY <2>1, PastKnows, Zenon DEF PastNonce
  <2>3. Used(b)'
    BY <1>1, <2>1, <2>2, UsedStays, Zenon DEF OnceInv, Once
  <2> QED
    BY <1>1, <2>1, <2>2, <2>3, Zenon DEF Once, Used
<1>3. enqueues'[k] # 0 => sent'[k] # {} /\ \A b \in sent'[k] : Used(b)'
  BY <1>1, SentIsUsed, Zenon DEF Once
<1> QED
  BY <1>1, <1>2, <1>3, Zenon DEF Once

\* A step that does not bring a handler past the nonce, or to the queue.
LEMMA OnceAround ==
  ASSUME OnceInv, OutboxInv', RelayInv', Grows, Authors', Renewed, UNCHANGED enqueues,
         \A g \in Handler : \/ hand'[g] = hand[g] /\ (now' = now \/ ~Clocked(g))
                            \/ Requested(g)' /\ hand'[g].pc \notin Past
  PROVE  OnceInv'
<1>1. Nonces'
  BY NoncesStay, Zenon DEF OnceInv
<1>2. ASSUME NEW g \in Handler PROVE Requested(g)'
  BY RequestStays, Zenon DEF OnceInv
<1>3. ASSUME NEW k \in Key, ~Unlocked(k)' PROVE Once(k)'
  <2>1. \A g \in Handler : PastNonce(g, k)' => PastNonce(g, k) /\ hand'[g].body = hand[g].body
    BY Zenon DEF PastNonce
  <2>2. enqueues'[k] = enqueues[k]
    OBVIOUS
  <2> QED
    BY <1>3, <2>1, <2>2, OnceStays, Zenon
<1> QED
  BY <1>1, <1>2, <1>3, Zenon DEF OnceInv


LEMMA OutboxStays ==
  ASSUME OnceInv, UNCHANGED outboxVars
  PROVE  Grows /\ Authors'
<1>1. UNCHANGED <<disk, fwd, prod, stolen, now, sent>>
  BY Zenon DEF outboxVars
<1>2. now \in Nat
  BY Zenon DEF OnceInv, OutboxInv, OutboxType, DiskType
<1>3. Grows
  BY <1>1, <1>2 DEF Grows, Stored, exists, Signed
<1>4. Authors'
  BY <1>1, Zenon DEF OnceInv, Authors, exists, Signed
<1> QED
  BY <1>3, <1>4, Zenon

\* With one clock a record does not run out while a request with its nonce is
\* still in time, so NonceRemove is never reached.
LEMMA AcceptRequested ==
  ASSUME OnceInv, UNCHANGED outboxVars, NEW h \in Handler, AcceptStep(h), NEW g \in Handler
  PROVE  Requested(g)'
<1>1. Grows /\ UNCHANGED now /\ Requested(g) /\ Requested(h) /\ Handled(h)
  BY OutboxStays, AcceptHandles, Zenon DEF OnceInv, outboxVars
<1>2. CASE g # h
  BY <1>1, <1>2, RequestStays, Zenon DEF Handled
<1>3. CASE g = h
  <2>1. PICK k \in Key, b \in Producer :
          /\ k = hand[h].key /\ k = hand'[h].key /\ b = hand[h].body /\ b = hand'[h].body
          /\ b \in sent[k] /\ Stored(k) /\ Signed(b)
          /\ hand[h].sentAt = prod[b].sentAt /\ hand'[h].sentAt = prod[b].sentAt
    BY <1>1, Zenon DEF Handled, Requested
  <2>2. b \in sent'[k] /\ Stored(k)' /\ Signed(b)' /\ prod'[b].sentAt = prod[b].sentAt
    BY <1>1, <2>1, Zenon DEF Grows
  <2>3. /\ now \in Nat /\ MaxSkew \in Nat /\ prod[b].sentAt \in Nat
        /\ b \in Body /\ nonce[b] \in Nat
    BY <2>1, RelayAssumption, IngressAssumption, Zenon
       DEF OnceInv, OutboxInv, OutboxType, DiskType, Authors, Nonces
  <2>4. ASSUME hand'[h].pc \notin {"free", "verify", "ack", "refused"}
        PROVE  hand'[h].at = now /\ now <= hand'[h].sentAt + MaxSkew
    <3>1. CASE Clocked(h) /\ hand'[h].at = hand[h].at
      BY <1>1, <2>1, <3>1, Zenon DEF Requested, Clocked
    <3>2. CASE hand'[h].at = now /\ ~(hand[h].sentAt + MaxSkew < now)
      BY <2>1, <2>3, <3>2
    <3> QED
      BY <1>1, <2>4, <3>1, <3>2, Zenon DEF Handled
  <2>5. hand'[h].pc # "expired"
    <3> SUFFICES ASSUME hand'[h].pc = "expired" PROVE FALSE
      OBVIOUS
    <3>1. hand[h].pc = "nonce" /\ nonce[b] # 0 /\ nonce[b] <= hand[h].at
      BY <1>1, <2>1, Zenon DEF Handled
    <3>2. hand[h].at = now /\ now <= prod[b].sentAt + MaxSkew
      BY <1>1, <2>1, <3>1, Zenon DEF Requested
    <3>3. prod[b].sentAt + MaxSkew < nonce[b]
      BY <2>3, <3>1, Zenon DEF OnceInv, Nonces
    <3> QED
      BY <2>3, <3>1, <3>2, <3>3
  <2> QED
    BY <1>1, <1>3, <2>1, <2>2, <2>4, <2>5, Zenon DEF Requested
<1> QED
  BY <1>2, <1>3, Zenon

\* The record of a nonce is written for longer than its time stamp is good.
LEMMA AcceptRenews ==
  ASSUME OnceInv, UNCHANGED outboxVars, NEW h \in Handler, AcceptStep(h)
  PROVE  /\ Renewed
         /\ hand[h].pc = "nonce" /\ nonce[hand[h].body] = 0 => nonce'[hand[h].body] # 0
<1>1. nonce \in [Body -> Nat] /\ Requested(h)
  BY Zenon DEF OnceInv, Nonces
<1>2. CASE UNCHANGED nonce /\ ~(hand[h].pc = "nonce" /\ nonce[hand[h].body] = 0)
  BY <1>1, <1>2, Zenon DEF Renewed
<1>3. CASE NonceAccept(h) /\ nonce[hand[h].body] = 0
  <2>1. PICK b \in Producer : /\ b = hand[h].body /\ b \in Body /\ Signed(b)
                              /\ nonce' = [nonce EXCEPT ![b] = now + Retention]
    <3>1. hand[h].at = now /\ hand[h].body \in Producer /\ Signed(hand[h].body)
      BY <1>1, <1>3, Zenon DEF NonceAccept, at, Requested
    <3> QED
      BY <1>3, <3>1, RelayAssumption, Zenon DEF NonceAccept, body
  <2>2. /\ now \in Nat /\ MaxSkew \in Nat \ {0} /\ Retention \in Nat /\ Retention >= 2 * MaxSkew
        /\ prod[b].sentAt \in Nat /\ prod[b].sentAt <= now
    BY <2>1, IngressAssumption, Zenon DEF OnceInv, OutboxInv, OutboxType, DiskType, Authors
  <2>3. now + Retention \in Nat /\ now + Retention # 0 /\ prod[b].sentAt + MaxSkew < now + Retention
    BY <2>2
  <2>4. /\ nonce' \in [Body -> Nat] /\ nonce'[b] = now + Retention
        /\ \A c \in Body : c # b => nonce'[c] = nonce[c]
    BY <1>1, <2>1, <2>3, Zenon
  <2>5. Renewed
    BY <2>1, <2>3, <2>4, Zenon DEF Renewed
  <2> QED
    BY <2>1, <2>3, <2>4, <2>5, Zenon
<1>4. CASE ~(NonceAccept(h) /\ nonce[hand[h].body] = 0)
  <2>1. ~NonceRemove(h)
    BY <1>1, Zenon DEF NonceRemove, at, Requested
  <2>2. UNCHANGED nonce
    BY <1>4, <2>1, Zenon DEF AcceptStep, VerifyPeer, LookupCommitted, NonceAccept, ReceiptAcquire, ReceiptSteal,
         ReadCommitted, PendingReceipt, Enqueue, EnqueueFails, Commit, RemovePending,
         ReceiptRelease, stores, body
  <2>3. hand[h].pc = "nonce" => NonceAccept(h)
    BY Zenon DEF AcceptStep, VerifyPeer, LookupCommitted, NonceRemove, ReceiptAcquire, ReceiptSteal,
           ReadCommitted, PendingReceipt, Enqueue, EnqueueFails, Commit, RemovePending,
           ReceiptRelease, at
  <2> QED
    BY <1>2, <1>4, <2>2, <2>3, Zenon
<1> QED
  BY <1>3, <1>4, Zenon

LEMMA AcceptOnce ==
  ASSUME OnceInv, OutboxInv', RelayInv', UNCHANGED outboxVars, NEW h \in Handler, AcceptStep(h)
  PROVE  OnceInv'
<1>1. /\ Grows /\ Authors' /\ Handled(h) /\ Renewed /\ Requested(h) /\ UNCHANGED <<sent, stolen>>
      /\ hand[h].pc = "nonce" /\ nonce[hand[h].body] = 0 => nonce'[hand[h].body] # 0
  BY OutboxStays, AcceptHandles, AcceptRenews, Zenon DEF OnceInv, outboxVars
<1>2. Nonces'
  BY <1>1, NoncesStay, Zenon DEF OnceInv
<1>3. \A g \in Handler : Requested(g)'
  BY AcceptRequested, Zenon
<1>4. /\ hand[h].key \in Key /\ enqueues \in [Key -> Nat]
      /\ Enqueue(h) => /\ hand[h].pc = "enqueue" /\ hand'[h].pc = "commit"
                       /\ enqueues' = [enqueues EXCEPT ![hand[h].key] = @ + 1]
      /\ ~Enqueue(h) => UNCHANGED enqueues
  <2>1. hand[h].key \in Key /\ enqueues \in [Key -> Nat]
    BY <1>1, Zenon DEF OnceInv, Handled, Requested
  <2>2. ASSUME Enqueue(h)
        PROVE  /\ hand[h].pc = "enqueue" /\ hand'[h].pc = "commit"
               /\ enqueues' = [enqueues EXCEPT ![hand[h].key] = @ + 1]
    <3>1. HandShape /\ goes(h, "commit")
      BY <2>2, Zenon DEF OnceInv, RelayInv, ReceiverInv, Enqueue
    <3> QED
      BY <2>2, <3>1, GoesEffect, Zenon DEF Enqueue, at, key
  <2>3. ASSUME ~Enqueue(h) PROVE UNCHANGED enqueues
    BY <2>3, Zenon DEF AcceptStep, VerifyPeer, LookupCommitted, NonceAccept, NonceRemove, ReceiptAcquire,
                ReceiptSteal, ReadCommitted, PendingReceipt, EnqueueFails, Commit, RemovePending,
                ReceiptRelease
  <2> QED
    BY <2>1, <2>2, <2>3, Zenon
<1>5. enqueues' \in [Key -> Nat]
  BY <1>4
<1>6. ASSUME NEW k \in Key, ~Unlocked(k)' PROVE Once(k)'
  <2>1. Once(k) /\ ItemInv(k) /\ \A b, c \in sent[k] : b = c
    BY <1>1, <1>6, Zenon DEF OnceInv, OutboxInv, ItemInv, OneBody, Unlocked
  <2>2. ASSUME NEW g \in Handler, g # h PROVE PastNonce(g, k)' <=> PastNonce(g, k)
    BY <1>1, <2>2, Zenon DEF Handled, PastNonce
  <2>3. CASE hand[h].pc = "nonce" /\ nonce[hand[h].body] = 0 /\ hand[h].key = k
    <3>1. PICK b \in Producer : /\ b = hand[h].body /\ b = hand'[h].body /\ b \in sent[k] /\ Signed(b)
                                /\ hand[h].sentAt = prod[b].sentAt
      BY <1>1, <2>3, Zenon DEF Requested, Handled
    <3>2. ~Used(b)
      <4>1. now <= prod[b].sentAt + MaxSkew
        BY <1>1, <2>3, <3>1, Zenon DEF Requested
      <4>2. now \in Nat /\ MaxSkew \in Nat /\ prod[b].sentAt \in Nat
        BY <3>1, IngressAssumption, Zenon DEF OnceInv, OutboxInv, OutboxType, DiskType, Authors
      <4> QED
        BY <2>3, <3>1, <4>1, <4>2 DEF Used
    <3>3. enqueues[k] = 0
      BY <2>1, <3>1, <3>2, Zenon DEF Once
    <3>4. ASSUME NEW g \in Handler, PastNonce(g, k) PROVE FALSE
      <4>1. hand[g].body \in sent[k] /\ Used(hand[g].body)
        BY <2>1, <3>4, PastKnows, Zenon DEF Once, PastNonce
      <4> QED
        BY <2>1, <3>1, <3>2, <4>1, Zenon
    <3>5. \A g \in Handler : PastNonce(g, k)' => g = h
      BY <2>2, <3>4, Zenon
    <3>6. Used(b)'
      BY <1>1, <2>3, <3>1, Zenon DEF Used
    <3>7. enqueues'[k] = 0
      BY <1>4, <2>3, <3>3, Zenon
    <3> QED
      BY <3>1, <3>5, <3>6, <3>7 DEF Once, Used
  <2>4. CASE Enqueue(h) /\ hand[h].key = k
    <3>1. PastNonce(h, k) /\ hand[h].body \in sent[k]
      BY <1>4, <2>4, PastKnows, Zenon DEF PastNonce, Past
    <3>2. enqueues[k] = 0 /\ Used(hand[h].body)
      BY <2>1, <3>1, Zenon DEF Once
    <3>3. enqueues'[k] = 1
      BY <1>4, <2>4, <3>2
    <3>4. ASSUME NEW g \in Handler, PastNonce(g, k)' PROVE FALSE
      <4>1. g # h
        BY <1>4, <2>4, <3>4, Zenon DEF PastNonce, Past
      <4> QED
        BY <2>1, <2>2, <3>1, <3>4, <4>1, Zenon DEF Once
    <3>5. sent'[k] # {} /\ \A c \in sent'[k] : Used(c)'
      <4>1. PICK b \in sent[k] : b = hand[h].body /\ Used(b)
        BY <3>1, <3>2, Zenon
      <4> QED
        BY <1>1, <1>6, <4>1, SentIsUsed, Zenon
    <3> QED
      BY <3>3, <3>4, <3>5 DEF Once
  <2>5. CASE /\ ~(hand[h].pc = "nonce" /\ nonce[hand[h].body] = 0 /\ hand[h].key = k)
             /\ ~(Enqueue(h) /\ hand[h].key = k)
    <3>1. \A g \in Handler : PastNonce(g, k)' => PastNonce(g, k) /\ hand'[g].body = hand[g].body
      BY <1>1, <2>5, Zenon DEF Handled, PastNonce
    <3>2. enqueues'[k] = enqueues[k]
      BY <1>4, <2>5, Zenon
    <3> QED
      BY <1>1, <1>6, <3>1, <3>2, OnceStays, Zenon
  <2> QED
    BY <2>3, <2>4, <2>5, Zenon
<1> QED
  BY <1>1, <1>2, <1>3, <1>5, <1>6, Zenon DEF OnceInv


LEMMA FreeRequested ==
  ASSUME NEW h \in Handler, hand'[h] = Free
  PROVE  Requested(h)' /\ hand'[h].pc \notin Past
<1>1. Free.pc = "free"
  BY Zenon DEF Free
<1> QED
  BY <1>1, Zenon DEF Requested, Past

\* A request that arrives is that of the item the forwarder has sent.
LEMMA DeliverOnce ==
  ASSUME OnceInv, OutboxInv', RelayInv', NEW f \in Forwarder, NEW h \in Handler, Deliver(f, h)
  PROVE  OnceInv'
<1> DEFINE req == [Free EXCEPT !.pc = "verify", !.key = fwd[f].key,
                     !.body = fwd[f].item.body, !.sentAt = prod[fwd[f].item.body].sentAt,
                     !.from = f, !.exchange = sends[fwd[f].key]]
<1>1. /\ UNCHANGED <<disk, stolen, prod, now, sent>> /\ UNCHANGED <<nonce, enqueues>>
      /\ fwd[f].pc = "sending" /\ fwd' = [fwd EXCEPT ![f] = [fwd[f] EXCEPT !.pc = "awaiting"]]
  BY Zenon DEF Deliver, Arrive, stores
<1>2. ForwarderOK(fwd[f]) /\ Shaped(fwd[f]) /\ fwd = [g \in Forwarder |-> fwd[g]]
  BY Zenon DEF OnceInv, OutboxInv, OutboxType, RelayInv, SenderInv, Carries
<1>3. PICK k \in Key, b \in Producer :
        /\ k = fwd[f].key /\ b = fwd[f].item.body /\ b \in sent[k] /\ Stored(k) /\ Signs(b)
  <2>1. fwd[f].key \in Key /\ fwd[f].item \in Item /\ exists("inflight", fwd[f].key)
    BY <1>1, <1>2, Zenon DEF ForwarderOK, Exchange
  <2>2. fwd[f].item.body \in sent[fwd[f].key] /\ Signed(fwd[f].item.body)
    BY <1>1, Zenon DEF OnceInv, Authors, Holding
  <2> QED
    BY <2>1, <2>2, Zenon DEF Item, Stored, Dir, Signs
<1>4. Grows /\ Authors'
  <2>1. /\ fwd'[f].pc = "awaiting" /\ fwd'[f].key = k /\ fwd'[f].item.body = b
        /\ \A g \in Forwarder \ {f} : fwd'[g] = fwd[g]
    BY <1>1, <1>2, <1>3, Zenon DEF Shaped, Fields
  <2>2. /\ \A p \in Producer : prod'[p].pc = prod[p].pc /\ prod'[p].sentAt = prod[p].sentAt
        /\ \A x \in Key : Stored(x) => Stored(x)'
        /\ \A d \in Dir, x \in Key : exists(d, x)' => exists(d, x) /\ disk'[d][x] = disk[d][x]
        /\ \A x \in Key : sent[x] \subseteq sent'[x] /\ \A c \in sent'[x] : c \in sent[x]
        /\ b \in sent'[k]
    BY <1>1, <1>3, Zenon DEF Stored, exists
  <2>3. UNCHANGED <<stolen, now>> /\ Authors /\ OutboxInv
    BY <1>1, Zenon DEF OnceInv
  <2> QED
    BY <1>3, <2>1, <2>2, <2>3, ForwarderAuthors, Zenon
<1>5. /\ req.pc = "verify" /\ req.key = k /\ req.body = b /\ req.sentAt = prod[b].sentAt
  BY <1>3, Zenon DEF Free
<1>6. hand' = [hand EXCEPT ![h] = req]
  BY Zenon DEF Deliver, Arrive
<1> HIDE DEF req
<1>7. hand'[h] = req /\ \A g \in Handler \ {h} : hand'[g] = hand[g]
  BY <1>6, Zenon DEF OnceInv, RelayInv, ReceiverInv, HandShape
<1>8. Requested(h)' /\ hand'[h].pc \notin Past
  <2>1. Signed(b)' /\ Stored(k)' /\ b \in sent'[k] /\ prod'[b].sentAt = prod[b].sentAt
    BY <1>3, <1>4, Zenon DEF Grows, Signs
  <2> QED
    BY <1>5, <1>7, <2>1, Zenon DEF Requested, Past
<1>9. Renewed
  BY <1>1, Zenon DEF Renewed, OnceInv, Nonces
<1>10. UNCHANGED now /\ UNCHANGED enqueues
  BY <1>1, Zenon
<1> QED
  BY <1>4, <1>7, <1>8, <1>9, <1>10, OnceAround, Zenon

=============================================================================
