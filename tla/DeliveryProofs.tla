--------------------------- MODULE DeliveryProofs ---------------------------
(***************************************************************************)
(* Theorems about Outbox, and about Relay that need the outbox's           *)
(* invariant: what has been reported stays, one body is sent under a key,  *)
(* sends and bytes are bounded, and Relay implements Delivery, so that an  *)
(* event reaches the host's queue once however often its request is        *)
(* repeated.  They hold for any number of producers, handlers, keys, kills *)
(* and failures, with one forwarder at a time.                             *)
(***************************************************************************)
EXTENDS OutboxProofs, RelayProofs, FiniteSetTheorems

LEMMA FinitelyMany == CardinalityFacts
<1>1. \A S : IsFiniteSet(S) => Cardinality(S) \in Nat
  BY FS_CardinalityType, Zenon
<1>2. ASSUME NEW S, NEW T, IsFiniteSet(S), IsFiniteSet(T)
      PROVE  IsFiniteSet(S \cup T) /\ Cardinality(S \cup T) <= Cardinality(S) + Cardinality(T)
  <2>1. /\ IsFiniteSet(S \cup T)
        /\ Cardinality(S \cup T) = Cardinality(S) + Cardinality(T) - Cardinality(S \cap T)
    BY <1>2, FS_Union, Zenon
  <2>2. /\ Cardinality(S) \in Nat /\ Cardinality(T) \in Nat /\ Cardinality(S \cap T) \in Nat
    BY <1>2, FS_Intersection, FS_CardinalityType, Zenon
  <2> QED
    BY <2>1, <2>2
<1>3. ASSUME NEW S, NEW x, IsFiniteSet(S)
      PROVE  IsFiniteSet(S \cup {x}) /\ Cardinality(S \cup {x}) <= Cardinality(S) + 1
  BY <1>1, <1>3, FS_AddElement
<1> QED
  BY <1>1, <1>2, <1>3, FS_Subset, Zenon DEF CardinalityFacts

-----------------------------------------------------------------------------
LEMMA InitiallyOutbox ==
  ASSUME OutboxInit
  PROVE  OutboxInv
<1>1. /\ \A d \in Dir, k \in Key : ~exists(d, k)
      /\ disk \in [Dir -> [Key -> Item \cup {None}]]
  BY Zenon DEF OutboxInit, exists
<1>2. /\ prod = [p \in Producer |-> prod[p]] /\ fwd = [f \in Forwarder |-> fwd[f]]
      /\ \A p \in Producer : ProdOK(prod[p]) /\ prod[p].pc = "start"
      /\ \A f \in Forwarder : fwd[f] = Idle
  <2> DEFINE r == [pc |-> "start", key |-> None, sentAt |-> ZeroTime,
                   probe |-> 1, used |-> 0, moved |-> FALSE, result |-> ""]
  <2>1. /\ r = [x \in ProdFields |-> r[x]] /\ r.pc = "start" /\ r.probe = 1 /\ r.used = 0
        /\ r.moved = FALSE
    BY Zenon DEF ProdFields
  <2>2. prod = [p \in Producer |-> r] /\ fwd = [f \in Forwarder |-> Idle]
    BY Zenon DEF OutboxInit
  <2> HIDE DEF r
  <2>3. ProdOK(r)
    <3>1. r.pc \in ProdPC /\ r.pc \notin {"usage", "releaseItem", "releaseCapacity"}
      BY <2>1, Zenon DEF ProdPC, AtRest
    <3>2. r.probe \in 1..4 /\ r.used \in Nat
      BY <2>1
    <3>3. r.moved \in BOOLEAN
      BY <2>1, Zenon
    <3> QED
      BY <2>1, <3>1, <3>2, <3>3, Zenon DEF ProdOK
  <2> QED
    BY <2>1, <2>2, <2>3, Zenon
<1>3. now = 1 /\ kills = 0 /\ sent = [k \in Key |-> {}] /\ sends = [k \in Key |-> 0] /\ stolen = {}
  BY Zenon DEF OutboxInit
<1>4. OutboxType
  <2>1. ForwarderOK(Idle)
    <3>1. Shaped(Idle) /\ Idle.at = 0 /\ Idle.pc = "idle"
      BY Zenon DEF Idle, Shaped, Fields, ZeroTime
    <3> QED
      BY <1>3, <3>1, QuietOK
  <2> QED
    BY <1>1, <1>2, <1>3, <2>1, Zenon DEF OutboxType, DiskType
<1>5. Reported
  BY <1>2, Zenon DEF Reported, Reports, Told
<1>6. Locked
  BY <1>2, Zenon DEF Locked, InCapacity, InItem, OutboxInit
<1>7. ASSUME NEW k \in Key PROVE ItemInv(k)
  <2>1. OneBody(k) /\ Places(k)
    BY <1>1, <1>3, Zenon DEF OneBody, Places, Dir
  <2>2. Budget(k)
    <3>1. sends[k] = 0 /\ kills = 0 /\ Len(Backoff) \in Nat
      BY <1>3, OutboxAssumption
    <3>2. ~exists("pending", k) /\ ~exists("inflight", k)
      BY <1>1, Zenon DEF Dir
    <3>3. sends[k] <= Len(Backoff) + kills
      BY <3>1
    <3> QED
      BY <3>2, <3>3, Zenon DEF Budget
  <2>3. \A f \in Forwarder : Handles(fwd[f], k)
    <3>1. Idle.pc = "idle"
      BY Zenon DEF Idle
    <3> QED
      BY <1>2, <3>1, Zenon DEF Handles, Holds, Exchange
  <2> QED
    BY <2>1, <2>2, <2>3, Zenon DEF ItemInv
<1>8. Searches
  BY <1>2, Zenon DEF Searches, Missed, InCapacity
<1>9. CapacityInv
  <2>1. Counted = {}
    BY <1>1, Zenon DEF Counted, listing, Dir
  <2>2. IsFiniteSet(Counted) /\ Cardinality(Counted) = 0
    BY <2>1, FS_EmptySet, Zenon
  <2> QED
    BY FinitelyMany, <1>2, <2>2, OutboxAssumption DEF CapacityInv, Counting
<1> QED
  BY <1>4, <1>5, <1>6, <1>7, <1>8, <1>9, Zenon DEF OutboxInv

-----------------------------------------------------------------------------
\* With one forwarder at a time, the invariant holds whatever the producers do.
THEOREM OutboxInvariant ==
  ASSUME OneForwarder
  PROVE  OutboxSpec => []OutboxInv
BY InitiallyOutbox, OutboxSteps, PTL DEF OutboxSpec

\* What EnqueueBounded has reported as queued, or as a duplicate of what is
\* queued, is in some directory of the outbox at every moment from then on,
\* through every claim, acknowledgement, Nack, recovery and kill.
THEOREM ReportedStays ==
  ASSUME OneForwarder
  PROVE  OutboxSpec => []NoLostDelivery
<1>1. OutboxInv => NoLostDelivery
  BY Zenon DEF OutboxInv, Reported, Reports, Stored, NoLostDelivery, told
<1> QED
  BY <1>1, OutboxInvariant, PTL

\* A delivery key is passed to Transport.Send with one body, unless both locks
\* of its producers were removed while their owner was alive: the searches of
\* EnqueueBounded and Enqueue, one after the other, cannot miss an item that a
\* forwarder keeps moving between the directories.
THEOREM OneBodyIsSent ==
  ASSUME OneForwarder
  PROVE  OutboxSpec => []OneEnvelope
<1>1. OutboxInv => OneEnvelope
  <2> SUFFICES ASSUME OutboxInv, NEW k \in Key, ~Unlocked(k) PROVE Cardinality(sent[k]) <= 1
    BY Zenon DEF OneEnvelope
  <2>1. \A b, c \in sent[k] : b = c
    BY Zenon DEF OutboxInv, ItemInv, OneBody
  <2>2. CASE sent[k] = {}
    BY <2>2, FS_EmptySet
  <2>3. CASE sent[k] # {}
    <3>1. PICK b : b \in sent[k]
      BY <2>3, Zenon
    <3>2. sent[k] = {b}
      BY <2>1, <3>1, Zenon
    <3>3. Cardinality({b}) = 1
      BY FS_Singleton, Zenon
    <3> QED
      BY <3>2, <3>3
  <2> QED
    BY <2>2, <2>3, Zenon
<1> QED
  BY <1>1, OutboxInvariant, PTL

\* An item is sent at most once per entry of Forwarder.Backoff and once more for
\* every kill, which loses the count of the attempt in progress.
THEOREM SendsAreBudgeted ==
  ASSUME OneForwarder
  PROVE  OutboxSpec => []SendBudget
<1>1. OutboxInv => SendBudget
  BY Zenon DEF OutboxInv, ItemInv, Budget, SendBudget
<1> QED
  BY <1>1, OutboxInvariant, PTL

\* EnqueueBounded keeps what is pending, inflight and dead within MaxBytes,
\* unless an item went back to pending while a producer added up the directories
\* or the capacity lock was removed while its owner was alive.
THEOREM CapacityIsKept ==
  ASSUME OneForwarder
  PROVE  OutboxSpec => []CapacityKept
<1>1. OutboxInv => CapacityKept
  BY Zenon DEF OutboxInv, CapacityInv, Counted, CapacityKept
<1> QED
  BY <1>1, OutboxInvariant, PTL

\* `remote test` reports an acknowledgement, or a dead letter, only of an item
\* that is in that directory, and it stays there.
THEOREM TestReportIsTrue ==
  ASSUME OneForwarder
  PROVE  OutboxSpec => []TestReport
<1>1. OutboxInv => TestReport
  BY Zenon DEF OutboxInv, Reported, TestReport
<1> QED
  BY <1>1, OutboxInvariant, PTL

-----------------------------------------------------------------------------
\* The outbox of the relay is an outbox: the receiver does not touch it, and a
\* forwarder whose request has arrived still waits.
LEMMA RelayOutbox ==
  ASSUME OneForwarder, OutboxInv, [RelayNext]_relayVars
  PROVE  OutboxInv'
<1>1. ASSUME OutboxNext \/ UNCHANGED outboxVars PROVE OutboxInv'
  BY <1>1, OutboxSteps, Zenon
<1>2. CASE RelayTick
  BY <1>1, <1>2, Zenon DEF RelayTick, OutboxNext
<1>3. CASE SenderStep
  BY <1>1, <1>3, Zenon DEF SenderStep, OutboxNext
<1>4. CASE ReceiverStep
  BY <1>1, <1>4, Zenon DEF ReceiverStep
<1>5. ASSUME NEW b \in Body, Clean(b) PROVE OutboxInv'
  BY <1>1, <1>5, Zenon DEF Clean
<1>6. ASSUME NEW f \in Forwarder, NEW h \in Handler, Deliver(f, h) PROVE OutboxInv'
  BY <1>6, AwaitStep, Zenon DEF Deliver
<1>7. ASSUME NEW f \in Forwarder, NEW h \in Handler, Reply(f, h) PROVE OutboxInv'
  BY <1>1, <1>7, Zenon DEF Reply, OutboxNext
<1>8. CASE UNCHANGED relayVars
  BY <1>1, <1>8, Zenon DEF relayVars
<1> QED
  BY <1>2, <1>3, <1>4, <1>5, <1>6, <1>7, <1>8, Zenon DEF RelayNext

\* A forwarder passes on what it found in the outbox.
LEMMA ForwarderSigns ==
  ASSUME OutboxInv, RelayInv, Authors, NEW f \in Forwarder,
         ForwardStep(f) \/ Acked(f) \/ Failed(f) \/ KillForwarder(f)
  PROVE  Grows /\ Authors'
<1>1. /\ fwd = [g \in Forwarder |-> fwd[g]] /\ ForwarderOK(fwd[f]) /\ Carries(fwd[f]) /\ DiskType
      /\ Shaped(fwd[f]) /\ prod = [p \in Producer |-> prod[p]]
      /\ \A p \in Producer : prod[p] = [x \in ProdFields |-> prod[p][x]]
  BY Zenon DEF OutboxInv, OutboxType, ProdOK, RelayInv, SenderInv, Carries
<1>2. \A k \in Key : Stored(k) => Stored(k)'
  BY ForwarderNews, Zenon DEF SameNews, Settles
<1>3. \A d \in Dir, k \in Key : exists(d, k) => Signs(disk[d][k].body)
  <2>1. \A d \in Dir, k \in Key : disk[d][k] # None => disk[d][k] \in Item
    BY <1>1 DEF DiskType
  <2> QED
    BY <2>1, Zenon DEF Authors, Signs, exists, Item
<1>4. fwd[f].pc \in Holding => Signs(fwd[f].item.body) /\ fwd[f].key \in Key /\ fwd[f].item \in Item
  BY <1>1, Zenon DEF Authors, Signs, Carries, Item
<1>5. UNCHANGED <<stolen, now>>
  BY Zenon DEF ForwardStep, Start, RecoverDone, Transition, Remove, ClaimList, ClaimNone, ClaimDrop,
         ClaimRemove, Send, End, Recover, ClaimItem, Acked, Failed, KillForwarder
<1>6. \A g \in Forwarder \ {f} : fwd'[g] = fwd[g]
  BY <1>1, ZenonT(60) DEF ForwardStep, Start, RecoverDone, Transition, Remove, ClaimList, ClaimNone, ClaimDrop,
         ClaimRemove, Send, End, Recover, ClaimItem, Acked, Failed, KillForwarder
<1>7. \A p \in Producer : prod'[p].pc = prod[p].pc /\ prod'[p].sentAt = prod[p].sentAt
  <2>1. CASE Transition(f)
    <3>1. CASE UNCHANGED prod
      BY <3>1, Zenon
    <3>2. CASE Notes
      BY <3>2, Zenon DEF Notes, ProdFields
    <3> QED
      BY <2>1, <3>1, <3>2, MovedNoted, ZenonT(60) DEF Transition
  <2>2. CASE ~Transition(f)
    BY <2>2, Zenon DEF ForwardStep, Start, RecoverDone, Remove, ClaimList, ClaimNone, ClaimDrop,
         ClaimRemove, Send, End, Recover, ClaimItem, Acked, Failed, KillForwarder
  <2> QED
    BY <2>1, <2>2, Zenon
<1>8. CASE Send(f)
  <2>1. /\ fwd' = [fwd EXCEPT ![f] = [fwd[f] EXCEPT !.pc = "sending"]] /\ UNCHANGED disk
        /\ sent' = [sent EXCEPT ![fwd[f].key] = sent[fwd[f].key] \cup {fwd[f].item.body}]
        /\ fwd[f].pc = "send"
    BY <1>8, Zenon DEF Send
  <2>2. fwd'[f].key = fwd[f].key /\ fwd'[f].item = fwd[f].item
    BY <1>1, <2>1, Zenon DEF Shaped, Fields
  <2>3. fwd[f].key \in Key /\ Signs(fwd[f].item.body)
    BY <1>4, <2>1, Zenon DEF Holding
  <2>4. /\ \A k \in Key : sent[k] \subseteq sent'[k] /\ \A b \in sent'[k] : b \in sent[k] \/ Signs(b)
        /\ fwd[f].item.body \in sent'[fwd[f].key]
    BY <1>1, <2>1, <2>3, Zenon DEF DiskType
  <2>5. \A d \in Dir, k \in Key : exists(d, k)' => exists(d, k) /\ disk'[d][k] = disk[d][k]
    BY <2>1, Zenon DEF exists
  <2> QED
    BY <1>2, <1>5, <1>6, <1>7, <2>2, <2>3, <2>4, <2>5, ForwarderAuthors, Zenon
<1>9. CASE ~Send(f)
  <2>1. UNCHANGED sent
    BY <1>9, Zenon DEF ForwardStep, Start, RecoverDone, Transition, Remove, ClaimList, ClaimNone, ClaimDrop,
         ClaimRemove, End, Recover, ClaimItem, Acked, Failed, KillForwarder
  <2>2. ASSUME \A d \in Dir, k \in Key : exists(d, k)' =>
                 (exists(d, k) /\ disk'[d][k] = disk[d][k]) \/ Signs(disk'[d][k].body),
               fwd'[f].pc \notin {"sending", "awaiting"},
               fwd'[f].pc \in Holding => Signs(fwd'[f].item.body)
        PROVE  Grows /\ Authors'
    BY <1>2, <1>5, <1>6, <1>7, <2>1, <2>2, ForwarderAuthors, Zenon
  <2>3. ASSUME UNCHANGED disk
        PROVE  \A d \in Dir, k \in Key : exists(d, k)' => exists(d, k) /\ disk'[d][k] = disk[d][k]
    BY <2>3, Zenon DEF exists
  <2>4. ASSUME NEW e, NEW j, disk' = [disk EXCEPT ![e][j] = None]
        PROVE  \A d \in Dir, k \in Key : exists(d, k)' => exists(d, k) /\ disk'[d][k] = disk[d][k]
    BY <1>1, <2>4, Zenon DEF exists, DiskType
  <2>5. CASE Start(f) \/ RecoverDone(f) \/ ClaimList(f) \/ ClaimNone(f) \/ End(f) \/ KillForwarder(f)
    <3>1. UNCHANGED disk
      BY <2>5, Zenon DEF Start, RecoverDone, ClaimList, ClaimNone, End, KillForwarder
    <3>2. fwd'[f].pc \in {"recover", "claim", "claiming", "idle"}
      <4>1. ASSUME NEW r, fwd' = [fwd EXCEPT ![f] = r] PROVE fwd'[f] = r
        BY <1>1, <4>1, Zenon
      <4>2. CASE Start(f)
        <5> DEFINE r == [Idle EXCEPT !.pc = "recover", !.at = now,
                                     !.todo = restricted("inflight", listing("inflight"))]
                   s == [Idle EXCEPT !.pc = "claim"]
        <5>1. r.pc = "recover" /\ s.pc = "claim"
          BY Zenon DEF Idle
        <5>2. fwd' = [fwd EXCEPT ![f] = r] \/ fwd' = [fwd EXCEPT ![f] = s]
          BY <4>2, Zenon DEF Start
        <5> HIDE DEF r, s
        <5> QED
          BY <4>1, <5>1, <5>2, Zenon
      <4>3. CASE RecoverDone(f)
        <5> DEFINE r == [Idle EXCEPT !.pc = "claim"]
        <5>1. r.pc = "claim" /\ fwd' = [fwd EXCEPT ![f] = r]
          BY <4>3, Zenon DEF RecoverDone, Idle
        <5> HIDE DEF r
        <5> QED
          BY <4>1, <5>1, Zenon
      <4>4. CASE ClaimList(f)
        <5> DEFINE due == {k \in listing("pending") : disk["pending"][k].next <= now}
                   r == [Idle EXCEPT !.pc = "claiming", !.at = now, !.todo = restricted("pending", due)]
        <5>1. r.pc = "claiming"
          BY Zenon DEF Idle
        <5>2. fwd' = [fwd EXCEPT ![f] = r]
          BY <4>4, Zenon DEF ClaimList
        <5> HIDE DEF r
        <5> QED
          BY <4>1, <5>1, <5>2, Zenon
      <4>5. CASE ClaimNone(f) \/ End(f) \/ KillForwarder(f)
        <5>1. Idle.pc = "idle"
          BY Zenon DEF Idle
        <5>2. fwd' = [fwd EXCEPT ![f] = Idle]
          BY <4>5, Zenon DEF ClaimNone, End, KillForwarder
        <5> QED
          BY <4>1, <5>1, <5>2, Zenon
      <4> QED
        BY <2>5, <4>2, <4>3, <4>4, <4>5, Zenon
    <3> QED
      BY <2>2, <2>3, <3>1, <3>2, Zenon DEF Holding
  <2>6. CASE Remove(f) \/ ClaimDrop(f)
    <3>1. \E e, j : disk' = [disk EXCEPT ![e][j] = None]
      BY <2>6, Zenon DEF Remove, ClaimDrop, remove
    <3>2. fwd'[f].pc \in {"recover", "next", "idle", "claiming"}
      <4>1. CASE Remove(f)
        <5>1. fwd[f].then \in {"recover", "next", "idle"}
          BY <1>1, <4>1, Zenon DEF Remove, ForwarderOK
        <5> QED
          BY <1>1, <4>1, <5>1, Zenon DEF Remove, Idle
      <4>2. CASE ClaimDrop(f)
        BY <1>1, <4>2, Zenon DEF ClaimDrop, Shaped, Fields
      <4> QED
        BY <2>6, <4>1, <4>2, Zenon
    <3> QED
      BY <2>2, <2>4, <3>1, <3>2, Zenon DEF Holding
  <2>7. CASE ClaimRemove(f)
    <3>1. disk' = [disk EXCEPT !["pending"][fwd[f].key] = None] /\ fwd[f].pc \in Holding
      BY <2>7, Zenon DEF ClaimRemove, remove, Holding
    <3>2. fwd'[f].pc = "send" /\ fwd'[f].item = fwd[f].item
      BY <1>1, <2>7, Zenon DEF ClaimRemove, Shaped, Fields
    <3> QED
      BY <1>4, <2>2, <2>4, <3>1, <3>2, Zenon
  <2>8. CASE Acked(f) \/ Failed(f)
    <3>1. UNCHANGED disk /\ fwd[f].pc \in Holding
      BY <2>8, Zenon DEF Acked, Failed, Holding
    <3>2. fwd'[f].pc = "transition" /\ fwd'[f].item.body = fwd[f].item.body
      <4>1. fwd[f].item \in Item /\ fwd[f].item = [x \in {"body", "attempts", "next", "lease"} |-> fwd[f].item[x]]
        BY <1>4, <3>1, Zenon DEF Item
      <4> QED
        BY <1>1, <2>8, <4>1 DEF Acked, Failed, nacked, Shaped, Fields
    <3> QED
      BY <1>4, <2>2, <2>3, <3>1, <3>2, Zenon
  <2>9. ASSUME NEW k \in Key, Recover(f, k) PROVE Grows /\ Authors'
    <3>1. UNCHANGED disk /\ fwd[f].pc = "recover" /\ k \in DOMAIN fwd[f].todo
      BY <2>9, Zenon DEF Recover
    <3>2. exists("inflight", k) /\ fwd[f].todo[k] = disk["inflight"][k]
      BY <1>1, <3>1, Zenon DEF ForwarderOK, Lists, exists
    <3>3. Signs(fwd[f].todo[k].body)
      BY <1>3, <3>2, Zenon DEF Dir
    <3>4. fwd[f].todo[k] = [x \in {"body", "attempts", "next", "lease"} |-> fwd[f].todo[k][x]]
      BY <1>1, <3>1, Zenon DEF Carries, Item
    <3>5. \/ fwd'[f].pc \in {"remove", "recover"}
          \/ fwd'[f].pc = "transition" /\ fwd'[f].item.body = fwd[f].todo[k].body
      <4>1. CASE fwd' = [fwd EXCEPT ![f].pc = "remove", ![f].todo = rest(f, k),
                                    ![f].key = k, ![f].then = "recover"]
        BY <1>1, <4>1, Zenon DEF Shaped, Fields
      <4>2. CASE fwd' = [fwd EXCEPT ![f].todo = rest(f, k)]
        BY <1>1, <3>1, <4>2, Zenon DEF Shaped, Fields
      <4>3. ASSUME NEW i, i = [fwd[f].todo[k] EXCEPT !.lease = ZeroTime],
                   fwd' = [fwd EXCEPT ![f].pc = "transition", ![f].todo = rest(f, k),
                                      ![f].key = k, ![f].dest = "pending",
                                      ![f].item = i, ![f].then = "recover"]
            PROVE  fwd'[f].pc = "transition" /\ fwd'[f].item.body = fwd[f].todo[k].body
        <5>1. i.body = fwd[f].todo[k].body
          BY <3>4, <4>3, Zenon
        <5>2. fwd'[f].pc = "transition" /\ fwd'[f].item = i
          BY <1>1, <4>3, Zenon DEF Shaped, Fields
        <5> QED
          BY <5>1, <5>2, Zenon
      <4> QED
        BY <2>9, <4>1, <4>2, <4>3, Zenon DEF Recover
    <3> QED
      BY <2>2, <2>3, <3>1, <3>3, <3>5, Zenon DEF Holding
  <2>10. ASSUME NEW k \in Key, ClaimItem(f, k) PROVE Grows /\ Authors'
    <3>1. fwd[f].pc = "claiming" /\ k \in DOMAIN fwd[f].todo
      BY <2>10, Zenon DEF ClaimItem
    <3>2. exists("pending", k) /\ fwd[f].todo[k] = disk["pending"][k]
      BY <1>1, <3>1, Zenon DEF ForwarderOK, Lists, exists
    <3>3. Signs(fwd[f].todo[k].body)
      BY <1>3, <3>2, Zenon DEF Dir
    <3>4. fwd[f].todo[k] = [x \in {"body", "attempts", "next", "lease"} |-> fwd[f].todo[k][x]]
      BY <1>1, <3>1, Zenon DEF Carries, Item
    <3>5. CASE UNCHANGED disk /\ fwd' = [fwd EXCEPT ![f].pc = "claimDrop", ![f].key = k, ![f].todo = rest(f, k)]
      <4>1. fwd'[f].pc = "claimDrop"
        BY <1>1, <3>5, Zenon DEF Shaped, Fields
      <4> QED
        BY <2>2, <2>3, <3>5, <4>1, Zenon DEF Holding
    <3>6. ASSUME NEW i, i = [fwd[f].todo[k] EXCEPT !.lease = fwd[f].at + Lease],
                 disk' = [disk EXCEPT !["inflight"][k] = i],
                 fwd' = [fwd EXCEPT ![f] = [Idle EXCEPT !.pc = "claimRemove", !.at = fwd[f].at,
                                                        !.key = k, !.item = i]]
          PROVE  Grows /\ Authors'
      <4>1. i.body = fwd[f].todo[k].body
        BY <3>4, <3>6, Zenon
      <4>2. fwd'[f].pc = "claimRemove" /\ fwd'[f].item = i
        BY <1>1, <3>6, Zenon DEF Idle
      <4>3. \A d \in Dir, j \in Key : disk'[d][j] = disk[d][j] \/ disk'[d][j] = i
        BY <1>1, <3>6, Zenon DEF DiskType
      <4> QED
        BY <2>2, <3>3, <4>1, <4>2, <4>3, Zenon DEF Holding, exists
    <3> QED
      BY <2>10, <3>5, <3>6, Zenon DEF ClaimItem, put
  <2>11. CASE Transition(f)
    <3>1. fwd[f].pc = "transition" /\ Signs(fwd[f].item.body)
      BY <1>4, <2>11, Zenon DEF Transition, Holding
    <3>2. fwd'[f].pc \in {"remove", "idle"}
      <4>1. CASE fwd' = [fwd EXCEPT ![f].pc = "remove"]
        BY <1>1, <4>1, Zenon DEF Shaped, Fields
      <4>2. CASE fwd' = [fwd EXCEPT ![f] = Idle]
        BY <1>1, <4>2, Zenon DEF Idle
      <4>3. CASE fwd' = [fwd EXCEPT ![f] = [fwd[f] EXCEPT !.pc = "remove"]]
        BY <1>1, <4>3, Zenon DEF Shaped, Fields
      <4> QED
        BY <2>11, <4>1, <4>2, <4>3, Zenon DEF Transition
    <3>3. UNCHANGED disk \/ disk' = [disk EXCEPT ![fwd[f].dest][fwd[f].key] = fwd[f].item]
      BY <2>11, Zenon DEF Transition, put
    <3>4. \A d \in Dir, j \in Key : disk'[d][j] = disk[d][j] \/ disk'[d][j] = fwd[f].item
      BY <1>1, <3>3 DEF DiskType
    <3> QED
      BY <2>2, <3>1, <3>2, <3>4, Zenon DEF Holding, exists
  <2> QED
    BY <1>9, <2>5, <2>6, <2>7, <2>8, <2>9, <2>10, <2>11, Zenon DEF ForwardStep
<1> QED
  BY <1>8, <1>9, Zenon

LEMMA OnceSteps ==
  ASSUME OneForwarder, OnceInv, [RelayNext]_relayVars
  PROVE  OnceInv'
<1>1. OutboxInv' /\ RelayInv'
  BY RelayOutbox, RelayNext_Inv, Zenon DEF OnceInv
<1>2. UNCHANGED nonce => Renewed
  BY Zenon DEF Renewed, OnceInv, Nonces
<1>3. ASSUME UNCHANGED ingressVars, Grows, Authors', now' = now \/ Prompt PROVE OnceInv'
  <2>1. UNCHANGED <<nonce, hand, enqueues>>
    BY <1>3, Zenon DEF ingressVars, stores
  <2>2. \A g \in Handler : hand'[g] = hand[g] /\ (now' = now \/ ~Clocked(g))
    BY <1>3, <2>1, Zenon DEF Prompt, Clocked
  <2>3. UNCHANGED enqueues /\ Renewed
    BY <1>2, <2>1, Zenon
  <2> QED
    BY <1>1, <1>3, <2>2, <2>3, OnceAround, Zenon
<1>4. ASSUME UNCHANGED outboxVars, Renewed, UNCHANGED enqueues,
             \A g \in Handler : hand'[g] = hand[g] \/ hand'[g] = Free
      PROVE  OnceInv'
  <2>1. Grows /\ Authors' /\ UNCHANGED now
    BY <1>4, OutboxStays, Zenon DEF outboxVars
  <2>2. \A g \in Handler : \/ hand'[g] = hand[g] /\ now' = now
                           \/ Requested(g)' /\ hand'[g].pc \notin Past
    BY <1>4, <2>1, FreeRequested, Zenon
  <2> QED
    BY <1>1, <1>4, <2>1, <2>2, OnceAround, Zenon
<1>5. HandShape
  BY Zenon DEF OnceInv, RelayInv, ReceiverInv
<1>6. CASE RelayTick
  <2>1. /\ UNCHANGED <<disk, fwd, prod, stolen, sent>> /\ now' = now + 1
        /\ UNCHANGED ingressVars /\ Prompt
    BY <1>6, Zenon DEF RelayTick, Tick
  <2>2. now \in Nat /\ now' \in Nat /\ now <= now'
    BY <2>1 DEF OnceInv, OutboxInv, OutboxType, DiskType
  <2>3. Grows
    BY <2>1, <2>2, Zenon DEF Grows, Stored, exists, Signed
  <2>4. \A p \in Producer : Signed(p)' => prod'[p].sentAt \in Nat /\ prod'[p].sentAt <= now'
    BY <2>1, <2>2 DEF OnceInv, Authors, Signed
  <2>5. Authors'
    BY <2>1, <2>4, Zenon DEF OnceInv, Authors, exists, Signed
  <2> QED
    BY <1>3, <2>1, <2>3, <2>5, Zenon
<1>7. CASE SenderStep
  <2>1. UNCHANGED ingressVars /\ OutboxInv /\ RelayInv /\ Authors
    BY <1>7, Zenon DEF SenderStep, OnceInv
  <2>2. ASSUME NEW p \in Producer, EmitStep(p) \/ KillProducer(p) \/ \E k \in Key : Emit(p, k)
        PROVE  OnceInv'
    <3>1. UNCHANGED now
      BY <2>2, Zenon DEF EmitStep, Probe, Acquire, SeesStale, Steal, LockTimeout, retryUsage, WriteItem,
                  Release, KillProducer, Emit
    <3> QED
      BY <1>3, <2>1, <2>2, <3>1, ProducerSigns, Zenon
  <2>3. ASSUME NEW f \in Forwarder, ForwardStep(f) \/ Failed(f) \/ KillForwarder(f)
        PROVE  OnceInv'
    <3>1. UNCHANGED now
      BY <2>3, Zenon DEF ForwardStep, Start, RecoverDone, Transition, Remove, ClaimList, ClaimNone, ClaimDrop,
                  ClaimRemove, Send, End, Recover, ClaimItem, Failed, KillForwarder
    <3> QED
      BY <1>3, <2>1, <2>3, <3>1, ForwarderSigns, Zenon
  <2>4. ASSUME NEW n \in Key \cup {"capacity"}, LockAges(n) PROVE OnceInv'
    <3>1. UNCHANGED <<disk, fwd, prod, stolen, now, sent>> /\ now \in Nat
      BY <2>1, <2>4, Zenon DEF LockAges, OutboxInv, OutboxType, DiskType
    <3>2. Grows
      BY <3>1 DEF Grows, Stored, exists, Signed
    <3>3. Authors'
      BY <2>1, <3>1, Zenon DEF Authors, exists, Signed
    <3> QED
      BY <1>3, <2>1, <3>1, <3>2, <3>3, Zenon
  <2> QED
    BY <1>7, <2>2, <2>3, <2>4, Zenon DEF SenderStep
<1>8. CASE ReceiverStep
  <2>1. UNCHANGED outboxVars
    BY <1>8, Zenon DEF ReceiverStep
  <2>2. CASE Crash
    BY <1>2, <1>4, <2>1, <2>2, Zenon DEF Crash, stores
  <2>3. ASSUME NEW k \in Key, ReceiptLockAges(k) PROVE OnceInv'
    BY <1>2, <1>4, <2>1, <2>3, Zenon DEF ReceiptLockAges
  <2>4. ASSUME NEW h \in Handler, ReplyLost(h) PROVE OnceInv'
    <3>1. /\ UNCHANGED <<nonce, enqueues>>
          /\ \A g \in Handler : hand'[g] = hand[g] \/ hand'[g] = Free
      BY <1>5, <2>4, Zenon DEF ReplyLost, stores, HandShape
    <3> QED
      BY <1>2, <1>4, <2>1, <3>1, Zenon
  <2>5. ASSUME NEW h \in Handler, AcceptStep(h) PROVE OnceInv'
    BY <1>1, <2>1, <2>5, AcceptOnce, Zenon
  <2> QED
    BY <1>8, <2>2, <2>3, <2>4, <2>5, Zenon DEF ReceiverStep
<1>9. ASSUME NEW b \in Body, Clean(b) PROVE OnceInv'
  <2>1. /\ nonce[b] # 0 /\ nonce[b] <= now /\ nonce' = [nonce EXCEPT ![b] = 0]
        /\ UNCHANGED <<hand, enqueues>> /\ UNCHANGED outboxVars
    BY <1>9, Zenon DEF Clean, Cleanup
  <2>2. nonce \in [Body -> Nat]
    BY Zenon DEF OnceInv, Nonces
  <2>3. Renewed
    BY <2>1, <2>2, Zenon DEF Renewed
  <2> QED
    BY <1>4, <2>1, <2>3, Zenon
<1>10. ASSUME NEW f \in Forwarder, NEW h \in Handler, Deliver(f, h) PROVE OnceInv'
  BY <1>1, <1>10, DeliverOnce, Zenon
<1>11. ASSUME NEW f \in Forwarder, NEW h \in Handler, Reply(f, h) PROVE OnceInv'
  <2>1. /\ Acked(f) \/ Failed(f)
        /\ hand' = [hand EXCEPT ![h] = Free] /\ UNCHANGED <<nonce, enqueues>>
    BY <1>11, Zenon DEF Reply, stores
  <2>2. Grows /\ Authors'
    BY <2>1, ForwarderSigns, Zenon DEF OnceInv
  <2>3. UNCHANGED now
    BY <2>1, Zenon DEF Acked, Failed
  <2>4. \A g \in Handler : hand'[g] = hand[g] \/ hand'[g] = Free
    BY <1>5, <2>1, Zenon DEF HandShape
  <2>5. \A g \in Handler : \/ hand'[g] = hand[g] /\ now' = now
                           \/ Requested(g)' /\ hand'[g].pc \notin Past
    BY <2>3, <2>4, FreeRequested, Zenon
  <2>6. UNCHANGED enqueues /\ Renewed
    BY <1>2, <2>1, Zenon
  <2> QED
    BY <1>1, <2>2, <2>5, <2>6, OnceAround, Zenon
<1>12. CASE UNCHANGED relayVars
  BY <1>2, <1>4, <1>12, Zenon DEF relayVars, ingressVars, stores
<1> QED
  BY <1>6, <1>7, <1>8, <1>9, <1>10, <1>11, <1>12, Zenon DEF RelayNext

LEMMA InitiallyOnce == RelayInit => OnceInv
<1> SUFFICES ASSUME RelayInit PROVE OnceInv
  OBVIOUS
<1>1. OutboxInv /\ RelayInv
  BY InitiallyOutbox, RelayInit_Inv, Zenon DEF RelayInit
<1>2. /\ \A d \in Dir, k \in Key : ~exists(d, k)
      /\ \A p \in Producer : ~Signed(p)
      /\ \A k \in Key : sent[k] = {}
  BY Zenon DEF RelayInit, OutboxInit, exists, Signed
<1>3. \A f \in Forwarder : fwd[f].pc = "idle"
  BY Zenon DEF RelayInit, OutboxInit, Idle
<1>4. \A h \in Handler : hand[h].pc = "free"
  BY Zenon DEF RelayInit, IngressInit, Free
<1>5. /\ nonce \in [Body -> Nat] /\ \A b \in Body : nonce[b] = 0
      /\ enqueues \in [Key -> Nat] /\ \A k \in Key : enqueues[k] = 0
  BY RelayAssumption, Zenon DEF RelayInit, IngressInit
<1>6. Authors
  BY <1>2, <1>3, Zenon DEF Authors, Holding
<1>7. \A h \in Handler : Requested(h)
  BY <1>4, Zenon DEF Requested
<1>8. Nonces
  BY <1>5, Zenon DEF Nonces
<1>9. \A k \in Key : Once(k)
  BY <1>4, <1>5 DEF Once, PastNonce, Past
<1> QED
  BY <1>1, <1>5, <1>6, <1>7, <1>8, <1>9, Zenon DEF OnceInv

\* Ingress.Accept calls Queue.Enqueue at most once for a delivery key, however often
\* the request is repeated, delayed or handled twice at a time and the receiver
\* killed in between, unless a producer lost both the locks of EnqueueBounded.
THEOREM EventIsEnqueuedOnce ==
  ASSUME OneForwarder
  PROVE  RelaySpec => []EnqueuedOnce
<1>1. OnceInv /\ [RelayNext]_relayVars => OnceInv'
  BY OnceSteps, Zenon
<1>2. OnceInv => EnqueuedOnce
  BY Zenon DEF OnceInv, Once, EnqueuedOnce
<1> QED
  BY <1>1, <1>2, InitiallyOnce, PTL DEF RelaySpec

\* Step by step, the outbox, the exchanges and Ingress.Accept do what Delivery allows:
\* every step of the relay is a step of the promise or leaves it as it is, as long as
\* no producer has lost both the locks of EnqueueBounded.
THEOREM RelayIsDelivery ==
  ASSUME OneForwarder
  PROVE  RelaySpec => /\ Promise!Init
                      /\ [][Promise!Next \/ \E k \in Key : Unlocked(k)]_(Promise!vars)
<1>1. OnceInv /\ [RelayNext]_relayVars => OnceInv'
  BY OnceSteps, Zenon
<1>2. ASSUME RelayInit PROVE Promise!Init
  <2>1. \A k \in Key : localQueue[k] = NoBody
    BY <1>2, RelayAssumption, Zenon DEF RelayInit, IngressInit
  <2>2. \A d \in Dir, k \in Key : ~exists(d, k)
    BY <1>2, Zenon DEF RelayInit, OutboxInit, exists
  <2> QED
    BY <2>1, <2>2, Zenon DEF Promise!Init, listing, Dir
<1>3. OnceInv /\ [RelayNext]_relayVars =>
        [Promise!Next \/ \E k \in Key : Unlocked(k)]_(Promise!vars)
  BY PromiseSteps, Zenon DEF OnceInv
<1> QED
  BY <1>1, <1>2, <1>3, InitiallyOnce, PTL DEF RelaySpec

=============================================================================
