---------------------------- MODULE OutboxProofs ----------------------------
(***************************************************************************)
(* Every step of Outbox keeps its invariant, for any number of producers,  *)
(* keys and kills and every backoff, lease and capacity, with one          *)
(* forwarder at a time.  DeliveryProofs draws the conclusions.             *)
(***************************************************************************)
EXTENDS OutboxInvariants, TLAPS

LEMMA NotesNothing ==
  ASSUME OutboxInv, UNCHANGED prod
  PROVE  Notes
BY Zenon DEF Notes, OutboxInv, OutboxType

LEMMA SmallerSet ==
  ASSUME CardinalityFacts, NEW S, IsFiniteSet(S), NEW T, T \subseteq S
  PROVE  /\ IsFiniteSet(T) /\ Cardinality(T) \in Nat /\ Cardinality(S) \in Nat
         /\ Cardinality(T) <= Cardinality(S)
BY Zenon DEF CardinalityFacts

LEMMA CapacityAfterForwarder ==
  ASSUME OutboxInv, UNCHANGED stolen, \A x \in Key : Kept(x), Notes
  PROVE  CapacityInv'
<1>1. Counted' \subseteq Counted
  <2>1. Counted' \subseteq Key
    BY Zenon DEF Counted, listing
  <2> QED
    BY <2>1, Zenon DEF Kept
<1>2. /\ CardinalityFacts
      /\ IsFiniteSet(Counted') /\ Cardinality(Counted') \in Nat /\ Cardinality(Counted) \in Nat
      /\ Cardinality(Counted') <= Cardinality(Counted)
  BY <1>1, SmallerSet, Zenon DEF OutboxInv, CapacityInv
<1>3. \A p \in Producer :
        /\ prod'[p].pc = prod[p].pc /\ prod'[p].probe = prod[p].probe
        /\ prod'[p].used = prod[p].used /\ (prod[p].moved => prod'[p].moved)
  BY Zenon DEF Notes, ProdFields
<1> SUFFICES ASSUME "capacity" \notin stolen, \A p \in Producer : ~prod'[p].moved
             PROVE  /\ Cardinality(Counted') <= Capacity
                    /\ \A p \in Producer :
                         /\ prod'[p].pc = "usage" /\ prod'[p].probe = 2 =>
                              Counts(prod[p], Key \ listing("pending"))'
                         /\ prod'[p].pc = "usage" /\ prod'[p].probe = 3 =>
                              Counts(prod[p], listing("dead"))'
                         /\ prod'[p].pc \in {"itemLock", "itemSteal", "enqueue", "write"} =>
                              Cardinality(Counted') + 1 <= Capacity
  BY <1>2, Zenon DEF CapacityInv, Counting
<1>4. /\ Cardinality(Counted) <= Capacity
      /\ \A p \in Producer :
           /\ prod[p].pc = "usage" /\ prod[p].probe = 2 => Counts(prod[p], Key \ listing("pending"))
           /\ prod[p].pc = "usage" /\ prod[p].probe = 3 => Counts(prod[p], listing("dead"))
           /\ prod[p].pc \in {"itemLock", "itemSteal", "enqueue", "write"} =>
                Cardinality(Counted) + 1 <= Capacity
  BY <1>3, Zenon DEF OutboxInv, CapacityInv, Counting
<1>5. ASSUME NEW p \in Producer, prod[p].pc = "usage", prod[p].probe = 2
      PROVE  Counts(prod[p], Key \ listing("pending"))'
  <2>1. PICK A \in SUBSET Key : /\ IsFiniteSet(A) /\ Cardinality(A) <= prod[p].used
                                /\ Counted \ A \subseteq Key \ listing("pending")
    BY <1>4, <1>5, Zenon DEF Counts
  <2>2. \A x \in Key : exists("pending", x)' => exists("pending", x)
    BY <1>5, Zenon DEF Kept
  <2>3. listing("pending")' \subseteq listing("pending")
    BY <2>2, Zenon DEF listing
  <2>4. Counted' \ A \subseteq Key \ listing("pending")'
    BY <1>1, <2>1, <2>3, Zenon
  <2> QED
    BY <1>3, <2>1, <2>4, Zenon DEF Counts
<1>6. ASSUME NEW p \in Producer, prod[p].pc = "usage", prod[p].probe = 3
      PROVE  Counts(prod[p], listing("dead"))'
  <2>1. PICK A \in SUBSET Key : /\ IsFiniteSet(A) /\ Cardinality(A) <= prod[p].used
                                /\ Counted \ A \subseteq listing("dead")
    BY <1>4, <1>6, Zenon DEF Counts
  <2>2. listing("dead") \subseteq listing("dead")'
    BY Zenon DEF Kept, listing
  <2>3. Counted' \ A \subseteq listing("dead")'
    BY <1>1, <2>1, <2>2, Zenon
  <2> QED
    BY <1>3, <2>1, <2>3, Zenon DEF Counts
<1>7. Cardinality(Counted') <= Capacity
  BY <1>2, <1>4, OutboxAssumption
<1>8. ASSUME NEW p \in Producer, prod'[p].pc \in {"itemLock", "itemSteal", "enqueue", "write"}
      PROVE  Cardinality(Counted') + 1 <= Capacity
  <2>1. Cardinality(Counted) + 1 <= Capacity
    BY <1>3, <1>4, <1>8, Zenon
  <2> QED
    BY <1>2, <2>1, OutboxAssumption
<1> QED
  BY <1>3, <1>5, <1>6, <1>7, <1>8, Zenon

LEMMA ForwarderStep ==
  ASSUME OutboxInv, UNCHANGED <<lock, stolen, now>>, DiskType',
         fwd' = [g \in Forwarder |-> fwd'[g]], \A g \in Forwarder : ForwarderOK(fwd[g])',
         \A x \in Key : Kept(x), Notes
  PROVE  OutboxInv'
<1>1. \A p \in Producer :
        /\ prod'[p].pc = prod[p].pc /\ prod'[p].key = prod[p].key
        /\ prod'[p].probe = prod[p].probe /\ prod'[p].result = prod[p].result
  BY DEF Notes, ProdFields
<1>2. \A p \in Producer : prod[p].pc # "start" => prod[p].key \in Key
  BY Zenon DEF OutboxInv, OutboxType, ProdOK
<1>3. OutboxType'
  <2>1. \A p \in Producer : ProdOK(prod[p])'
    BY Zenon DEF Notes, ProdOK
  <2> QED
    BY <2>1, Zenon DEF Notes, OutboxType
<1>4. Reported'
  <2> SUFFICES ASSUME NEW p \in Producer
               PROVE  /\ Reports(prod[p])' => Stored(prod[p].key)'
                      /\ prod'[p].pc = "acknowledged" => exists("history", prod[p].key)'
                      /\ prod'[p].pc = "deadLetter" => exists("dead", prod[p].key)'
    BY Zenon DEF Reported
  <2>1. /\ Reports(prod[p]) => Stored(prod[p].key)
        /\ prod[p].pc = "acknowledged" => exists("history", prod[p].key)
        /\ prod[p].pc = "deadLetter" => exists("dead", prod[p].key)
        /\ Reports(prod[p])' <=> Reports(prod[p])
        /\ Reports(prod[p]) => prod[p].pc # "start"
    BY <1>1, Zenon DEF OutboxInv, Reported, Reports, Told
  <2>2. CASE prod[p].pc = "start"
    BY <1>1, <2>1, <2>2, Zenon
  <2>3. CASE prod[p].pc # "start"
    <3>1. PICK x \in Key : x = prod[p].key
      BY <1>2, <2>3, Zenon
    <3>2. prod'[p].key = x /\ Kept(x)
      BY <1>1, <3>1, Zenon
    <3> QED
      BY <1>1, <2>1, <3>1, <3>2 DEF Kept, Stored, exists
  <2> QED
    BY <2>2, <2>3, Zenon
<1>5. Locked'
  BY <1>1, SMTT(30) DEF OutboxInv, Locked
<1>6. \A k \in Key : (~Unlocked(k) => ItemInv(k))'
  BY Zenon DEF Kept, Unlocked
<1>7. Searches'
  <2> SUFFICES ASSUME NEW p \in Producer PROVE Missed(prod[p])'
    BY Zenon DEF Searches
  <2>1. CASE prod[p].pc \notin InCapacity
    BY <1>1, <2>1, Zenon DEF Missed
  <2>2. CASE prod[p].pc \in InCapacity
    <3>1. PICK x \in Key : x = prod[p].key
      BY <1>2, <2>2, Zenon DEF InCapacity
    <3>2. prod'[p].key = x /\ Kept(x) /\ Missed(prod[p])
      BY <1>1, <3>1, Zenon DEF OutboxInv, Searches
    <3>3. (Stored(prod[p].key)' <=> Stored(x)') /\ (Unlocked(prod[p].key)' <=> Unlocked(x))
      BY <3>2, Zenon DEF Stored, exists, Unlocked
    <3>4. /\ Ready(prod[p].key)' <=> Ready(x)'
          /\ Fresh(prod[p].key)' <=> Fresh(x)'
          /\ Parked(prod[p].key)' <=> Parked(x)'
          /\ \A d \in Dir : exists(d, prod[p].key)' <=> exists(d, x)'
      BY <3>2, Zenon DEF Ready, Fresh, Parked, Settled, exists
    <3> QED
      BY <1>1, <3>1, <3>2, <3>3, <3>4, Zenon DEF Missed, Kept, Dir
  <2> QED
    BY <2>1, <2>2, Zenon
<1>8. CapacityInv'
  BY CapacityAfterForwarder, Zenon
<1> QED
  BY <1>3, <1>4, <1>5, <1>6, <1>7, <1>8, Zenon DEF OutboxInv


-----------------------------------------------------------------------------
\* The record of the one forwarder.

LEMMA Alone ==
  ASSUME OneForwarder, OutboxInv, NEW f \in Forwarder, NEW r, fwd' = [fwd EXCEPT ![f] = r]
  PROVE  /\ fwd' = [g \in Forwarder |-> fwd'[g]]
         /\ fwd'[f] = r /\ \A g \in Forwarder : g = f
<1>1. fwd' = [g \in Forwarder |-> IF g = f THEN r ELSE fwd[g]]
  BY Zenon DEF OutboxInv, OutboxType
<1> QED
  BY <1>1, Zenon DEF OneForwarder

\* Its record goes from q to r: it holds no item that it did not hold, and claims
\* none with an earlier listing.
Keeps(q, r, x) ==
  /\ Holds(r, x) => Holds(q, x) /\ r.at = q.at
  /\ Claims(r, x) => r.at = now \/ (Claims(q, x) /\ r.at = q.at)

Follows(q, r, x) ==
  /\ Keeps(q, r, x) /\ Handles(r, x)
  /\ Attempts(q, x) => Attempts(r, x) \/ kills < kills'

\* An item whose files the step leaves alone.
LEMMA SameDisk ==
  ASSUME OneForwarder, OutboxInv, NEW f \in Forwarder, NEW r, fwd' = [fwd EXCEPT ![f] = r],
         NEW x \in Key, \A d \in Dir : disk'[d][x] = disk[d][x], UNCHANGED <<stolen, now>>,
         ~Unlocked(x) => ItemInv(x)' /\ Keeps(fwd[f], r, x)
  PROVE  Kept(x)
<1>1. fwd'[f] = r /\ \A g \in Forwarder : g = f
  BY Alone, Zenon
<1>2. \A d \in Dir : exists(d, x)' <=> exists(d, x)
  BY Zenon DEF exists
<1>3. (Stored(x)' <=> Stored(x)) /\ (Settled(x)' <=> Settled(x))
  BY <1>2, Zenon DEF Stored, Settled, Dir
<1>4. x \in Counted' => x \in Counted
  BY <1>2, Zenon DEF Counted, listing, Dir
<1> SUFFICES ASSUME ~Unlocked(x)
             PROVE  /\ Parked(x) => Parked(x)'
                    /\ Fresh(x) => Fresh(x)'
                    /\ Ready(x) => Ready(x)'
  BY <1>2, <1>3, <1>4, Zenon DEF Kept, Dir
<1>5. Parked(x) => Parked(x)'
  BY <1>2, <1>3, Zenon DEF Parked, Dir
<1>6. Fresh(x) => Fresh(x)'
  BY <1>1, <1>2, <1>5, Zenon DEF Fresh, Dir, Keeps
<1>7. Ready(x) => Ready(x)'
  BY <1>1, <1>2, <1>6, Zenon DEF Ready, Dir, Keeps
<1> QED
  BY <1>5, <1>6, <1>7, Zenon

LEMMA Untouched ==
  ASSUME OneForwarder, OutboxInv, NEW f \in Forwarder, NEW r, fwd' = [fwd EXCEPT ![f] = r],
         NEW x \in Key, \A d \in Dir : disk'[d][x] = disk[d][x], UNCHANGED <<stolen, now>>,
         sends'[x] = sends[x], sent'[x] = sent[x], kills' \in Nat, kills <= kills',
         ~Unlocked(x) => Follows(fwd[f], r, x)
  PROVE  Kept(x)
<1>1. fwd'[f] = r /\ \A g \in Forwarder : g = f
  BY Alone, Zenon
<1>2. \A d \in Dir : exists(d, x)' <=> exists(d, x)
  BY Zenon DEF exists
<1>3. (Stored(x)' <=> Stored(x)) /\ (Settled(x)' <=> Settled(x))
  BY <1>2, Zenon DEF Stored, Settled, Dir
<1>4. ASSUME ~Unlocked(x) PROVE ItemInv(x)'
  <2>1. ItemInv(x)
    BY <1>4, Zenon DEF OutboxInv
  <2>2. OneBody(x)'
    BY <1>2, <1>3, <2>1, ZenonT(60) DEF ItemInv, OneBody
  <2>3. Places(x)'
    BY <1>2, <1>3, <2>1, Zenon DEF ItemInv, Places, Dir
  <2>4. Budget(x)'
    <3>1. /\ sends[x] \in Nat /\ kills \in Nat /\ Len(Backoff) \in Nat
          /\ \A d \in Dir : exists(d, x) => disk[d][x].attempts \in Nat
      BY OutboxAssumption DEF OutboxInv, OutboxType, DiskType, exists, Item
    <3>2. \A d \in Dir : exists(d, x)' <=> exists(d, x)
      BY <1>2, Zenon
    <3>3. (\E g \in Forwarder : Attempts(fwd[g], x)) => Attempts(fwd[f], x)
      BY <1>1, Zenon
    <3>4. Attempts(r, x) => \E g \in Forwarder : Attempts(fwd[g], x)'
      BY <1>1, Zenon DEF Attempts
    <3>5. /\ disk'["pending"][x] = disk["pending"][x] /\ disk'["inflight"][x] = disk["inflight"][x]
          /\ exists("pending", x) => disk["pending"][x].attempts \in Nat
          /\ exists("inflight", x) => disk["inflight"][x].attempts \in Nat
          /\ exists("pending", x)' => exists("pending", x)
          /\ exists("inflight", x)' => exists("inflight", x)
      BY <3>1, <3>2, Zenon DEF Dir
    <3>6. Budget(x)
      BY <2>1, Zenon DEF ItemInv
    <3>7. sends'[x] <= Len(Backoff) + kills'
      <4>1. sends[x] <= Len(Backoff) + kills
        BY <3>6, Zenon DEF Budget
      <4> QED
        BY <3>1, <4>1
    <3>9. ASSUME exists("pending", x)'
          PROVE  /\ disk'["pending"][x].attempts < Len(Backoff)
                 /\ sends'[x] <= disk'["pending"][x].attempts + kills'
      <4>1. /\ disk["pending"][x].attempts < Len(Backoff)
            /\ sends[x] <= disk["pending"][x].attempts + kills
            /\ disk["pending"][x].attempts \in Nat
        BY <3>5, <3>6, <3>9, Zenon DEF Budget
      <4> QED
        BY <3>1, <3>5, <4>1, SMTT(30), SMTT(30)
    <3>8. ASSUME exists("inflight", x)', ~Settled(x)'
          PROVE  /\ disk'["inflight"][x].attempts < Len(Backoff)
                 /\ \/ sends'[x] <= disk'["inflight"][x].attempts + kills'
                    \/ /\ sends'[x] <= disk'["inflight"][x].attempts + kills' + 1
                       /\ \E g \in Forwarder : Attempts(fwd[g], x)'
      <4>1. /\ disk["inflight"][x].attempts < Len(Backoff)
            /\ \/ sends[x] <= disk["inflight"][x].attempts + kills
               \/ /\ sends[x] <= disk["inflight"][x].attempts + kills + 1
                  /\ \E g \in Forwarder : Attempts(fwd[g], x)
        BY <1>3, <3>5, <3>6, <3>8, Zenon DEF Budget
      <4>2. disk["inflight"][x].attempts \in Nat
        BY <3>5, <3>8, Zenon
      <4>3. CASE sends[x] <= disk["inflight"][x].attempts + kills
        BY <3>1, <3>5, <4>1, <4>2, <4>3, SMTT(30), SMTT(30)
      <4>4. CASE sends[x] <= disk["inflight"][x].attempts + kills + 1 /\ Attempts(r, x)
        BY <3>1, <3>4, <3>5, <4>1, <4>2, <4>4, SMTT(30), SMTT(30)
      <4>6. CASE sends[x] <= disk["inflight"][x].attempts + kills + 1 /\ kills < kills'
        BY <3>1, <3>5, <4>1, <4>2, <4>6, SMTT(60), SMTT(60)
      <4>5. Attempts(fwd[f], x) => Attempts(r, x) \/ kills < kills'
        BY <1>4, Zenon DEF Follows
      <4> QED
        BY <3>3, <4>1, <4>3, <4>4, <4>5, <4>6, Zenon
    <3> QED
      BY <3>7, <3>8, <3>9, Zenon DEF Budget
  <2>5. \A g \in Forwarder : Handles(fwd[g], x)'
    BY <1>1, <1>2, <1>3, <1>4, Zenon DEF Handles, Dir, Follows
  <2> QED
    BY <2>2, <2>3, <2>4, <2>5, Zenon DEF ItemInv
<1> QED
  BY <1>4, SameDisk, Zenon DEF Follows


\* A step that changes the record only.
LEMMA StillStep ==
  ASSUME OneForwarder, OutboxInv, NEW f \in Forwarder, NEW r, fwd' = [fwd EXCEPT ![f] = r],
         UNCHANGED <<disk, lock, stolen, prod, now, sent, sends>>,
         kills' \in Nat, kills <= kills', ForwarderOK(r),
         \A x \in Key : ~Unlocked(x) => Follows(fwd[f], r, x)
  PROVE  OutboxInv'
<1>1. \A x \in Key : Kept(x)
  BY Untouched, Zenon
<1>2. /\ fwd' = [g \in Forwarder |-> fwd'[g]] /\ fwd'[f] = r
      /\ \A g \in Forwarder : g = f
  BY Alone, Zenon
<1>3. \A g \in Forwarder : ForwarderOK(fwd[g])'
  BY <1>2, ZenonT(60) DEF ForwarderOK, Lists, exists
<1>4. DiskType'
  BY Zenon DEF DiskType, OutboxInv, OutboxType
<1> QED
  BY <1>1, <1>2, <1>3, <1>4, NotesNothing, ForwarderStep, Zenon

\* A record without an item.
LEMMA Quiet ==
  ASSUME NEW q, NEW r, r.pc \in {"idle", "recover", "claim", "next"}, NEW x,
         Attempts(q, x) => kills < kills'
  PROVE  Follows(q, r, x)
BY Zenon DEF Follows, Keeps, Holds, Claims, Handles, Attempts, Exchange

LEMMA QuietOK ==
  ASSUME NEW r, Shaped(r), r.at \in Nat, r.at <= now, r.pc \in {"idle", "claim", "next"}
  PROVE  ForwarderOK(r)
<1>1. CASE r.pc = "idle"
  BY <1>1, Zenon DEF ForwarderOK, Exchange, Shaped
<1>2. CASE r.pc = "claim"
  BY <1>2, Zenon DEF ForwarderOK, Exchange, Shaped
<1>3. CASE r.pc = "next"
  BY <1>3, Zenon DEF ForwarderOK, Exchange, Shaped
<1> QED
  BY <1>1, <1>2, <1>3, Zenon

LEMMA IdleOK ==
  ASSUME OutboxInv
  PROVE  ForwarderOK(Idle) /\ Idle.pc = "idle"
<1>1. Shaped(Idle) /\ Idle.at = 0 /\ Idle.pc = "idle"
  BY Zenon DEF Idle, Shaped, Fields, ZeroTime
<1>2. now \in Nat
  BY Zenon DEF OutboxInv, OutboxType, DiskType
<1> HIDE DEF Idle
<1> QED
  BY <1>1, <1>2, QuietOK

LEMMA ClaimOK ==
  ASSUME OutboxInv
  PROVE  ForwarderOK([Idle EXCEPT !.pc = "claim"]) /\ [Idle EXCEPT !.pc = "claim"].pc = "claim"
<1> DEFINE r == [Idle EXCEPT !.pc = "claim"]
<1>1. Shaped(r) /\ r.at = 0 /\ r.pc = "claim"
  BY Zenon DEF Idle, Shaped, Fields, ZeroTime
<1>2. now \in Nat
  BY Zenon DEF OutboxInv, OutboxType, DiskType
<1> HIDE DEF r
<1>3. ForwarderOK(r) /\ r.pc = "claim"
  BY <1>1, <1>2, QuietOK
<1> QED
  BY <1>3, Zenon DEF r

\* Start, RecoverDone, ClaimNone, End and KillForwarder.
LEMMA StartStep ==
  ASSUME OneForwarder, OutboxInv, NEW f \in Forwarder, Start(f)
  PROVE  OutboxInv'
<1> DEFINE todo == restricted("inflight", listing("inflight"))
           r == [Idle EXCEPT !.pc = "recover", !.at = now, !.todo = todo]
<1>1. now \in Nat /\ kills' \in Nat /\ kills <= kills' /\ (\A x \in Key : ~Attempts(fwd[f], x))
  BY DEF Start, OutboxInv, OutboxType, DiskType, Attempts
<1>2. CASE fwd' = [fwd EXCEPT ![f] = r]
  <2>1. Shaped(r) /\ r.at = now /\ r.pc = "recover" /\ r.todo = todo /\ r.key = None
    BY Zenon DEF Idle, Shaped, Fields
  <2>2. Lists(r, "inflight")
    <3>1. DOMAIN todo = listing("inflight") /\ \A k \in listing("inflight") : todo[k] = disk["inflight"][k]
      BY Zenon DEF restricted
    <3> HIDE DEF todo, r
    <3> QED
      BY <2>1, <3>1, OutboxAssumption, Zenon DEF Lists, listing, exists
  <2> HIDE DEF r, todo
  <2>3. ForwarderOK(r)
    <3>1. Shaped(r) /\ r.at \in Nat /\ r.at <= now /\ r.pc = "recover"
      BY <1>1, <2>1
    <3> QED
      BY <2>2, <3>1, Zenon DEF ForwarderOK, Exchange, Shaped
  <2>4. \A x \in Key : Follows(fwd[f], r, x)
    BY <1>1, <2>1, Quiet
  <2>5. UNCHANGED <<disk, lock, stolen, prod, now, sent, sends>>
    BY Zenon DEF Start
  <2> QED
    BY <1>1, <1>2, <2>3, <2>4, <2>5, StillStep, Zenon
<1>3. CASE fwd' = [fwd EXCEPT ![f] = [Idle EXCEPT !.pc = "claim"]]
  <2> DEFINE c == [Idle EXCEPT !.pc = "claim"]
  <2>1. ForwarderOK(c) /\ c.pc = "claim"
    BY ClaimOK, Zenon
  <2>2. UNCHANGED <<disk, lock, stolen, prod, now, sent, sends>>
    BY Zenon DEF Start
  <2>3. fwd' = [fwd EXCEPT ![f] = c]
    BY <1>3, Zenon
  <2> HIDE DEF c
  <2>4. \A x \in Key : Follows(fwd[f], c, x)
    BY <1>1, <2>1, Quiet
  <2> QED
    BY <1>1, <2>1, <2>2, <2>3, <2>4, StillStep, Zenon
<1> QED
  BY <1>2, <1>3, Zenon DEF Start

LEMMA RestStep ==
  ASSUME OneForwarder, OutboxInv, NEW f \in Forwarder,
         RecoverDone(f) \/ ClaimNone(f) \/ End(f) \/ KillForwarder(f)
  PROVE  OutboxInv'
<1>1. now \in Nat /\ kills \in Nat
  BY Zenon DEF OutboxInv, OutboxType, DiskType
<1>2. CASE RecoverDone(f)
  <2>1. /\ fwd' = [fwd EXCEPT ![f] = [Idle EXCEPT !.pc = "claim"]] /\ kills' = kills
        /\ UNCHANGED <<disk, lock, stolen, prod, now, sent, sends>>
        /\ \A x \in Key : ~Attempts(fwd[f], x)
    BY <1>2, Zenon DEF RecoverDone, Attempts
  <2> DEFINE c == [Idle EXCEPT !.pc = "claim"]
  <2>2. ForwarderOK(c) /\ c.pc = "claim" /\ fwd' = [fwd EXCEPT ![f] = c]
    BY <2>1, ClaimOK, Zenon
  <2> HIDE DEF c
  <2>3. \A x \in Key : Follows(fwd[f], c, x)
    BY <2>1, <2>2, Quiet
  <2>4. UNCHANGED <<disk, lock, stolen, prod, now, sent, sends>> /\ kills' \in Nat /\ kills <= kills'
    BY <1>1, <2>1
  <2> QED
    BY <2>2, <2>3, <2>4, StillStep, Zenon
<1>3. ASSUME ClaimNone(f) \/ End(f) \/ KillForwarder(f)
      PROVE  OutboxInv'
  <2>1. /\ fwd' = [fwd EXCEPT ![f] = Idle]
        /\ UNCHANGED <<disk, lock, stolen, prod, now, sent, sends>>
    BY <1>3, Zenon DEF ClaimNone, End, KillForwarder
  <2>2. kills' \in Nat /\ kills <= kills'
    BY <1>1, <1>3 DEF ClaimNone, End, KillForwarder
  <2>3. \A x \in Key : Attempts(fwd[f], x) => kills < kills'
    BY <1>1, <1>3 DEF ClaimNone, End, KillForwarder, Attempts
  <2>4. \A x \in Key : Follows(fwd[f], Idle, x)
    BY <2>3, IdleOK, Quiet
  <2> QED
    BY <2>1, <2>2, <2>4, IdleOK, StillStep, Zenon
<1> QED
  BY <1>2, <1>3, Zenon


LEMMA CalmStep ==
  ASSUME OneForwarder, OutboxInv, NEW f \in Forwarder, NEW r, fwd' = [fwd EXCEPT ![f] = r],
         UNCHANGED <<disk, lock, stolen, prod, now, sent, sends, kills>>, ForwarderOK(r),
         \A x \in Key : ~Unlocked(x) => Follows(fwd[f], r, x)
  PROVE  OutboxInv'
<1>1. kills' \in Nat /\ kills <= kills'
  BY DEF OutboxInv, OutboxType, DiskType
<1>2. UNCHANGED <<disk, lock, stolen, prod, now, sent, sends>>
  OBVIOUS
<1> QED
  BY <1>1, <1>2, StillStep, Zenon

\* A listing without the item that is taken from it.
LEMMA RestLists ==
  ASSUME NEW f \in Forwarder, NEW d, Lists(fwd[f], d), NEW k, NEW r, r.todo = rest(f, k),
         r.key = k \/ r.key = fwd[f].key
  PROVE  /\ Lists(r, d) /\ k \notin DOMAIN r.todo
         /\ \A j \in DOMAIN r.todo : j \in DOMAIN fwd[f].todo
<1>1. /\ DOMAIN r.todo = DOMAIN fwd[f].todo \ {k}
      /\ \A j \in DOMAIN r.todo : r.todo[j] = fwd[f].todo[j]
  BY Zenon DEF rest
<1> QED
  BY <1>1, Zenon DEF Lists

LEMMA RecoverStep ==
  ASSUME OneForwarder, OutboxInv, NEW f \in Forwarder, NEW k \in Key, Recover(f, k)
  PROVE  OutboxInv'
<1> DEFINE item == fwd[f].todo[k]
           taken == [item EXCEPT !.lease = ZeroTime]
           r1 == [fwd[f] EXCEPT !.pc = "remove", !.todo = rest(f, k), !.key = k, !.then = "recover"]
           r2 == [fwd[f] EXCEPT !.todo = rest(f, k)]
           r3 == [fwd[f] EXCEPT !.pc = "transition", !.todo = rest(f, k), !.key = k,
                                !.dest = "pending", !.item = taken, !.then = "recover"]
<1>1. /\ ForwarderOK(fwd[f]) /\ fwd[f].pc = "recover" /\ k \in DOMAIN fwd[f].todo
      /\ UNCHANGED <<disk, lock, stolen, prod, now, sent, sends, kills>>
  BY Zenon DEF OutboxInv, OutboxType, Recover
<1>2. /\ Shaped(fwd[f]) /\ fwd[f].at \in Nat /\ fwd[f].at <= now /\ Lists(fwd[f], "inflight")
  BY <1>1, Zenon DEF ForwarderOK, Shaped
<1>3. /\ item = disk["inflight"][k] /\ exists("inflight", k) /\ item \in Item
  <2>1. item = disk["inflight"][k] /\ disk["inflight"][k] # None
    BY <1>1, <1>2, Zenon DEF Lists
  <2>2. disk["inflight"][k] \in Item \cup {None}
    BY Zenon DEF OutboxInv, OutboxType, DiskType, Dir
  <2> QED
    BY <2>1, <2>2, Zenon DEF exists
<1>4. \A x \in Key : ~Attempts(fwd[f], x)
  BY <1>1, Zenon DEF Attempts
<1>5. \/ /\ \E d \in {"pending", "history", "dead"} : exists(d, k)
         /\ fwd' = [fwd EXCEPT ![f] = r1]
      \/ fwd' = [fwd EXCEPT ![f] = r2]
      \/ /\ \A d \in {"pending", "history", "dead"} : ~exists(d, k)
         /\ item.lease <= fwd[f].at /\ fwd' = [fwd EXCEPT ![f] = r3]
  BY <1>2, ZenonT(30) DEF Recover
<1>6. CASE /\ \E d \in {"pending", "history", "dead"} : exists(d, k)
           /\ fwd' = [fwd EXCEPT ![f] = r1]
  <2>1. /\ r1.pc = "remove" /\ r1.at = fwd[f].at /\ r1.todo = rest(f, k) /\ r1.key = k
        /\ r1.then = "recover" /\ Shaped(r1)
    BY <1>2, Zenon DEF Shaped, Fields
  <2>2. fwd' = [fwd EXCEPT ![f] = r1]
    BY <1>6, Zenon
  <2> HIDE DEF r1
  <2>3. Lists(r1, "inflight")
    BY <1>2, <2>1, RestLists, Zenon
  <2>4. ForwarderOK(r1)
    BY <1>2, <1>6, <2>1, <2>3, Zenon DEF ForwarderOK, Exchange, Shaped
  <2>5. \A x \in Key : Follows(fwd[f], r1, x)
    BY <1>4, <2>1, Zenon DEF Follows, Keeps, Holds, Claims, Handles, Exchange
  <2> QED
    BY <1>1, <2>2, <2>4, <2>5, CalmStep, Zenon
<1>7. CASE fwd' = [fwd EXCEPT ![f] = r2]
  <2>1. /\ r2.pc = "recover" /\ r2.at = fwd[f].at /\ r2.todo = rest(f, k) /\ r2.key = fwd[f].key
        /\ Shaped(r2)
    BY <1>1, <1>2, Zenon DEF Shaped, Fields
  <2>2. fwd' = [fwd EXCEPT ![f] = r2]
    BY <1>7, Zenon
  <2> HIDE DEF r2
  <2>3. Lists(r2, "inflight")
    BY <1>2, <2>1, RestLists, Zenon
  <2>4. ForwarderOK(r2)
    BY <1>2, <2>1, <2>3, Zenon DEF ForwarderOK, Exchange, Shaped
  <2>5. \A x \in Key : Follows(fwd[f], r2, x)
    BY <1>4, <2>1, Quiet
  <2> QED
    BY <1>1, <2>2, <2>4, <2>5, CalmStep, Zenon
<1>8. CASE /\ \A d \in {"pending", "history", "dead"} : ~exists(d, k)
           /\ item.lease <= fwd[f].at /\ fwd' = [fwd EXCEPT ![f] = r3]
  <2>1. /\ r3.pc = "transition" /\ r3.at = fwd[f].at /\ r3.todo = rest(f, k) /\ r3.key = k
        /\ r3.then = "recover" /\ r3.dest = "pending" /\ r3.item = taken /\ Shaped(r3)
    BY <1>2, Zenon DEF Shaped, Fields
  <2>2. taken \in Item /\ taken.body = item.body /\ taken.attempts = item.attempts
    BY <1>3, Zenon DEF Item, ZeroTime
  <2>3. fwd' = [fwd EXCEPT ![f] = r3]
    BY <1>8, Zenon
  <2> HIDE DEF r3, taken
  <2>4. Lists(r3, "inflight")
    BY <1>2, <2>1, RestLists, Zenon
  <2>5. ForwarderOK(r3)
    BY <1>2, <1>3, <2>1, <2>2, <2>4, Zenon DEF ForwarderOK, Exchange, Shaped
  <2>6. \A x \in Key : Follows(fwd[f], r3, x)
    <3>1. \A x \in Key : Keeps(fwd[f], r3, x) /\ ~Holds(r3, x)
      BY <2>1, Zenon DEF Keeps, Holds, Claims, Exchange
    <3>2. \A x \in Key : Handles(r3, x)
      BY <1>3, <1>8, <2>1, <2>2, <3>1, Zenon DEF Handles, Settled
    <3> QED
      BY <1>4, <3>1, <3>2, Zenon DEF Follows
  <2> QED
    BY <1>1, <2>3, <2>5, <2>6, CalmStep, Zenon
<1> QED
  BY <1>5, <1>6, <1>7, <1>8, Zenon


LEMMA ClaimListStep ==
  ASSUME OneForwarder, OutboxInv, NEW f \in Forwarder, ClaimList(f)
  PROVE  OutboxInv'
<1> DEFINE due == {k \in listing("pending") : disk["pending"][k].next <= now}
           todo == restricted("pending", due)
           r == [Idle EXCEPT !.pc = "claiming", !.at = now, !.todo = todo]
<1>1. /\ fwd' = [fwd EXCEPT ![f] = r]
      /\ UNCHANGED <<disk, lock, stolen, prod, now, sent, sends, kills>>
  BY Zenon DEF ClaimList
<1>2. now \in Nat /\ \A x \in Key : ~Attempts(fwd[f], x)
  BY Zenon DEF ClaimList, OutboxInv, OutboxType, DiskType, Attempts
<1>3. /\ DOMAIN todo = due /\ \A k \in due : todo[k] = disk["pending"][k]
  BY Zenon DEF restricted
<1>4. \A k \in due : k \in Key /\ disk["pending"][k] # None /\ disk["pending"][k].next <= now
  BY Zenon DEF listing, exists
<1>5. Shaped(r) /\ r.at = now /\ r.pc = "claiming" /\ r.todo = todo /\ r.key = None
  BY Zenon DEF Idle, Shaped, Fields
<1> HIDE DEF todo, r, due
<1>6. Lists(r, "pending") /\ \A k \in DOMAIN r.todo : disk["pending"][k].next <= r.at
  BY <1>3, <1>4, <1>5, OutboxAssumption, Zenon DEF Lists
<1>7. ForwarderOK(r)
  <2>1. Shaped(r) /\ r.at \in Nat /\ r.at <= now /\ r.pc = "claiming"
    BY <1>2, <1>5
  <2> QED
    BY <1>6, <2>1, Zenon DEF ForwarderOK, Exchange, Shaped
<1>8. \A x \in Key : Follows(fwd[f], r, x)
  BY <1>2, <1>5, Zenon DEF Follows, Keeps, Holds, Claims, Handles, Exchange
<1> QED
  BY <1>1, <1>7, <1>8, CalmStep, Zenon

\* ClaimItem, of an item whose claim is there already.
LEMMA ClaimedStep ==
  ASSUME OneForwarder, OutboxInv, NEW f \in Forwarder, NEW k \in Key, ClaimItem(f, k),
         exists("inflight", k)
  PROVE  OutboxInv'
<1> DEFINE r == [fwd[f] EXCEPT !.pc = "claimDrop", !.key = k, !.todo = rest(f, k)]
<1>1. /\ ForwarderOK(fwd[f]) /\ fwd[f].pc = "claiming" /\ k \in DOMAIN fwd[f].todo
      /\ UNCHANGED <<disk, lock, stolen, prod, now, sent, sends, kills>>
  BY Zenon DEF OutboxInv, OutboxType, ClaimItem
<1>2. /\ Shaped(fwd[f]) /\ fwd[f].at \in Nat /\ fwd[f].at <= now /\ Lists(fwd[f], "pending")
      /\ \A j \in DOMAIN fwd[f].todo : disk["pending"][j].next <= fwd[f].at
  BY <1>1, Zenon DEF ForwarderOK, Shaped
<1>3. fwd' = [fwd EXCEPT ![f] = r]
  BY <1>2, Zenon DEF ClaimItem
<1>4. /\ r.pc = "claimDrop" /\ r.at = fwd[f].at /\ r.todo = rest(f, k) /\ r.key = k /\ Shaped(r)
  BY <1>2, Zenon DEF Shaped, Fields
<1> HIDE DEF r
<1>5. Lists(r, "pending") /\ \A j \in DOMAIN r.todo : j \in DOMAIN fwd[f].todo
  BY <1>2, <1>4, RestLists, Zenon
<1>6. exists("pending", k) /\ disk["pending"][k].next <= fwd[f].at
  BY <1>1, <1>2, Zenon DEF Lists, exists
<1>7. ForwarderOK(r)
  BY <1>2, <1>4, <1>5, <1>6, Zenon DEF ForwarderOK, Exchange, Shaped
<1>8. \A x \in Key : Follows(fwd[f], r, x)
  BY <1>1, <1>4, <1>5, Zenon DEF Follows, Keeps, Holds, Claims, Handles, Exchange, Attempts
<1> QED
  BY <1>1, <1>3, <1>7, <1>8, CalmStep, Zenon

\* What the invariant says of an exchange.
LEMMA Exchanges ==
  ASSUME OutboxInv, NEW f \in Forwarder, fwd[f].pc \in Exchange
  PROVE  /\ Shaped(fwd[f]) /\ fwd[f].at \in Nat /\ fwd[f].at <= now
         /\ fwd[f].key \in Key /\ fwd[f].item \in Item /\ exists("inflight", fwd[f].key)
         /\ ~Unlocked(fwd[f].key) => Handles(fwd[f], fwd[f].key) /\ Holds(fwd[f], fwd[f].key)
<1>1. ForwarderOK(fwd[f])
  BY Zenon DEF OutboxInv, OutboxType
<1>2. /\ Shaped(fwd[f]) /\ fwd[f].at \in Nat /\ fwd[f].at <= now
      /\ fwd[f].key \in Key /\ fwd[f].item \in Item /\ exists("inflight", fwd[f].key)
  BY <1>1, Zenon DEF ForwarderOK, Shaped
<1>3. ~Unlocked(fwd[f].key) => Handles(fwd[f], fwd[f].key)
  BY <1>2, Zenon DEF OutboxInv, ItemInv
<1> QED
  BY <1>2, <1>3, Zenon DEF Holds

LEMMA AckedStep ==
  ASSUME OneForwarder, OutboxInv, NEW f \in Forwarder, Acked(f)
  PROVE  OutboxInv'
<1> DEFINE k == fwd[f].key
           item == [fwd[f].item EXCEPT !.lease = ZeroTime, !.next = ZeroTime]
           r == [fwd[f] EXCEPT !.pc = "transition", !.dest = "history",
                               !.item = item, !.then = "next"]
<1>1. /\ fwd[f].pc \in {"sending", "awaiting"}
      /\ UNCHANGED <<disk, lock, stolen, prod, now, sent, sends, kills>>
  BY Zenon DEF Acked
<1>2. /\ Shaped(fwd[f]) /\ fwd[f].at \in Nat /\ fwd[f].at <= now
      /\ k \in Key /\ fwd[f].item \in Item /\ exists("inflight", k)
      /\ ~Unlocked(k) => Handles(fwd[f], k) /\ Holds(fwd[f], k)
  BY <1>1, Exchanges, Zenon DEF Exchange
<1>3. fwd' = [fwd EXCEPT ![f] = r]
  BY <1>2, Zenon DEF Acked
<1>4. item \in Item /\ item.body = fwd[f].item.body
  BY <1>2, Zenon DEF Item, ZeroTime
<1>5. /\ r.pc = "transition" /\ r.at = fwd[f].at /\ r.key = k /\ r.item = item
      /\ r.dest = "history" /\ r.then = "next" /\ Shaped(r)
  BY <1>2, Zenon DEF Shaped, Fields
<1> HIDE DEF r, item
<1>6. ForwarderOK(r)
  BY <1>2, <1>4, <1>5, Zenon DEF ForwarderOK, Exchange, Shaped
<1>7. ASSUME NEW x \in Key, ~Unlocked(x) PROVE Follows(fwd[f], r, x)
  <2>1. Keeps(fwd[f], r, x) /\ (Attempts(fwd[f], x) => Attempts(r, x))
    BY <1>1, <1>5, Zenon DEF Keeps, Holds, Claims, Attempts, Exchange
  <2>2. Handles(r, x)
    BY <1>2, <1>4, <1>5, <1>7, Zenon DEF Handles, Exchange, Holds
  <2> QED
    BY <2>1, <2>2, Zenon DEF Follows
<1> QED
  BY <1>1, <1>3, <1>6, <1>7, CalmStep, Zenon


LEMMA NackedItem ==
  ASSUME NEW item \in Item, NEW time \in Nat
  PROVE  /\ nacked(item, time) \in Item /\ nacked(item, time).body = item.body
         /\ nacked(item, time).attempts = item.attempts + 1
         /\ item.attempts + 1 < Len(Backoff) => nacked(item, time).next > time
<1> DEFINE next == IF item.attempts + 1 >= Len(Backoff) THEN ZeroTime
                   ELSE time + Backoff[item.attempts + 1]
<1>1. item.attempts \in Nat /\ item.attempts + 1 \in Nat
  BY DEF Item
<1>2. Len(Backoff) \in Nat /\ \A i \in 1..Len(Backoff) : Backoff[i] \in Nat /\ Backoff[i] > 0
  BY OutboxAssumption
<1>3. next \in Nat /\ (item.attempts + 1 < Len(Backoff) => next > time)
  BY <1>1, <1>2, SMTT(30), SMTT(30) DEF ZeroTime
<1>4. nacked(item, time) = [item EXCEPT !.attempts = item.attempts + 1, !.lease = ZeroTime,
                                        !.next = next]
  BY <1>1, Zenon DEF nacked, Item
<1> HIDE DEF next
<1>5. PICK a \in Nat, n \in Nat : a = item.attempts + 1 /\ n = next
  BY <1>1, <1>3, Zenon
<1>7. nacked(item, time) = [item EXCEPT !.attempts = a, !.lease = ZeroTime, !.next = n]
  BY <1>4, <1>5, Zenon
<1>8. /\ nacked(item, time) \in Item /\ nacked(item, time).body = item.body
      /\ nacked(item, time).attempts = a /\ nacked(item, time).next = n
  <2> DEFINE e == [item EXCEPT !.attempts = a, !.lease = ZeroTime, !.next = n]
  <2>1. e \in Item
    BY Zenon DEF Item, ZeroTime
  <2>2. e.body = item.body /\ e.attempts = a /\ e.next = n
    BY Zenon DEF Item, ZeroTime
  <2> QED
    BY <1>7, <2>1, <2>2, Zenon
<1>6. /\ nacked(item, time) \in Item /\ nacked(item, time).body = item.body
      /\ nacked(item, time).attempts = item.attempts + 1 /\ nacked(item, time).next = next
  BY <1>5, <1>8, Zenon
<1> QED
  BY <1>3, <1>6, Zenon

LEMMA FailedStep ==
  ASSUME OneForwarder, OutboxInv, NEW f \in Forwarder, Failed(f)
  PROVE  OutboxInv'
<1> DEFINE k == fwd[f].key
           item == nacked(fwd[f].item, fwd[f].at)
           dest == IF fwd[f].item.attempts + 1 >= Len(Backoff) THEN "dead" ELSE "pending"
           r == [fwd[f] EXCEPT !.pc = "transition", !.dest = dest, !.item = item, !.then = "idle"]
<1>1. /\ fwd[f].pc \in {"sending", "awaiting"}
      /\ UNCHANGED <<disk, lock, stolen, prod, now, sent, sends, kills>>
  BY Zenon DEF Failed
<1>2. /\ Shaped(fwd[f]) /\ fwd[f].at \in Nat /\ fwd[f].at <= now
      /\ k \in Key /\ fwd[f].item \in Item /\ exists("inflight", k)
      /\ ~Unlocked(k) => Handles(fwd[f], k) /\ Holds(fwd[f], k)
  BY <1>1, Exchanges, Zenon DEF Exchange
<1>3. fwd' = [fwd EXCEPT ![f] = r]
  BY <1>2, Zenon DEF Failed
<1>4. /\ item \in Item /\ item.body = fwd[f].item.body /\ item.attempts = fwd[f].item.attempts + 1
      /\ fwd[f].item.attempts + 1 < Len(Backoff) => item.next > fwd[f].at
  BY <1>2, NackedItem, Zenon
<1>5. /\ dest \in {"pending", "dead"}
      /\ dest = "pending" => fwd[f].item.attempts + 1 < Len(Backoff)
  BY <1>2, OutboxAssumption, SMTT(30) DEF Item
<1>6. /\ r.pc = "transition" /\ r.at = fwd[f].at /\ r.key = k /\ r.item = item
      /\ r.dest = dest /\ r.then = "idle" /\ Shaped(r)
  BY <1>2, Zenon DEF Shaped, Fields
<1> HIDE DEF r, item, dest
<1>7. ForwarderOK(r)
  BY <1>2, <1>4, <1>5, <1>6, Zenon DEF ForwarderOK, Exchange, Shaped
<1>8. ASSUME NEW x \in Key, ~Unlocked(x) PROVE Follows(fwd[f], r, x)
  <2>1. Keeps(fwd[f], r, x) /\ (Attempts(fwd[f], x) => Attempts(r, x))
    BY <1>1, <1>6, Zenon DEF Keeps, Holds, Claims, Attempts, Exchange
  <2>2. CASE x # k
    BY <1>6, <2>1, <2>2, Zenon DEF Handles, Holds, Follows
  <2>3. CASE x = k
    <3>1. /\ ~exists("pending", k) /\ ~Settled(k)
          /\ fwd[f].item.body = disk["inflight"][k].body
          /\ disk["inflight"][k].lease = fwd[f].at + Lease
          /\ fwd[f].item.attempts = disk["inflight"][k].attempts
      BY <1>1, <1>2, <1>8, <2>3, Zenon DEF Handles, Exchange
    <3>2. dest = "pending" => item.attempts < Len(Backoff) /\ item.next > fwd[f].at
      BY <1>4, <1>5, Zenon
    <3>3. Handles(r, k)
      BY <1>4, <1>6, <3>1, <3>2, Zenon DEF Handles, Exchange, Holds
    <3> QED
      BY <2>1, <2>3, <3>3, Zenon DEF Follows
  <2> QED
    BY <2>2, <2>3, Zenon
<1> QED
  BY <1>1, <1>3, <1>7, <1>8, CalmStep, Zenon

\* What the invariant says of a transition.
LEMMA Transitions ==
  ASSUME OutboxInv, NEW f \in Forwarder, fwd[f].pc = "transition"
  PROVE  /\ Shaped(fwd[f]) /\ fwd[f].at \in Nat /\ fwd[f].at <= now
         /\ fwd[f].key \in Key /\ fwd[f].item \in Item /\ exists("inflight", fwd[f].key)
         /\ fwd[f].dest \in {"pending", "history", "dead"}
         /\ fwd[f].then \in {"recover", "next", "idle"}
         /\ fwd[f].then = "recover" => fwd[f].dest = "pending" /\ Lists(fwd[f], "inflight")
         /\ ~Unlocked(fwd[f].key) =>
              /\ Handles(fwd[f], fwd[f].key)
              /\ ~exists("pending", fwd[f].key) /\ ~Settled(fwd[f].key)
<1>1. ForwarderOK(fwd[f])
  BY Zenon DEF OutboxInv, OutboxType
<1>2. /\ Shaped(fwd[f]) /\ fwd[f].at \in Nat /\ fwd[f].at <= now
      /\ fwd[f].key \in Key /\ fwd[f].item \in Item /\ exists("inflight", fwd[f].key)
      /\ fwd[f].dest \in {"pending", "history", "dead"}
      /\ fwd[f].then \in {"recover", "next", "idle"}
      /\ fwd[f].then = "recover" => fwd[f].dest = "pending" /\ Lists(fwd[f], "inflight")
  BY <1>1, Zenon DEF ForwarderOK, Shaped
<1>3. ~Unlocked(fwd[f].key) => Handles(fwd[f], fwd[f].key)
  BY <1>2, Zenon DEF OutboxInv, ItemInv
<1>4. ~Unlocked(fwd[f].key) => ~exists("pending", fwd[f].key) /\ ~Settled(fwd[f].key)
  BY <1>3, Zenon DEF Holds, Handles
<1> QED
  BY <1>2, <1>3, <1>4, Zenon

\* Transition, into a directory where the key has a file: only a producer that
\* has lost its locks brings that about.
LEMMA RefusedStep ==
  ASSUME OneForwarder, OutboxInv, NEW f \in Forwarder, Transition(f),
         exists(fwd[f].dest, fwd[f].key)
  PROVE  OutboxInv'
<1> DEFINE k == fwd[f].key
           r == [fwd[f] EXCEPT !.pc = "remove"]
<1>1. fwd[f].pc = "transition"
  BY Zenon DEF Transition
<1>2. /\ Shaped(fwd[f]) /\ fwd[f].at \in Nat /\ fwd[f].at <= now
      /\ fwd[f].key \in Key /\ fwd[f].dest \in {"pending", "history", "dead"}
      /\ fwd[f].then \in {"recover", "next", "idle"}
      /\ fwd[f].then = "recover" => fwd[f].dest = "pending" /\ Lists(fwd[f], "inflight")
      /\ ~Unlocked(k) => ~exists("pending", k) /\ ~Settled(k)
  BY <1>1, Transitions, Zenon
<1>3. Unlocked(k)
  BY <1>2, Zenon DEF Settled
<1>4. /\ fwd' = [fwd EXCEPT ![f] = r] \/ fwd' = [fwd EXCEPT ![f] = Idle]
      /\ UNCHANGED <<disk, lock, stolen, prod, now, sent, sends, kills>>
  BY <1>2, Zenon DEF Transition
<1>5. \A x \in Key : ~Unlocked(x) => x # k /\ ~Attempts(fwd[f], x)
  BY <1>3, Zenon DEF Attempts
<1>6. CASE fwd' = [fwd EXCEPT ![f] = r]
  <2>1. /\ r.pc = "remove" /\ r.at = fwd[f].at /\ r.key = k /\ r.todo = fwd[f].todo
        /\ r.then = fwd[f].then /\ Shaped(r)
    BY <1>2, Zenon DEF Shaped, Fields
  <2>2. fwd' = [fwd EXCEPT ![f] = r]
    BY <1>6, Zenon
  <2> HIDE DEF r
  <2>3. r.then = "recover" => Lists(r, "inflight")
    BY <1>2, <2>1, Zenon DEF Lists
  <2>4. ForwarderOK(r)
    BY <1>2, <2>1, <2>3, Zenon DEF ForwarderOK, Exchange, Shaped
  <2>5. \A x \in Key : ~Unlocked(x) => Follows(fwd[f], r, x)
    BY <1>5, <2>1, Zenon DEF Follows, Keeps, Holds, Claims, Handles, Exchange
  <2> QED
    BY <1>4, <2>2, <2>4, <2>5, CalmStep, Zenon
<1>7. CASE fwd' = [fwd EXCEPT ![f] = Idle]
  <2>1. \A x \in Key : ~Unlocked(x) => Follows(fwd[f], Idle, x)
    BY <1>5, IdleOK, Quiet
  <2> QED
    BY <1>4, <1>7, <2>1, IdleOK, CalmStep, Zenon
<1> QED
  BY <1>4, <1>6, <1>7, Zenon


LEMMA SendStep ==
  ASSUME OneForwarder, OutboxInv, NEW f \in Forwarder, Send(f)
  PROVE  OutboxInv'
<1> DEFINE r == [fwd[f] EXCEPT !.pc = "sending"]
<1>1. /\ fwd[f].pc = "send" /\ UNCHANGED <<disk, lock, stolen, prod, now, kills>>
      /\ sent' = [sent EXCEPT ![fwd[f].key] = @ \cup {fwd[f].item.body}]
      /\ sends' = [sends EXCEPT ![fwd[f].key] = @ + 1]
  BY Zenon DEF Send
<1>2. /\ Shaped(fwd[f]) /\ fwd[f].at \in Nat /\ fwd[f].at <= now
      /\ fwd[f].key \in Key /\ fwd[f].item \in Item /\ exists("inflight", fwd[f].key)
      /\ ~Unlocked(fwd[f].key) => Handles(fwd[f], fwd[f].key) /\ Holds(fwd[f], fwd[f].key)
  BY <1>1, Exchanges, Zenon DEF Exchange
<1>3. fwd' = [fwd EXCEPT ![f] = r]
  BY <1>2, Zenon DEF Send
<1>4. /\ r.pc = "sending" /\ r.at = fwd[f].at /\ r.key = fwd[f].key /\ r.item = fwd[f].item
      /\ Shaped(r)
  BY <1>2, Zenon DEF Shaped, Fields
<1> HIDE DEF r
<1>5. ForwarderOK(r)
  BY <1>2, <1>4, Zenon DEF ForwarderOK, Exchange, Shaped
<1>6. PICK k \in Key : k = fwd[f].key
  BY <1>2, Zenon
<1>7. /\ fwd'[f] = r /\ fwd' = [g \in Forwarder |-> fwd'[g]] /\ \A g \in Forwarder : g = f
  BY <1>3, Alone, Zenon
<1>8. /\ sends \in [Key -> Nat] /\ sent \in [Key -> SUBSET Producer] /\ kills \in Nat
      /\ disk \in [Dir -> [Key -> Item \cup {None}]] /\ now \in Nat
  BY Zenon DEF OutboxInv, OutboxType, DiskType
<1>9. /\ sends'[k] = sends[k] + 1 /\ sent'[k] = sent[k] \cup {fwd[f].item.body}
      /\ \A x \in Key : x # k => sends'[x] = sends[x] /\ sent'[x] = sent[x]
  BY <1>1, <1>6, <1>8, Zenon
<1>10. DiskType'
  <2>1. fwd[f].item.body \in Producer
    BY <1>2, Zenon DEF Item
  <2>2. sends' \in [Key -> Nat] /\ sent' \in [Key -> SUBSET Producer]
    BY <1>1, <1>2, <1>8, <2>1
  <2> QED
    BY <1>1, <1>8, <2>2, Zenon DEF DiskType
<1>11. ASSUME NEW x \in Key, x # k PROVE Kept(x)
  <2>1. Keeps(fwd[f], r, x) /\ Handles(r, x) /\ ~Attempts(fwd[f], x)
    BY <1>1, <1>4, <1>6, <1>11, Zenon DEF Keeps, Holds, Claims, Handles, Exchange, Attempts
  <2>2. kills' \in Nat /\ kills <= kills' /\ sends'[x] = sends[x] /\ sent'[x] = sent[x]
    BY <1>1, <1>8, <1>9, <1>11
  <2>3. Follows(fwd[f], r, x)
    BY <2>1, Zenon DEF Follows
  <2> QED
    BY <1>1, <1>3, <2>2, <2>3, Untouched, Zenon
<1>12. ASSUME ~Unlocked(k) PROVE ItemInv(k)' /\ Keeps(fwd[f], r, k)
  <2>1. /\ ~exists("pending", k) /\ ~Settled(k) /\ exists("inflight", k)
        /\ fwd[f].item.body = disk["inflight"][k].body
        /\ disk["inflight"][k].lease = fwd[f].at + Lease
        /\ fwd[f].item.attempts = disk["inflight"][k].attempts
    BY <1>1, <1>2, <1>6, <1>12, Zenon DEF Handles, Exchange
  <2>2. OneBody(k) /\ Places(k) /\ Budget(k)
    BY <1>12, Zenon DEF OutboxInv, ItemInv
  <2>3. \A d \in Dir : exists(d, k)' <=> exists(d, k)
    BY <1>1, Zenon DEF exists
  <2>4. (Stored(k)' <=> Stored(k)) /\ (Settled(k)' <=> Settled(k))
    BY <2>3, Zenon DEF Stored, Settled, Dir
  <2>5. OneBody(k)'
    <3>1. Stored(k)
      BY <2>1, Zenon DEF Stored, Dir
    <3>2. \A d \in Dir : exists(d, k) => disk[d][k].body = fwd[f].item.body
      BY <2>1, <2>2, Zenon DEF OneBody, Dir
    <3>3. \A b \in sent[k] : b = fwd[f].item.body
      BY <2>1, <2>2, Zenon DEF OneBody, Dir
    <3> QED
      BY <1>1, <1>9, <2>3, <2>4, <3>1, <3>2, <3>3, Zenon DEF OneBody
  <2>6. Places(k)'
    BY <2>1, <2>2, <2>3, <2>4, Zenon DEF Places, Dir
  <2>7. Budget(k)'
    <3>1. disk["inflight"][k].attempts \in Nat /\ Len(Backoff) \in Nat /\ sends[k] \in Nat
      <4>1. fwd[f].item.attempts \in Nat
        BY <1>2, Zenon DEF Item
      <4> QED
        BY <1>8, <2>1, <4>1, OutboxAssumption
    <3>2. \A g \in Forwarder : ~Attempts(fwd[g], k)
      BY <1>1, <1>7, Zenon DEF Attempts
    <3>3. /\ disk["inflight"][k].attempts < Len(Backoff)
          /\ sends[k] <= disk["inflight"][k].attempts + kills
      BY <2>1, <2>2, <3>2, Zenon DEF Budget
    <3>4. /\ sends'[k] <= disk["inflight"][k].attempts + kills + 1
          /\ sends'[k] <= Len(Backoff) + kills
      BY <1>8, <1>9, <3>1, <3>3, SMTT(30)
    <3>5. \E g \in Forwarder : Attempts(fwd[g], k)'
      BY <1>4, <1>6, <1>7, Zenon DEF Attempts
    <3>6. ~exists("pending", k)'
      BY <2>1, <2>3, Zenon DEF Dir
    <3> QED
      BY <1>1, <3>3, <3>4, <3>5, <3>6, Zenon DEF Budget
  <2>8. Handles(fwd[f], k)'
    BY <1>1, <1>4, <1>6, <1>7, <2>1, <2>3, <2>4, Zenon DEF Handles, Holds, Exchange, Dir
  <2>9. Keeps(fwd[f], r, k)
    BY <1>1, <1>4, <1>6, Zenon DEF Keeps, Holds, Claims, Exchange
  <2> QED
    BY <1>7, <2>5, <2>6, <2>7, <2>8, <2>9, Zenon DEF ItemInv
<1>13. Kept(k)
  BY <1>1, <1>3, <1>12, SameDisk, Zenon
<1>14. \A g \in Forwarder : ForwarderOK(fwd[g])'
  <2>1. UNCHANGED <<disk, now>>
    BY <1>1, Zenon
  <2> QED
    BY <1>5, <1>7, <2>1 DEF ForwarderOK, Lists, exists
<1>15. UNCHANGED <<lock, stolen, now>> /\ Notes
  BY <1>1, NotesNothing, Zenon
<1> QED
  BY <1>7, <1>10, <1>11, <1>13, <1>14, <1>15, ForwarderStep, Zenon


-----------------------------------------------------------------------------
\* Steps that write or remove a file.

LEMMA Put ==
  ASSUME DiskType, NEW d \in Dir, NEW k \in Key, NEW v \in Item \cup {None},
         disk' = [disk EXCEPT ![d][k] = v]
  PROVE  /\ disk' \in [Dir -> [Key -> Item \cup {None}]] /\ disk'[d][k] = v
         /\ \A e \in Dir, x \in Key : e # d \/ x # k => disk'[e][x] = disk[e][x]
<1> DEFINE T == Item \cup {None}
           g == [disk[d] EXCEPT ![k] = v]
<1>1. disk \in [Dir -> [Key -> T]] /\ v \in T
  BY Zenon DEF DiskType
<1> HIDE DEF T
<1>2. disk[d] \in [Key -> T]
  BY <1>1, Zenon
<1>3. g \in [Key -> T] /\ g[k] = v /\ \A x \in Key : x # k => g[x] = disk[d][x]
  BY <1>1, <1>2, Zenon
<1>4. disk' = [disk EXCEPT ![d] = g]
  BY <1>1, Zenon
<1> HIDE DEF g
<1>5. disk' \in [Dir -> [Key -> T]] /\ disk'[d] = g /\ \A e \in Dir : e # d => disk'[e] = disk[e]
  BY <1>1, <1>3, <1>4, Zenon
<1> QED
  BY <1>3, <1>5, Zenon DEF T

LEMMA MovedStep ==
  ASSUME OneForwarder, OutboxInv, NEW f \in Forwarder, NEW r, fwd' = [fwd EXCEPT ![f] = r],
         NEW d \in Dir, NEW k \in Key, NEW v \in Item \cup {None},
         disk' = [disk EXCEPT ![d][k] = v],
         UNCHANGED <<lock, stolen, now, sent, sends, kills>>, Notes, ForwarderOK(r)', Kept(k),
         \A x \in Key : x # k => Follows(fwd[f], r, x)
  PROVE  OutboxInv'
<1>1. DiskType
  BY Zenon DEF OutboxInv, OutboxType
<1>2. /\ disk' \in [Dir -> [Key -> Item \cup {None}]]
      /\ \A e \in Dir, x \in Key : e # d \/ x # k => disk'[e][x] = disk[e][x]
  BY <1>1, Put, ZenonT(60)
<1>3. DiskType'
  BY <1>1, <1>2, Zenon DEF DiskType
<1>4. ASSUME NEW x \in Key, x # k PROVE Kept(x)
  <2>1. \A e \in Dir : disk'[e][x] = disk[e][x]
    BY <1>2, <1>4, Zenon
  <2>2. /\ UNCHANGED <<stolen, now>> /\ sends'[x] = sends[x] /\ sent'[x] = sent[x]
        /\ kills' \in Nat /\ kills <= kills'
    BY <1>1 DEF DiskType
  <2> QED
    BY <1>4, <2>1, <2>2, Untouched, Zenon
<1>5. /\ fwd'[f] = r /\ fwd' = [g \in Forwarder |-> fwd'[g]] /\ \A g \in Forwarder : g = f
  BY Alone, Zenon
<1>6. \A g \in Forwarder : ForwarderOK(fwd[g])'
  BY <1>5, Zenon
<1>7. UNCHANGED <<lock, stolen, now>>
  OBVIOUS
<1> QED
  BY <1>3, <1>4, <1>5, <1>6, <1>7, ForwarderStep, Zenon


LEMMA RemoveStep ==
  ASSUME OneForwarder, OutboxInv, NEW f \in Forwarder, Remove(f)
  PROVE  OutboxInv'
<1> DEFINE at == IF fwd[f].then = "recover" THEN fwd[f].at ELSE ZeroTime
           q == [Idle EXCEPT !.pc = fwd[f].then, !.at = at, !.todo = fwd[f].todo]
<1>1. /\ fwd[f].pc = "remove" /\ fwd' = [fwd EXCEPT ![f] = q]
      /\ UNCHANGED <<lock, stolen, prod, now, sent, sends, kills>>
  BY Zenon DEF Remove
<1>2. /\ ForwarderOK(fwd[f]) /\ DiskType
  BY Zenon DEF OutboxInv, OutboxType
<1>3. /\ fwd[f].at \in Nat /\ fwd[f].at <= now /\ fwd[f].then \in {"recover", "next", "idle"}
      /\ fwd[f].then = "recover" => Lists(fwd[f], "inflight")
      /\ fwd[f].key \in Key /\ \E d \in {"pending", "history", "dead"} : exists(d, fwd[f].key)
  BY <1>1, <1>2, Zenon DEF ForwarderOK
<1>4. PICK k \in Key : k = fwd[f].key
  BY <1>3, Zenon
<1>5. disk' = [disk EXCEPT !["inflight"][k] = None]
  BY <1>4, Zenon DEF Remove, remove
<1>6. /\ disk'["inflight"][k] = None
      /\ \A e \in Dir, x \in Key : e # "inflight" \/ x # k => disk'[e][x] = disk[e][x]
  BY <1>2, <1>5, Put, ZenonT(60) DEF Dir
<1>7. /\ \A d \in {"pending", "history", "dead"} : disk'[d][k] = disk[d][k]
      /\ \A d \in {"pending", "history", "dead"} : exists(d, k)' <=> exists(d, k)
      /\ ~exists("inflight", k)' /\ (Settled(k)' <=> Settled(k))
      /\ Settled(k) \/ exists("pending", k)
  BY <1>3, <1>4, <1>6 DEF exists, Settled, Dir
<1>9. at \in Nat /\ at <= now
  BY <1>2, <1>3 DEF ZeroTime, DiskType
<1>8. PICK r : /\ fwd' = [fwd EXCEPT ![f] = r] /\ r.pc = fwd[f].then /\ r.at = at
               /\ r.todo = fwd[f].todo /\ r.key = None /\ Shaped(r)
  <2>1. q.pc = fwd[f].then /\ q.at = at /\ q.todo = fwd[f].todo /\ q.key = None /\ Shaped(q)
    BY Zenon DEF Idle, Shaped, Fields
  <2> HIDE DEF q, at
  <2> QED
    BY <1>1, <2>1, Zenon
<1> HIDE DEF q, at
<1>10. r.pc = "recover" => Lists(r, "inflight")'
  <2>1. ASSUME r.pc = "recover", NEW j \in DOMAIN r.todo
        PROVE  j \in Key /\ disk'["inflight"][j] # None /\ r.todo[j] = disk'["inflight"][j] /\ j # None
    <3>1. j \in Key /\ disk["inflight"][j] # None /\ r.todo[j] = disk["inflight"][j] /\ j # k
      BY <1>3, <1>4, <1>8, <2>1, Zenon DEF Lists
    <3> QED
      BY <1>6, <3>1, OutboxAssumption, Zenon DEF Dir
  <2> QED
    BY <1>8, <2>1, Zenon DEF Lists
<1>11. ForwarderOK(r)'
  <2>1. Shaped(r) /\ r.at \in Nat /\ r.at <= now' /\ r.pc \in {"recover", "next", "idle"}
    BY <1>1, <1>3, <1>8, <1>9, Zenon
  <2>2. CASE r.pc = "recover"
    BY <1>10, <2>1, <2>2, Zenon DEF ForwarderOK, Exchange, Shaped
  <2>3. CASE r.pc \in {"next", "idle"}
    BY <2>1, <2>3, QuietOK, Zenon DEF ForwarderOK, Exchange, Shaped
  <2> QED
    BY <2>1, <2>2, <2>3, Zenon
<1>12. \A x \in Key : ~Holds(r, x) /\ ~Claims(r, x) /\ ~Attempts(r, x) /\ Handles(r, x)' /\ Handles(r, x)
  BY <1>3, <1>8, Zenon DEF Holds, Claims, Attempts, Handles, Exchange
<1>13. \A x \in Key : x # k => Follows(fwd[f], r, x)
  BY <1>4, <1>12, Zenon DEF Follows, Keeps, Attempts
<1>14. fwd'[f] = r /\ \A g \in Forwarder : g = f
  BY <1>8, Alone, Zenon
<1>15. Parked(k) => Parked(k)'
  BY <1>1, <1>7, Zenon DEF Parked
<1>16. Fresh(k) => Fresh(k)'
  BY <1>7, <1>15, Zenon DEF Fresh, Parked
<1>17. Ready(k)'
  <2>1. CASE Settled(k)
    BY <1>7, <2>1, Zenon DEF Ready, Fresh, Parked
  <2>2. CASE exists("pending", k)
    BY <1>7, <1>12, <1>14, <2>2, Zenon DEF Ready
  <2> QED
    BY <1>7, <2>1, <2>2, Zenon
<1>18. ASSUME ~Unlocked(k) PROVE ItemInv(k)'
  <2>1. ItemInv(k)
    BY <1>18, Zenon DEF OutboxInv
  <2>2. \A d \in Dir : exists(d, k)' => exists(d, k) /\ disk'[d][k] = disk[d][k]
    BY <1>7, Zenon DEF Dir
  <2>3. Stored(k)' /\ Stored(k)
    BY <1>7, Zenon DEF Stored, Settled, Dir
  <2>4. OneBody(k)'
    BY <1>1, <2>1, <2>2, <2>3, ZenonT(60) DEF ItemInv, OneBody
  <2>5. Places(k)'
    BY <1>7, <2>1, Zenon DEF ItemInv, Places
  <2>6. Budget(k)'
    BY <1>1, <1>7, <2>1, Zenon DEF ItemInv, Budget
  <2> QED
    BY <1>12, <1>14, <2>4, <2>5, <2>6, Zenon DEF ItemInv
<1>19. Kept(k)
  <2>1. Stored(k)' /\ Stored(k)
    BY <1>7, Zenon DEF Stored, Settled, Dir
  <2>2. k \in Counted' => k \in Counted
    BY <1>7, Zenon DEF Counted, listing
  <2>3. /\ exists("history", k) => exists("history", k)'
        /\ exists("dead", k) => exists("dead", k)'
        /\ exists("pending", k)' => exists("pending", k)
        /\ exists("pending", k) /\ disk["pending"][k].next > now =>
             exists("pending", k)' /\ disk'["pending"][k].next > now'
    BY <1>1, <1>7, Zenon
  <2> QED
    BY <1>15, <1>16, <1>17, <1>18, <2>1, <2>2, <2>3, Zenon DEF Kept
<1>20. Notes /\ "inflight" \in Dir /\ None \in Item \cup {None}
  BY <1>1, NotesNothing, Zenon DEF Dir
<1>21. UNCHANGED <<lock, stolen, now, sent, sends, kills>>
  BY <1>1, Zenon
<1>22. fwd' = [fwd EXCEPT ![f] = r]
  BY <1>8, Zenon
<1> QED
  BY <1>5, <1>11, <1>13, <1>19, <1>20, <1>21, <1>22, MovedStep, Zenon


\* ClaimItem, of an item that nobody has claimed.
LEMMA ClaimStep ==
  ASSUME OneForwarder, OutboxInv, NEW f \in Forwarder, NEW k \in Key, ClaimItem(f, k),
         ~exists("inflight", k)
  PROVE  OutboxInv'
<1> DEFINE item == [fwd[f].todo[k] EXCEPT !.lease = fwd[f].at + Lease]
           q == [Idle EXCEPT !.pc = "claimRemove", !.at = fwd[f].at, !.key = k, !.item = item]
<1>1. /\ fwd[f].pc = "claiming" /\ k \in DOMAIN fwd[f].todo
      /\ fwd' = [fwd EXCEPT ![f] = q] /\ disk' = [disk EXCEPT !["inflight"][k] = item]
      /\ UNCHANGED <<lock, stolen, prod, now, sent, sends, kills>>
  BY Zenon DEF ClaimItem, put
<1>2. ForwarderOK(fwd[f]) /\ DiskType /\ now \in Nat
  BY Zenon DEF OutboxInv, OutboxType, DiskType
<1>3. /\ fwd[f].at \in Nat /\ fwd[f].at <= now /\ Lists(fwd[f], "pending")
      /\ \A j \in DOMAIN fwd[f].todo : disk["pending"][j].next <= fwd[f].at
  BY <1>1, <1>2, Zenon DEF ForwarderOK
<1>4. /\ exists("pending", k) /\ fwd[f].todo[k] = disk["pending"][k]
      /\ disk["pending"][k].next <= fwd[f].at
  BY <1>1, <1>3, Zenon DEF Lists, exists
<1>5. disk["pending"][k] \in Item
  BY <1>2, <1>4, Zenon DEF DiskType, Dir, exists
<1>6. Lease \in Nat /\ Lease > 0 /\ fwd[f].at + Lease \in Nat
  BY <1>3, OutboxAssumption
<1>7. PICK v \in Item : /\ v = item /\ v.body = disk["pending"][k].body
                        /\ v.attempts = disk["pending"][k].attempts /\ v.lease = fwd[f].at + Lease
  <2>1. PICK n \in Nat : n = fwd[f].at + Lease
    BY <1>6, Zenon
  <2>2. item = [disk["pending"][k] EXCEPT !.lease = n]
    BY <1>4, <2>1, Zenon
  <2>3. /\ item \in Item /\ item.body = disk["pending"][k].body
        /\ item.attempts = disk["pending"][k].attempts /\ item.lease = n
    BY <1>5, <2>2, Zenon DEF Item
  <2> HIDE DEF item
  <2> QED
    BY <2>1, <2>3, Zenon
<1>8. PICK r : /\ fwd' = [fwd EXCEPT ![f] = r] /\ r.pc = "claimRemove" /\ r.at = fwd[f].at
               /\ r.key = k /\ r.item = v /\ Shaped(r)
  <2>1. q.pc = "claimRemove" /\ q.at = fwd[f].at /\ q.key = k /\ q.item = item /\ Shaped(q)
    BY Zenon DEF Idle, Shaped, Fields
  <2> HIDE DEF q, item
  <2> QED
    BY <1>1, <1>7, <2>1, Zenon
<1>9. disk' = [disk EXCEPT !["inflight"][k] = v]
  BY <1>1, <1>7, Zenon
<1> HIDE DEF q, item
<1>10. /\ disk'["inflight"][k] = v
       /\ \A e \in Dir, x \in Key : e # "inflight" \/ x # k => disk'[e][x] = disk[e][x]
  BY <1>2, <1>9, Put, ZenonT(60) DEF Dir
<1>11. v # None
  BY <1>7, OutboxAssumption, Zenon
<1>12. /\ \A d \in {"pending", "history", "dead"} : disk'[d][k] = disk[d][k]
       /\ \A d \in {"pending", "history", "dead"} : exists(d, k)' <=> exists(d, k)
       /\ exists("inflight", k)' /\ (Settled(k)' <=> Settled(k))
  BY <1>10, <1>11 DEF exists, Settled, Dir
<1>13. ForwarderOK(r)'
  <2>1. Shaped(r) /\ r.at \in Nat /\ r.at <= now'
    BY <1>1, <1>3, <1>8, Zenon
  <2>2. exists("pending", r.key)' /\ exists("inflight", r.key)' /\ disk'["pending"][r.key].next <= r.at
    BY <1>4, <1>8, <1>12, Zenon
  <2> QED
    BY <1>7, <1>8, <2>1, <2>2, Zenon DEF ForwarderOK, Exchange, Shaped
<1>14. \A x \in Key : x # k => Follows(fwd[f], r, x)
  BY <1>1, <1>8, Zenon DEF Follows, Keeps, Holds, Claims, Handles, Exchange, Attempts
<1>15. fwd'[f] = r /\ \A g \in Forwarder : g = f
  BY <1>8, Alone, Zenon
<1>16. Stored(k)' /\ Stored(k)
  BY <1>4, <1>12, Zenon DEF Stored, Dir
<1>17. Parked(k) => Parked(k)'
  BY <1>1, <1>12, Zenon DEF Parked
<1>18. Fresh(k) => Fresh(k)'
  BY <1>4, <1>17, Zenon DEF Fresh
<1>19. Ready(k) => Ready(k)'
  <2>1. ASSUME ~Fresh(k), Ready(k) PROVE fwd[f].at = now
    BY <1>1, <2>1, Zenon DEF Ready, Claims
  <2>2. fwd[f].at = now => disk'["inflight"][k].lease > now'
    BY <1>1, <1>2, <1>6, <1>7, <1>10
  <2>3. fwd[f].at = now => \A g \in Forwarder : fwd'[g].at = now'
    BY <1>1, <1>8, <1>15, Zenon
  <2> QED
    BY <1>4, <1>12, <1>18, <2>1, <2>2, <2>3, Zenon DEF Ready
<1>20. ASSUME ~Unlocked(k) PROVE ItemInv(k)'
  <2>1. OneBody(k) /\ Places(k) /\ Budget(k)
    BY <1>20, Zenon DEF OutboxInv, ItemInv
  <2>2. \A d \in Dir : exists(d, k)' => disk'[d][k].body = disk["pending"][k].body
    <3>1. \A d \in {"pending", "history", "dead"} : exists(d, k)' => disk'[d][k].body = disk["pending"][k].body
      BY <1>4, <1>12, <2>1, Zenon DEF OneBody, Dir
    <3> QED
      BY <1>7, <1>10, <3>1, Zenon DEF Dir
  <2>3. \A b \in sent[k] : b = disk["pending"][k].body
    BY <1>4, <2>1, Zenon DEF OneBody, Dir
  <2>4. OneBody(k)'
    BY <1>1, <1>16, <2>2, <2>3, Zenon DEF OneBody
  <2>5. Places(k)'
    BY <1>12, <2>1, Zenon DEF Places
  <2>6. Budget(k)'
    BY <1>1, <1>4, <1>7, <1>10, <1>12, <2>1, Zenon DEF Budget
  <2>7. Handles(r, k)'
    BY <1>7, <1>8, <1>10, Zenon DEF Handles, Holds, Exchange
  <2> QED
    BY <1>15, <2>4, <2>5, <2>6, <2>7, Zenon DEF ItemInv
<1>21. Kept(k)
  <2>1. k \in Counted
    BY <1>4, Zenon DEF Counted, listing
  <2>2. /\ exists("history", k) => exists("history", k)'
        /\ exists("dead", k) => exists("dead", k)'
        /\ exists("pending", k)' => exists("pending", k)
        /\ exists("pending", k) /\ disk["pending"][k].next > now =>
             exists("pending", k)' /\ disk'["pending"][k].next > now'
    BY <1>1, <1>12, Zenon
  <2> QED
    BY <1>12, <1>16, <1>17, <1>18, <1>19, <1>20, <2>1, <2>2, Zenon DEF Kept
<1>22. Notes /\ "inflight" \in Dir /\ v \in Item \cup {None}
  BY <1>1, NotesNothing, Zenon DEF Dir
<1>23. UNCHANGED <<lock, stolen, now, sent, sends, kills>> /\ fwd' = [fwd EXCEPT ![f] = r]
  BY <1>1, <1>8, Zenon
<1> QED
  BY <1>9, <1>13, <1>14, <1>21, <1>22, <1>23, MovedStep, Zenon


\* ClaimDrop and ClaimRemove: the pending file of a claimed item goes.
LEMMA ClaimedGoes ==
  ASSUME OneForwarder, OutboxInv, NEW f \in Forwarder, NEW k \in Key, k = fwd[f].key,
         fwd[f].pc \in {"claimDrop", "claimRemove"}, disk'["pending"][k] = None,
         \A e \in Dir, x \in Key : e # "pending" \/ x # k => disk'[e][x] = disk[e][x],
         stolen' = stolen, now' = now, sent' = sent, sends' = sends, kills' = kills,
         NEW r, fwd'[f] = r, r.at = fwd[f].at,
         \/ fwd[f].pc = "claimDrop" /\ r.pc = "claiming"
         \/ fwd[f].pc = "claimRemove" /\ r.pc = "send" /\ r.item = fwd[f].item
  PROVE  Kept(k)
<1>1. ForwarderOK(fwd[f]) /\ DiskType /\ now \in Nat
  BY Zenon DEF OutboxInv, OutboxType, DiskType
<1>2. /\ fwd[f].at \in Nat /\ fwd[f].at <= now /\ exists("inflight", k)
      /\ exists("pending", k) /\ disk["pending"][k].next <= fwd[f].at
  <2>1. /\ fwd[f].at \in Nat /\ fwd[f].at <= now /\ exists("inflight", fwd[f].key)
        /\ exists("pending", fwd[f].key) /\ disk["pending"][fwd[f].key].next <= fwd[f].at
    BY <1>1, Zenon DEF ForwarderOK
  <2> QED
    BY <2>1, Zenon
<1>4. /\ \A d \in {"inflight", "history", "dead"} : disk'[d][k] = disk[d][k]
      /\ \A d \in {"inflight", "history", "dead"} : exists(d, k)' <=> exists(d, k)
      /\ ~exists("pending", k)' /\ (Settled(k)' <=> Settled(k))
  BY DEF exists, Settled, Dir
<1>5. Stored(k)' /\ Stored(k) /\ k \in Counted
  BY <1>2, <1>4, Zenon DEF Stored, Dir, Counted, listing
<1>6. \A g \in Forwarder : g = f
  BY Zenon DEF OneForwarder
<1> SUFFICES ASSUME ~Unlocked(k)
             PROVE  /\ ItemInv(k)'
                    /\ Parked(k) => Parked(k)'
                    /\ Fresh(k) => Fresh(k)'
                    /\ Ready(k) => Ready(k)'
                    /\ exists("inflight", k) => exists("inflight", k)' \/ Ready(k)'
                    /\ exists("pending", k) /\ disk["pending"][k].next > now =>
                         exists("pending", k)' /\ disk'["pending"][k].next > now'
  BY <1>4, <1>5, Zenon DEF Kept
<1>7. /\ OneBody(k) /\ Places(k) /\ Budget(k) /\ Handles(fwd[f], k)
  BY Zenon DEF OutboxInv, ItemInv
<1>8. ~Settled(k) /\ ~(disk["pending"][k].next > now)
  <2>1. disk["pending"][k] \in Item
    BY <1>1, <1>2 DEF DiskType, Dir, exists
  <2>2. disk["pending"][k].next \in Nat
    BY <2>1, Zenon DEF Item
  <2> QED
    BY <1>1, <1>2, <1>7, <2>2 DEF Places
<1>9. ~Parked(k) /\ ~Fresh(k)
  BY <1>2, <1>8, Zenon DEF Parked, Fresh
<1>10. Ready(k) => Ready(k)'
  <2> SUFFICES ASSUME Ready(k)
               PROVE  Fresh(k)'
    BY Zenon DEF Ready
  <2>1. disk["inflight"][k].lease > now /\ \A g \in Forwarder : Claims(fwd[g], k) => fwd[g].at = now
    BY <1>2, <1>9, Zenon DEF Ready
  <2>2. Holds(r, k) => r.at = now
    BY <2>1, Zenon DEF Holds, Claims, Exchange
  <2>3. /\ ~exists("pending", k)' /\ exists("inflight", k)' /\ disk'["inflight"][k].lease > now'
    BY <1>2, <1>4, <2>1, Zenon
  <2>4. \A g \in Forwarder : Holds(fwd[g], k)' => fwd'[g].at = now'
    BY <1>6, <2>2, Zenon DEF Holds
  <2> QED
    BY <2>3, <2>4, Zenon DEF Fresh
<1>11. ItemInv(k)'
  <2>1. \A d \in Dir : exists(d, k)' => exists(d, k) /\ disk'[d][k] = disk[d][k]
    BY <1>4, Zenon DEF Dir
  <2>2. OneBody(k)'
    <3>1. OneBody(k) /\ Stored(k)'
      BY <1>5, <1>7, Zenon
    <3>2. ASSUME NEW d \in Dir, NEW e \in Dir, exists(d, k)', exists(e, k)'
          PROVE  disk'[d][k].body = disk'[e][k].body
      <4>1. exists(d, k) /\ disk'[d][k] = disk[d][k] /\ exists(e, k) /\ disk'[e][k] = disk[e][k]
        BY <2>1, <3>2, Zenon
      <4>2. disk[d][k].body = disk[e][k].body
        BY <3>1, <4>1, Zenon DEF OneBody
      <4> QED
        BY <4>1, <4>2, Zenon
    <3>3. \A d \in Dir, b \in sent'[k] : exists(d, k)' => disk'[d][k].body = b
      BY <2>1, <3>1, Zenon DEF OneBody
    <3>4. \A b, c \in sent'[k] : b = c
      BY <3>1, Zenon DEF OneBody
    <3> QED
      BY <3>1, <3>2, <3>3, <3>4, Zenon DEF OneBody
  <2>3. Places(k)'
    BY <1>4, <1>7, Zenon DEF Places
  <2>4. Budget(k)'
    <3>1. \A g \in Forwarder : ~Attempts(fwd[g], k)
      BY <1>6, Zenon DEF Attempts
    <3> QED
      BY <1>4, <1>7, <3>1, Zenon DEF Budget
  <2>5. Handles(r, k)'
    <3>1. CASE r.pc = "claiming"
      BY <3>1, Zenon DEF Handles, Holds, Exchange
    <3>2. CASE fwd[f].pc = "claimRemove" /\ r.pc = "send" /\ r.item = fwd[f].item
      <4>1. disk["inflight"][k] = r.item /\ r.item.lease = r.at + Lease
        BY <1>7, <3>2, Zenon DEF Handles
      <4> QED
        BY <1>4, <1>8, <3>2, <4>1, Zenon DEF Handles, Holds, Exchange
    <3> QED
      BY <3>1, <3>2, Zenon
  <2> QED
    BY <1>6, <2>2, <2>3, <2>4, <2>5, Zenon DEF ItemInv
<1> QED
  BY <1>2, <1>4, <1>8, <1>9, <1>10, <1>11, Zenon

LEMMA ClaimDropStep ==
  ASSUME OneForwarder, OutboxInv, NEW f \in Forwarder, ClaimDrop(f)
  PROVE  OutboxInv'
<1> DEFINE q == [fwd[f] EXCEPT !.pc = "claiming", !.key = None]
<1>1. /\ fwd[f].pc = "claimDrop" /\ disk' = [disk EXCEPT !["pending"][fwd[f].key] = None]
      /\ UNCHANGED <<lock, stolen, prod, now, sent, sends, kills>>
  BY Zenon DEF ClaimDrop, remove
<1>2. ForwarderOK(fwd[f]) /\ DiskType
  BY Zenon DEF OutboxInv, OutboxType
<1>3. /\ Shaped(fwd[f]) /\ fwd[f].at \in Nat /\ fwd[f].at <= now /\ fwd[f].key \in Key
      /\ Lists(fwd[f], "pending") /\ \A j \in DOMAIN fwd[f].todo : disk["pending"][j].next <= fwd[f].at
  BY <1>1, <1>2, Zenon DEF ForwarderOK, Shaped
<1>4. fwd' = [fwd EXCEPT ![f] = q]
  BY <1>3, Zenon DEF ClaimDrop
<1>5. PICK r : /\ fwd' = [fwd EXCEPT ![f] = r] /\ r.pc = "claiming" /\ r.at = fwd[f].at
               /\ r.key = None /\ r.todo = fwd[f].todo /\ Shaped(r)
  <2>1. q.pc = "claiming" /\ q.at = fwd[f].at /\ q.key = None /\ q.todo = fwd[f].todo /\ Shaped(q)
    BY <1>3, Zenon DEF Shaped, Fields
  <2> HIDE DEF q
  <2> QED
    BY <1>4, <2>1, Zenon
<1> HIDE DEF q
<1>6. PICK k \in Key : k = fwd[f].key
  BY <1>3, Zenon
<1>7. disk' = [disk EXCEPT !["pending"][k] = None]
  BY <1>1, <1>6, Zenon
<1>8. Kept(k)
  <2>1. stolen' = stolen /\ now' = now /\ sent' = sent /\ sends' = sends /\ kills' = kills
    BY <1>1, Zenon
  <2>3. /\ disk'["pending"][k] = None
        /\ \A e \in Dir, x \in Key : e # "pending" \/ x # k => disk'[e][x] = disk[e][x]
    BY <1>2, <1>7, Put, ZenonT(60) DEF Dir
  <2>4. fwd'[f] = r /\ r.pc = "claiming" /\ r.at = fwd[f].at /\ fwd[f].pc = "claimDrop"
    BY <1>1, <1>5, Alone, Zenon
  <2> QED
    BY <1>6, <2>1, <2>3, <2>4, ClaimedGoes, Zenon
<1>9. ASSUME NEW j \in DOMAIN r.todo
      PROVE  /\ j \in Key /\ disk'["pending"][j] = disk["pending"][j] /\ disk["pending"][j] # None
             /\ r.todo[j] = disk["pending"][j] /\ j # None /\ disk["pending"][j].next <= r.at
  <2>1. /\ j \in Key /\ disk["pending"][j] # None /\ r.todo[j] = disk["pending"][j] /\ j # k
        /\ disk["pending"][j].next <= r.at
    BY <1>3, <1>5, <1>6, <1>9, Zenon DEF Lists
  <2>2. disk'["pending"][j] = disk["pending"][j]
    BY <1>2, <1>7, <2>1, Put DEF Dir
  <2> QED
    BY <2>1, <2>2, OutboxAssumption, Zenon
<1>10. Lists(r, "pending")' /\ \A j \in DOMAIN r.todo : disk'["pending"][j].next <= r.at
  BY <1>5, <1>9, Zenon DEF Lists
<1>11. ForwarderOK(r)'
  <2>1. Shaped(r) /\ r.at \in Nat /\ r.at <= now'
    BY <1>1, <1>3, <1>5, Zenon
  <2> QED
    BY <1>5, <1>10, <2>1, Zenon DEF ForwarderOK, Exchange, Shaped
<1>12. \A x \in Key : x # k => Follows(fwd[f], r, x)
  BY <1>1, <1>5, Zenon DEF Follows, Keeps, Holds, Claims, Handles, Exchange, Attempts
<1>13. Notes /\ "pending" \in Dir /\ None \in Item \cup {None}
  BY <1>1, NotesNothing, Zenon DEF Dir
<1>14. UNCHANGED <<lock, stolen, now, sent, sends, kills>> /\ fwd' = [fwd EXCEPT ![f] = r]
  BY <1>1, <1>5, Zenon
<1> QED
  BY <1>7, <1>8, <1>11, <1>12, <1>13, <1>14, MovedStep, Zenon

LEMMA ClaimRemoveStep ==
  ASSUME OneForwarder, OutboxInv, NEW f \in Forwarder, ClaimRemove(f)
  PROVE  OutboxInv'
<1> DEFINE q == [fwd[f] EXCEPT !.pc = "send"]
<1>1. /\ fwd[f].pc = "claimRemove" /\ disk' = [disk EXCEPT !["pending"][fwd[f].key] = None]
      /\ UNCHANGED <<lock, stolen, prod, now, sent, sends, kills>>
  BY Zenon DEF ClaimRemove, remove
<1>2. ForwarderOK(fwd[f]) /\ DiskType
  BY Zenon DEF OutboxInv, OutboxType
<1>3. /\ Shaped(fwd[f]) /\ fwd[f].at \in Nat /\ fwd[f].at <= now /\ fwd[f].key \in Key
      /\ fwd[f].item \in Item /\ exists("inflight", fwd[f].key)
  BY <1>1, <1>2, Zenon DEF ForwarderOK, Shaped
<1>4. fwd' = [fwd EXCEPT ![f] = q]
  BY <1>3, Zenon DEF ClaimRemove
<1>5. PICK r : /\ fwd' = [fwd EXCEPT ![f] = r] /\ r.pc = "send" /\ r.at = fwd[f].at
               /\ r.key = fwd[f].key /\ r.item = fwd[f].item /\ Shaped(r)
  <2>1. q.pc = "send" /\ q.at = fwd[f].at /\ q.key = fwd[f].key /\ q.item = fwd[f].item /\ Shaped(q)
    BY <1>3, Zenon DEF Shaped, Fields
  <2> HIDE DEF q
  <2> QED
    BY <1>4, <2>1, Zenon
<1> HIDE DEF q
<1>6. PICK k \in Key : k = fwd[f].key
  BY <1>3, Zenon
<1>7. disk' = [disk EXCEPT !["pending"][k] = None]
  BY <1>1, <1>6, Zenon
<1>8. Kept(k)
  <2>1. stolen' = stolen /\ now' = now /\ sent' = sent /\ sends' = sends /\ kills' = kills
    BY <1>1, Zenon
  <2>3. /\ disk'["pending"][k] = None
        /\ \A e \in Dir, x \in Key : e # "pending" \/ x # k => disk'[e][x] = disk[e][x]
    BY <1>2, <1>7, Put, ZenonT(60) DEF Dir
  <2>4. /\ fwd'[f] = r /\ r.pc = "send" /\ r.at = fwd[f].at /\ fwd[f].pc = "claimRemove"
        /\ r.item = fwd[f].item
    BY <1>1, <1>5, Alone, Zenon
  <2> QED
    BY <1>6, <2>1, <2>3, <2>4, ClaimedGoes
<1>9. exists("inflight", k)'
  <2>1. disk'["inflight"][k] = disk["inflight"][k]
    BY <1>2, <1>7, Put, Zenon DEF Dir
  <2> QED
    BY <1>3, <1>6, <2>1, Zenon DEF exists
<1>10. ForwarderOK(r)'
  <2>1. Shaped(r) /\ r.at \in Nat /\ r.at <= now'
    BY <1>1, <1>3, <1>5, Zenon
  <2> QED
    BY <1>3, <1>5, <1>6, <1>9, <2>1, Zenon DEF ForwarderOK, Exchange, Shaped
<1>11. \A x \in Key : x # k => Follows(fwd[f], r, x)
  BY <1>1, <1>5, <1>6, Zenon DEF Follows, Keeps, Holds, Claims, Handles, Exchange, Attempts
<1>12. Notes /\ "pending" \in Dir /\ None \in Item \cup {None}
  BY <1>1, NotesNothing, Zenon DEF Dir
<1>13. UNCHANGED <<lock, stolen, now, sent, sends, kills>> /\ fwd' = [fwd EXCEPT ![f] = r]
  BY <1>1, <1>5, Zenon
<1> QED
  BY <1>7, <1>8, <1>10, <1>11, <1>12, <1>13, MovedStep, Zenon


\* Transition, which writes the item to its destination.
LEMMA TransitionKeeps ==
  ASSUME OneForwarder, OutboxInv, NEW f \in Forwarder, NEW k \in Key, k = fwd[f].key,
         fwd[f].pc = "transition", NEW d \in {"pending", "history", "dead"}, d = fwd[f].dest,
         ~exists(d, k), disk'[d][k] = fwd[f].item,
         \A e \in Dir, x \in Key : e # d \/ x # k => disk'[e][x] = disk[e][x],
         stolen' = stolen, now' = now, sent' = sent, sends' = sends, kills' = kills,
         d = "pending" => \A p \in Producer : prod[p].pc = "usage" => prod'[p].moved,
         NEW r, fwd'[f] = r, r.pc = "remove", r.key = k, r.then = fwd[f].then
  PROVE  Kept(k)
<1> DEFINE item == fwd[f].item
<1>1. /\ fwd[f].at \in Nat /\ fwd[f].at <= now /\ item \in Item /\ exists("inflight", k)
      /\ ~Unlocked(k) => Handles(fwd[f], k) /\ ~exists("pending", k) /\ ~Settled(k)
  BY Transitions, Zenon
<1>2. item # None /\ now \in Nat /\ kills \in Nat /\ sends[k] \in Nat /\ Len(Backoff) \in Nat
  BY <1>1, OutboxAssumption DEF OutboxInv, OutboxType, DiskType
<1>3. exists(d, k)' /\ \A e \in Dir : e # d => disk'[e][k] = disk[e][k] /\ (exists(e, k)' <=> exists(e, k))
  BY <1>2, Zenon DEF exists
<1>4. /\ exists("inflight", k)' /\ disk'["inflight"][k] = disk["inflight"][k]
      /\ Stored(k)' /\ Stored(k) /\ k \in Counted
      /\ exists("history", k) => exists("history", k)'
      /\ exists("dead", k) => exists("dead", k)'
      /\ exists("pending", k)' => exists("pending", k) \/ d = "pending"
  BY <1>1, <1>3, Zenon DEF Stored, Counted, listing, Dir
<1>5. \A g \in Forwarder : g = f
  BY Zenon DEF OneForwarder
<1> SUFFICES ASSUME ~Unlocked(k)
             PROVE  /\ ItemInv(k)'
                    /\ Parked(k) => Parked(k)'
                    /\ Fresh(k) => Fresh(k)'
                    /\ Ready(k) => Ready(k)'
                    /\ exists("inflight", k) => exists("inflight", k)' \/ Ready(k)'
                    /\ exists("pending", k) /\ disk["pending"][k].next > now =>
                         exists("pending", k)' /\ disk'["pending"][k].next > now'
  BY <1>4, Zenon DEF Kept
<1>6. /\ OneBody(k) /\ Places(k) /\ Budget(k) /\ Handles(fwd[f], k)
      /\ ~exists("pending", k) /\ ~Settled(k)
  BY <1>1, Zenon DEF OutboxInv, ItemInv
<1>7. /\ exists("pending", k)' <=> d = "pending"
      /\ exists("history", k)' <=> d = "history"
      /\ exists("dead", k)' <=> d = "dead"
  BY <1>3, <1>6, Zenon DEF Settled, Dir
<1>8. Settled(k)' <=> d # "pending"
  BY <1>7, Zenon DEF Settled
<1>9. disk["inflight"][k] \in Item
  BY <1>1 DEF OutboxInv, OutboxType, DiskType, Dir, exists
<1>10. disk["inflight"][k].attempts \in Nat /\ disk["inflight"][k].lease \in Nat
  BY <1>9, Zenon DEF Item
<1>11. item.body = disk["inflight"][k].body
  BY <1>6, Zenon DEF Handles, Holds
<1>12. \/ /\ fwd[f].then # "recover" /\ Holds(fwd[f], k) /\ Attempts(r, k)
          /\ d = "pending" => /\ item.attempts = disk["inflight"][k].attempts + 1
                              /\ item.attempts < Len(Backoff) /\ item.next > fwd[f].at
       \/ /\ fwd[f].then = "recover" /\ ~Attempts(fwd[f], k)
          /\ item.attempts = disk["inflight"][k].attempts /\ disk["inflight"][k].lease <= fwd[f].at
  BY <1>6, Zenon DEF Handles, Holds, Attempts
<1>13. ~Parked(k) /\ (Ready(k) => Fresh(k))
  BY <1>6, Zenon DEF Parked, Ready
<1>14. ASSUME Fresh(k) PROVE Parked(k)'
  <2>1. /\ disk["inflight"][k].lease > now
        /\ Holds(fwd[f], k) => fwd[f].at = now
    BY <1>13, <1>14, Zenon DEF Fresh
  <2>2. d = "pending" => item.next > now
    BY <1>1, <1>2, <1>10, <1>12, <2>1, SMTT(30)
  <2> QED
    BY <1>7, <1>8, <2>2, Zenon DEF Parked
<1>15. OneBody(k)'
  <2>1. ASSUME NEW e \in Dir, exists(e, k)' PROVE disk'[e][k].body = item.body
    <3>1. CASE e = d
      BY <3>1, Zenon
    <3>2. CASE e # d
      <4>1. exists(e, k) /\ disk'[e][k] = disk[e][k]
        BY <1>3, <2>1, <3>2, Zenon
      <4>2. disk[e][k].body = disk["inflight"][k].body
        <5>1. "inflight" \in Dir /\ exists("inflight", k) /\ OneBody(k)
          BY <1>1, <1>6, Zenon DEF Dir
        <5> QED
          BY <4>1, <5>1, Zenon DEF OneBody
      <4> QED
        BY <1>11, <4>1, <4>2, Zenon
    <3> QED
      BY <3>1, <3>2, Zenon
  <2>2. \A b \in sent[k] : b = item.body
    BY <1>1, <1>6, <1>11, Zenon DEF OneBody, Dir
  <2> QED
    BY <1>4, <2>1, <2>2, ZenonT(30) DEF OneBody
<1>16. Places(k)'
  BY <1>7, <1>8, Zenon DEF Places
<1>17. Budget(k)'
  <2>1. /\ disk["inflight"][k].attempts < Len(Backoff) /\ sends[k] <= Len(Backoff) + kills
        /\ \/ sends[k] <= disk["inflight"][k].attempts + kills
           \/ /\ sends[k] <= disk["inflight"][k].attempts + kills + 1
              /\ Attempts(fwd[f], k)
    BY <1>1, <1>5, <1>6, Zenon DEF Budget
  <2>2. sends'[k] <= Len(Backoff) + kills'
    BY <2>1, Zenon
  <2>3. item.attempts \in Nat
    BY <1>1, Zenon DEF Item
  <2>4. ASSUME exists("pending", k)'
        PROVE  /\ disk'["pending"][k].attempts < Len(Backoff)
               /\ sends'[k] <= disk'["pending"][k].attempts + kills'
    <3>1. d = "pending" /\ disk'["pending"][k] = item
      BY <1>7, <2>4, Zenon
    <3>2. item.attempts < Len(Backoff) /\ sends[k] <= item.attempts + kills
      <4>1. CASE /\ item.attempts = disk["inflight"][k].attempts + 1
                 /\ item.attempts < Len(Backoff)
        <5>1. PICK a \in Nat, s \in Nat, n \in Nat :
                a = disk["inflight"][k].attempts /\ s = sends[k] /\ n = kills
          BY <1>2, <1>10, Zenon
        <5>2. s <= a + n \/ s <= a + n + 1
          BY <2>1, <5>1, Zenon
        <5>3. s <= (a + 1) + n
          BY <5>2
        <5> QED
          BY <4>1, <5>1, <5>3, Zenon
      <4>2. CASE item.attempts = disk["inflight"][k].attempts /\ ~Attempts(fwd[f], k)
        BY <1>2, <1>10, <2>1, <4>2, Zenon
      <4> QED
        BY <1>12, <3>1, <4>1, <4>2, Zenon
    <3> QED
      BY <3>1, <3>2, Zenon
  <2>5. /\ disk'["inflight"][k].attempts < Len(Backoff)
        /\ \/ sends'[k] <= disk'["inflight"][k].attempts + kills'
           \/ /\ sends'[k] <= disk'["inflight"][k].attempts + kills' + 1
              /\ \E g \in Forwarder : Attempts(fwd[g], k)'
    <3>1. Attempts(fwd[f], k) => Attempts(r, k)
      BY <1>12, Zenon
    <3>2. Attempts(r, k) => \E g \in Forwarder : Attempts(fwd[g], k)'
      BY Zenon DEF Attempts
    <3> QED
      BY <1>4, <2>1, <3>1, <3>2, Zenon
  <2> QED
    BY <2>2, <2>4, <2>5, Zenon DEF Budget
<1>18. Handles(fwd[f], k)'
  BY Zenon DEF Handles, Holds, Exchange
<1> QED
  BY <1>4, <1>5, <1>6, <1>13, <1>14, <1>15, <1>16, <1>17, <1>18, Zenon DEF ItemInv, Fresh, Ready


LEMMA MovedNoted ==
  ASSUME OutboxInv, NEW d,
         prod' = [p \in Producer |-> [prod[p] EXCEPT !.moved = @ \/ (d = "pending" /\ prod[p].pc = "usage")]]
  PROVE  Notes /\ (d = "pending" => \A p \in Producer : prod[p].pc = "usage" => prod'[p].moved)
<1>1. prod' = [p \in Producer |-> prod'[p]]
  OBVIOUS
<1>2. ASSUME NEW p \in Producer
      PROVE  /\ ProdOK(prod'[p]) /\ (prod[p].moved => prod'[p].moved)
             /\ \A x \in ProdFields \ {"moved"} : prod'[p][x] = prod[p][x]
             /\ d = "pending" /\ prod[p].pc = "usage" => prod'[p].moved
  <2>1. ProdOK(prod[p])
    BY Zenon DEF OutboxInv, OutboxType
  <2>2. PICK b \in BOOLEAN : b = (prod[p].moved \/ (d = "pending" /\ prod[p].pc = "usage"))
    BY Zenon
  <2>3. prod'[p] = [prod[p] EXCEPT !.moved = b]
    BY <2>2, Zenon
  <2>4. prod[p] = [x \in ProdFields |-> prod[p][x]]
    BY <2>1, Zenon DEF ProdOK
  <2>5. prod'[p] = [x \in ProdFields |-> IF x = "moved" THEN b ELSE prod[p][x]]
    BY <2>3, <2>4, Zenon
  <2>6. /\ prod'[p].moved = b /\ \A x \in ProdFields \ {"moved"} : prod'[p][x] = prod[p][x]
        /\ prod'[p] = [x \in ProdFields |-> prod'[p][x]]
    BY <2>5, Zenon DEF ProdFields
  <2>7. /\ prod'[p].pc = prod[p].pc /\ prod'[p].key = prod[p].key /\ prod'[p].probe = prod[p].probe
        /\ prod'[p].used = prod[p].used /\ prod'[p].result = prod[p].result
    BY <2>6, Zenon DEF ProdFields
  <2>8. ProdOK(prod'[p])
    BY <2>1, <2>6, <2>7, Zenon DEF ProdOK
  <2> QED
    BY <2>2, <2>6, <2>8, Zenon
<1> QED
  BY <1>1, <1>2, Zenon DEF Notes

LEMMA TransitionStep ==
  ASSUME OneForwarder, OutboxInv, NEW f \in Forwarder, Transition(f),
         ~exists(fwd[f].dest, fwd[f].key)
  PROVE  OutboxInv'
<1> DEFINE q == [fwd[f] EXCEPT !.pc = "remove"]
<1>1. fwd[f].pc = "transition"
  BY Zenon DEF Transition
<1>2. /\ Shaped(fwd[f]) /\ fwd[f].at \in Nat /\ fwd[f].at <= now
      /\ fwd[f].key \in Key /\ fwd[f].item \in Item /\ exists("inflight", fwd[f].key)
      /\ fwd[f].dest \in {"pending", "history", "dead"}
      /\ fwd[f].then \in {"recover", "next", "idle"}
      /\ fwd[f].then = "recover" => fwd[f].dest = "pending" /\ Lists(fwd[f], "inflight")
  BY <1>1, Transitions, Zenon
<1>3. PICK k \in Key, d \in {"pending", "history", "dead"}, v \in Item :
        k = fwd[f].key /\ d = fwd[f].dest /\ v = fwd[f].item
  BY <1>2, Zenon
<1>4. /\ disk' = [disk EXCEPT ![d][k] = v]
      /\ prod' = [p \in Producer |-> [prod[p] EXCEPT !.moved = @ \/ (d = "pending" /\ prod[p].pc = "usage")]]
      /\ UNCHANGED <<lock, stolen, now, sent, sends, kills>> /\ ~exists(d, k)
  BY <1>3, Zenon DEF Transition, put
<1>5. fwd' = [fwd EXCEPT ![f] = q]
  BY <1>2, Zenon DEF Transition
<1>6. PICK r : /\ fwd' = [fwd EXCEPT ![f] = r] /\ r.pc = "remove" /\ r.at = fwd[f].at /\ r.key = k
               /\ r.todo = fwd[f].todo /\ r.then = fwd[f].then /\ Shaped(r)
  <2>1. /\ q.pc = "remove" /\ q.at = fwd[f].at /\ q.key = fwd[f].key /\ q.todo = fwd[f].todo
        /\ q.then = fwd[f].then /\ Shaped(q)
    BY <1>2, Zenon DEF Shaped, Fields
  <2> HIDE DEF q
  <2> QED
    BY <1>3, <1>5, <2>1, Zenon
<1> HIDE DEF q
<1>7. Notes /\ (d = "pending" => \A p \in Producer : prod[p].pc = "usage" => prod'[p].moved)
  BY <1>4, MovedNoted, Zenon
<1>8. /\ disk'[d][k] = v
      /\ \A e \in Dir, x \in Key : e # d \/ x # k => disk'[e][x] = disk[e][x]
  <2>1. DiskType
    BY Zenon DEF OutboxInv, OutboxType
  <2>2. disk' = [disk EXCEPT ![d][k] = v]
    BY <1>4, Zenon
  <2>3. d \in Dir /\ v \in Item \cup {None}
    BY Zenon DEF Dir
  <2>4. /\ disk' \in [Dir -> [Key -> Item \cup {None}]] /\ disk'[d][k] = v
        /\ \A e \in Dir, x \in Key : e # d \/ x # k => disk'[e][x] = disk[e][x]
    BY ONLY <2>1, <2>2, <2>3, Put, ZenonT(60)
  <2> QED
    BY <2>4, Zenon
<1>9. fwd'[f] = r
  BY <1>6, Alone, Zenon
<1>10. Kept(k)
  <2>1. /\ stolen' = stolen /\ now' = now /\ sent' = sent /\ sends' = sends /\ kills' = kills
        /\ ~exists(d, k) /\ r.pc = "remove" /\ r.key = k /\ r.then = fwd[f].then
    BY <1>4, <1>6, Zenon
  <2>2. disk'[d][k] = fwd[f].item
    BY <1>3, <1>8, Zenon
  <2> QED
    BY <1>1, <1>3, <1>7, <1>8, <1>9, <2>1, <2>2, TransitionKeeps, ZenonT(30)
<1>11. exists(d, k)'
  BY <1>8, OutboxAssumption, Zenon DEF exists
<1>12. r.then = "recover" => Lists(r, "inflight")'
  <2>1. ASSUME r.then = "recover", NEW j \in DOMAIN r.todo
        PROVE  j \in Key /\ disk'["inflight"][j] # None /\ r.todo[j] = disk'["inflight"][j] /\ j # r.key
    <3>1. j \in Key /\ disk["inflight"][j] # None /\ r.todo[j] = disk["inflight"][j] /\ j # k
      BY <1>2, <1>3, <1>6, <2>1, Zenon DEF Lists
    <3>2. disk'["inflight"][j] = disk["inflight"][j]
      BY <1>8, <3>1, Zenon DEF Dir
    <3> QED
      BY <1>6, <3>1, <3>2, Zenon
  <2> QED
    BY <2>1, Zenon DEF Lists
<1>13. ForwarderOK(r)'
  <2>1. /\ Shaped(r) /\ r.at \in Nat /\ r.at <= now' /\ r.pc = "remove" /\ r.key \in Key
        /\ r.then \in {"recover", "next", "idle"}
        /\ \E e \in {"pending", "history", "dead"} : exists(e, r.key)'
    BY <1>2, <1>4, <1>6, <1>11, Zenon
  <2> QED
    BY <1>12, <2>1, Zenon DEF ForwarderOK, Exchange, Shaped
<1>14. \A x \in Key : x # k => Follows(fwd[f], r, x)
  BY <1>1, <1>3, <1>6, Zenon DEF Follows, Keeps, Holds, Claims, Handles, Exchange, Attempts
<1>15. d \in Dir /\ v \in Item \cup {None}
  BY Zenon DEF Dir
<1>16. UNCHANGED <<lock, stolen, now, sent, sends, kills>> /\ fwd' = [fwd EXCEPT ![f] = r]
  BY <1>4, <1>6, Zenon
<1>17. disk' = [disk EXCEPT ![d][k] = v] /\ Notes
  BY <1>4, <1>7, Zenon
<1> QED
  BY <1>10, <1>13, <1>14, <1>15, <1>16, <1>17, MovedStep, Zenon

\* The forwarder keeps the invariant.
LEMMA ForwarderActs ==
  ASSUME OneForwarder, OutboxInv, NEW f \in Forwarder,
         ForwardStep(f) \/ Acked(f) \/ Failed(f) \/ KillForwarder(f)
  PROVE  OutboxInv'
<1>1. CASE Transition(f)
  BY <1>1, TransitionStep, RefusedStep, Zenon
<1>2. ASSUME NEW k \in Key, ClaimItem(f, k) PROVE OutboxInv'
  BY <1>2, ClaimStep, ClaimedStep, Zenon
<1>3. ASSUME NEW k \in Key, Recover(f, k) PROVE OutboxInv'
  BY <1>3, RecoverStep, Zenon
<1> QED
  BY <1>1, <1>2, <1>3, StartStep, RestStep, RemoveStep, ClaimListStep, ClaimDropStep, ClaimRemoveStep,
     SendStep, AckedStep, FailedStep, Zenon DEF ForwardStep


-----------------------------------------------------------------------------
\* Steps of a producer.

\* What is true of its new record.
ProducerOK(r) ==
  /\ ProdOK(r) /\ Missed(r)
  /\ Reports(r) => Stored(r.key)
  /\ r.pc = "acknowledged" => exists("history", r.key)
  /\ r.pc = "deadLetter" => exists("dead", r.key)
  /\ "capacity" \notin stolen /\ (\A p \in Producer : ~prod[p].moved) => Counting(r)

LEMMA ProducerStep ==
  ASSUME OutboxInv, UNCHANGED <<disk, fwd, now, sent, sends>>, kills' \in Nat, kills <= kills',
         stolen \subseteq stolen', Locked', NEW p \in Producer, NEW r,
         prod' = [prod EXCEPT ![p] = r], ProducerOK(r), r.moved = prod[p].moved
  PROVE  OutboxInv'
<1>1. /\ prod' = [q \in Producer |-> prod'[q]] /\ prod'[p] = r
      /\ \A q \in Producer : q # p => prod'[q] = prod[q]
  <2>1. prod' = [q \in Producer |-> IF q = p THEN r ELSE prod[q]]
    BY Zenon DEF OutboxInv, OutboxType
  <2> QED
    BY <2>1, Zenon
<1>2. \A d, x : exists(d, x)' <=> exists(d, x)
  BY Zenon DEF exists
<1>3. \A x : (Stored(x)' <=> Stored(x)) /\ (Settled(x)' <=> Settled(x))
  BY <1>2, Zenon DEF Stored, Settled
<1>4. \A x : (Parked(x)' <=> Parked(x)) /\ (Fresh(x)' <=> Fresh(x)) /\ (Ready(x)' <=> Ready(x))
  <2>1. \A x : Parked(x)' <=> Parked(x)
    BY <1>2, <1>3, Zenon DEF Parked
  <2>2. \A x : Fresh(x)' <=> Fresh(x)
    BY <1>2, <2>1, Zenon DEF Fresh
  <2> QED
    BY <1>2, <2>1, <2>2, Zenon DEF Ready
<1>5. \A x : ~Unlocked(x)' => ~Unlocked(x)
  BY Zenon DEF Unlocked
<1>6. OutboxType'
  <2>1. DiskType'
    BY Zenon DEF OutboxInv, OutboxType, DiskType
  <2>2. \A g \in Forwarder : ForwarderOK(fwd[g])'
    BY ZenonT(60) DEF OutboxInv, OutboxType, ForwarderOK, Lists, exists
  <2>3. \A q \in Producer : ProdOK(prod[q])'
    BY <1>1, Zenon DEF OutboxInv, OutboxType, ProducerOK, ProdOK
  <2>4. fwd' = [g \in Forwarder |-> fwd'[g]]
    BY Zenon DEF OutboxInv, OutboxType
  <2> QED
    BY <1>1, <2>1, <2>2, <2>3, <2>4, Zenon DEF OutboxType
<1>7. Reported'
  <2>1. ASSUME NEW q \in Producer
        PROVE  /\ Reports(prod[q])' => Stored(prod[q].key)'
               /\ prod'[q].pc = "acknowledged" => exists("history", prod[q].key)'
               /\ prod'[q].pc = "deadLetter" => exists("dead", prod[q].key)'
    <3>1. CASE q = p
      <4>1. Reports(prod[q])' <=> Reports(r)
        BY <1>1, <3>1, Zenon DEF Reports
      <4> QED
        BY <1>1, <1>2, <1>3, <3>1, <4>1, Zenon DEF ProducerOK, Stored, exists
    <3>2. CASE q # p
      <4>1. Reports(prod[q])' <=> Reports(prod[q])
        BY <1>1, <3>2, Zenon DEF Reports
      <4> QED
        BY <1>1, <1>2, <1>3, <3>2, <4>1 DEF OutboxInv, Reported, Stored, exists
    <3> QED
      BY <3>1, <3>2, Zenon
  <2> QED
    BY <2>1, Zenon DEF Reported
<1>8. ASSUME NEW k \in Key, ~Unlocked(k)' PROVE ItemInv(k)'
  <2>1. ItemInv(k)
    BY <1>5, <1>8, Zenon DEF OutboxInv
  <2>2. OneBody(k)' /\ Places(k)'
    BY <1>2, <1>3, <2>1, Zenon DEF ItemInv, OneBody, Places
  <2>3. Budget(k)'
    <3>1. /\ sends[k] \in Nat /\ kills \in Nat /\ Len(Backoff) \in Nat
          /\ \A d \in Dir : exists(d, k) => disk[d][k].attempts \in Nat
      BY OutboxAssumption DEF OutboxInv, OutboxType, DiskType, exists, Item
    <3>2. Budget(k)
      BY <2>1, Zenon DEF ItemInv
    <3>3. sends[k] <= Len(Backoff) + kills'
      BY <3>1, <3>2 DEF Budget
    <3>4. ASSUME exists("pending", k)
          PROVE  /\ disk["pending"][k].attempts < Len(Backoff)
                 /\ sends[k] <= disk["pending"][k].attempts + kills'
      <4>1. /\ disk["pending"][k].attempts < Len(Backoff) /\ disk["pending"][k].attempts \in Nat
            /\ sends[k] <= disk["pending"][k].attempts + kills
        BY <3>1, <3>2, <3>4, Zenon DEF Budget, Dir
      <4> QED
        BY <3>1, <4>1, SMTT(30), SMTT(30)
    <3>5. ASSUME exists("inflight", k), ~Settled(k)
          PROVE  /\ disk["inflight"][k].attempts < Len(Backoff)
                 /\ \/ sends[k] <= disk["inflight"][k].attempts + kills'
                    \/ /\ sends[k] <= disk["inflight"][k].attempts + kills' + 1
                       /\ \E g \in Forwarder : Attempts(fwd[g], k)
      <4>1. /\ disk["inflight"][k].attempts < Len(Backoff)
            /\ \/ sends[k] <= disk["inflight"][k].attempts + kills
               \/ /\ sends[k] <= disk["inflight"][k].attempts + kills + 1
                  /\ \E g \in Forwarder : Attempts(fwd[g], k)
        BY <3>2, <3>5, Zenon DEF Budget
      <4>2. disk["inflight"][k].attempts \in Nat
        BY <3>1, <3>5, Zenon DEF Dir
      <4>3. CASE sends[k] <= disk["inflight"][k].attempts + kills
        BY <3>1, <4>1, <4>2, <4>3, SMTT(30), SMTT(30)
      <4>4. CASE sends[k] <= disk["inflight"][k].attempts + kills + 1
        <5>1. sends[k] <= disk["inflight"][k].attempts + kills' + 1
          BY <3>1, <4>2, <4>4, SMTT(60), SMTT(60)
        <5> QED
          BY <4>1, <4>3, <5>1, Zenon
      <4> QED
        BY <4>1, <4>3, <4>4, Zenon
    <3>6. (\E g \in Forwarder : Attempts(fwd[g], k)) <=> \E g \in Forwarder : Attempts(fwd[g], k)'
      BY Zenon DEF Attempts
    <3> QED
      BY <1>2, <1>3, <3>3, <3>4, <3>5, <3>6, Zenon DEF Budget
  <2>4. \A g \in Forwarder : Handles(fwd[g], k)'
    BY <1>2, <1>3, <2>1, ZenonT(30) DEF ItemInv, Handles, Holds
  <2> QED
    BY <2>2, <2>3, <2>4, Zenon DEF ItemInv
<1>9. Searches'
  <2>1. ASSUME NEW q \in Producer PROVE Missed(prod[q])'
    <3>1. Missed(prod'[q])
      BY <1>1, Zenon DEF ProducerOK, OutboxInv, Searches
    <3>2. PICK m : m = prod'[q]
      OBVIOUS
    <3>3. Missed(m) => Missed(m)'
      BY <1>2, <1>3, <1>4, <1>5, Zenon DEF Missed
    <3> QED
      BY <3>1, <3>2, <3>3, Zenon
  <2> QED
    BY <2>1, Zenon DEF Searches
<1>10. CapacityInv'
  <2>1. Counted' = Counted /\ \A d : listing(d)' = listing(d)
    BY Zenon DEF Counted, listing, exists
  <2>2. CardinalityFacts /\ IsFiniteSet(Counted)'
    BY <2>1, Zenon DEF OutboxInv, CapacityInv
  <2>3. ASSUME "capacity" \notin stolen', \A q \in Producer : ~prod'[q].moved
        PROVE  Cardinality(Counted) <= Capacity /\ \A q \in Producer : Counting(prod'[q])
    <3>1. "capacity" \notin stolen /\ \A q \in Producer : ~prod[q].moved
      BY <1>1, <2>3, Zenon
    <3> QED
      BY <1>1, <3>1, Zenon DEF OutboxInv, CapacityInv, ProducerOK
  <2>4. ASSUME NEW q \in Producer, Counting(prod'[q]) PROVE Counting(prod[q])'
    <3>1. PICK m : m = prod'[q]
      OBVIOUS
    <3>2. Counting(m) => Counting(m)'
      BY <2>1, Zenon DEF Counting, Counts
    <3> QED
      BY <2>4, <3>1, <3>2, Zenon
  <2> QED
    BY <2>1, <2>2, <2>3, <2>4, Zenon DEF CapacityInv
<1> QED
  BY <1>6, <1>7, <1>8, <1>9, <1>10, Zenon DEF OutboxInv


Results == {"queued", "duplicate", "relookup", "refused", "error"}

LEMMA Goes ==
  ASSUME OutboxInv, NEW p \in Producer, prod[p].pc # "start", NEW x \in ProdPC, goto(p, x),
         x \in {"releaseItem", "releaseCapacity"} => prod[p].result \in Results
  PROVE  \E r : /\ prod' = [prod EXCEPT ![p] = r] /\ ProdOK(r) /\ r.pc = x /\ r.probe = 1
                /\ r.key = prod[p].key /\ r.key \in Key /\ r.used = prod[p].used
                /\ r.moved = prod[p].moved /\ r.result = prod[p].result
<1> DEFINE q == [prod[p] EXCEPT !.pc = x, !.probe = 1]
<1>1. ProdOK(prod[p]) /\ prod[p] = [y \in ProdFields |-> prod[p][y]]
  BY Zenon DEF OutboxInv, OutboxType, ProdOK
<1>2. prod' = [prod EXCEPT ![p] = q]
  BY Zenon DEF goto
<1>3. /\ q.pc = x /\ q.probe = 1 /\ q.key = prod[p].key /\ q.used = prod[p].used
      /\ q.moved = prod[p].moved /\ q.result = prod[p].result /\ q = [y \in ProdFields |-> q[y]]
  BY <1>1, Zenon DEF ProdFields
<1> HIDE DEF q
<1>4. ProdOK(q) /\ q.key \in Key
  BY <1>1, <1>3 DEF ProdOK, Results
<1> QED
  BY <1>2, <1>3, <1>4, Zenon

LEMMA Finishes ==
  ASSUME OutboxInv, NEW p \in Producer, prod[p].pc # "start",
         NEW x \in {"releaseItem", "releaseCapacity"}, NEW res \in Results, finish(p, x, res)
  PROVE  \E r : /\ prod' = [prod EXCEPT ![p] = r] /\ ProdOK(r) /\ r.pc = x
                /\ r.key = prod[p].key /\ r.key \in Key
                /\ r.moved = prod[p].moved /\ r.result = res
<1> DEFINE q == [prod[p] EXCEPT !.pc = x, !.probe = 1, !.result = res]
<1>1. ProdOK(prod[p]) /\ prod[p] = [y \in ProdFields |-> prod[p][y]]
  BY Zenon DEF OutboxInv, OutboxType, ProdOK
<1>2. prod' = [prod EXCEPT ![p] = q]
  BY Zenon DEF finish
<1>3. /\ q.pc = x /\ q.probe = 1 /\ q.key = prod[p].key /\ q.used = prod[p].used
      /\ q.moved = prod[p].moved /\ q.result = res /\ q = [y \in ProdFields |-> q[y]]
  BY <1>1, Zenon DEF ProdFields
<1> HIDE DEF q
<1>4. ProdOK(q) /\ q.key \in Key
  BY <1>1, <1>3 DEF ProdOK, Results, ProdPC, InCapacity
<1> QED
  BY <1>2, <1>3, <1>4, Zenon

\* A record about which the invariant says little.
LEMMA PlainRecord ==
  ASSUME NEW r, ProdOK(r),
         r.pc \notin {"bounded", "usage", "itemLock", "itemSteal", "enqueue", "write"},
         Reports(r) => Stored(r.key),
         r.pc = "acknowledged" => exists("history", r.key),
         r.pc = "deadLetter" => exists("dead", r.key)
  PROVE  ProducerOK(r)
BY Zenon DEF ProducerOK, Missed, Counting

\* The locks, when only p has moved and no lock file has changed.
LEMMA LocksStay ==
  ASSUME OutboxInv, UNCHANGED <<lock, stolen>>, NEW p \in Producer, NEW r,
         prod' = [prod EXCEPT ![p] = r],
         r.pc \in InCapacity => prod[p].pc \in InCapacity,
         r.pc \in InItem => prod[p].pc \in InItem /\ r.key = prod[p].key
  PROVE  Locked'
<1>1. /\ prod'[p] = r /\ \A q \in Producer : q # p => prod'[q] = prod[q]
  BY Zenon DEF OutboxInv, OutboxType
<1> QED
  BY <1>1 DEF OutboxInv, Locked

\* A producer's step that leaves files, locks and kills alone.
LEMMA PlainStep ==
  ASSUME OutboxInv, UNCHANGED <<disk, lock, stolen, fwd, now, sent, sends, kills>>,
         NEW p \in Producer, NEW r, prod' = [prod EXCEPT ![p] = r], ProducerOK(r),
         r.moved = prod[p].moved,
         r.pc \in InCapacity => prod[p].pc \in InCapacity,
         r.pc \in InItem => prod[p].pc \in InItem /\ r.key = prod[p].key
  PROVE  OutboxInv'
<1>1. Locked'
  BY LocksStay, Zenon
<1>2. kills' \in Nat /\ kills <= kills' /\ stolen \subseteq stolen'
  BY DEF OutboxInv, OutboxType, DiskType
<1>3. UNCHANGED <<disk, fwd, now, sent, sends>>
  OBVIOUS
<1> QED
  BY <1>1, <1>2, <1>3, ProducerStep, Zenon

LEMMA EmitIsSafe ==
  ASSUME OutboxInv, NEW p \in Producer, NEW k \in Key, Emit(p, k)
  PROVE  OutboxInv'
<1> DEFINE q == [prod[p] EXCEPT !.pc = "lookup", !.key = k, !.sentAt = now]
<1>1. ProdOK(prod[p]) /\ prod[p] = [y \in ProdFields |-> prod[p][y]]
  BY Zenon DEF OutboxInv, OutboxType, ProdOK
<1>2. /\ prod' = [prod EXCEPT ![p] = q]
      /\ UNCHANGED <<disk, lock, stolen, fwd, now, sent, sends, kills>>
  BY Zenon DEF Emit
<1>3. /\ q.pc = "lookup" /\ q.key = k /\ q.probe = prod[p].probe /\ q.used = prod[p].used
      /\ q.moved = prod[p].moved /\ q = [y \in ProdFields |-> q[y]]
  BY <1>1, Zenon DEF ProdFields
<1> HIDE DEF q
<1>4. ProdOK(q)
  BY <1>1, <1>3, Zenon DEF ProdOK, ProdPC
<1>5. ProducerOK(q)
  BY <1>3, <1>4, PlainRecord, Zenon DEF Reports, Told
<1> QED
  BY <1>2, <1>3, <1>5, PlainStep, Zenon DEF InCapacity, InItem

\* AskStatus, WaitTimeout and KillProducer.
LEMMA AsksOrEnds ==
  ASSUME OutboxInv, NEW p \in Producer, AskStatus(p) \/ WaitTimeout(p) \/ KillProducer(p)
  PROVE  OutboxInv'
<1>1. PICK x \in {"status", "timeout", "killed"} :
        goto(p, x) /\ prod[p].pc # "start" /\ (x # "killed" => prod[p].pc \in {"queued", "duplicate", "wait"})
  BY Zenon DEF AskStatus, WaitTimeout, KillProducer, AtRest
<1>2. /\ UNCHANGED <<disk, fwd, now, sent, sends>> /\ UNCHANGED <<lock, stolen>>
  BY Zenon DEF AskStatus, WaitTimeout, KillProducer
<1>3. kills' \in Nat /\ kills <= kills'
  BY DEF AskStatus, WaitTimeout, KillProducer, OutboxInv, OutboxType, DiskType
<1>4. PICK r : /\ prod' = [prod EXCEPT ![p] = r] /\ ProdOK(r) /\ r.pc = x
               /\ r.key = prod[p].key /\ r.moved = prod[p].moved
  <2>1. x \in ProdPC /\ x \notin {"releaseItem", "releaseCapacity"}
    BY Zenon DEF ProdPC, AtRest, Ended
  <2> QED
    BY <1>1, <2>1, Goes
<1>5. ProducerOK(r)
  <2>1. Reports(r) => Stored(r.key)
    BY <1>1, <1>4, Zenon DEF OutboxInv, Reported, Reports, Told
  <2> QED
    BY <1>4, <2>1, PlainRecord, Zenon
<1>6. Locked'
  BY <1>2, <1>4, LocksStay, Zenon DEF InCapacity, InItem
<1>7. stolen \subseteq stolen'
  BY <1>2, Zenon
<1> QED
  BY <1>2, <1>3, <1>4, <1>5, <1>6, <1>7, ProducerStep, Zenon


\* Where a search of EnqueueBounded or Enqueue stands.
Searching == {"bounded", "enqueue"}

LEMMA FoundStep ==
  ASSUME OutboxInv, NEW p \in Producer, NEW d \in Dir, exists(d, prod[p].key), Found(p, d),
         prod[p].pc \in {"lookup", "bounded", "enqueue", "relookup", "status"},
         UNCHANGED <<disk, lock, stolen, fwd, now, sent, sends, kills>>
  PROVE  OutboxInv'
<1>1. Stored(prod[p].key)
  BY Zenon DEF Stored
<1>2. CASE prod[p].pc \in {"lookup", "relookup", "status"}
  <2>1. PICK x \in {"duplicate", "acknowledged", "deadLetter", "wait"} :
          /\ goto(p, x)
          /\ x = "acknowledged" => d = "history"
          /\ x = "deadLetter" => d = "dead"
    BY <1>2, Zenon DEF Found
  <2>2. PICK r : /\ prod' = [prod EXCEPT ![p] = r] /\ ProdOK(r) /\ r.pc = x
                 /\ r.key = prod[p].key /\ r.moved = prod[p].moved
    <3>1. x \in ProdPC /\ x \notin {"releaseItem", "releaseCapacity"} /\ prod[p].pc # "start"
      BY Zenon DEF ProdPC, AtRest, Ended
    <3> QED
      BY <2>1, <3>1, Goes
  <2>3. ProducerOK(r)
    BY <1>1, <2>1, <2>2, PlainRecord, Zenon
  <2> QED
    BY <2>2, <2>3, PlainStep, Zenon DEF InCapacity, InItem
<1>3. CASE prod[p].pc \in Searching
  <2>1. PICK x \in {"releaseItem", "releaseCapacity"} :
          finish(p, x, "relookup") /\ (x = "releaseItem" => prod[p].pc = "enqueue")
    BY <1>3, Zenon DEF Found, Searching
  <2>2. PICK r : /\ prod' = [prod EXCEPT ![p] = r] /\ ProdOK(r) /\ r.pc = x
                 /\ r.key = prod[p].key /\ r.moved = prod[p].moved /\ r.result = "relookup"
    BY <2>1, Finishes DEF Results
  <2>3. ProducerOK(r)
    BY <2>2, PlainRecord, Zenon DEF Reports, Told
  <2> QED
    BY <1>3, <2>1, <2>2, <2>3, PlainStep, Zenon DEF InCapacity, InItem, Searching
<1> QED
  BY <1>2, <1>3, Zenon DEF Searching

\* The search goes on to the next directory.
LEMMA OnwardStep ==
  ASSUME OutboxInv, NEW p \in Producer,
         prod[p].pc \in {"lookup", "bounded", "enqueue", "relookup", "status"},
         prod[p].probe < 4, prod' = [prod EXCEPT ![p].probe = @ + 1],
         ~exists(Order(prod[p].pc)[prod[p].probe], prod[p].key),
         UNCHANGED <<disk, lock, stolen, fwd, now, sent, sends, kills>>
  PROVE  OutboxInv'
<1> DEFINE q == [prod[p] EXCEPT !.probe = prod[p].probe + 1]
<1>1. ProdOK(prod[p]) /\ prod[p] = [y \in ProdFields |-> prod[p][y]]
  BY Zenon DEF OutboxInv, OutboxType, ProdOK
<1>2. prod' = [prod EXCEPT ![p] = q]
  OBVIOUS
<1>3. /\ q.pc = prod[p].pc /\ q.key = prod[p].key /\ q.probe = prod[p].probe + 1
      /\ q.used = prod[p].used /\ q.moved = prod[p].moved /\ q.result = prod[p].result
      /\ q = [y \in ProdFields |-> q[y]]
  BY <1>1, Zenon DEF ProdFields
<1> HIDE DEF q
<1>4. prod[p].probe \in {1, 2, 3}
  BY <1>1 DEF ProdOK
<1>5. ProdOK(q)
  BY <1>1, <1>3, <1>4 DEF ProdOK
<1>6. /\ prod[p].pc \in Searching /\ prod[p].probe = 1 => ~exists("pending", prod[p].key)
      /\ prod[p].pc \in Searching /\ prod[p].probe = 2 => ~exists("inflight", prod[p].key)
      /\ prod[p].pc \in Searching /\ prod[p].probe = 3 => ~exists("history", prod[p].key)
  <2>1. /\ enqueueOrder[1] = "pending" /\ enqueueOrder[2] = "inflight"
        /\ enqueueOrder[3] = "history"
    BY Zenon DEF enqueueOrder
  <2>2. prod[p].pc \in Searching => Order(prod[p].pc) = enqueueOrder
    BY Zenon DEF Order, Searching
  <2> HIDE DEF enqueueOrder
  <2> QED
    BY <2>1, <2>2, Zenon
<1>7. Missed(q)
  <2> DEFINE k == prod[p].key
  <2> SUFFICES ASSUME prod[p].pc \in Searching, Stored(k), ~Unlocked(k)
               PROVE  /\ q.pc = "bounded" /\ q.probe >= 2 => exists("inflight", k) \/ Ready(k)
                      /\ q.pc = "bounded" /\ q.probe >= 3 => Ready(k)
                      /\ q.pc = "enqueue" => Ready(k)
                      /\ q.pc = "enqueue" /\ q.probe >= 2 => Fresh(k)
                      /\ q.pc = "enqueue" /\ q.probe >= 3 => Parked(k)
                      /\ q.pc = "enqueue" /\ q.probe >= 4 =>
                           exists("dead", k) \/ (exists("pending", k) /\ disk["pending"][k].next > now)
    BY <1>3, Zenon DEF Missed, InCapacity, Searching
  <2>1. Missed(prod[p])
    BY Zenon DEF OutboxInv, Searches
  <2>2. CASE prod[p].pc = "bounded"
    <3>1. CASE prod[p].probe = 1
      <4>1. exists("inflight", k) \/ Ready(k)
        BY <1>6, <3>1, Zenon DEF Stored, Dir, Ready, Fresh, Parked, Settled, Searching
      <4>2. q.pc = "bounded" /\ q.probe = 2
        BY <1>3, <2>2, <3>1
      <4> QED
        BY <4>1, <4>2 DEF exists
    <3>2. CASE prod[p].probe = 2
      <4>1. Ready(k)
        <5>1. exists("inflight", k) \/ Ready(k)
          BY <2>1, <2>2, <3>2 DEF Missed, InCapacity, exists
        <5> QED
          BY <1>6, <3>2, <5>1, Zenon
      <4> QED
        BY <1>3, <2>2, <3>2, <4>1, Zenon
    <3>3. CASE prod[p].probe = 3
      <4>1. Ready(k)
        BY <2>1, <2>2, <3>3 DEF Missed, InCapacity, Searching
      <4> QED
        BY <1>3, <2>2, <3>3, <4>1, Zenon
    <3> QED
      BY <1>4, <3>1, <3>2, <3>3, Zenon
  <2>3. CASE prod[p].pc = "enqueue"
    <3>1. Ready(k)
      BY <2>1, <2>3, Zenon DEF Missed, InCapacity
    <3>2. CASE prod[p].probe = 1
      <4>1. Fresh(k)
        BY <1>6, <3>1, <3>2, Zenon DEF Ready, Searching
      <4> QED
        BY <1>3, <2>3, <3>1, <3>2, <4>1
    <3>3. CASE prod[p].probe = 2
      <4>1. Fresh(k) /\ Parked(k)
        <5>1. Fresh(k)
          BY <2>1, <2>3, <3>3 DEF Missed, InCapacity
        <5> QED
          BY <1>6, <3>3, <5>1, Zenon DEF Fresh
      <4> QED
        BY <1>3, <2>3, <3>1, <3>3, <4>1
    <3>4. CASE prod[p].probe = 3
      <4>1. Fresh(k) /\ Parked(k)
        BY <2>1, <2>3, <3>4 DEF Missed, InCapacity
      <4>2. exists("dead", k) \/ (exists("pending", k) /\ disk["pending"][k].next > now)
        BY <1>6, <3>4, <4>1, Zenon DEF Parked, Settled, Searching
      <4> QED
        BY <1>3, <2>3, <3>1, <3>4, <4>1, <4>2, Zenon
    <3> QED
      BY <1>4, <3>2, <3>3, <3>4, Zenon
  <2> QED
    BY <2>2, <2>3, Zenon DEF Searching
<1>8. ProducerOK(q)
  <2>1. Reports(q) => Stored(q.key)
    BY <1>3, Zenon DEF OutboxInv, Reported, Reports
  <2>2. "capacity" \notin stolen /\ (\A s \in Producer : ~prod[s].moved) => Counting(q)
    BY <1>3, Zenon DEF OutboxInv, CapacityInv, Counting
  <2> QED
    BY <1>3, <1>5, <1>7, <2>1, <2>2, Zenon DEF ProducerOK
<1> QED
  BY <1>2, <1>3, <1>8, PlainStep, Zenon


\* The search has not found the item.
LEMMA NotFoundStep ==
  ASSUME OutboxInv, NEW p \in Producer,
         prod[p].pc \in {"lookup", "bounded", "enqueue", "relookup", "status"},
         prod[p].probe = 4, NotFound(p), ~exists(Order(prod[p].pc)[4], prod[p].key),
         UNCHANGED <<disk, lock, stolen, fwd, now, sent, sends, kills>>
  PROVE  OutboxInv'
<1>1. CASE prod[p].pc \in {"lookup", "relookup", "status"}
  <2>1. PICK x \in {"capacityLock", "error"} : goto(p, x)
    BY <1>1, Zenon DEF NotFound
  <2>2. PICK r : /\ prod' = [prod EXCEPT ![p] = r] /\ ProdOK(r) /\ r.pc = x
                 /\ r.moved = prod[p].moved
    <3>1. x \in ProdPC /\ x \notin {"releaseItem", "releaseCapacity"} /\ prod[p].pc # "start"
      BY Zenon DEF ProdPC, AtRest, Ended
    <3> QED
      BY <2>1, <3>1, Goes
  <2>3. ProducerOK(r)
    BY <2>2, PlainRecord, Zenon DEF Reports, Told
  <2> QED
    BY <2>2, <2>3, PlainStep, Zenon DEF InCapacity, InItem
<1>2. CASE prod[p].pc \in Searching
  <2>1. PICK x \in {"usage", "write"} :
          /\ goto(p, x)
          /\ x = "usage" => prod[p].pc = "bounded"
          /\ x = "write" => prod[p].pc = "enqueue"
    BY <1>2, Zenon DEF NotFound, Searching
  <2>2. PICK r : /\ prod' = [prod EXCEPT ![p] = r] /\ ProdOK(r) /\ r.pc = x /\ r.probe = 1
                 /\ r.key = prod[p].key /\ r.moved = prod[p].moved
    <3>1. x \in ProdPC /\ x \notin {"releaseItem", "releaseCapacity"} /\ prod[p].pc # "start"
      BY Zenon DEF ProdPC, InCapacity
    <3> QED
      BY <2>1, <3>1, Goes
  <2>3. ~exists("dead", prod[p].key)
    <3>1. enqueueOrder[4] = "dead"
      BY Zenon DEF enqueueOrder
    <3>2. Order(prod[p].pc) = enqueueOrder
      BY <1>2, Zenon DEF Order, Searching
    <3> QED
      BY <3>1, <3>2, Zenon
  <2>4. Missed(prod[p])
    BY Zenon DEF OutboxInv, Searches
  <2>5. Missed(r)
    <3>1. ASSUME Stored(prod[p].key), ~Unlocked(prod[p].key), x = "usage"
          PROVE  Ready(prod[p].key)
      <4>1. prod[p].pc = "bounded" /\ prod[p].probe >= 3 /\ prod[p].pc \in InCapacity
        BY <2>1, <3>1 DEF InCapacity
      <4> QED
        BY <2>4, <3>1, <4>1, Zenon DEF Missed
    <3>2. ASSUME Stored(prod[p].key), ~Unlocked(prod[p].key), x = "write"
          PROVE  exists("pending", prod[p].key) /\ disk["pending"][prod[p].key].next > now
      <4>1. /\ prod[p].pc = "enqueue" /\ prod[p].probe >= 4 /\ prod[p].pc \in InCapacity
        BY <2>1, <3>2 DEF InCapacity
      <4>2. \/ exists("dead", prod[p].key)
            \/ exists("pending", prod[p].key) /\ disk["pending"][prod[p].key].next > now
        BY <2>4, <3>2, <4>1, Zenon DEF Missed
      <4> QED
        BY <2>3, <4>2, Zenon
    <3> QED
      BY <2>2, <3>1, <3>2, Zenon DEF Missed
  <2>6. "capacity" \notin stolen /\ (\A q \in Producer : ~prod[q].moved) => Counting(r)
    BY <2>1, <2>2 DEF OutboxInv, CapacityInv, Counting
  <2>7. ProducerOK(r)
    BY <2>2, <2>5, <2>6, Zenon DEF ProducerOK, Reports, Told
  <2> QED
    BY <1>2, <2>1, <2>2, <2>7, PlainStep, Zenon DEF InCapacity, InItem, Searching
<1> QED
  BY <1>1, <1>2, Zenon DEF Searching

LEMMA ProbeStep ==
  ASSUME OutboxInv, NEW p \in Producer, Probe(p)
  PROVE  OutboxInv'
<1> DEFINE order == Order(prod[p].pc)
           d == order[prod[p].probe]
<1>1. /\ prod[p].pc \in {"lookup", "bounded", "enqueue", "relookup", "status"}
      /\ UNCHANGED <<disk, lock, stolen, fwd, now, sent, sends, kills>>
      /\ \/ exists(d, prod[p].key) /\ Found(p, d)
         \/ /\ ~exists(d, prod[p].key) /\ prod[p].probe < Len(order)
            /\ prod' = [prod EXCEPT ![p].probe = @ + 1]
         \/ ~exists(d, prod[p].key) /\ prod[p].probe = Len(order) /\ NotFound(p)
  BY Zenon DEF Probe
<1>2. Len(order) = 4 /\ \A i \in 1..4 : order[i] \in Dir
  BY DEF Order, enqueueOrder, lookupOrder, Dir
<1>3. prod[p].probe \in 1..4
  BY Zenon DEF OutboxInv, OutboxType, ProdOK
<1>4. d \in Dir
  BY <1>2, <1>3, Zenon
<1>5. CASE exists(d, prod[p].key) /\ Found(p, d)
  BY <1>1, <1>4, <1>5, FoundStep, Zenon
<1>6. CASE /\ ~exists(d, prod[p].key) /\ prod[p].probe < Len(order)
           /\ prod' = [prod EXCEPT ![p].probe = @ + 1]
  BY <1>1, <1>2, <1>6, OnwardStep, Zenon
<1>7. CASE ~exists(d, prod[p].key) /\ prod[p].probe = Len(order) /\ NotFound(p)
  BY <1>1, <1>2, <1>7, NotFoundStep, Zenon
<1> QED
  BY <1>1, <1>5, <1>6, <1>7, Zenon


\* SeesStale and LockTimeout.
LEMMA WaitsStep ==
  ASSUME OutboxInv, NEW p \in Producer, SeesStale(p) \/ LockTimeout(p)
  PROVE  OutboxInv'
<1>1. /\ prod[p].pc \in {"capacityLock", "itemLock"}
      /\ UNCHANGED <<disk, lock, stolen, fwd, now, sent, sends, kills>>
      /\ \/ goto(p, IF prod[p].pc = "capacityLock" THEN "capacitySteal" ELSE "itemSteal")
         \/ prod[p].pc = "capacityLock" /\ goto(p, "error")
         \/ prod[p].pc = "itemLock" /\ finish(p, "releaseCapacity", "error")
  BY Zenon DEF SeesStale, LockTimeout
<1>2. CASE /\ prod[p].pc = "capacityLock" /\ \E x \in {"capacitySteal", "error"} : goto(p, x)
  <2>1. PICK x \in {"capacitySteal", "error"} : goto(p, x)
    BY <1>2, Zenon
  <2>2. PICK r : prod' = [prod EXCEPT ![p] = r] /\ ProdOK(r) /\ r.pc = x /\ r.moved = prod[p].moved
    <3>1. x \in ProdPC /\ x \notin {"releaseItem", "releaseCapacity"} /\ prod[p].pc # "start"
      BY <1>2, Zenon DEF ProdPC, AtRest, Ended
    <3> QED
      BY <2>1, <3>1, Goes
  <2>3. ProducerOK(r)
    BY <2>2, PlainRecord, Zenon DEF Reports, Told
  <2> QED
    BY <1>1, <2>2, <2>3, PlainStep, Zenon DEF InCapacity, InItem
<1>3. CASE prod[p].pc = "itemLock" /\ goto(p, "itemSteal")
  <2>1. PICK r : /\ prod' = [prod EXCEPT ![p] = r] /\ ProdOK(r) /\ r.pc = "itemSteal"
                 /\ r.key = prod[p].key /\ r.moved = prod[p].moved
    BY <1>3, Goes DEF ProdPC, InCapacity
  <2>2. Missed(r)
    <3>1. Missed(prod[p])
      BY Zenon DEF OutboxInv, Searches
    <3>2. prod[p].pc \in InCapacity
      BY <1>3, Zenon DEF InCapacity
    <3> QED
      BY <1>3, <2>1, <3>1, <3>2, Zenon DEF Missed
  <2>3. "capacity" \notin stolen /\ (\A q \in Producer : ~prod[q].moved) => Counting(r)
    BY <1>3, <2>1, Zenon DEF OutboxInv, CapacityInv, Counting
  <2>4. ProducerOK(r)
    BY <2>1, <2>2, <2>3, Zenon DEF ProducerOK, Reports, Told
  <2> QED
    BY <1>1, <1>3, <2>1, <2>4, PlainStep, Zenon DEF InCapacity, InItem
<1>4. CASE prod[p].pc = "itemLock" /\ finish(p, "releaseCapacity", "error")
  <2>1. PICK r : /\ prod' = [prod EXCEPT ![p] = r] /\ ProdOK(r) /\ r.pc = "releaseCapacity"
                 /\ r.moved = prod[p].moved /\ r.result = "error"
    BY <1>4, Finishes DEF Results
  <2>2. ProducerOK(r)
    BY <2>1, PlainRecord, Zenon DEF Reports, Told
  <2> QED
    BY <1>1, <1>4, <2>1, <2>2, PlainStep, Zenon DEF InCapacity, InItem
<1> QED
  BY <1>1, <1>2, <1>3, <1>4, Zenon

-----------------------------------------------------------------------------
\* retryUsage adds up what counts.

LEMMA CountedParts ==
  ASSUME OutboxInv
  PROVE  /\ IsFiniteSet(Counted) /\ Cardinality(Counted) \in Nat
         /\ \A d \in {"pending", "inflight", "dead"} :
              /\ listing(d) \subseteq Counted /\ listing(d) \in SUBSET Key
              /\ IsFiniteSet(listing(d)) /\ Cardinality(listing(d)) \in Nat
<1>1. CardinalityFacts /\ IsFiniteSet(Counted) /\ Cardinality(Counted) \in Nat
  BY Zenon DEF OutboxInv, CapacityInv, CardinalityFacts
<1>2. ASSUME NEW d \in {"pending", "inflight", "dead"}
      PROVE  listing(d) \subseteq Counted /\ listing(d) \in SUBSET Key
  <2>1. listing(d) \in SUBSET Key
    BY Zenon DEF listing
  <2> QED
    BY <2>1, Zenon DEF Counted
<1> QED
  BY <1>1, <1>2, SmallerSet, Zenon

LEMMA UnionBound ==
  ASSUME OutboxInv, NEW A, NEW B, IsFiniteSet(A), IsFiniteSet(B)
  PROVE  /\ IsFiniteSet(A \cup B) /\ Cardinality(A) \in Nat /\ Cardinality(B) \in Nat
         /\ Cardinality(A \cup B) \in Nat /\ Cardinality(A \cup B) <= Cardinality(A) + Cardinality(B)
BY Zenon DEF OutboxInv, CapacityInv, CardinalityFacts

LEMMA FirstCount ==
  ASSUME OutboxInv, NEW r, NEW u \in Nat, r.used = u + Cardinality(listing("pending"))
  PROVE  Counts(r, Key \ listing("pending"))
<1>1. /\ listing("pending") \in SUBSET Key /\ IsFiniteSet(listing("pending"))
      /\ Cardinality(listing("pending")) \in Nat
  BY CountedParts, Zenon
<1>2. Cardinality(listing("pending")) <= r.used
  BY <1>1
<1>3. Counted \ listing("pending") \subseteq Key \ listing("pending")
  BY Zenon DEF Counted, listing
<1> QED
  BY <1>1, <1>2, <1>3, Zenon DEF Counts

LEMMA SecondCount ==
  ASSUME OutboxInv, NEW q, Counts(q, Key \ listing("pending")), q.used \in Nat,
         NEW r, r.used = q.used + Cardinality(listing("inflight"))
  PROVE  Counts(r, listing("dead"))
<1>1. PICK A \in SUBSET Key : /\ IsFiniteSet(A) /\ Cardinality(A) <= q.used
                              /\ Counted \ A \subseteq Key \ listing("pending")
  BY Zenon DEF Counts
<1> DEFINE B == A \cup listing("inflight")
<1>2. IsFiniteSet(listing("inflight")) /\ listing("inflight") \in SUBSET Key
  BY CountedParts, Zenon
<1>3. /\ IsFiniteSet(B) /\ Cardinality(B) <= r.used
  BY <1>1, <1>2, UnionBound
<1>4. Counted \ B \subseteq listing("dead")
  BY <1>1, Zenon DEF Counted
<1>5. B \in SUBSET Key
  BY <1>2, Zenon
<1> QED
  BY <1>3, <1>4, <1>5, Zenon DEF Counts

LEMMA LastCount ==
  ASSUME OutboxInv, NEW q, Counts(q, listing("dead")), q.used \in Nat,
         ~(q.used + Cardinality(listing("dead")) + 1 > Capacity)
  PROVE  Cardinality(Counted) + 1 <= Capacity
<1>1. PICK A \in SUBSET Key : /\ IsFiniteSet(A) /\ Cardinality(A) <= q.used
                              /\ Counted \ A \subseteq listing("dead")
  BY Zenon DEF Counts
<1>2. IsFiniteSet(listing("dead")) /\ Cardinality(listing("dead")) \in Nat
  BY CountedParts, Zenon
<1>3. /\ IsFiniteSet(A \cup listing("dead")) /\ Cardinality(A) \in Nat
      /\ Cardinality(A \cup listing("dead")) <= Cardinality(A) + Cardinality(listing("dead"))
  BY <1>1, <1>2, UnionBound, Zenon
<1>4. Counted \subseteq A \cup listing("dead")
  BY <1>1, Zenon
<1>5. /\ Cardinality(Counted) <= Cardinality(A \cup listing("dead")) /\ Cardinality(Counted) \in Nat
      /\ Cardinality(A \cup listing("dead")) \in Nat
  BY <1>3, <1>4, SmallerSet, Zenon DEF OutboxInv, CapacityInv
<1> QED
  BY <1>1, <1>2, <1>3, <1>5, OutboxAssumption, SMTT(30), SMTT(30)


LEMMA UsageStep ==
  ASSUME OutboxInv, NEW p \in Producer, retryUsage(p)
  PROVE  OutboxInv'
<1> DEFINE used == prod[p].used + Cardinality(listing(usageOrder[prod[p].probe]))
<1>1. /\ prod[p].pc = "usage" /\ UNCHANGED <<disk, lock, stolen, fwd, now, sent, sends, kills>>
      /\ \/ /\ prod[p].probe < 3
            /\ prod' = [prod EXCEPT ![p].probe = @ + 1, ![p].used = used]
         \/ /\ prod[p].probe = 3
            /\ IF used + 1 > Capacity THEN finish(p, "releaseCapacity", "refused")
               ELSE goto(p, "itemLock")
  BY Zenon DEF retryUsage
<1>2. /\ ProdOK(prod[p]) /\ prod[p] = [y \in ProdFields |-> prod[p][y]] /\ prod[p].used \in Nat
      /\ prod[p].probe \in {1, 2, 3}
  BY <1>1 DEF OutboxInv, OutboxType, ProdOK
<1>3. usageOrder[1] = "pending" /\ usageOrder[2] = "inflight" /\ usageOrder[3] = "dead"
  BY Zenon DEF usageOrder
<1> HIDE DEF usageOrder
<1>4. used \in Nat
  BY <1>2, <1>3, CountedParts
<1>5. ASSUME "capacity" \notin stolen, \A q \in Producer : ~prod[q].moved
      PROVE  Counting(prod[p])
  BY <1>5, Zenon DEF OutboxInv, CapacityInv
<1>6. Missed(prod[p]) /\ prod[p].pc \in InCapacity
  BY <1>1, Zenon DEF OutboxInv, Searches, InCapacity
<1>7. CASE prod[p].probe < 3 /\ prod' = [prod EXCEPT ![p].probe = @ + 1, ![p].used = used]
  <2> DEFINE q == [prod[p] EXCEPT !.probe = prod[p].probe + 1, !.used = used]
  <2>1. prod' = [prod EXCEPT ![p] = q]
    BY <1>7, Zenon
  <2>2. PICK u \in Nat : u = used
    BY <1>4, Zenon
  <2>3. /\ q.pc = "usage" /\ q.key = prod[p].key /\ q.probe = prod[p].probe + 1 /\ q.used = u
        /\ q.moved = prod[p].moved /\ q.result = prod[p].result /\ q = [y \in ProdFields |-> q[y]]
    <3> HIDE DEF used
    <3> QED
      BY <1>1, <1>2, <2>2, Zenon DEF ProdFields
  <2> HIDE DEF q
  <2>4. ProdOK(q)
    BY <1>1, <1>2, <1>7, <2>3, SMTT(30) DEF ProdOK
  <2>5. Missed(q)
    BY <1>1, <1>6, <2>3, Zenon DEF Missed
  <2>6. ASSUME "capacity" \notin stolen, \A s \in Producer : ~prod[s].moved
        PROVE  Counting(q)
    <3>1. CASE prod[p].probe = 1
      <4>1. q.probe = 2 /\ q.used = prod[p].used + Cardinality(listing("pending"))
        BY <1>3, <2>2, <2>3, <3>1
      <4>2. Counts(q, Key \ listing("pending"))
        BY <1>2, <4>1, FirstCount, Zenon
      <4> QED
        BY <2>3, <4>1, <4>2 DEF Counting
    <3>2. CASE prod[p].probe = 2
      <4>1. q.probe = 3 /\ q.used = prod[p].used + Cardinality(listing("inflight"))
        BY <1>3, <2>2, <2>3, <3>2
      <4>2. Counts(prod[p], Key \ listing("pending"))
        BY <1>1, <1>5, <2>6, <3>2, Zenon DEF Counting
      <4>3. Counts(q, listing("dead"))
        BY <1>2, <4>1, <4>2, SecondCount, Zenon
      <4> QED
        BY <2>3, <4>1, <4>3 DEF Counting
    <3> QED
      BY <1>2, <1>7, <3>1, <3>2
  <2>7. ProducerOK(q)
    BY <2>3, <2>4, <2>5, <2>6, Zenon DEF ProducerOK, Reports, Told
  <2> QED
    BY <1>1, <2>1, <2>3, <2>7, PlainStep, Zenon DEF InItem
<1>8. CASE prod[p].probe = 3 /\ finish(p, "releaseCapacity", "refused")
  <2>1. PICK r : /\ prod' = [prod EXCEPT ![p] = r] /\ ProdOK(r) /\ r.pc = "releaseCapacity"
                 /\ r.moved = prod[p].moved /\ r.result = "refused"
    BY <1>1, <1>8, Finishes DEF Results
  <2>2. ProducerOK(r)
    BY <2>1, PlainRecord, Zenon DEF Reports, Told
  <2> QED
    BY <1>1, <1>6, <2>1, <2>2, PlainStep, Zenon DEF InItem
<1>9. CASE prod[p].probe = 3 /\ ~(used + 1 > Capacity) /\ goto(p, "itemLock")
  <2>1. PICK r : /\ prod' = [prod EXCEPT ![p] = r] /\ ProdOK(r) /\ r.pc = "itemLock"
                 /\ r.key = prod[p].key /\ r.moved = prod[p].moved
    BY <1>1, <1>9, Goes DEF ProdPC, InCapacity
  <2>2. Missed(r)
    BY <1>1, <1>6, <2>1, Zenon DEF Missed
  <2>3. ASSUME "capacity" \notin stolen, \A q \in Producer : ~prod[q].moved
        PROVE  Counting(r)
    <3>1. Counts(prod[p], listing("dead"))
      BY <1>1, <1>5, <1>9, <2>3, Zenon DEF Counting
    <3>2. ~(prod[p].used + Cardinality(listing("dead")) + 1 > Capacity)
      BY <1>3, <1>9, Zenon
    <3>3. Cardinality(Counted) + 1 <= Capacity
      BY <1>2, <3>1, <3>2, LastCount, Zenon
    <3> QED
      BY <2>1, <3>3, Zenon DEF Counting
  <2>4. ProducerOK(r)
    BY <2>1, <2>2, <2>3, Zenon DEF ProducerOK, Reports, Told
  <2> QED
    BY <1>1, <1>6, <2>1, <2>4, PlainStep, Zenon DEF InItem
<1> QED
  BY <1>1, <1>7, <1>8, <1>9, Zenon

-----------------------------------------------------------------------------
\* Steps on the lock files.

LEMMA LockFiles ==
  ASSUME NEW p \in Producer, NEW q \in Producer
  PROVE  /\ LockFile(p) # NoLock /\ (LockFile(p) = LockFile(q) => p = q)
         /\ LockFile(p).owner = p /\ LockFile(p).old = FALSE
<1>1. LockFile(p) \in [owner : Producer, old : BOOLEAN] /\ LockFile(p).owner = p /\ LockFile(p).old = FALSE
  BY Zenon DEF LockFile
<1>2. LockFile(q).owner = q
  BY Zenon DEF LockFile
<1> QED
  BY <1>1, <1>2, OutboxAssumption, Zenon

\* The name of the lock that p is after.
LEMMA LockNames ==
  ASSUME OutboxInv, NEW p \in Producer,
         prod[p].pc \in {"capacityLock", "capacitySteal", "itemLock", "itemSteal"}
  PROVE  /\ prod[p].key \in Key /\ prod[p].key # "capacity"
         /\ prod[p].pc \in {"capacityLock", "capacitySteal"} => lockName(p) = "capacity"
         /\ prod[p].pc \in {"itemLock", "itemSteal"} => lockName(p) = prod[p].key
BY OutboxAssumption, Zenon DEF OutboxInv, OutboxType, ProdOK, lockName

LEMMA AcquireStep ==
  ASSUME OutboxInv, NEW p \in Producer, Acquire(p)
  PROVE  OutboxInv'
<1>1. /\ prod[p].pc \in {"capacityLock", "itemLock"} /\ ~isHeld(lock, lockName(p))
      /\ lock' = created(lock, lockName(p), p)
      /\ goto(p, IF prod[p].pc = "capacityLock" THEN "bounded" ELSE "enqueue")
      /\ UNCHANGED <<disk, stolen, fwd, now, sent, sends, kills>>
  BY Zenon DEF Acquire
<1>2. PICK x \in {"bounded", "enqueue"} :
        /\ goto(p, x)
        /\ x = "bounded" => prod[p].pc = "capacityLock"
        /\ x = "enqueue" => prod[p].pc = "itemLock"
  BY <1>1, Zenon
<1>3. PICK n : /\ n = lockName(p) /\ n \in Key \cup {"capacity"}
               /\ x = "bounded" => n = "capacity"
               /\ x = "enqueue" => n = prod[p].key /\ n # "capacity"
  BY <1>1, <1>2, LockNames, Zenon
<1>4. PICK r : /\ prod' = [prod EXCEPT ![p] = r] /\ ProdOK(r) /\ r.pc = x /\ r.probe = 1
               /\ r.key = prod[p].key /\ r.moved = prod[p].moved
  <2>1. x \in ProdPC /\ x \notin {"releaseItem", "releaseCapacity"} /\ prod[p].pc # "start"
    BY <1>1, Zenon DEF ProdPC, InCapacity
  <2> QED
    BY <1>2, <2>1, Goes
<1>5. Missed(r)
  <2>1. CASE x = "bounded"
    BY <1>4, <2>1 DEF Missed
  <2>2. CASE x = "enqueue"
    <3>1. Missed(prod[p]) /\ prod[p].pc = "itemLock" /\ prod[p].pc \in InCapacity
      BY <1>2, <2>2, Zenon DEF OutboxInv, Searches, InCapacity
    <3> QED
      BY <1>4, <2>2, <3>1 DEF Missed
  <2> QED
    BY <2>1, <2>2, Zenon
<1>6. "capacity" \notin stolen /\ (\A q \in Producer : ~prod[q].moved) => Counting(r)
  BY <1>2, <1>4, Zenon DEF OutboxInv, CapacityInv, Counting
<1>7. ProducerOK(r)
  BY <1>4, <1>5, <1>6, Zenon DEF ProducerOK, Reports, Told
<1>8. Locked'
  <2>1. /\ lock = [m \in Key \cup {"capacity"} |-> lock[m]] /\ lock[n] = NoLock
    <3>1. lock[n] = NoLock
      BY <1>1, <1>3, Zenon DEF isHeld
    <3> QED
      BY <3>1, Zenon DEF OutboxInv, Locked
  <2>2. lock' = [lock EXCEPT ![n] = LockFile(p)]
    BY <1>1, <1>3, Zenon DEF created
  <2>3. /\ lock' = [m \in Key \cup {"capacity"} |-> lock'[m]] /\ lock'[n] = LockFile(p)
        /\ \A m \in Key \cup {"capacity"} : m # n => lock'[m] = lock[m]
    BY <1>3, <2>1, <2>2, Zenon
  <2>4. prod'[p] = r /\ \A q \in Producer : q # p => prod'[q] = prod[q]
    BY <1>4, Zenon DEF OutboxInv, OutboxType
  <2>5. ASSUME NEW q \in Producer, prod'[q].pc \in InCapacity, "capacity" \notin stolen
        PROVE  lock'["capacity"] = LockFile(q)
    <3>1. CASE q = p /\ x = "bounded"
      BY <1>3, <2>3, <3>1, Zenon
    <3>2. CASE q # p \/ x = "enqueue"
      <4>1. prod[q].pc \in InCapacity
        BY <1>2, <2>4, <2>5, <3>2, Zenon DEF InCapacity
      <4>2. lock["capacity"] = LockFile(q)
        BY <2>5, <4>1, Zenon DEF OutboxInv, Locked
      <4>3. n # "capacity"
        BY <2>1, <4>2, LockFiles, Zenon
      <4> QED
        BY <2>3, <4>2, <4>3, Zenon
    <3> QED
      BY <3>1, <3>2, Zenon
  <2>6. ASSUME NEW q \in Producer, prod'[q].pc \in InItem, prod'[q].key \notin stolen
        PROVE  lock'[prod'[q].key] = LockFile(q)
    <3>1. CASE q = p
      <4>1. x = "enqueue"
        BY <1>4, <2>4, <2>6, <3>1, Zenon DEF InItem
      <4> QED
        BY <1>3, <1>4, <2>3, <2>4, <3>1, <4>1
    <3>2. CASE q # p
      <4>1. /\ prod'[q] = prod[q] /\ lock[prod[q].key] = LockFile(q)
        BY <2>4, <2>6, <3>2, Zenon DEF OutboxInv, Locked
      <4>2. prod[q].key # n
        BY <2>1, <4>1, LockFiles, Zenon
      <4>3. prod[q].key \in Key
        BY <2>6, <4>1, Zenon DEF OutboxInv, OutboxType, ProdOK, InItem
      <4> QED
        BY <2>3, <4>1, <4>2, <4>3, Zenon
    <3> QED
      BY <3>1, <3>2, Zenon
  <2>7. stolen' = stolen
    BY <1>1, Zenon
  <2> QED
    BY <2>3, <2>5, <2>6, <2>7, Zenon DEF Locked
<1>9. kills' \in Nat /\ kills <= kills' /\ stolen \subseteq stolen'
  BY <1>1 DEF OutboxInv, OutboxType, DiskType
<1>10. UNCHANGED <<disk, fwd, now, sent, sends>>
  BY <1>1, Zenon
<1> QED
  BY <1>4, <1>7, <1>8, <1>9, <1>10, ProducerStep, Zenon


LEMMA StealStep ==
  ASSUME OutboxInv, NEW p \in Producer, Steal(p)
  PROVE  OutboxInv'
<1>1. /\ prod[p].pc \in {"capacitySteal", "itemSteal"} /\ lock' = removed(lock, lockName(p))
      /\ stolen' = IF isHeld(lock, lockName(p)) /\ ~isStale(lock, lockName(p))
                   THEN stolen \cup {lockName(p)} ELSE stolen
      /\ goto(p, IF prod[p].pc = "capacitySteal" THEN "capacityLock" ELSE "itemLock")
      /\ UNCHANGED <<disk, fwd, now, sent, sends, kills>>
  BY Zenon DEF Steal
<1>2. PICK x \in {"capacityLock", "itemLock"} :
        /\ goto(p, x)
        /\ x = "itemLock" => prod[p].pc = "itemSteal"
  BY <1>1, Zenon
<1>3. PICK n : n = lockName(p) /\ n \in Key \cup {"capacity"}
  BY <1>1, LockNames, Zenon
<1>4. PICK r : /\ prod' = [prod EXCEPT ![p] = r] /\ ProdOK(r) /\ r.pc = x /\ r.probe = 1
               /\ r.key = prod[p].key /\ r.moved = prod[p].moved
  <2>1. x \in ProdPC /\ x \notin {"releaseItem", "releaseCapacity"} /\ prod[p].pc # "start"
    BY <1>1, Zenon DEF ProdPC, InCapacity
  <2> QED
    BY <1>2, <2>1, Goes
<1>5. Missed(r)
  <2>1. CASE x = "capacityLock"
    BY <1>4, <2>1, Zenon DEF Missed, InCapacity
  <2>2. CASE x = "itemLock"
    <3>1. Missed(prod[p]) /\ prod[p].pc = "itemSteal" /\ prod[p].pc \in InCapacity
      BY <1>2, <2>2, Zenon DEF OutboxInv, Searches, InCapacity
    <3> QED
      BY <1>4, <2>2, <3>1, Zenon DEF Missed
  <2> QED
    BY <2>1, <2>2, Zenon
<1>6. "capacity" \notin stolen /\ (\A q \in Producer : ~prod[q].moved) => Counting(r)
  BY <1>2, <1>4, Zenon DEF OutboxInv, CapacityInv, Counting
<1>7. ProducerOK(r)
  BY <1>4, <1>5, <1>6, Zenon DEF ProducerOK, Reports, Told
<1>8. stolen \subseteq stolen'
  BY <1>1, Zenon
<1>9. \A q \in Producer : lock[n] = LockFile(q) => n \in stolen'
  <2>1. ASSUME NEW q \in Producer, lock[n] = LockFile(q) PROVE n \in stolen'
    <3>1. isHeld(lock, n) /\ ~isStale(lock, n)
      BY <2>1, LockFiles, Zenon DEF isHeld, isStale
    <3> QED
      BY <1>1, <1>3, <3>1, Zenon
  <2> QED
    BY <2>1, Zenon
<1>10. Locked'
  <2>1. lock = [m \in Key \cup {"capacity"} |-> lock[m]]
    BY Zenon DEF OutboxInv, Locked
  <2>2. lock' = [lock EXCEPT ![n] = NoLock]
    BY <1>1, <1>3, Zenon DEF removed
  <2>3. /\ lock' = [m \in Key \cup {"capacity"} |-> lock'[m]]
        /\ \A m \in Key \cup {"capacity"} : m # n => lock'[m] = lock[m]
    BY <1>3, <2>1, <2>2, Zenon
  <2>4. prod'[p] = r /\ \A q \in Producer : q # p => prod'[q] = prod[q]
    BY <1>4, Zenon DEF OutboxInv, OutboxType
  <2>5. ASSUME NEW q \in Producer, prod'[q].pc \in InCapacity, "capacity" \notin stolen'
        PROVE  lock'["capacity"] = LockFile(q)
    <3>1. prod[q].pc \in InCapacity
      BY <1>2, <1>4, <2>4, <2>5, Zenon DEF InCapacity
    <3>2. lock["capacity"] = LockFile(q)
      BY <1>8, <2>5, <3>1, Zenon DEF OutboxInv, Locked
    <3>3. n # "capacity"
      BY <1>9, <2>5, <3>2, Zenon
    <3> QED
      BY <2>3, <3>2, <3>3, Zenon
  <2>6. ASSUME NEW q \in Producer, prod'[q].pc \in InItem, prod'[q].key \notin stolen'
        PROVE  lock'[prod'[q].key] = LockFile(q)
    <3>1. prod'[q] = prod[q]
      BY <1>4, <2>4, <2>6, Zenon DEF InItem
    <3>2. lock[prod[q].key] = LockFile(q)
      BY <1>8, <2>6, <3>1, Zenon DEF OutboxInv, Locked
    <3>3. prod[q].key # n
      BY <1>9, <2>6, <3>1, <3>2, Zenon
    <3>4. prod[q].key \in Key
      BY <2>6, <3>1, Zenon DEF OutboxInv, OutboxType, ProdOK, InItem
    <3> QED
      BY <2>3, <3>1, <3>2, <3>3, <3>4, Zenon
  <2> QED
    BY <2>3, <2>5, <2>6, Zenon DEF Locked
<1>11. kills' \in Nat /\ kills <= kills'
  BY <1>1 DEF OutboxInv, OutboxType, DiskType
<1>12. UNCHANGED <<disk, fwd, now, sent, sends>>
  BY <1>1, Zenon
<1> QED
  BY <1>4, <1>7, <1>8, <1>10, <1>11, <1>12, ProducerStep, Zenon

LEMMA ReleaseStep ==
  ASSUME OutboxInv, NEW p \in Producer, Release(p)
  PROVE  OutboxInv'
<1>1. /\ prod[p].pc \in {"releaseItem", "releaseCapacity"}
      /\ UNCHANGED <<disk, stolen, fwd, now, sent, sends, kills>>
  BY Zenon DEF Release
<1>2. ProdOK(prod[p]) /\ prod[p].key \in Key /\ prod[p].result \in Results
  BY <1>1, Zenon DEF OutboxInv, OutboxType, ProdOK, Results
<1>3. PICK n \in Key \cup {"capacity"}, x \in Results \cup {"releaseCapacity"} :
        /\ lock' = released(lock, n, p) /\ goto(p, x)
        /\ x \in Results => n = "capacity" /\ prod[p].pc = "releaseCapacity" /\ x = prod[p].result
        /\ x = "releaseCapacity" => n = prod[p].key
  BY <1>1, <1>2, Zenon DEF Release, Results
<1>4. PICK r : /\ prod' = [prod EXCEPT ![p] = r] /\ ProdOK(r) /\ r.pc = x
               /\ r.key = prod[p].key /\ r.moved = prod[p].moved /\ r.result = prod[p].result
  <2>1. x \in ProdPC /\ prod[p].pc # "start"
    BY <1>1, Zenon DEF ProdPC, InCapacity, Results, AtRest, Ended
  <2> QED
    BY <1>2, <1>3, <2>1, Goes
<1>5. ProducerOK(r)
  <2>1. Reports(r) => Reports(prod[p])
    BY <1>1, <1>3, <1>4, Zenon DEF Reports, Told, Results
  <2>2. Reports(r) => Stored(r.key)
    BY <1>4, <2>1, Zenon DEF OutboxInv, Reported
  <2> QED
    BY <1>4, <2>2, PlainRecord, Zenon DEF Results
<1>6. r.pc \notin InItem /\ (r.pc \in InCapacity => n = prod[p].key /\ n # "capacity")
  BY <1>2, <1>3, <1>4, OutboxAssumption, Zenon DEF InItem, InCapacity, Results
<1>7. prod'[p] = r /\ \A q \in Producer : q # p => prod'[q] = prod[q]
  BY <1>4, Zenon DEF OutboxInv, OutboxType
<1>8. lock = [m \in Key \cup {"capacity"} |-> lock[m]]
  BY Zenon DEF OutboxInv, Locked
<1>9. /\ lock' = [m \in Key \cup {"capacity"} |-> lock'[m]]
      /\ \A m \in Key \cup {"capacity"} : m # n => lock'[m] = lock[m]
      /\ \A q \in Producer : q # p /\ lock[n] = LockFile(q) => lock'[n] = lock[n]
  <2>1. CASE isHeld(lock, n) /\ lock[n].owner = p
    <3>1. lock' = [lock EXCEPT ![n] = NoLock]
      BY <1>3, <2>1, Zenon DEF released, removed
    <3>2. \A q \in Producer : lock[n] = LockFile(q) => q = p
      BY <2>1, LockFiles, Zenon
    <3> QED
      BY <1>8, <3>1, <3>2, Zenon
  <2>2. CASE ~(isHeld(lock, n) /\ lock[n].owner = p)
    BY <1>3, <1>8, <2>2, Zenon DEF released
  <2> QED
    BY <2>1, <2>2, Zenon
<1>10. Locked'
  <2>1. ASSUME NEW q \in Producer, prod'[q].pc \in InCapacity, "capacity" \notin stolen
        PROVE  lock'["capacity"] = LockFile(q)
    <3>1. prod[q].pc \in InCapacity
      BY <1>1, <1>7, <2>1, Zenon DEF InCapacity
    <3>2. lock["capacity"] = LockFile(q)
      BY <2>1, <3>1, Zenon DEF OutboxInv, Locked
    <3> QED
      BY <1>6, <1>7, <1>9, <2>1, <3>2, Zenon
  <2>2. ASSUME NEW q \in Producer, prod'[q].pc \in InItem, prod'[q].key \notin stolen
        PROVE  lock'[prod'[q].key] = LockFile(q)
    <3>1. q # p /\ prod'[q] = prod[q]
      BY <1>6, <1>7, <2>2, Zenon
    <3>2. lock[prod[q].key] = LockFile(q)
      BY <2>2, <3>1, Zenon DEF OutboxInv, Locked
    <3>3. prod[q].key \in Key
      BY <2>2, <3>1, Zenon DEF OutboxInv, OutboxType, ProdOK, InItem
    <3> QED
      BY <1>9, <3>1, <3>2, <3>3, Zenon
  <2>3. stolen' = stolen
    BY <1>1, Zenon
  <2> QED
    BY <1>9, <2>1, <2>2, <2>3, Zenon DEF Locked
<1>11. kills' \in Nat /\ kills <= kills' /\ stolen \subseteq stolen'
  BY <1>1 DEF OutboxInv, OutboxType, DiskType
<1>12. UNCHANGED <<disk, fwd, now, sent, sends>>
  BY <1>1, Zenon
<1> QED
  BY <1>4, <1>5, <1>10, <1>11, <1>12, ProducerStep, Zenon


\* The item that p writes is new: its searches have missed nothing.
LEMMA NewItem ==
  ASSUME OutboxInv, NEW p \in Producer, prod[p].pc = "write", ~exists("pending", prod[p].key),
         ~Unlocked(prod[p].key)
  PROVE  ~Stored(prod[p].key)
<1>1. Missed(prod[p])
  BY Zenon DEF OutboxInv, Searches
<1> QED
  BY <1>1, Zenon DEF Missed, InCapacity

\* Nobody else is in the section of the lock that p holds.
LEMMA Excluded ==
  ASSUME OutboxInv, NEW p \in Producer, prod[p].pc \in InItem, NEW q \in Producer, q # p
  PROVE  /\ "capacity" \notin stolen => prod[q].pc \notin InCapacity
         /\ prod[p].key \notin stolen /\ prod[q].key = prod[p].key => prod[q].pc \notin InItem
<1>1. LockFile(p) # LockFile(q)
  BY Zenon DEF LockFile
<1>2. prod[p].pc \in InCapacity
  BY Zenon DEF InItem, InCapacity
<1> QED
  BY <1>1, <1>2, Zenon DEF OutboxInv, Locked

LEMMA WriteNew ==
  ASSUME OutboxInv, NEW p \in Producer, prod[p].pc = "write",
         NEW k \in Key, k = prod[p].key, ~exists("pending", k),
         NEW v \in Item, v.body = p, v.attempts = 0,
         disk' = [disk EXCEPT !["pending"][k] = v],
         NEW r, prod' = [prod EXCEPT ![p] = r], ProdOK(r), r.pc = "releaseItem", r.key = k,
         r.moved = prod[p].moved,
         UNCHANGED <<lock, stolen, fwd, now, sent, sends, kills>>
  PROVE  OutboxInv'
<1>1. /\ prod' = [q \in Producer |-> prod'[q]] /\ prod'[p] = r
      /\ \A q \in Producer : q # p => prod'[q] = prod[q]
  <2>1. prod' = [q \in Producer |-> IF q = p THEN r ELSE prod[q]]
    BY Zenon DEF OutboxInv, OutboxType
  <2> QED
    BY <2>1, Zenon
<1>2. /\ disk' \in [Dir -> [Key -> Item \cup {None}]] /\ disk'["pending"][k] = v
      /\ \A d \in Dir, x \in Key : d # "pending" \/ x # k => disk'[d][x] = disk[d][x]
  <2>1. DiskType
    BY Zenon DEF OutboxInv, OutboxType
  <2>2. "pending" \in Dir /\ v \in Item \cup {None}
    BY Zenon DEF Dir
  <2> QED
    BY ONLY <2>1, <2>2, k \in Key, disk' = [disk EXCEPT !["pending"][k] = v], Put, ZenonT(60)
<1>3. v # None
  BY OutboxAssumption, Zenon
<1>4. /\ exists("pending", k)' /\ \A d \in Dir, x \in Key : exists(d, x) => exists(d, x)'
      /\ \A d \in Dir, x \in Key : (d # "pending" \/ x # k) => (exists(d, x)' <=> exists(d, x))
  BY <1>2, <1>3 DEF exists
<1>6. OutboxType'
  <2>1. DiskType'
    BY <1>2, Zenon DEF OutboxInv, OutboxType, DiskType
  <2>2. \A q \in Producer : ProdOK(prod[q])'
    BY <1>1 DEF OutboxInv, OutboxType, ProdOK
  <2>3. ASSUME NEW g \in Forwarder PROVE ForwarderOK(fwd[g])'
    <3>1. ForwarderOK(fwd[g])
      BY Zenon DEF OutboxInv, OutboxType
    <3>2. PICK m : m = fwd[g] /\ m = fwd'[g] /\ ForwarderOK(m)
      BY <3>1, Zenon
    <3>3. \A d \in {"pending", "inflight"} : Lists(m, d) => Lists(m, d)'
      BY <1>2, <1>4 DEF Lists, exists, Dir
    <3>4. \A d \in {"pending", "inflight", "history", "dead"} : m.key \in Key =>
            (exists(d, m.key) => exists(d, m.key)')
      BY <1>4, Zenon DEF Dir
    <3>5. \A x \in Key : exists("pending", x) => disk'["pending"][x] = disk["pending"][x]
      BY <1>2, Zenon DEF Dir
    <3>6. m.pc \in {"claiming", "claimDrop"} =>
            Lists(m, "pending")' /\ \A x \in DOMAIN m.todo : disk'["pending"][x].next <= m.at
      BY <3>2, <3>3, <3>5, ZenonT(60) DEF ForwarderOK, Lists, exists
    <3>7. m.pc \in {"claimDrop", "claimRemove"} =>
            exists("pending", m.key)' /\ disk'["pending"][m.key].next <= m.at
      BY <3>2, <3>4, <3>5, Zenon DEF ForwarderOK
    <3>8. ForwarderOK(m)'
      BY <3>2, <3>3, <3>4, <3>6, <3>7, Zenon DEF ForwarderOK
    <3> QED
      BY <3>2, <3>8, Zenon
  <2>4. fwd' = [g \in Forwarder |-> fwd'[g]]
    BY Zenon DEF OutboxInv, OutboxType
  <2> QED
    BY <1>1, <2>1, <2>2, <2>3, <2>4, Zenon DEF OutboxType
<1>7. \A x \in Key : Stored(x) => Stored(x)'
  BY <1>4, Zenon DEF Stored
<1>8. Reported'
  <2>1. ASSUME NEW q \in Producer
        PROVE  /\ Reports(prod[q])' => Stored(prod[q].key)'
               /\ prod'[q].pc = "acknowledged" => exists("history", prod[q].key)'
               /\ prod'[q].pc = "deadLetter" => exists("dead", prod[q].key)'
    <3>1. CASE q = p
      <4>1. Stored(k)'
        BY <1>4, Zenon DEF Stored, Dir
      <4> QED
        BY <1>1, <3>1, <4>1, Zenon
    <3>2. CASE q # p
      <4>1. (Reports(prod[q])' <=> Reports(prod[q])) /\ prod'[q] = prod[q]
        BY <1>1, <3>2, Zenon DEF Reports
      <4>2. Reports(prod[q]) \/ prod[q].pc \in {"acknowledged", "deadLetter"} => prod[q].key \in Key
        BY Zenon DEF OutboxInv, OutboxType, ProdOK, Reports, Told
      <4>3. /\ Reports(prod[q]) => Stored(prod[q].key)
            /\ prod[q].pc = "acknowledged" => exists("history", prod[q].key)
            /\ prod[q].pc = "deadLetter" => exists("dead", prod[q].key)
        BY Zenon DEF OutboxInv, Reported
      <4>4. Reports(prod[q])' => Stored(prod[q].key)'
        BY <1>7, <4>1, <4>2, <4>3, Zenon
      <4>5. prod'[q].pc = "acknowledged" => exists("history", prod[q].key)'
        BY <1>4, <4>1, <4>2, <4>3, Zenon DEF Dir
      <4>6. prod'[q].pc = "deadLetter" => exists("dead", prod[q].key)'
        BY <1>4, <4>1, <4>2, <4>3, Zenon DEF Dir
      <4> QED
        BY <4>4, <4>5, <4>6, Zenon
    <3> QED
      BY <3>1, <3>2, Zenon
  <2> QED
    BY <2>1, Zenon DEF Reported
<1>9. Locked'
  <2>1. r.pc \in InCapacity => prod[p].pc \in InCapacity
    BY Zenon DEF InCapacity
  <2>2. r.pc \in InItem => prod[p].pc \in InItem /\ r.key = prod[p].key
    BY Zenon DEF InItem
  <2>3. UNCHANGED <<lock, stolen>>
    OBVIOUS
  <2> QED
    BY <2>1, <2>2, <2>3, LocksStay, Zenon
<1>10. ASSUME ~Unlocked(k) PROVE ItemInv(k)'
  <2>1. /\ \A d \in Dir : ~exists(d, k)
        /\ \A d \in Dir : exists(d, k)' <=> d = "pending"
    BY <1>4, <1>10, NewItem, Zenon DEF Stored, Dir
  <2>2. ItemInv(k) /\ sent[k] = {} /\ sends[k] = 0
    BY <1>10, NewItem, Zenon DEF OutboxInv, ItemInv, OneBody
  <2>3. OneBody(k)'
    BY <2>1, <2>2, Zenon DEF OneBody, Stored, Dir
  <2>4. ~Settled(k)' /\ ~exists("inflight", k)'
    BY <2>1, Zenon DEF Settled, Dir
  <2>5. Places(k)'
    BY <2>1, <2>4, Zenon DEF Places, Dir
  <2>6. Budget(k)'
    <3>1. Len(Backoff) \in Nat \ {0} /\ kills \in Nat
      BY OutboxAssumption DEF OutboxInv, OutboxType, DiskType
    <3> QED
      BY <1>2, <2>2, <2>4, <3>1 DEF Budget
  <2>7. ASSUME NEW g \in Forwarder PROVE Handles(fwd[g], k)'
    <3>1. ForwarderOK(fwd[g]) /\ ~exists("inflight", k)
      BY <2>1, Zenon DEF OutboxInv, OutboxType, Dir
    <3>2. fwd[g].key = k => fwd[g].pc \notin Exchange \cup {"transition", "claimRemove"}
      BY <3>1, Zenon DEF ForwarderOK
    <3> QED
      BY <3>2, Zenon DEF Handles, Holds
  <2> QED
    BY <2>3, <2>5, <2>6, <2>7, Zenon DEF ItemInv
<1>11. \A x \in Key, d \in Dir : x # k => disk'[d][x] = disk[d][x] /\ (exists(d, x)' <=> exists(d, x))
  BY <1>2, <1>4, Zenon
<1>12. ASSUME NEW x \in Key, x # k
       PROVE  /\ Stored(x)' <=> Stored(x)
              /\ Parked(x)' <=> Parked(x)
              /\ Fresh(x)' <=> Fresh(x)
              /\ Ready(x)' <=> Ready(x)
              /\ ItemInv(x) => ItemInv(x)'
  <2>1. \A d \in Dir : disk'[d][x] = disk[d][x] /\ (exists(d, x)' <=> exists(d, x))
    BY <1>11, <1>12, Zenon
  <2>2. /\ disk'["pending"][x] = disk["pending"][x] /\ disk'["inflight"][x] = disk["inflight"][x]
        /\ exists("pending", x)' <=> exists("pending", x)
        /\ exists("inflight", x)' <=> exists("inflight", x)
        /\ exists("history", x)' <=> exists("history", x)
        /\ exists("dead", x)' <=> exists("dead", x)
    BY <2>1, Zenon DEF Dir
  <2>3. (Stored(x)' <=> Stored(x)) /\ (Settled(x)' <=> Settled(x))
    BY <2>1, <2>2, Zenon DEF Stored, Settled
  <2>4. Parked(x)' <=> Parked(x)
    BY <2>2, <2>3, Zenon DEF Parked
  <2>5. Fresh(x)' <=> Fresh(x)
    BY <2>2, <2>4, Zenon DEF Fresh, Holds
  <2>6. Ready(x)' <=> Ready(x)
    BY <2>2, <2>5, Zenon DEF Ready, Claims
  <2>7. OneBody(x) => OneBody(x)'
    BY <2>1, <2>3, ZenonT(60) DEF OneBody
  <2>8. Places(x) => Places(x)'
    BY <2>2, <2>3, Zenon DEF Places
  <2>9. Budget(x) => Budget(x)'
    BY <2>2, <2>3, Zenon DEF Budget, Attempts
  <2>10. \A g \in Forwarder : Handles(fwd[g], x) => Handles(fwd[g], x)'
    BY <2>2, <2>3, ZenonT(60) DEF Handles, Holds
  <2> QED
    BY <2>3, <2>4, <2>5, <2>6, <2>7, <2>8, <2>9, <2>10, Zenon DEF ItemInv
<1>13. \A x \in Key : ~Unlocked(x)' => ItemInv(x)'
  BY <1>10, <1>12, Zenon DEF OutboxInv, Unlocked
<1>14. Searches'
  <2>1. ASSUME NEW q \in Producer PROVE Missed(prod[q])'
    <3>1. CASE q = p
      BY <1>1, <3>1, Zenon DEF Missed
    <3>2. CASE q # p /\ prod[q].key # k
      <4>1. PICK m : m = prod[q] /\ m = prod'[q]
        BY <1>1, <3>2, Zenon
      <4>2. Missed(m) /\ (m.pc \in InCapacity => m.key \in Key /\ m.key # k)
        BY <3>2, <4>1, Zenon DEF OutboxInv, Searches, OutboxType, ProdOK, InCapacity
      <4>3. ASSUME m.key \in Key, m.key # k PROVE Missed(m)'
        <5>1. /\ Stored(m.key)' <=> Stored(m.key)
              /\ Parked(m.key)' <=> Parked(m.key)
              /\ Fresh(m.key)' <=> Fresh(m.key)
              /\ Ready(m.key)' <=> Ready(m.key)
          BY <1>12, <4>3, Zenon
        <5>2. /\ disk'["pending"][m.key] = disk["pending"][m.key]
              /\ exists("pending", m.key)' <=> exists("pending", m.key)
              /\ exists("inflight", m.key)' <=> exists("inflight", m.key)
              /\ exists("dead", m.key)' <=> exists("dead", m.key)
          BY <1>11, <4>3, Zenon DEF Dir
        <5>3. Unlocked(m.key)' <=> Unlocked(m.key)
          BY Zenon DEF Unlocked
        <5> QED
          BY <4>2, <5>1, <5>2, <5>3, Zenon DEF Missed
      <4> QED
        BY <4>1, <4>2, <4>3, Zenon DEF Missed
    <3>3. CASE q # p /\ prod[q].key = k
      <4>1. PICK m : m = prod[q] /\ m = prod'[q]
        BY <1>1, <3>3, Zenon
      <4>2. ASSUME ~Unlocked(k), m.pc \in InCapacity PROVE m.pc \notin InItem /\ Ready(k)'
        <5>1. prod[p].pc \in InItem
          BY Zenon DEF InItem
        <5>2. m.pc \notin InItem
          BY <3>3, <4>1, <4>2, <5>1, Excluded, Zenon DEF Unlocked
        <5>3. ~exists("inflight", k) /\ ~exists("inflight", k)'
          BY <1>4, <4>2, NewItem, Zenon DEF Stored, Dir
        <5>4. ASSUME NEW g \in Forwarder, Claims(fwd[g], k) PROVE FALSE
          <6>1. ForwarderOK(fwd[g])
            BY Zenon DEF OutboxInv, OutboxType
          <6> QED
            BY <5>4, <6>1, Zenon DEF Claims, ForwarderOK, Lists, exists
        <5>5. \A g \in Forwarder : Claims(fwd[g], k)' => Claims(fwd[g], k)
          BY Zenon DEF Claims
        <5>6. Ready(k)'
          BY <1>4, <5>3, <5>4, <5>5, Zenon DEF Ready
        <5> QED
          BY <5>2, <5>6, Zenon
      <4>3. Unlocked(k)' <=> Unlocked(k)
        BY Zenon DEF Unlocked
      <4>4. Missed(m)'
        BY <3>3, <4>1, <4>2, <4>3, Zenon DEF Missed, InItem
      <4> QED
        BY <4>1, <4>4, Zenon
    <3> QED
      BY <3>1, <3>2, <3>3, Zenon
  <2> QED
    BY <2>1, Zenon DEF Searches
<1>15. CapacityInv'
  <2>1. Counted' = Counted \cup {k}
    BY <1>4, Zenon DEF Counted, listing, Dir
  <2>2. /\ CardinalityFacts
        /\ IsFiniteSet(Counted) /\ IsFiniteSet(Counted') /\ Cardinality(Counted) \in Nat
        /\ Cardinality(Counted') \in Nat /\ Cardinality(Counted') <= Cardinality(Counted) + 1
    <3>1. CardinalityFacts /\ IsFiniteSet(Counted)
      BY Zenon DEF OutboxInv, CapacityInv
    <3>2. /\ IsFiniteSet(Counted \cup {k}) /\ Cardinality(Counted) \in Nat
          /\ Cardinality(Counted \cup {k}) \in Nat
          /\ Cardinality(Counted \cup {k}) <= Cardinality(Counted) + 1
      BY <3>1, Zenon DEF CardinalityFacts
    <3> QED
      BY <2>1, <3>1, <3>2, Zenon
  <2>3. ASSUME "capacity" \notin stolen, \A q \in Producer : ~prod'[q].moved
        PROVE  Cardinality(Counted') <= Capacity /\ \A q \in Producer : Counting(prod[q])'
    <3>1. \A q \in Producer : ~prod[q].moved
      BY <1>1, <2>3, Zenon
    <3>2. Cardinality(Counted) + 1 <= Capacity
      BY <2>3, <3>1, Zenon DEF OutboxInv, CapacityInv, Counting
    <3>3. Cardinality(Counted') <= Capacity
      BY <2>2, <3>2, OutboxAssumption
    <3>4. prod[p].pc \in InItem
      BY Zenon DEF InItem
    <3>5. \A q \in Producer : q # p => prod'[q].pc \notin InCapacity
      BY <1>1, <2>3, <3>4, Excluded, Zenon
    <3>6. \A q \in Producer : Counting(prod[q])'
      BY <1>1, <3>5, Zenon DEF Counting, InCapacity
    <3> QED
      BY <3>3, <3>6, Zenon
  <2>4. stolen' = stolen
    OBVIOUS
  <2> QED
    BY <2>2, <2>3, <2>4, Zenon DEF CapacityInv
<1> QED
  BY <1>6, <1>8, <1>9, <1>13, <1>14, <1>15, Zenon DEF OutboxInv

LEMMA WriteStep ==
  ASSUME OutboxInv, NEW p \in Producer, WriteItem(p)
  PROVE  OutboxInv'
<1>1. prod[p].pc = "write" /\ UNCHANGED <<lock, stolen, fwd, now, sent, sends, kills>>
  BY Zenon DEF WriteItem
<1>2. PICK k \in Key : k = prod[p].key
  BY <1>1, Zenon DEF OutboxInv, OutboxType, ProdOK
<1>3. CASE exists("pending", k)
  <2>1. UNCHANGED disk /\ finish(p, "releaseItem", "duplicate")
    BY <1>2, <1>3, Zenon DEF WriteItem
  <2>2. PICK r : /\ prod' = [prod EXCEPT ![p] = r] /\ ProdOK(r) /\ r.pc = "releaseItem"
                 /\ r.key = prod[p].key /\ r.moved = prod[p].moved
    BY <1>1, <2>1, Finishes DEF Results
  <2>3. ProducerOK(r)
    <3>1. Stored(r.key)
      BY <1>2, <1>3, <2>2, Zenon DEF Stored, Dir
    <3> QED
      BY <2>2, <3>1, PlainRecord, Zenon
  <2>4. prod[p].pc \in InCapacity /\ prod[p].pc \in InItem
    BY <1>1, Zenon DEF InCapacity, InItem
  <2>5. UNCHANGED <<disk, lock, stolen, fwd, now, sent, sends, kills>>
    BY <1>1, <2>1, Zenon
  <2> QED
    BY <2>2, <2>3, <2>4, <2>5, PlainStep, Zenon
<1>4. CASE ~exists("pending", k)
  <2>1. /\ disk' = [disk EXCEPT !["pending"][k] =
                      [body |-> p, attempts |-> 0, next |-> ZeroTime, lease |-> ZeroTime]]
        /\ finish(p, "releaseItem", "queued")
    BY <1>2, <1>4, Zenon DEF WriteItem, put
  <2>2. PICK r : /\ prod' = [prod EXCEPT ![p] = r] /\ ProdOK(r) /\ r.pc = "releaseItem"
                 /\ r.key = prod[p].key /\ r.moved = prod[p].moved
    BY <1>1, <2>1, Finishes DEF Results
  <2>3. PICK v \in Item : /\ v.body = p /\ v.attempts = 0
                          /\ disk' = [disk EXCEPT !["pending"][k] = v]
    BY <2>1, Zenon DEF Item, ZeroTime
  <2> QED
    BY <1>1, <1>2, <1>4, <2>2, <2>3, WriteNew, Zenon
<1> QED
  BY <1>3, <1>4, Zenon


-----------------------------------------------------------------------------
\* Time.

\* Everything but the lock files is as it was.
LEMMA SameState ==
  ASSUME OutboxInv, UNCHANGED <<disk, stolen, prod, fwd, now, sent, sends, kills>>, Locked'
  PROVE  OutboxInv'
<1>1. OutboxType'
  BY DEF OutboxInv, OutboxType, DiskType, ProdOK, ForwarderOK, Lists, exists
<1>2. Reported'
  BY Zenon DEF OutboxInv, Reported, Reports, Stored, exists
<1>3. \A x : (ItemInv(x)' <=> ItemInv(x)) /\ (Unlocked(x)' <=> Unlocked(x))
  BY DEF ItemInv, OneBody, Places, Budget, Handles, Holds, Attempts, Settled, Stored, exists,
         Unlocked
<1>4. Searches'
  <2>1. \A d, x : exists(d, x)' <=> exists(d, x)
    BY Zenon DEF exists
  <2>2. \A x : (Stored(x)' <=> Stored(x)) /\ (Parked(x)' <=> Parked(x))
    BY <2>1, Zenon DEF Stored, Parked, Settled
  <2>3. \A x : Fresh(x)' <=> Fresh(x)
    BY <2>1, <2>2, Zenon DEF Fresh
  <2>4. \A x : Ready(x)' <=> Ready(x)
    BY <2>1, <2>3, Zenon DEF Ready
  <2>5. ASSUME NEW r PROVE Missed(r) => Missed(r)'
    BY <1>3, <2>1, <2>2, <2>3, <2>4, Zenon DEF Missed
  <2> QED
    BY <2>5, Zenon DEF OutboxInv, Searches
<1>5. CapacityInv'
  BY DEF OutboxInv, CapacityInv, Counting, Counts, Counted, listing, exists
<1> QED
  BY <1>1, <1>2, <1>3, <1>4, <1>5, Zenon DEF OutboxInv

LEMMA LockAgesStep ==
  ASSUME OutboxInv, NEW n \in Key \cup {"capacity"}, LockAges(n)
  PROVE  OutboxInv'
<1>1. /\ isHeld(lock, n) /\ prod[lock[n].owner].pc = "killed" /\ lock' = aged(lock, n)
      /\ UNCHANGED <<disk, stolen, prod, fwd, now, sent, sends, kills>>
  BY Zenon DEF LockAges
<1>2. ASSUME NEW p \in Producer, lock[n] = LockFile(p) PROVE prod[p].pc \notin InCapacity \cup InItem
  BY <1>1, <1>2, LockFiles, Zenon DEF InCapacity, InItem
<1>3. lock = [m \in Key \cup {"capacity"} |-> lock[m]]
  BY Zenon DEF OutboxInv, Locked
<1>4. PICK v : lock' = [lock EXCEPT ![n] = v]
  BY <1>1, Zenon DEF aged
<1>5. /\ lock' = [m \in Key \cup {"capacity"} |-> lock'[m]]
      /\ \A m \in Key \cup {"capacity"} : m # n => lock'[m] = lock[m]
  BY <1>3, <1>4, Zenon
<1>6. Locked'
  <2>1. UNCHANGED <<prod, stolen>>
    BY <1>1, Zenon
  <2>2. \A p \in Producer : prod[p].pc \in InItem => prod[p].key \in Key
    BY Zenon DEF OutboxInv, OutboxType, ProdOK, InItem
  <2>3. \A p \in Producer :
          /\ prod[p].pc \in InCapacity /\ "capacity" \notin stolen => lock["capacity"] = LockFile(p)
          /\ prod[p].pc \in InItem /\ prod[p].key \notin stolen => lock[prod[p].key] = LockFile(p)
    BY SMTT(30) DEF OutboxInv, Locked
  <2>4. ASSUME NEW p \in Producer, prod[p].pc \in InCapacity, "capacity" \notin stolen
        PROVE  lock'["capacity"] = LockFile(p)
    BY <1>2, <1>5, <2>3, <2>4, Zenon
  <2>5. ASSUME NEW p \in Producer, prod[p].pc \in InItem, prod[p].key \notin stolen
        PROVE  lock'[prod[p].key] = LockFile(p)
    BY <1>2, <1>5, <2>2, <2>3, <2>5, Zenon
  <2> QED
    BY <1>5, <2>1, <2>4, <2>5, Zenon DEF Locked
<1>7. UNCHANGED <<disk, stolen, prod, fwd, now, sent, sends, kills>>
  BY <1>1, Zenon
<1> QED
  BY <1>6, <1>7, SameState, Zenon

LEMMA TickStep ==
  ASSUME OutboxInv, Tick
  PROVE  OutboxInv'
<1>1. /\ \A p \in Producer : prod[p].pc \in AtRest
      /\ now \in Nat /\ now' = now + 1
      /\ UNCHANGED <<disk, lock, stolen, prod, fwd, sent, sends, kills>>
  BY Zenon DEF Tick, OutboxInv, OutboxType, DiskType
<1>2. UNCHANGED <<disk, lock, stolen, prod, fwd, sent, sends, kills>>
  BY <1>1, Zenon
<1>3. ASSUME NEW r, ForwarderOK(r) PROVE ForwarderOK(r)'
  <2>1. r.at \in Nat /\ r.at <= now'
    BY <1>1, <1>3 DEF ForwarderOK
  <2> QED
    BY <1>2, <1>3, <2>1, Zenon DEF ForwarderOK, Lists, exists
<1>4. OutboxType'
  <2>1. DiskType'
    BY <1>1 DEF OutboxInv, OutboxType, DiskType
  <2>2. \A f \in Forwarder : ForwarderOK(fwd[f])'
    BY <1>2, <1>3, Zenon DEF OutboxInv, OutboxType
  <2> QED
    BY <1>2, <2>1, <2>2, Zenon DEF OutboxInv, OutboxType, ProdOK
<1>5. Reported' /\ Locked'
  BY <1>2, Zenon DEF OutboxInv, Reported, Reports, Stored, exists, Locked
<1>6. \A x : (ItemInv(x)' <=> ItemInv(x)) /\ (Unlocked(x)' <=> Unlocked(x))
  BY <1>2 DEF ItemInv, OneBody, Places, Budget, Handles, Holds, Attempts, Settled, Stored, exists,
              Unlocked
<1>7. Searches'
  BY <1>1, Zenon DEF Searches, Missed, InCapacity, AtRest, Ended
<1>8. CapacityInv'
  BY <1>2, Zenon DEF OutboxInv, CapacityInv, Counting, Counts, Counted, listing, exists
<1> QED
  BY <1>4, <1>5, <1>6, <1>7, <1>8, Zenon DEF OutboxInv

-----------------------------------------------------------------------------
LEMMA OutboxSteps ==
  ASSUME OneForwarder, OutboxInv, [OutboxNext]_outboxVars
  PROVE  OutboxInv'
<1>1. CASE Tick
  BY <1>1, TickStep, Zenon
<1>2. ASSUME NEW n \in Key \cup {"capacity"}, LockAges(n) PROVE OutboxInv'
  BY <1>2, LockAgesStep, Zenon
<1>3. ASSUME NEW p \in Producer, EmitStep(p) PROVE OutboxInv'
  BY <1>3, ProbeStep, AcquireStep, WaitsStep, StealStep, UsageStep, WriteStep, ReleaseStep, Zenon
     DEF EmitStep
<1>4. ASSUME NEW p \in Producer, TestStep(p) \/ KillProducer(p) PROVE OutboxInv'
  BY <1>4, AsksOrEnds, Zenon DEF TestStep
<1>5. ASSUME NEW p \in Producer, NEW k \in Key, Emit(p, k) PROVE OutboxInv'
  BY <1>5, EmitIsSafe, Zenon
<1>6. ASSUME NEW f \in Forwarder,
             ForwardStep(f) \/ Acked(f) \/ Failed(f) \/ KillForwarder(f)
      PROVE  OutboxInv'
  BY <1>6, ForwarderActs, Zenon
<1>7. CASE UNCHANGED outboxVars
  <2>1. UNCHANGED <<disk, lock, stolen, prod, fwd, now, sent, sends, kills>>
    BY <1>7, Zenon DEF outboxVars
  <2>2. Locked'
    BY <2>1, Zenon DEF OutboxInv, Locked
  <2>3. UNCHANGED <<disk, stolen, prod, fwd, now, sent, sends, kills>>
    BY <2>1, Zenon
  <2> QED
    BY <2>2, <2>3, SameState, Zenon
<1> QED
  BY <1>1, <1>2, <1>3, <1>4, <1>5, <1>6, <1>7, Zenon DEF OutboxNext


\* A forwarder whose request has arrived still waits.
LEMMA AwaitStep ==
  ASSUME OneForwarder, OutboxInv, NEW f \in Forwarder, fwd[f].pc = "sending",
         fwd' = [fwd EXCEPT ![f].pc = "awaiting"],
         UNCHANGED <<disk, lock, stolen, prod, now, sent, sends, kills>>
  PROVE  OutboxInv'
<1> DEFINE r == [fwd[f] EXCEPT !.pc = "awaiting"]
<1>1. /\ Shaped(fwd[f]) /\ fwd[f].at \in Nat /\ fwd[f].at <= now
      /\ fwd[f].key \in Key /\ fwd[f].item \in Item /\ exists("inflight", fwd[f].key)
      /\ ~Unlocked(fwd[f].key) => Handles(fwd[f], fwd[f].key) /\ Holds(fwd[f], fwd[f].key)
  BY Exchanges, Zenon DEF Exchange
<1>2. fwd' = [fwd EXCEPT ![f] = r]
  OBVIOUS
<1>3. /\ r.pc = "awaiting" /\ r.at = fwd[f].at /\ r.key = fwd[f].key /\ r.item = fwd[f].item
      /\ r.dest = fwd[f].dest /\ r.then = fwd[f].then /\ Shaped(r)
  BY <1>1, Zenon DEF Shaped, Fields
<1> HIDE DEF r
<1>4. ForwarderOK(r)
  BY <1>1, <1>3, Zenon DEF ForwarderOK, Exchange, Shaped
<1>5. ASSUME NEW x \in Key, ~Unlocked(x) PROVE Follows(fwd[f], r, x)
  <2>1. Keeps(fwd[f], r, x) /\ (Attempts(fwd[f], x) => Attempts(r, x))
    BY <1>3, Zenon DEF Keeps, Holds, Claims, Attempts, Exchange
  <2>2. Handles(r, x)
    BY <1>1, <1>3, <1>5, Zenon DEF Handles, Exchange, Holds
  <2> QED
    BY <2>1, <2>2, Zenon DEF Follows
<1>6. UNCHANGED <<disk, lock, stolen, prod, now, sent, sends, kills>>
  OBVIOUS
<1> QED
  BY <1>2, <1>4, <1>5, <1>6, CalmStep, Zenon

=============================================================================
