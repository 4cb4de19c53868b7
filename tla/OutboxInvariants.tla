--------------------------- MODULE OutboxInvariants ---------------------------
(***************************************************************************)
(* What holds of the outbox at every moment, piece by piece: the invariant *)
(* that OutboxProofs shows to be kept, and what RelayProofs uses of it.    *)
(***************************************************************************)
EXTENDS Outbox

\* remote/drain.go leaves it to its caller that one process drains an outbox.
OneForwarder == \A f, g \in Forwarder : f = g

-----------------------------------------------------------------------------
\* Types.  A listing holds what is still on the disk: nobody else moves it.

ProdFields == {"pc", "key", "sentAt", "probe", "used", "moved", "result"}
InCapacity == {"bounded", "usage", "itemLock", "itemSteal", "enqueue", "write", "releaseItem",
               "releaseCapacity"}
InItem == {"enqueue", "write", "releaseItem"}
ProdPC == AtRest \cup InCapacity \cup {"lookup", "relookup", "capacityLock", "capacitySteal"}

ProdOK(r) ==
  /\ r = [x \in ProdFields |-> r[x]]
  /\ r.pc \in ProdPC /\ (r.pc # "start" => r.key \in Key)
  /\ r.probe \in 1..4 /\ (r.pc = "usage" => r.probe \in 1..3) /\ r.used \in Nat
  /\ r.pc \in {"releaseItem", "releaseCapacity"} =>
       r.result \in {"queued", "duplicate", "relookup", "refused", "error"}
  /\ r.moved \in BOOLEAN

Fields == {"pc", "at", "todo", "key", "item", "dest", "then"}
Shaped(r) == r = [x \in Fields |-> r[x]]
Exchange == {"send", "sending", "awaiting"}

\* The listing of r, taken from directory d.
Lists(r, d) ==
  \A k \in DOMAIN r.todo :
    k \in Key /\ disk[d][k] # None /\ r.todo[k] = disk[d][k] /\ k # r.key

ForwarderOK(r) ==
  /\ r = [x \in Fields |-> r[x]] /\ r.at \in Nat /\ r.at <= now
  /\ r.pc \in Exchange \cup {"idle", "recover", "transition", "remove", "claim", "next",
                             "claiming", "claimDrop", "claimRemove"}
  /\ r.pc = "recover" => Lists(r, "inflight")
  /\ r.pc \in {"claiming", "claimDrop"} =>
       Lists(r, "pending") /\ \A k \in DOMAIN r.todo : disk["pending"][k].next <= r.at
  /\ r.pc \in {"transition", "remove"} =>
       r.then \in {"recover", "next", "idle"} /\ (r.then = "recover" => Lists(r, "inflight"))
  /\ r.pc \in Exchange \cup {"transition", "remove", "claimDrop", "claimRemove"} =>
       r.key \in Key
  /\ r.pc \in Exchange \cup {"transition", "claimRemove"} => r.item \in Item
  /\ r.pc = "transition" =>
       /\ exists("inflight", r.key) /\ r.dest \in {"pending", "history", "dead"}
       /\ r.then = "recover" => r.dest = "pending"
  /\ r.pc = "remove" => \E d \in {"pending", "history", "dead"} : exists(d, r.key)
  /\ r.pc \in Exchange \cup {"claimDrop", "claimRemove"} => exists("inflight", r.key)
  /\ r.pc \in {"claimDrop", "claimRemove"} =>
       exists("pending", r.key) /\ disk["pending"][r.key].next <= r.at

Stored(k) == \E d \in Dir : exists(d, k)

\* What a producer has found or written is there.
Reports(r) ==
  \/ r.pc \in Told
  \/ r.pc \in {"releaseItem", "releaseCapacity"} /\ r.result \in {"queued", "duplicate"}

DiskType ==
  /\ disk \in [Dir -> [Key -> Item \cup {None}]] /\ now \in Nat /\ kills \in Nat
  /\ sends \in [Key -> Nat] /\ sent \in [Key -> SUBSET Producer]

OutboxType ==
  /\ DiskType
  /\ prod = [p \in Producer |-> prod[p]] /\ \A p \in Producer : ProdOK(prod[p])
  /\ fwd = [f \in Forwarder |-> fwd[f]] /\ \A f \in Forwarder : ForwarderOK(fwd[f])

Reported ==
  \A p \in Producer :
    /\ Reports(prod[p]) => Stored(prod[p].key)
    /\ prod[p].pc = "acknowledged" => exists("history", prod[p].key)
    /\ prod[p].pc = "deadLetter" => exists("dead", prod[p].key)

-----------------------------------------------------------------------------
\* A lock that was not stolen is its owner's, and it is not old.
Locked ==
  /\ lock = [n \in Key \cup {"capacity"} |-> lock[n]]
  /\ \A p \in Producer :
       /\ prod[p].pc \in InCapacity /\ "capacity" \notin stolen => lock["capacity"] = LockFile(p)
       /\ prod[p].pc \in InItem /\ prod[p].key \notin stolen => lock[prod[p].key] = LockFile(p)

-----------------------------------------------------------------------------
\* The copies of an item.

Settled(k) == exists("history", k) \/ exists("dead", k)

\* The forwarder of record r has claimed k and is not done with it.
Holds(r, k) ==
  r.key = k /\ (r.pc \in Exchange \/ (r.pc = "transition" /\ r.then # "recover"))
Attempts(r, k) ==
  \/ r.key = k /\ r.pc \in {"sending", "awaiting"}
  \/ r.key = k /\ r.pc \in {"transition", "remove"} /\ r.then # "recover"

OneBody(k) ==
  /\ \A d, e \in Dir : exists(d, k) /\ exists(e, k) => disk[d][k].body = disk[e][k].body
  /\ \A d \in Dir, b \in sent[k] : exists(d, k) => disk[d][k].body = b
  /\ ~Stored(k) => sent[k] = {} /\ sends[k] = 0
  /\ \A b, c \in sent[k] : b = c

\* An item in pending is not settled, and settles once.
Places(k) ==
  /\ exists("pending", k) => ~Settled(k)
  /\ ~(exists("history", k) /\ exists("dead", k))

\* What the forwarder of record r knows of the item it handles.
Handles(r, k) ==
  /\ Holds(r, k) =>
       /\ ~exists("pending", k) /\ ~Settled(k)
       /\ r.item.body = disk["inflight"][k].body /\ disk["inflight"][k].lease = r.at + Lease
       /\ r.pc \in Exchange => r.item.attempts = disk["inflight"][k].attempts
       /\ r.pc = "transition" /\ r.dest = "pending" =>
            /\ r.item.attempts = disk["inflight"][k].attempts + 1
            /\ r.item.attempts < Len(Backoff) /\ r.item.next > r.at
  /\ r.key = k /\ r.pc = "transition" /\ r.then = "recover" =>
       /\ ~exists("pending", k) /\ ~Settled(k)
       /\ r.item.body = disk["inflight"][k].body
       /\ r.item.attempts = disk["inflight"][k].attempts
       /\ disk["inflight"][k].lease <= r.at
  /\ r.key = k /\ r.pc = "claimRemove" => disk["inflight"][k] = r.item /\ r.item.lease = r.at + Lease

\* The sends of an item are its recorded attempts, the one in progress and, for
\* every kill, one that was not recorded.
Budget(k) ==
  /\ sends[k] <= Len(Backoff) + kills
  /\ exists("pending", k) =>
       disk["pending"][k].attempts < Len(Backoff) /\ sends[k] <= disk["pending"][k].attempts + kills
  /\ exists("inflight", k) /\ ~Settled(k) =>
       /\ disk["inflight"][k].attempts < Len(Backoff)
       /\ \/ sends[k] <= disk["inflight"][k].attempts + kills
          \/ /\ sends[k] <= disk["inflight"][k].attempts + kills + 1
             /\ \E f \in Forwarder : Attempts(fwd[f], k)

ItemInv(k) ==
  OneBody(k) /\ Places(k) /\ Budget(k) /\ \A f \in Forwarder : Handles(fwd[f], k)

-----------------------------------------------------------------------------
\* How far an item can still move before the clock ticks.  A backoff and a lease
\* that begin in this tick do not end in it.

Parked(k) == Settled(k) \/ (exists("pending", k) /\ disk["pending"][k].next > now)

Fresh(k) ==
  \/ Parked(k)
  \/ /\ ~exists("pending", k) /\ exists("inflight", k) /\ disk["inflight"][k].lease > now
     /\ \A f \in Forwarder : Holds(fwd[f], k) => fwd[f].at = now

Claims(r, k) ==
  \/ r.pc \in {"claiming", "claimDrop"} /\ k \in DOMAIN r.todo
  \/ r.pc = "claimRemove" /\ r.key = k

Ready(k) ==
  \/ Fresh(k)
  \/ /\ exists("pending", k)
     /\ exists("inflight", k) => disk["inflight"][k].lease > now
     /\ \A f \in Forwarder : Claims(fwd[f], k) => fwd[f].at = now

\* What the searches of EnqueueBounded and Enqueue that have missed an item say
\* of it: it has moved against their direction, and cannot do so for ever.
Missed(r) ==
  LET k == r.key IN
  r.pc \in InCapacity /\ Stored(k) /\ ~Unlocked(k) =>
    /\ r.pc = "bounded" /\ r.probe >= 2 => exists("inflight", k) \/ Ready(k)
    /\ r.pc = "bounded" /\ r.probe >= 3 => Ready(k)
    /\ r.pc \in {"usage", "itemLock", "itemSteal", "enqueue"} => Ready(k)
    /\ r.pc = "enqueue" /\ r.probe >= 2 => Fresh(k)
    /\ r.pc = "enqueue" /\ r.probe >= 3 => Parked(k)
    /\ r.pc = "enqueue" /\ r.probe >= 4 =>
         exists("dead", k) \/ (exists("pending", k) /\ disk["pending"][k].next > now)
    /\ r.pc = "write" => exists("pending", k) /\ disk["pending"][k].next > now

Searches == \A p \in Producer : Missed(prod[p])

-----------------------------------------------------------------------------
\* What counts against the capacity, and what retryUsage has counted so far.

Counted == listing("pending") \cup listing("inflight") \cup listing("dead")
Counts(r, S) == \E A \in SUBSET Key : IsFiniteSet(A) /\ Cardinality(A) <= r.used /\ Counted \ A \subseteq S

Counting(r) ==
  /\ r.pc = "usage" /\ r.probe = 2 => Counts(r, Key \ listing("pending"))
  /\ r.pc = "usage" /\ r.probe = 3 => Counts(r, listing("dead"))
  /\ r.pc \in {"itemLock", "itemSteal", "enqueue", "write"} => Cardinality(Counted) + 1 <= Capacity

\* What is known of the sizes of finite sets; DeliveryProofs proves it.
CardinalityFacts ==
  /\ \A S : IsFiniteSet(S) => Cardinality(S) \in Nat
  /\ \A S, T : IsFiniteSet(S) /\ T \subseteq S =>
       IsFiniteSet(T) /\ Cardinality(T) <= Cardinality(S)
  /\ \A S, T : IsFiniteSet(S) /\ IsFiniteSet(T) =>
       IsFiniteSet(S \cup T) /\ Cardinality(S \cup T) <= Cardinality(S) + Cardinality(T)
  /\ \A S, x : IsFiniteSet(S) =>
       IsFiniteSet(S \cup {x}) /\ Cardinality(S \cup {x}) <= Cardinality(S) + 1

CapacityInv ==
  /\ CardinalityFacts /\ IsFiniteSet(Counted)
  /\ "capacity" \notin stolen /\ (\A p \in Producer : ~prod[p].moved) =>
       /\ Cardinality(Counted) <= Capacity
       /\ \A p \in Producer : Counting(prod[p])

OutboxInv ==
  /\ OutboxType /\ Reported /\ Locked
  /\ \A k \in Key : ~Unlocked(k) => ItemInv(k)
  /\ Searches /\ CapacityInv

-----------------------------------------------------------------------------
\* Steps of the forwarder.

\* What such a step leaves true of the item x.
Kept(x) ==
  /\ Stored(x)' <=> Stored(x)
  /\ exists("history", x) => exists("history", x)'
  /\ exists("dead", x) => exists("dead", x)'
  /\ ~Unlocked(x) =>
       /\ ItemInv(x)'
       /\ Parked(x) => Parked(x)'
       /\ Fresh(x) => Fresh(x)'
       /\ Ready(x) => Ready(x)'
       /\ exists("inflight", x) => exists("inflight", x)' \/ Ready(x)'
       /\ exists("pending", x) /\ disk["pending"][x].next > now =>
            exists("pending", x)' /\ disk'["pending"][x].next > now'
  /\ x \in Counted' => x \in Counted
  /\ exists("pending", x)' =>
       exists("pending", x) \/ \A p \in Producer : prod[p].pc = "usage" => prod'[p].moved

\* Producers only note that an item went back while they counted.
Notes ==
  /\ prod' = [p \in Producer |-> prod'[p]]
  /\ \A p \in Producer :
       /\ ProdOK(prod'[p]) /\ (prod[p].moved => prod'[p].moved)
       /\ \A x \in ProdFields \ {"moved"} : prod'[p][x] = prod[p][x]

=============================================================================
