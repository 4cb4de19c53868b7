----------------------------- MODULE EmitProofs -----------------------------
(***************************************************************************)
(* Theorems about the way of an event from an agent into the spool: the    *)
(* `emit` that a hook runs (Enqueue), for any number of emitters, kills    *)
(* and removed items, and the commands that install the hooks (Hooks), for *)
(* every set of agents, any number of commands at once, versions, forms,   *)
(* bridges, edits, kills and failures.                                     *)
(*                                                                         *)
(* Enqueue: what emit reports has reached the spool, a failed emit leaves  *)
(* no marker, and as long as nothing irregular happens one key is one      *)
(* item.                                                                   *)
(*                                                                         *)
(* Hooks: an adapter that is not exposed has a receipt that tells the      *)
(* truth.  One command at a time changes it; its file holds at most the    *)
(* hook of the receipt; and what that command plans to leave is its own    *)
(* hook, or no hook, since Install and Uninstall remove the one hook there *)
(* can be.  Four adapters know their hooks and need no receipt.            *)
(***************************************************************************)
EXTENDS Enqueue, Hooks, FiniteSetTheorems, TLAPS

-----------------------------------------------------------------------------
\* The inductive invariant of Enqueue.

Names == {"pending", "inflight", "history", "dead"}
CopyPlaces == {<<>>} \cup {<<d>> : d \in Names} \cup Moves

EnqueueType ==
  /\ marker \in Marker \cup {NoMarker}
  /\ pc \in [Emitter -> {"reserve", "mark", "write", "read", "probe", "missing", "stat",
                         "remove"} \cup Returned]
  /\ place \in [Emitter -> CopyPlaces]
  /\ seen \in [Emitter -> Emitter]
  /\ probe \in [Emitter -> 1..4]
  /\ late \in [Emitter -> BOOLEAN]
  /\ cleaner \in BOOLEAN /\ irregular \in BOOLEAN
  /\ written \in SUBSET Emitter

\* Only a written item has copies.
CopiesAreWritten == \A e \in Emitter : place[e] # <<>> => e \in written

DurableInv == EnqueueType /\ CopiesAreWritten /\ ReportedIsDurable /\ NoOrphanMarker

\* Some copy of the item is in a directory that is still to be searched.
Ahead(s, k) == \E j \in k..4 : Directories[j] \in Range(s)

\* While nothing irregular happens, the marker belongs to the one who writes the
\* item or has written it, and is old only after that...
NobodyGone == ~cleaner /\ \A e \in Emitter : pc[e] \notin {"killed", "remove"}

WriterHolds ==
  \A e \in Emitter :
    pc[e] \in {"mark", "write"} =>
      /\ marker # NoMarker /\ marker.owner = e /\ ~marker.old
      /\ e \notin written
      /\ pc[e] = "write" => marker.named

ItemHolds ==
  \A e \in written :
    marker # NoMarker /\ marker.owner = e /\ marker.named /\ place[e] # <<>>

MovesForward == \A e \in Emitter : Len(place[e]) = 2 => place[e][2] # "pending"

\* ...whoever searches for the item of an old marker has not passed it, so that
\* nobody finds a marker stale.
SearchAhead ==
  \A e \in Emitter :
    pc[e] = "probe" /\ marker # NoMarker /\ marker.old =>
      seen[e] = marker.owner /\ Ahead(place[marker.owner], probe[e])

NoneStale ==
  \A e \in Emitter : pc[e] \in {"missing", "stat"} => marker = NoMarker \/ ~marker.old

Calm == NobodyGone /\ WriterHolds /\ ItemHolds /\ MovesForward /\ SearchAhead /\ NoneStale

OnceInv == ~irregular => Calm

-----------------------------------------------------------------------------
\* The directories with a copy, as sequences of one or two names.

LEMMA Lengths ==
  /\ Len(<<>>) = 0
  /\ \A d \in Names : Len(<<d>>) = 1 /\ <<d>> # <<>> /\ Range(<<d>>) = {d}
  /\ \A c, d \in Names : /\ Len(<<c, d>>) = 2 /\ <<c, d>> # <<>>
                         /\ Tail(<<c, d>>) = <<d>>
                         /\ Range(<<c, d>>) = {c, d}
<1>1. ASSUME NEW d \in Names
      PROVE  Len(<<d>>) = 1 /\ <<d>> # <<>> /\ Range(<<d>>) = {d}
  BY DEF Range
<1>2. ASSUME NEW c \in Names, NEW d \in Names
      PROVE  Len(<<c, d>>) = 2 /\ <<c, d>> # <<>> /\ Tail(<<c, d>>) = <<d>>
  OBVIOUS
<1>3. ASSUME NEW c \in Names, NEW d \in Names PROVE Range(<<c, d>>) = {c, d}
  <2>1. DOMAIN <<c, d>> = {1, 2} /\ <<c, d>>[1] = c /\ <<c, d>>[2] = d
    OBVIOUS
  <2> QED
    BY <2>1, Zenon DEF Range
<1> QED
  BY <1>1, <1>2, <1>3, Zenon

LEMMA MoveNames ==
  ASSUME NEW move \in Moves
  PROVE  \E c, d \in Names : move = <<c, d>>
BY Zenon DEF Moves, Names

LEMMA PlaceCases ==
  ASSUME NEW s \in CopyPlaces
  PROVE  /\ Len(s) = 1 => \E d \in Names : s = <<d>>
         /\ Len(s) = 2 => \E c, d \in Names : s = <<c, d>> /\ s \in Moves
         /\ s = <<>> \/ Len(s) = 1 \/ Len(s) = 2
BY Lengths, MoveNames DEF CopyPlaces

LEMMA PlaceTypes ==
  /\ <<>> \in CopyPlaces /\ <<"pending">> \in CopyPlaces /\ Range(<<>>) = {}
  /\ \A move \in Moves : move \in CopyPlaces /\ move # <<>> /\ Len(move) = 2
  /\ \A s \in CopyPlaces : Len(s) = 2 => Tail(s) \in CopyPlaces
  /\ Len(Directories) = 4
<1>1. Range(<<>>) = {} /\ Len(Directories) = 4
  BY DEF Range, Directories
<1>2. <<>> \in CopyPlaces /\ <<"pending">> \in CopyPlaces
  BY Zenon DEF CopyPlaces, Names
<1>3. \A move \in Moves : move \in CopyPlaces /\ move # <<>> /\ Len(move) = 2
  BY MoveNames, Lengths, Zenon DEF CopyPlaces
<1>4. ASSUME NEW s \in CopyPlaces, Len(s) = 2 PROVE Tail(s) \in CopyPlaces
  <2>1. PICK c, d \in Names : s = <<c, d>>
    BY <1>4, PlaceCases, Zenon
  <2>2. Tail(s) = <<d>>
    BY <2>1, Lengths, Zenon
  <2> QED
    BY <2>2, Zenon DEF CopyPlaces
<1> QED
  BY <1>1, <1>2, <1>3, <1>4, Zenon

\* An item with a copy is ahead of a search that begins; a move keeps it ahead.
LEMMA CopyIsAhead ==
  ASSUME NEW s \in CopyPlaces, s # <<>> PROVE Ahead(s, 1)
<1>1. PICK d \in Names : d \in Range(s)
  BY PlaceCases, Lengths, ZenonT(30)
<1>2. \E j \in 1..4 : Directories[j] = d
  BY DEF Names, Directories
<1> QED
  BY <1>1, <1>2, Zenon DEF Ahead

LEMMA MoveIsAhead ==
  ASSUME NEW s \in CopyPlaces, Len(s) = 1, NEW move \in Moves, move[1] = s[1], NEW k, Ahead(s, k)
  PROVE  Ahead(move, k)
<1>1. PICK d \in Names : s = <<d>>
  BY PlaceCases, Zenon
<1>2. PICK b, c \in Names : move = <<b, c>>
  BY MoveNames, Zenon
<1>3. b = d
  BY <1>1, <1>2, Zenon
<1> QED
  <2>1. Range(s) = {d} /\ Range(move) = {b, c}
    BY <1>1, <1>2, Lengths, Zenon
  <2> QED
    BY <1>3, <2>1, Zenon DEF Ahead

LEMMA TailIsAhead ==
  ASSUME NEW s \in CopyPlaces, Len(s) = 2, s[2] # "pending", NEW k \in 1..4, Ahead(s, k)
  PROVE  Tail(s) # <<>> /\ Ahead(Tail(s), k)
<1>1. PICK c, d \in Names : s = <<c, d>> /\ s \in Moves
  BY PlaceCases, Zenon
<1>2. Range(s) = {c, d} /\ Range(Tail(s)) = {d} /\ Tail(s) # <<>>
  BY <1>1, Lengths, Zenon
<1>3. PICK j \in k..4 : Directories[j] \in {c, d}
  BY <1>2, Zenon DEF Ahead
<1>4. c = Directories[j] => \E i \in j..4 : Directories[i] = d
  BY <1>1, <1>3 DEF Moves, Directories
<1>5. \E i \in k..4 : Directories[i] = d
  BY <1>3, <1>4
<1> QED
  BY <1>2, <1>5, Zenon DEF Ahead

-----------------------------------------------------------------------------
\* What is reported is durable.

LEMMA DurableStep ==
  ASSUME DurableInv, [Next]_vars
  PROVE  DurableInv'
<1> USE EnqueueAssumption, NoMarkerAssumption, PlaceTypes
    DEF EnqueueAssumption, NoMarkerAssumption, Step, spool, history, Returned, Marker
<1>1. EnqueueType /\ CopiesAreWritten /\ ReportedIsDurable /\ NoOrphanMarker
  BY Zenon DEF DurableInv
<1>2. ASSUME NEW e \in Emitter, Reserve(e) PROVE DurableInv'
  <2>1. EnqueueType'
    BY <1>1, <1>2, Zenon DEF Reserve, EnqueueType
  <2>2. CopiesAreWritten'
    BY <1>1, <1>2, Zenon DEF Reserve, EnqueueType, CopiesAreWritten
  <2>3. ReportedIsDurable'
    BY <1>1, <1>2, Zenon DEF Reserve, EnqueueType, CopiesAreWritten, ReportedIsDurable
  <2>4. NoOrphanMarker'
    BY <1>1, <1>2, Zenon DEF Reserve, EnqueueType, NoOrphanMarker
  <2> QED
    BY <2>1, <2>2, <2>3, <2>4, Zenon DEF DurableInv
<1>3. ASSUME NEW e \in Emitter, ReserveExists(e) PROVE DurableInv'
  <2>1. EnqueueType'
    BY <1>1, <1>3, Zenon DEF ReserveExists, EnqueueType
  <2>2. CopiesAreWritten'
    BY <1>1, <1>3, Zenon DEF ReserveExists, EnqueueType, CopiesAreWritten
  <2>3. ReportedIsDurable'
    BY <1>1, <1>3, Zenon DEF ReserveExists, EnqueueType, CopiesAreWritten, ReportedIsDurable
  <2>4. NoOrphanMarker'
    BY <1>1, <1>3, Zenon DEF ReserveExists, EnqueueType, NoOrphanMarker
  <2> QED
    BY <2>1, <2>2, <2>3, <2>4, Zenon DEF DurableInv
<1>4. ASSUME NEW e \in Emitter, WriteMarker(e) PROVE DurableInv'
  <2>1. EnqueueType'
    BY <1>1, <1>4, Zenon DEF WriteMarker, EnqueueType
  <2>2. CopiesAreWritten'
    BY <1>1, <1>4, Zenon DEF WriteMarker, EnqueueType, CopiesAreWritten
  <2>3. ReportedIsDurable'
    BY <1>1, <1>4, Zenon DEF WriteMarker, EnqueueType, CopiesAreWritten, ReportedIsDurable
  <2>4. NoOrphanMarker'
    BY <1>1, <1>4, Zenon DEF WriteMarker, EnqueueType, NoOrphanMarker
  <2> QED
    BY <2>1, <2>2, <2>3, <2>4, Zenon DEF DurableInv
<1>5. ASSUME NEW e \in Emitter, WriteItem(e) PROVE DurableInv'
  <2>1. EnqueueType'
    BY <1>1, <1>5, Zenon DEF WriteItem, EnqueueType
  <2>2. CopiesAreWritten'
    BY <1>1, <1>5, Zenon DEF WriteItem, EnqueueType, CopiesAreWritten
  <2>3. ReportedIsDurable'
    BY <1>1, <1>5, Zenon DEF WriteItem, EnqueueType, CopiesAreWritten, ReportedIsDurable
  <2>4. NoOrphanMarker'
    BY <1>1, <1>5, Zenon DEF WriteItem, EnqueueType, NoOrphanMarker
  <2> QED
    BY <2>1, <2>2, <2>3, <2>4, Zenon DEF DurableInv
<1>6. ASSUME NEW e \in Emitter, Fail(e) PROVE DurableInv'
  <2>1. EnqueueType'
    BY <1>1, <1>6, Zenon DEF Fail, EnqueueType
  <2>2. CopiesAreWritten'
    BY <1>1, <1>6, Zenon DEF Fail, EnqueueType, CopiesAreWritten
  <2>3. ReportedIsDurable'
    BY <1>1, <1>6, Zenon DEF Fail, EnqueueType, CopiesAreWritten, ReportedIsDurable
  <2>4. NoOrphanMarker'
    BY <1>1, <1>6, Zenon DEF Fail, EnqueueType, NoOrphanMarker
  <2> QED
    BY <2>1, <2>2, <2>3, <2>4, Zenon DEF DurableInv
<1>7. ASSUME NEW e \in Emitter, ReadMarker(e) PROVE DurableInv'
  <2>1. EnqueueType'
    BY <1>1, <1>7 DEF ReadMarker, EnqueueType
  <2>2. CopiesAreWritten'
    BY <1>1, <1>7, Zenon DEF ReadMarker, EnqueueType, CopiesAreWritten
  <2>3. ReportedIsDurable'
    BY <1>1, <1>7 DEF ReadMarker, EnqueueType, CopiesAreWritten, ReportedIsDurable
  <2>4. NoOrphanMarker'
    BY <1>1, <1>7, Zenon DEF ReadMarker, EnqueueType, NoOrphanMarker
  <2> QED
    BY <2>1, <2>2, <2>3, <2>4, Zenon DEF DurableInv
<1>8. ASSUME NEW e \in Emitter, itemExists(e) PROVE DurableInv'
  <2>1. EnqueueType'
    BY <1>1, <1>8 DEF itemExists, EnqueueType
  <2>2. CopiesAreWritten'
    BY <1>1, <1>8, Zenon DEF itemExists, EnqueueType, CopiesAreWritten
  <2>3. ReportedIsDurable'
    BY <1>1, <1>8 DEF itemExists, EnqueueType, CopiesAreWritten, ReportedIsDurable
  <2>4. NoOrphanMarker'
    BY <1>1, <1>8, Zenon DEF itemExists, EnqueueType, NoOrphanMarker
  <2> QED
    BY <2>1, <2>2, <2>3, <2>4, Zenon DEF DurableInv
<1>9. ASSUME NEW e \in Emitter, Poll(e) PROVE DurableInv'
  <2>1. EnqueueType'
    BY <1>1, <1>9, Zenon DEF Poll, EnqueueType
  <2>2. CopiesAreWritten'
    BY <1>1, <1>9, Zenon DEF Poll, EnqueueType, CopiesAreWritten
  <2>3. ReportedIsDurable'
    BY <1>1, <1>9, Zenon DEF Poll, EnqueueType, CopiesAreWritten, ReportedIsDurable
  <2>4. NoOrphanMarker'
    BY <1>1, <1>9, Zenon DEF Poll, EnqueueType, NoOrphanMarker
  <2> QED
    BY <2>1, <2>2, <2>3, <2>4, Zenon DEF DurableInv
<1>10. ASSUME NEW e \in Emitter, StatMarker(e) PROVE DurableInv'
  <2>1. EnqueueType'
    BY <1>1, <1>10, Zenon DEF StatMarker, EnqueueType
  <2>2. CopiesAreWritten'
    BY <1>1, <1>10, Zenon DEF StatMarker, EnqueueType, CopiesAreWritten
  <2>3. ReportedIsDurable'
    BY <1>1, <1>10, Zenon DEF StatMarker, EnqueueType, CopiesAreWritten, ReportedIsDurable
  <2>4. NoOrphanMarker'
    BY <1>1, <1>10, Zenon DEF StatMarker, EnqueueType, NoOrphanMarker
  <2> QED
    BY <2>1, <2>2, <2>3, <2>4, Zenon DEF DurableInv
<1>11. ASSUME NEW e \in Emitter, RemoveStale(e) PROVE DurableInv'
  <2>1. EnqueueType'
    BY <1>1, <1>11, Zenon DEF RemoveStale, EnqueueType
  <2>2. CopiesAreWritten'
    BY <1>1, <1>11, Zenon DEF RemoveStale, EnqueueType, CopiesAreWritten
  <2>3. ReportedIsDurable'
    BY <1>1, <1>11, Zenon DEF RemoveStale, EnqueueType, CopiesAreWritten, ReportedIsDurable
  <2>4. NoOrphanMarker'
    BY <1>1, <1>11, Zenon DEF RemoveStale, EnqueueType, NoOrphanMarker
  <2> QED
    BY <2>1, <2>2, <2>3, <2>4, Zenon DEF DurableInv
<1>12. ASSUME NEW e \in Emitter, Expire(e) PROVE DurableInv'
  <2>1. EnqueueType'
    BY <1>1, <1>12, Zenon DEF Expire, EnqueueType
  <2>2. CopiesAreWritten'
    BY <1>1, <1>12, Zenon DEF Expire, EnqueueType, CopiesAreWritten
  <2>3. ReportedIsDurable'
    BY <1>1, <1>12, Zenon DEF Expire, EnqueueType, CopiesAreWritten, ReportedIsDurable
  <2>4. NoOrphanMarker'
    BY <1>1, <1>12, Zenon DEF Expire, EnqueueType, NoOrphanMarker
  <2> QED
    BY <2>1, <2>2, <2>3, <2>4, Zenon DEF DurableInv
<1>13. ASSUME NEW e \in Emitter, Kill(e) PROVE DurableInv'
  <2>1. EnqueueType'
    BY <1>1, <1>13, Zenon DEF Kill, EnqueueType
  <2>2. CopiesAreWritten'
    BY <1>1, <1>13, Zenon DEF Kill, EnqueueType, CopiesAreWritten
  <2>3. ReportedIsDurable'
    BY <1>1, <1>13, Zenon DEF Kill, EnqueueType, CopiesAreWritten, ReportedIsDurable
  <2>4. NoOrphanMarker'
    BY <1>1, <1>13, Zenon DEF Kill, EnqueueType, NoOrphanMarker
  <2> QED
    BY <2>1, <2>2, <2>3, <2>4, Zenon DEF DurableInv
<1>14. ASSUME NEW e \in Emitter, MoveWrite(e) PROVE DurableInv'
  <2>1. EnqueueType'
    BY <1>1, <1>14 DEF MoveWrite, EnqueueType
  <2>2. CopiesAreWritten'
    <3>1. place[e] # <<>>
      BY <1>14, Lengths DEF MoveWrite
    <3> QED
      BY <1>1, <1>14, <3>1, Zenon DEF MoveWrite, EnqueueType, CopiesAreWritten
  <2>3. ReportedIsDurable'
    BY <1>1, <1>14, Zenon DEF MoveWrite, EnqueueType, CopiesAreWritten, ReportedIsDurable
  <2>4. NoOrphanMarker'
    BY <1>1, <1>14, Zenon DEF MoveWrite, EnqueueType, NoOrphanMarker
  <2> QED
    BY <2>1, <2>2, <2>3, <2>4, Zenon DEF DurableInv
<1>15. ASSUME NEW e \in Emitter, MoveRemove(e) PROVE DurableInv'
  <2>1. EnqueueType'
    BY <1>1, <1>15, Zenon DEF MoveRemove, EnqueueType
  <2>2. CopiesAreWritten'
    BY <1>1, <1>15 DEF MoveRemove, EnqueueType, CopiesAreWritten
  <2>3. ReportedIsDurable'
    BY <1>1, <1>15, Zenon DEF MoveRemove, EnqueueType, CopiesAreWritten, ReportedIsDurable
  <2>4. NoOrphanMarker'
    BY <1>1, <1>15, Zenon DEF MoveRemove, EnqueueType, NoOrphanMarker
  <2> QED
    BY <2>1, <2>2, <2>3, <2>4, Zenon DEF DurableInv
<1>16. ASSUME NEW e \in Emitter, CleanupItem(e) PROVE DurableInv'
  <2>1. EnqueueType'
    BY <1>1, <1>16, Zenon DEF CleanupItem, EnqueueType
  <2>2. CopiesAreWritten'
    BY <1>1, <1>16, Zenon DEF CleanupItem, EnqueueType, CopiesAreWritten
  <2>3. ReportedIsDurable'
    BY <1>1, <1>16, Zenon DEF CleanupItem, EnqueueType, CopiesAreWritten, ReportedIsDurable
  <2>4. NoOrphanMarker'
    BY <1>1, <1>16, Zenon DEF CleanupItem, EnqueueType, NoOrphanMarker
  <2> QED
    BY <2>1, <2>2, <2>3, <2>4, Zenon DEF DurableInv
<1>17. CASE Age \/ CleanupKey \/ UNCHANGED vars
  BY <1>1, <1>17, Zenon DEF Age, CleanupKey, vars, DurableInv, EnqueueType, CopiesAreWritten, ReportedIsDurable,
         NoOrphanMarker
<1> QED
  BY <1>2, <1>3, <1>4, <1>5, <1>6, <1>7, <1>8, <1>9, <1>10,
     <1>11, <1>12, <1>13, <1>14, <1>15, <1>16, <1>17, Zenon
     DEF Next, Emit

-----------------------------------------------------------------------------
\* One key is one item.

LEMMA OldIsWritten ==
  ASSUME DurableInv, Calm, marker # NoMarker, marker.old
  PROVE  marker.owner \in written /\ marker.named /\ place[marker.owner] # <<>>
BY Zenon DEF DurableInv, EnqueueType, Marker, NoOrphanMarker, Calm, NobodyGone, WriterHolds,
       ItemHolds

LEMMA OneWriter ==
  ASSUME Calm, NEW e \in Emitter, pc[e] \in {"mark", "write"}
  PROVE  written = {} /\ \A f \in Emitter : pc[f] \in {"mark", "write"} => f = e
BY Zenon DEF Calm, WriterHolds, ItemHolds

LEMMA CalmStep ==
  ASSUME DurableInv, Calm, [Next]_vars, ~irregular, ~irregular'
  PROVE  Calm'
<1> USE EnqueueAssumption, NoMarkerAssumption
    DEF EnqueueAssumption, NoMarkerAssumption, Step, spool, history, Returned, Marker
<1>1. /\ EnqueueType /\ NobodyGone /\ WriterHolds /\ ItemHolds /\ MovesForward
      /\ SearchAhead /\ NoneStale
  BY Zenon DEF Calm, DurableInv
<1>2. ASSUME NEW e \in Emitter, Reserve(e) PROVE Calm'
  <2>1. NobodyGone'
    BY <1>1, <1>2, Zenon DEF Reserve, EnqueueType, NobodyGone
  <2>2. WriterHolds'
    <3>1. written = {} /\ marker' # NoMarker
      <4>1. [owner |-> e, named |-> FALSE, old |-> FALSE] \in Marker
        OBVIOUS
      <4> QED
        BY <1>1, <1>2, <4>1, Zenon DEF Reserve, ItemHolds
    <3>2. \A f \in Emitter : f # e => pc'[f] \notin {"mark", "write"}
      BY <1>1, <1>2, Zenon DEF Reserve, EnqueueType, WriterHolds
    <3> QED
      BY <1>1, <1>2, <3>1, <3>2, Zenon DEF Reserve, EnqueueType, WriterHolds
  <2>3. ItemHolds'
    BY <1>1, <1>2, Zenon DEF Reserve, EnqueueType, ItemHolds
  <2>4. MovesForward'
    BY <1>1, <1>2, Zenon DEF Reserve, EnqueueType, MovesForward
  <2>5. SearchAhead'
    BY <1>1, <1>2, Zenon DEF Reserve, EnqueueType, SearchAhead
  <2>6. NoneStale'
    BY <1>1, <1>2, Zenon DEF Reserve, EnqueueType, NoneStale
  <2> QED
    BY <2>1, <2>2, <2>3, <2>4, <2>5, <2>6, Zenon DEF Calm
<1>3. ASSUME NEW e \in Emitter, ReserveExists(e) PROVE Calm'
  <2>1. NobodyGone'
    BY <1>1, <1>3, Zenon DEF ReserveExists, EnqueueType, NobodyGone
  <2>2. WriterHolds'
    BY <1>1, <1>3 DEF ReserveExists, EnqueueType, WriterHolds
  <2>3. ItemHolds'
    BY <1>1, <1>3, Zenon DEF ReserveExists, EnqueueType, ItemHolds
  <2>4. MovesForward'
    BY <1>1, <1>3, Zenon DEF ReserveExists, EnqueueType, MovesForward
  <2>5. SearchAhead'
    BY <1>1, <1>3, Zenon DEF ReserveExists, EnqueueType, SearchAhead
  <2>6. NoneStale'
    BY <1>1, <1>3, Zenon DEF ReserveExists, EnqueueType, NoneStale
  <2> QED
    BY <2>1, <2>2, <2>3, <2>4, <2>5, <2>6, Zenon DEF Calm
<1>4. ASSUME NEW e \in Emitter, WriteMarker(e) PROVE Calm'
  <2>1. NobodyGone'
    BY <1>1, <1>4, Zenon DEF WriteMarker, EnqueueType, NobodyGone
  <2>2. WriterHolds'
    BY <1>1, <1>4, ZenonT(30) DEF WriteMarker, EnqueueType, WriterHolds
  <2>3. ItemHolds'
    BY <1>1, <1>4, ZenonT(30) DEF WriteMarker, EnqueueType, ItemHolds
  <2>4. MovesForward'
    BY <1>1, <1>4, Zenon DEF WriteMarker, EnqueueType, MovesForward
  <2>5. SearchAhead'
    BY <1>1, <1>4, Zenon DEF WriteMarker, EnqueueType, SearchAhead
  <2>6. NoneStale'
    BY <1>1, <1>4, Zenon DEF WriteMarker, EnqueueType, NoneStale
  <2> QED
    BY <2>1, <2>2, <2>3, <2>4, <2>5, <2>6, Zenon DEF Calm
<1>5. ASSUME NEW e \in Emitter, WriteItem(e) PROVE Calm'
  <2>1. NobodyGone'
    BY <1>1, <1>5, Zenon DEF WriteItem, EnqueueType, NobodyGone
  <2>2. WriterHolds'
    BY <1>1, <1>5, Zenon DEF WriteItem, EnqueueType, WriterHolds
  <2>3. ItemHolds'
    BY <1>1, <1>5, OneWriter, Lengths
       DEF WriteItem, EnqueueType, ItemHolds, WriterHolds, Names
  <2>4. MovesForward'
    BY <1>1, <1>5 DEF WriteItem, EnqueueType, MovesForward
  <2>5. SearchAhead'
    BY <1>1, <1>5, Zenon DEF WriteItem, EnqueueType, SearchAhead, WriterHolds
  <2>6. NoneStale'
    BY <1>1, <1>5, Zenon DEF WriteItem, EnqueueType, NoneStale
  <2> QED
    BY <2>1, <2>2, <2>3, <2>4, <2>5, <2>6, Zenon DEF Calm
<1>6. ASSUME NEW e \in Emitter, Fail(e) PROVE Calm'
  <2>1. NobodyGone'
    BY <1>1, <1>6, Zenon DEF Fail, EnqueueType, NobodyGone
  <2>2. WriterHolds'
    BY <1>1, <1>6, Zenon DEF Fail, EnqueueType, WriterHolds
  <2>3. ItemHolds'
    BY <1>1, <1>6, OneWriter, Zenon DEF Fail, EnqueueType, ItemHolds
  <2>4. MovesForward'
    BY <1>1, <1>6, Zenon DEF Fail, EnqueueType, MovesForward
  <2>5. SearchAhead'
    BY <1>1, <1>6, Zenon DEF Fail, EnqueueType, SearchAhead
  <2>6. NoneStale'
    BY <1>1, <1>6, Zenon DEF Fail, EnqueueType, NoneStale
  <2> QED
    BY <2>1, <2>2, <2>3, <2>4, <2>5, <2>6, Zenon DEF Calm
<1>7. ASSUME NEW e \in Emitter, ReadMarker(e) PROVE Calm'
  <2>1. NobodyGone'
    BY <1>1, <1>7 DEF ReadMarker, EnqueueType, NobodyGone
  <2>2. WriterHolds'
    BY <1>1, <1>7 DEF ReadMarker, EnqueueType, WriterHolds
  <2>3. ItemHolds'
    BY <1>1, <1>7, Zenon DEF ReadMarker, EnqueueType, ItemHolds
  <2>4. MovesForward'
    BY <1>1, <1>7, Zenon DEF ReadMarker, EnqueueType, MovesForward
  <2>5. SearchAhead'
    BY <1>1, <1>7, OldIsWritten, CopyIsAhead DEF ReadMarker, EnqueueType, SearchAhead
  <2>6. NoneStale'
    BY <1>1, <1>7, OldIsWritten, Zenon DEF ReadMarker, EnqueueType, NoneStale
  <2> QED
    BY <2>1, <2>2, <2>3, <2>4, <2>5, <2>6, Zenon DEF Calm
<1>8. ASSUME NEW e \in Emitter, itemExists(e) PROVE Calm'
  <2>1. NobodyGone'
    BY <1>1, <1>8 DEF itemExists, EnqueueType, NobodyGone
  <2>2. WriterHolds'
    BY <1>1, <1>8 DEF itemExists, EnqueueType, WriterHolds
  <2>3. ItemHolds'
    BY <1>1, <1>8, Zenon DEF itemExists, EnqueueType, ItemHolds
  <2>4. MovesForward'
    BY <1>1, <1>8, Zenon DEF itemExists, EnqueueType, MovesForward
  <2>5. SearchAhead'
    BY <1>1, <1>8 DEF itemExists, EnqueueType, SearchAhead, Ahead
  <2>6. NoneStale'
    BY <1>1, <1>8, PlaceTypes DEF itemExists, EnqueueType, NoneStale, SearchAhead, Ahead
  <2> QED
    BY <2>1, <2>2, <2>3, <2>4, <2>5, <2>6, Zenon DEF Calm
<1>9. ASSUME NEW e \in Emitter, Poll(e) PROVE Calm'
  <2>1. NobodyGone'
    BY <1>1, <1>9, Zenon DEF Poll, EnqueueType, NobodyGone
  <2>2. WriterHolds'
    BY <1>1, <1>9, Zenon DEF Poll, EnqueueType, WriterHolds
  <2>3. ItemHolds'
    BY <1>1, <1>9, Zenon DEF Poll, EnqueueType, ItemHolds
  <2>4. MovesForward'
    BY <1>1, <1>9, Zenon DEF Poll, EnqueueType, MovesForward
  <2>5. SearchAhead'
    BY <1>1, <1>9, Zenon DEF Poll, EnqueueType, SearchAhead
  <2>6. NoneStale'
    BY <1>1, <1>9, Zenon DEF Poll, EnqueueType, NoneStale
  <2> QED
    BY <2>1, <2>2, <2>3, <2>4, <2>5, <2>6, Zenon DEF Calm
<1>10. ASSUME NEW e \in Emitter, StatMarker(e) PROVE Calm'
  <2>1. NobodyGone'
    BY <1>1, <1>10, Zenon DEF StatMarker, EnqueueType, NobodyGone, NoneStale
  <2>2. WriterHolds'
    BY <1>1, <1>10, Zenon DEF StatMarker, EnqueueType, WriterHolds
  <2>3. ItemHolds'
    BY <1>1, <1>10, Zenon DEF StatMarker, EnqueueType, ItemHolds
  <2>4. MovesForward'
    BY <1>1, <1>10, Zenon DEF StatMarker, EnqueueType, MovesForward
  <2>5. SearchAhead'
    BY <1>1, <1>10, Zenon DEF StatMarker, EnqueueType, SearchAhead
  <2>6. NoneStale'
    BY <1>1, <1>10, Zenon DEF StatMarker, EnqueueType, NoneStale
  <2> QED
    BY <2>1, <2>2, <2>3, <2>4, <2>5, <2>6, Zenon DEF Calm
<1>11. ASSUME NEW e \in Emitter, RemoveStale(e) PROVE Calm'
  BY <1>1, <1>11, Zenon DEF RemoveStale, NobodyGone
<1>12. ASSUME NEW e \in Emitter, Expire(e) PROVE Calm'
  <2>1. NobodyGone'
    BY <1>1, <1>12, Zenon DEF Expire, EnqueueType, NobodyGone
  <2>2. WriterHolds'
    BY <1>1, <1>12, Zenon DEF Expire, EnqueueType, WriterHolds
  <2>3. ItemHolds'
    BY <1>1, <1>12, Zenon DEF Expire, EnqueueType, ItemHolds
  <2>4. MovesForward'
    BY <1>1, <1>12, Zenon DEF Expire, EnqueueType, MovesForward
  <2>5. SearchAhead'
    BY <1>1, <1>12, Zenon DEF Expire, EnqueueType, SearchAhead
  <2>6. NoneStale'
    BY <1>1, <1>12, Zenon DEF Expire, EnqueueType, NoneStale
  <2> QED
    BY <2>1, <2>2, <2>3, <2>4, <2>5, <2>6, Zenon DEF Calm
<1>13. ASSUME NEW e \in Emitter, Kill(e) PROVE Calm'
  BY <1>1, <1>13, Zenon DEF Kill, NobodyGone
<1>14. ASSUME NEW e \in Emitter, MoveWrite(e) PROVE Calm'
  <2>1. NobodyGone'
    BY <1>1, <1>14, Zenon DEF MoveWrite, EnqueueType, NobodyGone
  <2>2. WriterHolds'
    BY <1>1, <1>14, Zenon DEF MoveWrite, EnqueueType, WriterHolds
  <2>3. ItemHolds'
    BY <1>1, <1>14, PlaceTypes DEF MoveWrite, EnqueueType, ItemHolds
  <2>4. MovesForward'
    BY <1>1, <1>14, Zenon DEF MoveWrite, EnqueueType, MovesForward
  <2>5. SearchAhead'
    BY <1>1, <1>14, MoveIsAhead DEF MoveWrite, EnqueueType, SearchAhead
  <2>6. NoneStale'
    BY <1>1, <1>14, Zenon DEF MoveWrite, EnqueueType, NoneStale
  <2> QED
    BY <2>1, <2>2, <2>3, <2>4, <2>5, <2>6, Zenon DEF Calm
<1>15. ASSUME NEW e \in Emitter, MoveRemove(e) PROVE Calm'
  <2>1. NobodyGone'
    BY <1>1, <1>15, Zenon DEF MoveRemove, EnqueueType, NobodyGone
  <2>2. WriterHolds'
    BY <1>1, <1>15, Zenon DEF MoveRemove, EnqueueType, WriterHolds
  <2>3. ItemHolds'
    BY <1>1, <1>15, TailIsAhead, CopyIsAhead
       DEF MoveRemove, EnqueueType, ItemHolds, MovesForward
  <2>4. MovesForward'
    BY <1>1, <1>15, SMTT(60), SMTT(60), SMTT(60) DEF MoveRemove, EnqueueType, MovesForward
  <2>5. SearchAhead'
    BY <1>1, <1>15, TailIsAhead, SMTT(30), SMTT(30), SMTT(30) DEF MoveRemove, EnqueueType, SearchAhead, MovesForward
  <2>6. NoneStale'
    BY <1>1, <1>15, Zenon DEF MoveRemove, EnqueueType, NoneStale
  <2> QED
    BY <2>1, <2>2, <2>3, <2>4, <2>5, <2>6, Zenon DEF Calm
<1>16. ASSUME NEW e \in Emitter, CleanupItem(e) PROVE Calm'
  BY <1>1, <1>16, Zenon DEF CleanupItem, NobodyGone
<1>17. CASE Age
  <2>1. NobodyGone'
    BY <1>1, <1>17, Zenon DEF Age, EnqueueType, NobodyGone
  <2>2. WriterHolds'
    BY <1>1, <1>17, Zenon DEF Age, EnqueueType, WriterHolds
  <2>3. ItemHolds'
    BY <1>1, <1>17, Zenon DEF Age, EnqueueType, ItemHolds
  <2>4. MovesForward'
    BY <1>1, <1>17, Zenon DEF Age, EnqueueType, MovesForward
  <2>5. SearchAhead'
    BY <1>1, <1>17, Zenon DEF Age, EnqueueType, SearchAhead
  <2>6. NoneStale'
    BY <1>1, <1>17, Zenon DEF Age, EnqueueType, NoneStale
  <2> QED
    BY <2>1, <2>2, <2>3, <2>4, <2>5, <2>6, Zenon DEF Calm
<1>18. CASE CleanupKey \/ UNCHANGED vars
  BY <1>1, <1>18
     DEF CleanupKey, vars, Calm, NobodyGone, WriterHolds, ItemHolds, MovesForward,
         SearchAhead, NoneStale, Ahead
<1> QED
  BY <1>2, <1>3, <1>4, <1>5, <1>6, <1>7, <1>8, <1>9, <1>10,
     <1>11, <1>12, <1>13, <1>14, <1>15, <1>16, <1>17, <1>18, Zenon
     DEF Next, Emit

-----------------------------------------------------------------------------
LEMMA DurableInit == Init => DurableInv /\ OnceInv
<1> SUFFICES ASSUME Init PROVE DurableInv /\ OnceInv
  OBVIOUS
<1>1. EnqueueType
  <2>1. place \in [Emitter -> CopyPlaces]
    BY PlaceTypes, Zenon DEF Init
  <2>2. pc \in [Emitter -> {"reserve"}] /\ seen \in [Emitter -> Emitter]
    BY Zenon DEF Init
  <2>3. probe \in [Emitter -> 1..4] /\ late \in [Emitter -> BOOLEAN]
    BY DEF Init
  <2> QED
    BY <2>1, <2>2, <2>3, Zenon DEF Init, EnqueueType
<1>2. CopiesAreWritten /\ ReportedIsDurable /\ NoOrphanMarker
  BY Zenon DEF Init, CopiesAreWritten, ReportedIsDurable, NoOrphanMarker
<1>3. MovesForward
  BY Lengths DEF Init, MovesForward
<1>4. NobodyGone /\ WriterHolds /\ ItemHolds /\ SearchAhead /\ NoneStale
  BY Zenon DEF Init, NobodyGone, WriterHolds, ItemHolds, SearchAhead, NoneStale
<1> QED
  BY <1>1, <1>2, <1>3, <1>4, Zenon DEF DurableInv, OnceInv, Calm

LEMMA OnceStep ==
  ASSUME DurableInv, OnceInv, [Next]_vars
  PROVE  OnceInv'
<1>1. irregular => irregular'
  BY Zenon DEF Next, vars, Emit, Reserve, ReserveExists, WriteMarker, WriteItem, Fail, ReadMarker,
         itemExists, Poll, StatMarker, RemoveStale, Expire, Kill, MoveWrite, MoveRemove,
         CleanupItem, Age, CleanupKey, history, spool
<1> QED
  BY <1>1, CalmStep, Zenon DEF OnceInv

\* emit reports an id only after the item has reached the spool.
THEOREM ReportIsDurable == Spec => []ReportedIsDurable
<1>1. DurableInv => ReportedIsDurable
  BY Zenon DEF DurableInv
<1> QED
  BY <1>1, DurableInit, DurableStep, PTL DEF Spec

\* An emit that fails gives its marker back.
THEOREM NoMarkerIsOrphaned == Spec => []NoOrphanMarker
<1>1. DurableInv => NoOrphanMarker
  BY Zenon DEF DurableInv
<1> QED
  BY <1>1, DurableInit, DurableStep, PTL DEF Spec

\* Concurrent emitters of one key write one item, as long as none is killed or
\* suspended and the item only moves forward.
THEOREM OneKeyIsOneItem == Spec => []OneItemPerKey
<1>1. DurableInv /\ OnceInv => OneItemPerKey
  <2> SUFFICES ASSUME DurableInv, Calm
               PROVE  Cardinality({e \in Emitter : place[e] # <<>>}) <= 1
    BY Zenon DEF OnceInv, OneItemPerKey
  <2> DEFINE Placed == {e \in Emitter : place[e] # <<>>}
  <2>1. \A e, f \in Placed : e = f
    BY Zenon DEF DurableInv, CopiesAreWritten, Calm, ItemHolds
  <2>2. CASE Placed = {}
    BY <2>2, FS_EmptySet
  <2>3. CASE Placed # {}
    <3>1. PICK e : Placed = {e}
      BY <2>1, <2>3, Zenon
    <3> QED
      <4>1. Cardinality(Placed) = 1
        BY <3>1, FS_Singleton, Zenon
      <4> QED
        BY <4>1
  <2> QED
    BY <2>2, <2>3, Zenon
<1> QED
  BY <1>1, DurableInit, DurableStep, OnceStep, PTL DEF Spec

-----------------------------------------------------------------------------
\* The inductive invariant of Hooks.

File == [own : SUBSET Hook, other : SUBSET Entry, parses : BOOLEAN]
Runtime == [core : Core, bridged : BOOLEAN]
Kinds == {"install", "uninstall", "setup", "product", "reconcile"}
Places == {"free", "confirm", "audit", "preflight", "service", "read", "write", "receipt",
           "verify", "after"}

CommandState ==
  [pc : Places, kind : Kinds \cup {None}, rest : SUBSET Adapter,
   runtime : Runtime \cup {None}, plan : File \cup {None}, command : Hook \cup {None}]

MachineType ==
  /\ agents \subseteq Adapter /\ agents # {}
  /\ runtime \in Runtime /\ modern \in BOOLEAN

FilesType ==
  /\ file \in [agents -> File]
  /\ receipt \in [agents -> Hook \cup {None}]
  /\ claimed \in [agents -> Hook \cup {None, Gone}]
  /\ wanted \in [agents -> SUBSET Entry]

\* A command that changes an adapter knows which, and with what it goes on.
installing(s) == s.kind \in {"install", "setup", "reconcile"}

Planned(s) ==
  /\ s.plan \in File /\ s.plan.parses /\ s.command \in Hook
  /\ installing(s) => s.command \in s.plan.own
  /\ first(s.rest) \in selfEvident =>
       s.plan.own = IF installing(s) THEN {s.command} ELSE {}

CommandOK(s) ==
  /\ s \in CommandState
  /\ s.pc # "free" /\ s.kind # "reconcile" =>
       s.kind \in Kinds /\ s.rest \subseteq agents /\ s.runtime \in Runtime
  /\ s.pc = "confirm" => s.kind = "setup"
  /\ s.pc \in {"preflight", "service"} => s.kind = "product" /\ s.rest # {}
  /\ s.pc \in {"audit", "after"} => s.kind = "reconcile"
  /\ s.pc = "verify" => s.kind = "setup"
  /\ s.pc \in {"read", "write", "receipt"} =>
       s.kind \in Kinds /\ s.runtime \in Runtime /\ first(s.rest) \in agents
  /\ s.pc \in {"write", "receipt"} => Planned(s)

\* While the receipt of an adapter tells the truth, one command at a time changes
\* it...
OneWorker(a) == \A p, q \in Process : working(p, a) /\ working(q, a) => p = q

\* ...its file holds at most the hook of the receipt, except that a command has
\* replaced the file and not yet the receipt...
ReceiptTells(a) ==
  (\A p \in Process : working(p, a) => at(p, "write")) => file[a].own \subseteq {receipt[a]}

\* ...and what a command plans to leave is its own hook, or no hook.  codex
\* without a bridge keeps the hook of the receipt beside it.
leaves(s) == s.plan.own = IF installing(s) THEN {s.command} ELSE {}

leavesBoth(s, r) ==
  /\ first(s.rest) = "codex" /\ installing(s) /\ ~s.runtime.bridged
  /\ r \in Hook \ {s.command}
  /\ s.plan.own = {r, s.command}

PlanTells(a) ==
  \A p \in Process :
    working(p, a) =>
      /\ at(p, "write") => leaves(process[p]) \/ leavesBoth(process[p], receipt[a])
      /\ at(p, "receipt") =>
           /\ leaves(process[p]) /\ file[a].own \subseteq process[p].plan.own
           /\ claimed[a] = None

Truthful(a) == OneWorker(a) /\ ReceiptTells(a) /\ PlanTells(a)

\* What the last command reported is what the file holds.
ClaimTells(a) ==
  /\ claimed[a] \in Hook =>
       /\ a \in selfEvident \/ a \notin exposed => file[a].own = {claimed[a]}
       /\ a \notin exposed => file[a].parses
  /\ claimed[a] = Gone /\ (a \in selfEvident \/ a \notin exposed) => file[a].own = {}

\* The other entries are as the agent wrote them last, in the file and in every
\* plan, unless it wrote in between.
OthersKept(a) ==
  /\ file[a].other = wanted[a]
  /\ \A p \in Process : working(p, a) /\ at(p, "write") => process[p].plan.other = wanted[a]

AdapterOK(a) ==
  /\ a \notin exposed => Truthful(a)
  /\ ClaimTells(a)
  /\ a \notin clobbered => OthersKept(a)

HooksInv ==
  /\ MachineType /\ FilesType
  /\ process \in [Process -> CommandState] /\ \A p \in Process : CommandOK(process[p])
  /\ \A a \in agents : AdapterOK(a)

-----------------------------------------------------------------------------
\* The operators.

\* The order of the list finds an adapter in every set that has one.
LEMMA FirstIsIn ==
  ASSUME NEW S \in SUBSET Adapter, S # {}
  PROVE  first(S) \in S
<1> DEFINE ids == supportedAdapterIDs
           Is(i) == ids[i] \in S /\ \A j \in 1..(i - 1) : ids[j] \notin S
<1>1. DOMAIN ids = 1..7
  BY DEF supportedAdapterIDs
<1>2. \E i \in 1..7 : ids[i] \in S
  BY <1>1, Zenon DEF Adapter
<1> HIDE DEF ids
<1>3. \E i \in 1..7 : Is(i)
  <2>1. CASE ids[1] \in S
    BY <2>1
  <2>2. CASE ids[1] \notin S /\ ids[2] \in S
    BY <2>2
  <2>3. CASE ids[1] \notin S /\ ids[2] \notin S /\ ids[3] \in S
    BY <2>3
  <2>4. CASE ids[1] \notin S /\ ids[2] \notin S /\ ids[3] \notin S /\ ids[4] \in S
    BY <2>4
  <2>5. CASE /\ ids[1] \notin S /\ ids[2] \notin S /\ ids[3] \notin S /\ ids[4] \notin S
             /\ ids[5] \in S
    BY <2>5
  <2>6. CASE /\ ids[1] \notin S /\ ids[2] \notin S /\ ids[3] \notin S /\ ids[4] \notin S
             /\ ids[5] \notin S /\ ids[6] \in S
    BY <2>6
  <2>7. CASE /\ ids[1] \notin S /\ ids[2] \notin S /\ ids[3] \notin S /\ ids[4] \notin S
             /\ ids[5] \notin S /\ ids[6] \notin S
    BY <1>2, <2>7
  <2> QED
    BY <2>1, <2>2, <2>3, <2>4, <2>5, <2>6, <2>7, Zenon
<1>4. Is(CHOOSE i \in DOMAIN ids : Is(i))
  BY <1>1, <1>3, Zenon
<1> QED
  BY <1>4, Zenon DEF first, ids

\* The command to install is a hook.
LEMMA Invocation ==
  ASSUME NEW a \in Adapter, NEW r \in Runtime
  PROVE  resolveHookInvocation(a, r) \in Hook
BY Zenon DEF resolveHookInvocation, form, Hook, Runtime

\* What Install leaves: the hook among others, and alone for the adapters that
\* know their hooks.
LEMMA Installed ==
  ASSUME NEW a \in Adapter, NEW own \in SUBSET Hook, NEW c \in Hook, NEW bridged \in BOOLEAN,
         receipt[a] \in Hook \cup {None}
  PROVE  /\ Install(a, own, c, bridged) \in SUBSET Hook
         /\ c \in Install(a, own, c, bridged)
         /\ a \in selfEvident => Install(a, own, c, bridged) = {c}
<1> DEFINE plan == Install(a, own, c, bridged)
<1>1. CASE a = "codex"
  <2>1. plan = codexInstall(own, receipt[a], c, bridged)
    BY <1>1, Zenon DEF Install
  <2> QED
    BY <1>1, <2>1, Zenon DEF codexInstall, mergeCodexHooks, removeCodexHooks, selfEvident
<1>2. CASE a = "claude-code"
  <2>1. plan = claudeInstall(own, receipt[a], c)
    BY <1>2, Zenon DEF Install
  <2> QED
    BY <1>2, <2>1, Zenon DEF claudeInstall, mergeClaudeHooks, removeClaudeHooks, selfEvident
<1>3. CASE a = "kimi-code"
  BY <1>3, Zenon DEF Install, kimiInstall, installKimiRegion
<1>4. CASE a = "opencode"
  BY <1>4, Zenon DEF Install, opencodeInstall
<1>5. CASE a = "qoder"
  <2>1. plan = qoderInstall(own, receipt[a], c)
    BY <1>5, Zenon DEF Install
  <2> QED
    BY <1>5, <2>1, Zenon DEF qoderInstall, mergeQoderHooks, removeQoderHooks, selfEvident
<1>6. CASE a = "qoder-work"
  BY <1>6, Zenon DEF Install, qoderWorkInstall, mergeShellHooks, removeShellHooks, removeManagedShellHooks
<1>7. CASE a = "trae"
  BY <1>7, Zenon DEF Install, traeInstall, mergeShellHooks, removeShellHooks, removeManagedShellHooks
<1> QED
  BY <1>1, <1>2, <1>3, <1>4, <1>5, <1>6, <1>7 DEF Adapter, supportedAdapterIDs

\* Where the file holds at most the hook of the receipt, Install leaves its own
\* hook alone; codex without a bridge leaves both.
LEMMA InstalledAlone ==
  ASSUME NEW a \in Adapter, NEW own \in SUBSET Hook, NEW c \in Hook, NEW bridged \in BOOLEAN,
         receipt[a] \in Hook \cup {None}, own \subseteq {receipt[a]}
  PROVE  \/ Install(a, own, c, bridged) = {c}
         \/ /\ a = "codex" /\ ~bridged /\ receipt[a] \in Hook \ {c}
            /\ Install(a, own, c, bridged) = {receipt[a], c}
<1> USE HooksAssumption DEF HooksAssumption
<1>1. CASE a = "codex"
  <2>1. Install(a, own, c, bridged) = codexInstall(own, receipt[a], c, bridged)
    BY <1>1, Zenon DEF Install
  <2>2. own = {} \/ (own = {receipt[a]} /\ receipt[a] \in Hook)
    <3>1. CASE receipt[a] \in own
      BY <3>1, Zenon
    <3>2. CASE receipt[a] \notin own
      BY <3>2, Zenon
    <3> QED
      BY <3>1, <3>2, Zenon
  <2>3. CASE bridged
    BY <2>1, <2>2, <2>3, Zenon DEF codexInstall, mergeCodexHooks, removeCodexHooks
  <2>4. CASE ~bridged
    BY <1>1, <2>1, <2>2, <2>4, Zenon DEF codexInstall, mergeCodexHooks
  <2> QED
    BY <2>3, <2>4, Zenon
<1>2. CASE a = "claude-code"
  <2>1. Install(a, own, c, bridged) = claudeInstall(own, receipt[a], c)
    BY <1>2, Zenon DEF Install
  <2> QED
    BY <2>1 DEF claudeInstall, mergeClaudeHooks, removeClaudeHooks
<1>3. CASE a = "qoder"
  <2>1. Install(a, own, c, bridged) = qoderInstall(own, receipt[a], c)
    BY <1>3, Zenon DEF Install
  <2> QED
    BY <2>1, Zenon DEF qoderInstall, mergeQoderHooks, removeQoderHooks
<1>4. CASE a \in selfEvident
  BY <1>4, Installed
<1> QED
  BY <1>1, <1>2, <1>3, <1>4 DEF Adapter, supportedAdapterIDs, selfEvident

\* What Uninstall leaves: nothing of the adapters that know their hooks, nor
\* where the file holds at most the hook of the receipt.
LEMMA Uninstalled ==
  ASSUME NEW a \in Adapter, NEW own \in SUBSET Hook, NEW c \in Hook,
         receipt[a] \in Hook \cup {None}
  PROVE  /\ Uninstall(a, own, c) \in SUBSET Hook
         /\ a \in selfEvident \/ own \subseteq {receipt[a]} => Uninstall(a, own, c) = {}
<1> USE HooksAssumption DEF HooksAssumption
<1>1. CASE a = "codex"
  <2>1. Uninstall(a, own, c) = codexUninstall(own, receipt[a], c)
    BY <1>1, Zenon DEF Uninstall
  <2> QED
    BY <1>1, <2>1, Zenon DEF codexUninstall, removeCodexHooks, receiptOr, selfEvident
<1>2. CASE a = "claude-code"
  <2>1. Uninstall(a, own, c) = claudeUninstall(own, receipt[a], c)
    BY <1>2, Zenon DEF Uninstall
  <2> QED
    BY <1>2, <2>1, Zenon DEF claudeUninstall, removeClaudeHooks, receiptOr, selfEvident
<1>3. CASE a = "kimi-code"
  BY <1>3, Zenon DEF Uninstall, kimiUninstall
<1>4. CASE a = "opencode"
  BY <1>4, Zenon DEF Uninstall, opencodeUninstall
<1>5. CASE a = "qoder"
  <2>1. Uninstall(a, own, c) = qoderUninstall(own, receipt[a], c)
    BY <1>5, Zenon DEF Uninstall
  <2> QED
    BY <1>5, <2>1, Zenon DEF qoderUninstall, removeQoderHooks, receiptOr, selfEvident
<1>6. CASE a = "qoder-work"
  BY <1>6, Zenon DEF Uninstall, qoderWorkUninstall, removeManagedShellHooks
<1>7. CASE a = "trae"
  BY <1>7, Zenon DEF Uninstall, traeUninstall, removeManagedShellHooks
<1> QED
  BY <1>1, <1>2, <1>3, <1>4, <1>5, <1>6, <1>7 DEF Adapter, supportedAdapterIDs

-----------------------------------------------------------------------------
\* The initial state: no hook and no command.
LEMMA InitHooks == HooksInit => HooksInv
<1> SUFFICES ASSUME HooksInit PROVE HooksInv
  OBVIOUS
<1>1. MachineType
  <2>1. agents \subseteq Adapter /\ Cardinality(agents) = Pair /\ Pair # 0
    BY HooksAssumption, Zenon DEF HooksInit, HooksAssumption
  <2>2. agents # {}
    <3> SUFFICES ASSUME agents = {} PROVE FALSE
      OBVIOUS
    <3>1. Cardinality({}) = 0
      BY FS_EmptySet, Zenon
    <3> QED
      BY <2>1, <3>1, Zenon
  <2>3. modern \in BOOLEAN
    <3>1. modern \in {FALSE, "claude-code" \in agents}
      BY Zenon DEF HooksInit
    <3>2. {FALSE, "claude-code" \in agents} \subseteq BOOLEAN
      OBVIOUS
    <3> QED
      BY <3>1, <3>2, Zenon
  <2> QED
    BY <2>1, <2>2, <2>3, Zenon DEF HooksInit, MachineType, Runtime
<1>2. FilesType
  BY Zenon DEF HooksInit, FilesType, File
<1>3. \A p \in Process : process[p] = NoProcess
  BY Zenon DEF HooksInit
<1>4. NoProcess \in CommandState /\ NoProcess.pc = "free" /\ NoProcess.kind = None
  BY Zenon DEF NoProcess, command, CommandState, Places
<1>5. CommandOK(NoProcess)
  BY <1>4, Zenon DEF CommandOK
<1>6. process \in [Process -> CommandState] /\ \A p \in Process : CommandOK(process[p])
  BY <1>3, <1>4, <1>5, Zenon DEF HooksInit
<1>7. \A a \in agents, p \in Process : ~working(p, a)
  BY <1>3, <1>4, Zenon DEF working
<1>8. \A a \in agents : /\ file[a].own = {} /\ file[a].other = wanted[a]
                        /\ claimed[a] = None
  BY Zenon DEF HooksInit
<1>9. ASSUME NEW a \in agents PROVE AdapterOK(a)
  <2>1. Truthful(a)
    BY <1>7, <1>8, Zenon DEF Truthful, OneWorker, ReceiptTells, PlanTells
  <2>2. ClaimTells(a)
    BY <1>8, HooksAssumption, Zenon DEF ClaimTells, HooksAssumption
  <2>3. OthersKept(a)
    BY <1>7, <1>8, Zenon DEF OthersKept
  <2> QED
    BY <2>1, <2>2, <2>3, Zenon DEF AdapterOK
<1> QED
  BY <1>1, <1>2, <1>6, <1>9, Zenon DEF HooksInv

-----------------------------------------------------------------------------
\* The commands.

\* One command changes, the others stay.
LEMMA OneCommand ==
  ASSUME HooksInv, NEW p \in Process, NEW s, CommandOK(s),
         process' = [process EXCEPT ![p] = s], agents' = agents
  PROVE  /\ process' \in [Process -> CommandState]
         /\ (\A q \in Process : CommandOK(process[q]))'
         /\ process'[p] = s /\ \A q \in Process : q # p => process'[q] = process[q]
<1>1. process'[p] = s /\ \A q \in Process : q # p => process'[q] = process[q]
  BY Zenon DEF HooksInv
<1>2. s \in CommandState
  BY Zenon DEF CommandOK
<1>3. process' \in [Process -> CommandState]
  BY <1>2, Zenon DEF HooksInv
<1>4. \A q \in Process : CommandOK(process'[q])
  BY <1>1, Zenon DEF HooksInv
<1>5. ASSUME NEW q \in Process PROVE CommandOK(process[q])'
  <2>1. CommandOK(process'[q])
    BY <1>4, Zenon
  <2> QED
    BY <2>1, Zenon DEF CommandOK, Planned, installing
<1> QED
  BY <1>1, <1>3, <1>5, Zenon

\* An adapter that one command neither works on nor has worked on.
LEMMA OtherAdapter ==
  ASSUME NEW p \in Process, NEW b, AdapterOK(b),
         \A q \in Process : q # p => process'[q] = process[q],
         ~working(p, b), ~working(p, b)',
         file'[b] = file[b], receipt'[b] = receipt[b], claimed'[b] = claimed[b],
         wanted'[b] = wanted[b], b \in exposed => b \in exposed',
         b \in clobbered => b \in clobbered'
  PROVE  AdapterOK(b)'
<1>1. ASSUME NEW q \in Process
      PROVE  /\ working(q, b)' = working(q, b)
             /\ working(q, b) => /\ process'[q] = process[q]
                                 /\ \A where : at(q, where)' = at(q, where)
  <2>1. CASE q = p
    BY <2>1, Zenon DEF working
  <2>2. CASE q # p
    BY <2>2, Zenon DEF working, at, adapterOf
  <2> QED
    BY <2>1, <2>2, Zenon
<1>2. ASSUME b \notin exposed' PROVE Truthful(b)'
  <2>1. OneWorker(b) /\ ReceiptTells(b) /\ PlanTells(b)
    BY <1>2, Zenon DEF AdapterOK, Truthful
  <2>2. OneWorker(b)'
    BY <1>1, <2>1, Zenon DEF OneWorker
  <2>3. ReceiptTells(b)'
    BY <1>1, <2>1, Zenon DEF ReceiptTells
  <2>4. PlanTells(b)'
    <3> SUFFICES ASSUME NEW q \in Process, working(q, b)'
                 PROVE  /\ at(q, "write")' =>
                             (leaves(process[q]) \/ leavesBoth(process[q], receipt[b]))'
                        /\ at(q, "receipt")' =>
                             (/\ leaves(process[q]) /\ file[b].own \subseteq process[q].plan.own
                              /\ claimed[b] = None)'
      BY Zenon DEF PlanTells
    <3>1. /\ working(q, b) /\ process'[q] = process[q]
          /\ \A where : at(q, where)' = at(q, where)
      BY <1>1, Zenon
    <3>2. /\ at(q, "write") => leaves(process[q]) \/ leavesBoth(process[q], receipt[b])
          /\ at(q, "receipt") =>
               /\ leaves(process[q]) /\ file[b].own \subseteq process[q].plan.own
               /\ claimed[b] = None
      BY <2>1, <3>1, Zenon DEF PlanTells
    <3> QED
      BY <3>1, <3>2, Zenon DEF leaves, leavesBoth, installing
  <2> QED
    BY <2>2, <2>3, <2>4, Zenon DEF Truthful
<1>3. ClaimTells(b)'
  BY Zenon DEF AdapterOK, ClaimTells
<1>4. b \notin clobbered' => OthersKept(b)'
  BY <1>1, Zenon DEF AdapterOK, OthersKept
<1> QED
  BY <1>2, <1>3, <1>4, Zenon DEF AdapterOK

\* A command that goes on to something else than changing an adapter: the
\* receipt still tells the truth if the file was not replaced, or the hooks were
\* to go.
LEMMA Leaves ==
  ASSUME HooksInv, NEW p \in Process, NEW s, CommandOK(s),
         s.pc \notin {"write", "receipt"},
         process' = [process EXCEPT ![p] = s],
         UNCHANGED <<machine, file, receipt, wanted, clobbered>>,
         exposed \subseteq exposed',
         at(p, "receipt") => adapterOf(p) \in exposed' \/ ~installs(p),
         claimed' \in [agents -> Hook \cup {None, Gone}],
         \A b \in agents :
           \/ claimed'[b] = claimed[b]
           \/ ClaimTells(b)' /\ (b \in exposed' \/ \A q \in Process : ~working(q, b)')
  PROVE  HooksInv'
<1>1. agents' = agents /\ MachineType' /\ FilesType'
  BY Zenon DEF HooksInv, machine, MachineType, FilesType
<1>2. /\ process' \in [Process -> CommandState]
      /\ (\A q \in Process : CommandOK(process[q]))'
      /\ process'[p] = s /\ \A q \in Process : q # p => process'[q] = process[q]
  BY <1>1, OneCommand, Zenon
<1>3. ASSUME NEW b \in agents, NEW q \in Process, working(q, b)'
      PROVE  /\ q # p /\ working(q, b) /\ process'[q] = process[q]
             /\ \A where : at(q, where)' = at(q, where)
  BY <1>2, <1>3, Zenon DEF working, at, adapterOf
<1>4. ASSUME NEW b \in agents PROVE AdapterOK(b)'
  <2>1. AdapterOK(b)
    BY Zenon DEF HooksInv
  <2>2. ASSUME b \notin exposed' PROVE Truthful(b)'
    <3>1. OneWorker(b) /\ ReceiptTells(b) /\ PlanTells(b)
      BY <2>1, <2>2, Zenon DEF AdapterOK, Truthful
    <3>2. OneWorker(b)'
      BY <1>3, <3>1, Zenon DEF OneWorker
    <3>3. ReceiptTells(b)'
      <4> SUFFICES ASSUME \A q \in Process : working(q, b)' => at(q, "write")'
                   PROVE  file[b].own \subseteq {receipt[b]}
        BY Zenon DEF ReceiptTells
      <4>1. \A q \in Process : q # p /\ working(q, b) => at(q, "write")
        BY <1>2, Zenon DEF working, at, adapterOf
      <4>2. CASE working(p, b) /\ at(p, "receipt")
        <5>1. ~installs(p)
          BY <2>2, <4>2, Zenon DEF working
        <5>2. leaves(process[p]) /\ file[b].own \subseteq process[p].plan.own
          BY <3>1, <4>2, Zenon DEF PlanTells
        <5> QED
          BY <5>1, <5>2, Zenon DEF leaves, installing, installs
      <4>3. CASE ~(working(p, b) /\ at(p, "receipt"))
        <5>1. \A q \in Process : working(q, b) => at(q, "write")
          BY <4>1, <4>3, Zenon DEF working, at
        <5> QED
          BY <3>1, <5>1, Zenon DEF ReceiptTells
      <4> QED
        BY <4>2, <4>3, Zenon
    <3>4. PlanTells(b)'
      <4> SUFFICES ASSUME NEW q \in Process, working(q, b)'
                   PROVE  /\ at(q, "write")' =>
                               (leaves(process[q]) \/ leavesBoth(process[q], receipt[b]))'
                          /\ at(q, "receipt")' =>
                               (/\ leaves(process[q]) /\ file[b].own \subseteq process[q].plan.own
                                /\ claimed[b] = None)'
        BY Zenon DEF PlanTells
      <4>1. /\ working(q, b) /\ process'[q] = process[q]
            /\ \A where : at(q, where)' = at(q, where)
        BY <1>3, Zenon
      <4>2. claimed'[b] = claimed[b]
        BY <2>2, Zenon
      <4>3. /\ at(q, "write") => leaves(process[q]) \/ leavesBoth(process[q], receipt[b])
            /\ at(q, "receipt") =>
                 /\ leaves(process[q]) /\ file[b].own \subseteq process[q].plan.own
                 /\ claimed[b] = None
        BY <3>1, <4>1, Zenon DEF PlanTells
      <4> QED
        BY <4>1, <4>2, <4>3, Zenon DEF leaves, leavesBoth, installing
    <3> QED
      BY <3>2, <3>3, <3>4, Zenon DEF Truthful
  <2>3. ClaimTells(b)'
    <3>1. CASE claimed'[b] = claimed[b]
      <4>1. ClaimTells(b)
        BY <2>1, Zenon DEF AdapterOK
      <4>2. file' = file /\ (b \in exposed => b \in exposed')
        OBVIOUS
      <4> QED
        BY <3>1, <4>1, <4>2, Zenon DEF ClaimTells
    <3> QED
      BY <3>1, Zenon
  <2>4. b \notin clobbered' => OthersKept(b)'
    BY <1>3, <2>1, Zenon DEF AdapterOK, OthersKept
  <2> QED
    BY <2>2, <2>3, <2>4, Zenon DEF AdapterOK
<1> QED
  BY <1>1, <1>2, <1>4, Zenon DEF HooksInv

LEMMA Quits ==
  ASSUME HooksInv, NEW p \in Process, NEW s, CommandOK(s),
         s.pc \notin {"write", "receipt"},
         process' = [process EXCEPT ![p] = s],
         UNCHANGED <<machine, file, receipt, claimed, wanted, clobbered>>,
         exposed \subseteq exposed',
         at(p, "receipt") => adapterOf(p) \in exposed' \/ ~installs(p)
  PROVE  HooksInv'
<1>1. claimed' \in [agents -> Hook \cup {None, Gone}]
  BY Zenon DEF HooksInv, FilesType
<1> QED
  BY <1>1, Leaves, Zenon

\* No command.
LEMMA Free == CommandOK(NoProcess) /\ NoProcess.pc = "free"
<1>1. NoProcess \in CommandState /\ NoProcess.pc = "free"
  BY Zenon DEF NoProcess, command, CommandState, Places
<1> QED
  BY <1>1, Zenon DEF CommandOK

\* A command that begins: one adapter, all agents, or the audited ones.
LEMMA Begun ==
  ASSUME HooksInv, NEW kind \in Kinds, NEW where \in {"read", "confirm", "preflight"},
         NEW rest \in SUBSET agents, rest # {}, kind # "reconcile",
         where = "confirm" => kind = "setup", where = "preflight" => kind = "product"
  PROVE  CommandOK(command(where, kind, rest, runtime))
<1>1. command(where, kind, rest, runtime) \in CommandState
  BY Zenon DEF HooksInv, MachineType, CommandState, Places, command
<1>2. first(rest) \in agents /\ runtime \in Runtime
  BY FirstIsIn, Zenon DEF HooksInv, MachineType
<1> QED
  BY <1>1, <1>2, Zenon DEF CommandOK, command

\* A command that only moves on.
LEMMA Moved ==
  ASSUME HooksInv, NEW p \in Process, NEW where \in {"read", "service"},
         process[p].pc \in {"confirm", "preflight", "service"}, process[p].rest # {},
         where = "service" => process[p].pc = "preflight"
  PROVE  CommandOK([process[p] EXCEPT !.pc = where])
<1> DEFINE s == [process[p] EXCEPT !.pc = where]
<1>1. CommandOK(process[p])
  BY Zenon DEF HooksInv
<1>2. /\ s \in CommandState /\ s.pc = where /\ s.kind = process[p].kind
      /\ s.rest = process[p].rest /\ s.runtime = process[p].runtime
  BY <1>1, Zenon DEF CommandOK, CommandState, Places
<1>3. s.kind \in Kinds \ {"reconcile"} /\ s.rest \subseteq agents /\ s.runtime \in Runtime
  BY <1>1, <1>2, Zenon DEF CommandOK, Kinds
<1>4. first(s.rest) \in agents
  BY <1>2, <1>3, FirstIsIn, Zenon DEF HooksInv, MachineType
<1> QED
  BY <1>1, <1>2, <1>3, <1>4, Zenon DEF CommandOK

\* A command goes on with its next adapter, or ends.
LEMMA Advanced ==
  ASSUME HooksInv, NEW p \in Process, process[p].pc # "free", process[p].kind \in Kinds
  PROVE  CommandOK(advanced(p)) /\ advanced(p).pc \notin {"write", "receipt"}
<1> DEFINE rest == process[p].rest \ {adapterOf(p)}
           kind == process[p].kind
           Goes(where) == [process[p] EXCEPT !.pc = where, !.rest = rest, !.plan = None,
                                             !.command = None]
<1>1. CommandOK(process[p])
  BY Zenon DEF HooksInv
<1>2. ASSUME NEW where \in {"confirm", "audit", "read"}
      PROVE  /\ Goes(where) \in CommandState /\ Goes(where).pc = where
             /\ Goes(where).kind = kind /\ Goes(where).rest = rest
             /\ Goes(where).runtime = process[p].runtime
  BY <1>1, Zenon DEF CommandOK, CommandState, Places
<1>3. kind # "reconcile" => rest \subseteq agents /\ process[p].runtime \in Runtime
  BY <1>1, Zenon DEF CommandOK
<1>4. CASE kind = "setup"
  <2>1. advanced(p) = Goes("confirm")
    BY <1>4, Zenon DEF advanced
  <2> HIDE DEF Goes, rest
  <2> QED
    BY <1>2, <1>3, <1>4, <2>1, Zenon DEF CommandOK
<1>5. CASE kind # "setup" /\ rest = {}
  BY <1>5, Free, Zenon DEF advanced
<1>6. CASE kind = "reconcile" /\ rest # {}
  <2>1. advanced(p) = Goes("audit")
    BY <1>6, Zenon DEF advanced
  <2> HIDE DEF Goes, rest
  <2> QED
    BY <1>2, <1>6, <2>1, Zenon DEF CommandOK
<1>7. CASE kind \notin {"setup", "reconcile"} /\ rest # {}
  <2>1. advanced(p) = Goes("read")
    BY <1>7, Zenon DEF advanced
  <2>2. first(rest) \in agents
    BY <1>3, <1>7, FirstIsIn, Zenon DEF HooksInv, MachineType
  <2> HIDE DEF Goes, rest
  <2> QED
    BY <1>2, <1>3, <1>7, <2>1, <2>2, Zenon DEF CommandOK
<1> QED
  BY <1>4, <1>5, <1>6, <1>7, Zenon

\* A command is done with an adapter.
LEMMA Done ==
  ASSUME HooksInv, NEW p \in Process, process[p].pc \in {"read", "receipt"}, NEW c \in Hook
  PROVE  CommandOK(done(p, c)) /\ done(p, c).pc \notin {"write", "receipt"}
<1>1. CommandOK(process[p]) /\ process[p].kind \in Kinds
  BY Zenon DEF HooksInv, CommandOK
<1>2. CASE process[p].kind = "setup"
  <2> DEFINE s == [process[p] EXCEPT !.pc = "verify", !.command = c, !.plan = None]
  <2>1. done(p, c) = s
    BY <1>2, Zenon DEF done
  <2>2. /\ s \in CommandState /\ s.pc = "verify" /\ s.kind = "setup"
        /\ s.rest = process[p].rest /\ s.runtime = process[p].runtime
    BY <1>1, <1>2, Zenon DEF CommandOK, CommandState, Places
  <2>3. s.rest \subseteq agents /\ s.runtime \in Runtime
    BY <1>1, <1>2, <2>2, Zenon DEF CommandOK
  <2> HIDE DEF s
  <2> QED
    BY <2>1, <2>2, <2>3, Zenon DEF CommandOK, Kinds
<1>3. CASE process[p].kind = "reconcile"
  <2> DEFINE s == command("after", "reconcile", process[p].rest, None)
  <2>1. done(p, c) = s
    BY <1>3, Zenon DEF done
  <2>2. s \in CommandState
    BY <1>1, Zenon DEF CommandOK, CommandState, Places, Kinds, command
  <2> QED
    BY <2>1, <2>2 DEF CommandOK, command
<1>4. CASE process[p].kind \notin {"setup", "reconcile"}
  BY <1>1, <1>4, Advanced, Zenon DEF done
<1> QED
  BY <1>2, <1>3, <1>4, Zenon

\* Steps that change no adapter: they begin a command, move it on or end it.
LEMMA BeginStep ==
  ASSUME HooksInv, NEW p \in Process,
         \/ \E a \in agents : AdapterInstall(p, a) \/ AdapterUninstall(p, a)
         \/ Setup(p) \/ ProductUninstall(p) \/ Reconcile(p)
  PROVE  HooksInv'
<1>1. at(p, "free") /\ UNCHANGED <<machine, file, receipt, hooksHistory>>
  BY Zenon DEF AdapterInstall, AdapterUninstall, Setup, ProductUninstall, Reconcile, begins
<1>2. /\ UNCHANGED <<machine, file, receipt, claimed, wanted, clobbered>>
      /\ exposed \subseteq exposed' /\ ~at(p, "receipt")
  BY <1>1, Zenon DEF hooksHistory, at
<1>3. agents \subseteq Adapter /\ agents # {}
  BY Zenon DEF HooksInv, MachineType
<1>4. ASSUME NEW s, CommandOK(s), s.pc \notin {"write", "receipt"},
             process' = [process EXCEPT ![p] = s]
      PROVE  HooksInv'
  BY <1>2, <1>4, Quits, Zenon
<1>5. CASE \E a \in agents : AdapterInstall(p, a) \/ AdapterUninstall(p, a)
  <2>1. PICK a \in agents, kind \in {"install", "uninstall"} :
          process' = [process EXCEPT ![p] = command("read", kind, {a}, runtime)]
    BY <1>5, Zenon DEF AdapterInstall, AdapterUninstall, begins
  <2>2. CommandOK(command("read", kind, {a}, runtime))
    BY Begun, Zenon DEF Kinds
  <2>3. command("read", kind, {a}, runtime).pc = "read"
    BY Zenon DEF command
  <2> QED
    BY <1>4, <2>1, <2>2, <2>3, Zenon
<1>6. CASE Setup(p)
  <2>1. process' = [process EXCEPT ![p] = command("confirm", "setup", agents, runtime)]
    BY <1>6, Zenon DEF Setup, begins
  <2>2. CommandOK(command("confirm", "setup", agents, runtime))
    BY <1>3, Begun, Zenon DEF Kinds
  <2>3. command("confirm", "setup", agents, runtime).pc = "confirm"
    BY Zenon DEF command
  <2> QED
    BY <1>4, <2>1, <2>2, <2>3, Zenon
<1>7. CASE ProductUninstall(p)
  <2>1. process' = [process EXCEPT ![p] = command("preflight", "product", agents, runtime)]
    BY <1>7, Zenon DEF ProductUninstall, begins
  <2>2. CommandOK(command("preflight", "product", agents, runtime))
    BY <1>3, Begun, Zenon DEF Kinds
  <2>3. command("preflight", "product", agents, runtime).pc = "preflight"
    BY Zenon DEF command
  <2> QED
    BY <1>4, <2>1, <2>2, <2>3, Zenon
<1>8. CASE Reconcile(p)
  <2>1. PICK ids \in {hookAuditAdapterIDs} \cup {{a} : a \in hookAuditAdapterIDs} :
          process' = [process EXCEPT ![p] = command("audit", "reconcile", ids, None)]
    BY <1>8, Zenon DEF Reconcile
  <2>2. ids \subseteq Adapter
    BY DEF hookAuditAdapterIDs, Adapter, supportedAdapterIDs
  <2>3. command("audit", "reconcile", ids, None) \in CommandState
    BY <2>2, Zenon DEF command, CommandState, Places, Kinds
  <2>4. CommandOK(command("audit", "reconcile", ids, None))
    BY <2>3, Zenon DEF CommandOK, command
  <2>5. command("audit", "reconcile", ids, None).pc = "audit"
    BY Zenon DEF command
  <2> QED
    BY <1>4, <2>1, <2>4, <2>5, Zenon
<1> QED
  BY <1>5, <1>6, <1>7, <1>8, Zenon

LEMMA IdleStep ==
  ASSUME HooksInv, NEW p \in Process,
         \/ Confirm(p) \/ AuditBefore(p) \/ AuditAfter(p) \/ Preflight(p)
         \/ UninstallService(p) \/ SetupVerify(p) \/ KillCommand(p)
  PROVE  HooksInv'
<1>1. CommandOK(process[p])
  BY Zenon DEF HooksInv
<1>2. UNCHANGED <<machine, file, receipt, claimed, wanted, clobbered>> /\ exposed \subseteq exposed'
  <2>1. UNCHANGED <<machine, file, receipt, hooksHistory>> \/ KillCommand(p)
    BY Zenon DEF Confirm, AuditBefore, AuditAfter, Preflight, UninstallService, SetupVerify
  <2> QED
    BY <2>1, Zenon DEF hooksHistory, KillCommand
<1>3. at(p, "receipt") => adapterOf(p) \in exposed' \/ ~installs(p)
  BY Zenon DEF Confirm, AuditBefore, AuditAfter, Preflight, UninstallService, SetupVerify, KillCommand,
         at
<1>4. ASSUME NEW s, CommandOK(s), s.pc \notin {"write", "receipt"},
             process' = [process EXCEPT ![p] = s]
      PROVE  HooksInv'
  BY <1>2, <1>3, <1>4, Quits, Zenon
<1>5. ASSUME ends(p) PROVE HooksInv'
  BY <1>4, <1>5, Free, Zenon DEF ends
<1>6. ASSUME process' = [process EXCEPT ![p] = advanced(p)], process[p].pc # "free",
             process[p].kind \in Kinds
      PROVE  HooksInv'
  BY <1>4, <1>6, Advanced, Zenon
<1>7. ASSUME NEW where \in {"read", "service"}, goes(p, where), process[p].rest # {},
             process[p].pc \in {"confirm", "preflight", "service"},
             where = "service" => process[p].pc = "preflight"
      PROVE  HooksInv'
  <2> DEFINE s == [process[p] EXCEPT !.pc = where]
  <2>1. CommandOK(s)
    BY <1>7, Moved, Zenon
  <2>2. process' = [process EXCEPT ![p] = s]
    BY <1>7, Zenon DEF goes
  <2>3. s.pc = where
    BY <1>1, Zenon DEF CommandOK, CommandState
  <2> HIDE DEF s
  <2> QED
    BY <1>4, <2>1, <2>2, <2>3, Zenon
<1>8. CASE Confirm(p)
  <2>1. process[p].pc = "confirm" /\ process[p].kind \in Kinds
    BY <1>1, <1>8, Zenon DEF Confirm, at, CommandOK, Kinds
  <2>2. \/ ends(p)
        \/ process[p].rest # {} /\ goes(p, "read")
        \/ process' = [process EXCEPT ![p] = advanced(p)]
    BY <1>8, Zenon DEF Confirm
  <2> QED
    BY <1>5, <1>6, <1>7, <2>1, <2>2, Zenon
<1>9. CASE AuditBefore(p)
  <2> DEFINE s == [process[p] EXCEPT !.pc = "read", !.runtime = runtime]
  <2>1. CASE ends(p)
    BY <1>5, <2>1, Zenon
  <2>2. CASE readHookAuditFile(adapterOf(p)) /\ process' = [process EXCEPT ![p] = s]
    <3>1. first(process[p].rest) \in agents /\ runtime \in Runtime
      BY <2>2, Zenon DEF readHookAuditFile, adapterOf, HooksInv, MachineType
    <3>2. process[p].kind = "reconcile"
      BY <1>1, <1>9, Zenon DEF AuditBefore, at, CommandOK
    <3>3. /\ s \in CommandState /\ s.pc = "read" /\ s.kind = "reconcile"
          /\ s.rest = process[p].rest /\ s.runtime = runtime
      BY <1>1, <3>1, <3>2, Zenon DEF CommandOK, CommandState, Places
    <3>4. process' = [process EXCEPT ![p] = s]
      BY <2>2, Zenon
    <3> HIDE DEF s
    <3>5. CommandOK(s)
      BY <3>1, <3>3, Zenon DEF CommandOK, Kinds
    <3> QED
      BY <1>4, <3>3, <3>4, <3>5, Zenon
  <2>3. \/ ends(p)
        \/ readHookAuditFile(adapterOf(p)) /\ process' = [process EXCEPT ![p] = s]
    BY <1>9, Zenon DEF AuditBefore
  <2> QED
    BY <2>1, <2>2, <2>3, Zenon
<1>10. CASE AuditAfter(p)
  <2>1. process[p].pc = "after" /\ process[p].kind \in Kinds
    BY <1>1, <1>10, Zenon DEF AuditAfter, at, CommandOK, Kinds
  <2>2. ends(p) \/ process' = [process EXCEPT ![p] = advanced(p)]
    BY <1>10, Zenon DEF AuditAfter, ends
  <2> QED
    BY <1>5, <1>6, <2>1, <2>2, Zenon
<1>11. CASE Preflight(p) \/ UninstallService(p)
  <2>1. process[p].pc \in {"preflight", "service"} /\ process[p].rest # {}
    BY <1>1, <1>11, Zenon DEF Preflight, UninstallService, at, CommandOK
  <2>2. \/ ends(p)
        \/ process[p].pc = "preflight" /\ goes(p, "service")
        \/ goes(p, "read")
    BY <1>11, Zenon DEF Preflight, UninstallService, at
  <2> QED
    BY <1>5, <1>7, <2>1, <2>2, Zenon
<1>12. CASE SetupVerify(p)
  <2>1. process[p].pc = "verify" /\ process[p].kind \in Kinds
    BY <1>1, <1>12, Zenon DEF SetupVerify, at, CommandOK, Kinds
  <2>2. ends(p) \/ process' = [process EXCEPT ![p] = advanced(p)]
    BY <1>12, Zenon DEF SetupVerify, ends
  <2> QED
    BY <1>5, <1>6, <2>1, <2>2, Zenon
<1>13. CASE KillCommand(p)
  BY <1>5, <1>13, Zenon DEF KillCommand
<1> QED
  BY <1>8, <1>9, <1>10, <1>11, <1>12, <1>13, Zenon

-----------------------------------------------------------------------------
\* The steps that change an adapter.

\* What Read finds out: the adapter, the hook to install and what is to be left.
\* Where the receipt tells the truth, the plan is the command's own hook, or
\* none.
LEMMA Reads ==
  ASSUME HooksInv, NEW p \in Process, at(p, "read")
  PROVE  LET a == adapterOf(p)
             own == file[a].own
             c == resolveHookInvocation(a, process[p].runtime)
             plan == IF installs(p) THEN Install(a, own, c, process[p].runtime.bridged)
                     ELSE Uninstall(a, own, c)
         IN  /\ CommandOK(process[p]) /\ process[p].kind \in Kinds
             /\ process[p].runtime \in Runtime
             /\ a \in agents /\ a \in Adapter /\ AdapterOK(a)
             /\ file[a] \in File /\ receipt[a] \in Hook \cup {None} /\ c \in Hook
             /\ plan \in SUBSET Hook /\ (installs(p) => c \in plan)
             /\ a \in selfEvident => plan = IF installs(p) THEN {c} ELSE {}
             /\ own \subseteq {receipt[a]} =>
                  \/ plan = IF installs(p) THEN {c} ELSE {}
                  \/ /\ a = "codex" /\ installs(p) /\ ~process[p].runtime.bridged
                     /\ receipt[a] \in Hook \ {c} /\ plan = {receipt[a], c}
<1> DEFINE a == adapterOf(p)
           own == file[a].own
           c == resolveHookInvocation(a, process[p].runtime)
           bridged == process[p].runtime.bridged
<1>1. CommandOK(process[p]) /\ process[p].kind \in Kinds /\ process[p].runtime \in Runtime
  BY Zenon DEF HooksInv, CommandOK, at
<1>2. a \in agents /\ AdapterOK(a)
  BY <1>1, Zenon DEF HooksInv, CommandOK, at, adapterOf
<1>3. a \in Adapter /\ file[a] \in File /\ receipt[a] \in Hook \cup {None}
  BY <1>2, Zenon DEF HooksInv, MachineType, FilesType
<1>4. own \in SUBSET Hook /\ bridged \in BOOLEAN
  BY <1>1, <1>3, Zenon DEF File, Runtime
<1>5. c \in Hook
  BY <1>1, <1>3, Invocation, Zenon
<1> HIDE DEF a, own, c, bridged
<1>6. CASE installs(p)
  <2> DEFINE plan == Install(a, own, c, bridged)
  <2>1. plan \in SUBSET Hook /\ c \in plan /\ (a \in selfEvident => plan = {c})
    BY <1>3, <1>4, <1>5, Installed
  <2>2. own \subseteq {receipt[a]} =>
          \/ plan = {c}
          \/ /\ a = "codex" /\ ~bridged /\ receipt[a] \in Hook \ {c}
             /\ plan = {receipt[a], c}
    BY <1>3, <1>4, <1>5, InstalledAlone
  <2> HIDE DEF plan
  <2> QED
    BY <1>1, <1>2, <1>3, <1>5, <1>6, <2>1, <2>2, Zenon DEF a, own, c, bridged, plan
<1>7. CASE ~installs(p)
  <2> DEFINE plan == Uninstall(a, own, c)
  <2>1. /\ plan \in SUBSET Hook
        /\ a \in selfEvident \/ own \subseteq {receipt[a]} => plan = {}
    BY <1>3, <1>4, <1>5, Uninstalled, Zenon
  <2> HIDE DEF plan
  <2> QED
    BY <1>1, <1>2, <1>3, <1>5, <1>7, <2>1, Zenon DEF a, own, c, bridged, plan
<1> QED
  BY <1>6, <1>7, Zenon

\* Where nobody else works and the receipt tells the truth, the file holds at
\* most the hook of the receipt.
LEMMA Quiet ==
  ASSUME HooksInv, NEW p \in Process, at(p, "read"), NEW a \in agents, a \notin exposed,
         ~overlaps(p, a)
  PROVE  file[a].own \subseteq {receipt[a]} /\ \A q \in Process : ~working(q, a)
<1>1. \A q \in Process : ~working(q, a)
  BY Zenon DEF overlaps, working, at
<1>2. ReceiptTells(a)
  BY Zenon DEF HooksInv, AdapterOK, Truthful
<1> QED
  BY <1>1, <1>2, Zenon DEF ReceiptTells

\* Read: a refusal, nothing to change, or a plan.
LEMMA ReadStep ==
  ASSUME HooksInv, NEW p \in Process, NEW a \in agents, a = adapterOf(p), Read(p)
  PROVE  HooksInv'
<1> DEFINE f == file[a]
           c == resolveHookInvocation(a, process[p].runtime)
           plan == IF installs(p) THEN Install(a, f.own, c, process[p].runtime.bridged)
                   ELSE Uninstall(a, f.own, c)
           s == [process[p] EXCEPT !.pc = "write", !.command = c,
                                   !.plan = [f EXCEPT !.own = plan]]
<1>1. /\ at(p, "read") /\ UNCHANGED <<machine, file, receipt, wanted, clobbered>>
      /\ exposed' = IF overlaps(p, a) THEN exposed \cup {a} ELSE exposed
  BY Zenon DEF Read
<1>2. \/ ends(p) /\ claimed' = claimed
      \/ /\ f.parses /\ plan = f.own
         /\ process' = [process EXCEPT ![p] = done(p, c)]
         /\ claimed' = [claimed EXCEPT ![a] = IF installs(p) THEN c ELSE Gone]
      \/ /\ f.parses /\ process' = [process EXCEPT ![p] = s] /\ claimed' = claimed
  BY Zenon DEF Read
<1>3. /\ CommandOK(process[p]) /\ process[p].kind \in Kinds
      /\ process[p].runtime \in Runtime
      /\ a \in agents /\ a \in Adapter /\ AdapterOK(a)
      /\ f \in File /\ receipt[a] \in Hook \cup {None} /\ c \in Hook
      /\ plan \in SUBSET Hook /\ (installs(p) => c \in plan)
      /\ a \in selfEvident => plan = IF installs(p) THEN {c} ELSE {}
      /\ f.own \subseteq {receipt[a]} =>
           \/ plan = IF installs(p) THEN {c} ELSE {}
           \/ /\ a = "codex" /\ installs(p) /\ ~process[p].runtime.bridged
              /\ receipt[a] \in Hook \ {c} /\ plan = {receipt[a], c}
  BY <1>1, Reads, Zenon
<1>4. a = first(process[p].rest) /\ process[p].pc = "read"
  BY <1>1, Zenon DEF adapterOf, at
<1>5. claimed \in [agents -> Hook \cup {None, Gone}] /\ ~at(p, "receipt")
  BY <1>4, Zenon DEF HooksInv, FilesType, at
<1>6. ASSUME a \notin exposed'
      PROVE  f.own \subseteq {receipt[a]} /\ \A q \in Process : ~working(q, a)
  BY <1>1, <1>3, <1>6, Quiet, Zenon
<1>7. exposed \subseteq exposed' /\ \A b \in agents : b # a /\ b \in exposed' => b \in exposed
  BY <1>1, Zenon
<1> HIDE DEF f, c, plan, s
<1>8. CASE ends(p) /\ claimed' = claimed
  BY <1>1, <1>5, <1>7, <1>8, Free, Quits, Zenon DEF ends
<1>9. CASE /\ f.parses /\ plan = f.own
           /\ process' = [process EXCEPT ![p] = done(p, c)]
           /\ claimed' = [claimed EXCEPT ![a] = IF installs(p) THEN c ELSE Gone]
  <2>1. CommandOK(done(p, c)) /\ done(p, c).pc \notin {"write", "receipt"}
    BY <1>3, <1>4, Done, Zenon
  <2>2. /\ claimed'[a] = IF installs(p) THEN c ELSE Gone
        /\ claimed' \in [agents -> Hook \cup {None, Gone}]
        /\ \A b \in agents : b # a => claimed'[b] = claimed[b]
    BY <1>3, <1>5, <1>9, Zenon
  <2>3. ASSUME a \in selfEvident \/ a \notin exposed'
        PROVE  f.own = IF installs(p) THEN {c} ELSE {}
    <3>1. CASE a \in selfEvident
      BY <1>3, <1>9, <3>1, Zenon
    <3>2. CASE a \notin exposed'
      <4>1. f.own \subseteq {receipt[a]}
        BY <1>6, <3>2, Zenon
      <4>2. ~(receipt[a] \in Hook \ {c} /\ plan = {receipt[a], c})
        BY <1>9, <4>1, Zenon
      <4> QED
        BY <1>3, <1>9, <4>1, <4>2, Zenon
    <3> QED
      BY <2>3, <3>1, <3>2, Zenon
  <2>4. ClaimTells(a)'
    BY <1>1, <1>3, <1>9, <2>2, <2>3, HooksAssumption, Zenon DEF ClaimTells, HooksAssumption, f
  <2>5. ASSUME a \notin exposed', NEW q \in Process PROVE ~working(q, a)'
    <3>1. ~working(q, a)
      BY <1>6, <2>5, Zenon
    <3>2. CASE q = p
      <4>1. process'[q] = done(p, c)
        BY <1>9, <3>2, Zenon DEF HooksInv
      <4> QED
        BY <2>1, <4>1, Zenon DEF working
    <3>3. CASE q # p
      <4>1. process'[q] = process[q]
        BY <1>9, <3>3, Zenon DEF HooksInv
      <4> QED
        BY <3>1, <4>1, Zenon DEF working, adapterOf
    <3> QED
      BY <3>2, <3>3, Zenon
  <2>6. \A b \in agents :
          \/ claimed'[b] = claimed[b]
          \/ ClaimTells(b)' /\ (b \in exposed' \/ \A q \in Process : ~working(q, b)')
    BY <2>2, <2>4, <2>5, Zenon
  <2> QED
    BY <1>1, <1>5, <1>7, <1>9, <2>1, <2>2, <2>6, Leaves, Zenon
<1>10. CASE f.parses /\ process' = [process EXCEPT ![p] = s] /\ claimed' = claimed
  <2>1. /\ s \in CommandState /\ s.pc = "write" /\ s.kind = process[p].kind
        /\ s.rest = process[p].rest /\ s.runtime = process[p].runtime /\ s.command = c
        /\ s.plan \in File /\ s.plan.own = plan /\ s.plan.other = f.other /\ s.plan.parses
    BY <1>3, <1>10, Zenon DEF CommandOK, CommandState, Places, File, s
  <2>2. CommandOK(s)
    <3>1. Planned(s)
      BY <1>3, <1>4, <2>1 DEF Planned, installing, installs
    <3> QED
      BY <1>3, <1>4, <2>1, <3>1, Zenon DEF CommandOK
  <2>3. /\ process' \in [Process -> CommandState]
        /\ (\A q \in Process : CommandOK(process[q]))'
        /\ process'[p] = s /\ \A q \in Process : q # p => process'[q] = process[q]
    BY <1>1, <1>10, <2>2, OneCommand, Zenon DEF machine
  <2>4. \A b : ~working(p, b) /\ (working(p, b)' => b = a)
    BY <1>4, <2>1, <2>3, Zenon DEF working, adapterOf
  <2>5. ASSUME NEW b \in agents, b # a PROVE AdapterOK(b)'
    <3>1. AdapterOK(b)
      BY Zenon DEF HooksInv
    <3> QED
      BY <1>1, <1>7, <1>10, <2>3, <2>4, <2>5, <3>1, OtherAdapter, Zenon
  <2>6. ASSUME a \notin exposed' PROVE Truthful(a)'
    <3>1. \A q \in Process : working(q, a)' => q = p
      BY <1>6, <2>3, <2>6, Zenon DEF working, adapterOf
    <3>2. OneWorker(a)'
      BY <3>1, Zenon DEF OneWorker
    <3>3. ReceiptTells(a)'
      BY <1>1, <1>6, <2>6, Zenon DEF ReceiptTells, f
    <3>4. leaves(s) \/ leavesBoth(s, receipt[a])
      BY <1>3, <1>4, <1>6, <2>1, <2>6, Zenon DEF leaves, leavesBoth, installing, installs
    <3>5. at(p, "write")' /\ ~at(p, "receipt")'
      BY <2>1, <2>3, Zenon DEF at
    <3>6. leaves(process'[p]) \/ leavesBoth(process'[p], receipt'[a])
      BY <1>1, <2>3, <3>4, Zenon
    <3>7. PlanTells(a)'
      BY <3>1, <3>5, <3>6, Zenon DEF PlanTells, leaves, leavesBoth, installing
    <3> QED
      BY <3>2, <3>3, <3>7, Zenon DEF Truthful
  <2>7. ClaimTells(a)'
    BY <1>1, <1>3, <1>7, <1>10, Zenon DEF AdapterOK, ClaimTells
  <2>8. a \notin clobbered' => OthersKept(a)'
    <3> SUFFICES ASSUME a \notin clobbered PROVE OthersKept(a)'
      BY <1>1, Zenon
    <3>1. OthersKept(a)
      BY <1>3, Zenon DEF AdapterOK
    <3>2. process'[p].plan.other = wanted[a]
      BY <2>1, <2>3, <3>1, Zenon DEF OthersKept, f
    <3> QED
      BY <1>1, <2>3, <3>1, <3>2, Zenon DEF OthersKept, working, at, adapterOf
  <2>9. \A b \in agents : AdapterOK(b)'
    BY <2>5, <2>6, <2>7, <2>8, Zenon DEF AdapterOK
  <2>10. MachineType' /\ FilesType' /\ agents' = agents
    BY <1>1, <1>10, Zenon DEF HooksInv, machine, MachineType, FilesType
  <2> QED
    BY <2>3, <2>9, <2>10, Zenon DEF HooksInv
<1> QED
  BY <1>2, <1>8, <1>9, <1>10, Zenon

\* A command that has a plan for its adapter.
LEMMA Works ==
  ASSUME HooksInv, NEW p \in Process, NEW a, a = adapterOf(p),
         process[p].pc \in {"write", "receipt"}
  PROVE  /\ CommandOK(process[p]) /\ Planned(process[p]) /\ process[p].kind \in Kinds
         /\ a \in agents /\ a = first(process[p].rest) /\ AdapterOK(a)
         /\ \A b : working(p, b) <=> b = a
<1>1. CommandOK(process[p])
  BY Zenon DEF HooksInv
<1>2. Planned(process[p]) /\ process[p].kind \in Kinds /\ first(process[p].rest) \in agents
  BY <1>1, Zenon DEF CommandOK
<1>3. a \in agents /\ a = first(process[p].rest)
  BY <1>2, Zenon DEF adapterOf
<1> QED
  BY <1>1, <1>2, <1>3, Zenon DEF HooksInv, working

\* Write: the file is what was planned, and the receipt is still to follow.
LEMMA WriteStep ==
  ASSUME HooksInv, NEW p \in Process, NEW a, a = adapterOf(p), Write(p)
  PROVE  HooksInv'
<1> DEFINE s == [process[p] EXCEPT !.pc = "receipt"]
           moves == /\ a = "codex" /\ installs(p) /\ ~process[p].runtime.bridged
                    /\ Cardinality(process[p].plan.own) > 1
<1>1. process[p].pc = "write" /\ UNCHANGED <<machine, receipt, wanted, clobbered>>
  BY Zenon DEF Write, at
<1>2. /\ CommandOK(process[p]) /\ Planned(process[p]) /\ process[p].kind \in Kinds
      /\ a \in agents /\ a = first(process[p].rest) /\ AdapterOK(a)
      /\ \A b : working(p, b) <=> b = a
  BY <1>1, Works, Zenon
<1>3. \/ ends(p) /\ UNCHANGED <<file, claimed, exposed>>
      \/ /\ file' = [file EXCEPT ![a] = process[p].plan]
         /\ claimed' = [claimed EXCEPT ![a] = None]
         /\ exposed' = IF moves THEN exposed \cup {a} ELSE exposed
         /\ process' = [process EXCEPT ![p] = s]
  BY Zenon DEF Write, goes
<1>4. CASE ends(p) /\ UNCHANGED <<file, claimed, exposed>>
  BY <1>1, <1>4, Free, Quits, Zenon DEF ends, at
<1>5. CASE /\ file' = [file EXCEPT ![a] = process[p].plan]
           /\ claimed' = [claimed EXCEPT ![a] = None]
           /\ exposed' = IF moves THEN exposed \cup {a} ELSE exposed
           /\ process' = [process EXCEPT ![p] = s]
  <2>1. /\ s \in CommandState /\ s.pc = "receipt" /\ s.kind = process[p].kind
        /\ s.rest = process[p].rest /\ s.runtime = process[p].runtime
        /\ s.command = process[p].command /\ s.plan = process[p].plan
    BY <1>2, Zenon DEF CommandOK, CommandState, Places
  <2>2. process' = [process EXCEPT ![p] = s]
    BY <1>5, Zenon
  <2> HIDE DEF s
  <2>3. CommandOK(s)
    <3>1. Planned(s)
      BY <1>2, <2>1, Zenon DEF Planned, installing
    <3> QED
      BY <1>1, <1>2, <2>1, <3>1, Zenon DEF CommandOK
  <2>4. /\ process' \in [Process -> CommandState]
        /\ (\A q \in Process : CommandOK(process[q]))'
        /\ process'[p] = s /\ \A q \in Process : q # p => process'[q] = process[q]
    BY <1>1, <2>2, <2>3, OneCommand, Zenon DEF machine
  <2>5. /\ file'[a] = process[p].plan /\ claimed'[a] = None
        /\ \A b \in agents : b # a => file'[b] = file[b] /\ claimed'[b] = claimed[b]
    BY <1>2, <1>5, Zenon DEF HooksInv, FilesType
  <2>6. MachineType' /\ FilesType' /\ agents' = agents
    BY <1>1, <1>2, <1>5, Zenon DEF HooksInv, machine, MachineType, FilesType, Planned
  <2>7. ASSUME NEW q \in Process, NEW b
        PROVE  /\ working(q, b)' = working(q, b)
               /\ q # p => /\ process'[q] = process[q]
                           /\ \A where : at(q, where)' = at(q, where)
    <3>1. CASE q = p
      BY <1>1, <2>1, <2>4, <3>1, Zenon DEF working, adapterOf
    <3>2. CASE q # p
      BY <2>4, <3>2, Zenon DEF working, adapterOf, at
    <3> QED
      BY <3>1, <3>2, Zenon
  <2>8. at(p, "receipt")' /\ ~at(p, "write")' /\ at(p, "write")
    BY <1>1, <2>1, <2>4, Zenon DEF at
  <2>9. ASSUME NEW b \in agents, b # a PROVE AdapterOK(b)'
    <3>1. AdapterOK(b)
      BY Zenon DEF HooksInv
    <3>2. ~working(p, b) /\ ~working(p, b)'
      BY <1>2, <2>7, <2>9, Zenon
    <3>3. b \in exposed => b \in exposed'
      BY <1>5, Zenon
    <3> QED
      BY <1>1, <2>4, <2>5, <2>9, <3>1, <3>2, <3>3, OtherAdapter, Zenon
  <2>10. ASSUME a \notin exposed' PROVE Truthful(a)'
    <3>1. a \notin exposed /\ ~moves
      BY <1>5, <2>10, Zenon
    <3>2. OneWorker(a) /\ PlanTells(a)
      BY <1>2, <3>1, Zenon DEF AdapterOK, Truthful
    <3>3. \A q \in Process : working(q, a)' => q = p
      BY <1>2, <2>7, <3>2, Zenon DEF OneWorker
    <3>4. leaves(process[p])
      <4> SUFFICES ASSUME leavesBoth(process[p], receipt[a]) PROVE moves
        BY <1>2, <2>8, <3>1, <3>2, Zenon DEF PlanTells
      <4> DEFINE r == receipt[a]
                 c == process[p].command
      <4>1. /\ a = "codex" /\ installs(p) /\ ~process[p].runtime.bridged
            /\ r # c /\ process[p].plan.own = {r, c}
        BY <1>2, Zenon DEF leavesBoth, installing, installs
      <4> HIDE DEF r, c
      <4>2. IsFiniteSet({r}) /\ Cardinality({r}) = 1
        BY FS_Singleton, Zenon
      <4>3. Cardinality({r} \cup {c}) = Cardinality({r}) + 1
        BY <4>1, <4>2, FS_AddElement, Zenon
      <4>4. {r, c} = {r} \cup {c}
        OBVIOUS
      <4> QED
        BY <4>1, <4>2, <4>3, <4>4
    <3>5. leaves(process'[p]) /\ file'[a].own \subseteq process'[p].plan.own
      BY <2>1, <2>4, <2>5, <3>4, Zenon DEF leaves, installing
    <3>6. PlanTells(a)'
      BY <2>5, <2>8, <3>3, <3>5, Zenon DEF PlanTells, leaves, installing
    <3>7. OneWorker(a)'
      BY <3>3, Zenon DEF OneWorker
    <3>8. working(p, a)'
      BY <1>2, <2>7, Zenon
    <3>9. ReceiptTells(a)'
      BY <2>8, <3>8, Zenon DEF ReceiptTells
    <3> QED
      BY <3>6, <3>7, <3>9, Zenon DEF Truthful
  <2>11. ClaimTells(a)'
    BY <2>5, HooksAssumption, Zenon DEF ClaimTells, HooksAssumption
  <2>12. a \notin clobbered' => OthersKept(a)'
    <3> SUFFICES ASSUME a \notin clobbered PROVE OthersKept(a)'
      BY <1>1, Zenon
    <3>1. OthersKept(a)
      BY <1>2, Zenon DEF AdapterOK
    <3>2. process[p].plan.other = wanted[a]
      BY <1>2, <2>8, <3>1, Zenon DEF OthersKept
    <3> QED
      BY <1>1, <2>5, <2>7, <2>8, <3>1, <3>2, Zenon DEF OthersKept
  <2>13. \A b \in agents : AdapterOK(b)'
    BY <2>9, <2>10, <2>11, <2>12, Zenon DEF AdapterOK
  <2> QED
    BY <2>4, <2>6, <2>13, Zenon DEF HooksInv
<1> QED
  BY <1>3, <1>4, <1>5, Zenon

\* Receipt: the file stood, or somebody else has changed it.
LEMMA ReceiptStep ==
  ASSUME HooksInv, NEW p \in Process, NEW a, a = adapterOf(p), Receipt(p)
  PROVE  HooksInv'
<1> DEFINE s == done(p, process[p].command)
           plan == process[p].plan
           stands == ~overlaps(p, a) /\ file[a] = plan
<1>1. process[p].pc = "receipt" /\ UNCHANGED <<machine, file, wanted, clobbered>>
  BY Zenon DEF Receipt, at
<1>2. /\ CommandOK(process[p]) /\ Planned(process[p]) /\ process[p].kind \in Kinds
      /\ a \in agents /\ a = first(process[p].rest) /\ AdapterOK(a)
      /\ \A b : working(p, b) <=> b = a
  BY <1>1, Works, Zenon
<1>3. \/ /\ receipt' = [receipt EXCEPT ![a] = IF installs(p) THEN process[p].command ELSE None]
         /\ claimed' = [claimed EXCEPT ![a] = IF stands THEN reported(p, a) ELSE None]
         /\ exposed' = IF stands /\ plan.own = {} THEN exposed \ {a} ELSE exposed
         /\ process' = [process EXCEPT ![p] = s]
      \/ /\ exposed' = IF installs(p) THEN exposed \cup {a} ELSE exposed
         /\ process' = [process EXCEPT ![p] = IF installs(p) THEN NoProcess ELSE advanced(p)]
         /\ UNCHANGED <<receipt, claimed>>
  BY Zenon DEF Receipt
<1>4. installs(p) <=> installing(process[p])
  BY Zenon DEF installs, installing
<1>5. CASE /\ exposed' = IF installs(p) THEN exposed \cup {a} ELSE exposed
           /\ process' = [process EXCEPT ![p] = IF installs(p) THEN NoProcess ELSE advanced(p)]
           /\ UNCHANGED <<receipt, claimed>>
  <2>1. CommandOK(advanced(p)) /\ advanced(p).pc \notin {"write", "receipt"}
    BY <1>1, <1>2, Advanced, Zenon
  <2>2. exposed \subseteq exposed' /\ (a \in exposed' \/ ~installs(p))
    BY <1>5, Zenon
  <2>3. CASE installs(p)
    BY <1>1, <1>5, <2>2, <2>3, Free, Quits, Zenon
  <2>4. CASE ~installs(p)
    BY <1>1, <1>5, <2>1, <2>2, <2>4, Quits, Zenon
  <2> QED
    BY <2>3, <2>4, Zenon
<1>6. CASE /\ receipt' = [receipt EXCEPT ![a] = IF installs(p) THEN process[p].command ELSE None]
           /\ claimed' = [claimed EXCEPT ![a] = IF stands THEN reported(p, a) ELSE None]
           /\ exposed' = IF stands /\ plan.own = {} THEN exposed \ {a} ELSE exposed
           /\ process' = [process EXCEPT ![p] = s]
  <2>1. CommandOK(s) /\ s.pc \notin {"write", "receipt"}
    BY <1>1, <1>2, Done, Zenon DEF Planned
  <2>2. process' = [process EXCEPT ![p] = s]
    BY <1>6, Zenon
  <2> HIDE DEF s
  <2>3. /\ process' \in [Process -> CommandState]
        /\ (\A q \in Process : CommandOK(process[q]))'
        /\ process'[p] = s /\ \A q \in Process : q # p => process'[q] = process[q]
    BY <1>1, <2>1, <2>2, OneCommand, Zenon DEF machine
  <2>4. /\ receipt'[a] = IF installs(p) THEN process[p].command ELSE None
        /\ claimed'[a] = IF stands THEN reported(p, a) ELSE None
        /\ \A b \in agents : b # a => receipt'[b] = receipt[b] /\ claimed'[b] = claimed[b]
    BY <1>2, <1>6, Zenon DEF HooksInv, FilesType
  <2>5. MachineType' /\ FilesType' /\ agents' = agents
    BY <1>1, <1>2, <1>6, Zenon DEF HooksInv, machine, MachineType, FilesType, Planned, reported
  <2>6. \A b : ~working(p, b)'
    BY <2>1, <2>3, Zenon DEF working
  <2>7. \A q \in Process : q # p => /\ \A b : working(q, b)' = working(q, b)
                                    /\ \A where : at(q, where)' = at(q, where)
    BY <2>3, Zenon DEF working, adapterOf, at
  <2>8. ASSUME NEW b \in agents, b # a PROVE AdapterOK(b)'
    <3>1. AdapterOK(b)
      BY Zenon DEF HooksInv
    <3>2. ~working(p, b) /\ ~working(p, b)'
      BY <1>2, <2>6, <2>8, Zenon
    <3>3. b \in exposed => b \in exposed'
      BY <1>6, <2>8, Zenon
    <3> QED
      BY <1>1, <2>3, <2>4, <2>8, <3>1, <3>2, <3>3, OtherAdapter, Zenon
  <2>9. installs(p) => process[p].command \in plan.own
    BY <1>2, <1>4, Zenon DEF Planned
  \* The receipt tells the truth again, because nothing is left.
  <2>10. ASSUME a \notin exposed'
         PROVE  /\ \A q \in Process : ~working(q, a)'
                /\ file[a].own \subseteq (IF installs(p) THEN {process[p].command} ELSE {})
                /\ stands => plan.own = IF installs(p) THEN {process[p].command} ELSE {}
    <3>1. CASE a \notin exposed
      <4>1. OneWorker(a) /\ PlanTells(a)
        BY <1>2, <3>1, Zenon DEF AdapterOK, Truthful
      <4>2. \A q \in Process : ~working(q, a)'
        BY <1>2, <2>6, <2>7, <4>1, Zenon DEF OneWorker
      <4>3. leaves(process[p]) /\ file[a].own \subseteq plan.own
        BY <1>1, <1>2, <4>1, Zenon DEF PlanTells, at
      <4> QED
        BY <1>4, <4>2, <4>3, Zenon DEF leaves
    <3>2. CASE a \in exposed
      <4>1. stands /\ plan.own = {}
        BY <1>6, <2>10, <3>2, Zenon
      <4>2. \A q \in Process : ~working(q, a)'
        BY <2>6, <2>7, <4>1, Zenon DEF overlaps
      <4> QED
        BY <2>9, <4>1, <4>2, Zenon
    <3> QED
      BY <3>1, <3>2, Zenon
  <2>11. ASSUME a \notin exposed' PROVE Truthful(a)'
    <3>1. file'[a].own \subseteq {receipt'[a]}
      BY <1>1, <2>4, <2>10, <2>11, Zenon
    <3>2. \A q \in Process : ~working(q, a)'
      BY <2>10, <2>11, Zenon
    <3> QED
      BY <3>1, <3>2, Zenon DEF Truthful, OneWorker, ReceiptTells, PlanTells
  <2>12. ClaimTells(a)'
    <3>1. CASE ~stands
      BY <2>4, <3>1, HooksAssumption, Zenon DEF ClaimTells, HooksAssumption
    <3>2. CASE stands
      <4>1. file'[a] = plan /\ plan.parses
        BY <1>1, <1>2, <3>2, Zenon DEF Planned
      <4>2. a \in selfEvident \/ a \notin exposed' =>
              plan.own = IF installs(p) THEN {process[p].command} ELSE {}
        BY <1>2, <1>4, <2>10, <3>2, Zenon DEF Planned
      <4>3. claimed'[a] = IF installs(p) THEN process[p].command ELSE Gone
        BY <2>4, <3>2, Zenon DEF reported
      <4>4. process[p].command \in Hook /\ Gone \notin Hook
        BY <1>2, HooksAssumption, Zenon DEF Planned, HooksAssumption
      <4> QED
        BY <4>1, <4>2, <4>3, <4>4, Zenon DEF ClaimTells
    <3> QED
      BY <3>1, <3>2, Zenon
  <2>13. a \notin clobbered' => OthersKept(a)'
    <3> SUFFICES ASSUME a \notin clobbered PROVE OthersKept(a)'
      BY <1>1, Zenon
    <3>1. OthersKept(a)
      BY <1>2, Zenon DEF AdapterOK
    <3> QED
      BY <1>1, <2>3, <2>6, <2>7, <3>1, Zenon DEF OthersKept
  <2>14. \A b \in agents : AdapterOK(b)'
    BY <2>8, <2>11, <2>12, <2>13, Zenon DEF AdapterOK
  <2> QED
    BY <2>3, <2>5, <2>14, Zenon DEF HooksInv
<1> QED
  BY <1>3, <1>5, <1>6, Zenon

\* Upgrade, UpdateAgent: no hook depends on them until a command reads it.
LEMMA MachineStep ==
  ASSUME HooksInv, MachineType',
         UNCHANGED <<agents, file, receipt, process, hooksHistory>>
  PROVE  HooksInv'
<1>1. /\ agents' = agents /\ file' = file /\ receipt' = receipt /\ process' = process
      /\ claimed' = claimed /\ wanted' = wanted /\ exposed' = exposed /\ clobbered' = clobbered
  BY Zenon DEF hooksHistory
<1>2. FilesType'
  BY <1>1, Zenon DEF HooksInv, FilesType
<1>3. \A p \in Process : CommandOK(process[p])'
  BY <1>1, ZenonT(30) DEF HooksInv, CommandOK, Planned, installing
<1>4. ASSUME NEW a \in agents PROVE AdapterOK(a)'
  <2>1. AdapterOK(a)
    BY Zenon DEF HooksInv
  <2>2. \A p \in Process : /\ working(p, a)' = working(p, a)
                           /\ \A where : at(p, where)' = at(p, where)
    BY <1>1, Zenon DEF working, adapterOf, at
  <2>3. Truthful(a) => Truthful(a)'
    BY <1>1, <2>2, ZenonT(30) DEF Truthful, OneWorker, ReceiptTells, PlanTells, leaves, leavesBoth,
                             installing
  <2>4. ClaimTells(a)'
    BY <1>1, <2>1, Zenon DEF AdapterOK, ClaimTells
  <2>5. OthersKept(a) => OthersKept(a)'
    BY <1>1, <2>2, Zenon DEF OthersKept
  <2> QED
    BY <1>1, <2>1, <2>3, <2>4, <2>5, Zenon DEF AdapterOK
<1> QED
  BY <1>1, <1>2, <1>3, <1>4, Zenon DEF HooksInv

\* AgentEdits: no claim stands, the hooks are the same or gone, and a command that
\* has read the file will overwrite what was written.
LEMMA AgentEditsStep ==
  ASSUME HooksInv, NEW a \in agents, AgentEdits(a)
  PROVE  HooksInv'
<1>1. /\ UNCHANGED <<machine, receipt, process, exposed>>
      /\ claimed' = [claimed EXCEPT ![a] = None]
      /\ clobbered' = IF \E p \in Process : at(p, "write") /\ adapterOf(p) = a
                      THEN clobbered \cup {a} ELSE clobbered
  BY Zenon DEF AgentEdits
<1>2. PICK other \in SUBSET Entry, own \in {{}, file[a].own}, parses \in BOOLEAN :
        /\ file' = [file EXCEPT ![a] = [own |-> own, other |-> other, parses |-> parses]]
        /\ wanted' = [wanted EXCEPT ![a] = other]
  BY Zenon DEF AgentEdits
<1>3. file[a] \in File /\ own \in SUBSET Hook /\ own \subseteq file[a].own
  BY Zenon DEF HooksInv, FilesType, File
<1>4. /\ file'[a].own = own /\ file'[a].other = other /\ wanted'[a] = other
      /\ claimed'[a] = None
      /\ \A b \in agents : b # a => /\ file'[b] = file[b] /\ wanted'[b] = wanted[b]
                                    /\ claimed'[b] = claimed[b]
  BY <1>1, <1>2, Zenon DEF HooksInv, FilesType
<1>5. FilesType' /\ MachineType' /\ agents' = agents
  BY <1>1, <1>2, <1>3, Zenon DEF HooksInv, FilesType, File, machine, MachineType
<1>6. process' \in [Process -> CommandState] /\ (\A p \in Process : CommandOK(process[p]))'
  BY <1>1, <1>5, ZenonT(30) DEF HooksInv, CommandOK, Planned, installing
<1>7. \A p \in Process : \A b : /\ working(p, b)' = working(p, b)
                                /\ \A where : at(p, where)' = at(p, where)
  BY <1>1, Zenon DEF working, adapterOf, at
<1>8. ASSUME NEW b \in agents, b # a PROVE AdapterOK(b)'
  <2>1. AdapterOK(b)
    BY Zenon DEF HooksInv
  <2>2. /\ file'[b] = file[b] /\ wanted'[b] = wanted[b] /\ claimed'[b] = claimed[b]
        /\ receipt' = receipt /\ process' = process /\ exposed' = exposed
        /\ b \in clobbered => b \in clobbered'
    BY <1>1, <1>4, <1>8, Zenon
  <2>3. Truthful(b) => Truthful(b)'
    BY <1>7, <2>2, Zenon DEF Truthful, OneWorker, ReceiptTells, PlanTells, leaves, leavesBoth,
                             installing
  <2>4. ClaimTells(b)'
    BY <2>1, <2>2, Zenon DEF AdapterOK, ClaimTells
  <2>5. OthersKept(b) => OthersKept(b)'
    BY <1>7, <2>2, Zenon DEF OthersKept
  <2> QED
    BY <2>1, <2>2, <2>3, <2>4, <2>5, Zenon DEF AdapterOK
<1>9. AdapterOK(a)'
  <2>1. AdapterOK(a)
    BY Zenon DEF HooksInv
  <2>2. receipt' = receipt /\ process' = process /\ exposed' = exposed
    BY <1>1, Zenon
  <2>3. ASSUME Truthful(a) PROVE Truthful(a)'
    <3>1. OneWorker(a)'
      BY <1>7, <2>3, Zenon DEF Truthful, OneWorker
    <3>2. ReceiptTells(a)'
      <4>1. ReceiptTells(a)
        BY <2>3, Zenon DEF Truthful
      <4>2. file[a].own \subseteq {receipt[a]} => file'[a].own \subseteq {receipt'[a]}
        BY <1>3, <1>4, <2>2, Zenon
      <4> QED
        BY <1>7, <4>1, <4>2, Zenon DEF ReceiptTells
    <3>3. PlanTells(a)'
      <4>1. PlanTells(a)
        BY <2>3, Zenon DEF Truthful
      <4>2. \A S : file[a].own \subseteq S => file'[a].own \subseteq S
        BY <1>3, <1>4, Zenon
      <4> SUFFICES ASSUME NEW q \in Process, working(q, a)'
                   PROVE  /\ at(q, "write")' =>
                               (leaves(process[q]) \/ leavesBoth(process[q], receipt[a]))'
                          /\ at(q, "receipt")' =>
                               (/\ leaves(process[q]) /\ file[a].own \subseteq process[q].plan.own
                                /\ claimed[a] = None)'
        BY Zenon DEF PlanTells
      <4>3. working(q, a) /\ \A where : at(q, where)' = at(q, where)
        BY <1>7, Zenon
      <4>4. /\ at(q, "write") => leaves(process[q]) \/ leavesBoth(process[q], receipt[a])
            /\ at(q, "receipt") =>
                 /\ leaves(process[q]) /\ file[a].own \subseteq process[q].plan.own
        BY <4>1, <4>3, Zenon DEF PlanTells
      <4> QED
        BY <1>4, <2>2, <4>2, <4>3, <4>4, Zenon DEF leaves, leavesBoth, installing
    <3> QED
      BY <3>1, <3>2, <3>3, Zenon DEF Truthful
  <2>4. ClaimTells(a)'
    BY <1>4, HooksAssumption, Zenon DEF ClaimTells, HooksAssumption
  <2>5. ASSUME a \notin clobbered' PROVE OthersKept(a)'
    <3>1. \A p \in Process : ~(working(p, a) /\ at(p, "write"))
      BY <1>1, <2>5, Zenon DEF working
    <3> QED
      BY <1>4, <1>7, <3>1, Zenon DEF OthersKept
  <2> QED
    BY <2>1, <2>2, <2>3, <2>4, <2>5, Zenon DEF AdapterOK
<1> QED
  BY <1>5, <1>6, <1>8, <1>9, Zenon DEF HooksInv

\* Every step.
LEMMA NextHooks ==
  ASSUME HooksInv, [HooksNext]_hooksVars
  PROVE  HooksInv'
<1>1. ASSUME NEW p \in Process, CommandStep(p) PROVE HooksInv'
  <2> DEFINE a == adapterOf(p)
  <2>1. CASE \/ \E b \in agents : AdapterInstall(p, b) \/ AdapterUninstall(p, b)
             \/ Setup(p) \/ ProductUninstall(p) \/ Reconcile(p)
    BY <2>1, BeginStep, Zenon
  <2>2. CASE \/ Confirm(p) \/ AuditBefore(p) \/ AuditAfter(p) \/ Preflight(p)
             \/ UninstallService(p) \/ SetupVerify(p) \/ KillCommand(p)
    BY <2>2, IdleStep, Zenon
  <2>3. CASE Read(p)
    <3>1. at(p, "read")
      BY <2>3, Zenon DEF Read
    <3>2. adapterOf(p) \in agents
      BY <3>1, Reads, Zenon
    <3> QED
      BY <2>3, <3>2, ReadStep, Zenon
  <2>4. CASE Write(p)
    BY <2>4, WriteStep, Zenon
  <2>5. CASE Receipt(p)
    BY <2>5, ReceiptStep, Zenon
  <2> QED
    BY <1>1, <2>1, <2>2, <2>3, <2>4, <2>5, Zenon DEF CommandStep
<1>2. CASE Upgrade
  <2>1. MachineType'
    BY <1>2 DEF Upgrade, HooksInv, MachineType, Runtime
  <2> QED
    BY <1>2, <2>1, MachineStep, Zenon DEF Upgrade
<1>3. CASE UpdateAgent
  <2>1. modern' \in BOOLEAN
    BY <1>3, Zenon DEF UpdateAgent
  <2>2. MachineType'
    BY <1>3, <2>1, Zenon DEF UpdateAgent, HooksInv, MachineType
  <2> QED
    BY <1>3, <2>2, MachineStep, Zenon DEF UpdateAgent
<1>4. CASE UNCHANGED hooksVars
  <2>1. UNCHANGED <<agents, runtime, modern, file, receipt, process, hooksHistory>>
    BY <1>4, Zenon DEF hooksVars, machine
  <2>2. MachineType'
    BY <2>1, Zenon DEF HooksInv, MachineType
  <2> QED
    BY <2>1, <2>2, MachineStep, Zenon
<1> QED
  BY <1>1, <1>2, <1>3, <1>4, AgentEditsStep, Zenon DEF HooksNext

\* The receipts tell the truth about the hooks in the agents' files, whatever
\* Install, Uninstall, setup, reconcile and the agents do, in any order.
THEOREM HooksInvariant == HooksSpec => []HooksInv
<1> QED
  BY InitHooks, NextHooks, PTL DEF HooksSpec

\* Verify holds of the one hook of the file, if the receipt names it.
LEMMA Verified ==
  ASSUME NEW a \in agents, agents \subseteq Adapter, NEW c \in Hook, file[a].parses,
         file[a].own = {c}, receipt[a] = c
  PROVE  Verify(a, c)
<1>1. receiptOr(receipt[a], c) = c
  BY Zenon DEF receiptOr
<1>2. a \in Adapter
  OBVIOUS
<1>3. CASE a \in {"codex", "claude-code"}
  BY <1>1, <1>3, Zenon DEF Verify, codexVerify, hasCodexHook, claudeVerify, hasClaudeHook
<1>4. CASE a \in {"kimi-code", "opencode"}
  BY <1>1, <1>4, Zenon DEF Verify, kimiVerify, opencodeVerify
<1>5. CASE a \in {"qoder", "qoder-work", "trae"}
  BY <1>1, <1>5, Zenon DEF Verify, qoderVerify, hasQoderHook, qoderWorkVerify, traeVerify, hasShellHook
<1> QED
  BY <1>2, <1>3, <1>4, <1>5 DEF Adapter, supportedAdapterIDs

(***************************************************************************)
(* For every set of agents, every sequence of versions, forms and bridges  *)
(* and any number of commands at once: after an install that reported      *)
(* success the agent runs AgentBell once per event, through the hook that  *)
(* was reported, and Verify agrees.                                        *)
(***************************************************************************)
THEOREM HookIsSingle == HooksSpec => []HookOnce
<1>1. HooksInv => HookOnce
  <2> SUFFICES ASSUME HooksInv, NEW a \in agents, NEW c, c = claimed[a], c \notin {None, Gone}
               PROVE  /\ (a \in selfEvident \/ a \notin exposed) => file[a].own = {c}
                      /\ (a \notin exposed /\ c.form = form(a)) => Verify(a, c)
    BY Zenon DEF HookOnce
  <2>1. c \in Hook /\ AdapterOK(a) /\ agents \subseteq Adapter
    BY Zenon DEF HooksInv, FilesType, MachineType
  <2>2. /\ a \in selfEvident \/ a \notin exposed => file[a].own = {c}
        /\ a \notin exposed => file[a].parses
    BY <2>1, Zenon DEF AdapterOK, ClaimTells
  <2>3. ASSUME a \notin exposed PROVE Verify(a, c)
    <3>1. ReceiptTells(a) /\ PlanTells(a)
      BY <2>1, <2>3, Zenon DEF AdapterOK, Truthful
    <3>2. \A p \in Process : working(p, a) => at(p, "write")
      BY <3>1, Zenon DEF PlanTells, working, at
    <3>3. receipt[a] = c
      BY <2>2, <2>3, <3>1, <3>2, Zenon DEF ReceiptTells
    <3> QED
      BY <2>1, <2>2, <2>3, <3>3, Verified, Zenon
  <2> QED
    BY <2>2, <2>3, Zenon
<1> QED
  BY <1>1, HooksInvariant, PTL

(***************************************************************************)
(* An uninstall that reported success has removed the hooks of whatever    *)
(* version, and left the entries of others as the agent wrote them.        *)
(***************************************************************************)
THEOREM HooksAreGone == HooksSpec => []HooksGone
<1>1. HooksInv => HooksGone
  BY Zenon DEF HooksInv, HooksGone, AdapterOK, ClaimTells, OthersKept
<1> QED
  BY <1>1, HooksInvariant, PTL

(***************************************************************************)
(* What `hook conflicts` shows is what `hook reconcile` does.              *)
(***************************************************************************)
THEOREM ConflictsAreReconciled == HooksSpec => []PlanIsInstall
<1>1. HooksInv => PlanIsInstall
  <2> SUFFICES ASSUME HooksInv, NEW a \in hookAuditAdapterIDs, a \in agents, NEW c \in Hook,
                      a = "claude-code" => receipt[a] # None
               PROVE  (file[a].own \ AuditHooks(a, c).remove) \cup AuditHooks(a, c).add
                        = Install(a, file[a].own, c, TRUE)
    <3>1. ASSUME HooksInv, NEW a \in agents PROVE resolveHookInvocation(a, runtime) \in Hook
      <4>1. a \in Adapter /\ runtime \in Runtime
        BY <3>1, Zenon DEF HooksInv, MachineType
      <4> QED
        BY <4>1, Invocation, Zenon
    <3> QED
      BY <3>1, Zenon DEF PlanIsInstall, readHookAuditFile
  <2> DEFINE own == file[a].own
             r == receipt[a]
  <2>1. own \in SUBSET Hook /\ r \in Hook \cup {None} /\ None \notin Hook
    BY HooksAssumption, Zenon DEF HooksInv, FilesType, File, HooksAssumption
  <2> SUFFICES (own \ AuditHooks(a, c).remove) \cup AuditHooks(a, c).add = Install(a, own, c, TRUE)
    BY Zenon
  <2> DEFINE Same(plan, left) == (own \ plan.remove) \cup plan.add = left
  <2>2. CASE a = "codex"
    <3>1. /\ AuditHooks(a, c) = codexAudit(own, r, c)
          /\ Install(a, own, c, TRUE) = codexInstall(own, r, c, TRUE)
      BY <2>2, Zenon DEF AuditHooks, Install
    <3> HIDE DEF own, r
    <3>2. /\ codexAudit(own, r, c).remove = (own \cap ({r} \ {None, c})) \ {c}
          /\ codexAudit(own, r, c).add = {c} \ own
          /\ codexInstall(own, r, c, TRUE) = (IF r # None /\ r # c THEN own \ {r} ELSE own) \cup {c}
      BY Zenon DEF codexAudit, Audit, codexInstall, mergeCodexHooks, removeCodexHooks
    <3>3. Same(codexAudit(own, r, c), codexInstall(own, r, c, TRUE))
      BY <2>1, <3>2, Zenon
    <3> QED
      BY <3>1, <3>3, Zenon
  <2>3. CASE a = "claude-code"
    <3>1. /\ AuditHooks(a, c) = claudeAudit(own, r, c)
          /\ Install(a, own, c, TRUE) = claudeInstall(own, r, c)
      BY <2>3, Zenon DEF AuditHooks, Install
    <3>2. r # None
      BY <2>3, Zenon
    <3> HIDE DEF own, r
    <3>3. /\ claudeAudit(own, r, c).remove = (own \cap ({r} \ {None})) \ {c}
          /\ claudeAudit(own, r, c).add = {c} \ own
          /\ claudeInstall(own, r, c) = (own \ {IF r # c THEN r ELSE None}) \cup {c}
      BY <3>2, Zenon DEF claudeAudit, Audit, claudeInstall, mergeClaudeHooks, removeClaudeHooks
    <3>4. Same(claudeAudit(own, r, c), claudeInstall(own, r, c))
      BY <2>1, <3>2, <3>3, Zenon
    <3> QED
      BY <3>1, <3>4, Zenon
  <2>4. CASE a = "kimi-code"
    <3>1. /\ AuditHooks(a, c) = kimiAudit(own, r, c)
          /\ Install(a, own, c, TRUE) = kimiInstall(own, c)
      BY <2>4, Zenon DEF AuditHooks, Install
    <3> HIDE DEF own, r
    <3>2. /\ kimiAudit(own, r, c).remove = (own \cap (own \cup ({r} \ {None}))) \ {c}
          /\ kimiAudit(own, r, c).add = {c} \ own
          /\ kimiInstall(own, c) = {c}
      BY Zenon DEF kimiAudit, Audit, kimiInstall, installKimiRegion
    <3>3. Same(kimiAudit(own, r, c), kimiInstall(own, c))
      BY <2>1, <3>2, Zenon
    <3> QED
      BY <3>1, <3>3, Zenon
  <2> QED
    BY <2>2, <2>3, <2>4, Zenon DEF hookAuditAdapterIDs
<1> QED
  BY <1>1, HooksInvariant, PTL

=============================================================================
