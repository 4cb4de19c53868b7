------------------------------- MODULE Enqueue -------------------------------
(***************************************************************************)
(* Several `agentbell emit` processes with the same idempotency key        *)
(* (Queue.Enqueue, queue/queue.go).  The marker of the key is a file that  *)
(* is created exclusively; the queue's mutex lives in one process, so the  *)
(* file operations of different processes interleave, with one another and *)
(* with the moves the service makes of an item that is already in the      *)
(* spool.  Distinct keys share no file, so one key is enough.              *)
(*                                                                         *)
(* Time is abstracted to two facts: late, the 150 ms of the wait are over, *)
(* and the marker is old, its last write was more than a second ago.       *)
(***************************************************************************)
EXTENDS Naturals, Sequences, FiniteSets, Functions

CONSTANTS
  Emitter,       \* the processes; an item is named by the process that wrote it
  NoMarker,      \* no marker file
  MaxKills,      \* bound: killed emitters
  MaxCleanups    \* bound: items the retention rules remove

ASSUME EnqueueAssumption ==
  /\ NoMarker \notin Emitter
  /\ MaxKills \in Nat /\ MaxCleanups \in Nat

VARIABLES
  marker,     \* NoMarker, or its owner, whether it holds the id, and its age
  place,      \* per item, the directories with a copy: <<>>, <<d>>, <<from, to>>
  pc,         \* per emitter, where it is
  seen,       \* per emitter, the id it read from the marker
  probe,      \* per emitter, the directory itemExists looks into next
  late,       \* per emitter, whether its deadline has passed
  cleaner,    \* the key CleanupHistory or CleanupDead is about to remove
  written,    \* history: items that reached pending
  kills,      \* history: killed emitters
  cleanups,   \* history: items removed by retention
  irregular   \* history: a process was killed or suspended, or an item was removed
              \* or moved back to pending

history == <<kills, irregular>>
spool == <<place, cleaner, written, cleanups>>
vars == <<marker, spool, pc, seen, probe, late, history>>

Directories == <<"pending", "inflight", "history", "dead">>
Moves ==
  {<<"pending", "inflight">>, <<"inflight", "history">>, <<"inflight", "dead">>,
   <<"inflight", "pending">>, <<"dead", "pending">>}

Returned == {"ok", "duplicate", "error", "killed"}
Marker == [owner : Emitter, named : BOOLEAN, old : BOOLEAN]

ASSUME NoMarkerAssumption == NoMarker \notin Marker

Init ==
  /\ marker = NoMarker /\ cleaner = FALSE
  /\ place = [e \in Emitter |-> <<>>]
  /\ pc = [e \in Emitter |-> "reserve"]
  /\ seen = [e \in Emitter |-> e]
  /\ probe = [e \in Emitter |-> 1]
  /\ late = [e \in Emitter |-> FALSE]
  /\ written = {} /\ kills = 0 /\ cleanups = 0 /\ irregular = FALSE

-----------------------------------------------------------------------------
\* Enqueue, one file operation at a time.

Step(e, from, to) == pc[e] = from /\ pc' = [pc EXCEPT ![e] = to]

\* O_CREATE|O_EXCL: the marker is new and empty...
Reserve(e) ==
  /\ Step(e, "reserve", "mark")
  /\ marker = NoMarker
  /\ marker' = [owner |-> e, named |-> FALSE, old |-> FALSE]
  /\ UNCHANGED <<seen, probe, late, spool, history>>

\* ...or it is there already, and the wait begins.
ReserveExists(e) ==
  /\ Step(e, "reserve", "read")
  /\ marker # NoMarker
  /\ late' = [late EXCEPT ![e] = FALSE]
  /\ UNCHANGED <<marker, seen, probe, spool, history>>

\* The id goes into the file this process opened, which another process may
\* have removed from the directory since.
WriteMarker(e) ==
  /\ Step(e, "mark", "write")
  /\ marker' = IF marker # NoMarker /\ marker.owner = e
               THEN [marker EXCEPT !.named = TRUE, !.old = FALSE] ELSE marker
  /\ UNCHANGED <<seen, probe, late, spool, history>>

WriteItem(e) ==
  /\ Step(e, "write", "ok")
  /\ place' = [place EXCEPT ![e] = <<"pending">>]
  /\ written' = written \cup {e}
  /\ UNCHANGED <<marker, seen, probe, late, cleaner, cleanups, history>>

\* Mutant: a failed write leaves the marker.
FailKeepsMarker(e) ==
  /\ pc[e] \in {"mark", "write"}
  /\ pc' = [pc EXCEPT ![e] = "error"]
  /\ UNCHANGED <<marker, seen, probe, late, spool, history>>

\* A failed write: the deferred function removes the marker by its name.
Fail(e) ==
  /\ pc[e] \in {"mark", "write"}
  /\ pc' = [pc EXCEPT ![e] = "error"]
  /\ marker' = NoMarker
  /\ UNCHANGED <<seen, probe, late, spool, history>>

-----------------------------------------------------------------------------
\* waitForDurableReservation.

\* Mutant: the id in the marker is taken for the item.
ReadMarkerTrusting(e) ==
  /\ pc[e] = "read" /\ marker # NoMarker /\ marker.named
  /\ pc' = [pc EXCEPT ![e] = "duplicate"]
  /\ seen' = [seen EXCEPT ![e] = marker.owner]
  /\ UNCHANGED <<marker, probe, late, spool, history>>

ReadMarker(e) ==
  /\ pc[e] = "read"
  /\ \/ /\ marker = NoMarker
        /\ pc' = [pc EXCEPT ![e] = "reserve"] /\ UNCHANGED <<seen, probe>>
     \/ /\ marker # NoMarker /\ ~marker.named
        /\ pc' = [pc EXCEPT ![e] = "missing"] /\ UNCHANGED <<seen, probe>>
     \/ /\ marker # NoMarker /\ marker.named
        /\ pc' = [pc EXCEPT ![e] = "probe"]
        /\ seen' = [seen EXCEPT ![e] = marker.owner]
        /\ probe' = [probe EXCEPT ![e] = 1]
  /\ UNCHANGED <<marker, late, spool, history>>

\* itemExists looks into one directory after the other.
itemExists(e) ==
  /\ pc[e] = "probe"
  /\ IF Directories[probe[e]] \in Range(place[seen[e]])
     THEN pc' = [pc EXCEPT ![e] = "duplicate"] /\ UNCHANGED probe
     ELSE IF probe[e] < Len(Directories)
     THEN probe' = [probe EXCEPT ![e] = @ + 1] /\ UNCHANGED pc
     ELSE pc' = [pc EXCEPT ![e] = "missing"] /\ UNCHANGED probe
  /\ UNCHANGED <<marker, seen, late, spool, history>>

\* Mutant: the wait has no deadline.
PollForever(e) ==
  /\ Step(e, "missing", "read")
  /\ UNCHANGED <<marker, seen, probe, late, spool, history>>

\* No item yet: poll again, or look at the age of the marker.
Poll(e) ==
  /\ Step(e, "missing", IF late[e] THEN "stat" ELSE "read")
  /\ UNCHANGED <<marker, seen, probe, late, spool, history>>

\* Mutant: a marker without an item is stale at any age.
StatMarkerAnyAge(e) ==
  /\ Step(e, "stat", IF marker = NoMarker THEN "reserve" ELSE "remove")
  /\ UNCHANGED <<marker, seen, probe, late, spool, history>>

StatMarker(e) ==
  /\ Step(e, "stat", IF marker = NoMarker THEN "reserve"
                     ELSE IF marker.old THEN "remove"
                     ELSE "error")
  /\ UNCHANGED <<marker, seen, probe, late, spool, history>>

\* Whatever marker has the name by now is removed.
RemoveStale(e) ==
  /\ Step(e, "remove", "reserve")
  /\ marker' = NoMarker
  /\ UNCHANGED <<seen, probe, late, spool, history>>

-----------------------------------------------------------------------------
\* Time, the service and the end of a process.

Expire(e) ==
  /\ pc[e] \in {"read", "probe", "missing"} /\ ~late[e]
  /\ late' = [late EXCEPT ![e] = TRUE]
  /\ UNCHANGED <<marker, pc, seen, probe, spool, history>>

\* A marker is a second old only after its owner has written the item, and not
\* in the middle of another process's poll, unless a process is suspended.
Age ==
  /\ marker # NoMarker /\ ~marker.old
  /\ marker' = [marker EXCEPT !.old = TRUE]
  /\ irregular' = (\/ irregular
                   \/ pc[marker.owner] \in {"mark", "write"}
                   \/ \E e \in Emitter : pc[e] \in {"probe", "missing", "stat"})
  /\ UNCHANGED <<pc, seen, probe, late, spool, kills>>

\* A transition of the service (or of queue retry), destination first.
MoveWrite(e) ==
  /\ Len(place[e]) = 1
  /\ \E move \in Moves :
       /\ move[1] = place[e][1]
       /\ place' = [place EXCEPT ![e] = move]
       /\ irregular' = (irregular \/ move[2] = "pending")
  /\ UNCHANGED <<marker, pc, seen, probe, late, cleaner, written, kills, cleanups>>

MoveRemove(e) ==
  /\ Len(place[e]) = 2
  /\ place' = [place EXCEPT ![e] = Tail(@)]
  /\ UNCHANGED <<marker, pc, seen, probe, late, cleaner, written, cleanups, history>>

\* Retention removes the item and then the marker of its key.
CleanupItem(e) ==
  /\ place[e] \in {<<"history">>, <<"dead">>}
  /\ ~cleaner /\ cleanups < MaxCleanups
  /\ place' = [place EXCEPT ![e] = <<>>]
  /\ cleaner' = TRUE /\ cleanups' = cleanups + 1 /\ irregular' = TRUE
  /\ UNCHANGED <<marker, pc, seen, probe, late, written, kills>>

CleanupKey ==
  /\ cleaner
  /\ cleaner' = FALSE /\ marker' = NoMarker
  /\ UNCHANGED <<place, pc, seen, probe, late, written, cleanups, history>>

Kill(e) ==
  /\ pc[e] \notin Returned /\ kills < MaxKills
  /\ pc' = [pc EXCEPT ![e] = "killed"]
  /\ kills' = kills + 1 /\ irregular' = TRUE
  /\ UNCHANGED <<marker, seen, probe, late, spool>>

-----------------------------------------------------------------------------
Emit(e) ==
  \/ Reserve(e) \/ ReserveExists(e) \/ WriteMarker(e) \/ WriteItem(e) \/ Fail(e)
  \/ ReadMarker(e) \/ itemExists(e) \/ Poll(e) \/ StatMarker(e) \/ RemoveStale(e)

Next ==
  \/ \E e \in Emitter : Emit(e) \/ Expire(e) \/ Kill(e)
                          \/ MoveWrite(e) \/ MoveRemove(e) \/ CleanupItem(e)
  \/ Age \/ CleanupKey

Spec == Init /\ [][Next]_vars

\* A process that is not killed goes on, and its deadline passes.
FairSpec ==
  Spec /\ \A e \in Emitter : WF_vars(Emit(e)) /\ WF_vars(Expire(e))

-----------------------------------------------------------------------------
\* emit reports success only for an id whose file has reached pending: its own,
\* or, for a duplicate, the one named in the marker another process left.
ReportedIsDurable ==
  \A e \in Emitter :
    /\ pc[e] = "ok" => e \in written
    /\ pc[e] = "duplicate" => seen[e] \in written

\* A marker without an item is the work of a process that is still between the
\* two, was killed there, or whose item retention has removed: an emit that
\* fails never leaves a marker that would block the key.
NoOrphanMarker ==
  marker # NoMarker /\ marker.owner \notin written =>
    pc[marker.owner] \in {"mark", "write", "killed"}

\* Concurrent hooks do not put the same event into the spool twice, as long as
\* none of them is killed or suspended for longer than a marker takes to become
\* stale, and the item is neither removed nor moved back while they search.
OneItemPerKey == ~irregular => Cardinality({e \in Emitter : place[e] # <<>>}) <= 1

\* Every emit returns: neither the wait for another process's reservation nor
\* the retry after a removed marker goes on for ever.
EmitReturns == \A e \in Emitter : <>(pc[e] \in Returned)
=============================================================================
