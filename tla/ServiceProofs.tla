---------------------------- MODULE ServiceProofs ----------------------------
(***************************************************************************)
(* Proofs about Service, and about QueueRetry, its composition with the    *)
(* retry command, for any number of items and targets, any backoff, lease  *)
(* and quiet window, and any number of kills and failed file operations.   *)
(***************************************************************************)
EXTENDS QueueRetry, TLAPS

USE DEF NoItem, ZeroTime, BackoffAssumption, QueueAssumption, NoneAssumption,
        ServiceAssumption

-----------------------------------------------------------------------------
\* The inductive invariant.

\* What RecoverExpired has listed stays inflight until it handles it.
ScanOK ==
  /\ \A i \in scan : exists("inflight", i)
  /\ pc \notin {"recover", "recoverRemove"} => scan = {}
  /\ pc = "recoverRemove" => cur \notin scan

\* pending, history and dead exclude one another; only inflight can overlap.
OneSettledCopy ==
  \A i \in Item :
    \A d, e \in {"pending", "history", "dead"} :
      exists(d, i) /\ exists(e, i) => d = e

Handling == {"load", "legacyRecord", "deliver", "failing", "dropping",
             "record", "write"}

\* Between claim and transition the handled item has one copy, inflight, and
\* memory holds its ledger; a source is removed only when a copy remains.
HandledItem ==
  /\ pc \in Handling =>
       /\ cur \in Item /\ exists("inflight", cur) /\ ~completedTransition(cur)
       /\ mem.ledger = disk["inflight"][cur].ledger
  /\ pc = "claimRemove" =>
       /\ cur \in Item /\ exists("inflight", cur) /\ exists("pending", cur)
       /\ mem.ledger = disk["inflight"][cur].ledger
  /\ pc \in {"remove", "recoverRemove"} =>
       cur \in Item /\ completedTransition(cur)

\* The fan-out loop only holds targets that are pending in the ledger.
OpenTargets ==
  /\ pc \in {"deliver", "failing", "dropping", "record"} =>
       todo \subseteq pendingTargets(mem.ledger)
  /\ pc = "record" =>
       /\ result.target \in Target \ todo
       /\ mem.ledger[result.target].state = "pending"

\* Only accepted items have files or recorded successes.
Accounted ==
  /\ \A i \in Item : onDisk(i) => i \in accepted
  /\ \A i \in Item : recorded[i] # {} => i \in accepted

\* TypeOK, by the part of the state it speaks of.
DiskType == disk \in [Dir -> [Item -> Envelope \cup {None}]] /\ now \in Nat

HistoryType ==
  /\ accepted \subseteq Item
  /\ forgotten \subseteq Item
  /\ recorded \in [Item -> SUBSET Target]

CounterType ==
  /\ sends \in [Item -> [Target \cup {Legacy} -> Nat]]
  /\ crashes \in Nat
  /\ faults \in Nat

LocalType ==
  /\ pc \in Running \cup {"down"}
  /\ scan \subseteq Item
  /\ cur \in Item \cup {NoItem}
  /\ mem \in Envelope
  /\ at \in Nat
  /\ todo \subseteq Target
  /\ result \in [target : Target \cup {Legacy}, outcome : Outcome]
  /\ dst \in {"pending", "history", "dead"}

SpoolInv ==
  /\ DiskType /\ HistoryType /\ OneSettledCopy /\ Accounted
  /\ NoLostItem /\ RecordedSuccessDurable

LocalInv == LocalType /\ ScanOK /\ HandledItem /\ OpenTargets

IInv == SpoolInv /\ LocalInv /\ CounterType

-----------------------------------------------------------------------------
\* What the envelope operators of Queue return.

\* A fresh item is an envelope with no entry in its ledger.
LEMMA NewEnvelopeType == NewEnvelope \in Envelope
BY Zenon DEF NewEnvelope, Envelope, NilLedger, NoEntry, Ledgers, Entry, DeliveryState

\* Claim, Ack, Defer and RecoverExpired keep the ledger and return envelopes.
LEMMA MovedEnvelope ==
  ASSUME NEW e \in Envelope, NEW n \in Nat, now \in Nat
  PROVE  /\ claimEnvelope(e) \in Envelope /\ claimEnvelope(e).ledger = e.ledger
         /\ ackEnvelope(e) \in Envelope /\ ackEnvelope(e).ledger = e.ledger
         /\ deferEnvelope(e, n) \in Envelope
         /\ deferEnvelope(e, n).ledger = e.ledger
         /\ recoverEnvelope(e) \in Envelope
         /\ recoverEnvelope(e).ledger = e.ledger
<1>1. claimEnvelope(e) \in Envelope /\ claimEnvelope(e).ledger = e.ledger
  BY QueueAssumption DEF Envelope, claimEnvelope
<1>2. ackEnvelope(e) \in Envelope /\ ackEnvelope(e).ledger = e.ledger
  BY ZenonT(30) DEF Envelope, ackEnvelope
<1>3. deferEnvelope(e, n) \in Envelope /\ deferEnvelope(e, n).ledger = e.ledger
  BY ZenonT(30) DEF Envelope, deferEnvelope
<1>4. recoverEnvelope(e) \in Envelope /\ recoverEnvelope(e).ledger = e.ledger
  BY Zenon DEF Envelope, recoverEnvelope
<1> QED
  BY <1>1, <1>2, <1>3, <1>4, Zenon

\* Nack reads the backoff within its bounds and keeps the ledger.
LEMMA NackedEnvelope ==
  ASSUME NEW e \in Envelope, NEW n \in Nat, NEW permanent \in BOOLEAN
  PROVE  /\ nackEnvelope(e, permanent, n) \in Envelope
         /\ nackEnvelope(e, permanent, n).ledger = e.ledger
         /\ nackEnvelope(e, permanent, n).attempts = e.attempts + 1
<1>1. e.attempts \in Nat
  BY Zenon DEF Envelope
<1>2. ASSUME ~nackIsFinal(e, permanent)
      PROVE  n + Backoff[e.attempts + 1] \in Nat
  BY <1>1, <1>2, BackoffAssumption, SMTT(30) DEF nackIsFinal
<1> DEFINE next == IF nackIsFinal(e, permanent) THEN ZeroTime
                   ELSE n + Backoff[e.attempts + 1]
<1>3. next \in Nat
  BY <1>2, Zenon
<1>4. nackEnvelope(e, permanent, n) =
        [e EXCEPT !.attempts = @ + 1, !.lease = ZeroTime, !.next = next]
  BY Zenon DEF nackEnvelope
<1> HIDE DEF next
<1>5. nackEnvelope(e, permanent, n) =
        [attempts |-> e.attempts + 1, next |-> next, lease |-> ZeroTime,
         ledger |-> e.ledger]
  BY <1>4, ZenonT(30) DEF Envelope
<1>6. e.ledger \in Ledgers
  BY Zenon DEF Envelope
<1> QED
  BY <1>1, <1>3, <1>5, <1>6 DEF Envelope

\* A recorded outcome is an entry, and failTarget stays within the backoff.
LEMMA UpdatedEntry ==
  ASSUME NEW e \in Entry, NEW n \in Nat, NEW permanent \in BOOLEAN
  PROVE  /\ AckEntry(e) \in Entry /\ AckEntry(e).state = "succeeded"
         /\ DeadEntry(e) \in Entry
         /\ failTarget(e, permanent, n) \in Entry
<1>1. e.attempts \in Nat
  BY Zenon DEF Entry
<1>2. AckEntry(e) \in Entry /\ AckEntry(e).state = "succeeded" /\ DeadEntry(e) \in Entry
  BY <1>1 DEF Entry, AckEntry, DeadEntry, DeliveryState
<1>3. CASE permanent \/ e.attempts + 1 >= Len(Backoff)
  BY <1>2, <1>3, Zenon DEF failTarget
<1>4. CASE ~permanent /\ e.attempts + 1 < Len(Backoff)
  <2>1. Backoff[e.attempts + 1] \in Nat
    BY <1>1, <1>4, BackoffAssumption
  <2>2. RetryDelay(e.attempts) \in Nat
    BY <2>1, Zenon DEF RetryDelay
  <2>3. NackEntry(e, n + RetryDelay(e.attempts)) \in Entry
    BY <1>1, <2>2 DEF NackEntry, Entry, DeliveryState
  <2> QED
    BY <1>1, <1>2, <1>4, <2>3, BackoffAssumption, Zenon DEF failTarget
<1> QED
  BY <1>1, <1>2, <1>3, <1>4, BackoffAssumption

\* Writing one entry changes that entry of the ledger and nothing else.
LEMMA UpdatedEnvelope ==
  ASSUME NEW e \in Envelope, NEW t \in Target, NEW entry \in Entry
  PROVE  LET u == [e EXCEPT !.ledger[t] = entry]
         IN  /\ u \in Envelope
             /\ u.ledger = [e.ledger EXCEPT ![t] = entry]
BY Zenon DEF Envelope, Ledgers

-----------------------------------------------------------------------------
\* The initial state: an empty spool and a service that is not running.
LEMMA InitIInv == Init => IInv
<1> SUFFICES ASSUME Init PROVE IInv
  OBVIOUS
<1>1. DiskType /\ HistoryType /\ CounterType
  BY Zenon DEF Init, DiskType, HistoryType, CounterType
<1>2. LocalType
  BY NewEnvelopeType, Zenon DEF Init, LocalType, NoResult, Outcome
<1>3. \A i \in Item, d \in Dir : ~exists(d, i)
  BY Zenon DEF Init, exists
<1>4. ScanOK /\ HandledItem /\ OpenTargets
  BY <1>3, Zenon DEF Init, ScanOK, HandledItem, OpenTargets, Handling
<1>5. OneSettledCopy /\ Accounted /\ NoLostItem /\ RecordedSuccessDurable
  BY <1>3, ZenonT(30) DEF Init, OneSettledCopy, Accounted, NoLostItem,
              RecordedSuccessDurable, onDisk, Dir
<1> QED
  BY <1>1, <1>2, <1>4, <1>5, Zenon DEF IInv, SpoolInv, LocalInv

-----------------------------------------------------------------------------
\* A step that leaves the files alone preserves what is said of the spool.
LEMMA SpoolUnchanged ==
  ASSUME SpoolInv, UNCHANGED <<disk, now, accepted, forgotten, recorded>>
  PROVE  SpoolInv'
BY Zenon DEF SpoolInv, DiskType, HistoryType, OneSettledCopy, Accounted, NoLostItem,
       RecordedSuccessDurable, exists, onDisk

-----------------------------------------------------------------------------
\* Writing one file preserves what is said of the spool when the new copy, and
\* the copies beside it, carry the recorded successes.
LEMMA WriteSpool ==
  ASSUME SpoolInv, NEW d \in Dir, NEW i \in Item, NEW e \in Envelope,
         write(d, i, e), UNCHANGED <<now, forgotten>>,
         accepted' = accepted \cup {i},
         recorded' \in [Item -> SUBSET Target],
         \A j \in Item \ {i} : recorded'[j] = recorded[j],
         \A t \in recorded'[i] : e.ledger[t].state = "succeeded",
         \A x \in Dir \ {d} : exists(x, i) =>
           \A t \in recorded'[i] : disk[x][i].ledger[t].state = "succeeded",
         d # "inflight" =>
           \A x \in {"pending", "history", "dead"} : exists(x, i) => x = d
  PROVE  SpoolInv'
<1> USE DEF SpoolInv
<1>1. DiskType'
  BY Zenon DEF write, DiskType
<1>2. HistoryType'
  BY Zenon DEF HistoryType
<1>3. /\ \A x \in Dir, j \in Item :
           disk'[x][j] = IF x = d /\ j = i THEN e ELSE disk[x][j]
      /\ e # None
  BY NoneAssumption, Zenon DEF write, DiskType
<1>4. OneSettledCopy'
  BY <1>3 DEF OneSettledCopy, Dir, exists
<1>5. Accounted'
  BY <1>3, Zenon DEF Accounted, onDisk, exists
<1>6. NoLostItem'
  BY <1>3 DEF NoLostItem, onDisk, HistoryType, exists
<1>7. RecordedSuccessDurable'
  <2> SUFFICES ASSUME NEW j \in Item, NEW x \in Dir, exists(x, j)',
                      NEW t \in recorded'[j]
               PROVE  disk'[x][j].ledger[t].state = "succeeded"
    BY Zenon DEF RecordedSuccessDurable
  <2>1. CASE j = i
    BY <1>3, <2>1 DEF exists
  <2>2. CASE j # i
    BY <1>3, <2>2 DEF RecordedSuccessDurable, exists
  <2> QED
    BY <2>1, <2>2, Zenon
<1> QED
  BY <1>1, <1>2, <1>4, <1>5, <1>6, <1>7, Zenon

\* So does removing one of several copies.
LEMMA RemoveSpool ==
  ASSUME SpoolInv, NEW d \in Dir, NEW i \in Item, remove(d, i),
         UNCHANGED <<now, accepted, forgotten, recorded>>,
         \E x \in Dir \ {d} : exists(x, i)
  PROVE  SpoolInv'
<1> USE DEF SpoolInv
<1>1. DiskType' /\ HistoryType'
  BY Zenon DEF remove, DiskType, HistoryType
<1>2. \A x \in Dir, j \in Item :
        disk'[x][j] = IF x = d /\ j = i THEN None ELSE disk[x][j]
  BY Zenon DEF remove, DiskType
<1>3. OneSettledCopy'
  BY <1>2 DEF OneSettledCopy, Dir, exists
<1>4. Accounted'
  BY <1>2, Zenon DEF Accounted, onDisk, exists
<1>5. NoLostItem'
  BY <1>2 DEF NoLostItem, onDisk, HistoryType, exists
<1>6. RecordedSuccessDurable'
  <2> SUFFICES ASSUME NEW j \in Item, NEW x \in Dir, exists(x, j)',
                      NEW t \in recorded'[j]
               PROVE  disk'[x][j].ledger[t].state = "succeeded"
    BY Zenon DEF RecordedSuccessDurable
  <2> QED
    BY <1>2 DEF RecordedSuccessDurable, exists
<1> QED
  BY <1>1, <1>3, <1>4, <1>5, <1>6, Zenon

\* A handler that returns, or a process that dies, forgets its memory.
LEMMA GotoLocal ==
  ASSUME NEW where \in {"down", "idle", "cleanupHistory", "cleanupDead"},
         Goto(where)
  PROVE  LocalInv'
<1>1. LocalType'
  BY NewEnvelopeType, Zenon DEF Goto, LocalType, Running, NoResult, Outcome
<1>2. ScanOK' /\ HandledItem' /\ OpenTargets'
  BY Zenon DEF Goto, ScanOK, HandledItem, OpenTargets, Handling
<1> QED
  BY <1>1, <1>2, Zenon DEF LocalInv

\* A handler's step that leaves the files alone: the envelope it goes on with
\* keeps the ledger, and the targets it goes on with are pending there.
LEMMA HoldLocal ==
  ASSUME LocalInv, pc \in Handling, UNCHANGED disk,
         NEW where \in Handling, NEW envelope \in Envelope,
         NEW targets \in SUBSET pendingTargets(mem.ledger),
         NEW answer \in [target : Target \cup {Legacy}, outcome : Outcome],
         NEW destination \in {"pending", "history", "dead"},
         envelope.ledger = mem.ledger,
         where = "record" =>
           /\ answer.target \in Target \ targets
           /\ mem.ledger[answer.target].state = "pending",
         Hold(where, envelope, targets, answer, destination)
  PROVE  LocalInv'
<1>1. LocalType'
  BY Zenon DEF Hold, LocalInv, LocalType, Running, Handling, pendingTargets
<1>2. ScanOK'
  BY Zenon DEF Hold, LocalInv, ScanOK, Handling, exists
<1>3. HandledItem'
  BY Zenon DEF Hold, LocalInv, HandledItem, Handling, exists, completedTransition
<1>4. OpenTargets'
  BY Zenon DEF Hold, LocalInv, OpenTargets
<1> QED
  BY <1>1, <1>2, <1>3, <1>4, Zenon DEF LocalInv

\* A transition out of inflight begins.
LEMMA MoveLocal ==
  ASSUME LocalInv, pc \in Handling, UNCHANGED disk,
         NEW envelope \in Envelope, envelope.ledger = mem.ledger,
         NEW destination \in {"pending", "history", "dead"},
         Move(envelope, destination)
  PROVE  LocalInv'
BY HoldLocal, Zenon DEF Move, Handling, NoResult, Outcome

\* Kills, stops and failed file operations preserve the invariant.
LEMMA InterruptionStep == IInv /\ Interruption => IInv'
<1> SUFFICES ASSUME IInv, Interruption PROVE IInv'
  OBVIOUS
<1>1. SpoolInv /\ LocalInv /\ CounterType
  BY Zenon DEF IInv
<1>2. UNCHANGED <<disk, now, accepted, forgotten, recorded>>
  BY ZenonT(30) DEF Interruption, GiveUp, RecordFault, StartupFault, Stop, Crash,
         FailTargetFault, RepairFault, Fault, Down
<1>3. SpoolInv'
  BY <1>1, <1>2, SpoolUnchanged, Zenon
<1>4. CounterType'
  <2>1. Fault \/ Down
    BY ZenonT(30) DEF Interruption, GiveUp, RecordFault, StartupFault, Stop, Crash,
           FailTargetFault, RepairFault
  <2>2. sends' \in [Item -> [Target \cup {Legacy} -> Nat]]
    BY <1>1, <2>1, Zenon DEF Fault, Down, CounterType
  <2>3. crashes' \in Nat /\ faults' \in Nat
    BY <1>1, <2>1 DEF Fault, Down, CounterType
  <2> QED
    BY <2>2, <2>3, ZenonT(30) DEF CounterType
<1>5. CASE GiveUp \/ StartupFault \/ Stop \/ Crash
  <2>1. Goto("idle") \/ Goto("down")
    BY <1>5, Zenon DEF GiveUp, StartupFault, Stop, Crash, Down
  <2> QED
    BY <1>3, <1>4, <2>1, GotoLocal, Zenon DEF IInv
<1>6. mem \in Envelope /\ dst \in {"pending", "history", "dead"}
      /\ NoResult \in [target : Target \cup {Legacy}, outcome : Outcome]
  BY <1>1, Zenon DEF LocalInv, LocalType, NoResult, Outcome
<1>7. CASE RecordFault
  <2>1. todo \in SUBSET pendingTargets(mem.ledger)
    BY <1>1, <1>7, Zenon DEF RecordFault, LocalInv, OpenTargets
  <2>2. Hold("deliver", mem, todo, NoResult, dst) /\ pc \in Handling
    BY <1>7, Zenon DEF RecordFault, Handling
  <2>3. LocalInv'
    BY <1>1, <1>2, <1>6, <2>1, <2>2, HoldLocal, Zenon DEF Handling
  <2> QED
    BY <1>3, <1>4, <2>3, Zenon DEF IInv
<1>8. ASSUME NEW t \in Target, FailTargetFault(t) PROVE IInv'
  <2>1. todo \ {t} \in SUBSET pendingTargets(mem.ledger)
    BY <1>1, <1>8, Zenon DEF FailTargetFault, LocalInv, OpenTargets
  <2>2. Hold(pc, mem, todo \ {t}, NoResult, dst) /\ pc \in {"deliver", "failing"}
    BY <1>8, Zenon DEF FailTargetFault
  <2>3. LocalInv'
    BY <1>1, <1>2, <1>6, <2>1, <2>2, HoldLocal, Zenon DEF Handling
  <2> QED
    BY <1>3, <1>4, <2>3, Zenon DEF IInv
<1>9. ASSUME NEW i \in Item, RepairFault(i) PROVE IInv'
  <2>1. LocalType'
    BY <1>1, <1>9, Zenon DEF RepairFault, LocalInv, LocalType
  <2>2. ScanOK' /\ HandledItem' /\ OpenTargets'
    BY <1>1, <1>9, Zenon
       DEF RepairFault, LocalInv, ScanOK, HandledItem, OpenTargets,
           Handling, exists
  <2> QED
    BY <1>3, <1>4, <2>1, <2>2, Zenon DEF IInv, LocalInv
<1> QED
  BY <1>5, <1>7, <1>8, <1>9, Zenon DEF Interruption

\* The steps of a handler that only decide what comes next.
LEMMA DecisionStep ==
  ASSUME IInv,
         FailItem \/ Suppress \/ LegacyRecord \/ QuietDrop \/ ResolveAgain
           \/ Finish
  PROVE  IInv'
<1>1. SpoolInv /\ LocalInv /\ CounterType
  BY Zenon DEF IInv
<1>2. UNCHANGED <<disk, now, observed>>
  BY ZenonT(30) DEF FailItem, Suppress, LegacyRecord, QuietDrop, ResolveAgain, Finish
<1>3. SpoolInv' /\ CounterType'
  <2>1. SpoolInv'
    BY <1>1, <1>2, SpoolUnchanged, ZenonT(60) DEF observed
  <2>2. CounterType'
    BY <1>1, <1>2, Zenon DEF observed, CounterType
  <2> QED
    BY <2>1, <2>2, Zenon
<1> SUFFICES LocalInv'
  BY <1>3, Zenon DEF IInv
<1>4. /\ mem \in Envelope /\ at \in Nat /\ dst \in {"pending", "history", "dead"}
      /\ NoResult \in [target : Target \cup {Legacy}, outcome : Outcome]
      /\ now \in Nat
  BY <1>1, Zenon DEF LocalInv, LocalType, SpoolInv, DiskType, NoResult, Outcome
<1>5. readyTargets(mem.ledger, at) \in SUBSET pendingTargets(mem.ledger)
  BY Zenon DEF readyTargets
<1>6. ASSUME Ack, pc \in Handling PROVE LocalInv'
  BY <1>1, <1>2, <1>4, <1>6, MovedEnvelope, MoveLocal, Zenon DEF Ack
<1>7. ASSUME NEW permanent \in BOOLEAN, Nack(permanent), pc \in Handling
      PROVE  LocalInv'
  BY <1>1, <1>2, <1>4, <1>7, NackedEnvelope, MoveLocal, Zenon DEF Nack
<1>8. ASSUME NEW n \in Nat, Defer(n), pc \in Handling PROVE LocalInv'
  BY <1>1, <1>2, <1>4, <1>8, MovedEnvelope, MoveLocal, Zenon DEF Defer
<1>9. ASSUME NEW where \in {"deliver", "failing"}, pc \in Handling,
             Hold(where, mem, readyTargets(mem.ledger, at), NoResult, dst)
      PROVE  LocalInv'
  BY <1>1, <1>2, <1>4, <1>5, <1>9, HoldLocal DEF Handling
<1>10. CASE FailItem
  BY <1>7, <1>9, <1>10, ZenonT(30) DEF FailItem, Handling
<1>11. CASE Suppress
  BY <1>6, <1>11, Zenon DEF Suppress, Handling
<1>12. CASE LegacyRecord
  BY <1>6, <1>7, <1>12, ZenonT(30) DEF LegacyRecord, Handling
<1>13. CASE QuietDrop
  BY <1>1, <1>2, <1>4, <1>13, HoldLocal, Zenon DEF QuietDrop, Handling
<1>14. CASE ResolveAgain
  <2>1. AfterResolve(mem) /\ pc \in Handling
    BY <1>14, Zenon DEF ResolveAgain, Handling
  <2> QED
    BY <1>1, <1>2, <1>4, <1>9, <2>1, MovedEnvelope, MoveLocal,
       ServiceAssumption, Zenon DEF AfterResolve
<1>15. CASE Finish
  <2>1. pc \in Handling /\ (Ack \/ finishResolvedItem)
    BY <1>15, Zenon DEF Finish, Handling
  <2>2. DueTimes(mem.ledger) \subseteq Nat
    BY <1>4, ServiceAssumption
       DEF DueTimes, Envelope, Ledgers, Entry, pendingTargets
  <2> QED
    BY <1>6, <1>8, <2>1, <2>2, Zenon DEF finishResolvedItem
<1> QED
  BY <1>10, <1>11, <1>12, <1>13, <1>14, <1>15, Zenon

-----------------------------------------------------------------------------
\* A step of the handler that replaces the inflight file of its item.
LEMMA ReplaceStep ==
  ASSUME SpoolInv, LocalInv, pc \in Handling,
         NEW e \in Envelope, write("inflight", cur, e),
         UNCHANGED <<now, accepted, forgotten>>,
         recorded' \in [Item -> SUBSET Target],
         \A j \in Item \ {cur} : recorded'[j] = recorded[j],
         \A t \in recorded'[cur] : e.ledger[t].state = "succeeded",
         pc' \in Handling \ {"record"},
         mem' \in Envelope, mem'.ledger = e.ledger,
         todo' \subseteq pendingTargets(e.ledger),
         result' = NoResult, dst' \in {"pending", "history", "dead"},
         UNCHANGED <<scan, cur, at>>
  PROVE  SpoolInv' /\ LocalInv'
<1>1. /\ cur \in Item /\ exists("inflight", cur) /\ ~completedTransition(cur)
      /\ scan = {} /\ at \in Nat
  BY ZenonT(30) DEF LocalInv, HandledItem, ScanOK, LocalType, Handling
<1>2. accepted' = accepted \cup {cur}
  BY <1>1, ZenonT(30) DEF SpoolInv, Accounted, onDisk, Dir
<1>3. SpoolInv'
  <2>1. \A x \in Dir \ {"inflight"} : ~exists(x, cur)
    BY <1>1, ZenonT(30) DEF completedTransition, Dir
  <2> QED
    BY <1>1, <1>2, <2>1, WriteSpool, ZenonT(30) DEF Dir
<1>4. \A x \in Dir : disk'[x][cur] = IF x = "inflight" THEN e ELSE disk[x][cur]
  BY <1>1, SMTT(30) DEF write, SpoolInv, DiskType
<1>5. LocalType'
  BY <1>1, SMTT(30) DEF LocalType, Running, Handling, pendingTargets, NoResult, Outcome
<1>6. ScanOK'
  BY <1>1, SMTT(30) DEF ScanOK, Handling
<1>7. HandledItem'
  BY <1>1, <1>4, NoneAssumption, SMTT(30)
     DEF HandledItem, Handling, exists, completedTransition, Dir
<1>8. OpenTargets'
  BY SMTT(30) DEF OpenTargets
<1> QED
  BY <1>3, <1>5, <1>6, <1>7, <1>8, SMTT(30) DEF LocalInv

\* updateTarget on a pending target: no success is overwritten.
LEMMA UpdateStep ==
  ASSUME SpoolInv, LocalInv, pc \in {"deliver", "failing", "dropping", "record"},
         NEW t \in Target, mem.ledger[t].state = "pending",
         NEW entry \in Entry, NEW where \in {"deliver", "failing", "dropping"},
         UpdateTarget(t, entry, where),
         UNCHANGED <<now, accepted, forgotten>>,
         \/ UNCHANGED recorded
         \/ /\ entry.state = "succeeded"
            /\ recorded' = [recorded EXCEPT ![cur] = @ \cup {t}]
  PROVE  SpoolInv' /\ LocalInv'
<1> DEFINE updated == [mem EXCEPT !.ledger[t] = entry]
<1>1. /\ mem \in Envelope /\ mem.ledger \in Ledgers /\ cur \in Item
      /\ todo \subseteq pendingTargets(mem.ledger)
      /\ dst \in {"pending", "history", "dead"} /\ pc \in Handling
      /\ exists("inflight", cur)
      /\ mem.ledger = disk["inflight"][cur].ledger
  BY ZenonT(30) DEF LocalInv, LocalType, HandledItem, OpenTargets, Handling, Envelope
<1>2. /\ updated \in Envelope
      /\ updated.ledger = [mem.ledger EXCEPT ![t] = entry]
  BY <1>1, UpdatedEnvelope, Zenon
<1>3. /\ write("inflight", cur, updated)
      /\ Hold(where, updated, todo \ {t}, NoResult, dst)
  BY SMTT(30) DEF UpdateTarget
<1> HIDE DEF updated
<1>4. todo \ {t} \in SUBSET pendingTargets(updated.ledger)
  BY <1>1, <1>2, Zenon DEF pendingTargets, Ledgers
<1>5. \A u \in recorded[cur] : u # t /\ mem.ledger[u].state = "succeeded"
  <2>1. "inflight" \in Dir /\ cur \in Item /\ exists("inflight", cur)
    BY <1>1, ZenonT(30) DEF Dir
  <2>2. RecordedSuccessDurable
    BY Zenon DEF SpoolInv
  <2>3. \A u \in recorded[cur] : disk["inflight"][cur].ledger[u].state = "succeeded"
    BY <2>1, <2>2, ZenonT(30) DEF RecordedSuccessDurable
  <2>4. mem.ledger = disk["inflight"][cur].ledger
    BY <1>1, Zenon
  <2>5. \A u \in recorded[cur] : mem.ledger[u].state = "succeeded"
    BY <2>3, <2>4, SMTT(30)
  <2> QED
    BY <2>5, Zenon
<1>6. /\ recorded' \in [Item -> SUBSET Target]
      /\ \A j \in Item \ {cur} : recorded'[j] = recorded[j]
      /\ \A u \in recorded'[cur] :
           u \in Target /\ (u \in recorded[cur] \/ (u = t /\ entry.state = "succeeded"))
  <2>1. recorded \in [Item -> SUBSET Target] /\ cur \in Item
    BY <1>1, Zenon DEF SpoolInv, HistoryType
  <2>2. CASE UNCHANGED recorded
    BY <2>1, <2>2, Zenon
  <2>3. CASE /\ entry.state = "succeeded"
             /\ recorded' = [recorded EXCEPT ![cur] = @ \cup {t}]
    <3>1. recorded'[cur] = recorded[cur] \cup {t}
      BY <2>1, <2>3, Zenon
    <3>2. recorded' \in [Item -> SUBSET Target]
      BY <2>1, <2>3, Zenon
    <3>3. \A j \in Item \ {cur} : recorded'[j] = recorded[j]
      BY <2>1, <2>3, Zenon
    <3> QED
      BY <2>1, <2>3, <3>1, <3>2, <3>3, Zenon
  <2> QED
    BY <2>2, <2>3, SMTT(30)
<1>7. \A u \in recorded'[cur] : updated.ledger[u].state = "succeeded"
  <2>1. mem.ledger \in [Target -> Entry]
    BY <1>1, Zenon DEF Ledgers
  <2>2. updated.ledger[t] = entry
    BY <1>2, <2>1, Zenon
  <2>3. \A u \in Target \ {t} : updated.ledger[u] = mem.ledger[u]
    BY <1>2, <2>1, Zenon
  <2> SUFFICES ASSUME NEW u \in recorded'[cur]
               PROVE  updated.ledger[u].state = "succeeded"
    OBVIOUS
  <2>4. CASE u \in recorded[cur]
    BY <1>5, <1>6, <2>3, <2>4
  <2>5. CASE u = t /\ entry.state = "succeeded"
    BY <2>2, <2>5, Zenon
  <2> QED
    BY <1>6, <2>4, <2>5, Zenon
<1> QED
  <2>1. /\ pc' \in Handling \ {"record"}
        /\ mem' \in Envelope /\ mem'.ledger = updated.ledger
        /\ todo' \subseteq pendingTargets(updated.ledger)
        /\ result' = NoResult /\ dst' \in {"pending", "history", "dead"}
        /\ UNCHANGED <<scan, cur, at>>
    BY <1>1, <1>2, <1>3, <1>4, Zenon DEF Handling, Hold
  <2> QED
    BY <1>1, <1>2, <1>3, <1>6, <1>7, <2>1, ReplaceStep, ZenonT(30)

\* Handing a message to the sender changes no file; only a pending target is
\* handed over.
LEMMA SendStep ==
  ASSUME IInv, SendLegacy \/ \E t \in Target : SendTarget(t)
  PROVE  IInv'
<1>1. SpoolInv /\ LocalInv /\ CounterType
  BY Zenon DEF IInv
<1>2. PICK t \in Target \cup {Legacy} : Send(t)
  BY ZenonT(30) DEF SendLegacy, SendTarget
<1>3. SpoolInv' /\ UNCHANGED disk
  BY <1>1, <1>2, SpoolUnchanged, Zenon DEF Send
<1>4. CounterType'
  <2>1. sends' \in [Item -> [Target \cup {Legacy} -> Nat]]
    <3> DEFINE Counts == [Target \cup {Legacy} -> Nat]
    <3>1. sends \in [Item -> Counts] /\ cur \in Item
      BY <1>1, ZenonT(30)
         DEF CounterType, LocalInv, HandledItem, SendLegacy, SendTarget, Handling
    <3>2. [sends[cur] EXCEPT ![t] = @ + 1] \in Counts
      BY <3>1
    <3>3. sends' = [sends EXCEPT ![cur] = [sends[cur] EXCEPT ![t] = @ + 1]]
      BY <1>2, Zenon DEF Send
    <3> HIDE DEF Counts
    <3>4. sends' \in [Item -> Counts]
      BY <3>1, <3>2, <3>3, Zenon
    <3> QED
      BY <3>4, SMTT(30) DEF Counts
  <2> QED
    BY <1>1, <1>2, <2>1, ZenonT(30) DEF Send, CounterType
<1> SUFFICES LocalInv'
  BY <1>3, <1>4, Zenon DEF IInv
<1>5. mem \in Envelope /\ dst \in {"pending", "history", "dead"}
  BY <1>1, Zenon DEF LocalInv, LocalType
<1>6. CASE SendLegacy
  <2>1. PICK outcome \in Outcome :
          Hold("legacyRecord", mem, {}, [target |-> Legacy, outcome |-> outcome], dst)
    BY <1>6, Zenon DEF SendLegacy
  <2>2. pc \in Handling /\ "legacyRecord" \in Handling
    BY <1>6, SMTT(30) DEF SendLegacy, Handling
  <2> QED
    BY <1>1, <1>3, <1>5, <2>1, <2>2, HoldLocal, Zenon
<1>7. ASSUME NEW u \in Target, SendTarget(u) PROVE LocalInv'
  <2>1. PICK outcome \in Outcome :
          Hold("record", mem, todo \ {u}, [target |-> u, outcome |-> outcome], dst)
    BY <1>7, Zenon DEF SendTarget
  <2>2. pc \in Handling /\ "record" \in Handling
    BY <1>7, SMTT(30) DEF SendTarget, Handling
  <2>3. todo \ {u} \in SUBSET pendingTargets(mem.ledger) /\ mem.ledger[u].state = "pending"
    BY <1>1, <1>7, Zenon DEF SendTarget, LocalInv, OpenTargets, pendingTargets
  <2> QED
    BY <1>1, <1>3, <1>5, <2>1, <2>2, <2>3, HoldLocal, Zenon
<1> QED
  BY <1>6, <1>7, Zenon

\* The steps that rewrite the ledger in the inflight file.
LEMMA LedgerStep ==
  ASSUME IInv,
         \/ \E T \in SUBSET Target : ResolveNew(T)
         \/ RecordTarget
         \/ \E t \in Target : FailTarget(t) \/ DropTarget(t)
  PROVE  IInv'
<1>1. SpoolInv /\ LocalInv /\ CounterType
  BY Zenon DEF IInv
<1>2. CounterType'
  BY <1>1, ZenonT(30)
     DEF ResolveNew, RecordTarget, FailTarget, DropTarget, observed, CounterType
<1> SUFFICES SpoolInv' /\ LocalInv'
  BY <1>2, Zenon DEF IInv
<1>3. at \in Nat /\ mem \in Envelope /\ mem.ledger \in Ledgers
      /\ result.outcome \in Outcome
  BY <1>1, Zenon DEF LocalInv, LocalType, Envelope
<1>4. CASE RecordTarget
  <2> DEFINE t == result.target
  <2>1. /\ pc = "record" /\ t \in Target /\ mem.ledger[t].state = "pending"
        /\ mem.ledger[t] \in Entry
    BY <1>1, <1>3, <1>4, Zenon DEF RecordTarget, LocalInv, OpenTargets, Ledgers
  <2>2. CASE result.outcome = "ok"
    <3>1. /\ UpdateTarget(t, AckEntry(mem.ledger[t]), "deliver")
          /\ recorded' = [recorded EXCEPT ![cur] = @ \cup {t}]
          /\ UNCHANGED <<now, accepted, forgotten>>
      BY <1>4, <2>2, ZenonT(30) DEF RecordTarget
    <3>2. AckEntry(mem.ledger[t]) \in Entry /\ AckEntry(mem.ledger[t]).state = "succeeded"
      BY <1>3, <2>1, UpdatedEntry, ZenonT(30)
    <3> QED
      BY <1>1, <2>1, <3>1, <3>2, UpdateStep, ZenonT(30)
  <2>3. CASE result.outcome # "ok"
    <3> DEFINE entry == failTarget(mem.ledger[t], result.outcome = "permanent", at)
    <3>1. /\ UpdateTarget(t, entry, "deliver")
          /\ UNCHANGED <<now, accepted, forgotten>> /\ UNCHANGED recorded
      BY <1>4, <2>3, Zenon DEF RecordTarget
    <3>2. entry \in Entry
      BY <1>3, <2>1, UpdatedEntry, ZenonT(30)
    <3> QED
      BY <1>1, <2>1, <3>1, <3>2, UpdateStep, SMTT(30)
  <2> QED
    BY <2>2, <2>3, SMTT(30)
<1>5. ASSUME NEW t \in Target, FailTarget(t) PROVE SpoolInv' /\ LocalInv'
  <2>1. /\ pc \in {"deliver", "failing"} /\ mem.ledger[t].state = "pending"
        /\ mem.ledger[t] \in Entry
    BY <1>1, <1>3, <1>5, Zenon DEF FailTarget, LocalInv, OpenTargets, pendingTargets, Ledgers
  <2>2. failTarget(mem.ledger[t], FALSE, at) \in Entry
    BY <1>3, <2>1, UpdatedEntry, ZenonT(30)
  <2> QED
    BY <1>1, <1>5, <2>1, <2>2, UpdateStep, ZenonT(30) DEF FailTarget, observed
<1>6. ASSUME NEW t \in Target, DropTarget(t) PROVE SpoolInv' /\ LocalInv'
  <2>1. /\ pc = "dropping" /\ mem.ledger[t].state = "pending"
        /\ mem.ledger[t] \in Entry
    BY <1>1, <1>3, <1>6, Zenon DEF DropTarget, LocalInv, OpenTargets, pendingTargets, Ledgers
  <2>2. DeadEntry(mem.ledger[t]) \in Entry
    BY <1>3, <2>1, UpdatedEntry, ZenonT(30)
  <2>3. /\ UpdateTarget(t, DeadEntry(mem.ledger[t]), "dropping")
        /\ UNCHANGED <<now, accepted, forgotten>> /\ UNCHANGED recorded
    BY <1>6, ZenonT(30) DEF DropTarget, observed
  <2> QED
    BY <1>1, <2>1, <2>2, <2>3, UpdateStep, ZenonT(30)
<1>7. ASSUME NEW T \in SUBSET Target, ResolveNew(T) PROVE SpoolInv' /\ LocalInv'
  <2> DEFINE resolved == [mem EXCEPT !.ledger = newDeliveryLedger(T)]
  <2>1. resolved \in Envelope
    BY <1>3, ZenonT(30)
       DEF Envelope, newDeliveryLedger, Ledgers, Entry, NoEntry, DeliveryState
  <2>2. /\ pc \in Handling /\ ~HasLedger(mem.ledger)
        /\ write("inflight", cur, resolved) /\ AfterResolve(resolved)
        /\ UNCHANGED <<now, accepted, forgotten, recorded>>
    BY <1>7, SMTT(30) DEF ResolveNew, Handling, observed
  <2> HIDE DEF resolved
  <2>3. cur \in Item /\ recorded[cur] = {}
    <3>1. /\ cur \in Item /\ exists("inflight", cur)
          /\ mem.ledger = disk["inflight"][cur].ledger
      BY <1>1, <2>2, ZenonT(30) DEF LocalInv, HandledItem
    <3>2. RecordedSuccessDurable /\ recorded \in [Item -> SUBSET Target]
      BY <1>1, SMTT(30) DEF SpoolInv, HistoryType
    <3>3. \A u \in recorded[cur] : disk["inflight"][cur].ledger[u].state = "succeeded"
      BY <3>1, <3>2, ZenonT(30) DEF RecordedSuccessDurable, Dir
    <3> QED
      BY <2>2, <3>1, <3>2, <3>3, Zenon DEF HasLedger
  <2>4. /\ pc' \in Handling \ {"record"}
        /\ mem' \in Envelope /\ mem'.ledger = resolved.ledger
        /\ todo' \subseteq pendingTargets(resolved.ledger)
        /\ result' = NoResult /\ dst' \in {"pending", "history", "dead"}
        /\ UNCHANGED <<scan, cur, at>>
    <3>1. /\ ackEnvelope(resolved) \in Envelope
          /\ ackEnvelope(resolved).ledger = resolved.ledger
          /\ deferEnvelope(resolved, QuietUntil) \in Envelope
          /\ deferEnvelope(resolved, QuietUntil).ledger = resolved.ledger
      BY <1>1, <2>1, MovedEnvelope, ServiceAssumption, SMTT(30) DEF SpoolInv, DiskType
    <3>2. readyTargets(resolved.ledger, at) \subseteq pendingTargets(resolved.ledger)
      BY Zenon DEF readyTargets
    <3>3. dst \in {"pending", "history", "dead"}
      BY <1>1, SMTT(30) DEF LocalInv, LocalType
    <3> QED
      BY <2>1, <2>2, <3>1, <3>2, <3>3, Zenon DEF AfterResolve, Move, Hold, Handling
  <2> QED
    BY <1>1, <2>1, <2>2, <2>3, <2>4, ReplaceStep, Zenon DEF SpoolInv, HistoryType
<1> QED
  BY <1>4, <1>5, <1>6, <1>7, Zenon

-----------------------------------------------------------------------------
\* A copy with the ledger of a copy on disk remembers every recorded success.
LEMMA CopiedLedger ==
  ASSUME SpoolInv, NEW i \in Item, NEW d \in Dir, exists(d, i),
         NEW e, e.ledger = disk[d][i].ledger
  PROVE  \A t \in recorded[i] : e.ledger[t].state = "succeeded"
<1>1. \A t \in recorded[i] : disk[d][i].ledger[t].state = "succeeded"
  BY ZenonT(30) DEF SpoolInv, RecordedSuccessDurable
<1> QED
  BY <1>1, Zenon

\* Writing a copy with the same ledger into another directory.
LEMMA CopySpool ==
  ASSUME SpoolInv, NEW i \in Item, NEW from \in Dir, exists(from, i),
         NEW d \in Dir, NEW e \in Envelope, e.ledger = disk[from][i].ledger,
         write(d, i, e), UNCHANGED <<now, accepted, forgotten, recorded>>,
         d # "inflight" => ~completedTransition(i)
  PROVE  SpoolInv'
<1>1. accepted' = accepted \cup {i}
  BY ZenonT(30) DEF SpoolInv, Accounted, onDisk
<1>2. recorded' \in [Item -> SUBSET Target]
  BY Zenon DEF SpoolInv, HistoryType
<1>3. \A t \in recorded'[i] : e.ledger[t].state = "succeeded"
  BY CopiedLedger, ZenonT(30)
<1>4. \A x \in Dir \ {d} : exists(x, i) =>
        \A t \in recorded'[i] : disk[x][i].ledger[t].state = "succeeded"
  BY ZenonT(30) DEF SpoolInv, RecordedSuccessDurable
<1>5. d # "inflight" =>
        \A x \in {"pending", "history", "dead"} : exists(x, i) => x = d
  BY ZenonT(30) DEF completedTransition
<1> QED
  BY <1>1, <1>2, <1>3, <1>4, <1>5, WriteSpool, ZenonT(30)

\* Claim: the inflight copy is written before the pending one is removed.
LEMMA ClaimStep ==
  ASSUME IInv, (\E i \in Item : ClaimDrop(i) \/ ClaimWrite(i)) \/ ClaimRemove
  PROVE  IInv'
<1>1. SpoolInv /\ LocalInv /\ CounterType
  BY Zenon DEF IInv
<1>2. CounterType'
  BY <1>1, ZenonT(30) DEF ClaimDrop, ClaimWrite, ClaimRemove, observed, CounterType
<1> SUFFICES SpoolInv' /\ LocalInv'
  BY <1>2, Zenon DEF IInv
<1>3. ASSUME NEW i \in Item, ClaimDrop(i) PROVE SpoolInv' /\ LocalInv'
  <2>1. SpoolInv'
    BY <1>1, <1>3, RemoveSpool, ZenonT(30) DEF ClaimDrop, observed, Dir
  <2>2. LocalInv'
    BY <1>1, <1>3, Zenon DEF ClaimDrop, local, LocalInv, LocalType, ScanOK, HandledItem,
                      OpenTargets, Handling
  <2> QED
    BY <2>1, <2>2, Zenon
<1>4. ASSUME NEW i \in Item, ClaimWrite(i) PROVE SpoolInv' /\ LocalInv'
  <2> DEFINE e == claimEnvelope(disk["pending"][i])
  <2>1. exists("pending", i) /\ ~exists("inflight", i)
    BY <1>4, ZenonT(30) DEF ClaimWrite, isFirst, claimable, inDirectory
  <2>2. disk["pending"][i] \in Envelope /\ now \in Nat
    BY <1>1, <2>1, Zenon DEF SpoolInv, DiskType, exists, Dir
  <2>3. e \in Envelope /\ e.ledger = disk["pending"][i].ledger
    BY <2>2, MovedEnvelope, SMTT(30)
  <2>4. /\ write("inflight", i, e) /\ mem' = e /\ cur' = i /\ at' = now
        /\ pc = "idle" /\ pc' = "claimRemove"
        /\ UNCHANGED <<now, accepted, forgotten, recorded>>
        /\ UNCHANGED <<scan, todo, result, dst>>
    BY <1>4, Zenon DEF ClaimWrite, observed
  <2> HIDE DEF e
  <2>5. SpoolInv'
    BY <1>1, <2>1, <2>3, <2>4, CopySpool, ZenonT(30) DEF Dir
  <2>6. disk'["inflight"][i] = e /\ disk'["pending"][i] = disk["pending"][i]
    BY <1>1, <2>4, SMTT(30) DEF write, SpoolInv, DiskType, Dir
  <2>7. LocalType'
    BY <1>1, <2>2, <2>3, <2>4, Zenon DEF LocalInv, LocalType, Running
  <2>8. ScanOK' /\ OpenTargets'
    BY <1>1, <2>4, ZenonT(30) DEF LocalInv, ScanOK, OpenTargets
  <2>9. HandledItem'
    BY <2>1, <2>3, <2>4, <2>6, NoneAssumption, ZenonT(30)
       DEF HandledItem, Handling, exists
  <2> QED
    BY <2>5, <2>7, <2>8, <2>9, SMTT(30) DEF LocalInv
<1>5. CASE ClaimRemove
  <2>1. /\ cur \in Item /\ exists("inflight", cur) /\ exists("pending", cur)
        /\ mem.ledger = disk["inflight"][cur].ledger
    BY <1>1, <1>5, ZenonT(30) DEF ClaimRemove, LocalInv, HandledItem
  <2>2. /\ remove("pending", cur) /\ pc = "claimRemove" /\ pc' = "load"
        /\ UNCHANGED <<now, accepted, forgotten, recorded>>
        /\ UNCHANGED <<scan, cur, mem, at, todo, result, dst>>
    BY <1>5, Zenon DEF ClaimRemove, observed
  <2>3. SpoolInv'
    BY <1>1, <2>1, <2>2, RemoveSpool, ZenonT(30) DEF Dir
  <2>4. \A x \in Dir : disk'[x][cur] = IF x = "pending" THEN None ELSE disk[x][cur]
    BY <1>1, <2>1, <2>2, Zenon DEF remove, SpoolInv, DiskType
  <2>5. ~exists("history", cur) /\ ~exists("dead", cur)
    BY <1>1, <2>1, ZenonT(30) DEF SpoolInv, OneSettledCopy
  <2>6. LocalType' /\ ScanOK' /\ OpenTargets'
    BY <1>1, <2>2, SMTT(30) DEF LocalInv, LocalType, Running, ScanOK, OpenTargets
  <2>7. HandledItem'
    BY <2>1, <2>2, <2>4, <2>5, Zenon
       DEF HandledItem, Handling, exists, completedTransition, Dir
  <2> QED
    BY <2>3, <2>6, <2>7, SMTT(30) DEF LocalInv
<1> QED
  BY <1>3, <1>4, <1>5, Zenon

\* The transition out of inflight: the copy in the destination is written
\* before the inflight one is removed.
LEMMA TransitionStep ==
  ASSUME IInv, WriteDestination \/ RemoveSource
  PROVE  IInv'
<1>1. SpoolInv /\ LocalInv /\ CounterType
  BY Zenon DEF IInv
<1>2. CounterType'
  BY <1>1, ZenonT(30) DEF WriteDestination, RemoveSource, observed, CounterType
<1> SUFFICES SpoolInv' /\ LocalInv'
  BY <1>2, Zenon DEF IInv
<1>3. CASE WriteDestination /\ exists(dst, cur)
  <2>1. Goto("idle") /\ UNCHANGED <<disk, now, accepted, forgotten, recorded>>
    BY <1>3, Zenon DEF WriteDestination, observed
  <2> QED
    BY <1>1, <2>1, GotoLocal, SpoolUnchanged, Zenon
<1>4. CASE WriteDestination /\ ~exists(dst, cur)
  <2>1. /\ write(dst, cur, mem) /\ pc = "write" /\ pc' = "remove"
        /\ UNCHANGED <<scan, cur, mem, at, todo, result, dst>>
        /\ UNCHANGED <<now, accepted, forgotten, recorded>>
    BY <1>4, Zenon DEF WriteDestination, observed
  <2>2. /\ cur \in Item /\ exists("inflight", cur) /\ ~completedTransition(cur)
        /\ mem.ledger = disk["inflight"][cur].ledger /\ mem \in Envelope
        /\ dst \in {"pending", "history", "dead"}
    BY <1>1, <2>1, ZenonT(30) DEF LocalInv, HandledItem, LocalType, Handling
  <2>3. SpoolInv'
    BY <1>1, <2>1, <2>2, CopySpool, ZenonT(30) DEF Dir
  <2>4. disk'[dst][cur] = mem
    BY <1>1, <2>1, <2>2, SMTT(30) DEF write, SpoolInv, DiskType, Dir
  <2>5. LocalType' /\ ScanOK' /\ OpenTargets'
    BY <1>1, <2>1, SMTT(30) DEF LocalInv, LocalType, Running, ScanOK, OpenTargets
  <2>6. HandledItem'
    BY <2>1, <2>2, <2>4, NoneAssumption, SMTT(30)
       DEF HandledItem, Handling, exists, completedTransition
  <2> QED
    BY <2>3, <2>5, <2>6, Zenon DEF LocalInv
<1>5. CASE RemoveSource
  <2>1. cur \in Item /\ completedTransition(cur)
    BY <1>1, <1>5, Zenon DEF RemoveSource, LocalInv, HandledItem
  <2>2. /\ remove("inflight", cur) /\ Goto("idle")
        /\ UNCHANGED <<now, accepted, forgotten, recorded>>
    BY <1>5, Zenon DEF RemoveSource, observed
  <2>3. \E x \in Dir \ {"inflight"} : exists(x, cur)
    BY <2>1, ZenonT(30) DEF completedTransition, Dir
  <2> QED
    BY <1>1, <2>1, <2>2, <2>3, RemoveSpool, GotoLocal, ZenonT(30) DEF Dir
<1> QED
  BY <1>3, <1>4, <1>5, ZenonT(30)

-----------------------------------------------------------------------------
\* RecoverExpired repairs one listed item.
LEMMA RecoverStep ==
  ASSUME IInv,
         \/ Start \/ RecoverRemove
         \/ \E i \in Item : RecoverRepair(i) \/ RecoverSkip(i) \/ RecoverWrite(i)
  PROVE  IInv'
<1>1. SpoolInv /\ LocalInv /\ CounterType
  BY Zenon DEF IInv
<1>2. CounterType'
  BY <1>1, ZenonT(30) DEF Start, RecoverRemove, RecoverRepair, RecoverSkip, RecoverWrite,
              observed, CounterType
<1> SUFFICES SpoolInv' /\ LocalInv'
  BY <1>2, Zenon DEF IInv
<1>3. CASE Start
  <2>1. SpoolInv'
    BY <1>1, <1>3, SpoolUnchanged, Zenon DEF Start, observed
  <2>2. LocalType'
    BY <1>1, <1>3, ZenonT(30) DEF Start, LocalInv, LocalType, Running, inDirectory,
                      SpoolInv, DiskType
  <2>3. ScanOK' /\ HandledItem' /\ OpenTargets'
    BY <1>3, Zenon DEF Start, ScanOK, HandledItem, OpenTargets, Handling, inDirectory, exists
  <2> QED
    BY <2>1, <2>2, <2>3, Zenon DEF LocalInv
<1>4. CASE RecoverRemove
  <2>1. /\ cur \in Item /\ completedTransition(cur) /\ cur \notin scan
        /\ \A i \in scan : exists("inflight", i) /\ i \in Item
    BY <1>1, <1>4, ZenonT(30) DEF RecoverRemove, LocalInv, LocalType, HandledItem, ScanOK
  <2>2. /\ remove("inflight", cur) /\ pc' = "recover" /\ cur' = NoItem
        /\ UNCHANGED <<now, accepted, forgotten, recorded>>
        /\ UNCHANGED <<scan, mem, at, todo, result, dst>>
    BY <1>4, Zenon DEF RecoverRemove, observed
  <2>3. \E x \in Dir \ {"inflight"} : exists(x, cur)
    BY <2>1, ZenonT(30) DEF completedTransition, Dir
  <2>4. SpoolInv'
    BY <1>1, <2>1, <2>2, <2>3, RemoveSpool, ZenonT(30) DEF Dir
  <2>5. \A i \in scan : disk'["inflight"][i] = disk["inflight"][i]
    BY <1>1, <2>1, <2>2, Zenon DEF remove, SpoolInv, DiskType, Dir
  <2>6. LocalType' /\ HandledItem' /\ OpenTargets'
    BY <1>1, <2>2, ZenonT(30)
       DEF LocalInv, LocalType, Running, HandledItem, OpenTargets, Handling
  <2>7. ScanOK'
    BY <2>1, <2>2, <2>5, ZenonT(30) DEF ScanOK, exists
  <2> QED
    BY <2>4, <2>6, <2>7, Zenon DEF LocalInv
<1>5. ASSUME NEW i \in Item, RecoverRepair(i) PROVE SpoolInv' /\ LocalInv'
  <2>1. /\ completedTransition(i) /\ pc = "recover"
        /\ \A j \in scan : exists("inflight", j) /\ j \in Item
    BY <1>1, <1>5, ZenonT(30) DEF RecoverRepair, LocalInv, LocalType, ScanOK
  <2>2. /\ remove("inflight", i) /\ scan' = scan \ {i}
        /\ UNCHANGED <<now, accepted, forgotten, recorded>>
        /\ UNCHANGED <<pc, cur, mem, at, todo, result, dst>>
    BY <1>5, Zenon DEF RecoverRepair, observed
  <2>3. \E x \in Dir \ {"inflight"} : exists(x, i)
    BY <2>1, ZenonT(30) DEF completedTransition, Dir
  <2>4. SpoolInv'
    BY <1>1, <2>2, <2>3, RemoveSpool, ZenonT(30) DEF Dir
  <2>5. \A j \in scan \ {i} : disk'["inflight"][j] = disk["inflight"][j]
    BY <1>1, <2>1, <2>2, Zenon DEF remove, SpoolInv, DiskType, Dir
  <2>6. LocalType' /\ HandledItem' /\ OpenTargets'
    BY <1>1, <2>1, <2>2, ZenonT(30)
       DEF LocalInv, LocalType, HandledItem, OpenTargets, Handling
  <2>7. ScanOK'
    BY <2>1, <2>2, <2>5, ZenonT(30) DEF ScanOK, exists
  <2> QED
    BY <2>4, <2>6, <2>7, SMTT(30) DEF LocalInv
<1>6. ASSUME NEW i \in Item, RecoverSkip(i) PROVE SpoolInv' /\ LocalInv'
  <2>1. SpoolInv'
    BY <1>1, <1>6, SpoolUnchanged, ZenonT(30) DEF RecoverSkip, observed
  <2>2. LocalInv'
    BY <1>1, <1>6, ZenonT(30) DEF RecoverSkip, LocalInv, LocalType, ScanOK, HandledItem,
                      OpenTargets, Handling, exists
  <2> QED
    BY <2>1, <2>2, SMTT(30)
<1>7. ASSUME NEW i \in Item, RecoverWrite(i) PROVE SpoolInv' /\ LocalInv'
  <2> DEFINE e == recoverEnvelope(disk["inflight"][i])
  <2>1. /\ ~completedTransition(i) /\ pc = "recover" /\ i \in scan
        /\ \A j \in scan : exists("inflight", j) /\ j \in Item
    BY <1>1, <1>7, ZenonT(30) DEF RecoverWrite, isFirst, LocalInv, LocalType, ScanOK
  <2>2. disk["inflight"][i] \in Envelope /\ now \in Nat
    BY <1>1, <2>1, Zenon DEF SpoolInv, DiskType, exists, Dir
  <2>3. e \in Envelope /\ e.ledger = disk["inflight"][i].ledger
    BY <2>2, MovedEnvelope, SMTT(30)
  <2>4. /\ write("pending", i, e) /\ pc' = "recoverRemove" /\ cur' = i
        /\ scan' = scan \ {i}
        /\ UNCHANGED <<now, accepted, forgotten, recorded>>
        /\ UNCHANGED <<mem, at, todo, result, dst>>
    BY <1>7, ZenonT(30) DEF RecoverWrite, observed
  <2> HIDE DEF e
  <2>5. SpoolInv'
    BY <1>1, <2>1, <2>3, <2>4, CopySpool, ZenonT(30) DEF Dir
  <2>6. /\ \A j \in scan : disk'["inflight"][j] = disk["inflight"][j]
        /\ disk'["pending"][i] = e
    BY <1>1, <2>1, <2>4, SMTT(30) DEF write, SpoolInv, DiskType, Dir
  <2>7. LocalType' /\ OpenTargets'
    BY <1>1, <2>4, SMTT(30) DEF LocalInv, LocalType, Running, OpenTargets
  <2>8. ScanOK'
    BY <2>1, <2>4, <2>6, SMTT(30) DEF ScanOK, exists
  <2>9. HandledItem'
    BY <2>3, <2>4, <2>6, NoneAssumption, Zenon
       DEF HandledItem, Handling, exists, completedTransition
  <2> QED
    BY <2>5, <2>7, <2>8, <2>9, SMTT(30) DEF LocalInv
<1> QED
  BY <1>3, <1>4, <1>5, <1>6, <1>7, Zenon

\* The retention rules remove files only from history and dead, and what they
\* remove counts as forgotten.
LEMMA ForgetSpool ==
  ASSUME SpoolInv, NEW d \in {"history", "dead"}, NEW old \in SUBSET Item,
         Forget(d, old),
         \A i \in old : exists(d, i)
  PROVE  SpoolInv'
<1> USE DEF SpoolInv
<1>1. DiskType' /\ HistoryType'
  BY Zenon DEF Forget, DiskType, HistoryType, Dir
<1>2. \A x \in Dir, j \in Item :
        disk'[x][j] = IF x = d /\ j \in old THEN None ELSE disk[x][j]
  BY Zenon DEF Forget, DiskType, Dir
<1>3. UNCHANGED <<accepted, recorded>> /\ forgotten' = forgotten \cup old
  BY SMTT(30) DEF Forget
<1>a. \A x \in Dir, j \in Item :
        disk'[x][j] # None => disk[x][j] # None /\ disk'[x][j] = disk[x][j]
  BY <1>2, SMTT(30)
<1>b. \A x \in Dir, j \in Item \ old : disk'[x][j] = disk[x][j]
  BY <1>2, Zenon
<1>c. {"pending", "history", "dead"} \subseteq Dir
  BY SMTT(30) DEF Dir
<1> HIDE DEF SpoolInv
<1>4. OneSettledCopy'
  <2>1. OneSettledCopy
    BY SMTT(30) DEF SpoolInv
  <2> QED
    BY <1>a, <1>c, <2>1, Zenon DEF OneSettledCopy, exists
<1>5. Accounted'
  <2>1. Accounted
    BY SMTT(30) DEF SpoolInv
  <2> QED
    BY <1>a, <1>3, <2>1, Zenon DEF Accounted, onDisk, exists
<1>6. NoLostItem'
  <2>1. NoLostItem /\ accepted \subseteq Item
    BY SMTT(30) DEF SpoolInv, HistoryType
  <2> QED
    BY <1>b, <1>3, <2>1, Zenon DEF NoLostItem, onDisk, exists
<1>7. RecordedSuccessDurable'
  <2> SUFFICES ASSUME NEW j \in Item, NEW x \in Dir, disk'[x][j] # None,
                      NEW t \in recorded[j]
               PROVE  disk'[x][j].ledger[t].state = "succeeded"
    BY <1>3, SMTT(30) DEF RecordedSuccessDurable, exists
  <2>1. disk[x][j] # None /\ disk'[x][j] = disk[x][j]
    BY <1>a, SMTT(30)
  <2>2. RecordedSuccessDurable
    BY SMTT(30) DEF SpoolInv
  <2>3. disk[x][j].ledger[t].state = "succeeded"
    BY <2>1, <2>2, Zenon DEF RecordedSuccessDurable, exists
  <2> QED
    BY <2>1, <2>3, SMTT(30)
<1> QED
  BY <1>1, <1>4, <1>5, <1>6, <1>7, SMTT(30) DEF SpoolInv

\* The retention steps of Run.
LEMMA RetentionStep ==
  ASSUME IInv, RecoverDone \/ CleanupHistory \/ CleanupDead
  PROVE  IInv'
<1>1. SpoolInv /\ LocalInv /\ CounterType
  BY SMTT(30) DEF IInv
<1>2. CounterType'
  BY <1>1, ZenonT(30)
     DEF RecoverDone, CleanupHistory, CleanupDead, Forget, observed, CounterType
<1>3. LocalInv'
  BY GotoLocal, Zenon DEF RecoverDone, CleanupHistory, CleanupDead
<1>4. SpoolInv'
  <2>1. CASE RecoverDone
    BY <1>1, <2>1, SpoolUnchanged, Zenon DEF RecoverDone, observed
  <2>2. CASE CleanupHistory
    <3>1. PICK old \in SUBSET inDirectory("history") : Forget("history", old)
      BY <2>2, Zenon DEF CleanupHistory
    <3> QED
      BY <1>1, <3>1, ForgetSpool, ZenonT(30) DEF inDirectory
  <2>3. CASE CleanupDead
    <3>1. PICK old \in SUBSET inDirectory("dead") :
            Forget("dead", old \cup excessDead(MaxDead))
      BY <2>3, ZenonT(30) DEF CleanupDead
    <3>2. old \cup excessDead(MaxDead) \subseteq inDirectory("dead")
      BY Zenon DEF excessDead
    <3> QED
      BY <1>1, <3>1, <3>2, ForgetSpool, ZenonT(30) DEF inDirectory
  <2> QED
    BY <2>1, <2>2, <2>3, Zenon
<1> QED
  BY <1>2, <1>3, <1>4, Zenon DEF IInv

-----------------------------------------------------------------------------
\* A new event has no file yet, so nothing the service holds is about it.
LEMMA EmitStep == ASSUME IInv, NEW i \in Item, Emit(i) PROVE IInv'
<1>1. SpoolInv /\ LocalInv /\ CounterType
  BY Zenon DEF IInv
<1>2. /\ i \notin accepted /\ write("pending", i, NewEnvelope)
      /\ accepted' = accepted \cup {i}
      /\ UNCHANGED <<now, forgotten, recorded, sends, crashes, faults>>
      /\ UNCHANGED <<pc, scan, cur, mem, at, todo, result, dst>>
  BY Zenon DEF Emit, local
<1>3. recorded[i] = {} /\ \A d \in Dir : ~exists(d, i)
  BY <1>1, <1>2, ZenonT(30) DEF SpoolInv, Accounted, onDisk
<1>4. SpoolInv'
  <2>1. recorded' \in [Item -> SUBSET Target]
    BY <1>1, <1>2, Zenon DEF SpoolInv, HistoryType
  <2> QED
    BY <1>1, <1>2, <1>3, <2>1, NewEnvelopeType, WriteSpool, ZenonT(30) DEF Dir
<1>5. CounterType'
  BY <1>1, <1>2, SMTT(30) DEF CounterType
<1>6. \A d \in Dir, j \in Item : j # i => disk'[d][j] = disk[d][j]
  BY <1>1, <1>2, Zenon DEF write, SpoolInv, DiskType
<1>7. LocalType' /\ OpenTargets'
  BY <1>1, <1>2, SMTT(30) DEF LocalInv, LocalType, OpenTargets
<1>8. ScanOK'
  BY <1>1, <1>2, <1>3, <1>6, SMTT(30) DEF LocalInv, LocalType, ScanOK, exists, Dir
<1>9. HandledItem'
  <2>1. pc \in Handling \cup {"claimRemove", "remove", "recoverRemove"} =>
          /\ cur \in Item /\ cur # i
          /\ \A d \in Dir : disk'[d][cur] = disk[d][cur]
    BY <1>1, <1>3, <1>6, ZenonT(30)
       DEF LocalInv, HandledItem, Handling, completedTransition, Dir
  <2> QED
    BY <1>1, <1>2, <2>1, SMTT(30)
       DEF LocalInv, HandledItem, Handling, completedTransition, exists, Dir
<1> QED
  BY <1>4, <1>5, <1>7, <1>8, <1>9, Zenon DEF IInv, LocalInv

\* A step that changes at most the clock.
LEMMA ClockStep ==
  ASSUME IInv, now' \in Nat, UNCHANGED <<disk, local, observed>>
  PROVE  IInv'
<1>1. DiskType' /\ HistoryType' /\ CounterType' /\ LocalType'
  BY ZenonT(30)
     DEF IInv, SpoolInv, LocalInv, DiskType, HistoryType, CounterType, LocalType,
         local, observed
<1>2. OneSettledCopy' /\ Accounted' /\ NoLostItem' /\ RecordedSuccessDurable'
  BY SMTT(30) DEF IInv, SpoolInv, OneSettledCopy, Accounted, NoLostItem,
         RecordedSuccessDurable, observed, exists, onDisk
<1>3. ScanOK' /\ HandledItem' /\ OpenTargets'
  BY Zenon DEF IInv, LocalInv, ScanOK, HandledItem, OpenTargets, local, exists,
         completedTransition
<1> QED
  BY <1>1, <1>2, <1>3, Zenon DEF IInv, SpoolInv, LocalInv

\* Every step of the service and its environment preserves the invariant.
LEMMA NextIInv == IInv /\ [Next]_vars => IInv'
<1> SUFFICES ASSUME IInv, [Next]_vars PROVE IInv'
  OBVIOUS
<1>1. now \in Nat
  BY Zenon DEF IInv, SpoolInv, DiskType
<1>2. CASE UNCHANGED vars
  BY <1>1, <1>2, ClockStep, Zenon DEF vars
<1>3. ASSUME NEW i \in Item, Emit(i) PROVE IInv'
  BY <1>3, EmitStep, Zenon
<1>4. CASE Tick
  <2>1. now' \in Nat /\ UNCHANGED <<disk, local, observed>>
    BY <1>1, <1>4 DEF Tick
  <2> QED
    BY <2>1, ClockStep, Zenon
<1>5. CASE Startup
  BY <1>5, RecoverStep, RetentionStep, Zenon DEF Startup
<1>6. CASE ProcessOne
  BY <1>6, ClaimStep, DecisionStep, SendStep, LedgerStep, TransitionStep, Zenon
     DEF ProcessOne
<1>7. CASE Interruption
  BY <1>7, InterruptionStep, Zenon
<1> QED
  BY <1>2, <1>3, <1>4, <1>5, <1>6, <1>7, Zenon DEF Next

\* The invariant holds in every reachable state.
THEOREM Invariance == Spec => []IInv
BY InitIInv, NextIInv, PTL DEF Spec

\* Every variable of the service and the spool keeps its type.
THEOREM TypeCorrect == Spec => []TypeOK
<1>1. IInv => TypeOK
  BY ZenonT(30)
     DEF IInv, SpoolInv, LocalInv, DiskType, HistoryType, CounterType, LocalType,
         TypeOK
<1> QED
  BY <1>1, Invariance, PTL

\* An accepted event keeps a file until retention removes it, whatever is
\* interrupted: the two halves of a transition never leave it without a copy.
THEOREM NoItemIsLost == Spec => []NoLostItem
<1>1. IInv => NoLostItem
  BY Zenon DEF IInv, SpoolInv
<1> QED
  BY <1>1, Invariance, PTL

\* Every copy of an item remembers every success AckTarget has written.
THEOREM SuccessIsDurable == Spec => []RecordedSuccessDurable
<1>1. IInv => RecordedSuccessDurable
  BY Zenon DEF IInv, SpoolInv
<1> QED
  BY <1>1, Invariance, PTL

\* Only the two sends of a handler change the counters.
LEMMA SendOnly ==
  ASSUME Next, sends' # sends
  PROVE  SendLegacy \/ \E t \in Target : SendTarget(t)
BY ZenonT(30) DEF Next, Emit, Tick, Startup, Start, RecoverRemove, RecoverDone,
       CleanupHistory, CleanupDead, Forget, RecoverRepair, RecoverSkip,
       RecoverWrite, ProcessOne, ClaimDrop, ClaimWrite, ClaimRemove, FailItem,
       Suppress, LegacyRecord, QuietDrop, ResolveAgain, ResolveNew,
       RecordTarget, FailTarget, DropTarget, Finish, WriteDestination,
       RemoveSource, Interruption, GiveUp, RecordFault, StartupFault, Stop,
       Crash, FailTargetFault, RepairFault, Fault, Down, observed

\* The fan-out never sends to a target whose success is recorded.
THEOREM SuccessIsNotResent == Spec => NoResend
<1> DEFINE Same == \A i \in Item, t \in Target :
                     sends'[i][t] # sends[i][t] => t \notin recorded[i]
<1>1. IInv /\ [Next]_vars => [Same]_vars
  <2> SUFFICES ASSUME IInv, Next, NEW i \in Item, NEW t \in Target,
                      sends'[i][t] # sends[i][t], t \in recorded[i]
               PROVE  FALSE
    OBVIOUS
  <2>1. SpoolInv /\ LocalInv /\ CounterType
    BY Zenon DEF IInv
  <2>2. SendLegacy \/ \E u \in Target : SendTarget(u)
    BY SendOnly, Zenon
  <2>3. PICK u \in Target \cup {Legacy} :
          Send(u) /\ (u \in Target => SendTarget(u))
    BY <2>2, ServiceAssumption, ZenonT(30) DEF SendLegacy, SendTarget
  <2>4. sends' = [sends EXCEPT ![cur][u] = @ + 1]
    BY <2>3, Zenon DEF Send
  <2>5. cur = i /\ u = t
    BY <2>1, <2>4, Zenon DEF CounterType
  <2>6. /\ exists("inflight", i) /\ mem.ledger = disk["inflight"][i].ledger
        /\ mem.ledger[t].state = "pending"
    BY <2>1, <2>3, <2>5, ZenonT(30)
       DEF SendTarget, LocalInv, HandledItem, OpenTargets, Handling,
                            pendingTargets
  <2>7. disk["inflight"][i].ledger[t].state = "succeeded"
    BY <2>1, <2>6, ZenonT(30) DEF SpoolInv, RecordedSuccessDurable, Dir
  <2> QED
    BY <2>6, <2>7, Zenon
<1> QED
  BY <1>1, Invariance, PTL DEF Spec, NoResend

-----------------------------------------------------------------------------
\* What history and dead hold: the decision to move an item is taken on the
\* envelope in memory, steps before the copy is written.

\* The legacy path and the quiet-hours drop decide on the ledger in memory, and
\* so does the transition that is about to be written.
DecidedLedger ==
  /\ pc = "legacyRecord" => ~HasLedger(mem.ledger)
  /\ pc = "dropping" => pendingTargets(mem.ledger) \subseteq todo
  /\ pc = "write" =>
       /\ dst = "history" => deliveryLedgerTerminal(mem.ledger)
       /\ dst = "dead" => ~HasLedger(mem.ledger)

SettledInv == SettledItems /\ DecidedLedger

\* A step that leaves history and dead alone, or removes files from them.
LEMMA SettledKept ==
  ASSUME SettledItems,
         \A i \in Item, d \in {"history", "dead"} : disk'[d][i] \in {disk[d][i], None}
  PROVE  SettledItems'
BY Zenon DEF SettledItems, exists

\* Writing or removing a file in pending or inflight does.
LEMMA ActiveFile ==
  ASSUME SettledItems, DiskType, NEW d \in {"pending", "inflight"}, NEW i \in Item,
         remove(d, i) \/ \E e : write(d, i, e)
  PROVE  SettledItems'
<1>1. \A x \in {"history", "dead"}, j \in Item : disk'[x][j] = disk[x][j]
  <2>1. CASE remove(d, i)
    BY <2>1, Zenon DEF remove, DiskType, Dir
  <2>2. ASSUME NEW e, write(d, i, e)
        PROVE  \A x \in {"history", "dead"}, j \in Item : disk'[x][j] = disk[x][j]
    BY <2>2, Zenon DEF write, DiskType, Dir
  <2> QED
    BY <2>1, <2>2, Zenon
<1> QED
  BY <1>1, SettledKept, Zenon

\* The repair, the claim and the retention rules decide nothing about a ledger.
LEMMA SettledStartup ==
  ASSUME IInv, SettledInv,
         Startup \/ (\E i \in Item : ClaimDrop(i) \/ ClaimWrite(i)) \/ ClaimRemove
  PROVE  SettledInv'
<1>1. DiskType /\ LocalInv /\ SettledItems /\ DecidedLedger
  BY Zenon DEF IInv, SpoolInv, SettledInv
<1>2. SettledItems'
  <2>1. ASSUME NEW i \in Item,
               RecoverRepair(i) \/ RecoverSkip(i) \/ RecoverWrite(i)
                 \/ ClaimDrop(i) \/ ClaimWrite(i)
        PROVE  SettledItems'
    <3>1. CASE RecoverSkip(i)
      BY <1>1, <3>1, SettledKept, Zenon DEF RecoverSkip
    <3>2. CASE RecoverRepair(i) \/ ClaimDrop(i)
      BY <1>1, <3>2, ActiveFile, Zenon DEF RecoverRepair, ClaimDrop
    <3>3. CASE RecoverWrite(i) \/ ClaimWrite(i)
      BY <1>1, <3>3, ActiveFile, Zenon DEF RecoverWrite, ClaimWrite
    <3> QED
      BY <2>1, <3>1, <3>2, <3>3, Zenon
  <2>2. CASE RecoverRemove \/ ClaimRemove
    <3>1. cur \in Item
      BY <1>1, <2>2, Zenon DEF RecoverRemove, ClaimRemove, LocalInv, HandledItem
    <3> QED
      BY <1>1, <2>2, <3>1, ActiveFile, Zenon DEF RecoverRemove, ClaimRemove
  <2>3. CASE Start \/ RecoverDone
    BY <1>1, <2>3, SettledKept, Zenon DEF Start, RecoverDone
  <2>4. CASE CleanupHistory \/ CleanupDead
    <3>1. PICK d \in {"history", "dead"} : \E old : Forget(d, old)
      BY <2>4, Zenon DEF CleanupHistory, CleanupDead
    <3>2. \A i \in Item, x \in {"history", "dead"} : disk'[x][i] \in {disk[x][i], None}
      BY <1>1, <3>1 DEF Forget, DiskType, Dir
    <3> QED
      BY <1>1, <3>2, SettledKept, Zenon
  <2> QED
    BY <2>1, <2>2, <2>3, <2>4, Zenon DEF Startup
<1>3. \/ UNCHANGED <<pc, mem, todo, dst>>
      \/ pc' \in {"recover", "recoverRemove", "cleanupHistory", "cleanupDead",
                  "idle", "claimRemove", "load"}
  BY ZenonT(30)
     DEF Startup, Start, RecoverRemove, RecoverDone, CleanupHistory, CleanupDead,
         RecoverRepair, RecoverSkip, RecoverWrite, ClaimDrop, ClaimWrite, ClaimRemove,
         Goto, local
<1>4. DecidedLedger'
  BY <1>1, <1>3, Zenon DEF DecidedLedger
<1> QED
  BY <1>2, <1>4, Zenon DEF SettledInv

\* Where the handler decides, it has looked at the ledger it moves.
LEMMA SettledDecision ==
  ASSUME IInv, SettledInv,
         FailItem \/ Suppress \/ LegacyRecord \/ QuietDrop \/ ResolveAgain
           \/ Finish
  PROVE  SettledInv'
<1>1. /\ SettledItems /\ DecidedLedger /\ mem \in Envelope /\ at \in Nat
      /\ now \in Nat
  BY Zenon DEF IInv, SpoolInv, DiskType, LocalInv, LocalType, SettledInv
<1>2. SettledItems'
  BY <1>1, SettledKept, Zenon DEF FailItem, Suppress, LegacyRecord, QuietDrop, ResolveAgain, Finish
<1> SUFFICES DecidedLedger'
  BY <1>2, Zenon DEF SettledInv
<1>3. \A l : ~HasLedger(l) => deliveryLedgerTerminal(l)
  BY Zenon DEF HasLedger, deliveryLedgerTerminal, pendingTargets
<1>4. ASSUME Ack, deliveryLedgerTerminal(mem.ledger) PROVE DecidedLedger'
  <2>1. ackEnvelope(mem).ledger = mem.ledger
    BY <1>1, MovedEnvelope, Zenon
  <2> QED
    BY <1>4, <2>1, Zenon DEF Ack, Move, Hold, DecidedLedger
<1>5. ASSUME NEW permanent \in BOOLEAN, Nack(permanent), ~HasLedger(mem.ledger)
      PROVE  DecidedLedger'
  <2>1. nackEnvelope(mem, permanent, at).ledger = mem.ledger
    BY <1>1, NackedEnvelope, Zenon
  <2> QED
    BY <1>5, <2>1, Zenon DEF Nack, Move, Hold, DecidedLedger
<1>6. ASSUME NEW where \in {"deliver", "failing"}, NEW e, NEW targets,
             Hold(where, e, targets, NoResult, dst)
      PROVE  DecidedLedger'
  BY <1>6, Zenon DEF Hold, DecidedLedger
<1>7. CASE FailItem
  BY <1>5, <1>6, <1>7, Zenon DEF FailItem
<1>8. CASE Suppress
  BY <1>3, <1>4, <1>8, Zenon DEF Suppress
<1>9. CASE LegacyRecord
  <2>1. ~HasLedger(mem.ledger)
    BY <1>1, <1>9, Zenon DEF LegacyRecord, DecidedLedger
  <2> QED
    BY <1>3, <1>4, <1>5, <1>9, <2>1, Zenon DEF LegacyRecord
<1>10. CASE QuietDrop
  BY <1>10, Zenon DEF QuietDrop, Hold, DecidedLedger
<1>11. CASE ResolveAgain
  <2>1. ackEnvelope(mem).ledger = mem.ledger
    BY <1>1, MovedEnvelope, Zenon
  <2> QED
    BY <1>6, <1>11, <2>1, Zenon DEF ResolveAgain, AfterResolve, Move, Hold, DecidedLedger
<1>12. CASE Finish
  <2>1. CASE pc = "dropping" /\ Ack
    <3>1. deliveryLedgerTerminal(mem.ledger)
      BY <1>1, <1>12, <2>1, Zenon DEF Finish, DecidedLedger, deliveryLedgerTerminal
    <3> QED
      BY <1>4, <2>1, <3>1, Zenon
  <2>2. CASE finishResolvedItem
    <3>1. CASE deliveryLedgerTerminal(mem.ledger)
      BY <1>4, <2>2, <3>1, Zenon DEF finishResolvedItem
    <3>2. CASE ~deliveryLedgerTerminal(mem.ledger)
      BY <2>2, <3>2, Zenon DEF finishResolvedItem, Defer, Move, Hold, DecidedLedger
    <3> QED
      BY <3>1, <3>2, Zenon
  <2> QED
    BY <1>12, <2>1, <2>2, Zenon DEF Finish
<1> QED
  BY <1>7, <1>8, <1>9, <1>10, <1>11, <1>12, Zenon

\* A new ledger has a pending target, and a dropped target leaves the others to
\* the loop.
LEMMA SettledLedger ==
  ASSUME IInv, SettledInv,
         \/ \E T \in SUBSET Target : ResolveNew(T)
         \/ RecordTarget
         \/ \E t \in Target : FailTarget(t) \/ DropTarget(t)
  PROVE  SettledInv'
<1>1. /\ DiskType /\ SettledItems /\ DecidedLedger /\ mem \in Envelope
      /\ mem.ledger \in Ledgers /\ now \in Nat
  BY Zenon DEF IInv, SpoolInv, DiskType, LocalInv, LocalType, SettledInv, Envelope
<1>2. pc \in Handling /\ \E e : write("inflight", cur, e)
  BY Zenon DEF ResolveNew, RecordTarget, FailTarget, DropTarget, UpdateTarget, Handling
<1>3. SettledItems'
  <2>1. cur \in Item
    BY <1>2, Zenon DEF IInv, LocalInv, HandledItem
  <2> QED
    BY <1>1, <1>2, <2>1, ActiveFile, Zenon
<1> SUFFICES DecidedLedger'
  BY <1>3, Zenon DEF SettledInv
<1>4. CASE RecordTarget \/ \E t \in Target : FailTarget(t)
  BY <1>4, ZenonT(30) DEF RecordTarget, FailTarget, UpdateTarget, Hold, DecidedLedger
<1>5. ASSUME NEW t \in Target, DropTarget(t) PROVE DecidedLedger'
  <2> DEFINE entry == DeadEntry(mem.ledger[t])
             updated == [mem EXCEPT !.ledger[t] = entry]
  <2>1. mem.ledger[t] \in Entry
    BY <1>1, Zenon DEF Ledgers
  <2>2. entry \in Entry /\ entry.state = "dead"
    BY <2>1 DEF DeadEntry, Entry, DeliveryState
  <2>3. updated.ledger = [mem.ledger EXCEPT ![t] = entry]
    BY <1>1, <2>2, UpdatedEnvelope, Zenon
  <2>4. pendingTargets(mem.ledger) \subseteq todo
    BY <1>1, <1>5, Zenon DEF DropTarget, DecidedLedger
  <2>5. Hold("dropping", updated, todo \ {t}, NoResult, dst)
    BY <1>5, Zenon DEF DropTarget, UpdateTarget
  <2> HIDE DEF entry, updated
  <2>6. pendingTargets(updated.ledger) \subseteq todo \ {t}
    BY <1>1, <2>2, <2>3, <2>4, Zenon DEF pendingTargets, Ledgers
  <2> QED
    BY <2>5, <2>6, Zenon DEF Hold, DecidedLedger
<1>6. ASSUME NEW T \in SUBSET Target, ResolveNew(T) PROVE DecidedLedger'
  <2> DEFINE resolved == [mem EXCEPT !.ledger = newDeliveryLedger(T)]
  <2>1. resolved \in Envelope
    BY <1>1, ZenonT(30)
       DEF Envelope, newDeliveryLedger, Ledgers, Entry, NoEntry, DeliveryState
  <2>2. AfterResolve(resolved)
    BY <1>6, Zenon DEF ResolveNew
  <2> HIDE DEF resolved
  <2>3. ackEnvelope(resolved).ledger = resolved.ledger
    BY <1>1, <2>1, MovedEnvelope, Zenon
  <2> QED
    BY <2>2, <2>3, Zenon DEF AfterResolve, Move, Hold, DecidedLedger
<1> QED
  BY <1>4, <1>5, <1>6, Zenon

\* The copy written to history or dead is the envelope in memory.
LEMMA SettledTransition ==
  ASSUME IInv, SettledInv, WriteDestination \/ RemoveSource
  PROVE  SettledInv'
<1>1. /\ DiskType /\ SettledItems /\ DecidedLedger /\ cur \in Item
      /\ dst \in {"pending", "history", "dead"} /\ mem \in Envelope
  BY Zenon DEF IInv, SpoolInv, LocalInv, LocalType, HandledItem, Handling, SettledInv,
         WriteDestination, RemoveSource
<1>2. CASE RemoveSource
  <2>1. SettledItems'
    BY <1>1, <1>2, ActiveFile, Zenon DEF RemoveSource
  <2>2. DecidedLedger'
    BY <1>2, Zenon DEF RemoveSource, Goto, DecidedLedger
  <2> QED
    BY <2>1, <2>2, Zenon DEF SettledInv
<1>3. CASE WriteDestination
  <2>1. DecidedLedger'
    BY <1>3, Zenon DEF WriteDestination, Goto, DecidedLedger
  <2>2. CASE UNCHANGED disk
    BY <1>1, <2>1, <2>2, SettledKept, Zenon DEF SettledInv
  <2>3. CASE write(dst, cur, mem)
    <3>1. \A x \in Dir, j \in Item :
            disk'[x][j] = IF x = dst /\ j = cur THEN mem ELSE disk[x][j]
      BY <1>1, <2>3, Zenon DEF write, DiskType, Dir
    <3>2. /\ dst = "history" => deliveryLedgerTerminal(mem.ledger)
          /\ dst = "dead" => ~HasLedger(mem.ledger)
      BY <1>1, <1>3, Zenon DEF WriteDestination, DecidedLedger
    <3>3. SettledItems'
      BY <1>1, <3>1, <3>2, Zenon DEF SettledItems, exists, Dir
    <3> QED
      BY <2>1, <3>3, Zenon DEF SettledInv
  <2> QED
    BY <1>3, <2>2, <2>3, Zenon DEF WriteDestination
<1> QED
  BY <1>2, <1>3, Zenon

\* Sends, interruptions and the environment leave both directories alone.
LEMMA SettledRest ==
  ASSUME IInv, SettledInv,
         \/ UNCHANGED vars \/ Tick \/ Interruption \/ SendLegacy
         \/ \E i \in Item : Emit(i)
         \/ \E t \in Target : SendTarget(t)
  PROVE  SettledInv'
<1>1. DiskType /\ SettledItems /\ DecidedLedger
  BY Zenon DEF IInv, SpoolInv, SettledInv
<1>2. ASSUME NEW i \in Item, Emit(i) PROVE SettledInv'
  <2>1. SettledItems'
    BY <1>1, <1>2, ActiveFile, Zenon DEF Emit
  <2>2. DecidedLedger'
    BY <1>1, <1>2, Zenon DEF Emit, local, DecidedLedger
  <2> QED
    BY <2>1, <2>2, Zenon DEF SettledInv
<1>3. CASE \/ UNCHANGED vars \/ Tick \/ Interruption \/ SendLegacy
           \/ \E t \in Target : SendTarget(t)
  <2>1. UNCHANGED disk
    BY <1>3, ZenonT(30)
       DEF vars, Tick, Interruption, GiveUp, RecordFault, StartupFault, Stop, Crash,
           FailTargetFault, RepairFault, Fault, Down, SendLegacy, SendTarget, Send
  <2>2. SettledItems'
    BY <1>1, <2>1, SettledKept, Zenon
  <2>3. \/ UNCHANGED <<pc, mem, todo, dst>>
        \/ pc' \in {"idle", "down", "deliver", "failing", "record"}
        \/ pc' = "legacyRecord" /\ mem' = mem /\ ~HasLedger(mem.ledger)
    BY <1>3, ZenonT(30)
       DEF vars, local, Tick, Interruption, GiveUp, RecordFault, StartupFault, Stop,
           Crash, FailTargetFault, RepairFault, Down, Goto, Hold, SendLegacy,
           SendTarget
  <2>4. DecidedLedger'
    BY <1>1, <2>3, Zenon DEF DecidedLedger
  <2> QED
    BY <2>2, <2>4, Zenon DEF SettledInv
<1> QED
  BY <1>2, <1>3, Zenon

\* An item reaches history only with every target decided and dead only without
\* a ledger, although the decision and the file operations it leads to can be
\* interrupted anywhere and finished by the repair.
THEOREM SettledIsDecided == Spec => []SettledItems
<1>1. Init => SettledInv
  BY DEF Init, SettledInv, SettledItems, DecidedLedger, exists, Dir
<1>2. IInv /\ SettledInv /\ [Next]_vars => SettledInv'
  BY SettledStartup, SettledDecision, SettledLedger, SettledTransition, SettledRest, Zenon
     DEF Next, ProcessOne
<1>3. SettledInv => SettledItems
  BY Zenon DEF SettledInv
<1> QED
  BY <1>1, <1>2, <1>3, Invariance, PTL DEF Spec

-----------------------------------------------------------------------------
\* When a target is due: the fan-out loop was filled at the claim's time.
DueTargets ==
  /\ at <= now
  /\ pc \in {"deliver", "record"} => todo \subseteq readyTargets(mem.ledger, at)

\* Recording one target leaves the others of the loop due.
LEMMA DueAfterUpdate ==
  ASSUME mem \in Envelope, todo \subseteq readyTargets(mem.ledger, at),
         NEW t \in Target, NEW entry \in Entry, NEW where,
         UpdateTarget(t, entry, where)
  PROVE  todo' \subseteq readyTargets(mem'.ledger, at')
<1> DEFINE updated == [mem EXCEPT !.ledger[t] = entry]
<1>1. updated.ledger = [mem.ledger EXCEPT ![t] = entry] /\ mem.ledger \in Ledgers
  BY UpdatedEnvelope, Zenon DEF Envelope
<1>2. mem' = updated /\ todo' = todo \ {t} /\ at' = at
  BY Zenon DEF UpdateTarget, Hold
<1> HIDE DEF updated
<1>3. \A u \in todo \ {t} : u \in Target /\ updated.ledger[u] = mem.ledger[u]
  BY <1>1, Zenon DEF Ledgers, readyTargets, pendingTargets
<1> QED
  BY <1>1, <1>2, <1>3, Zenon DEF readyTargets, pendingTargets

\* Every step keeps the targets of the loop due.
LEMMA NextDue == IInv /\ DueTargets /\ [Next]_vars => DueTargets'
<1> SUFFICES ASSUME IInv, DueTargets, [Next]_vars PROVE DueTargets'
  OBVIOUS
<1>1. /\ now \in Nat /\ at \in Nat /\ mem \in Envelope /\ mem.ledger \in Ledgers
      /\ todo \subseteq Target /\ result.outcome \in Outcome /\ LocalInv
  BY Zenon DEF IInv, SpoolInv, DiskType, LocalInv, LocalType, Envelope
<1>2. at' <= now'
  <2>1. at' \in {at, now, ZeroTime} /\ now' \in {now, now + 1}
    BY ZenonT(60)
       DEF vars, local, observed, Next, Emit, Tick, Startup, Start, RecoverRemove,
           RecoverDone, CleanupHistory, CleanupDead, Forget, RecoverRepair,
           RecoverSkip, RecoverWrite, ProcessOne, ClaimDrop, ClaimWrite,
           ClaimRemove, FailItem, Suppress, SendLegacy, LegacyRecord, QuietDrop,
           ResolveAgain, ResolveNew, AfterResolve, SendTarget, Send, RecordTarget,
           FailTarget, DropTarget, UpdateTarget, Finish, finishResolvedItem, Defer,
           Ack, Nack, Move, Hold, Goto, WriteDestination, RemoveSource,
           Interruption, GiveUp, RecordFault, StartupFault, Stop, Crash,
           FailTargetFault, RepairFault, Fault, Down
  <2> QED
    BY <1>1, <2>1 DEF DueTargets
<1> SUFFICES ASSUME pc' \in {"deliver", "record"}
             PROVE  todo' \subseteq readyTargets(mem'.ledger, at')
  BY <1>2, Zenon DEF DueTargets
<1>3. ASSUME NEW e, AfterResolve(e)
      PROVE  todo' \subseteq readyTargets(mem'.ledger, at')
  BY <1>3, Zenon DEF AfterResolve, Move, Hold
<1>4. CASE \/ ResolveAgain \/ \E T \in SUBSET Target : ResolveNew(T)
  BY <1>3, <1>4, Zenon DEF ResolveAgain, ResolveNew
<1>5. CASE RecordTarget
  <2> DEFINE t == result.target
  <2>1. /\ t \in Target /\ mem.ledger[t] \in Entry
        /\ todo \subseteq readyTargets(mem.ledger, at)
    BY <1>1, <1>5, Zenon DEF RecordTarget, LocalInv, OpenTargets, Ledgers, DueTargets
  <2>2. \E entry \in Entry : UpdateTarget(t, entry, "deliver")
    BY <1>1, <1>5, <2>1, UpdatedEntry, Zenon DEF RecordTarget
  <2> HIDE DEF t
  <2> QED
    BY <1>1, <2>1, <2>2, DueAfterUpdate, Zenon
<1>6. ASSUME NEW t \in Target, FailTarget(t)
      PROVE  todo' \subseteq readyTargets(mem'.ledger, at')
  <2>1. pc = "deliver" /\ UpdateTarget(t, failTarget(mem.ledger[t], FALSE, at), pc)
    BY <1>6, Zenon DEF FailTarget, UpdateTarget, Hold
  <2>2. /\ todo \subseteq readyTargets(mem.ledger, at)
        /\ failTarget(mem.ledger[t], FALSE, at) \in Entry
    BY <1>1, <2>1, UpdatedEntry, Zenon DEF DueTargets, Ledgers
  <2> QED
    BY <1>1, <2>1, <2>2, DueAfterUpdate, Zenon
<1>7. CASE \/ \E t \in Target : SendTarget(t) \/ FailTargetFault(t)
           \/ RecordFault
  BY <1>7, Zenon DEF SendTarget, FailTargetFault, RecordFault, Hold, DueTargets
<1>8. CASE UNCHANGED <<pc, mem, todo, at>>
  BY <1>8, Zenon DEF DueTargets
<1>9. CASE \/ FailItem \/ Suppress \/ SendLegacy \/ LegacyRecord \/ QuietDrop
           \/ Finish \/ WriteDestination \/ RemoveSource \/ ClaimRemove
           \/ \E t \in Target : DropTarget(t)
           \/ \E i \in Item : ClaimWrite(i)
  BY <1>9, ZenonT(30)
     DEF FailItem, Suppress, SendLegacy, LegacyRecord, QuietDrop, Finish,
         finishResolvedItem, Defer, Ack, Nack, Move, Hold, Goto, WriteDestination,
         RemoveSource, ClaimRemove, ClaimWrite, DropTarget, UpdateTarget
<1>10. CASE \/ GiveUp \/ StartupFault \/ Stop \/ Crash
            \/ Start \/ RecoverRemove \/ RecoverDone \/ CleanupHistory \/ CleanupDead
            \/ \E i \in Item : RecoverWrite(i)
  BY <1>10, ZenonT(30)
     DEF GiveUp, StartupFault, Stop, Crash, Down, Goto, Start, RecoverRemove,
         RecoverDone, CleanupHistory, CleanupDead, RecoverWrite
<1>11. CASE \/ UNCHANGED vars \/ Tick
            \/ \E i \in Item : \/ Emit(i) \/ RecoverRepair(i) \/ RecoverSkip(i)
                               \/ ClaimDrop(i) \/ RepairFault(i)
  <2>1. UNCHANGED <<pc, mem, todo, at>>
    BY <1>11, Zenon DEF vars, local, Tick, Emit, RecoverRepair, RecoverSkip, ClaimDrop,
                 RepairFault
  <2> QED
    BY <1>8, <2>1, Zenon
<1> QED
  BY <1>4, <1>5, <1>6, <1>7, <1>9, <1>10, <1>11, Zenon
     DEF Next, Startup, ProcessOne, Interruption

\* A send to a target happens only when its next attempt is due, by the ledger
\* in the inflight file at that moment: neither the time since the claim nor the
\* targets recorded in between have made the decision stale.
THEOREM SendIsDue == Spec => SendsAreDue
<1> DEFINE Due == \A i \in Item, t \in Target :
                    sends'[i][t] # sends[i][t] =>
                      /\ exists("inflight", i)
                      /\ t \in readyTargets(disk["inflight"][i].ledger, now)
<1>1. Init => DueTargets
  BY DEF Init, DueTargets
<1>2. IInv /\ DueTargets /\ [Next]_vars => [Due]_vars
  <2> SUFFICES ASSUME IInv, DueTargets, Next, NEW i \in Item, NEW t \in Target,
                      sends'[i][t] # sends[i][t]
               PROVE  /\ exists("inflight", i)
                      /\ t \in readyTargets(disk["inflight"][i].ledger, now)
    BY Zenon
  <2>1. LocalInv /\ CounterType /\ now \in Nat /\ at \in Nat
    BY Zenon DEF IInv, SpoolInv, DiskType, LocalInv, LocalType
  <2>2. PICK u \in Target \cup {Legacy} :
          Send(u) /\ (u \in Target => SendTarget(u))
    BY SendOnly, ServiceAssumption, ZenonT(30) DEF SendLegacy, SendTarget
  <2>3. cur = i /\ u = t
    BY <2>1, <2>2, Zenon DEF Send, CounterType
  <2>4. /\ exists("inflight", i) /\ mem.ledger = disk["inflight"][i].ledger
        /\ t \in readyTargets(mem.ledger, at)
    BY <2>1, <2>2, <2>3, ZenonT(30)
       DEF SendTarget, LocalInv, HandledItem, Handling, DueTargets
  <2>5. mem.ledger[t].next \in Nat
    BY <2>1, Zenon DEF LocalInv, LocalType, Envelope, Ledgers, Entry
  <2>6. t \in pendingTargets(mem.ledger) /\ mem.ledger[t].next <= at /\ at <= now
    BY <2>4, Zenon DEF readyTargets, DueTargets
  <2>7. t \in readyTargets(mem.ledger, now)
    BY <2>1, <2>5, <2>6 DEF readyTargets
  <2> QED
    BY <2>4, <2>7, Zenon
<1> QED
  BY <1>1, <1>2, NextDue, Invariance, PTL DEF Spec, SendsAreDue

-----------------------------------------------------------------------------
\* What RecoverExpired leaves behind while no file operation has failed.
Repaired(i) == ~completedTransition(i) /\ disk["inflight"][i].lease > at

RepairedItems ==
  /\ pc = "recover" /\ faults = 0 =>
       \A i \in inDirectory("inflight") \ scan : Repaired(i)
  /\ pc = "recoverRemove" /\ faults = 0 =>
       \A i \in inDirectory("inflight") \ (scan \cup {cur}) : Repaired(i)

\* A step that changes no file of an item leaves it repaired.
LEMMA RepairedKept ==
  ASSUME NEW j \in Item, \A d \in Dir : disk'[d][j] = disk[d][j], at' = at,
         Repaired(j)
  PROVE  Repaired(j)'
BY Zenon DEF Repaired, completedTransition, exists, Dir

\* Every step keeps what RecoverExpired has been through in order.
LEMMA NextRepaired == IInv /\ RepairedItems /\ [Next]_vars => RepairedItems'
<1> SUFFICES ASSUME IInv, RepairedItems, [Next]_vars,
                    pc' \in {"recover", "recoverRemove"}, faults' = 0
             PROVE  RepairedItems'
  BY Zenon DEF RepairedItems
<1> USE DEF RepairedItems, inDirectory
<1>1. /\ DiskType /\ LocalInv /\ Accounted /\ faults \in Nat
      /\ cur \in Item \cup {NoItem}
  BY Zenon DEF IInv, SpoolInv, LocalInv, LocalType, CounterType
<1>2. CASE Start
  BY <1>2, Zenon DEF Start, exists
<1>3. ASSUME NEW i \in Item, RecoverRepair(i) PROVE RepairedItems'
  <2>1. \A x \in Dir, j \in Item :
          disk'[x][j] = IF x = "inflight" /\ j = i THEN None ELSE disk[x][j]
    BY <1>1, <1>3, Zenon DEF remove, DiskType, RecoverRepair, Dir
  <2>2. /\ pc = "recover" /\ pc' = pc /\ faults = 0 /\ at' = at
        /\ scan' = scan \ {i}
    BY <1>3, Zenon DEF RecoverRepair, observed
  <2>3. \A j \in Item : exists("inflight", j)' /\ j \notin scan' =>
          j # i /\ exists("inflight", j) /\ j \notin scan
    BY <2>1, <2>2, Zenon DEF exists, Dir
  <2>4. ASSUME NEW j \in Item, exists("inflight", j)', j \notin scan'
        PROVE  Repaired(j)'
    BY <2>1, <2>2, <2>3, <2>4, RepairedKept, Zenon
  <2> QED
    BY <2>2, <2>4, Zenon
<1>4. ASSUME NEW i \in Item, RecoverSkip(i) PROVE RepairedItems'
  <2>1. /\ pc = "recover" /\ pc' = pc /\ faults = 0 /\ at' = at
        /\ scan' = scan \ {i} /\ disk' = disk /\ Repaired(i)
    BY <1>4, Zenon DEF RecoverSkip, observed, Repaired
  <2>2. ASSUME NEW j \in Item, exists("inflight", j)', j \notin scan'
        PROVE  Repaired(j)'
    <3>1. Repaired(j)
      BY <2>1, <2>2, Zenon DEF exists
    <3> QED
      BY <2>1, <3>1, RepairedKept, Zenon
  <2> QED
    BY <2>1, <2>2, Zenon
<1>5. ASSUME NEW i \in Item, RecoverWrite(i) PROVE RepairedItems'
  <2>1. \A x \in Dir, j \in Item : j # i => disk'[x][j] = disk[x][j]
    BY <1>1, <1>5, Zenon DEF write, DiskType, RecoverWrite, Dir
  <2>2. /\ pc = "recover" /\ pc' = "recoverRemove" /\ faults = 0 /\ at' = at
        /\ scan' = scan \ {i} /\ cur' = i
    BY <1>5, Zenon DEF RecoverWrite, observed
  <2>3. ASSUME NEW j \in Item, exists("inflight", j)', j \notin scan' \cup {cur'}
        PROVE  Repaired(j)'
    <3>1. Repaired(j)
      BY <2>1, <2>2, <2>3, Zenon DEF exists, Dir
    <3> QED
      BY <2>1, <2>2, <2>3, <3>1, RepairedKept, Zenon
  <2> QED
    BY <2>2, <2>3, Zenon
<1>6. CASE RecoverRemove
  <2>1. cur \in Item
    BY <1>1, <1>6, Zenon DEF RecoverRemove, LocalInv, HandledItem
  <2>2. \A x \in Dir, j \in Item :
          disk'[x][j] = IF x = "inflight" /\ j = cur THEN None ELSE disk[x][j]
    BY <1>1, <1>6, <2>1, Zenon DEF remove, DiskType, RecoverRemove, Dir
  <2>3. /\ pc = "recoverRemove" /\ pc' = "recover" /\ faults = 0 /\ at' = at
        /\ scan' = scan
    BY <1>6, Zenon DEF RecoverRemove, observed
  <2>4. ASSUME NEW j \in Item, exists("inflight", j)', j \notin scan'
        PROVE  Repaired(j)'
    <3>1. j # cur /\ Repaired(j)
      BY <2>2, <2>3, <2>4, Zenon DEF exists, Dir
    <3> QED
      BY <2>2, <2>3, <3>1, RepairedKept, Zenon
  <2> QED
    BY <2>3, <2>4, Zenon
<1>7. ASSUME NEW i \in Item, Emit(i) PROVE RepairedItems'
  <2>1. \A x \in Dir, j \in Item : j # i => disk'[x][j] = disk[x][j]
    BY <1>1, <1>7, Zenon DEF write, DiskType, Emit, Dir
  <2>2. disk'["inflight"][i] = disk["inflight"][i] /\ ~exists("inflight", i)
    <3>1. \A d \in Dir : ~exists(d, i)
      BY <1>1, <1>7, Zenon DEF Emit, Accounted, onDisk
    <3>2. disk'["inflight"][i] = disk["inflight"][i]
      BY <1>1, <1>7, Zenon DEF write, DiskType, Emit, Dir
    <3> QED
      BY <3>1, <3>2, Zenon DEF Dir
  <2>3. UNCHANGED <<pc, scan, cur, at, faults>>
    BY <1>7, Zenon DEF Emit, local
  <2>4. \A j \in Item : exists("inflight", j)' => j # i /\ exists("inflight", j)
    BY <2>1, <2>2, Zenon DEF exists, Dir
  <2>5. ASSUME NEW j \in Item, j # i, Repaired(j) PROVE Repaired(j)'
    BY <2>1, <2>3, <2>5, RepairedKept, Zenon
  <2> QED
    BY <2>3, <2>4, <2>5, Zenon
<1>8. CASE UNCHANGED vars \/ Tick
  <2>1. UNCHANGED <<disk, pc, scan, cur, at, faults>>
    BY <1>8, Zenon DEF vars, local, observed, Tick
  <2> QED
    BY <2>1, Zenon DEF Repaired, completedTransition, exists
<1>9. CASE Interruption
  <2>1. Goto("idle") \/ Goto("down") \/ faults' = faults + 1
    BY <1>9, Zenon DEF Interruption, GiveUp, RecordFault, StartupFault, Stop, Crash,
                FailTargetFault, RepairFault, Fault, Down
  <2> QED
    BY <1>1, <2>1 DEF Goto
<1>10. CASE ProcessOne \/ RecoverDone \/ CleanupHistory \/ CleanupDead
  <2>1. pc' \notin {"recover", "recoverRemove"}
    BY <1>10, ZenonT(30)
       DEF ProcessOne, RecoverDone, CleanupHistory, CleanupDead, ClaimDrop,
           ClaimWrite, ClaimRemove, FailItem, Suppress, SendLegacy, LegacyRecord,
           QuietDrop, ResolveAgain, ResolveNew, AfterResolve, RecordTarget,
           SendTarget, FailTarget, DropTarget, UpdateTarget, Finish,
           finishResolvedItem, Defer, Ack, Nack, Move, Hold, Goto,
           WriteDestination, RemoveSource, local
  <2> QED
    BY <2>1, Zenon
<1> QED
  BY <1>2, <1>3, <1>4, <1>5, <1>6, <1>7, <1>8, <1>9, <1>10, Zenon DEF Next, Startup

\* When RecoverExpired returns and no removal has failed, every item has one
\* copy, and what is still inflight is under a lease that had not run out.
THEOREM RepairIsComplete == Spec => RepairComplete
<1> DEFINE Complete == pc = "recover" /\ pc' = "cleanupHistory" /\ faults = 0 =>
                         \A i \in inDirectory("inflight") :
                           ~completedTransition(i) /\ disk["inflight"][i].lease > at
<1>1. Init => RepairedItems
  BY Zenon DEF Init, RepairedItems
<1>2. RepairedItems /\ [Next]_vars => [Complete]_vars
  <2> SUFFICES ASSUME RepairedItems, Next, pc = "recover", pc' = "cleanupHistory",
                      faults = 0, NEW i \in inDirectory("inflight")
               PROVE  ~completedTransition(i) /\ disk["inflight"][i].lease > at
    OBVIOUS
  <2>1. scan = {}
    BY ZenonT(30)
       DEF Next, Emit, Tick, Startup, Start, RecoverRemove, RecoverDone,
           CleanupHistory, CleanupDead, RecoverRepair, RecoverSkip, RecoverWrite,
           ProcessOne, ClaimDrop, ClaimWrite, ClaimRemove, FailItem, Suppress,
           SendLegacy, LegacyRecord, QuietDrop, ResolveAgain, ResolveNew,
           RecordTarget, SendTarget, FailTarget, DropTarget, Finish,
           WriteDestination, RemoveSource, Interruption, GiveUp, RecordFault,
           StartupFault, Stop, Crash, FailTargetFault, RepairFault, Down, Goto,
           local
  <2> QED
    BY <2>1, Zenon DEF RepairedItems, Repaired
<1> QED
  BY <1>1, <1>2, NextRepaired, Invariance, PTL DEF Spec, RepairComplete

-----------------------------------------------------------------------------
\* How often an item may have been sent.

\* The attempts an envelope has on record, for a target or the default channel.
Spent(e, t) == IF t = Legacy THEN e.attempts ELSE e.ledger[t].attempts

\* The attempt that is made and not on record: the sender has the message, and
\* the inflight file is replaced, or left behind, only later.
Unrecorded(d, i, t) ==
  IF /\ d = "inflight" /\ i = cur
     /\ \/ pc = "record" /\ t = result.target
        \/ pc \in {"legacyRecord", "write", "remove"} /\ t = Legacy
  THEN 1 ELSE 0

Active == {"pending", "inflight"}

\* What an item that can still be sent has left of its backoff.
WithinBackoff(e) ==
  /\ e.attempts < Len(Backoff)
  /\ \A t \in Target :
       /\ e.ledger[t].state = "pending" => e.ledger[t].attempts < Len(Backoff)
       /\ e.ledger[t].state = "none" => e.ledger[t].attempts = 0

BudgetLeft == \A i \in Item, d \in Active : exists(d, i) => WithinBackoff(disk[d][i])

\* Every send is on record in every active copy, or an interruption lost it, or
\* it is the one under way.
SendsOnRecord ==
  \A i \in Item, d \in Active, t \in Target \cup {Legacy} :
    exists(d, i) =>
      sends[i][t] <= Spent(disk[d][i], t) + crashes + faults + Unrecorded(d, i, t)

\* The envelope in memory counts as the inflight file does, until a transition
\* begins; the copy that goes back to pending has the last attempt on record.
HeldAttempts ==
  /\ pc \in (Handling \ {"write"}) \cup {"claimRemove"} =>
       mem.attempts = disk["inflight"][cur].attempts
  /\ pc = "write" /\ dst = "pending" =>
       /\ mem.attempts < Len(Backoff)
       /\ sends[cur][Legacy] <= mem.attempts + crashes + faults

UnsentBefore ==
  \A i \in Item \ accepted, t \in Target \cup {Legacy} : sends[i][t] = 0

SendsInv ==
  BoundedSends /\ BudgetLeft /\ SendsOnRecord /\ HeldAttempts /\ UnsentBefore

\* The numbers the inequalities are about.
LEMMA Counts ==
  ASSUME IInv
  PROVE  /\ \A i \in Item, t \in Target \cup {Legacy} : sends[i][t] \in Nat
         /\ crashes \in Nat /\ faults \in Nat /\ Len(Backoff) \in Nat \ {0}
         /\ \A e \in Envelope, t \in Target \cup {Legacy} : Spent(e, t) \in Nat
         /\ \A d \in Dir : \A i, t : Unrecorded(d, i, t) \in {0, 1}
         /\ \A d \in Dir, i \in Item : exists(d, i) => disk[d][i] \in Envelope
<1>1. \A i \in Item, t \in Target \cup {Legacy} : sends[i][t] \in Nat
  BY Zenon DEF IInv, CounterType
<1>2. crashes \in Nat /\ faults \in Nat /\ Len(Backoff) \in Nat \ {0}
  BY BackoffAssumption DEF IInv, CounterType
<1>3. \A e \in Envelope, t \in Target \cup {Legacy} : Spent(e, t) \in Nat
  BY Zenon DEF Spent, Envelope, Ledgers, Entry
<1>4. \A d \in Dir : \A i, t : Unrecorded(d, i, t) \in {0, 1}
  BY Zenon DEF Unrecorded
<1>5. \A d \in Dir, i \in Item : exists(d, i) => disk[d][i] \in Envelope
  BY Zenon DEF IInv, SpoolInv, DiskType, exists
<1> QED
  BY <1>1, <1>2, <1>3, <1>4, <1>5, Zenon

\* A file that a step leaves alone stays on record: what the step forgets, it
\* counts as an interruption.
LEMMA KeptRecord ==
  ASSUME IInv, IInv', SendsOnRecord, NEW i \in Item, NEW d \in Active,
         NEW t \in Target \cup {Legacy}, exists(d, i)',
         disk'[d][i] = disk[d][i], sends'[i][t] = sends[i][t],
         crashes + faults + Unrecorded(d, i, t)
           <= crashes' + faults' + Unrecorded(d, i, t)'
  PROVE  sends'[i][t] <= Spent(disk'[d][i], t) + crashes' + faults'
                           + Unrecorded(d, i, t)'
<1>1. d \in Dir /\ exists(d, i)
  BY Zenon DEF Active, Dir, exists
<1>2. sends[i][t] <= Spent(disk[d][i], t) + crashes + faults + Unrecorded(d, i, t)
  BY <1>1, Zenon DEF SendsOnRecord
<1>3. /\ sends[i][t] \in Nat /\ crashes \in Nat /\ faults \in Nat
      /\ Spent(disk[d][i], t) \in Nat /\ Unrecorded(d, i, t) \in Nat
  <2>1. disk[d][i] \in Envelope /\ Unrecorded(d, i, t) \in {0, 1}
    BY <1>1, Counts, ZenonT(30)
  <2> QED
    BY <2>1, Counts
<1>4. crashes' \in Nat /\ faults' \in Nat /\ Unrecorded(d, i, t)' \in Nat
  BY Zenon DEF IInv, CounterType, Unrecorded
<1> QED
  BY <1>2, <1>3, <1>4

LEMMA LargerBudget ==
  ASSUME NEW n \in Nat, NEW b \in Nat, NEW c \in Nat, NEW f \in Nat, NEW c1 \in Nat, NEW f1 \in Nat,
         n <= b + c + f, c + f <= c1 + f1
  PROVE  n <= b + c1 + f1
OBVIOUS

\* Only the sends count, and the counters of interruptions never go back.
LEMMA UncountedStep ==
  ASSUME IInv, IInv', UNCHANGED sends, crashes + faults <= crashes' + faults',
         accepted \subseteq accepted', BoundedSends, UnsentBefore
  PROVE  BoundedSends' /\ UnsentBefore'
<1>1. UnsentBefore'
  BY Zenon DEF UnsentBefore
<1>2. crashes' \in Nat /\ faults' \in Nat
  BY Zenon DEF IInv, CounterType
<1>3. ASSUME NEW i \in Item, NEW t \in Target \cup {Legacy}
      PROVE  sends'[i][t] <= Len(Backoff) + crashes' + faults'
  <2>1. /\ sends[i][t] \in Nat /\ crashes \in Nat /\ faults \in Nat
        /\ Len(Backoff) \in Nat
    BY <1>3, Counts, Zenon
  <2>2. sends[i][t] <= Len(Backoff) + crashes + faults
    BY <1>3, Zenon DEF BoundedSends
  <2>3. sends'[i][t] = sends[i][t]
    BY Zenon
  <2> QED
    BY <1>2, <2>1, <2>2, <2>3, LargerBudget, Zenon
<1> QED
  BY <1>1, <1>3, Zenon DEF BoundedSends

\* Copies made by Claim, Defer and RecoverExpired count the same attempts.
LEMMA MovedAttempts ==
  ASSUME NEW e \in Envelope, NEW n \in Nat, now \in Nat
  PROVE  /\ claimEnvelope(e).attempts = e.attempts
         /\ ackEnvelope(e).attempts = e.attempts
         /\ deferEnvelope(e, n).attempts = e.attempts
         /\ recoverEnvelope(e).attempts = e.attempts
BY Zenon DEF Envelope, claimEnvelope, ackEnvelope, deferEnvelope, recoverEnvelope

\* A copy with the attempts and the ledger of another counts like it.
LEMMA SameAttempts ==
  ASSUME NEW e, NEW f, e.attempts = f.attempts, e.ledger = f.ledger
  PROVE  /\ \A t \in Target \cup {Legacy} : Spent(e, t) = Spent(f, t)
         /\ WithinBackoff(f) => WithinBackoff(e)
BY Zenon DEF Spent, WithinBackoff

\* The repair, the retention rules, the claim's removals, the clock and a new
\* event: nothing is being sent, and copies count like the file they come from.
LEMMA SendsStartup ==
  ASSUME IInv, IInv', SendsInv,
         \/ UNCHANGED vars \/ Tick \/ Startup \/ ClaimRemove \/ RemoveSource
         \/ \E i \in Item : Emit(i) \/ ClaimDrop(i) \/ ClaimWrite(i)
  PROVE  SendsInv'
<1>1. /\ DiskType /\ LocalInv /\ now \in Nat
      /\ crashes \in Nat /\ faults \in Nat
      /\ BoundedSends /\ BudgetLeft /\ SendsOnRecord /\ HeldAttempts /\ UnsentBefore
  BY Zenon DEF IInv, SpoolInv, DiskType, CounterType, SendsInv
<1>2. UNCHANGED <<sends, crashes, faults>> /\ accepted \subseteq accepted'
  BY ZenonT(30)
     DEF vars, observed, Tick, Startup, Start, RecoverRemove, RecoverDone,
         CleanupHistory, CleanupDead, Forget, RecoverRepair, RecoverSkip,
         RecoverWrite, ClaimRemove, RemoveSource, Emit, ClaimDrop, ClaimWrite
<1>3. BoundedSends' /\ UnsentBefore'
  BY <1>1, <1>2, UncountedStep
<1>4. \A i \in Item, d \in Active, t \in Target \cup {Legacy} :
        exists(d, i)' /\ disk'[d][i] = disk[d][i] =>
          Unrecorded(d, i, t) <= Unrecorded(d, i, t)'
  <2>1. CASE UNCHANGED <<pc, cur, result>>
    BY <2>1 DEF Unrecorded
  <2>2. CASE pc \notin {"record", "legacyRecord", "write", "remove"}
    BY <2>2 DEF Unrecorded
  <2>3. CASE RemoveSource
    <3>1. cur \in Item /\ disk'["inflight"][cur] = None /\ pc = "remove"
      <4>1. cur \in Item
        BY <1>1, <2>3, Zenon DEF RemoveSource, LocalInv, HandledItem
      <4> QED
        BY <1>1, <2>3, <4>1, Zenon DEF remove, DiskType, RemoveSource, Dir
    <3> QED
      BY <3>1 DEF Unrecorded, exists
  <2> QED
    BY <2>1, <2>2, <2>3, ZenonT(30)
       DEF vars, local, Tick, Startup, Start, RecoverRemove, RecoverDone,
           CleanupHistory, CleanupDead, RecoverRepair, RecoverSkip, RecoverWrite,
           ClaimRemove, Emit, ClaimDrop, ClaimWrite
<1> DEFINE Copied(d, i) ==
      /\ WithinBackoff(disk'[d][i])
      /\ \A t \in Target \cup {Legacy} :
           sends[i][t] <= Spent(disk'[d][i], t) + crashes + faults
<1>5. ASSUME \A i \in Item, d \in Active :
               exists(d, i)' => disk'[d][i] = disk[d][i] \/ Copied(d, i)
      PROVE  BudgetLeft' /\ SendsOnRecord'
  <2>1. BudgetLeft'
    BY <1>1, <1>5, Zenon DEF BudgetLeft, exists
  <2>2. ASSUME NEW i \in Item, NEW d \in Active, NEW t \in Target \cup {Legacy},
               exists(d, i)'
        PROVE  sends'[i][t] <= Spent(disk'[d][i], t) + crashes' + faults'
                                 + Unrecorded(d, i, t)'
    <3>1. CASE disk'[d][i] = disk[d][i]
      <4>1. crashes + faults + Unrecorded(d, i, t)
              <= crashes' + faults' + Unrecorded(d, i, t)'
        BY <1>1, <1>2, <1>4, <2>2, <3>1 DEF Unrecorded
      <4>2. sends'[i][t] = sends[i][t]
        BY <1>2, Zenon
      <4> QED
        BY <1>1, <2>2, <3>1, <4>1, <4>2, KeptRecord, Zenon
    <3>2. CASE Copied(d, i)
      <4>1. sends[i][t] <= Spent(disk'[d][i], t) + crashes + faults
        BY <3>2, Zenon
      <4>2. disk'[d][i] \in Envelope
        BY <2>2, ZenonT(60) DEF IInv, SpoolInv, DiskType, exists, Active, Dir
      <4>3. /\ Spent(disk'[d][i], t) \in Nat /\ sends[i][t] \in Nat
            /\ Unrecorded(d, i, t)' \in {0, 1}
        BY <4>2, Counts, Zenon DEF Unrecorded
      <4> QED
        BY <1>1, <1>2, <4>1, <4>3
    <3> QED
      BY <1>5, <2>2, <3>1, <3>2, Zenon
  <2>3. SendsOnRecord'
    BY <2>2, Zenon DEF SendsOnRecord
  <2> QED
    BY <2>1, <2>3, Zenon
<1>6. ASSUME NEW i \in Item, NEW from \in Active, NEW e \in Envelope,
             exists(from, i), NEW d \in Active, disk'[d][i] = e,
             e.attempts = disk[from][i].attempts,
             e.ledger = disk[from][i].ledger,
             \A t \in Target \cup {Legacy} : Unrecorded(from, i, t) = 0
      PROVE  Copied(d, i)
  <2>1. /\ \A t \in Target \cup {Legacy} : Spent(e, t) = Spent(disk[from][i], t)
        /\ WithinBackoff(disk[from][i]) => WithinBackoff(e)
    BY <1>6, SameAttempts, Zenon
  <2>2. \A t \in Target \cup {Legacy} :
          sends[i][t] <= Spent(disk[from][i], t) + crashes + faults + 0
    BY <1>1, <1>6, Zenon DEF SendsOnRecord
  <2>3. \A t \in Target \cup {Legacy} : Spent(e, t) \in Nat
    BY Counts, Zenon
  <2>4. \A t \in Target \cup {Legacy} :
          sends[i][t] <= Spent(e, t) + crashes + faults
    BY <1>1, <2>1, <2>2, <2>3
  <2>5. WithinBackoff(e)
    BY <1>1, <1>6, <2>1, Zenon DEF BudgetLeft
  <2> QED
    BY <1>6, <2>4, <2>5, Zenon
<1>7. BudgetLeft' /\ SendsOnRecord'
  <2>1. CASE \/ UNCHANGED vars \/ Tick \/ Start \/ RecoverDone
             \/ \E i \in Item : RecoverSkip(i)
    <3>1. UNCHANGED disk
      BY <2>1, Zenon DEF vars, Tick, Start, RecoverDone, RecoverSkip
    <3> HIDE DEF Copied
    <3> QED
      BY <1>5, <3>1, Zenon
  <2>2. CASE \/ RecoverRemove \/ ClaimRemove \/ RemoveSource
             \/ \E i \in Item : RecoverRepair(i) \/ ClaimDrop(i)
    <3>1. PICK i \in Item, d \in Active : remove(d, i)
      BY <1>1, <2>2, Zenon DEF RecoverRemove, ClaimRemove, RemoveSource, RecoverRepair, ClaimDrop,
             LocalInv, HandledItem, Active
    <3>2. \A x \in Dir, j \in Item :
            disk'[x][j] = IF x = d /\ j = i THEN None ELSE disk[x][j]
      BY <1>1, <3>1, Zenon DEF remove, DiskType, Active, Dir
    <3>3. \A j \in Item, x \in Active : exists(x, j)' => disk'[x][j] = disk[x][j]
      BY <3>2, Zenon DEF Active, Dir, exists
    <3> HIDE DEF Copied
    <3> QED
      BY <1>5, <3>3, Zenon
  <2>3. CASE CleanupHistory \/ CleanupDead
    <3>1. PICK d \in {"history", "dead"} : \E old : Forget(d, old)
      BY <2>3, Zenon DEF CleanupHistory, CleanupDead
    <3>2. \A j \in Item, x \in Active : disk'[x][j] = disk[x][j]
      BY <1>1, <3>1, Zenon DEF Forget, DiskType, Dir, Active
    <3> HIDE DEF Copied
    <3> QED
      BY <1>5, <3>2, Zenon
  <2>4. ASSUME NEW i \in Item, RecoverWrite(i) PROVE BudgetLeft' /\ SendsOnRecord'
    <3> DEFINE e == recoverEnvelope(disk["inflight"][i])
    <3>1. exists("inflight", i) /\ disk["inflight"][i] \in Envelope
      BY <1>1, <2>4, Counts, Zenon DEF RecoverWrite, isFirst, LocalInv, ScanOK, Dir
    <3>2. /\ e \in Envelope /\ e.attempts = disk["inflight"][i].attempts
          /\ e.ledger = disk["inflight"][i].ledger
      BY <1>1, <3>1, MovedEnvelope, MovedAttempts, Zenon
    <3>3. write("pending", i, e) /\ pc = "recover"
      BY <2>4, Zenon DEF RecoverWrite
    <3> HIDE DEF e, Copied
    <3>4. \A x \in Dir, j \in Item :
            disk'[x][j] = IF x = "pending" /\ j = i THEN e ELSE disk[x][j]
      BY <1>1, <3>3, Zenon DEF write, DiskType, Dir
    <3>5. disk'["pending"][i] = e
      BY <3>4, Zenon DEF Dir
    <3>6. \A t \in Target \cup {Legacy} : Unrecorded("inflight", i, t) = 0
      BY <3>3, Zenon DEF Unrecorded
    <3>7. Copied("pending", i)
      BY <1>6, <3>1, <3>2, <3>5, <3>6, Zenon DEF Active
    <3> QED
      BY <1>5, <3>4, <3>7, Zenon DEF Active, Dir
  <2>5. ASSUME NEW i \in Item, ClaimWrite(i) PROVE BudgetLeft' /\ SendsOnRecord'
    <3> DEFINE e == claimEnvelope(disk["pending"][i])
    <3>1. exists("pending", i) /\ disk["pending"][i] \in Envelope
      BY <1>1, <2>5, Counts, Zenon DEF ClaimWrite, isFirst, claimable, inDirectory, Dir
    <3>2. /\ e \in Envelope /\ e.attempts = disk["pending"][i].attempts
          /\ e.ledger = disk["pending"][i].ledger
      BY <1>1, <3>1, MovedEnvelope, MovedAttempts, Zenon
    <3>3. write("inflight", i, e)
      BY <2>5, Zenon DEF ClaimWrite
    <3> HIDE DEF e, Copied
    <3>4. \A x \in Dir, j \in Item :
            disk'[x][j] = IF x = "inflight" /\ j = i THEN e ELSE disk[x][j]
      BY <1>1, <3>3, Zenon DEF write, DiskType, Dir
    <3>5. disk'["inflight"][i] = e
      BY <3>4, Zenon DEF Dir
    <3>6. \A t \in Target \cup {Legacy} : Unrecorded("pending", i, t) = 0
      BY Zenon DEF Unrecorded
    <3>7. Copied("inflight", i)
      BY <1>6, <3>1, <3>2, <3>5, <3>6, Zenon DEF Active
    <3> QED
      BY <1>5, <3>4, <3>7, Zenon DEF Active, Dir
  <2>6. ASSUME NEW i \in Item, Emit(i) PROVE BudgetLeft' /\ SendsOnRecord'
    <3>1. \A x \in Dir, j \in Item :
            disk'[x][j] = IF x = "pending" /\ j = i THEN NewEnvelope ELSE disk[x][j]
      BY <1>1, <2>6, Zenon DEF write, DiskType, Emit, Dir
    <3>2. \A t \in Target \cup {Legacy} : sends[i][t] = 0
      BY <1>1, <2>6, Zenon DEF Emit, UnsentBefore
    <3>3. \A t \in Target \cup {Legacy} : Spent(NewEnvelope, t) = 0
      BY Zenon DEF Spent, NewEnvelope, NilLedger, NoEntry
    <3>4. WithinBackoff(NewEnvelope)
      BY BackoffAssumption DEF WithinBackoff, NewEnvelope, NilLedger, NoEntry
    <3>5. disk'["pending"][i] = NewEnvelope
      BY <3>1, Zenon DEF Dir
    <3>6. \A t \in Target \cup {Legacy} :
            sends[i][t] <= Spent(NewEnvelope, t) + crashes + faults
      BY <1>1, <3>2, <3>3
    <3>7. Copied("pending", i)
      BY <3>4, <3>5, <3>6, Zenon
    <3> HIDE DEF Copied
    <3> QED
      BY <1>5, <3>1, <3>7, Zenon DEF Active, Dir
  <2> QED
    BY <2>1, <2>2, <2>3, <2>4, <2>5, <2>6, Zenon DEF Startup
<1>8. HeldAttempts'
  <2>1. CASE UNCHANGED vars \/ Tick
    BY <1>1, <2>1, Zenon DEF vars, local, observed, Tick, HeldAttempts
  <2>2. CASE Startup \/ RemoveSource \/ \E i \in Item : ClaimDrop(i)
    BY <2>2, ZenonT(30)
       DEF Startup, Start, RecoverRemove, RecoverDone, CleanupHistory, CleanupDead,
           RecoverRepair, RecoverSkip, RecoverWrite, RemoveSource, ClaimDrop, Goto,
           local, HeldAttempts, Handling
  <2>3. ASSUME NEW i \in Item, ClaimWrite(i) PROVE HeldAttempts'
    <3>1. /\ disk'["inflight"][i] = mem' /\ cur' = i /\ pc' = "claimRemove"
      <4>1. /\ write("inflight", i, mem') /\ cur' = i /\ pc' = "claimRemove"
        BY <2>3, Zenon DEF ClaimWrite
      <4>2. "inflight" \in Dir /\ DiskType
        BY <1>1, Zenon DEF Dir, IInv, SpoolInv
      <4> QED
        BY <4>1, <4>2, Zenon DEF write, DiskType
    <3> QED
      BY <3>1, Zenon DEF HeldAttempts
  <2>4. CASE ClaimRemove
    <3>1. cur \in Item /\ pc = "claimRemove" /\ remove("pending", cur)
      BY <1>1, <2>4, Zenon DEF ClaimRemove, LocalInv, HandledItem
    <3>2. disk'["inflight"][cur] = disk["inflight"][cur]
      BY <1>1, <3>1, Zenon DEF remove, DiskType, Dir
    <3> QED
      BY <1>1, <2>4, <3>1, <3>2, Zenon DEF ClaimRemove, HeldAttempts
  <2>5. ASSUME NEW i \in Item, Emit(i) PROVE HeldAttempts'
    <3>1. disk'["inflight"] = disk["inflight"]
      BY <1>1, <2>5, Zenon DEF Emit, write, DiskType, Dir
    <3> QED
      BY <1>1, <1>2, <2>5, <3>1, Zenon DEF Emit, local, HeldAttempts
  <2> QED
    BY <2>1, <2>2, <2>3, <2>4, <2>5, Zenon
<1> QED
  BY <1>3, <1>7, <1>8, Zenon DEF SendsInv

\* An interruption loses at most one attempt, and counts as one.
LEMMA SendsInterrupted ==
  ASSUME IInv, IInv', SendsInv, Interruption
  PROVE  SendsInv'
<1>1. /\ crashes \in Nat /\ faults \in Nat
      /\ BoundedSends /\ BudgetLeft /\ SendsOnRecord /\ HeldAttempts /\ UnsentBefore
  BY Zenon DEF IInv, CounterType, SendsInv
<1>2. /\ UNCHANGED <<disk, accepted, sends>>
      /\ crashes' + faults' = crashes + faults + 1
  <2>1. UNCHANGED <<disk, accepted, sends>> /\ (Fault \/ Down)
    BY ZenonT(30)
       DEF Interruption, GiveUp, RecordFault, StartupFault, Stop, Crash,
           FailTargetFault, RepairFault, Fault, Down
  <2> QED
    BY <1>1, <2>1 DEF Fault, Down
<1>3. BoundedSends' /\ UnsentBefore'
  BY <1>1, <1>2, UncountedStep
<1>4. BudgetLeft'
  BY <1>1, <1>2, Zenon DEF BudgetLeft, exists
<1>5. SendsOnRecord'
  <2> SUFFICES ASSUME NEW i \in Item, NEW d \in Active,
                      NEW t \in Target \cup {Legacy}, exists(d, i)'
               PROVE  sends'[i][t] <= Spent(disk'[d][i], t) + crashes' + faults'
                                        + Unrecorded(d, i, t)'
    BY Zenon DEF SendsOnRecord
  <2>1. crashes + faults + Unrecorded(d, i, t)
          <= crashes' + faults' + Unrecorded(d, i, t)'
    BY <1>1, <1>2 DEF Unrecorded
  <2> QED
    BY <1>1, <1>2, <2>1, KeptRecord, Zenon
<1>6. HeldAttempts'
  <2>1. \/ pc' \in {"idle", "down", "recover"}
        \/ /\ pc \in {"record", "deliver", "failing"}
           /\ pc' \in {"deliver", "failing"} /\ UNCHANGED <<mem, cur>>
    BY ZenonT(30)
       DEF Interruption, GiveUp, RecordFault, StartupFault, Stop, Crash,
           FailTargetFault, RepairFault, Down, Goto, Hold
  <2> QED
    BY <1>1, <1>2, <2>1, Zenon DEF HeldAttempts, Handling
<1> QED
  BY <1>3, <1>4, <1>5, <1>6, Zenon DEF SendsInv

\* What a handler knows of the item it holds.
LEMMA HeldItem ==
  ASSUME IInv, SendsInv, pc \in Handling \ {"write"}
  PROVE  /\ cur \in Item /\ exists("inflight", cur) /\ ~exists("pending", cur)
         /\ mem \in Envelope /\ mem.attempts = disk["inflight"][cur].attempts
         /\ mem.ledger = disk["inflight"][cur].ledger
         /\ WithinBackoff(mem)
         /\ \A t \in Target \cup {Legacy} :
              sends[cur][t] <= Spent(mem, t) + crashes + faults
                                 + Unrecorded("inflight", cur, t)
<1>1. /\ cur \in Item /\ exists("inflight", cur) /\ ~completedTransition(cur)
      /\ mem.ledger = disk["inflight"][cur].ledger /\ mem \in Envelope
  BY Zenon DEF IInv, LocalInv, LocalType, HandledItem
<1>2. ~exists("pending", cur)
  BY <1>1, Zenon DEF completedTransition
<1>3. mem.attempts = disk["inflight"][cur].attempts
  BY Zenon DEF SendsInv, HeldAttempts
<1>4. WithinBackoff(disk["inflight"][cur])
  BY <1>1, Zenon DEF SendsInv, BudgetLeft, Active
<1>5. \A t \in Target \cup {Legacy} :
        sends[cur][t] <= Spent(disk["inflight"][cur], t) + crashes + faults
                           + Unrecorded("inflight", cur, t)
  BY <1>1, Zenon DEF SendsInv, SendsOnRecord, Active
<1>6. /\ \A t \in Target \cup {Legacy} :
           Spent(mem, t) = Spent(disk["inflight"][cur], t)
      /\ WithinBackoff(mem)
  BY <1>1, <1>3, <1>4, SameAttempts, Zenon
<1> QED
  BY <1>1, <1>2, <1>3, <1>5, <1>6, Zenon

\* The copy that is to go back to pending has every attempt on record.
LEMMA SendsDecision ==
  ASSUME IInv, IInv', SendsInv,
         FailItem \/ Suppress \/ LegacyRecord \/ QuietDrop \/ ResolveAgain
           \/ Finish
  PROVE  SendsInv'
<1>1. /\ crashes \in Nat /\ faults \in Nat /\ now \in Nat /\ at \in Nat
      /\ BoundedSends /\ BudgetLeft /\ SendsOnRecord /\ HeldAttempts /\ UnsentBefore
  BY Zenon DEF IInv, CounterType, SpoolInv, DiskType, LocalInv, LocalType, SendsInv
<1>2. UNCHANGED <<disk, accepted, sends, crashes, faults>>
  BY ZenonT(30) DEF FailItem, Suppress, LegacyRecord, QuietDrop, ResolveAgain,
                    Finish, observed
<1>3. pc \in {"load", "legacyRecord", "deliver", "failing", "dropping"}
  BY Zenon DEF FailItem, Suppress, LegacyRecord, QuietDrop, ResolveAgain, Finish
<1>4. /\ mem \in Envelope /\ mem.attempts = disk["inflight"][cur].attempts
      /\ mem.attempts < Len(Backoff) /\ mem.attempts \in Nat
      /\ cur \in Item
  <2>1. mem \in Envelope
    BY <1>3, HeldItem, Zenon DEF Handling
  <2> QED
    BY <1>3, <2>1, HeldItem, Zenon DEF Handling, WithinBackoff, Envelope
<1>5. /\ sends[cur][Legacy] <= mem.attempts + 1 + crashes + faults
      /\ pc # "legacyRecord" => sends[cur][Legacy] <= mem.attempts + crashes + faults
  <2>1. sends[cur][Legacy] <= Spent(mem, Legacy) + crashes + faults
                                + Unrecorded("inflight", cur, Legacy)
    BY <1>3, HeldItem, Zenon DEF Handling
  <2>2. /\ Unrecorded("inflight", cur, Legacy) \in {0, 1}
        /\ pc # "legacyRecord" => Unrecorded("inflight", cur, Legacy) = 0
    BY <1>3, Zenon DEF Unrecorded
  <2>3. sends[cur][Legacy] \in Nat
    BY <1>4, Counts, Zenon
  <2>4. Spent(mem, Legacy) = mem.attempts
    BY Zenon DEF Spent
  <2> QED
    <3>1. crashes \in Nat /\ faults \in Nat /\ mem.attempts \in Nat
      BY <1>1, <1>4, Zenon
    <3>2. CASE Unrecorded("inflight", cur, Legacy) = 0
      BY ONLY <2>1, <2>3, <2>4, <3>1, <3>2
    <3>3. CASE Unrecorded("inflight", cur, Legacy) = 1 /\ pc = "legacyRecord"
      BY ONLY <2>1, <2>3, <2>4, <3>1, <3>3
    <3> QED
      BY <2>2, <3>2, <3>3, Zenon
<1>6. cur' = cur /\ (pc = "legacyRecord" => pc' = "write")
  BY ZenonT(30) DEF FailItem, Suppress, LegacyRecord, QuietDrop, ResolveAgain, Finish,
         AfterResolve, finishResolvedItem, Ack, Nack, Defer, Move, Hold
<1>7. BoundedSends' /\ UnsentBefore' /\ BudgetLeft'
  BY <1>1, <1>2, UncountedStep DEF BudgetLeft, exists
<1>8. SendsOnRecord'
  <2> SUFFICES ASSUME NEW i \in Item, NEW d \in Active,
                      NEW t \in Target \cup {Legacy}, exists(d, i)'
               PROVE  sends'[i][t] <= Spent(disk'[d][i], t) + crashes' + faults'
                                        + Unrecorded(d, i, t)'
    BY Zenon DEF SendsOnRecord
  <2>1. crashes + faults + Unrecorded(d, i, t)
          <= crashes' + faults' + Unrecorded(d, i, t)'
    BY <1>1, <1>2, <1>3, <1>6 DEF Unrecorded
  <2> QED
    BY <1>1, <1>2, <2>1, KeptRecord, Zenon
<1>9. HeldAttempts'
  <2>1. ASSUME pc' # "write", mem' = mem PROVE HeldAttempts'
    BY <1>2, <1>4, <1>6, <2>1, Zenon DEF HeldAttempts
  <2>2. ASSUME dst' # "pending", pc' = "write" PROVE HeldAttempts'
    BY <2>2, Zenon DEF HeldAttempts
  <2>3. ASSUME mem'.attempts < Len(Backoff), pc' = "write",
               sends[cur][Legacy] <= mem'.attempts + crashes + faults
        PROVE  HeldAttempts'
    BY <1>2, <1>6, <2>3, Zenon DEF HeldAttempts
  <2>4. ASSUME NEW n \in Nat, pc # "legacyRecord",
               Move(deferEnvelope(mem, n), "pending")
        PROVE  HeldAttempts'
    <3>1. mem'.attempts = mem.attempts /\ pc' = "write"
      BY <1>1, <1>4, <2>4, MovedAttempts, Zenon DEF Move, Hold
    <3> QED
      BY <1>1, <1>4, <1>5, <2>3, <2>4, <3>1, Zenon
  <2>5. ASSUME NEW permanent \in BOOLEAN, Nack(permanent) PROVE HeldAttempts'
    <3>1. CASE nackIsFinal(mem, permanent)
      BY <2>2, <2>5, <3>1, Zenon DEF Nack, Move, Hold
    <3>2. CASE ~nackIsFinal(mem, permanent)
      <4>1. mem' = nackEnvelope(mem, permanent, at) /\ pc' = "write"
        BY <2>5, Zenon DEF Nack, Move, Hold
      <4>2. mem'.attempts = mem.attempts + 1
        <5>1. nackEnvelope(mem, permanent, at).attempts = mem.attempts + 1
          BY <1>1, <1>4, NackedEnvelope, ZenonT(30)
        <5> QED
          BY <4>1, <5>1, Zenon
      <4>3. mem.attempts + 1 < Len(Backoff)
        BY <1>4, <3>2, BackoffAssumption DEF nackIsFinal
      <4>4. sends[cur][Legacy] \in Nat
        BY <1>4, Counts, Zenon
      <4>5. sends[cur][Legacy] <= mem'.attempts + crashes + faults
        BY <1>1, <1>4, <1>5, <4>2, <4>4, Zenon
      <4> QED
        BY <2>3, <4>1, <4>2, <4>3, <4>5, Zenon
    <3> QED
      BY <3>1, <3>2, Zenon
  <2>6. CASE FailItem
    BY <2>1, <2>5, <2>6, Zenon DEF FailItem, Hold
  <2>7. CASE Suppress
    BY <2>2, <2>7, Zenon DEF Suppress, Ack, Move, Hold
  <2>8. CASE LegacyRecord
    BY <2>2, <2>5, <2>8, Zenon DEF LegacyRecord, Ack, Move, Hold
  <2>9. CASE QuietDrop
    BY <2>1, <2>9, Zenon DEF QuietDrop, Hold
  <2>10. CASE ResolveAgain
    <3>1. pc # "legacyRecord"
      BY <2>10, Zenon DEF ResolveAgain
    <3>2. CASE Move(deferEnvelope(mem, QuietUntil), "pending")
      BY <2>4, <3>1, <3>2, ServiceAssumption, Zenon
    <3>3. CASE ~Move(deferEnvelope(mem, QuietUntil), "pending")
      BY <2>1, <2>2, <2>10, <3>3, Zenon DEF ResolveAgain, AfterResolve, Move, Hold
    <3> QED
      BY <3>2, <3>3, Zenon
  <2>11. CASE Finish
    <3>1. pc # "legacyRecord"
      BY <2>11, Zenon DEF Finish
    <3>2. CASE Ack
      BY <2>2, <3>2, Zenon DEF Ack, Move, Hold
    <3>3. ASSUME NEW n \in DueTimes(mem.ledger), Defer(n) PROVE HeldAttempts'
      <4>1. DueTimes(mem.ledger) \subseteq Nat
        BY <1>1, <1>4, ServiceAssumption, SMTT(30) DEF DueTimes, Envelope, Ledgers, Entry, pendingTargets
      <4> QED
        BY <2>4, <3>1, <3>3, <4>1, Zenon DEF Defer
    <3> QED
      BY <2>11, <3>2, <3>3, Zenon DEF Finish, finishResolvedItem
  <2> QED
    BY <2>6, <2>7, <2>8, <2>9, <2>10, <2>11, Zenon
<1> QED
  BY <1>7, <1>8, <1>9, Zenon DEF SendsInv

\* A message is handed to the sender only while the record has room for it.
LEMMA SendsCounted ==
  ASSUME IInv, IInv', SendsInv, SendLegacy \/ \E t \in Target : SendTarget(t)
  PROVE  SendsInv'
<1>1. /\ crashes \in Nat /\ faults \in Nat /\ CounterType
      /\ BoundedSends /\ BudgetLeft /\ SendsOnRecord /\ HeldAttempts /\ UnsentBefore
  BY Zenon DEF IInv, CounterType, SendsInv
<1>2. PICK u \in Target \cup {Legacy} :
        /\ Send(u) /\ UNCHANGED <<mem, cur, dst>> /\ result'.target = u
        /\ \/ u = Legacy /\ SendLegacy /\ pc' = "legacyRecord"
           \/ u \in Target /\ SendTarget(u) /\ pc' = "record"
  <2>1. CASE SendLegacy
    <3>1. PICK outcome \in Outcome :
            Hold("legacyRecord", mem, {}, [target |-> Legacy, outcome |-> outcome], dst)
      BY <2>1, Zenon DEF SendLegacy
    <3>2. Send(Legacy)
      BY <2>1, Zenon DEF SendLegacy
    <3> QED
      BY <2>1, <3>1, <3>2, Zenon DEF Hold
  <2>2. ASSUME NEW t \in Target, SendTarget(t)
        PROVE  /\ Send(t) /\ UNCHANGED <<mem, cur, dst>> /\ result'.target = t
               /\ pc' = "record"
    <3>1. PICK outcome \in Outcome :
            Hold("record", mem, todo \ {t}, [target |-> t, outcome |-> outcome], dst)
      BY <2>2, Zenon DEF SendTarget
    <3> QED
      BY <2>2, <3>1, Zenon DEF SendTarget, Hold
  <2> QED
    BY <2>1, <2>2, Zenon
<1>3. pc \in {"load", "deliver"} /\ pc' \in {"legacyRecord", "record"}
  BY <1>2, Zenon DEF SendLegacy, SendTarget
<1>4. /\ cur \in Item /\ exists("inflight", cur) /\ ~exists("pending", cur)
      /\ mem \in Envelope /\ mem.attempts = disk["inflight"][cur].attempts
      /\ mem.ledger = disk["inflight"][cur].ledger
      /\ WithinBackoff(mem)
      /\ \A t \in Target \cup {Legacy} :
           sends[cur][t] <= Spent(mem, t) + crashes + faults
                              + Unrecorded("inflight", cur, t)
  BY <1>3, HeldItem, Zenon DEF Handling
<1>5. /\ UNCHANGED <<disk, accepted, crashes, faults>>
      /\ \A i \in Item, t \in Target \cup {Legacy} :
           sends'[i][t] = IF i = cur /\ t = u THEN sends[i][t] + 1 ELSE sends[i][t]
  BY <1>1, <1>2, <1>4, Zenon DEF Send, CounterType
<1>6. Spent(mem, u) < Len(Backoff) /\ Spent(mem, u) \in Nat
  <2>1. CASE u = Legacy
    BY <1>4, <2>1, Zenon DEF Spent, WithinBackoff, Envelope
  <2>2. CASE u \in Target
    <3>1. mem.ledger[u].state = "pending"
      BY <1>2, <2>2, ServiceAssumption, Zenon
         DEF SendTarget, IInv, LocalInv, OpenTargets, pendingTargets
    <3> QED
      BY <1>4, <2>2, <3>1, ServiceAssumption, Zenon DEF Spent, WithinBackoff, Envelope, Ledgers, Entry
  <2> QED
    BY <2>1, <2>2, Zenon
<1>7. \A d \in Dir : \A i, t : Unrecorded(d, i, t) = 0
  BY <1>3, Zenon DEF Unrecorded
<1>8. sends[cur][u] + 1 <= Len(Backoff) + crashes + faults
  <2>1. sends[cur][u] <= Spent(mem, u) + crashes + faults + 0 /\ sends[cur][u] \in Nat
    BY <1>4, <1>7, Counts, Zenon DEF Dir
  <2>2. Len(Backoff) \in Nat
    BY BackoffAssumption
  <2>3. crashes \in Nat /\ faults \in Nat
    BY Counts, Zenon
  <2> QED
    BY ONLY <1>6, <2>1, <2>2, <2>3
<1>9. BoundedSends'
  BY <1>1, <1>5, <1>8, ZenonT(60) DEF BoundedSends
<1>10. UnsentBefore'
  <2>1. cur \in accepted
    BY <1>4, Zenon DEF IInv, SpoolInv, Accounted, onDisk, Dir
  <2> QED
    BY <1>1, <1>5, <2>1, ZenonT(60) DEF UnsentBefore
<1>11. BudgetLeft'
  BY <1>1, <1>5, Zenon DEF BudgetLeft, exists
<1>12. HeldAttempts'
  BY <1>2, <1>3, <1>4, <1>5, Zenon DEF HeldAttempts
<1>13. SendsOnRecord'
  <2> SUFFICES ASSUME NEW i \in Item, NEW d \in Active,
                      NEW t \in Target \cup {Legacy}, exists(d, i)'
               PROVE  sends'[i][t] <= Spent(disk'[d][i], t) + crashes' + faults'
                                        + Unrecorded(d, i, t)'
    BY Zenon DEF SendsOnRecord
  <2>1. CASE i = cur /\ t = u
    <3>1. d = "inflight"
      BY <1>4, <1>5, <2>1, Zenon DEF Active, exists
    <3>2. Unrecorded(d, i, t)' = 1
      BY <1>2, <2>1, <3>1, Zenon DEF Unrecorded
    <3>3. Spent(disk'[d][i], t) = Spent(mem, u)
      BY <1>4, <1>5, <2>1, <3>1, Zenon DEF Spent
    <3>4. sends[cur][u] <= Spent(mem, u) + crashes + faults + 0 /\ sends[cur][u] \in Nat
      BY <1>4, <1>7, Counts, Zenon DEF Dir
    <3>5. sends'[i][t] = sends[cur][u] + 1
      BY <1>5, <2>1, Zenon
    <3> QED
      <4>1. /\ crashes \in Nat /\ faults \in Nat
            /\ crashes' = crashes /\ faults' = faults
        BY <1>5, Counts, Zenon
      <4> QED
        BY ONLY <1>6, <3>2, <3>3, <3>4, <3>5, <4>1
  <2>2. CASE ~(i = cur /\ t = u)
    <3>1. sends'[i][t] = sends[i][t]
      BY <1>5, <2>2, Zenon
    <3>2. Unrecorded(d, i, t) = 0 /\ Unrecorded(d, i, t)' \in {0, 1}
      BY <1>7, Zenon DEF Unrecorded, Active, Dir
    <3>3. crashes + faults + Unrecorded(d, i, t)
            <= crashes' + faults' + Unrecorded(d, i, t)'
      BY <1>1, <1>5, <3>2
    <3> QED
      BY <1>1, <1>5, <3>1, <3>3, KeptRecord, Zenon
  <2> QED
    BY <2>1, <2>2, Zenon
<1> QED
  BY <1>9, <1>10, <1>11, <1>12, <1>13, Zenon DEF SendsInv

\* The transition copies memory to its destination.
LEMMA SendsTransition ==
  ASSUME IInv, IInv', SendsInv, WriteDestination
  PROVE  SendsInv'
<1>1. /\ crashes \in Nat /\ faults \in Nat /\ DiskType
      /\ BoundedSends /\ BudgetLeft /\ SendsOnRecord /\ HeldAttempts /\ UnsentBefore
  BY Zenon DEF IInv, CounterType, SpoolInv, SendsInv
<1>2. /\ cur \in Item /\ exists("inflight", cur) /\ ~completedTransition(cur)
      /\ mem.ledger = disk["inflight"][cur].ledger /\ mem \in Envelope
      /\ dst \in {"pending", "history", "dead"} /\ pc = "write"
  BY Zenon DEF WriteDestination, IInv, LocalInv, LocalType, HandledItem, Handling
<1>3. /\ write(dst, cur, mem) /\ pc' = "remove"
      /\ UNCHANGED <<cur, accepted, sends, crashes, faults>>
  BY <1>2, Zenon DEF WriteDestination, completedTransition, observed
<1>4. \A x \in Dir, j \in Item :
        disk'[x][j] = IF x = dst /\ j = cur THEN mem ELSE disk[x][j]
  BY <1>1, <1>2, <1>3, Zenon DEF write, DiskType, Dir
<1>5. BoundedSends' /\ UnsentBefore' /\ HeldAttempts'
  BY <1>1, <1>3, UncountedStep DEF HeldAttempts, Handling
<1>6. dst = "pending" =>
        /\ WithinBackoff(mem)
        /\ \A t \in Target \cup {Legacy} :
             sends[cur][t] <= Spent(mem, t) + crashes + faults
  <2> SUFFICES ASSUME dst = "pending" PROVE <1>6!2
    OBVIOUS
  <2>1. /\ mem.attempts < Len(Backoff)
        /\ sends[cur][Legacy] <= mem.attempts + crashes + faults
    BY <1>1, <1>2, Zenon DEF HeldAttempts
  <2>2. WithinBackoff(disk["inflight"][cur])
    BY <1>1, <1>2, Zenon DEF BudgetLeft, Active
  <2>3. WithinBackoff(mem)
    BY <1>2, <2>1, <2>2, Zenon DEF WithinBackoff
  <2>4. ASSUME NEW t \in Target PROVE sends[cur][t] <= Spent(mem, t) + crashes + faults
    <3>1. sends[cur][t] <= Spent(disk["inflight"][cur], t) + crashes + faults
                             + Unrecorded("inflight", cur, t)
      BY <1>1, <1>2, Zenon DEF SendsOnRecord, Active
    <3>2. Unrecorded("inflight", cur, t) = 0
      BY <1>2, ServiceAssumption, Zenon DEF Unrecorded
    <3>3. Spent(disk["inflight"][cur], t) = Spent(mem, t) /\ Spent(mem, t) \in Nat
      BY <1>2, Counts, ServiceAssumption, Zenon DEF Spent
    <3> QED
      BY <1>1, <3>1, <3>2, <3>3
  <2>5. sends[cur][Legacy] <= Spent(mem, Legacy) + crashes + faults
    BY <2>1, Zenon DEF Spent
  <2> QED
    BY <2>3, <2>4, <2>5, Zenon
<1>7. BudgetLeft'
  BY <1>1, <1>2, <1>4, <1>6, ZenonT(60) DEF BudgetLeft, Active, Dir, exists
<1>8. SendsOnRecord'
  <2> SUFFICES ASSUME NEW i \in Item, NEW d \in Active,
                      NEW t \in Target \cup {Legacy}, exists(d, i)'
               PROVE  sends'[i][t] <= Spent(disk'[d][i], t) + crashes' + faults'
                                        + Unrecorded(d, i, t)'
    BY Zenon DEF SendsOnRecord
  <2>1. CASE d = dst /\ i = cur
    <3>1. dst = "pending" /\ disk'[d][i] = mem
      BY <1>2, <1>4, <2>1, Zenon DEF Active, Dir
    <3>2. Unrecorded(d, i, t)' = 0
      BY <2>1, <3>1, Zenon DEF Unrecorded
    <3>3. sends[cur][t] <= Spent(mem, t) + crashes + faults
      BY <1>6, <3>1, Zenon
    <3>4. Spent(mem, t) \in Nat
      BY <1>2, Counts, Zenon
    <3> QED
      BY <1>1, <1>3, <2>1, <3>1, <3>2, <3>3, <3>4
  <2>2. CASE ~(d = dst /\ i = cur)
    <3>1. disk'[d][i] = disk[d][i]
      BY <1>4, <2>2, Zenon DEF Active, Dir
    <3>2. Unrecorded(d, i, t) = Unrecorded(d, i, t)'
      BY <1>2, <1>3, Zenon DEF Unrecorded
    <3>3. Unrecorded(d, i, t) \in {0, 1}
      BY Zenon DEF Unrecorded
    <3>4. crashes + faults + Unrecorded(d, i, t)
            <= crashes' + faults' + Unrecorded(d, i, t)'
      BY <1>1, <1>3, <3>2, <3>3
    <3> QED
      BY <1>1, <1>3, <3>1, <3>4, KeptRecord, Zenon
  <2> QED
    BY <2>1, <2>2, Zenon
<1> QED
  BY <1>5, <1>7, <1>8, Zenon DEF SendsInv

\* The handler replaces the inflight file by one with every send on record.
LEMMA SendsReplaced ==
  ASSUME IInv, IInv', SendsInv, pc \in Handling \ {"write"}, NEW e \in Envelope,
         write("inflight", cur, e),
         UNCHANGED <<cur, accepted, sends, crashes, faults>>,
         WithinBackoff(e),
         \A t \in Target \cup {Legacy} : sends[cur][t] <= Spent(e, t) + crashes + faults
  PROVE  BoundedSends' /\ UnsentBefore' /\ BudgetLeft' /\ SendsOnRecord'
<1>1. /\ crashes \in Nat /\ faults \in Nat /\ DiskType /\ cur \in Item
      /\ BoundedSends /\ BudgetLeft /\ SendsOnRecord /\ UnsentBefore
  BY HeldItem, Zenon DEF IInv, CounterType, SpoolInv, SendsInv
<1>2. \A x \in Dir, j \in Item :
        disk'[x][j] = IF x = "inflight" /\ j = cur THEN e ELSE disk[x][j]
  BY <1>1, Zenon DEF write, DiskType, Dir
<1>3. BoundedSends' /\ UnsentBefore'
  BY <1>1, UncountedStep
<1>4. BudgetLeft'
  BY <1>1, <1>2, ZenonT(60) DEF BudgetLeft, Active, Dir, exists
<1>5. SendsOnRecord'
  <2> SUFFICES ASSUME NEW i \in Item, NEW d \in Active,
                      NEW t \in Target \cup {Legacy}, exists(d, i)'
               PROVE  sends'[i][t] <= Spent(disk'[d][i], t) + crashes' + faults'
                                        + Unrecorded(d, i, t)'
    BY Zenon DEF SendsOnRecord
  <2>1. Unrecorded(d, i, t)' \in {0, 1} /\ Unrecorded(d, i, t) \in {0, 1}
    BY Zenon DEF Unrecorded
  <2>2. CASE d = "inflight" /\ i = cur
    <3>1. disk'[d][i] = e
      BY <1>2, <2>2, Zenon DEF Active, Dir
    <3>2. sends'[i][t] <= Spent(e, t) + crashes' + faults'
      BY <2>2, Zenon
    <3>3. sends'[i][t] \in Nat /\ Spent(e, t) \in Nat
      BY Counts, Zenon
    <3> QED
      BY <1>1, <2>1, <3>1, <3>2, <3>3
  <2>3. CASE ~(d = "inflight" /\ i = cur)
    <3>1. disk'[d][i] = disk[d][i]
      BY <1>2, <2>3, Zenon DEF Active, Dir
    <3>2. Unrecorded(d, i, t) = 0
      BY <2>3, Zenon DEF Unrecorded
    <3>3. crashes + faults + Unrecorded(d, i, t)
            <= crashes' + faults' + Unrecorded(d, i, t)'
      BY <1>1, <2>1, <3>2
    <3> QED
      BY <1>1, <3>1, <3>3, KeptRecord, Zenon
  <2> QED
    BY <2>2, <2>3, Zenon
<1> QED
  BY <1>3, <1>4, <1>5, Zenon

\* updateTarget puts one more attempt of a pending target on record.
LEMMA SendsUpdated ==
  ASSUME IInv, IInv', SendsInv, pc \in {"deliver", "failing", "dropping", "record"},
         NEW t \in Target, NEW entry \in Entry,
         entry.attempts = mem.ledger[t].attempts + 1, entry.state # "none",
         entry.state = "pending" => entry.attempts < Len(Backoff),
         \A u \in Target \cup {Legacy} :
           Unrecorded("inflight", cur, u) = 1 => u = t,
         NEW where \in {"deliver", "failing", "dropping"},
         UpdateTarget(t, entry, where),
         UNCHANGED <<accepted, sends, crashes, faults>>
  PROVE  SendsInv'
<1> DEFINE updated == [mem EXCEPT !.ledger[t] = entry]
<1>1. /\ cur \in Item /\ mem \in Envelope /\ WithinBackoff(mem)
      /\ \A u \in Target \cup {Legacy} :
           sends[cur][u] <= Spent(mem, u) + crashes + faults
                              + Unrecorded("inflight", cur, u)
  BY HeldItem, Zenon DEF Handling
<1>2. /\ updated \in Envelope
      /\ updated.ledger = [mem.ledger EXCEPT ![t] = entry]
      /\ updated.attempts = mem.attempts
  BY <1>1, UpdatedEnvelope, Zenon DEF Envelope
<1>3. /\ write("inflight", cur, updated)
      /\ mem' = updated /\ pc' = where /\ cur' = cur
  BY Zenon DEF UpdateTarget, Hold
<1> HIDE DEF updated
<1>4. mem.ledger \in [Target -> Entry]
  BY <1>1, Zenon DEF Envelope, Ledgers
<1>5. /\ updated.ledger[t] = entry
      /\ \A u \in Target \ {t} : updated.ledger[u] = mem.ledger[u]
  BY <1>2, <1>4, Zenon
<1>6. WithinBackoff(updated)
  BY <1>1, <1>2, <1>5, Zenon DEF WithinBackoff
<1>7. ASSUME NEW u \in Target \cup {Legacy}
      PROVE  sends[cur][u] <= Spent(updated, u) + crashes + faults
  <2>1. /\ sends[cur][u] \in Nat /\ crashes \in Nat /\ faults \in Nat
        /\ Spent(mem, u) \in Nat /\ Unrecorded("inflight", cur, u) \in {0, 1}
    BY <1>1, Counts, Zenon DEF Unrecorded
  <2>2. sends[cur][u] <= Spent(mem, u) + crashes + faults
                           + Unrecorded("inflight", cur, u)
    BY <1>1, Zenon
  <2>3. CASE u = t
    <3>1. Spent(updated, u) = Spent(mem, u) + 1
      BY <1>5, <2>3, ServiceAssumption, Zenon DEF Spent
    <3> QED
      BY ONLY <2>1, <2>2, <3>1
  <2>4. CASE u # t
    <3>1. Spent(updated, u) = Spent(mem, u)
      BY <1>2, <1>5, <2>4, Zenon DEF Spent
    <3>2. Unrecorded("inflight", cur, u) = 0
      BY <2>1, <2>4, Zenon
    <3> QED
      BY ONLY <2>1, <2>2, <3>1, <3>2
  <2> QED
    BY <2>3, <2>4, Zenon
<1>8. BoundedSends' /\ UnsentBefore' /\ BudgetLeft' /\ SendsOnRecord'
  BY <1>2, <1>3, <1>6, <1>7, SendsReplaced, Zenon DEF Handling
<1>9. HeldAttempts'
  <2>1. disk'["inflight"][cur] = updated
    BY <1>1, <1>3, Zenon DEF write, DiskType, IInv, SpoolInv, Dir
  <2> QED
    BY <1>3, <2>1, Zenon DEF HeldAttempts
<1> QED
  BY <1>8, <1>9, Zenon DEF SendsInv

\* The steps that rewrite the ledger.
LEMMA SendsLedger ==
  ASSUME IInv, IInv', SendsInv,
         \/ \E T \in SUBSET Target : ResolveNew(T)
         \/ RecordTarget
         \/ \E t \in Target : FailTarget(t) \/ DropTarget(t)
  PROVE  SendsInv'
<1>1. UNCHANGED <<accepted, sends, crashes, faults>>
  BY Zenon DEF ResolveNew, RecordTarget, FailTarget, DropTarget, observed
<1>2. pc \in Handling \ {"write", "legacyRecord"}
  BY Zenon DEF ResolveNew, RecordTarget, FailTarget, DropTarget, Handling
<1>3. /\ cur \in Item /\ mem \in Envelope /\ WithinBackoff(mem) /\ at \in Nat
      /\ \A u \in Target \cup {Legacy} :
           sends[cur][u] <= Spent(mem, u) + crashes + faults
                              + Unrecorded("inflight", cur, u)
  BY <1>2, HeldItem, Zenon DEF IInv, LocalInv, LocalType
<1>4. \A t \in Target : mem.ledger[t] \in Entry /\ mem.ledger[t].attempts \in Nat
  BY <1>3, Zenon DEF Envelope, Ledgers, Entry
<1>5. ASSUME NEW t \in Target, NEW permanent \in BOOLEAN
      PROVE  LET e == mem.ledger[t]
                 failed == failTarget(e, permanent, at)
             IN  /\ failed \in Entry /\ failed.attempts = e.attempts + 1
                 /\ failed.state # "none"
                 /\ failed.state = "pending" => failed.attempts < Len(Backoff)
  <2> DEFINE e == mem.ledger[t]
  <2>1. e \in Entry /\ e.attempts \in Nat
    BY <1>4, Zenon
  <2> HIDE DEF e
  <2>2. failTarget(e, permanent, at) \in Entry
    BY <1>3, <2>1, UpdatedEntry, Zenon
  <2>3. /\ failTarget(e, permanent, at).attempts = e.attempts + 1
        /\ failTarget(e, permanent, at).state # "none"
        /\ failTarget(e, permanent, at).state = "pending" =>
             e.attempts + 1 < Len(Backoff)
    BY <2>1, BackoffAssumption DEF failTarget, DeadEntry, NackEntry
  <2> QED
    BY <2>2, <2>3, Zenon DEF e
<1>6. \A u \in Target \cup {Legacy} :
        Unrecorded("inflight", cur, u) = 1 => pc = "record" /\ u = result.target
  BY <1>2 DEF Unrecorded, Handling
<1>7. CASE RecordTarget
  <2>1. pc = "record" /\ result.target \in Target
    BY <1>7, Zenon DEF RecordTarget, IInv, LocalInv, OpenTargets
  <2> DEFINE t == result.target
  <2>2. CASE result.outcome = "ok"
    <3> DEFINE entry == AckEntry(mem.ledger[t])
    <3>1. /\ entry \in Entry /\ entry.attempts = mem.ledger[t].attempts + 1
          /\ entry.state = "succeeded"
      BY <1>4, <2>1 DEF AckEntry, Entry, DeliveryState
    <3>2. UpdateTarget(t, entry, "deliver")
      BY <1>7, <2>2, Zenon DEF RecordTarget
    <3> HIDE DEF entry
    <3> QED
      BY <1>1, <1>6, <2>1, <3>1, <3>2, SendsUpdated, Zenon
  <2>3. CASE result.outcome # "ok"
    <3> DEFINE entry == failTarget(mem.ledger[t], result.outcome = "permanent", at)
    <3>1. /\ entry \in Entry /\ entry.attempts = mem.ledger[t].attempts + 1
          /\ entry.state # "none"
          /\ entry.state = "pending" => entry.attempts < Len(Backoff)
      BY <1>5, <2>1, Zenon
    <3>2. UpdateTarget(t, entry, "deliver")
      BY <1>7, <2>3, Zenon DEF RecordTarget
    <3> HIDE DEF entry
    <3> QED
      BY <1>1, <1>6, <2>1, <3>1, <3>2, SendsUpdated, Zenon
  <2> QED
    BY <2>2, <2>3, Zenon
<1>8. ASSUME NEW t \in Target, FailTarget(t) PROVE SendsInv'
  <2> DEFINE entry == failTarget(mem.ledger[t], FALSE, at)
  <2>1. /\ entry \in Entry /\ entry.attempts = mem.ledger[t].attempts + 1
        /\ entry.state # "none"
        /\ entry.state = "pending" => entry.attempts < Len(Backoff)
    BY <1>5, Zenon
  <2>2. UpdateTarget(t, entry, pc) /\ pc \in {"deliver", "failing"}
    BY <1>8, Zenon DEF FailTarget
  <2> HIDE DEF entry
  <2> QED
    BY <1>1, <1>6, <2>1, <2>2, SendsUpdated, Zenon
<1>9. ASSUME NEW t \in Target, DropTarget(t) PROVE SendsInv'
  <2> DEFINE entry == DeadEntry(mem.ledger[t])
  <2>1. /\ entry \in Entry /\ entry.attempts = mem.ledger[t].attempts + 1
        /\ entry.state = "dead"
    BY <1>4 DEF DeadEntry, Entry, DeliveryState
  <2>2. UpdateTarget(t, entry, "dropping") /\ pc = "dropping"
    BY <1>9, Zenon DEF DropTarget
  <2> HIDE DEF entry
  <2> QED
    BY <1>1, <1>6, <2>1, <2>2, SendsUpdated, Zenon
<1>10. ASSUME NEW T \in SUBSET Target, ResolveNew(T) PROVE SendsInv'
  <2> DEFINE resolved == [mem EXCEPT !.ledger = newDeliveryLedger(T)]
  <2>1. /\ pc = "load" /\ ~HasLedger(mem.ledger)
        /\ write("inflight", cur, resolved) /\ AfterResolve(resolved)
    BY <1>10, Zenon DEF ResolveNew
  <2>2. resolved \in Envelope
    BY <1>3, ZenonT(30)
       DEF Envelope, newDeliveryLedger, Ledgers, Entry, NoEntry, DeliveryState
  <2>3. resolved.attempts = mem.attempts /\ resolved.ledger = newDeliveryLedger(T)
    BY <1>3, Zenon DEF Envelope
  <2> HIDE DEF resolved
  <2>4. \A t \in Target : resolved.ledger[t].attempts = 0
    BY <2>3 DEF newDeliveryLedger, NoEntry
  <2>5. WithinBackoff(resolved)
    BY <1>3, <2>3, <2>4, BackoffAssumption DEF WithinBackoff
  <2>6. ASSUME NEW t \in Target \cup {Legacy}
        PROVE  sends[cur][t] <= Spent(resolved, t) + crashes + faults
    <3>1. Unrecorded("inflight", cur, t) = 0
      BY <2>1, Zenon DEF Unrecorded
    <3>2. Spent(mem, t) = Spent(resolved, t)
      BY <1>3, <2>1, <2>3, <2>4, Zenon DEF Spent, WithinBackoff, HasLedger
    <3>3. /\ sends[cur][t] <= Spent(mem, t) + crashes + faults + 0
          /\ Spent(mem, t) \in Nat /\ crashes \in Nat /\ faults \in Nat
      BY <1>3, <3>1, Counts, Zenon
    <3> QED
      BY <3>2, <3>3
  <2>7. cur' = cur
    BY <2>1, Zenon DEF AfterResolve, Move, Hold
  <2>8. BoundedSends' /\ UnsentBefore' /\ BudgetLeft' /\ SendsOnRecord'
    BY <1>1, <1>2, <2>1, <2>2, <2>5, <2>6, <2>7, SendsReplaced, Zenon
  <2>9. HeldAttempts'
    <3>1. disk'["inflight"][cur] = resolved
      BY <1>3, <2>1, Zenon DEF write, DiskType, IInv, SpoolInv, Dir
    <3>2. CASE pc' # "write"
      BY <2>1, <2>7, <3>1, <3>2, Zenon DEF AfterResolve, Move, Hold, HeldAttempts
    <3>3. CASE pc' = "write"
      <4>1. now \in Nat
        BY Zenon DEF IInv, SpoolInv, DiskType
      <4>2. mem'.attempts = resolved.attempts
        <5>1. mem' = ackEnvelope(resolved) \/ mem' = deferEnvelope(resolved, QuietUntil)
          BY <2>1, <3>3, ZenonT(60) DEF AfterResolve, Move, Hold
        <5>2. QuietUntil \in Nat
          BY ServiceAssumption, Zenon
        <5> QED
          BY <2>2, <4>1, <5>1, <5>2, MovedAttempts, ZenonT(60)
      <4>3. sends[cur][Legacy] <= resolved.attempts + crashes + faults
        BY <2>6, Zenon DEF Spent
      <4>4. resolved.attempts < Len(Backoff)
        BY <2>5, Zenon DEF WithinBackoff
      <4> QED
        BY <1>1, <2>7, <3>3, <4>2, <4>3, <4>4, Zenon DEF HeldAttempts
    <3> QED
      BY <3>2, <3>3, Zenon
  <2> QED
    BY <2>8, <2>9, Zenon DEF SendsInv
<1> QED
  BY <1>7, <1>8, <1>9, <1>10, Zenon

\* A target, or the default channel of an item without a ledger, is handed at
\* most one message per entry of the backoff, plus one for every kill or failed
\* file operation that lost the record of an attempt.
THEOREM SendsAreBounded == Spec => []BoundedSends
<1>1. Init => SendsInv
  BY BackoffAssumption
     DEF Init, SendsInv, BoundedSends, BudgetLeft, SendsOnRecord, HeldAttempts,
         UnsentBefore, Handling, exists, Active, Dir
<1>2. IInv /\ IInv' /\ SendsInv /\ [Next]_vars => SendsInv'
  BY SendsStartup, SendsInterrupted, SendsDecision, SendsCounted, SendsLedger,
     SendsTransition, Zenon DEF Next, ProcessOne
<1>3. SendsInv => BoundedSends
  BY Zenon DEF SendsInv
<1> QED
  BY <1>1, <1>2, <1>3, Invariance, PTL DEF Spec

-----------------------------------------------------------------------------
(***************************************************************************)
(* QueueRetry: the service and a retry command whose file operations       *)
(* interleave with the service's.  The invariant of the service alone does *)
(* not survive the command: an item can have a dead copy beside the copy   *)
(* the service is handling.  What remains true is split in three:          *)
(* RetryBase holds of every state; KeepInv until a kill or the last        *)
(* attempt meets the command between its two file operations; SoundInv     *)
(* until a command is killed.                                              *)
(***************************************************************************)

Settled == {"pending", "history", "dead"}
Starting == {"down", "recover", "recoverRemove", "cleanupHistory", "cleanupDead"}

-----------------------------------------------------------------------------
\* What holds of the files, of the service's memory and of the command, whoever
\* is killed.

FileBase == DiskType /\ HistoryType /\ Accounted

\* The item in hand has its inflight file, with the ledger memory holds, and the
\* pending copy is there until Claim, or after RecoverExpired has written it.
CurOK ==
  /\ pc \in Handling \cup {"claimRemove", "remove", "recoverRemove"} => cur \in Item
  /\ pc \in Handling \cup {"claimRemove"} =>
       exists("inflight", cur) /\ mem.ledger = disk["inflight"][cur].ledger
  /\ pc \in {"claimRemove", "recoverRemove"} => exists("pending", cur)

LocalBase == LocalType /\ ScanOK /\ OpenTargets /\ CurOK

CliOK ==
  /\ cli \in [pc : {"idle", "write", "remove"}, item : Item \cup {NoItem},
             envelope : Envelope]
  /\ cli.pc # "idle" => cli.item \in accepted
  /\ cliCrashes \in Nat

ServiceBase == FileBase /\ LocalBase /\ CounterType

RetryBase == ServiceBase /\ CliOK

\* The command has written the pending copy of i and not yet removed the dead one.
Retrying(i) == cli.pc = "remove" /\ cli.item = i

\* While the command is between its two file operations the item has a copy that
\* neither the command nor the service is about to remove.
Safe ==
  /\ NoLostItem
  /\ pc = "remove" /\ cur \notin forgotten => \E d \in Settled : exists(d, cur)
  /\ \A i \in Item \ forgotten : Retrying(i) =>
       \/ exists("pending", i) \/ exists("history", i)
       \/ /\ exists("inflight", i)
          /\ pc \notin Starting /\ ~(pc = "remove" /\ cur = i)

KeepInv == raced \/ Safe

\* The dead copy of an item that is being retried no longer counts.
seen(d, i) == exists(d, i) /\ ~(d = "dead" /\ Retrying(i))

SoundItem(i) ==
  /\ \A d, e \in Settled : seen(d, i) /\ seen(e, i) => d = e
  /\ pc \in Handling /\ cur = i => \A d \in Settled : ~seen(d, i)
  /\ \A d \in Dir : seen(d, i) =>
       \A t \in recorded[i] : disk[d][i].ledger[t].state = "succeeded"
  /\ cli.pc = "write" /\ cli.item = i =>
       exists("dead", i) /\ cli.envelope.ledger = disk["dead"][i].ledger

SoundInv == cliCrashes > 0 \/ \A i \in Item \ forgotten : SoundItem(i)

-----------------------------------------------------------------------------
\* Writing and removing files, without the claims about copies that the command
\* disturbs.

\* A written file belongs to an accepted item.
LEMMA FileWritten ==
  ASSUME FileBase, NEW d \in Dir, NEW i \in Item, NEW e \in Envelope,
         write(d, i, e), now' \in Nat, UNCHANGED forgotten,
         accepted' = accepted \cup {i},
         recorded' \in [Item -> SUBSET Target],
         \A j \in Item \ {i} : recorded'[j] = recorded[j]
  PROVE  FileBase'
<1>1. DiskType'
  BY Zenon DEF write, DiskType, FileBase
<1>2. HistoryType'
  BY Zenon DEF HistoryType, FileBase
<1>3. \A x \in Dir, j \in Item :
        disk'[x][j] = IF x = d /\ j = i THEN e ELSE disk[x][j]
  BY Zenon DEF write, DiskType, FileBase
<1>4. Accounted'
  BY <1>3, Zenon DEF Accounted, onDisk, exists, FileBase
<1> QED
  BY <1>1, <1>2, <1>4, Zenon DEF FileBase

\* A removal leaves only files of accepted items.
LEMMA FileRemoved ==
  ASSUME FileBase, NEW d \in Dir, NEW i \in Item, remove(d, i),
         now' \in Nat, UNCHANGED <<accepted, forgotten, recorded>>
  PROVE  FileBase'
<1>1. DiskType' /\ HistoryType'
  BY Zenon DEF remove, DiskType, HistoryType, FileBase
<1>2. \A x \in Dir, j \in Item : disk'[x][j] \in {disk[x][j], None}
  BY Zenon DEF remove, DiskType, FileBase
<1>3. Accounted'
  BY <1>2, Zenon DEF Accounted, onDisk, exists, FileBase
<1> QED
  BY <1>1, <1>3, Zenon DEF FileBase

\* So does a step that only lets time pass.
LEMMA FileSame ==
  ASSUME FileBase, UNCHANGED <<disk, accepted, forgotten, recorded>>, now' \in Nat
  PROVE  FileBase'
BY Zenon DEF FileBase, DiskType, HistoryType, Accounted, onDisk, exists

\* The service's memory stays right while its inflight files stay as they are and
\* no pending one goes.
LEMMA LocalSame ==
  ASSUME LocalBase, UNCHANGED local,
         \A i \in Item : disk'["inflight"][i] = disk["inflight"][i],
         \A i \in Item : exists("pending", i) => exists("pending", i)'
  PROVE  LocalBase'
<1>1. LocalType' /\ OpenTargets'
  BY SMTT(30) DEF LocalBase, LocalType, OpenTargets, local
<1>2. ScanOK'
  BY SMTT(30) DEF LocalBase, LocalType, ScanOK, local, exists
<1>3. CurOK'
  BY SMTT(30) DEF LocalBase, CurOK, local, exists
<1> QED
  BY <1>1, <1>2, <1>3, Zenon DEF LocalBase

\* A handler that returns, or a process that dies, forgets its memory.
LEMMA GotoBase ==
  ASSUME NEW where \in {"down", "idle", "cleanupHistory", "cleanupDead"},
         Goto(where)
  PROVE  LocalBase'
<1>1. LocalType' /\ ScanOK' /\ OpenTargets'
  BY GotoLocal, Zenon DEF LocalInv
<1>2. CurOK'
  BY Zenon DEF Goto, CurOK, Handling
<1> QED
  BY <1>1, <1>2, Zenon DEF LocalBase

\* A handler's step that leaves the files alone.
LEMMA HoldBase ==
  ASSUME LocalBase, pc \in Handling, UNCHANGED disk,
         NEW where \in Handling, NEW envelope \in Envelope,
         NEW targets \in SUBSET pendingTargets(mem.ledger),
         NEW answer \in [target : Target \cup {Legacy}, outcome : Outcome],
         NEW destination \in {"pending", "history", "dead"},
         envelope.ledger = mem.ledger,
         where = "record" =>
           /\ answer.target \in Target \ targets
           /\ mem.ledger[answer.target].state = "pending",
         Hold(where, envelope, targets, answer, destination)
  PROVE  LocalBase'
<1>1. LocalType'
  BY Zenon DEF Hold, LocalBase, LocalType, Running, Handling, pendingTargets
<1>2. ScanOK'
  BY Zenon DEF Hold, LocalBase, ScanOK, Handling, exists
<1>3. CurOK'
  BY Zenon DEF Hold, LocalBase, CurOK, Handling, exists
<1>4. OpenTargets'
  BY Zenon DEF Hold, LocalBase, OpenTargets
<1> QED
  BY <1>1, <1>2, <1>3, <1>4, Zenon DEF LocalBase

\* A transition out of inflight begins.
LEMMA MoveBase ==
  ASSUME LocalBase, pc \in Handling, UNCHANGED disk,
         NEW envelope \in Envelope, envelope.ledger = mem.ledger,
         NEW destination \in {"pending", "history", "dead"},
         Move(envelope, destination)
  PROVE  LocalBase'
BY HoldBase, Zenon DEF Move, Handling, NoResult, Outcome

-----------------------------------------------------------------------------
\* What the steps of the service are to the command: most leave the files alone,
\* some replace the inflight file of the item in hand, the rest move a copy.

Quiet ==
  /\ UNCHANGED <<disk, accepted, forgotten, recorded>>
  /\ pc' \in Handling => pc \in Handling /\ cur' = cur
  /\ pc' = "remove" => pc = "remove" /\ cur' = cur
  /\ pc' \in Starting => pc \in Starting \/ crashes' # crashes

Replaced(i, e) ==
  /\ cur = i /\ cur' = i /\ pc \in Handling /\ pc' \in Handling
  /\ write("inflight", i, e)
  /\ UNCHANGED <<accepted, forgotten>>
  /\ \A j \in Item \ {i} : recorded'[j] = recorded[j]
  /\ (\A t \in recorded[i] : mem.ledger[t].state = "succeeded") =>
       \A t \in recorded'[i] : e.ledger[t].state = "succeeded"

\* The steps of a handler that only decide what comes next.
LEMMA RetryDecision ==
  ASSUME ServiceBase,
         FailItem \/ Suppress \/ LegacyRecord \/ QuietDrop \/ ResolveAgain
           \/ Finish
  PROVE  ServiceBase' /\ Quiet
<1>1. FileBase /\ LocalBase /\ CounterType
  BY Zenon DEF ServiceBase
<1>2. UNCHANGED <<disk, now, observed>>
  BY ZenonT(30) DEF FailItem, Suppress, LegacyRecord, QuietDrop, ResolveAgain, Finish
<1>3. FileBase'
  BY <1>1, <1>2, FileSame, Zenon DEF observed, FileBase, DiskType
<1>4. CounterType'
  BY <1>1, <1>2, Zenon DEF observed, CounterType
<1> SUFFICES LocalBase' /\ pc \in Handling /\ pc' \in Handling /\ cur' = cur
  BY <1>2, <1>3, <1>4, SMTT(30) DEF ServiceBase, Quiet, Handling, Starting, observed
<1>5. /\ mem \in Envelope /\ at \in Nat /\ dst \in {"pending", "history", "dead"}
      /\ NoResult \in [target : Target \cup {Legacy}, outcome : Outcome]
      /\ now \in Nat
  BY <1>1, Zenon DEF LocalBase, LocalType, FileBase, DiskType, NoResult, Outcome
<1>6. readyTargets(mem.ledger, at) \in SUBSET pendingTargets(mem.ledger)
  BY Zenon DEF readyTargets
<1> DEFINE Held == LocalBase' /\ pc' \in Handling /\ cur' = cur
<1>7. ASSUME NEW where \in {"deliver", "failing", "dropping"}, pc \in Handling,
             NEW targets \in SUBSET pendingTargets(mem.ledger),
             Hold(where, mem, targets, NoResult, dst)
      PROVE  Held
  <2>1. LocalBase'
    BY <1>1, <1>2, <1>5, <1>7, HoldBase DEF Handling
  <2> QED
    BY <1>7, <2>1, Zenon DEF Hold, Handling
<1>8. ASSUME pc \in Handling, NEW e \in Envelope, e.ledger = mem.ledger,
             NEW d \in {"pending", "history", "dead"}, Move(e, d)
      PROVE  Held
  <2>1. LocalBase'
    BY <1>1, <1>2, <1>8, MoveBase, Zenon
  <2> QED
    BY <1>8, <2>1, Zenon DEF Move, Hold, Handling
<1> HIDE DEF Held
<1>9. ASSUME Ack, pc \in Handling PROVE Held
  BY <1>5, <1>8, <1>9, MovedEnvelope, Zenon DEF Ack
<1>10. ASSUME NEW permanent \in BOOLEAN, Nack(permanent), pc \in Handling PROVE Held
  BY <1>5, <1>8, <1>10, NackedEnvelope, Zenon DEF Nack
<1>11. ASSUME NEW n \in Nat, Defer(n), pc \in Handling PROVE Held
  BY <1>5, <1>8, <1>11, MovedEnvelope, Zenon DEF Defer
<1> SUFFICES pc \in Handling /\ Held
  BY Zenon DEF Held
<1>12. CASE FailItem
  BY <1>6, <1>7, <1>10, <1>12, ZenonT(30) DEF FailItem, Handling
<1>13. CASE Suppress
  BY <1>9, <1>13, Zenon DEF Suppress, Handling
<1>14. CASE LegacyRecord
  BY <1>9, <1>10, <1>14, ZenonT(30) DEF LegacyRecord, Handling
<1>15. CASE QuietDrop
  BY <1>7, <1>15, Zenon DEF QuietDrop, Handling
<1>16. CASE ResolveAgain
  <2>1. AfterResolve(mem) /\ pc \in Handling
    BY <1>16, Zenon DEF ResolveAgain, Handling
  <2> QED
    BY <1>5, <1>6, <1>7, <1>8, <2>1, MovedEnvelope, ServiceAssumption, Zenon DEF AfterResolve
<1>17. CASE Finish
  <2>1. pc \in Handling /\ (Ack \/ finishResolvedItem)
    BY <1>17, Zenon DEF Finish, Handling
  <2>2. DueTimes(mem.ledger) \subseteq Nat
    BY <1>5, ServiceAssumption
       DEF DueTimes, Envelope, Ledgers, Entry, pendingTargets
  <2> QED
    BY <1>9, <1>11, <2>1, <2>2, Zenon DEF finishResolvedItem
<1> QED
  BY <1>12, <1>13, <1>14, <1>15, <1>16, <1>17, Zenon

\* Handing a message to the sender changes no file.
LEMMA RetrySend ==
  ASSUME ServiceBase, SendLegacy \/ \E t \in Target : SendTarget(t)
  PROVE  ServiceBase' /\ Quiet
<1>1. FileBase /\ LocalBase /\ CounterType
  BY Zenon DEF ServiceBase
<1>2. PICK t \in Target \cup {Legacy} : Send(t)
  BY ZenonT(30) DEF SendLegacy, SendTarget
<1>3. UNCHANGED <<disk, now, accepted, forgotten, recorded, crashes, faults>>
  BY <1>2, Zenon DEF Send
<1>4. FileBase'
  BY <1>1, <1>3, FileSame, Zenon DEF FileBase, DiskType
<1>5. CounterType'
  <2>1. sends' \in [Item -> [Target \cup {Legacy} -> Nat]]
    <3> DEFINE Tallies == [Target \cup {Legacy} -> Nat]
    <3>1. sends \in [Item -> Tallies] /\ cur \in Item
      BY <1>1, ZenonT(30) DEF CounterType, LocalBase, CurOK, SendLegacy, SendTarget, Handling
    <3>2. [sends[cur] EXCEPT ![t] = @ + 1] \in Tallies
      BY <3>1
    <3>3. sends' = [sends EXCEPT ![cur] = [sends[cur] EXCEPT ![t] = @ + 1]]
      BY <1>2, Zenon DEF Send
    <3> HIDE DEF Tallies
    <3>4. sends' \in [Item -> Tallies]
      BY <3>1, <3>2, <3>3, Zenon
    <3> QED
      BY <3>4, SMTT(30) DEF Tallies
  <2> QED
    BY <1>1, <1>3, <2>1, ZenonT(30) DEF CounterType
<1> SUFFICES LocalBase' /\ pc \in Handling /\ pc' \in Handling /\ cur' = cur
  BY <1>3, <1>4, <1>5, SMTT(30) DEF ServiceBase, Quiet, Handling, Starting
<1>6. mem \in Envelope /\ dst \in {"pending", "history", "dead"}
  BY <1>1, Zenon DEF LocalBase, LocalType
<1>7. CASE SendLegacy
  <2>1. PICK outcome \in Outcome :
          Hold("legacyRecord", mem, {}, [target |-> Legacy, outcome |-> outcome], dst)
    BY <1>7, Zenon DEF SendLegacy
  <2>2. pc \in Handling /\ "legacyRecord" \in Handling
    BY <1>7, SMTT(30) DEF SendLegacy, Handling
  <2>3. LocalBase'
    BY <1>1, <1>3, <1>6, <2>1, <2>2, HoldBase, Zenon
  <2> QED
    BY <2>1, <2>2, <2>3, Zenon DEF Hold
<1>8. ASSUME NEW u \in Target, SendTarget(u)
      PROVE  LocalBase' /\ pc \in Handling /\ pc' \in Handling /\ cur' = cur
  <2>1. PICK outcome \in Outcome :
          Hold("record", mem, todo \ {u}, [target |-> u, outcome |-> outcome], dst)
    BY <1>8, Zenon DEF SendTarget
  <2>2. pc \in Handling /\ "record" \in Handling
    BY <1>8, SMTT(30) DEF SendTarget, Handling
  <2>3. todo \ {u} \in SUBSET pendingTargets(mem.ledger) /\ mem.ledger[u].state = "pending"
    BY <1>1, <1>8, Zenon DEF SendTarget, LocalBase, OpenTargets, pendingTargets
  <2>4. LocalBase'
    BY <1>1, <1>3, <1>6, <2>1, <2>2, <2>3, HoldBase, Zenon
  <2> QED
    BY <2>1, <2>2, <2>4, Zenon DEF Hold
<1> QED
  BY <1>7, <1>8, Zenon

\* A step of the handler that replaces the inflight file of its item.
LEMMA RetryReplace ==
  ASSUME FileBase, LocalBase, pc \in Handling, NEW i, i = cur,
         NEW e \in Envelope, write("inflight", i, e),
         UNCHANGED <<now, accepted, forgotten>>,
         recorded' \in [Item -> SUBSET Target],
         \A j \in Item \ {i} : recorded'[j] = recorded[j],
         (\A t \in recorded[i] : mem.ledger[t].state = "succeeded") =>
           \A t \in recorded'[i] : e.ledger[t].state = "succeeded",
         pc' \in Handling \ {"record"},
         mem' \in Envelope, mem'.ledger = e.ledger,
         todo' \subseteq pendingTargets(e.ledger),
         result' = NoResult, dst' \in {"pending", "history", "dead"},
         UNCHANGED <<scan, cur, at>>
  PROVE  FileBase' /\ LocalBase' /\ Replaced(i, e)
<1>1. i \in Item /\ exists("inflight", i) /\ scan = {} /\ at \in Nat
  BY ZenonT(30) DEF LocalBase, CurOK, ScanOK, LocalType, Handling
<1>2. accepted' = accepted \cup {i}
  BY <1>1, ZenonT(30) DEF FileBase, Accounted, onDisk, Dir
<1>3. FileBase'
  BY <1>1, <1>2, FileWritten, Zenon DEF FileBase, DiskType, Dir
<1>4. \A x \in Dir : disk'[x][i] = IF x = "inflight" THEN e ELSE disk[x][i]
  BY <1>1, ZenonT(60) DEF write, FileBase, DiskType, Dir
<1>5. LocalType'
  BY <1>1, ZenonT(60) DEF LocalType, Running, Handling, pendingTargets, NoResult, Outcome
<1>6. ScanOK' /\ OpenTargets'
  <2>1. ScanOK'
    BY <1>1, ZenonT(60) DEF ScanOK, Handling
  <2>2. OpenTargets'
    BY <1>1, ZenonT(60) DEF OpenTargets, Handling
  <2> QED
    BY <2>1, <2>2, Zenon
<1>7. CurOK'
  BY <1>1, <1>4, NoneAssumption, ZenonT(60) DEF CurOK, Handling, exists, Dir
<1> QED
  BY <1>1, <1>3, <1>4, <1>5, <1>6, <1>7, ZenonT(60) DEF LocalBase, Replaced

\* updateTarget on a pending target: no success is overwritten.
LEMMA RetryUpdate ==
  ASSUME FileBase, LocalBase, pc \in {"deliver", "failing", "dropping", "record"},
         NEW i, i = cur,
         NEW t \in Target, mem.ledger[t].state = "pending",
         NEW entry \in Entry, NEW where \in {"deliver", "failing", "dropping"},
         UpdateTarget(t, entry, where),
         UNCHANGED <<now, accepted, forgotten>>,
         \/ UNCHANGED recorded
         \/ /\ entry.state = "succeeded"
            /\ recorded' = [recorded EXCEPT ![cur] = @ \cup {t}]
  PROVE  FileBase' /\ LocalBase' /\ \E e \in Envelope : Replaced(i, e)
<1> DEFINE updated == [mem EXCEPT !.ledger[t] = entry]
<1>1. /\ mem \in Envelope /\ mem.ledger \in Ledgers /\ i \in Item
      /\ todo \subseteq pendingTargets(mem.ledger)
      /\ dst \in {"pending", "history", "dead"} /\ pc \in Handling
  BY ZenonT(30) DEF LocalBase, LocalType, CurOK, OpenTargets, Handling, Envelope
<1>2. /\ updated \in Envelope
      /\ updated.ledger = [mem.ledger EXCEPT ![t] = entry]
  BY <1>1, UpdatedEnvelope, Zenon
<1>3. /\ write("inflight", i, updated)
      /\ Hold(where, updated, todo \ {t}, NoResult, dst)
  BY SMTT(30) DEF UpdateTarget
<1> HIDE DEF updated
<1>4. todo \ {t} \in SUBSET pendingTargets(updated.ledger)
  BY <1>1, <1>2, Zenon DEF pendingTargets, Ledgers
<1>5. /\ recorded' \in [Item -> SUBSET Target]
      /\ \A j \in Item \ {i} : recorded'[j] = recorded[j]
      /\ \A u \in recorded'[i] :
           u \in Target /\ (u \in recorded[i] \/ (u = t /\ entry.state = "succeeded"))
  <2>1. recorded \in [Item -> SUBSET Target] /\ i \in Item
    BY <1>1, Zenon DEF FileBase, HistoryType
  <2>2. CASE UNCHANGED recorded
    BY <2>1, <2>2, Zenon
  <2>3. CASE /\ entry.state = "succeeded"
             /\ recorded' = [recorded EXCEPT ![cur] = @ \cup {t}]
    <3>1. recorded' = [recorded EXCEPT ![i] = @ \cup {t}]
      BY <2>3, Zenon
    <3>2. recorded'[i] = recorded[i] \cup {t}
      BY <2>1, <3>1, Zenon
    <3>3. recorded' \in [Item -> SUBSET Target]
      BY <2>1, <3>1, Zenon
    <3>4. \A j \in Item \ {i} : recorded'[j] = recorded[j]
      BY <2>1, <3>1, Zenon
    <3> QED
      BY <2>1, <2>3, <3>2, <3>3, <3>4, Zenon
  <2> QED
    BY <2>2, <2>3, SMTT(30)
<1>6. ASSUME \A u \in recorded[i] : mem.ledger[u].state = "succeeded"
      PROVE  \A u \in recorded'[i] : updated.ledger[u].state = "succeeded"
  <2>1. mem.ledger \in [Target -> Entry]
    BY <1>1, Zenon DEF Ledgers
  <2>2. updated.ledger[t] = entry
    BY <1>2, <2>1, Zenon
  <2>3. \A u \in Target \ {t} : updated.ledger[u] = mem.ledger[u]
    BY <1>2, <2>1, Zenon
  <2> SUFFICES ASSUME NEW u \in recorded'[i]
               PROVE  updated.ledger[u].state = "succeeded"
    OBVIOUS
  <2>4. CASE u \in recorded[i]
    <3>1. u # t
      BY <1>6, <2>4, Zenon
    <3> QED
      BY <1>5, <1>6, <2>3, <2>4, <3>1, Zenon
  <2>5. CASE u = t /\ entry.state = "succeeded"
    BY <2>2, <2>5, Zenon
  <2> QED
    BY <1>5, <2>4, <2>5, Zenon
<1> QED
  <2>1. /\ pc' \in Handling \ {"record"}
        /\ mem' \in Envelope /\ mem'.ledger = updated.ledger
        /\ todo' \subseteq pendingTargets(updated.ledger)
        /\ result' = NoResult /\ dst' \in {"pending", "history", "dead"}
        /\ UNCHANGED <<scan, cur, at>>
    BY <1>1, <1>2, <1>3, <1>4, Zenon DEF Handling, Hold
  <2>2. FileBase' /\ LocalBase' /\ Replaced(i, updated)
    BY <1>1, <1>2, <1>3, <1>5, <1>6, <2>1, RetryReplace, ZenonT(30)
  <2> QED
    BY <1>2, <2>2, Zenon

\* The steps that rewrite the ledger in the inflight file.
LEMMA RetryLedger ==
  ASSUME ServiceBase, NEW i, i = cur,
         \/ \E T \in SUBSET Target : ResolveNew(T)
         \/ RecordTarget
         \/ \E t \in Target : FailTarget(t) \/ DropTarget(t)
  PROVE  ServiceBase' /\ \E e \in Envelope : Replaced(i, e)
<1>1. FileBase /\ LocalBase /\ CounterType
  BY Zenon DEF ServiceBase
<1>2. CounterType'
  BY <1>1, ZenonT(30)
     DEF ResolveNew, RecordTarget, FailTarget, DropTarget, observed, CounterType
<1> SUFFICES FileBase' /\ LocalBase' /\ \E e \in Envelope : Replaced(i, e)
  BY <1>2, Zenon DEF ServiceBase
<1>3. at \in Nat /\ mem \in Envelope /\ mem.ledger \in Ledgers
      /\ result.outcome \in Outcome
  BY <1>1, Zenon DEF LocalBase, LocalType, Envelope
<1> DEFINE Goal == FileBase' /\ LocalBase' /\ \E e \in Envelope : Replaced(i, e)
<1>4. CASE RecordTarget
  <2> DEFINE t == result.target
  <2>1. /\ pc = "record" /\ t \in Target /\ mem.ledger[t].state = "pending"
        /\ mem.ledger[t] \in Entry
    BY <1>1, <1>3, <1>4, Zenon DEF RecordTarget, LocalBase, OpenTargets, Ledgers
  <2>2. CASE result.outcome = "ok"
    <3>1. /\ UpdateTarget(t, AckEntry(mem.ledger[t]), "deliver")
          /\ recorded' = [recorded EXCEPT ![cur] = @ \cup {t}]
          /\ UNCHANGED <<now, accepted, forgotten>>
      BY <1>4, <2>2, ZenonT(30) DEF RecordTarget
    <3>2. AckEntry(mem.ledger[t]) \in Entry /\ AckEntry(mem.ledger[t]).state = "succeeded"
      BY <1>3, <2>1, UpdatedEntry, ZenonT(30)
    <3> QED
      BY <1>1, <2>1, <3>1, <3>2, RetryUpdate, ZenonT(30)
  <2>3. CASE result.outcome # "ok"
    <3> DEFINE entry == failTarget(mem.ledger[t], result.outcome = "permanent", at)
    <3>1. /\ UpdateTarget(t, entry, "deliver")
          /\ UNCHANGED <<now, accepted, forgotten>> /\ UNCHANGED recorded
      BY <1>4, <2>3, Zenon DEF RecordTarget
    <3>2. entry \in Entry
      BY <1>3, <2>1, UpdatedEntry, ZenonT(30)
    <3> QED
      BY <1>1, <2>1, <3>1, <3>2, RetryUpdate, ZenonT(30)
  <2> QED
    BY <2>2, <2>3, Zenon
<1>5. ASSUME NEW t \in Target, FailTarget(t) PROVE Goal
  <2>1. /\ pc \in {"deliver", "failing"} /\ mem.ledger[t].state = "pending"
        /\ mem.ledger[t] \in Entry
    BY <1>1, <1>3, <1>5, Zenon DEF FailTarget, LocalBase, OpenTargets, pendingTargets, Ledgers
  <2>2. failTarget(mem.ledger[t], FALSE, at) \in Entry
    BY <1>3, <2>1, UpdatedEntry, ZenonT(30)
  <2>3. /\ UpdateTarget(t, failTarget(mem.ledger[t], FALSE, at), pc)
        /\ UNCHANGED <<now, accepted, forgotten>> /\ UNCHANGED recorded
    BY <1>5, ZenonT(30) DEF FailTarget, observed
  <2> QED
    BY <1>1, <2>1, <2>2, <2>3, RetryUpdate, ZenonT(30)
<1>6. ASSUME NEW t \in Target, DropTarget(t) PROVE Goal
  <2>1. /\ pc = "dropping" /\ mem.ledger[t].state = "pending"
        /\ mem.ledger[t] \in Entry
    BY <1>1, <1>3, <1>6, Zenon DEF DropTarget, LocalBase, OpenTargets, pendingTargets, Ledgers
  <2>2. DeadEntry(mem.ledger[t]) \in Entry
    BY <1>3, <2>1, UpdatedEntry, ZenonT(30)
  <2>3. /\ UpdateTarget(t, DeadEntry(mem.ledger[t]), "dropping")
        /\ UNCHANGED <<now, accepted, forgotten>> /\ UNCHANGED recorded
    BY <1>6, ZenonT(30) DEF DropTarget, observed
  <2> QED
    BY <1>1, <2>1, <2>2, <2>3, RetryUpdate, ZenonT(30)
<1>7. ASSUME NEW T \in SUBSET Target, ResolveNew(T) PROVE Goal
  <2> DEFINE resolved == [mem EXCEPT !.ledger = newDeliveryLedger(T)]
  <2>1. resolved \in Envelope
    BY <1>3, ZenonT(30)
       DEF Envelope, newDeliveryLedger, Ledgers, Entry, NoEntry, DeliveryState
  <2>2. /\ pc \in Handling /\ ~HasLedger(mem.ledger)
        /\ write("inflight", i, resolved) /\ AfterResolve(resolved)
        /\ UNCHANGED <<now, accepted, forgotten, recorded>>
    BY <1>7, SMTT(30) DEF ResolveNew, Handling, observed
  <2> HIDE DEF resolved
  <2>3. recorded \in [Item -> SUBSET Target] /\ i \in Item
    BY <1>1, <2>2, Zenon DEF FileBase, HistoryType, LocalBase, CurOK
  <2>4. (\A t \in recorded[i] : mem.ledger[t].state = "succeeded") =>
          \A t \in recorded'[i] : resolved.ledger[t].state = "succeeded"
    BY <2>2, <2>3, Zenon DEF HasLedger
  <2>5. /\ pc' \in Handling \ {"record"}
        /\ mem' \in Envelope /\ mem'.ledger = resolved.ledger
        /\ todo' \subseteq pendingTargets(resolved.ledger)
        /\ result' = NoResult /\ dst' \in {"pending", "history", "dead"}
        /\ UNCHANGED <<scan, cur, at>>
    <3>1. /\ ackEnvelope(resolved) \in Envelope
          /\ ackEnvelope(resolved).ledger = resolved.ledger
          /\ deferEnvelope(resolved, QuietUntil) \in Envelope
          /\ deferEnvelope(resolved, QuietUntil).ledger = resolved.ledger
      BY <1>1, <2>1, MovedEnvelope, ServiceAssumption, SMTT(30) DEF FileBase, DiskType
    <3>2. readyTargets(resolved.ledger, at) \subseteq pendingTargets(resolved.ledger)
      BY Zenon DEF readyTargets
    <3>3. dst \in {"pending", "history", "dead"}
      BY <1>1, SMTT(30) DEF LocalBase, LocalType
    <3> QED
      BY <2>1, <2>2, <3>1, <3>2, <3>3, Zenon DEF AfterResolve, Move, Hold, Handling
  <2>6. FileBase' /\ LocalBase' /\ Replaced(i, resolved)
    BY <1>1, <2>1, <2>2, <2>3, <2>4, <2>5, RetryReplace, ZenonT(30)
  <2> QED
    BY <2>1, <2>6, Zenon
<1> QED
  BY <1>4, <1>5, <1>6, <1>7, Zenon

\* Kills, stops and failed file operations.
LEMMA RetryInterruption ==
  ASSUME ServiceBase, Interruption PROVE ServiceBase' /\ Quiet
<1>1. FileBase /\ LocalBase /\ CounterType
  BY Zenon DEF ServiceBase
<1>2. UNCHANGED <<disk, now, accepted, forgotten, recorded, sends>>
  BY ZenonT(30) DEF Interruption, GiveUp, RecordFault, StartupFault, Stop, Crash,
         FailTargetFault, RepairFault, Fault, Down
<1>3. FileBase'
  BY <1>1, <1>2, FileSame, Zenon DEF FileBase, DiskType
<1>4. CounterType'
  <2>1. Fault \/ Down
    BY ZenonT(30) DEF Interruption, GiveUp, RecordFault, StartupFault, Stop, Crash,
           FailTargetFault, RepairFault
  <2>2. crashes' \in Nat /\ faults' \in Nat
    BY <1>1, <2>1 DEF Fault, Down, CounterType
  <2> QED
    BY <1>1, <1>2, <2>2, ZenonT(30) DEF CounterType
<1> SUFFICES LocalBase' /\ Quiet
  BY <1>3, <1>4, Zenon DEF ServiceBase
<1>5. mem \in Envelope /\ dst \in {"pending", "history", "dead"}
      /\ NoResult \in [target : Target \cup {Legacy}, outcome : Outcome]
  BY <1>1, Zenon DEF LocalBase, LocalType, NoResult, Outcome
<1>6. CASE Stop \/ Crash
  <2>1. Goto("down") /\ crashes' # crashes
    BY <1>1, <1>6 DEF Stop, Crash, Down, CounterType
  <2> QED
    BY <1>2, <2>1, GotoBase, Zenon DEF Quiet, Goto, Handling
<1>7. CASE GiveUp
  <2>1. Goto("idle")
    BY <1>7, Zenon DEF GiveUp
  <2> QED
    BY <1>2, <2>1, GotoBase, Zenon DEF Quiet, Goto, Handling, Starting
<1>8. CASE StartupFault
  <2>1. Goto("down") /\ pc \in Starting
    BY <1>8, Zenon DEF StartupFault, Starting
  <2> QED
    BY <1>2, <2>1, GotoBase, Zenon DEF Quiet, Goto, Handling
<1>9. ASSUME pc \in Handling, NEW where \in {"deliver", "failing"},
             NEW targets \in SUBSET pendingTargets(mem.ledger),
             Hold(where, mem, targets, NoResult, dst)
      PROVE  LocalBase' /\ Quiet
  <2>1. LocalBase'
    BY <1>1, <1>2, <1>5, <1>9, HoldBase DEF Handling
  <2> QED
    BY <1>2, <1>9, <2>1, Zenon DEF Quiet, Hold, Handling, Starting
<1>10. CASE RecordFault
  <2>1. todo \in SUBSET pendingTargets(mem.ledger)
    BY <1>1, <1>10, Zenon DEF RecordFault, LocalBase, OpenTargets
  <2> QED
    BY <1>9, <1>10, <2>1, Zenon DEF RecordFault, Handling
<1>11. ASSUME NEW t \in Target, FailTargetFault(t) PROVE LocalBase' /\ Quiet
  <2>1. todo \ {t} \in SUBSET pendingTargets(mem.ledger)
    BY <1>1, <1>11, Zenon DEF FailTargetFault, LocalBase, OpenTargets
  <2>2. Hold(pc, mem, todo \ {t}, NoResult, dst) /\ pc \in {"deliver", "failing"}
    BY <1>11, Zenon DEF FailTargetFault
  <2> QED
    BY <1>9, <2>1, <2>2, Zenon DEF Handling
<1>12. ASSUME NEW i \in Item, RepairFault(i) PROVE LocalBase' /\ Quiet
  <2>1. LocalType'
    BY <1>1, <1>12, Zenon DEF RepairFault, LocalBase, LocalType
  <2>2. ScanOK' /\ CurOK' /\ OpenTargets'
    BY <1>1, <1>12, Zenon
       DEF RepairFault, LocalBase, ScanOK, CurOK, OpenTargets, Handling, exists
  <2>3. Quiet
    BY <1>2, <1>12, Zenon DEF RepairFault, Quiet
  <2> QED
    BY <2>1, <2>2, <2>3, Zenon DEF LocalBase
<1> QED
  BY <1>6, <1>7, <1>8, <1>10, <1>11, <1>12, Zenon DEF Interruption

\* The steps that write a copy: a new event, the claim and the repair.
LEMMA RetryCopies ==
  ASSUME ServiceBase, NEW i \in Item, Emit(i) \/ ClaimWrite(i) \/ RecoverWrite(i)
  PROVE  ServiceBase'
<1>1. FileBase /\ LocalBase /\ CounterType /\ now \in Nat /\ now' = now
  BY ZenonT(30) DEF ServiceBase, FileBase, DiskType, Emit, ClaimWrite, RecoverWrite
<1>2. CounterType'
  BY <1>1, ZenonT(30) DEF Emit, ClaimWrite, RecoverWrite, observed, CounterType
<1>3. recorded' = recorded /\ recorded \in [Item -> SUBSET Target] /\ forgotten' = forgotten
  BY <1>1, ZenonT(30) DEF Emit, ClaimWrite, RecoverWrite, observed, FileBase, HistoryType
<1> SUFFICES FileBase' /\ LocalBase'
  BY <1>2, Zenon DEF ServiceBase
<1>4. CASE Emit(i)
  <2>1. /\ write("pending", i, NewEnvelope) /\ accepted' = accepted \cup {i}
        /\ UNCHANGED local
    BY <1>4, Zenon DEF Emit
  <2>2. FileBase'
    BY <1>1, <1>3, <2>1, NewEnvelopeType, FileWritten, Zenon DEF Dir
  <2>3. \A x \in Dir, j \in Item :
          disk'[x][j] = IF x = "pending" /\ j = i THEN NewEnvelope ELSE disk[x][j]
    BY <1>1, <2>1, Zenon DEF write, DiskType, FileBase, Dir
  <2> QED
    BY <1>1, <2>1, <2>2, <2>3, NewEnvelopeType, NoneAssumption, LocalSame, Zenon DEF Dir, exists
<1>5. CASE ClaimWrite(i)
  <2> DEFINE e == claimEnvelope(disk["pending"][i])
  <2>1. exists("pending", i)
    BY <1>5, ZenonT(30) DEF ClaimWrite, isFirst, claimable, inDirectory
  <2>2. disk["pending"][i] \in Envelope
    BY <1>1, <2>1, Zenon DEF FileBase, DiskType, exists, Dir
  <2>3. e \in Envelope /\ e.ledger = disk["pending"][i].ledger
    BY <1>1, <2>2, MovedEnvelope, SMTT(30)
  <2>4. /\ write("inflight", i, e) /\ mem' = e /\ cur' = i /\ at' = now
        /\ pc = "idle" /\ pc' = "claimRemove"
        /\ UNCHANGED <<accepted, scan, todo, result, dst>>
    BY <1>5, Zenon DEF ClaimWrite, observed
  <2> HIDE DEF e
  <2>5. accepted' = accepted \cup {i}
    BY <1>1, <2>1, <2>4, ZenonT(30) DEF FileBase, Accounted, onDisk, Dir
  <2>6. FileBase'
    BY <1>1, <1>3, <2>3, <2>4, <2>5, FileWritten, Zenon DEF Dir
  <2>7. disk'["inflight"][i] = e /\ disk'["pending"][i] = disk["pending"][i]
    BY <1>1, <2>4, Zenon DEF write, DiskType, FileBase, Dir
  <2>8. LocalType'
    BY <1>1, <2>3, <2>4, Zenon DEF LocalBase, LocalType, Running
  <2>9. ScanOK' /\ OpenTargets'
    BY <1>1, <2>4, ZenonT(30) DEF LocalBase, ScanOK, OpenTargets
  <2>10. CurOK'
    BY <2>1, <2>3, <2>4, <2>7, NoneAssumption, ZenonT(30) DEF CurOK, Handling, exists
  <2> QED
    BY <2>6, <2>8, <2>9, <2>10, Zenon DEF LocalBase
<1>6. CASE RecoverWrite(i)
  <2> DEFINE e == recoverEnvelope(disk["inflight"][i])
  <2>1. /\ pc = "recover" /\ i \in scan
        /\ \A j \in scan : exists("inflight", j) /\ j \in Item
    BY <1>1, <1>6, ZenonT(30) DEF RecoverWrite, isFirst, LocalBase, LocalType, ScanOK
  <2>2. disk["inflight"][i] \in Envelope
    BY <1>1, <2>1, Zenon DEF FileBase, DiskType, exists, Dir
  <2>3. e \in Envelope
    BY <1>1, <2>2, MovedEnvelope, SMTT(30)
  <2>4. /\ write("pending", i, e) /\ pc' = "recoverRemove" /\ cur' = i
        /\ scan' = scan \ {i}
        /\ UNCHANGED <<accepted, mem, at, todo, result, dst>>
    BY <1>6, ZenonT(30) DEF RecoverWrite, observed
  <2> HIDE DEF e
  <2>5. accepted' = accepted \cup {i}
    BY <1>1, <2>1, <2>4, ZenonT(30) DEF FileBase, Accounted, onDisk, Dir
  <2>6. FileBase'
    BY <1>1, <1>3, <2>3, <2>4, <2>5, FileWritten, Zenon DEF Dir
  <2>7. /\ \A j \in scan : disk'["inflight"][j] = disk["inflight"][j]
        /\ disk'["pending"][i] = e
    <3>1. \A x \in Dir, j \in Item :
            disk'[x][j] = IF x = "pending" /\ j = i THEN e ELSE disk[x][j]
      BY <1>1, <2>4, Zenon DEF write, DiskType, FileBase, Dir
    <3> QED
      BY <2>1, <3>1, Zenon DEF Dir
  <2>8. LocalType' /\ OpenTargets'
    <3>1. LocalType'
      BY <1>1, <2>4, ZenonT(60) DEF LocalBase, LocalType, Running
    <3>2. OpenTargets'
      BY <1>1, <2>4, ZenonT(60) DEF LocalBase, OpenTargets
    <3> QED
      BY <3>1, <3>2, Zenon
  <2>9. ScanOK'
    BY <2>1, <2>4, <2>7, ZenonT(60) DEF ScanOK, exists
  <2>10. CurOK'
    BY <1>1, <2>1, <2>3, <2>4, <2>7, NoneAssumption, ZenonT(60) DEF CurOK, Handling, exists
  <2> QED
    BY <2>6, <2>8, <2>9, <2>10, Zenon DEF LocalBase
<1> QED
  BY <1>4, <1>5, <1>6, Zenon

\* The steps that remove a copy: the two halves of a claim and of the repair.
LEMMA RetryRemovals ==
  ASSUME ServiceBase,
         \/ ClaimRemove \/ RecoverRemove \/ RemoveSource
         \/ \E i \in Item : ClaimDrop(i) \/ RecoverRepair(i)
  PROVE  ServiceBase'
<1>1. FileBase /\ LocalBase /\ CounterType /\ now \in Nat
  BY ZenonT(30) DEF ServiceBase, FileBase, DiskType
<1>2. UNCHANGED <<now, observed>>
  BY ZenonT(30) DEF ClaimRemove, RecoverRemove, RemoveSource, ClaimDrop, RecoverRepair
<1>3. CounterType'
  BY <1>1, <1>2, Zenon DEF observed, CounterType
<1>4. ASSUME NEW d \in Dir, NEW i \in Item, remove(d, i)
      PROVE  /\ FileBase'
             /\ \A x \in Dir, j \in Item :
                  disk'[x][j] = IF x = d /\ j = i THEN None ELSE disk[x][j]
  <2>1. FileBase'
    BY <1>1, <1>2, <1>4, FileRemoved, Zenon DEF observed
  <2> QED
    BY <1>1, <1>4, <2>1, Zenon DEF remove, DiskType, FileBase
<1> SUFFICES FileBase' /\ LocalBase'
  BY <1>3, Zenon DEF ServiceBase
<1>5. CASE ClaimRemove
  <2>1. /\ remove("pending", cur) /\ cur \in Item /\ pc = "claimRemove" /\ pc' = "load"
        /\ UNCHANGED <<scan, cur, mem, at, todo, result, dst>>
    BY <1>1, <1>5, Zenon DEF ClaimRemove, LocalBase, CurOK
  <2>2. FileBase' /\ \A j \in Item : disk'["inflight"][j] = disk["inflight"][j]
    BY <1>4, <2>1, Zenon DEF Dir
  <2>3. LocalType' /\ ScanOK' /\ OpenTargets'
    <3>1. LocalType'
      BY <1>1, <2>1, ZenonT(60) DEF LocalBase, LocalType, Running
    <3>2. ScanOK'
      BY <1>1, <2>1, ZenonT(60) DEF LocalBase, ScanOK
    <3>3. OpenTargets'
      BY <1>1, <2>1, ZenonT(60) DEF LocalBase, OpenTargets
    <3> QED
      BY <3>1, <3>2, <3>3, Zenon
  <2>4. CurOK'
    BY <1>1, <2>1, <2>2, ZenonT(60) DEF LocalBase, CurOK, Handling, exists
  <2> QED
    BY <2>2, <2>3, <2>4, Zenon DEF LocalBase
<1>6. CASE RecoverRemove
  <2>1. /\ remove("inflight", cur) /\ cur \in Item /\ cur \notin scan
        /\ pc' = "recover" /\ cur' = NoItem
        /\ UNCHANGED <<scan, mem, at, todo, result, dst>>
        /\ \A i \in scan : exists("inflight", i) /\ i \in Item
    BY <1>1, <1>6, Zenon DEF RecoverRemove, LocalBase, CurOK, ScanOK, LocalType
  <2>2. FileBase' /\ \A j \in scan : disk'["inflight"][j] = disk["inflight"][j]
    BY <1>4, <2>1, ZenonT(60) DEF Dir
  <2>3. LocalType' /\ OpenTargets' /\ CurOK'
    <3>1. LocalType'
      BY <1>1, <2>1, ZenonT(60) DEF LocalBase, LocalType, Running
    <3>2. OpenTargets'
      BY <1>1, <2>1, ZenonT(60) DEF LocalBase, OpenTargets
    <3>3. CurOK'
      BY <1>1, <2>1, ZenonT(60) DEF LocalBase, CurOK, Handling
    <3> QED
      BY <3>1, <3>2, <3>3, Zenon
  <2>4. ScanOK'
    BY <2>1, <2>2, ZenonT(60) DEF ScanOK, exists
  <2> QED
    BY <2>2, <2>3, <2>4, Zenon DEF LocalBase
<1>7. CASE RemoveSource
  <2>1. remove("inflight", cur) /\ cur \in Item /\ Goto("idle")
    BY <1>1, <1>7, Zenon DEF RemoveSource, LocalBase, CurOK
  <2> QED
    BY <1>4, <2>1, GotoBase, Zenon DEF Dir
<1>8. ASSUME NEW i \in Item, ClaimDrop(i) PROVE FileBase' /\ LocalBase'
  <2>1. remove("pending", i) /\ pc = "idle" /\ UNCHANGED local
    BY <1>8, Zenon DEF ClaimDrop
  <2>2. LocalBase'
    BY <1>1, <2>1, ZenonT(60)
       DEF local, LocalBase, LocalType, ScanOK, CurOK, OpenTargets, Handling
  <2> QED
    BY <1>4, <2>1, <2>2, Zenon DEF Dir
<1>9. ASSUME NEW i \in Item, RecoverRepair(i) PROVE FileBase' /\ LocalBase'
  <2>1. /\ remove("inflight", i) /\ pc = "recover" /\ scan' = scan \ {i}
        /\ UNCHANGED <<pc, cur, mem, at, todo, result, dst>>
        /\ \A j \in scan : exists("inflight", j) /\ j \in Item
    BY <1>1, <1>9, Zenon DEF RecoverRepair, LocalBase, ScanOK, LocalType
  <2>2. FileBase' /\ \A j \in scan \ {i} : disk'["inflight"][j] = disk["inflight"][j]
    BY <1>4, <2>1, ZenonT(60) DEF Dir
  <2>3. LocalType' /\ OpenTargets' /\ CurOK'
    <3>1. LocalType'
      BY <1>1, <2>1, ZenonT(60) DEF LocalBase, LocalType, Running
    <3>2. OpenTargets'
      BY <1>1, <2>1, ZenonT(60) DEF LocalBase, OpenTargets
    <3>3. CurOK'
      BY <1>1, <2>1, ZenonT(60) DEF LocalBase, CurOK, Handling
    <3> QED
      BY <3>1, <3>2, <3>3, Zenon
  <2>4. ScanOK'
    BY <2>1, <2>2, ZenonT(60) DEF ScanOK, exists
  <2> QED
    BY <2>2, <2>3, <2>4, Zenon DEF LocalBase
<1> QED
  BY <1>5, <1>6, <1>7, <1>8, <1>9, Zenon

\* The first half of the transition out of inflight.
LEMMA RetryTransition ==
  ASSUME ServiceBase, WriteDestination
  PROVE  ServiceBase' /\ (exists(dst, cur) => Quiet)
<1>1. FileBase /\ LocalBase /\ CounterType /\ now \in Nat
  BY ZenonT(30) DEF ServiceBase, FileBase, DiskType
<1>2. UNCHANGED <<now, observed>> /\ pc = "write"
  BY Zenon DEF WriteDestination
<1>3. CounterType'
  BY <1>1, <1>2, Zenon DEF observed, CounterType
<1>4. CASE exists(dst, cur)
  <2>1. Goto("idle") /\ UNCHANGED disk
    BY <1>4, Zenon DEF WriteDestination
  <2>2. FileBase' /\ LocalBase'
    BY <1>1, <1>2, <2>1, FileSame, GotoBase, Zenon DEF observed
  <2> QED
    BY <1>2, <1>3, <2>1, <2>2, Zenon DEF ServiceBase, Quiet, Goto, Handling, Starting, observed
<1>5. CASE ~exists(dst, cur)
  <2>1. /\ write(dst, cur, mem) /\ pc' = "remove"
        /\ UNCHANGED <<scan, cur, mem, at, todo, result, dst>>
    BY <1>5, Zenon DEF WriteDestination
  <2>2. /\ cur \in Item /\ exists("inflight", cur) /\ mem \in Envelope /\ dst \in Dir
        /\ recorded \in [Item -> SUBSET Target]
    BY <1>1, <1>2, ZenonT(30)
       DEF LocalBase, CurOK, LocalType, Handling, FileBase, HistoryType, Dir
  <2>3. accepted' = accepted \cup {cur}
    BY <1>1, <1>2, <2>2, ZenonT(30) DEF FileBase, Accounted, onDisk, Dir, observed
  <2>4. FileBase'
    BY <1>1, <1>2, <2>1, <2>2, <2>3, FileWritten, Zenon DEF observed
  <2>5. LocalType' /\ ScanOK' /\ OpenTargets' /\ CurOK'
    <3>1. LocalType'
      BY <1>1, <1>2, <2>1, <2>2, ZenonT(60) DEF LocalBase, LocalType, Running
    <3>2. ScanOK'
      BY <1>1, <1>2, <2>1, <2>2, ZenonT(60) DEF LocalBase, ScanOK
    <3>3. OpenTargets'
      BY <1>1, <1>2, <2>1, <2>2, ZenonT(60) DEF LocalBase, OpenTargets
    <3>4. CurOK'
      BY <1>1, <1>2, <2>1, <2>2, ZenonT(60) DEF LocalBase, CurOK, Handling
    <3> QED
      BY <3>1, <3>2, <3>3, <3>4, Zenon
  <2> QED
    BY <1>3, <1>5, <2>4, <2>5, Zenon DEF ServiceBase, LocalBase
<1> QED
  BY <1>4, <1>5, Zenon

\* The retention rules and the other steps of Run.
LEMMA RetryRetention ==
  ASSUME ServiceBase, CleanupHistory \/ CleanupDead
  PROVE  /\ ServiceBase'
         /\ \E d \in {"history", "dead"}, old \in SUBSET Item : Forget(d, old)
         /\ pc' \in {"idle", "cleanupDead"} /\ pc \in Starting
<1>1. FileBase /\ CounterType
  BY Zenon DEF ServiceBase
<1>2. /\ Goto("idle") \/ Goto("cleanupDead")
      /\ pc' \in {"idle", "cleanupDead"} /\ pc \in Starting
  BY Zenon DEF CleanupHistory, CleanupDead, Goto, Starting
<1>3. LocalBase'
  BY <1>2, GotoBase, Zenon
<1>4. PICK d \in {"history", "dead"}, old \in SUBSET Item : Forget(d, old)
  <2>1. CASE CleanupHistory
    BY <2>1, Zenon DEF CleanupHistory, inDirectory
  <2>2. CASE CleanupDead
    <3>1. PICK old \in SUBSET inDirectory("dead") :
            Forget("dead", old \cup excessDead(MaxDead))
      BY <2>2, Zenon DEF CleanupDead
    <3>2. old \cup excessDead(MaxDead) \in SUBSET Item
      BY Zenon DEF excessDead, inDirectory
    <3> QED
      BY <3>1, <3>2, Zenon
  <2> QED
    BY <2>1, <2>2, Zenon
<1>5. DiskType' /\ HistoryType' /\ CounterType'
  BY <1>1, <1>4, Zenon DEF Forget, FileBase, DiskType, HistoryType, CounterType, Dir
<1>6. \A x \in Dir, j \in Item : disk'[x][j] \in {disk[x][j], None}
  BY <1>1, <1>4, Zenon DEF Forget, FileBase, DiskType, Dir
<1>7. Accounted'
  BY <1>1, <1>4, <1>6, Zenon DEF Forget, FileBase, Accounted, onDisk, exists
<1> QED
  BY <1>2, <1>3, <1>4, <1>5, <1>7, Zenon DEF ServiceBase, FileBase

\* The steps of Run that only look.
LEMMA RetryLook ==
  ASSUME ServiceBase,
         Tick \/ Start \/ RecoverDone \/ (\E i \in Item : RecoverSkip(i)) \/ UNCHANGED vars
  PROVE  ServiceBase' /\ Quiet
<1>1. FileBase /\ LocalBase /\ CounterType /\ now \in Nat
  BY ZenonT(30) DEF ServiceBase, FileBase, DiskType
<1>2. UNCHANGED <<disk, observed>> /\ now' \in Nat
  <2>1. UNCHANGED <<disk, observed>> /\ (now' = now \/ now' = now + 1)
    BY Zenon DEF Tick, Start, RecoverDone, RecoverSkip, vars
  <2> QED
    BY <1>1, <2>1
<1>3. FileBase' /\ CounterType'
  BY <1>1, <1>2, FileSame, Zenon DEF observed, CounterType
<1> SUFFICES LocalBase' /\ Quiet
  BY <1>3, Zenon DEF ServiceBase
<1>4. CASE UNCHANGED local
  BY <1>1, <1>2, <1>4, LocalSame, Zenon DEF exists, Quiet, local, observed
<1>5. CASE Start
  <2>1. LocalType'
    BY <1>1, <1>5, ZenonT(30) DEF Start, LocalBase, LocalType, Running, inDirectory
  <2>2. ScanOK' /\ CurOK' /\ OpenTargets'
    BY <1>5, Zenon DEF Start, ScanOK, CurOK, OpenTargets, Handling, inDirectory, exists
  <2> QED
    BY <1>2, <1>5, <2>1, <2>2, Zenon DEF LocalBase, Quiet, Start, Handling, Starting, observed
<1>6. CASE RecoverDone
  BY <1>2, <1>6, GotoBase, Zenon DEF RecoverDone, Quiet, Goto, Handling, Starting, observed
<1>7. ASSUME NEW i \in Item, RecoverSkip(i) PROVE LocalBase' /\ Quiet
  <2>1. LocalBase'
    BY <1>1, <1>7, ZenonT(30)
       DEF RecoverSkip, LocalBase, LocalType, ScanOK, CurOK, OpenTargets, Handling, exists
  <2> QED
    BY <1>2, <1>7, <2>1, Zenon DEF RecoverSkip, Quiet, observed
<1> QED
  BY <1>4, <1>5, <1>6, <1>7, Zenon DEF Tick, vars

\* The retention rules, from where Run calls them.
Forgets ==
  /\ \E d \in {"history", "dead"}, old \in SUBSET Item : Forget(d, old)
  /\ pc' \in {"idle", "cleanupDead"} /\ pc \in Starting

\* Every step of the service has one of these shapes.
LEMMA ServiceShape ==
  ASSUME ServiceBase, [Next]_vars
  PROVE  /\ ServiceBase'
         /\ \/ Quiet
            \/ \E i \in Item, e \in Envelope : Replaced(i, e)
            \/ \E i \in Item : \/ Emit(i) \/ ClaimWrite(i) \/ RecoverWrite(i)
                               \/ ClaimDrop(i) \/ RecoverRepair(i)
            \/ ClaimRemove \/ RecoverRemove \/ RemoveSource
            \/ WriteDestination /\ ~exists(dst, cur)
            \/ Forgets
<1> DEFINE Shape ==
      \/ Quiet
      \/ \E i \in Item, e \in Envelope : Replaced(i, e)
      \/ \E i \in Item : \/ Emit(i) \/ ClaimWrite(i) \/ RecoverWrite(i)
                         \/ ClaimDrop(i) \/ RecoverRepair(i)
      \/ ClaimRemove \/ RecoverRemove \/ RemoveSource
      \/ WriteDestination /\ ~exists(dst, cur)
      \/ Forgets
<1>1. CASE Tick \/ UNCHANGED vars
  BY <1>1, RetryLook, Zenon
<1>2. ASSUME NEW i \in Item, Emit(i) PROVE ServiceBase' /\ Shape
  BY <1>2, RetryCopies, Zenon
<1>3. CASE Startup
  <2>1. CASE Start \/ RecoverDone \/ \E i \in Item : RecoverSkip(i)
    BY <2>1, RetryLook, Zenon
  <2>2. CASE CleanupHistory \/ CleanupDead
    BY <2>2, RetryRetention, Zenon DEF Forgets
  <2>3. CASE RecoverRemove \/ \E i \in Item : RecoverRepair(i)
    BY <2>3, RetryRemovals, Zenon
  <2>4. ASSUME NEW i \in Item, RecoverWrite(i) PROVE ServiceBase' /\ Shape
    BY <2>4, RetryCopies, Zenon
  <2> QED
    BY <1>3, <2>1, <2>2, <2>3, <2>4, Zenon DEF Startup
<1>4. CASE ProcessOne
  <2>1. CASE FailItem \/ Suppress \/ LegacyRecord \/ QuietDrop \/ ResolveAgain \/ Finish
    BY <2>1, RetryDecision, Zenon
  <2>2. CASE SendLegacy \/ \E t \in Target : SendTarget(t)
    BY <2>2, RetrySend, Zenon
  <2>3. CASE \/ \E T \in SUBSET Target : ResolveNew(T)
             \/ RecordTarget
             \/ \E t \in Target : FailTarget(t) \/ DropTarget(t)
    <3>1. PICK i : i = cur
      OBVIOUS
    <3>2. ServiceBase' /\ \E e \in Envelope : Replaced(i, e)
      BY <2>3, <3>1, RetryLedger, Zenon
    <3>3. i \in Item
      BY <3>1, <3>2, Zenon DEF Replaced, ServiceBase, LocalBase, CurOK
    <3> QED
      BY <3>2, <3>3, Zenon
  <2>4. CASE WriteDestination
    BY <2>4, RetryTransition, Zenon
  <2>5. CASE ClaimRemove \/ RemoveSource \/ \E i \in Item : ClaimDrop(i)
    BY <2>5, RetryRemovals, Zenon
  <2>6. ASSUME NEW i \in Item, ClaimWrite(i) PROVE ServiceBase' /\ Shape
    BY <2>6, RetryCopies, Zenon
  <2> QED
    BY <1>4, <2>1, <2>2, <2>3, <2>4, <2>5, <2>6, Zenon DEF ProcessOne
<1>5. CASE Interruption
  BY <1>5, RetryInterruption, Zenon
<1> QED
  BY <1>1, <1>2, <1>3, <1>4, <1>5, Zenon DEF Next

-----------------------------------------------------------------------------
\* No item is lost while the service and the command do not race.

\* A step that only adds copies, or replaces one, loses nothing.
LEMMA SafeCopies ==
  ASSUME Safe, UNCHANGED <<cli, forgotten>>,
         \A d \in Dir, i \in Item : exists(d, i) => disk'[d][i] # None,
         \A i \in accepted' : i \in accepted \/ \E d \in Dir : disk'[d][i] # None,
         accepted \subseteq Item,
         pc' = "remove" => pc = "remove" /\ cur' = cur /\ cur \in Item,
         cli.pc = "remove" /\ pc' \in Starting => pc \in Starting
  PROVE  Safe'
<1>1. NoLostItem'
  BY Zenon DEF Safe, NoLostItem, onDisk, exists
<1>2. (pc = "remove" /\ cur \notin forgotten => \E d \in Settled : exists(d, cur))'
  BY Zenon DEF Safe, Settled, Dir, exists
<1>3. ASSUME NEW i \in Item \ forgotten, Retrying(i)
      PROVE  \/ exists("pending", i)' \/ exists("history", i)'
             \/ /\ exists("inflight", i)'
                /\ pc' \notin Starting /\ ~(pc' = "remove" /\ cur' = i)
  BY <1>3, Zenon DEF Safe, Retrying, exists, Dir
<1> QED
  BY <1>1, <1>2, <1>3, Zenon DEF Safe, Retrying

\* Removing one file loses nothing when the item keeps another copy, one that is
\* not the command's to remove.
LEMMA SafeRemoval ==
  ASSUME Safe, DiskType, HistoryType, UNCHANGED <<cli, forgotten, accepted>>,
         NEW d \in Dir, NEW i \in Item, remove(d, i),
         i \notin forgotten => \E x \in Dir \ {d} : exists(x, i),
         i \notin forgotten /\ Retrying(i) =>
           \/ \E x \in {"pending", "history"} \ {d} : exists(x, i)
           \/ d # "inflight" /\ exists("inflight", i) /\ pc' \notin Starting,
         pc' # "remove",
         cli.pc = "remove" /\ pc' \in Starting => pc \in Starting
  PROVE  Safe'
<1>1. \A x \in Dir, j \in Item :
        disk'[x][j] = IF x = d /\ j = i THEN None ELSE disk[x][j]
  BY Zenon DEF remove, DiskType
<1>2. NoLostItem'
  <2> SUFFICES ASSUME NEW j \in accepted \ forgotten PROVE \E x \in Dir : disk'[x][j] # None
    BY Zenon DEF NoLostItem, onDisk, exists
  <2>1. j \in Item /\ \E x \in Dir : exists(x, j)
    BY Zenon DEF Safe, NoLostItem, onDisk, HistoryType
  <2> QED
    BY <1>1, <2>1, ZenonT(60) DEF exists
<1>3. ASSUME NEW j \in Item \ forgotten, Retrying(j)
      PROVE  \/ exists("pending", j)' \/ exists("history", j)'
             \/ exists("inflight", j)' /\ pc' \notin Starting
  <2>1. CASE j = i
    BY <1>1, <1>3, <2>1, Zenon DEF exists, Dir
  <2>2. CASE j # i
    BY <1>1, <1>3, <2>2, ZenonT(60) DEF Safe, Retrying, exists, Dir
  <2> QED
    BY <2>1, <2>2, Zenon
<1> QED
  BY <1>2, <1>3, Zenon DEF Safe, Retrying

\* A step of the service, unless it is one of those raced names.
LEMMA SafeService ==
  ASSUME ServiceBase, Safe, [Next]_vars, UNCHANGED cli,
         cli.pc = "remove" => crashes' = crashes,
         ~(cli.pc = "remove" /\ cli.item = cur /\ pc = "write" /\ dst = "dead")
  PROVE  Safe'
<1>1. /\ DiskType /\ HistoryType /\ LocalType /\ CurOK /\ ScanOK /\ ServiceBase'
      /\ accepted \subseteq Item /\ None \notin Envelope
  BY ServiceShape, NoneAssumption, Zenon DEF ServiceBase, FileBase, LocalBase, HistoryType
<1>2. CASE Quiet
  BY <1>1, <1>2, SafeCopies, ZenonT(60) DEF Quiet, exists, CurOK
<1>3. ASSUME NEW i \in Item, NEW e \in Envelope, Replaced(i, e) PROVE Safe'
  <2>1. \A x \in Dir, j \in Item :
          disk'[x][j] = IF x = "inflight" /\ j = i THEN e ELSE disk[x][j]
    BY <1>1, <1>3, Zenon DEF write, DiskType, Replaced, Dir
  <2> QED
    BY <1>1, <1>3, <2>1, SafeCopies, Zenon DEF Replaced, exists, Handling, Starting
<1>4. ASSUME NEW i \in Item, Emit(i) PROVE Safe'
  <2>1. \A x \in Dir, j \in Item :
          disk'[x][j] = IF x = "pending" /\ j = i THEN NewEnvelope ELSE disk[x][j]
    <3>1. write("pending", i, NewEnvelope)
      BY <1>4, Zenon DEF Emit
    <3> QED
      BY <1>1, <3>1, Zenon DEF write, DiskType, Dir
  <2>2. /\ accepted' = accepted \cup {i} /\ UNCHANGED <<forgotten, pc, cur>>
        /\ disk'["pending"][i] # None /\ "pending" \in Dir
    BY <1>1, <1>4, <2>1, NewEnvelopeType, Zenon DEF Emit, local, Dir
  <2> QED
    BY <1>1, <1>4, <2>1, <2>2, SafeCopies, NewEnvelopeType, Zenon DEF exists, CurOK
<1>5. ASSUME NEW i \in Item, ClaimWrite(i) PROVE Safe'
  <2>1. PICK e : write("inflight", i, e)
    BY <1>5, Zenon DEF ClaimWrite
  <2>2. \A x \in Dir, j \in Item :
          disk'[x][j] = IF x = "inflight" /\ j = i THEN e ELSE disk[x][j]
    BY <1>1, <2>1, Zenon DEF write, DiskType, Dir
  <2>3. ~exists("inflight", i) /\ pc' = "claimRemove" /\ UNCHANGED <<forgotten, accepted>>
    BY <1>5, Zenon DEF ClaimWrite, observed
  <2> QED
    BY <1>1, <2>2, <2>3, SafeCopies, Zenon DEF exists, Starting
<1>6. ASSUME NEW i \in Item, RecoverWrite(i) PROVE Safe'
  <2>1. PICK e : write("pending", i, e)
    BY <1>6, Zenon DEF RecoverWrite
  <2>2. \A x \in Dir, j \in Item :
          disk'[x][j] = IF x = "pending" /\ j = i THEN e ELSE disk[x][j]
    BY <1>1, <2>1, Zenon DEF write, DiskType, Dir
  <2>3. ~exists("pending", i) /\ pc = "recover" /\ pc' = "recoverRemove"
        /\ UNCHANGED <<forgotten, accepted>>
    BY <1>6, Zenon DEF RecoverWrite, observed, completedTransition
  <2> QED
    BY <1>1, <2>2, <2>3, SafeCopies, Zenon DEF exists, Starting
<1>7. ASSUME NEW i \in Item, ClaimDrop(i) PROVE Safe'
  <2>1. /\ remove("pending", i) /\ exists("inflight", i) /\ pc' = "idle"
        /\ UNCHANGED <<forgotten, accepted>>
    BY <1>7, Zenon DEF ClaimDrop, observed, local
  <2> QED
    BY <1>1, <2>1, SafeRemoval, Zenon DEF Dir, Starting
<1>8. ASSUME NEW i \in Item, RecoverRepair(i) PROVE Safe'
  <2>1. /\ remove("inflight", i) /\ pc = "recover" /\ pc' = pc
        /\ \E x \in Settled : exists(x, i)
        /\ UNCHANGED <<forgotten, accepted>>
    BY <1>8, Zenon DEF RecoverRepair, observed, completedTransition, Settled
  <2>2. i \notin forgotten /\ Retrying(i) => exists("pending", i) \/ exists("history", i)
    BY <2>1, Zenon DEF Safe, Starting
  <2> QED
    BY <1>1, <2>1, <2>2, SafeRemoval, Zenon DEF Dir, Settled
<1>9. CASE ClaimRemove
  <2>1. /\ remove("pending", cur) /\ exists("inflight", cur) /\ pc' = "load" /\ cur \in Item
        /\ UNCHANGED <<forgotten, accepted>>
    BY <1>1, <1>9, Zenon DEF ClaimRemove, observed, CurOK
  <2> QED
    BY <1>1, <2>1, SafeRemoval, Zenon DEF Dir, Starting
<1>10. CASE RecoverRemove
  <2>1. /\ remove("inflight", cur) /\ exists("pending", cur) /\ pc' = "recover" /\ cur \in Item
        /\ pc \in Starting /\ UNCHANGED <<forgotten, accepted>>
    BY <1>1, <1>10, Zenon DEF RecoverRemove, observed, CurOK, Starting
  <2> QED
    BY <1>1, <2>1, SafeRemoval, Zenon DEF Dir
<1>11. CASE RemoveSource
  <2>1. /\ remove("inflight", cur) /\ pc = "remove" /\ pc' = "idle" /\ cur \in Item
        /\ UNCHANGED <<forgotten, accepted>>
    BY <1>1, <1>11, Zenon DEF RemoveSource, observed, CurOK, Goto
  <2>2. cur \notin forgotten => \E x \in Settled : exists(x, cur)
    BY <2>1, Zenon DEF Safe
  <2>3. cur \notin forgotten /\ Retrying(cur) => exists("pending", cur) \/ exists("history", cur)
    BY <2>1, Zenon DEF Safe
  <2> QED
    BY <1>1, <2>1, <2>2, <2>3, SafeRemoval, Zenon DEF Dir, Settled, Starting
<1>12. CASE WriteDestination /\ ~exists(dst, cur)
  <2>1. /\ write(dst, cur, mem) /\ pc = "write" /\ pc' = "remove" /\ cur' = cur
        /\ UNCHANGED <<forgotten, accepted>>
        /\ cur \in Item /\ dst \in Settled /\ dst \in Dir /\ mem \in Envelope
    BY <1>1, <1>12, Zenon DEF WriteDestination, observed, CurOK, LocalType, Handling, Settled, Dir
  <2>2. \A x \in Dir, j \in Item :
          disk'[x][j] = IF x = dst /\ j = cur THEN mem ELSE disk[x][j]
    BY <1>1, <2>1, Zenon DEF write, DiskType
  <2>3. \A x \in Dir, j \in Item : exists(x, j) => disk'[x][j] # None
    BY <1>1, <2>1, <2>2, Zenon DEF exists
  <2>4. NoLostItem'
    BY <1>1, <2>1, <2>3, Zenon DEF Safe, NoLostItem, onDisk, exists
  <2>5. (\E d \in Settled : exists(d, cur))'
    BY <1>1, <2>1, <2>2, Zenon DEF exists
  <2>6. ASSUME NEW i \in Item \ forgotten, Retrying(i)
        PROVE  \/ exists("pending", i)' \/ exists("history", i)'
               \/ exists("inflight", i)' /\ pc' \notin Starting /\ ~(pc' = "remove" /\ cur' = i)
    <3>1. CASE i = cur
      <4>1. dst \in {"pending", "history"}
        BY <2>1, <2>6, <3>1, Zenon DEF Retrying, Settled
      <4> QED
        BY <1>1, <2>1, <2>2, <3>1, <4>1, Zenon DEF exists
    <3>2. CASE i # cur
      BY <2>1, <2>3, <2>6, <3>2, Zenon DEF Safe, Starting, exists, Dir
    <3> QED
      BY <3>1, <3>2, Zenon
  <2> QED
    BY <2>1, <2>4, <2>5, <2>6, Zenon DEF Safe, Retrying
<1>13. CASE Forgets
  <2>1. PICK d \in {"history", "dead"}, old \in SUBSET Item : Forget(d, old)
    BY <1>13, Zenon DEF Forgets
  <2>2. /\ forgotten' = forgotten \cup old /\ accepted' = accepted
        /\ \A x \in Dir, j \in Item \ old : disk'[x][j] = disk[x][j]
        /\ pc' \in {"idle", "cleanupDead"} /\ pc \in Starting
    BY <1>1, <1>13, <2>1, Zenon DEF Forget, DiskType, Dir, Forgets
  <2>3. NoLostItem'
    BY <1>1, <2>2, ZenonT(60) DEF Safe, NoLostItem, onDisk, exists
  <2>4. ASSUME NEW i \in Item \ forgotten', Retrying(i)
        PROVE  exists("pending", i)' \/ exists("history", i)'
    BY <2>2, <2>4, Zenon DEF Safe, exists, Dir
  <2> QED
    BY <2>2, <2>3, <2>4, Zenon DEF Safe, Retrying
<1> QED
  BY <1>2, <1>3, <1>4, <1>5, <1>6, <1>7, <1>8, <1>9, <1>10, <1>11, <1>12, <1>13,
     ServiceShape, Zenon

\* The command reads an envelope, and its file operations leave the service's
\* inflight files alone.
LEMMA CommandBase ==
  ASSUME RetryBase, RetryStep
  PROVE  /\ RetryBase'
         /\ UNCHANGED <<now, local, observed, raced>>
<1>1. /\ FileBase /\ LocalBase /\ CounterType /\ CliOK /\ now \in Nat
      /\ accepted \subseteq Item
  BY ZenonT(30) DEF RetryBase, ServiceBase, FileBase, DiskType, HistoryType
<1>2. UNCHANGED <<now, local, observed, raced>>
  BY ZenonT(30) DEF RetryStep, RetryWrite, RetryRemove, CliCrash, RetryRead, vars
<1>3. CounterType'
  BY <1>1, <1>2, Zenon DEF observed, CounterType
<1>4. /\ NoCommand.pc = "idle"
      /\ NoCommand \in [pc : {"idle", "write", "remove"}, item : Item \cup {NoItem},
                       envelope : Envelope]
  BY NewEnvelopeType, Zenon DEF NoCommand
<1>5. UNCHANGED disk => FileBase' /\ LocalBase'
  BY <1>1, <1>2, FileSame, LocalSame, Zenon DEF observed, exists
<1>6. CliOK'
  <2>1. CASE RetryWrite \/ RetryRemove
    <3>1. \/ cli' = NoCommand
          \/ cli' = [cli EXCEPT !.pc = "remove"] /\ cli.pc = "write"
      BY <2>1, Zenon DEF RetryWrite, RetryRemove
    <3>2. UNCHANGED <<accepted, cliCrashes>>
      BY <1>2, <2>1, Zenon DEF RetryWrite, RetryRemove, observed
    <3> QED
      BY <1>1, <1>4, <3>1, <3>2, Zenon DEF CliOK
  <2>2. CASE CliCrash
    BY <1>1, <1>2, <1>4, <2>2 DEF CliCrash, CliOK
  <2>3. ASSUME NEW i \in Item, RetryRead(i) PROVE CliOK'
    <3>1. disk["dead"][i] \in Envelope /\ i \in accepted
      BY <1>1, <2>3, Zenon DEF RetryRead, exists, FileBase, DiskType, Accounted, onDisk, Dir
    <3>2. retryEnvelope(disk["dead"][i]) \in Envelope
      BY <3>1, Zenon DEF retryEnvelope, Envelope
    <3> QED
      BY <1>1, <1>2, <2>3, <3>1, <3>2, Zenon DEF RetryRead, CliOK, observed
  <2> QED
    BY <2>1, <2>2, <2>3, Zenon DEF RetryStep
<1> SUFFICES FileBase' /\ LocalBase'
  BY <1>2, <1>3, <1>6, Zenon DEF RetryBase, ServiceBase
<1>7. CASE CliCrash \/ \E i \in Item : RetryRead(i)
  <2>1. UNCHANGED disk
    BY <1>7, Zenon DEF CliCrash, RetryRead, vars
  <2> QED
    BY <1>5, <2>1, Zenon
<1>8. CASE RetryWrite
  <2>1. CASE ~exists("pending", cli.item)
    <3>1. write("pending", cli.item, cli.envelope) /\ cli.item \in accepted
      BY <1>1, <1>8, <2>1, Zenon DEF RetryWrite, CliOK
    <3>2. cli.item \in Item /\ cli.envelope \in Envelope /\ cli.envelope # None
      BY <1>1, <3>1, NoneAssumption, Zenon DEF CliOK
    <3>3. accepted' = accepted \cup {cli.item} /\ recorded \in [Item -> SUBSET Target]
      BY <1>1, <1>2, <3>1, Zenon DEF observed, FileBase, HistoryType
    <3>4. FileBase'
      BY <1>1, <1>2, <3>1, <3>2, <3>3, FileWritten, Zenon DEF observed, Dir
    <3>5. \A x \in Dir, j \in Item :
            disk'[x][j] = IF x = "pending" /\ j = cli.item THEN cli.envelope ELSE disk[x][j]
      BY <1>1, <3>1, <3>2, Zenon DEF write, FileBase, DiskType, Dir
    <3>6. LocalBase'
      BY <1>1, <1>2, <3>2, <3>5, LocalSame, Zenon DEF exists, Dir
    <3> QED
      BY <3>4, <3>6, Zenon
  <2> QED
    BY <1>5, <1>8, <2>1, Zenon DEF RetryWrite
<1>9. CASE RetryRemove
  <2>1. remove("dead", cli.item) /\ cli.item \in Item
    BY <1>1, <1>9, Zenon DEF RetryRemove, CliOK
  <2>2. FileBase'
    BY <1>1, <1>2, <2>1, FileRemoved, Zenon DEF observed, Dir
  <2>3. \A x \in Dir, j \in Item :
          disk'[x][j] = IF x = "dead" /\ j = cli.item THEN None ELSE disk[x][j]
    BY <1>1, <2>1, Zenon DEF remove, FileBase, DiskType, Dir
  <2>4. LocalBase'
    BY <1>1, <1>2, <2>3, LocalSame, Zenon DEF exists, Dir
  <2> QED
    BY <2>2, <2>4, Zenon
<1> QED
  BY <1>7, <1>8, <1>9, Zenon DEF RetryStep

\* The command writes the pending copy first, and when it removes the dead one the
\* item has a copy that stays.
LEMMA SafeCommand == ASSUME RetryBase, Safe, RetryStep PROVE Safe'
<1>1. /\ DiskType /\ HistoryType /\ CliOK /\ CurOK /\ UNCHANGED <<now, local, observed>>
      /\ accepted \subseteq Item
  BY CommandBase, Zenon
     DEF RetryBase, ServiceBase, FileBase, LocalBase, HistoryType
<1>2. UNCHANGED <<pc, cur, accepted, forgotten>>
  BY <1>1, Zenon DEF local, observed
<1>3. CASE UNCHANGED disk /\ cli'.pc # "remove"
  BY <1>2, <1>3, Zenon DEF Safe, NoLostItem, onDisk, exists, Retrying
<1>4. CASE RetryWrite /\ ~exists("pending", cli.item)
  <2>1. /\ write("pending", cli.item, cli.envelope) /\ cli.item \in Item
        /\ cli'.item = cli.item /\ cli.envelope # None
    BY <1>1, <1>4, NoneAssumption, Zenon DEF RetryWrite, CliOK
  <2>2. \A x \in Dir, j \in Item :
          disk'[x][j] = IF x = "pending" /\ j = cli.item THEN cli.envelope ELSE disk[x][j]
    BY <1>1, <2>1, Zenon DEF write, DiskType, Dir
  <2>3. \A x \in Dir, j \in Item : disk[x][j] # None => disk'[x][j] # None
    BY <2>1, <2>2, Zenon
  <2>4. NoLostItem'
    BY <1>1, <1>2, <2>3, Zenon DEF Safe, NoLostItem, onDisk, exists
  <2>5. (pc = "remove" /\ cur \notin forgotten => \E d \in Settled : exists(d, cur))'
    BY <1>1, <1>2, <2>3, Zenon DEF Safe, Settled, Dir, exists, CurOK
  <2>6. \A i \in Item : Retrying(i)' => exists("pending", i)'
    BY <2>1, <2>2, Zenon DEF Retrying, exists, Dir
  <2> QED
    BY <2>4, <2>5, <2>6, Zenon DEF Safe
<1>5. CASE RetryRemove
  <2>1. /\ remove("dead", cli.item) /\ cli.item \in Item /\ Retrying(cli.item)
        /\ cli'.pc = "idle"
    BY <1>1, <1>5, Zenon DEF RetryRemove, CliOK, NoCommand, Retrying
  <2>2. \A x \in Dir, j \in Item :
          disk'[x][j] = IF x = "dead" /\ j = cli.item THEN None ELSE disk[x][j]
    BY <1>1, <2>1, Zenon DEF remove, DiskType, Dir
  <2>3. NoLostItem'
    <3> SUFFICES ASSUME NEW j \in accepted \ forgotten
                 PROVE  \E x \in Dir : disk'[x][j] # None
      BY <1>2, Zenon DEF NoLostItem, onDisk, exists
    <3>1. CASE j = cli.item
      BY <1>1, <2>1, <2>2, <3>1, Zenon DEF Safe, exists, Dir
    <3>2. CASE j # cli.item
      BY <1>1, <2>2, <3>2, ZenonT(60) DEF Safe, NoLostItem, onDisk, exists
    <3> QED
      BY <3>1, <3>2, Zenon
  <2>4. (pc = "remove" /\ cur \notin forgotten => \E d \in Settled : exists(d, cur))'
    <3> SUFFICES ASSUME pc = "remove", cur \notin forgotten
                 PROVE  \E d \in Settled : disk'[d][cur] # None
      BY <1>2, Zenon DEF exists
    <3>1. cur \in Item
      BY <1>1, Zenon DEF CurOK
    <3>2. CASE cur = cli.item
      BY <2>1, <2>2, <3>1, <3>2, Zenon DEF Safe, exists, Dir, Settled
    <3>3. CASE cur # cli.item
      BY <2>2, <3>1, <3>3, ZenonT(60) DEF Safe, exists, Dir, Settled
    <3> QED
      BY <3>2, <3>3, Zenon
  <2> QED
    BY <2>1, <2>3, <2>4, Zenon DEF Safe, Retrying
<1> QED
  <2>2. ASSUME NEW i \in Item, RetryRead(i) PROVE UNCHANGED disk /\ cli'.pc # "remove"
    BY <2>2, Zenon DEF RetryRead, vars
  <2>3. ASSUME CliCrash PROVE UNCHANGED disk /\ cli'.pc # "remove"
    BY <2>3, Zenon DEF CliCrash, vars, NoCommand
  <2>4. ASSUME RetryWrite, exists("pending", cli.item)
        PROVE  UNCHANGED disk /\ cli'.pc # "remove"
    BY <2>4 DEF RetryWrite, NoCommand
  <2> QED
    BY <1>3, <1>4, <1>5, <2>2, <2>3, <2>4, Zenon DEF RetryStep

-----------------------------------------------------------------------------
\* What is said of the copies of one item.

\* It stays true while they are left alone and the item is not taken in hand.
LEMMA SoundSame ==
  ASSUME NEW i \in Item, SoundItem(i), UNCHANGED cli, recorded'[i] = recorded[i],
         \A d \in Dir : disk'[d][i] = disk[d][i],
         pc' \in Handling /\ cur' = i => pc \in Handling /\ cur = i
  PROVE  SoundItem(i)'
<1>1. \A d \in Dir : (disk'[d][i] # None) = (disk[d][i] # None)
  OBVIOUS
<1>2. \A d, e \in Settled : seen(d, i)' /\ seen(e, i)' => d = e
  BY <1>1, Zenon DEF SoundItem, seen, Retrying, exists, Settled, Dir
<1>3. pc' \in Handling /\ cur' = i => \A d \in Settled : ~seen(d, i)'
  BY <1>1, Zenon DEF SoundItem, seen, Retrying, exists, Settled, Dir
<1>4. ASSUME NEW d \in Dir, seen(d, i)', NEW t \in recorded'[i]
      PROVE  disk'[d][i].ledger[t].state = "succeeded"
  BY <1>1, <1>4, Zenon DEF SoundItem, seen, Retrying, exists
<1>5. cli'.pc = "write" /\ cli'.item = i =>
        exists("dead", i)' /\ cli'.envelope.ledger = disk'["dead"][i].ledger
  BY <1>1, Zenon DEF SoundItem, exists, Dir
<1> QED
  BY <1>2, <1>3, <1>4, <1>5, Zenon DEF SoundItem

\* Removing a pending or an inflight copy disturbs nothing else.
LEMMA SoundRemoval ==
  ASSUME NEW i \in Item, SoundItem(i), DiskType, UNCHANGED <<cli, recorded>>,
         NEW d \in {"pending", "inflight"}, NEW k \in Item, remove(d, k),
         pc' \in Handling /\ cur' = i => k = i /\ d = "pending" /\ exists(d, i)
  PROVE  SoundItem(i)'
<1>1. \A x \in Dir : disk'[x][i] = IF x = d /\ k = i THEN None ELSE disk[x][i]
  BY Zenon DEF remove, DiskType, Dir
<1>2. \A x \in Dir : seen(x, i)' => seen(x, i) /\ disk'[x][i] = disk[x][i]
  BY <1>1, Zenon DEF seen, Retrying, exists
<1>3. \A x, y \in Settled : seen(x, i)' /\ seen(y, i)' => x = y
  BY <1>2, Zenon DEF SoundItem, Settled, Dir
<1>4. ASSUME pc' \in Handling /\ cur' = i, NEW x \in Settled PROVE ~seen(x, i)'
  <2>1. seen("pending", i) /\ disk'["pending"][i] = None
    BY <1>1, <1>4, Zenon DEF seen, Dir
  <2>2. seen(x, i) => x = "pending"
    BY <2>1, Zenon DEF SoundItem, Settled
  <2> QED
    BY <1>2, <2>1, <2>2, Zenon DEF Settled, Dir, seen, exists
<1>5. ASSUME NEW x \in Dir, seen(x, i)', NEW t \in recorded'[i]
      PROVE  disk'[x][i].ledger[t].state = "succeeded"
  BY <1>2, <1>5, Zenon DEF SoundItem
<1>6. cli'.pc = "write" /\ cli'.item = i =>
        exists("dead", i)' /\ cli'.envelope.ledger = disk'["dead"][i].ledger
  BY <1>1, Zenon DEF SoundItem, exists, Dir
<1> QED
  BY <1>3, <1>4, <1>5, <1>6, Zenon DEF SoundItem

\* Writing a copy that remembers what is recorded, beside no other or beside the
\* copy it was made from.
LEMMA SoundCopy ==
  ASSUME NEW i \in Item, DiskType, UNCHANGED cli,
         NEW d \in Dir, NEW e \in Envelope, write(d, i, e),
         \A t \in recorded'[i] : e.ledger[t].state = "succeeded",
         \A x \in Dir \ {d} : seen(x, i) =>
           \A t \in recorded'[i] : disk[x][i].ledger[t].state = "succeeded",
         \A x, y \in Settled \ {d} : seen(x, i) /\ seen(y, i) => x = y,
         d # "inflight" => \A x \in Settled \ {d} : ~seen(x, i),
         pc' \in Handling /\ cur' = i =>
           d = "inflight" /\ \A x \in Settled : ~seen(x, i),
         cli.pc = "write" /\ cli.item = i =>
           /\ d # "dead" /\ exists("dead", i)
           /\ cli.envelope.ledger = disk["dead"][i].ledger
  PROVE  SoundItem(i)'
<1>1. \A x \in Dir : disk'[x][i] = IF x = d THEN e ELSE disk[x][i]
  BY Zenon DEF write, DiskType
<1>2. \A x \in Dir \ {d} : seen(x, i)' => seen(x, i) /\ disk'[x][i] = disk[x][i]
  BY <1>1, Zenon DEF seen, Retrying, exists
<1>3. \A x, y \in Settled : seen(x, i)' /\ seen(y, i)' => x = y
  BY <1>2, Zenon DEF Settled, Dir
<1>4. pc' \in Handling /\ cur' = i => \A x \in Settled : ~seen(x, i)'
  BY <1>2, Zenon DEF Settled, Dir
<1>5. ASSUME NEW x \in Dir, seen(x, i)', NEW t \in recorded'[i]
      PROVE  disk'[x][i].ledger[t].state = "succeeded"
  <2>1. CASE x = d
    <3>1. disk'[x][i] = e
      BY <1>1, <2>1, Zenon
    <3> QED
      BY <3>1, Zenon
  <2>2. CASE x # d
    <3>1. seen(x, i) /\ disk'[x][i] = disk[x][i]
      BY <1>2, <1>5, <2>2, Zenon
    <3>2. disk[x][i].ledger[t].state = "succeeded"
      BY <1>5, <2>2, <3>1, Zenon
    <3> QED
      BY <3>1, <3>2, Zenon
  <2> QED
    BY <2>1, <2>2, Zenon
<1>6. cli'.pc = "write" /\ cli'.item = i =>
        exists("dead", i)' /\ cli'.envelope.ledger = disk'["dead"][i].ledger
  BY <1>1, Zenon DEF exists, Dir
<1> QED
  BY <1>3, <1>4, <1>5, <1>6, Zenon DEF SoundItem

\* Every step of the service keeps what is said of an item that retention has not
\* removed.
LEMMA SoundService ==
  ASSUME ServiceBase, CliOK, [Next]_vars, UNCHANGED cli,
         NEW i \in Item, i \notin forgotten', SoundItem(i)
  PROVE  SoundItem(i)'
<1>1. /\ DiskType /\ HistoryType /\ Accounted /\ LocalType /\ CurOK /\ ScanOK
      /\ recorded \in [Item -> SUBSET Target]
  BY Zenon DEF ServiceBase, FileBase, LocalBase, HistoryType
<1>2. CASE Quiet
  BY <1>2, SoundSame, Zenon DEF Quiet
<1>3. ASSUME NEW k \in Item, NEW e \in Envelope, Replaced(k, e) PROVE SoundItem(i)'
  <2>1. write("inflight", k, e) /\ cur = k /\ cur' = k /\ pc \in Handling /\ pc' \in Handling
    BY <1>3, Zenon DEF Replaced
  <2>2. CASE k # i
    <3>1. \A x \in Dir : disk'[x][i] = disk[x][i]
      BY <1>1, <2>1, <2>2, Zenon DEF write, DiskType, Dir
    <3>2. recorded'[i] = recorded[i]
      BY <1>3, <2>2, Zenon DEF Replaced
    <3> QED
      BY <2>1, <2>2, <3>1, <3>2, SoundSame, Zenon
  <2>3. CASE k = i
    <3>1. \A x \in Settled : ~seen(x, i)
      BY <2>1, <2>3, Zenon DEF SoundItem
    <3>2. seen("inflight", i) /\ mem.ledger = disk["inflight"][i].ledger
      BY <1>1, <2>1, <2>3, Zenon DEF CurOK, seen
    <3>3. \A t \in recorded[i] : mem.ledger[t].state = "succeeded"
      <4>1. \A t \in recorded[i] : disk["inflight"][i].ledger[t].state = "succeeded"
        BY <3>2, Zenon DEF SoundItem, Dir
      <4> QED
        BY <3>2, <4>1, Zenon
    <3>4. \A t \in recorded'[i] : e.ledger[t].state = "succeeded"
      BY <1>3, <2>3, <3>3, Zenon DEF Replaced
    <3>5. ~(cli.pc = "write" /\ cli.item = i)
      BY <3>1, Zenon DEF SoundItem, seen, Retrying, Settled
    <3>6. \A x \in Dir \ {"inflight"} : ~seen(x, i)
      BY <3>1, Zenon DEF Dir, Settled
    <3> QED
      BY <1>1, <2>1, <2>3, <3>1, <3>4, <3>5, <3>6, SoundCopy, Zenon DEF Dir
  <2> QED
    BY <2>2, <2>3, Zenon
<1>4. ASSUME NEW k \in Item, Emit(k) PROVE SoundItem(i)'
  <2>1. /\ write("pending", k, NewEnvelope) /\ k \notin accepted
        /\ UNCHANGED <<recorded, pc, cur>>
    BY <1>4, Zenon DEF Emit, local
  <2>2. CASE k # i
    <3>1. \A x \in Dir : disk'[x][i] = disk[x][i]
      BY <1>1, <2>1, <2>2, Zenon DEF write, DiskType, Dir
    <3> QED
      BY <2>1, <3>1, SoundSame, Zenon
  <2>3. CASE k = i
    <3>1. recorded[i] = {} /\ \A x \in Dir : ~exists(x, i)
      BY <1>1, <2>1, <2>3, Zenon DEF Accounted, onDisk
    <3>2. ~(pc' \in Handling /\ cur' = i) /\ ~(cli.pc = "write" /\ cli.item = i)
      BY <1>1, <2>1, <2>3, <3>1, Zenon DEF CurOK, CliOK, Dir
    <3>3. \A x \in Dir : ~seen(x, i)
      BY <3>1, Zenon DEF seen
    <3> QED
      BY <1>1, <2>1, <2>3, <3>1, <3>2, <3>3, NewEnvelopeType, SoundCopy, Zenon DEF Dir, Settled
  <2> QED
    BY <2>2, <2>3, Zenon
<1>5. ASSUME NEW k \in Item, ClaimWrite(k) PROVE SoundItem(i)'
  <2> DEFINE e == claimEnvelope(disk["pending"][k])
  <2>1. /\ write("inflight", k, e) /\ pc' = "claimRemove" /\ UNCHANGED recorded
        /\ exists("pending", k)
    BY <1>5, Zenon DEF ClaimWrite, observed, isFirst, claimable, inDirectory
  <2>2. e \in Envelope /\ e.ledger = disk["pending"][k].ledger
    BY <1>1, <2>1, MovedEnvelope DEF DiskType, exists, Dir
  <2> HIDE DEF e
  <2>3. CASE k # i
    <3>1. \A x \in Dir : disk'[x][i] = disk[x][i]
      BY <1>1, <2>1, <2>3, Zenon DEF write, DiskType, Dir
    <3> QED
      BY <2>1, <3>1, SoundSame, Zenon DEF Handling
  <2>4. CASE k = i
    <3>1. seen("pending", i)
      BY <2>1, <2>4, Zenon DEF seen
    <3>2. \A t \in recorded[i] : disk["pending"][i].ledger[t].state = "succeeded"
      BY <3>1, Zenon DEF SoundItem, Dir
    <3>3. \A t \in recorded'[i] : e.ledger[t].state = "succeeded"
      BY <2>1, <2>2, <2>4, <3>2, Zenon
    <3>4. \A x \in Dir \ {"inflight"} : seen(x, i) =>
            \A t \in recorded'[i] : disk[x][i].ledger[t].state = "succeeded"
      BY <2>1, Zenon DEF SoundItem
    <3>5. \A x, y \in Settled \ {"inflight"} : seen(x, i) /\ seen(y, i) => x = y
      BY Zenon DEF SoundItem
    <3>6. cli.pc = "write" /\ cli.item = i =>
            exists("dead", i) /\ cli.envelope.ledger = disk["dead"][i].ledger
      BY Zenon DEF SoundItem
    <3> QED
      BY <1>1, <2>1, <2>2, <2>4, <3>3, <3>4, <3>5, <3>6, SoundCopy, Zenon DEF Dir, Handling
  <2> QED
    BY <2>3, <2>4, Zenon
<1>6. ASSUME NEW k \in Item, RecoverWrite(k) PROVE SoundItem(i)'
  <2> DEFINE e == recoverEnvelope(disk["inflight"][k])
  <2>1. /\ write("pending", k, e) /\ pc' = "recoverRemove" /\ UNCHANGED recorded
        /\ exists("inflight", k) /\ ~completedTransition(k)
    BY <1>1, <1>6, Zenon DEF RecoverWrite, observed, isFirst, ScanOK
  <2>2. e \in Envelope /\ e.ledger = disk["inflight"][k].ledger
    BY <1>1, <2>1, MovedEnvelope DEF DiskType, exists, Dir
  <2> HIDE DEF e
  <2>3. CASE k # i
    <3>1. \A x \in Dir : disk'[x][i] = disk[x][i]
      BY <1>1, <2>1, <2>3, Zenon DEF write, DiskType, Dir
    <3> QED
      BY <2>1, <3>1, SoundSame, Zenon DEF Handling
  <2>4. CASE k = i
    <3>1. seen("inflight", i) /\ \A x \in Settled : ~exists(x, i)
      BY <2>1, <2>4, Zenon DEF seen, completedTransition, Settled
    <3>2. \A t \in recorded[i] : disk["inflight"][i].ledger[t].state = "succeeded"
      BY <3>1, Zenon DEF SoundItem, Dir
    <3>3. \A t \in recorded'[i] : e.ledger[t].state = "succeeded"
      BY <2>1, <2>2, <2>4, <3>2, Zenon
    <3>4. \A x \in Dir \ {"pending"} : seen(x, i) =>
            \A t \in recorded'[i] : disk[x][i].ledger[t].state = "succeeded"
      BY <2>1, Zenon DEF SoundItem
    <3>5. \A x \in Settled : ~seen(x, i)
      BY <3>1, Zenon DEF seen
    <3>6. ~(cli.pc = "write" /\ cli.item = i)
      BY <3>1, Zenon DEF SoundItem, Settled
    <3> QED
      BY <1>1, <2>1, <2>2, <2>4, <3>3, <3>4, <3>5, <3>6, SoundCopy, Zenon DEF Dir, Handling
  <2> QED
    BY <2>3, <2>4, Zenon
<1>7. ASSUME NEW k \in Item, ClaimDrop(k) PROVE SoundItem(i)'
  <2>1. remove("pending", k) /\ pc' = "idle" /\ UNCHANGED recorded
    BY <1>7, Zenon DEF ClaimDrop, observed, local
  <2> QED
    BY <1>1, <2>1, SoundRemoval, Zenon DEF Handling
<1>8. ASSUME NEW k \in Item, RecoverRepair(k) PROVE SoundItem(i)'
  <2>1. remove("inflight", k) /\ pc' = "recover" /\ UNCHANGED recorded
    BY <1>8, Zenon DEF RecoverRepair, observed
  <2> QED
    BY <1>1, <2>1, SoundRemoval, Zenon DEF Handling
<1>9. CASE RecoverRemove \/ RemoveSource
  <2>1. PICK k : k = cur
    OBVIOUS
  <2>2. /\ remove("inflight", k) /\ pc' \in {"recover", "idle"} /\ UNCHANGED recorded
        /\ k \in Item
    BY <1>1, <1>9, <2>1, Zenon DEF RecoverRemove, RemoveSource, observed, Goto, CurOK
  <2> QED
    BY <1>1, <2>2, SoundRemoval, Zenon DEF Handling
<1>10. CASE ClaimRemove
  <2>1. PICK k : k = cur
    OBVIOUS
  <2>2. /\ remove("pending", k) /\ pc' = "load" /\ cur' = k /\ UNCHANGED recorded
        /\ k \in Item /\ exists("pending", k)
    BY <1>1, <1>10, <2>1, Zenon DEF ClaimRemove, observed, CurOK
  <2> QED
    BY <1>1, <2>2, SoundRemoval, Zenon
<1>11. CASE WriteDestination /\ ~exists(dst, cur)
  <2>1. PICK k, d, e : k = cur /\ d = dst /\ e = mem
    OBVIOUS
  <2>2. /\ write(d, k, e) /\ pc = "write" /\ pc' = "remove" /\ UNCHANGED recorded
        /\ k \in Item /\ d \in Settled /\ d \in Dir /\ e \in Envelope
        /\ exists("inflight", k) /\ e.ledger = disk["inflight"][k].ledger
    BY <1>1, <1>11, <2>1, Zenon
       DEF WriteDestination, observed, CurOK, LocalType, Handling, Settled, Dir
  <2>3. CASE k # i
    <3>1. \A x \in Dir : disk'[x][i] = disk[x][i]
      BY <1>1, <2>2, <2>3, Zenon DEF write, DiskType
    <3> QED
      BY <2>2, <3>1, SoundSame, Zenon DEF Handling
  <2>4. CASE k = i
    <3>1. seen("inflight", i) /\ \A x \in Settled : ~seen(x, i)
      BY <2>1, <2>2, <2>4, Zenon DEF seen, SoundItem, Handling
    <3>2. \A t \in recorded[i] : disk["inflight"][i].ledger[t].state = "succeeded"
      BY <3>1, Zenon DEF SoundItem, Dir
    <3>3. \A t \in recorded'[i] : e.ledger[t].state = "succeeded"
      BY <2>2, <2>4, <3>2, Zenon
    <3>4. \A x \in Dir \ {d} : seen(x, i) =>
            \A t \in recorded'[i] : disk[x][i].ledger[t].state = "succeeded"
      BY <2>2, Zenon DEF SoundItem
    <3>5. ~(cli.pc = "write" /\ cli.item = i)
      BY <3>1, Zenon DEF SoundItem, seen, Retrying, Settled
    <3> QED
      BY <1>1, <2>2, <2>4, <3>1, <3>3, <3>4, <3>5, SoundCopy, Zenon DEF Handling
  <2> QED
    BY <2>3, <2>4, Zenon
<1>12. CASE Forgets
  <2>1. PICK d \in {"history", "dead"}, old \in SUBSET Item : Forget(d, old)
    BY <1>12, Zenon DEF Forgets
  <2>2. i \notin old /\ UNCHANGED recorded /\ pc' \in {"idle", "cleanupDead"}
    BY <1>12, <2>1, Zenon DEF Forget, Forgets
  <2>3. \A x \in Dir : disk'[x][i] = disk[x][i]
    BY <1>1, <2>1, <2>2, Zenon DEF Forget, DiskType, Dir
  <2> QED
    BY <2>2, <2>3, SoundSame, Zenon DEF Handling
<1> QED
  BY <1>2, <1>3, <1>4, <1>5, <1>6, <1>7, <1>8, <1>9, <1>10, <1>11, <1>12,
     ServiceShape, Zenon

\* The command reads the dead copy and writes it to pending with its ledger; from
\* then on the dead copy no longer counts.
LEMMA SoundCommand ==
  ASSUME RetryBase, RetryStep, ~CliCrash, NEW i \in Item, SoundItem(i)
  PROVE  SoundItem(i)'
<1>1. /\ DiskType /\ CliOK /\ CurOK /\ accepted \subseteq Item
      /\ UNCHANGED <<pc, cur, recorded>>
  BY CommandBase, Zenon
     DEF RetryBase, ServiceBase, FileBase, LocalBase, HistoryType, local, observed
<1>2. ASSUME NEW k \in Item, RetryRead(k) PROVE SoundItem(i)'
  <2>1. /\ UNCHANGED disk /\ exists("dead", k) /\ cli.pc = "idle"
        /\ cli' = [pc |-> "write", item |-> k,
                   envelope |-> retryEnvelope(disk["dead"][k])]
    BY <1>2, Zenon DEF RetryRead, vars
  <2>2. disk["dead"][k] \in Envelope
    BY <1>1, <2>1, Zenon DEF DiskType, exists, Dir
  <2>3. retryEnvelope(disk["dead"][k]).ledger = disk["dead"][k].ledger
    BY <2>2, Zenon DEF retryEnvelope, Envelope
  <2>4. \A d : seen(d, i)' = seen(d, i)
    BY <2>1, Zenon DEF seen, Retrying, exists
  <2>5. cli'.pc = "write" /\ cli'.item = i =>
          exists("dead", i)' /\ cli'.envelope.ledger = disk'["dead"][i].ledger
    BY <2>1, <2>3, Zenon DEF exists
  <2> QED
    BY <1>1, <2>1, <2>4, <2>5, Zenon DEF SoundItem
<1>3. CASE RetryWrite /\ exists("pending", cli.item)
  <2>1. UNCHANGED disk /\ cli.pc = "write" /\ cli'.pc = "idle"
    BY <1>3 DEF RetryWrite, NoCommand
  <2>2. \A d : seen(d, i)' = seen(d, i)
    BY <2>1, Zenon DEF seen, Retrying, exists
  <2> QED
    BY <1>1, <2>1, <2>2, Zenon DEF SoundItem
<1>4. CASE RetryWrite /\ ~exists("pending", cli.item)
  <2>1. PICK k, e : k = cli.item /\ e = cli.envelope
    OBVIOUS
  <2>2. /\ write("pending", k, e) /\ k \in Item /\ e \in Envelope /\ e # None
        /\ cli.pc = "write" /\ cli'.pc = "remove" /\ cli'.item = k
    BY <1>1, <1>4, <2>1, NoneAssumption, Zenon DEF RetryWrite, CliOK
  <2>3. \A x \in Dir, j \in Item :
          disk'[x][j] = IF x = "pending" /\ j = k THEN e ELSE disk[x][j]
    <3>1. "pending" \in Dir /\ DiskType
      BY <1>1, Zenon DEF Dir
    <3> QED
      BY <2>2, <3>1, Zenon DEF write, DiskType
  <2>4. CASE k # i
    <3>1. \A x \in Dir : seen(x, i)' = seen(x, i) /\ disk'[x][i] = disk[x][i]
      BY <2>1, <2>2, <2>3, <2>4, Zenon DEF seen, Retrying, exists
    <3>2. Settled \subseteq Dir /\ UNCHANGED <<recorded, pc, cur>>
      BY <1>1, <1>4, Zenon DEF Settled, Dir, RetryWrite, vars, observed
    <3>3. ~(cli'.pc = "write" /\ cli'.item = i)
      BY <2>2, Zenon
    <3> QED
      BY <3>1, <3>2, <3>3, ZenonT(60) DEF SoundItem
  <2>5. CASE k = i
    <3>1. exists("dead", i) /\ e.ledger = disk["dead"][i].ledger
      BY <2>1, <2>2, <2>5, Zenon DEF SoundItem
    <3>2. seen("dead", i)
      BY <2>2, <3>1, Zenon DEF seen, Retrying
    <3>3. \A x \in Settled : seen(x, i) => x = "dead"
      BY <3>2, Zenon DEF SoundItem, Settled
    <3>4. ~(pc \in Handling /\ cur = i)
      BY <3>2, Zenon DEF SoundItem, Settled
    <3>5. \A x \in Dir : seen(x, i)' =>
            \/ x = "pending"
            \/ x # "dead" /\ seen(x, i) /\ disk'[x][i] = disk[x][i]
      BY <2>2, <2>3, <2>5, Zenon DEF seen, Retrying, exists
    <3>6. \A x \in Settled : seen(x, i)' => x = "pending"
      BY <3>3, <3>5, Zenon DEF Settled, Dir
    <3>7. \A t \in recorded[i] : disk["dead"][i].ledger[t].state = "succeeded"
      BY <3>2, Zenon DEF SoundItem, Dir
    <3>8. ASSUME NEW x \in Dir, seen(x, i)', NEW t \in recorded[i]
          PROVE  disk'[x][i].ledger[t].state = "succeeded"
      <4>1. CASE x = "pending"
        <5>1. disk'[x][i] = e
          BY <2>3, <2>5, <4>1, Zenon
        <5> QED
          BY <3>1, <3>7, <5>1, Zenon
      <4>2. CASE x # "pending"
        <5>1. seen(x, i) /\ disk'[x][i] = disk[x][i]
          BY <3>5, <3>8, <4>2, Zenon
        <5>2. disk[x][i].ledger[t].state = "succeeded"
          BY <5>1, Zenon DEF SoundItem
        <5> QED
          BY <5>1, <5>2, Zenon
      <4> QED
        BY <4>1, <4>2, Zenon
    <3> QED
      BY <1>1, <2>2, <3>4, <3>6, <3>8, Zenon DEF SoundItem
  <2> QED
    BY <2>4, <2>5, Zenon
<1>5. CASE RetryRemove
  <2>1. PICK k : k = cli.item
    OBVIOUS
  <2>2. remove("dead", k) /\ cli.pc = "remove" /\ cli'.pc = "idle" /\ k \in Item
    BY <1>1, <1>5, <2>1, Zenon DEF RetryRemove, NoCommand, CliOK
  <2>3. \A x \in Dir, j \in Item :
          disk'[x][j] = IF x = "dead" /\ j = k THEN None ELSE disk[x][j]
    BY <1>1, <2>2, Zenon DEF remove, DiskType, Dir
  <2>4. \A x \in Dir : seen(x, i)' => seen(x, i) /\ disk'[x][i] = disk[x][i]
    BY <2>1, <2>2, <2>3, Zenon DEF seen, Retrying, exists
  <2>5. ASSUME NEW x \in Dir, seen(x, i)', NEW t \in recorded[i]
        PROVE  disk'[x][i].ledger[t].state = "succeeded"
    <3>1. seen(x, i) /\ disk'[x][i] = disk[x][i]
      BY <2>4, <2>5, Zenon
    <3>2. disk[x][i].ledger[t].state = "succeeded"
      BY <3>1, Zenon DEF SoundItem
    <3> QED
      BY <3>1, <3>2, Zenon
  <2>6. \A x, y \in Settled : seen(x, i)' /\ seen(y, i)' => x = y
    BY <2>4, Zenon DEF SoundItem, Settled, Dir
  <2>7. pc \in Handling /\ cur = i => \A x \in Settled : ~seen(x, i)'
    BY <2>4, Zenon DEF SoundItem, Settled, Dir
  <2> QED
    BY <1>1, <2>2, <2>5, <2>6, <2>7, Zenon DEF SoundItem
<1> QED
  BY <1>2, <1>3, <1>4, <1>5, Zenon DEF RetryStep

-----------------------------------------------------------------------------
\* The three parts of the invariant, initially and through every step.

RetryInv == RetryBase /\ KeepInv /\ SoundInv

\* The initial state: an empty spool, no service and no command.
LEMMA RetryInitInv == RetryInit => RetryInv
<1> SUFFICES ASSUME RetryInit PROVE RetryInv
  OBVIOUS
<1>1. IInv
  BY InitIInv, Zenon DEF RetryInit
<1>2. /\ pc = "down" /\ cli = NoCommand /\ NoCommand.pc = "idle" /\ cliCrashes = 0
      /\ \A d \in Dir, i \in Item : ~exists(d, i)
      /\ recorded = [i \in Item |-> {}]
  BY Zenon DEF RetryInit, Init, NoCommand, exists
<1>3. RetryBase
  <2>1. ServiceBase
    BY <1>1, <1>2, Zenon
       DEF IInv, SpoolInv, LocalInv, ServiceBase, FileBase, LocalBase, CurOK, Handling
  <2>2. CliOK
    BY <1>2, NewEnvelopeType, Zenon DEF CliOK, NoCommand
  <2> QED
    BY <2>1, <2>2, Zenon DEF RetryBase
<1>4. KeepInv
  BY <1>1, <1>2, Zenon DEF KeepInv, Safe, IInv, SpoolInv, Retrying
<1>5. SoundInv
  BY <1>2, ZenonT(60) DEF SoundInv, SoundItem, seen, Handling, Settled, Dir
<1> QED
  BY <1>3, <1>4, <1>5, Zenon DEF RetryInv

\* Every step of the service and of the command.
LEMMA RetryNextInv == RetryInv /\ [RetryNext]_retryVars => RetryInv'
<1> SUFFICES ASSUME RetryInv, [RetryNext]_retryVars PROVE RetryInv'
  OBVIOUS
<1>1. RetryBase /\ ServiceBase /\ CliOK /\ KeepInv /\ SoundInv /\ cliCrashes \in Nat
  BY Zenon DEF RetryInv, RetryBase, CliOK
<1>2. ASSUME [Next]_vars, UNCHANGED <<cli, cliCrashes>>, raced => raced',
             cli.pc = "remove" /\ crashes' # crashes => raced',
             cli.pc = "remove" /\ cli.item = cur /\ pc = "write" /\ dst = "dead" => raced'
      PROVE  RetryInv'
  <2>1. ServiceBase' /\ accepted \subseteq accepted' /\ forgotten \subseteq forgotten'
    <3>1. ServiceBase'
      BY <1>1, <1>2, ServiceShape, Zenon
    <3>2. accepted \subseteq accepted' /\ forgotten \subseteq forgotten'
      BY <1>1, <1>2, ServiceShape, Zenon
         DEF Quiet, Replaced, Emit, ClaimWrite, RecoverWrite, ClaimDrop, RecoverRepair,
             ClaimRemove, RecoverRemove, RemoveSource, WriteDestination, Forgets, Forget,
             observed
    <3> QED
      BY <3>1, <3>2, Zenon
  <2>2. CliOK'
    BY <1>1, <1>2, <2>1, Zenon DEF CliOK
  <2>3. KeepInv'
    BY <1>1, <1>2, SafeService, Zenon DEF KeepInv
  <2>4. SoundInv'
    <3> SUFFICES ASSUME ~(cliCrashes > 0), NEW i \in Item \ forgotten' PROVE SoundItem(i)'
      BY <1>2, Zenon DEF SoundInv
    <3>1. SoundItem(i)
      BY <1>1, <2>1, Zenon DEF SoundInv
    <3> QED
      BY <1>1, <1>2, <3>1, SoundService, Zenon
  <2> QED
    BY <2>1, <2>2, <2>3, <2>4, Zenon DEF RetryInv, RetryBase
<1>3. CASE RetryStep
  <2>1. RetryBase' /\ UNCHANGED <<observed, raced>>
    BY <1>1, <1>3, CommandBase, Zenon
  <2>2. KeepInv'
    BY <1>1, <1>3, <2>1, SafeCommand, Zenon DEF KeepInv
  <2>3. SoundInv'
    <3>1. CASE CliCrash
      <4>1. cliCrashes' > 0
        BY <1>1, <3>1 DEF CliCrash
      <4> QED
        BY <4>1, Zenon DEF SoundInv
    <3>2. CASE ~CliCrash
      <4>1. UNCHANGED <<cliCrashes, forgotten>>
        BY <1>3, <2>1, <3>2, Zenon DEF RetryStep, RetryWrite, RetryRemove, RetryRead, observed
      <4> SUFFICES ASSUME ~(cliCrashes > 0), NEW i \in Item \ forgotten PROVE SoundItem(i)'
        BY <4>1, Zenon DEF SoundInv
      <4>2. SoundItem(i)
        BY <1>1, Zenon DEF SoundInv
      <4> QED
        BY <1>1, <1>3, <3>2, <4>2, SoundCommand, Zenon
    <3> QED
      BY <3>1, <3>2, Zenon
  <2> QED
    BY <2>1, <2>2, <2>3, Zenon DEF RetryInv
<1>4. CASE RetryNext /\ ~RetryStep
  <2>1. /\ Next /\ UNCHANGED <<cli, retries, cliCrashes>>
        /\ raced' = (\/ raced
                     \/ cli.pc = "remove" /\ crashes' # crashes
                     \/ cli.pc = "remove" /\ cli.item = cur /\ pc = "write" /\ dst = "dead")
    BY <1>4, Zenon DEF RetryNext
  <2>2. /\ raced => raced'
        /\ cli.pc = "remove" /\ crashes' # crashes => raced'
        /\ cli.pc = "remove" /\ cli.item = cur /\ pc = "write" /\ dst = "dead" => raced'
    BY <2>1, Zenon
  <2> QED
    BY <1>2, <2>1, <2>2, Zenon
<1>5. CASE UNCHANGED retryVars
  <2>1. UNCHANGED <<vars, disk, pc, cur, accepted, forgotten, recorded, cli, cliCrashes, raced>>
    BY <1>5, Zenon DEF retryVars, vars, local, observed
  <2>2. ServiceBase' /\ CliOK'
    BY <1>1, <2>1, RetryLook, Zenon DEF CliOK
  <2>3. Safe => Safe'
    BY <2>1, Zenon DEF Safe, NoLostItem, onDisk, exists, Retrying
  <2>4. \A i \in Item : SoundItem(i) => SoundItem(i)'
    BY <2>1, SoundSame, Zenon
  <2> QED
    BY <1>1, <2>1, <2>2, <2>3, <2>4, Zenon DEF RetryInv, RetryBase, KeepInv, SoundInv
<1> QED
  BY <1>3, <1>4, <1>5, Zenon

\* The invariant holds in every state the service and the command reach.
THEOREM RetryInvariance == RetrySpec => []RetryInv
BY RetryInitInv, RetryNextInv, PTL DEF RetrySpec

\* An event that is retried by hand is not lost, whoever is killed, unless a kill
\* of the service or the last attempt falls between the two file operations of
\* Queue.Retry.
THEOREM RetriedItemIsKept == RetrySpec => []RetryKeepsItem
<1>1. RetryInv => RetryKeepsItem
  BY Zenon DEF RetryInv, KeepInv, Safe, RetryKeepsItem
<1> QED
  BY <1>1, RetryInvariance, PTL

\* A retry does not send again to a target whose success is in the ledger.
THEOREM RetryIsNotResent == RetrySpec => RetryNoResend
<1> DEFINE Same == \A i \in Item, t \in Target :
                     sends'[i][t] # sends[i][t] =>
                       t \notin recorded[i] \/ i \in forgotten \/ cliCrashes > 0
<1>1. RetryInv /\ [RetryNext]_retryVars => [Same]_retryVars
  <2> SUFFICES ASSUME RetryInv, RetryNext, NEW i \in Item \ forgotten, NEW t \in Target,
                      sends'[i][t] # sends[i][t], t \in recorded[i], ~(cliCrashes > 0)
               PROVE  FALSE
    OBVIOUS
  <2>1. RetryBase /\ CounterType /\ CurOK /\ OpenTargets /\ SoundItem(i)
    BY Zenon DEF RetryInv, RetryBase, ServiceBase, LocalBase, SoundInv
  <2>2. Next
    BY <2>1, CommandBase, Zenon DEF RetryNext, observed
  <2>3. SendLegacy \/ \E u \in Target : SendTarget(u)
    BY <2>2, SendOnly, Zenon
  <2>4. PICK u \in Target \cup {Legacy} :
          Send(u) /\ (u \in Target => SendTarget(u))
    BY <2>3, ServiceAssumption, ZenonT(30) DEF SendLegacy, SendTarget
  <2>5. sends' = [sends EXCEPT ![cur][u] = @ + 1]
    BY <2>4, Zenon DEF Send
  <2>6. cur = i /\ u = t
    BY <2>1, <2>5, Zenon DEF CounterType
  <2>7. /\ seen("inflight", i) /\ mem.ledger = disk["inflight"][i].ledger
        /\ mem.ledger[t].state = "pending"
    BY <2>1, <2>4, <2>6, Zenon DEF SendTarget, CurOK, OpenTargets, Handling, pendingTargets, seen
  <2>8. disk["inflight"][i].ledger[t].state = "succeeded"
    BY <2>1, <2>7, Zenon DEF SoundItem, Dir
  <2> QED
    BY <2>7, <2>8, Zenon
<1> QED
  BY <1>1, RetryInvariance, PTL DEF RetrySpec, RetryNoResend

=============================================================================
