------------------------------- MODULE Service -------------------------------
(***************************************************************************)
(* The background service (service/service.go, service/processor.go): one  *)
(* process that repairs the spool when it starts, then claims one item at  *)
(* a time and delivers it.  Every file operation is a step of its own, and *)
(* the process can be killed between any two steps.                        *)
(*                                                                         *)
(* The configuration, the settings and the answers of the sender are       *)
(* inputs: a step takes any branch some value of them selects.  An attempt *)
(* that reaches the sender counts in sends, whatever the sender answers.   *)
(***************************************************************************)
EXTENDS Queue

CONSTANTS
  Poll,           \* service.PollInterval
  QuietUntil,     \* end of the quiet-hours window, which is open from the start
  MaxDead,        \* maximumDeadItems
  MaxCrashes,     \* bound: kills and stops of the service
  MaxFaults,      \* bound: failed file operations
  Legacy          \* the default channel of an item without a ledger

ASSUME ServiceAssumption ==
  /\ Poll \in Nat \ {0}
  /\ QuietUntil \in Nat
  /\ MaxDead \in Nat
  /\ MaxCrashes \in Nat
  /\ MaxFaults \in Nat
  /\ Legacy \notin Target

VARIABLES
  pc,         \* where the service is
  scan,       \* inflight items RecoverExpired has listed and not yet handled
  cur,        \* the item being handled
  mem,        \* its envelope in memory
  at,         \* the now that RecoverExpired or ProcessOne was called with
  todo,       \* ready targets the fan-out loop has not handled
  result,     \* the target just sent to and the sender's answer
  dst,        \* destination of the transition out of inflight
  accepted,   \* history: items whose emit reported success
  forgotten,  \* history: items removed by the retention rules
  recorded,   \* history: per item, the targets whose success reached the disk
  sends,      \* history: messages handed to the sender
  crashes,    \* history: kills and stops so far
  faults      \* history: failed file operations so far

local == <<pc, scan, cur, mem, at, todo, result, dst>>
observed == <<accepted, forgotten, recorded, sends, crashes, faults>>
vars == <<disk, now, local, observed>>

Running == {"recover", "recoverRemove", "cleanupHistory", "cleanupDead",
            "idle", "claimRemove", "load", "legacyRecord", "deliver",
            "failing", "dropping", "record", "write", "remove"}
Outcome == {"ok", "retry", "permanent"}
NoResult == [target |-> Legacy, outcome |-> "ok"]

Init ==
  /\ disk = [d \in Dir |-> [i \in Item |-> None]]
  /\ now = 1
  /\ pc = "down" /\ scan = {} /\ cur = NoItem /\ mem = NewEnvelope
  /\ at = ZeroTime /\ todo = {} /\ result = NoResult /\ dst = "history"
  /\ accepted = {} /\ forgotten = {}
  /\ recorded = [i \in Item |-> {}]
  /\ sends = [i \in Item |-> [t \in Target \cup {Legacy} |-> 0]]
  /\ crashes = 0 /\ faults = 0

-----------------------------------------------------------------------------
\* Steps of the environment.

\* Enqueue of a new key, seen from the service: the file appears in pending.
Emit(i) ==
  /\ i \notin accepted
  /\ \A j \in Item : j < i => j \in accepted
  /\ write("pending", i, NewEnvelope)
  /\ accepted' = accepted \cup {i}
  /\ UNCHANGED <<now, local, forgotten, recorded, sends, crashes, faults>>

\* Time matters only while some stored time is ahead of it: with none ahead,
\* every comparison in the code has the same answer at every later time.
Ahead(envelope) ==
  \/ envelope.next > now
  \/ envelope.lease > now
  \/ \E t \in Target : envelope.ledger[t].next > now

Tick ==
  /\ \/ QuietUntil > now
     \/ \E d \in Dir, i \in Item : exists(d, i) /\ Ahead(disk[d][i])
  /\ now' = now + 1
  /\ UNCHANGED <<disk, local, observed>>

-----------------------------------------------------------------------------
\* Helpers: memory is reset whenever a handler returns.

Goto(where) ==
  /\ pc' = where /\ scan' = {} /\ cur' = NoItem /\ mem' = NewEnvelope
  /\ at' = ZeroTime /\ todo' = {} /\ result' = NoResult
  /\ dst' = "history"

Fault ==
  /\ faults < MaxFaults
  /\ faults' = faults + 1
  /\ UNCHANGED <<accepted, forgotten, recorded, sends, crashes>>

Down ==
  /\ crashes < MaxCrashes
  /\ crashes' = crashes + 1
  /\ Goto("down")
  /\ UNCHANGED <<disk, now, accepted, forgotten, recorded, sends, faults>>

\* Memory while cur is handled; the transition's envelope is mem itself.
Hold(where, envelope, targets, answer, destination) ==
  /\ pc' = where /\ mem' = envelope /\ todo' = targets /\ result' = answer
  /\ dst' = destination
  /\ UNCHANGED <<scan, cur, at>>

Move(envelope, destination) == Hold("write", envelope, {}, NoResult, destination)

\* Mutant: the name of the state is taken for the name of its directory.
AckIntoState == Move(ackEnvelope(mem), "succeeded")

Ack == Move(ackEnvelope(mem), "history")

Nack(permanent) ==
  Move(nackEnvelope(mem, permanent, at),
       IF nackIsFinal(mem, permanent) THEN "dead" ELSE "pending")

Defer(nextAttemptAt) ==
  /\ nextAttemptAt > at
  /\ Move(deferEnvelope(mem, nextAttemptAt), "pending")

\* finishResolvedItem, on the envelope held in memory.
DueTimes(l) ==
  {IF l[t].next > at THEN l[t].next ELSE at + Poll :
     t \in pendingTargets(l)}

\* Mutant: the item is acknowledged while targets are pending.
finishAlwaysAcks == Ack

finishResolvedItem ==
  IF deliveryLedgerTerminal(mem.ledger)
  THEN Ack
  ELSE \E next \in DueTimes(mem.ledger) :
         /\ \A other \in DueTimes(mem.ledger) : next <= other
         /\ Defer(next)

-----------------------------------------------------------------------------
\* Run: start, repair, retention.

Start ==
  /\ pc = "down"
  /\ pc' = "recover" /\ scan' = inDirectory("inflight") /\ at' = now
  /\ UNCHANGED <<disk, now, cur, mem, todo, result, dst, observed>>

\* Mutant: the inflight copy is removed without looking for another.
RecoverRepairUnchecked(i) ==
  /\ pc = "recover" /\ isFirst(i, scan)
  /\ remove("inflight", i)
  /\ scan' = scan \ {i}
  /\ UNCHANGED <<now, pc, cur, mem, at, todo, result, dst, observed>>

RecoverRepair(i) ==
  /\ pc = "recover" /\ isFirst(i, scan)
  /\ completedTransition(i)
  /\ remove("inflight", i)
  /\ scan' = scan \ {i}
  /\ UNCHANGED <<now, pc, cur, mem, at, todo, result, dst, observed>>

RecoverSkip(i) ==
  /\ pc = "recover" /\ isFirst(i, scan)
  /\ ~completedTransition(i)
  /\ disk["inflight"][i].lease > at
  /\ scan' = scan \ {i}
  /\ UNCHANGED <<disk, now, pc, cur, mem, at, todo, result, dst,
                 observed>>

RecoverWrite(i) ==
  /\ pc = "recover" /\ isFirst(i, scan)
  /\ ~completedTransition(i)
  /\ disk["inflight"][i].lease <= at
  /\ write("pending", i, recoverEnvelope(disk["inflight"][i]))
  /\ pc' = "recoverRemove" /\ cur' = i /\ scan' = scan \ {i}
  /\ UNCHANGED <<now, mem, at, todo, result, dst, observed>>

RecoverRemove ==
  /\ pc = "recoverRemove"
  /\ remove("inflight", cur)
  /\ pc' = "recover" /\ cur' = NoItem
  /\ UNCHANGED <<now, scan, mem, at, todo, result, dst, observed>>

\* Mutant: the loop over the inflight items ends early.
RecoverDoneEarly ==
  /\ pc = "recover"
  /\ Goto("cleanupHistory")
  /\ UNCHANGED <<disk, now, observed>>

RecoverDone ==
  /\ pc = "recover" /\ scan = {}
  /\ Goto("cleanupHistory")
  /\ UNCHANGED <<disk, now, observed>>

Forget(d, old) ==
  /\ disk' = [disk EXCEPT ![d] = [i \in Item |-> IF i \in old THEN None
                                                 ELSE disk[d][i]]]
  /\ forgotten' = forgotten \cup old
  /\ UNCHANGED <<now, accepted, recorded, sends, crashes, faults>>

\* Retention is far longer than anything else here: any set may be old.
CleanupHistory ==
  /\ pc = "cleanupHistory"
  /\ \E old \in SUBSET inDirectory("history") : Forget("history", old)
  /\ Goto("cleanupDead")

CleanupDead ==
  /\ pc = "cleanupDead"
  /\ \E old \in SUBSET inDirectory("dead") :
       Forget("dead", old \cup excessDead(MaxDead))
  /\ Goto("idle")

-----------------------------------------------------------------------------
\* Claim.

\* The inflight name is taken: drop the pending copy and go on.
ClaimDrop(i) ==
  /\ pc = "idle" /\ isFirst(i, claimable)
  /\ exists("inflight", i)
  /\ remove("pending", i)
  /\ UNCHANGED <<now, local, observed>>

ClaimWrite(i) ==
  /\ pc = "idle" /\ isFirst(i, claimable)
  /\ ~exists("inflight", i)
  /\ write("inflight", i, claimEnvelope(disk["pending"][i]))
  /\ pc' = "claimRemove" /\ cur' = i /\ at' = now
  /\ mem' = claimEnvelope(disk["pending"][i])
  /\ UNCHANGED <<now, scan, todo, result, dst, observed>>

ClaimRemove ==
  /\ pc = "claimRemove"
  /\ remove("pending", cur)
  /\ pc' = "load"
  /\ UNCHANGED <<now, scan, cur, mem, at, todo, result, dst, observed>>

-----------------------------------------------------------------------------
\* ProcessOne after the claim.

\* failItem: no usable configuration, settings, policy, channel or sender.
FailItem ==
  /\ pc = "load"
  /\ IF HasLedger(mem.ledger)
     THEN Hold("failing", mem, readyTargets(mem.ledger, at), NoResult,
               dst)
     ELSE Nack(FALSE)
  /\ UNCHANGED <<disk, now, observed>>

\* Nothing to send: the event or the policy is disabled, or quiet hours drop.
Suppress ==
  /\ pc = "load"
  /\ ~HasLedger(mem.ledger)
  /\ Ack
  /\ UNCHANGED <<disk, now, observed>>

Send(t) ==
  /\ sends' = [sends EXCEPT ![cur][t] = @ + 1]
  /\ UNCHANGED <<disk, now, accepted, forgotten, recorded, crashes, faults>>

\* processLegacy: the sender answers, and only then Ack or Nack begins.
SendLegacy ==
  /\ pc = "load"
  /\ ~HasLedger(mem.ledger)
  /\ \E outcome \in Outcome :
       Hold("legacyRecord", mem, {},
            [target |-> Legacy, outcome |-> outcome], dst)
  /\ Send(Legacy)

LegacyRecord ==
  /\ pc = "legacyRecord"
  /\ IF result.outcome = "ok" THEN Ack
     ELSE Nack(result.outcome = "permanent")
  /\ UNCHANGED <<disk, now, observed>>

\* Quiet hours with action drop, on an item that has a ledger.
QuietDrop ==
  /\ pc = "load"
  /\ HasLedger(mem.ledger)
  /\ at < QuietUntil
  /\ Hold("dropping", mem, pendingTargets(mem.ledger), NoResult, dst)
  /\ UNCHANGED <<disk, now, observed>>

\* Mutant: the fan-out takes every pending target, due or not.
AfterResolveUndue(envelope) ==
  Hold("deliver", envelope, pendingTargets(envelope.ledger), NoResult, dst)

\* processM2 after ResolveTargets: defer in quiet hours, otherwise fan out.
AfterResolve(envelope) ==
  \/ /\ at < QuietUntil
     /\ IF deliveryLedgerTerminal(envelope.ledger)
        THEN Move(ackEnvelope(envelope), "history")
        ELSE Move(deferEnvelope(envelope, QuietUntil), "pending")
  \/ \E loop \in {"deliver", "failing"} :
       Hold(loop, envelope, readyTargets(envelope.ledger, at), NoResult,
            dst)

ResolveNew(T) ==
  /\ pc = "load"
  /\ ~HasLedger(mem.ledger)
  /\ T # {}
  /\ LET resolved == [mem EXCEPT !.ledger = newDeliveryLedger(T)]
     IN  write("inflight", cur, resolved) /\ AfterResolve(resolved)
  /\ UNCHANGED <<now, observed>>

ResolveAgain ==
  /\ pc = "load"
  /\ HasLedger(mem.ledger)
  /\ AfterResolve(mem)
  /\ UNCHANGED <<disk, now, observed>>

SendTarget(t) ==
  /\ pc = "deliver" /\ t \in todo
  /\ \E outcome \in Outcome :
       Hold("record", mem, todo \ {t},
            [target |-> t, outcome |-> outcome], dst)
  /\ Send(t)

\* updateTarget: the new ledger replaces the inflight file, then memory.
UpdateTarget(t, entry, where) ==
  LET updated == [mem EXCEPT !.ledger[t] = entry]
  IN  /\ write("inflight", cur, updated)
      /\ Hold(where, updated, todo \ {t}, NoResult, dst)

RecordTarget ==
  /\ pc = "record"
  /\ LET t == result.target
         e == mem.ledger[t]
     IN  IF result.outcome = "ok"
         THEN /\ UpdateTarget(t, AckEntry(e), "deliver")
              /\ recorded' = [recorded EXCEPT ![cur] = @ \cup {t}]
         ELSE /\ UpdateTarget(t, failTarget(e, result.outcome = "permanent",
                                            at), "deliver")
              /\ UNCHANGED recorded
  /\ UNCHANGED <<now, accepted, forgotten, sends, crashes, faults>>

\* A target that cannot be sent to: its channel, template or text is missing,
\* or the whole item failed (failResolvedTargets).
FailTarget(t) ==
  /\ pc \in {"deliver", "failing"} /\ t \in todo
  /\ UpdateTarget(t, failTarget(mem.ledger[t], FALSE, at), pc)
  /\ UNCHANGED <<now, observed>>

DropTarget(t) ==
  /\ pc = "dropping" /\ t \in todo
  /\ UpdateTarget(t, DeadEntry(mem.ledger[t]), "dropping")
  /\ UNCHANGED <<now, observed>>

Finish ==
  /\ todo = {}
  /\ \/ pc \in {"deliver", "failing"} /\ finishResolvedItem
     \/ pc = "dropping" /\ Ack
  /\ UNCHANGED <<disk, now, observed>>

-----------------------------------------------------------------------------
\* The transition out of inflight: writeNew, then remove.

WriteDestination ==
  /\ pc = "write"
  /\ IF exists(dst, cur)
     THEN Goto("idle") /\ UNCHANGED disk
     ELSE /\ write(dst, cur, mem)
          /\ pc' = "remove"
          /\ UNCHANGED <<scan, cur, mem, at, todo, result, dst>>
  /\ UNCHANGED <<now, observed>>

RemoveSource ==
  /\ pc = "remove"
  /\ remove("inflight", cur)
  /\ Goto("idle")
  /\ UNCHANGED <<now, observed>>

-----------------------------------------------------------------------------
\* Interruptions: a failed file operation, a stop, a kill.

\* Claim, ResolveTargets, the drop loop and the last transition give up on the
\* item and return to the poll loop; it keeps its inflight file.
GiveUp ==
  /\ \/ pc \in {"claimRemove", "write", "remove"}
     \/ pc = "load" /\ ~HasLedger(mem.ledger)
     \/ pc = "dropping" /\ todo # {}
  /\ Fault /\ Goto("idle")
  /\ UNCHANGED <<disk, now>>

\* The fan-out loop goes on with the next target, its memory unchanged.
RecordFault ==
  /\ pc = "record"
  /\ Fault /\ Hold("deliver", mem, todo, NoResult, dst)
  /\ UNCHANGED <<disk, now>>

FailTargetFault(t) ==
  /\ pc \in {"deliver", "failing"} /\ t \in todo
  /\ Fault /\ Hold(pc, mem, todo \ {t}, NoResult, dst)
  /\ UNCHANGED <<disk, now>>

\* RecoverExpired ignores a copy it cannot remove...
RepairFault(i) ==
  /\ pc = "recover" /\ isFirst(i, scan)
  /\ completedTransition(i)
  /\ Fault /\ scan' = scan \ {i}
  /\ UNCHANGED <<disk, now, pc, cur, mem, at, todo, result, dst>>

\* ...but a transition it cannot make, or a file the retention rules cannot
\* remove, ends Run.
StartupFault ==
  /\ pc \in {"recover", "recoverRemove", "cleanupHistory", "cleanupDead"}
  /\ Fault /\ Goto("down")
  /\ UNCHANGED <<disk, now>>

\* The loop looks at its context only when there was nothing to claim.
Stop ==
  /\ pc = "idle" /\ claimable = {}
  /\ Down

Crash ==
  /\ pc # "down"
  /\ Down

-----------------------------------------------------------------------------
Startup ==
  \/ Start \/ RecoverRemove \/ RecoverDone \/ CleanupHistory \/ CleanupDead
  \/ \E i \in Item : RecoverRepair(i) \/ RecoverSkip(i) \/ RecoverWrite(i)

ProcessOne ==
  \/ \E i \in Item : ClaimDrop(i) \/ ClaimWrite(i)
  \/ ClaimRemove
  \/ FailItem \/ Suppress \/ SendLegacy \/ LegacyRecord
  \/ QuietDrop \/ ResolveAgain \/ \E T \in SUBSET Target : ResolveNew(T)
  \/ RecordTarget
  \/ \E t \in Target : SendTarget(t) \/ FailTarget(t) \/ DropTarget(t)
  \/ Finish \/ WriteDestination \/ RemoveSource

Interruption ==
  \/ GiveUp \/ RecordFault \/ StartupFault \/ Stop \/ Crash
  \/ \E t \in Target : FailTargetFault(t)
  \/ \E i \in Item : RepairFault(i)

Next ==
  \/ \E i \in Item : Emit(i)
  \/ Tick \/ Startup \/ ProcessOne \/ Interruption

Spec == Init /\ [][Next]_vars

\* The poll loop keeps going, the service manager restarts the service, and
\* time passes.
FairSpec ==
  Spec /\ WF_vars(Startup) /\ WF_vars(ProcessOne) /\ WF_vars(Tick)
-----------------------------------------------------------------------------
\* Type correctness.
TypeOK ==
  /\ disk \in [Dir -> [Item -> Envelope \cup {None}]]
  /\ now \in Nat
  /\ pc \in Running \cup {"down"}
  /\ scan \subseteq Item
  /\ cur \in Item \cup {NoItem}
  /\ mem \in Envelope
  /\ at \in Nat
  /\ todo \subseteq Target
  /\ result \in [target : Target \cup {Legacy}, outcome : Outcome]
  /\ dst \in {"pending", "history", "dead"}
  /\ accepted \subseteq Item
  /\ forgotten \subseteq Item
  /\ recorded \in [Item -> SUBSET Target]
  /\ sends \in [Item -> [Target \cup {Legacy} -> Nat]]
  /\ crashes \in Nat
  /\ faults \in Nat

\* An event whose emit reported success keeps a file in one of the four
\* directories, through kills and failed file operations between the two
\* halves of any transition and through the repair at the next start, until
\* the retention rules remove it from history or dead.
NoLostItem == \A i \in accepted \ forgotten : onDisk(i)

\* Every copy of an item that is still on disk remembers every success that
\* AckTarget has written, so the repair of duplicate copies in RecoverExpired
\* and in Claim may keep either one.
RecordedSuccessDurable ==
  \A i \in Item, d \in Dir :
    exists(d, i) =>
      \A t \in recorded[i] : disk[d][i].ledger[t].state = "succeeded"

\* Fan-out never hands a message to a target whose success is already in the
\* ledger on disk, whatever was interrupted since.
NoResend ==
  [][\A i \in Item, t \in Target :
       sends'[i][t] # sends[i][t] => t \notin recorded[i]]_vars

\* A target, or the default channel of a legacy item, is sent to at most once
\* per entry of the backoff, plus once for every interruption that lost the
\* record of an attempt.
BoundedSends ==
  \A i \in Item : \A t \in Target \cup {Legacy} :
    sends[i][t] <= Len(Backoff) + crashes + faults

\* A send to a target happens only when the time stored for its next attempt
\* has come and the inflight file holds the ledger the send was decided on.
SendsAreDue ==
  [][\A i \in Item, t \in Target :
       sends'[i][t] # sends[i][t] =>
         /\ exists("inflight", i)
         /\ t \in readyTargets(disk["inflight"][i].ledger, now)]_vars

\* When RecoverExpired has gone through the inflight directory without a
\* failed removal, no item has two copies left and every inflight item is
\* under a lease that had not run out when the service started.
RepairComplete ==
  [][pc = "recover" /\ pc' = "cleanupHistory" /\ faults = 0 =>
       \A i \in inDirectory("inflight") :
         ~completedTransition(i) /\ disk["inflight"][i].lease > at]_vars

\* An item reaches history only with every target decided, and the dead
\* directory only without a ledger: a fan-out that failed is kept, target by
\* target, in history.
SettledItems ==
  \A i \in Item :
    /\ exists("history", i) =>
         deliveryLedgerTerminal(disk["history"][i].ledger)
    /\ exists("dead", i) => ~HasLedger(disk["dead"][i].ledger)

\* The fault matrix: an item of a service that died after its claim becomes
\* pending again once the lease has run out.
CrashedClaimRecovers ==
  \A i \in Item :
    exists("inflight", i) ~> (~exists("inflight", i) \/ exists("pending", i))
=============================================================================
