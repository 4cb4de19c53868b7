------------------------------- MODULE Binding -------------------------------
(***************************************************************************)
(* The channels of config.json and the codes that bind one.  `bind create` *)
(* makes a code, the user sends it to a chat, `bind complete` claims it    *)
(* (binding/store.go), finds the chat (binding/discovery.go), adds the     *)
(* channel (config/channels.go) and commits the code (app/bind.go).        *)
(* `settings channel` changes channels under the same lock, `setup` and    *)
(* `service install` rewrite config.json under none.                       *)
(*                                                                         *)
(* A channel is named by its chat: its ID is the hash of the chat's ID.    *)
(* Its display name is the code that bound it, or "own".  The revision of  *)
(* config.json is the hash of its contents: here, they.                    *)
(***************************************************************************)
EXTENDS Naturals, FiniteSets, Functions, StorageLock

CONSTANTS
  Code,        \* binding codes
  Chat,        \* chats a code can be sent to
  Feishu,      \* the channel `setup` writes
  Process,     \* command lines, each runs one command
  None,
  MaxFaults,   \* bound: calls that fail
  MaxKills     \* bound: processes killed

\* The record of a code, and what config.json holds of the channels.
Record == [claim : Process \cup {None}, lease : {"none", "runs", "over"},
           fate : {"open", "cancelled", "consumed"}]
Config == [channels : UNION {[S -> Code \cup {"own"}] : S \in SUBSET (Chat \cup {Feishu})},
           default : Chat \cup {Feishu}]

ASSUME BindingAssumption ==
  /\ MaxFaults \in Nat /\ MaxKills \in Nat
  /\ Feishu \notin Chat /\ "own" \notin Code
  /\ None \notin Code \cup Chat \cup Process \cup Record /\ None \notin Config
  /\ NoLock \notin [owner : Process, old : BOOLEAN]

VARIABLES
  pending, inflight, history,  \* per code: its record in that directory, or None
  expired,    \* codes whose lifetime is over
  posted,     \* per code: the chats it was sent to
  config,     \* config.json: the channels and the default, or None
  lock,       \* per code its record's lock, and "config"
  process,    \* per process: where it is and its variables
  bound,      \* history: per code the processes that reported it bound
  boundTo,    \* history: per code the chat it was committed for, or None
  saved,      \* history: chats whose channel a locked writer has saved ...
  deleted,    \* history: ... and those a later `channel remove` has deleted
  dropped,    \* history: ... or a writer without the lock has overwritten
  stolen,     \* history: locks that were removed as stale when they were not
  faults, kills

records == <<pending, inflight, history>>
ghosts == <<bound, boundTo, saved, deleted, dropped, stolen>>
world == <<expired, posted>>
vars == <<records, world, config, lock, process, ghosts, faults, kills>>

\* The channels with one more, or one replaced.
named(c, name) == [x \in {c} |-> name]
with(channels, c, name) ==
  [x \in {c} \cup DOMAIN channels |-> IF x = c THEN name ELSE channels[x]]

NewRecord == [claim |-> None, lease |-> "none", fate |-> "open"]
NoProcess == [pc |-> "free", code |-> None, change |-> None, before |-> None,
              then |-> None]

Init ==
  /\ pending = [k \in Code |-> None] /\ inflight = pending /\ history = pending
  /\ expired = {} /\ posted = [k \in Code |-> {}]
  /\ config \in {None, [channels |-> named(Feishu, "own"), default |-> Feishu]}
  /\ lock = [l \in Code \cup {"config"} |-> NoLock]
  /\ process = [p \in Process |-> NoProcess]
  /\ bound = [k \in Code |-> {}] /\ boundTo = pending
  /\ saved = {} /\ deleted = {} /\ dropped = {} /\ stolen = {}
  /\ faults = 0 /\ kills = 0

at(p, pc) == process[p].pc = pc
codeOf(p) == process[p].code
Over == {"free", "ok", "error", "dead"}
goes(p, pc) ==
  process' = [process EXCEPT ![p] = IF pc \in Over THEN [NoProcess EXCEPT !.pc = pc]
                                    ELSE [@ EXCEPT !.pc = pc]]
Fault == faults < MaxFaults /\ faults' = faults + 1
Locks(p, l) == ~isHeld(lock, l) /\ lock' = created(lock, l, p)
Unlocks(p, l) == lock' = released(lock, l, p)
Channels == IF config = None THEN {} ELSE DOMAIN config.channels

-----------------------------------------------------------------------------
\* The user, time, and the start of a command.

\* bind create, also from setup: an exclusive write of a new pending record.
Create(k) ==
  /\ pending[k] = None /\ inflight[k] = None /\ history[k] = None
  /\ pending' = [pending EXCEPT ![k] = NewRecord]
  /\ UNCHANGED <<inflight, history, world, config, lock, process, ghosts, faults, kills>>

\* The user sends the code to a chat.
Post(k, c) ==
  /\ \E dir \in {pending, inflight} : dir[k] # None
  /\ k \notin expired /\ c \notin posted[k]
  /\ posted' = [posted EXCEPT ![k] = @ \cup {c}]
  /\ UNCHANGED <<records, expired, config, lock, process, ghosts, faults, kills>>

Expire(k) ==
  /\ k \notin expired /\ history[k] = None /\ \E dir \in {pending, inflight} : dir[k] # None
  /\ expired' = expired \cup {k}
  /\ UNCHANGED <<records, posted, config, lock, process, ghosts, faults, kills>>

\* The two minutes of a claim pass.
LeaseEnds(k) ==
  /\ inflight[k] # None /\ inflight[k].lease = "runs"
  /\ inflight' = [inflight EXCEPT ![k].lease = "over"]
  /\ UNCHANGED <<pending, history, world, config, lock, process, ghosts, faults, kills>>

begins(p, start) ==
  /\ at(p, "free")
  /\ process' = [process EXCEPT ![p] = start]
  /\ UNCHANGED <<records, world, config, lock, ghosts, faults, kills>>

runBindComplete(p, k) == begins(p, [NoProcess EXCEPT !.pc = "claim", !.code = k])
runBindCancel(p, k) == begins(p, [NoProcess EXCEPT !.pc = "cancel", !.code = k])
runSettingsChannel(p, change) ==
  begins(p, [NoProcess EXCEPT !.pc = "apply", !.change = change])

-----------------------------------------------------------------------------
\* binding/store.go: Claim, under the lock of the code's record.

cleared(record) == [record EXCEPT !.claim = None, !.lease = "none"]

\* recoverExpiredFile: a claim whose lease is over is dropped, with the record
\* if the code is consumed, else by a rewrite ...
Claim(p) ==
  LET k == codeOf(p)
      over == inflight[k] # None /\ inflight[k].lease = "over"
  IN
  /\ at(p, "claim")
  /\ Locks(p, k)
  /\ inflight' = IF ~over THEN inflight
                 ELSE IF history[k] # None THEN [inflight EXCEPT ![k] = None]
                 ELSE [inflight EXCEPT ![k] = cleared(@)]
  /\ goes(p, IF over /\ history[k] = None THEN "recoverMove" ELSE "claimMove")
  /\ UNCHANGED <<pending, history, world, config, ghosts, faults, kills>>

\* ... and a rename.
recoverExpiredFile(p) ==
  LET k == codeOf(p) IN
  /\ at(p, "recoverMove")
  /\ \/ /\ inflight[k] # None
        /\ pending' = [pending EXCEPT ![k] = inflight[k]]
        /\ inflight' = [inflight EXCEPT ![k] = None]
        /\ goes(p, "claimMove")
        /\ UNCHANGED lock
     \/ /\ inflight[k] = None
        /\ goes(p, "error") /\ Unlocks(p, k)
        /\ UNCHANGED <<pending, inflight>>
  /\ UNCHANGED <<history, world, config, ghosts, faults, kills>>

\* The record is moved first and claimed where it then is.
ClaimMove(p) ==
  LET k == codeOf(p) IN
  /\ at(p, "claimMove")
  /\ IF pending[k] = None
     THEN /\ goes(p, "error") /\ Unlocks(p, k)
          /\ UNCHANGED <<pending, inflight>>
     ELSE /\ inflight' = [inflight EXCEPT ![k] = pending[k]]
          /\ pending' = [pending EXCEPT ![k] = None]
          /\ goes(p, "claimWrite")
          /\ UNCHANGED lock
  /\ UNCHANGED <<history, world, config, ghosts, faults, kills>>

\* A cancelled record stays where it is; an expired one, or one that cannot be
\* written, is moved back.
ClaimWrite(p) ==
  LET k == codeOf(p)
      missing == inflight[k] = None
      cancelled == inflight[k].fate = "cancelled"
      back == /\ pending' = [pending EXCEPT ![k] = inflight[k]]
              /\ inflight' = [inflight EXCEPT ![k] = None]
              /\ goes(p, "error")
  IN
  /\ at(p, "claimWrite")
  /\ Unlocks(p, k)
  /\ \/ /\ missing \/ cancelled
        /\ goes(p, "error")
        /\ UNCHANGED <<pending, inflight, faults>>
     \/ /\ ~missing /\ ~cancelled /\ k \in expired /\ back
        /\ UNCHANGED faults
     \/ /\ ~missing /\ ~cancelled /\ k \notin expired
        /\ inflight' = [inflight EXCEPT ![k].claim = p, ![k].lease = "runs"]
        /\ goes(p, "discover")
        /\ UNCHANGED <<pending, faults>>
     \/ /\ ~missing /\ ~cancelled /\ k \notin expired /\ Fault /\ back
  /\ UNCHANGED <<history, world, config, ghosts, kills>>

-----------------------------------------------------------------------------
\* app/bind.go: from the claim to the channel.

\* Mutant: any of the chats the code was found in.
anyDestination(k) == posted[k]

\* The chats to choose from: the code must have been found in exactly one.
uniqueExactDestination(k) == IF Cardinality(posted[k]) = 1 THEN posted[k] ELSE {}

\* config.json is read, the code is searched for and a message sent.  A search
\* or a message that fails, or no single chat, gives the code back.
DiscoverAndVerify(p) ==
  LET k == codeOf(p) IN
  /\ at(p, "discover")
  /\ \/ \E c \in uniqueExactDestination(k) :
          /\ process' = [process EXCEPT
               ![p].pc = IF config = None THEN "initialize" ELSE "apply",
               ![p].change = [op |-> "add", channel |-> c, name |-> k, default |-> FALSE]]
          /\ UNCHANGED faults
     \/ /\ uniqueExactDestination(k) = {} /\ goes(p, "release")
        /\ UNCHANGED faults
     \/ Fault /\ goes(p, "release")
  /\ UNCHANGED <<records, world, config, lock, ghosts, kills>>

isBind(p) == codeOf(p) # None
failed(p) == IF isBind(p) THEN "release" ELSE "error"
ended(p) == IF isBind(p) THEN "commit" ELSE "ok"

\* Initialize publishes a first config.json by a hard link: an existing file is
\* never replaced.
Initialize(p) ==
  LET c == process[p].change.channel IN
  /\ at(p, "initialize") /\ ~isHeld(lock, "config")
  /\ IF config = None
     THEN /\ config' = [channels |-> named(c, codeOf(p)), default |-> c]
          /\ saved' = saved \cup {c} /\ deleted' = deleted \ {c}
          /\ dropped' = dropped \ {c}
          /\ goes(p, "commit")
     ELSE /\ goes(p, "apply")
          /\ UNCHANGED <<config, saved, deleted, dropped>>
  /\ UNCHANGED <<records, world, lock, bound, boundTo, stolen, faults, kills>>

\* applyChannelChange: what it refuses ...
applicable(value, change) ==
  LET channels == DOMAIN value.channels IN
  CASE change.op = "add" -> change.channel \notin channels
    [] change.op = "remove" ->
         /\ change.channel \in channels /\ Cardinality(channels) > 1
         /\ IF value.default = change.channel
            THEN change.replacement \in channels \ {change.channel}
            ELSE change.replacement = None
    [] OTHER -> change.channel \in channels

\* ... and what it makes of config.json.
applyChannelChange(value, change) ==
  LET c == change.channel
      channels == value.channels IN
  CASE change.op = "add" ->
         [channels |-> with(channels, c, change.name),
          default |-> IF change.default THEN c ELSE value.default]
    [] change.op = "rename" -> [value EXCEPT !.channels[c] = "own"]
    [] change.op = "remove" ->
         [channels |-> Restrict(channels, DOMAIN channels \ {c}),
          default |-> IF value.default = c THEN change.replacement ELSE value.default]
    [] change.op = "default" -> [value EXCEPT !.default = c]

\* Mutant: the transaction does not take the lock.
ApplyUnlocked(p) ==
  /\ at(p, "apply") /\ config # None /\ applicable(config, process[p].change)
  /\ process' = [process EXCEPT ![p].pc = "compare", ![p].before = config]
  /\ UNCHANGED <<records, world, config, lock, ghosts, faults, kills>>

\* Apply: read and change under the lock.  For a bind, a channel that exists is
\* looked at again.
Apply(p) ==
  LET change == process[p].change IN
  /\ at(p, "apply") /\ ~isHeld(lock, "config")
  /\ \/ /\ config # None /\ applicable(config, change)
        /\ Locks(p, "config")
        /\ process' = [process EXCEPT ![p].pc = "compare", ![p].before = config]
     \/ /\ IF config = None THEN TRUE ELSE ~applicable(config, change)
        /\ goes(p, IF isBind(p) /\ config # None THEN "exists" ELSE failed(p))
        /\ UNCHANGED lock
  /\ UNCHANGED <<records, world, config, ghosts, faults, kills>>

\* The compare before the write.
Compare(p) ==
  /\ at(p, "compare")
  /\ IF config = process[p].before
     THEN goes(p, "save") /\ UNCHANGED lock
     ELSE goes(p, failed(p)) /\ Unlocks(p, "config")
  /\ UNCHANGED <<records, world, config, ghosts, faults, kills>>

\* Mutant: a channel that cannot be saved does not stop the bind.
SaveForgiving(p) ==
  /\ at(p, "save")
  /\ Unlocks(p, "config")
  /\ goes(p, ended(p)) /\ Fault
  /\ UNCHANGED <<records, world, config, ghosts, kills>>

Save(p) ==
  LET change == process[p].change
      c == change.channel IN
  /\ at(p, "save")
  /\ Unlocks(p, "config")
  /\ \/ /\ config' = applyChannelChange(process[p].before, change)
        /\ saved' = IF change.op = "add" THEN saved \cup {c} ELSE saved
        /\ deleted' = IF change.op = "remove" THEN deleted \cup {c} ELSE deleted \ {c}
        /\ dropped' = IF change.op = "add" THEN dropped \ {c} ELSE dropped
        /\ goes(p, ended(p))
        /\ UNCHANGED faults
     \/ /\ Fault /\ goes(p, failed(p))
        /\ UNCHANGED <<config, saved, deleted, dropped>>
  /\ UNCHANGED <<records, world, bound, boundTo, stolen, kills>>

\* The existing channel is the one this code would have added.
Exists(p) ==
  LET c == process[p].change.channel IN
  /\ at(p, "exists")
  /\ goes(p, IF c \in Channels /\ config.channels[c] = codeOf(p) THEN "commit" ELSE "release")
  /\ UNCHANGED <<records, world, config, lock, ghosts, faults, kills>>

-----------------------------------------------------------------------------
\* binding/store.go: Commit, Release, Cancel.

\* The consumed record is linked into the history, which never replaces one ...
Commit(p) ==
  LET k == codeOf(p) IN
  /\ at(p, "commit") /\ ~isHeld(lock, k)
  /\ IF history[k] = None /\ inflight[k] # None /\ inflight[k].claim = p
     THEN /\ Locks(p, k)
          /\ history' = [history EXCEPT ![k] = [inflight[k] EXCEPT !.fate = "consumed"]]
          /\ boundTo' = [boundTo EXCEPT ![k] = process[p].change.channel]
          /\ goes(p, "commitRemove")
     ELSE /\ goes(p, "release")
          /\ UNCHANGED <<history, lock, boundTo>>
  /\ UNCHANGED <<pending, inflight, world, config, bound, saved, deleted, dropped, stolen,
                 faults, kills>>

\* ... before the inflight one is removed.
CommitRemove(p) ==
  LET k == codeOf(p) IN
  /\ at(p, "commitRemove")
  /\ Unlocks(p, k)
  /\ \/ /\ inflight' = [inflight EXCEPT ![k] = None]
        /\ bound' = [bound EXCEPT ![k] = @ \cup {p}]
        /\ goes(p, "ok")
        /\ UNCHANGED faults
     \/ /\ Fault /\ goes(p, "release")
        /\ UNCHANGED <<inflight, bound>>
  /\ UNCHANGED <<pending, history, world, config, boundTo, saved, deleted, dropped, stolen,
                 kills>>

\* The claim is taken out of the record ...
Release(p) ==
  LET k == codeOf(p) IN
  /\ at(p, "release") /\ ~isHeld(lock, k)
  /\ IF inflight[k] # None /\ inflight[k].claim = p
     THEN /\ Locks(p, k)
          /\ inflight' = [inflight EXCEPT ![k] = cleared(@)]
          /\ goes(p, "releaseMove")
     ELSE /\ goes(p, "error")
          /\ UNCHANGED <<inflight, lock>>
  /\ UNCHANGED <<pending, history, world, config, ghosts, faults, kills>>

\* ... and the record back to pending.
ReleaseMove(p) ==
  LET k == codeOf(p) IN
  /\ at(p, "releaseMove")
  /\ Unlocks(p, k)
  /\ goes(p, "error")
  /\ \/ /\ inflight[k] # None
        /\ pending' = [pending EXCEPT ![k] = inflight[k]]
        /\ inflight' = [inflight EXCEPT ![k] = None]
        /\ UNCHANGED faults
     \/ inflight[k] # None /\ Fault /\ UNCHANGED <<pending, inflight>>
     \/ inflight[k] = None /\ UNCHANGED <<pending, inflight, faults>>
  /\ UNCHANGED <<history, world, config, ghosts, kills>>

\* Cancel: only a pending code, by a rewrite and a rename.
Cancel(p) ==
  LET k == codeOf(p) IN
  /\ at(p, "cancel") /\ ~isHeld(lock, k)
  /\ IF /\ history[k] = None /\ inflight[k] = None
        /\ pending[k] # None /\ pending[k].fate = "open"
     THEN /\ Locks(p, k)
          /\ pending' = [pending EXCEPT ![k].fate = "cancelled"]
          /\ goes(p, "cancelMove")
     ELSE /\ goes(p, "error")
          /\ UNCHANGED <<pending, lock>>
  /\ UNCHANGED <<inflight, history, world, config, ghosts, faults, kills>>

CancelMove(p) ==
  LET k == codeOf(p) IN
  /\ at(p, "cancelMove")
  /\ Unlocks(p, k)
  /\ \/ /\ pending[k] # None
        /\ history' = [history EXCEPT ![k] = pending[k]]
        /\ pending' = [pending EXCEPT ![k] = None]
        /\ goes(p, "ok")
        /\ UNCHANGED faults
     \/ /\ \/ pending[k] # None /\ Fault
           \/ pending[k] = None /\ UNCHANGED faults
        /\ goes(p, "error")
        /\ UNCHANGED <<pending, history>>
  /\ UNCHANGED <<inflight, world, config, ghosts, kills>>

-----------------------------------------------------------------------------
\* The writers of config.json that take no lock.

\* setup: the selected chat becomes the channel Feishu of the config read ...
writeConfig(value) ==
  IF value = None THEN [channels |-> named(Feishu, "own"), default |-> Feishu]
  ELSE [value EXCEPT !.channels = with(@, Feishu, "own")]

Setup(p) == begins(p, [NoProcess EXCEPT !.pc = "setupSave", !.before = writeConfig(config)])

\* ... and service install puts the path of lark-cli into it.
ServiceInstall(p) ==
  /\ config # None
  /\ begins(p, [NoProcess EXCEPT !.pc = "setupSave", !.before = config])

\* What was written since is overwritten.
SetupSave(p) ==
  /\ at(p, "setupSave")
  /\ config' = process[p].before
  /\ dropped' = dropped \cup (Channels \ DOMAIN config'.channels)
  /\ goes(p, "ok")
  /\ UNCHANGED <<records, world, lock, bound, boundTo, saved, deleted, stolen, faults, kills>>

-----------------------------------------------------------------------------
\* Locks and crashes.

\* The steps that begin with taking a lock.
Acquires == {"claim", "initialize", "apply", "commit", "release", "cancel"}
lockOf(p, pc) == IF pc \in {"apply", "initialize"} THEN "config" ELSE codeOf(p)

\* A process that finds the lock held for five seconds gives up.
GivesUpLock(p) ==
  /\ process[p].pc \in Acquires
  /\ isHeld(lock, lockOf(p, process[p].pc))
  /\ goes(p, IF process[p].pc \in {"initialize", "apply"} THEN failed(p)
             ELSE IF process[p].pc = "commit" THEN "release" ELSE "error")
  /\ UNCHANGED <<records, world, config, lock, ghosts, faults, kills>>

\* A lock is two minutes old only if its owner is dead.
LockAges(l) ==
  /\ isHeld(lock, l) /\ ~lock[l].old /\ at(lock[l].owner, "dead")
  /\ lock' = aged(lock, l)
  /\ UNCHANGED <<records, world, config, process, ghosts, faults, kills>>

\* A process that waits for a stale lock removes it by its name, whoever owns
\* it by then, and tries again.
SeesStaleLock(p) ==
  /\ process[p].pc \in Acquires /\ isStale(lock, lockOf(p, process[p].pc))
  /\ process' = [process EXCEPT ![p].pc = "stale", ![p].then = process[p].pc]
  /\ UNCHANGED <<records, world, config, lock, ghosts, faults, kills>>

RemoveStaleLock(p) ==
  LET l == lockOf(p, process[p].then) IN
  /\ at(p, "stale")
  /\ lock' = removed(lock, l)
  /\ stolen' = IF isHeld(lock, l) /\ ~isStale(lock, l) THEN stolen \cup {l} ELSE stolen
  /\ process' = [process EXCEPT ![p].pc = process[p].then, ![p].then = None]
  /\ UNCHANGED <<records, world, config, bound, boundTo, saved, deleted, dropped,
                 faults, kills>>

Kill(p) ==
  /\ process[p].pc \notin Over /\ kills < MaxKills
  /\ kills' = kills + 1
  /\ goes(p, "dead")
  /\ UNCHANGED <<records, world, config, lock, ghosts, faults>>

Change ==
  [op : {"add"}, channel : Chat, name : {"own"}, default : BOOLEAN]
    \cup [op : {"rename", "default"}, channel : Chat]
    \cup [op : {"remove"}, channel : Chat, replacement : Chat \cup {Feishu, None}]

Step(p) ==
  \/ \E k \in Code : runBindComplete(p, k) \/ runBindCancel(p, k)
  \/ \E change \in Change : runSettingsChannel(p, change)
  \/ Claim(p) \/ recoverExpiredFile(p) \/ ClaimMove(p) \/ ClaimWrite(p)
  \/ DiscoverAndVerify(p) \/ Initialize(p) \/ Apply(p) \/ Compare(p) \/ Save(p) \/ Exists(p)
  \/ Commit(p) \/ CommitRemove(p) \/ Release(p) \/ ReleaseMove(p) \/ Cancel(p) \/ CancelMove(p)
  \/ Setup(p) \/ ServiceInstall(p) \/ SetupSave(p)
  \/ GivesUpLock(p) \/ SeesStaleLock(p) \/ RemoveStaleLock(p) \/ Kill(p)

Next ==
  \/ \E k \in Code : Create(k) \/ Expire(k) \/ LeaseEnds(k) \/ \E c \in Chat : Post(k, c)
  \/ \E p \in Process : Step(p)
  \/ \E l \in Code \cup {"config"} : LockAges(l)

BindingSpec == Init /\ [][Next]_vars

-----------------------------------------------------------------------------
(***************************************************************************)
(* A code is used once: at most one `bind complete` reports success, none  *)
(* if the code was cancelled, and all the channels it ever made are of one *)
(* chat, whatever claims lapse, calls fail and processes die in between.   *)
(* The first two rest on the lock of the code, which a process that judged *)
(* it stale may take from its next owner.                                  *)
(***************************************************************************)
OneUse ==
  \A k \in Code :
    /\ k \notin stolen => Cardinality(bound[k]) <= 1
    /\ k \notin stolen /\ bound[k] # {} =>
         history[k] # None /\ history[k].fate = "consumed"
    /\ Cardinality({c \in Channels : config.channels[c] = k}) <= 1

(***************************************************************************)
(* The channel of a consumed code is in config.json, unless it was removed *)
(* on request or overwritten by a writer without the lock: no failure or   *)
(* crash consumes a code and leaves its chat without a channel.            *)
(***************************************************************************)
BoundIsConfigured ==
  "config" \notin stolen =>
    \A k \in Code : boundTo[k] # None => boundTo[k] \in Channels \cup deleted \cup dropped

(***************************************************************************)
(* A channel that a transaction has saved stays until a transaction        *)
(* removes it: concurrent transactions, and the first config.json that two *)
(* processes publish, lose nothing.  Only a writer without the lock, or    *)
(* one whose lock was stolen, may overwrite one.                           *)
(***************************************************************************)
NoLostChannel ==
  "config" \notin stolen => saved \subseteq Channels \cup deleted \cup dropped

=============================================================================
