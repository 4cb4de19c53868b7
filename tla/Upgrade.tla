------------------------------- MODULE Upgrade -------------------------------
(***************************************************************************)
(* The managed installation of AgentBell and the commands that change it   *)
(* (packages/cli/src/upgrade.mjs, core.mjs): `upgrade`, `install-core`,    *)
(* `rollback` and `uninstall`, each a process of its own.  The state is a  *)
(* directory per version, the stable bridge that every hook and the login  *)
(* service start (bridge/bridge.go), active.json, which tells the bridge   *)
(* which version to run (installstate/state.go), and the running service.  *)
(*                                                                         *)
(* A bundle, its checksums and its bridges are named by their version.  An *)
(* atomic write either happens or fails.  The journal of a transaction is  *)
(* written and never read.  What the preflight finds in the configuration  *)
(* files is left open.                                                     *)
(***************************************************************************)
EXTENDS Naturals, FiniteSets

CONSTANTS
  Version,     \* released versions
  PreM2,       \* those below 0.3.0, whose service cannot run the queue
  Command,     \* processes, each running one command
  None,        \* no file, no version
  Windows,     \* the target has a service bridge and quiesces the service
  MaxFaults,   \* bound: calls that fail
  MaxKills     \* bound: killed processes

ASSUME UpgradeAssumption ==
  /\ PreM2 \subseteq Version /\ None \notin Version
  /\ Windows \in BOOLEAN /\ MaxFaults \in Nat /\ MaxKills \in Nat

VARIABLES
  dir,            \* per version: its directory, absent, legacy or full
  active,         \* active.json
  bridge,         \* the version the stable bridge is from
  serviceBridge,  \* the same for the service bridge of Windows
  service,        \* the version the login service runs, or None
  partial,        \* some queue item is delivered to a part of its channels
  lock,           \* upgrade.lock: its owner and whether it is a minute old
  cmd,            \* per process: where it is, its variables, its journal
  uninstalled,    \* history: versions whose directory an uninstall has removed,
                  \* until it has removed active.json too
  disturbed,      \* history: a second command has changed the installation
                  \* while an upgrade or a rollback was running
  faults, kills   \* history

files == <<dir, active, bridge, serviceBridge>>
vars == <<files, service, partial, lock, cmd, uninstalled, disturbed, faults, kills>>

Active == [version : Version, generation : Nat, previous : Version \cup {None},
           pinned : Version \cup {None}, bridge : Version]

\* runService of the bridge: the pinned version, or the active one.
serviceCore(state) == IF state.pinned # None THEN state.pinned ELSE state.version

\* discoverLegacyInstall: directories with valid metadata.
candidates == {v \in Version : dir[v] # "absent"}

snapshot == [dir |-> dir, active |-> active, bridge |-> bridge,
             serviceBridge |-> serviceBridge, service |-> service]

NoCommand ==
  [pc |-> "start", op |-> "", to |-> None, previousVersion |-> None,
   repair |-> FALSE, installedNew |-> FALSE, bridgeChanged |-> FALSE,
   serviceBridgeChanged |-> FALSE, quiesced |-> FALSE, activeWritten |-> FALSE,
   restored |-> FALSE, removeActive |-> FALSE, generation |-> 0, errors |-> FALSE,
   committing |-> FALSE, raced |-> FALSE,
   journal |-> "", before |-> None, previousBridge |-> None,
   previousServiceBridge |-> None]

\* A fresh machine; the legacy installation of one version; or a managed one of
\* version v, alone, next to the version w it replaced, or rolled back from w.
managed(v, previous, pinned, versions) ==
  LET from == IF pinned # None THEN pinned ELSE v IN
  /\ dir = [u \in Version |-> IF u \in versions THEN "full" ELSE "absent"]
  /\ active = [version |-> v, generation |-> 1, previous |-> previous,
               pinned |-> pinned, bridge |-> from]
  /\ bridge = from /\ serviceBridge = IF Windows THEN from ELSE None
  /\ service = from

Init ==
  /\ \/ /\ dir = [u \in Version |-> "absent"] /\ active = None
        /\ bridge = None /\ serviceBridge = None /\ service = None
     \/ \E v \in PreM2 :
          /\ dir = [u \in Version |-> IF u = v THEN "legacy" ELSE "absent"]
          /\ active = None /\ bridge = None /\ serviceBridge = None
          /\ service = v
     \/ \E v, w \in Version :
          \/ v = w /\ managed(v, None, None, {v})
          \/ v # w /\ managed(v, w, None, {v, w})
          \/ v \in PreM2 /\ w \notin PreM2 /\ managed(v, w, w, Version)
  /\ partial = FALSE
  /\ lock = None
  /\ cmd = [c \in Command |-> NoCommand]
  /\ uninstalled = {} /\ disturbed = FALSE /\ faults = 0 /\ kills = 0

at(c, pc) == cmd[c].pc = pc
Over == {"start", "ended", "killed"}
\* A process that has ended keeps nothing.
goes(c, pc) ==
  cmd' = [cmd EXCEPT ![c] = [IF pc \in Over THEN NoCommand ELSE @ EXCEPT !.pc = pc]]
my(c) == cmd[c]
before(c) == cmd[c].before.active
busy(c) == cmd[c].pc \notin Over \cup {"lock", "steal", "core"}
disturbs(others) == disturbed' = (disturbed \/ \E d \in others : busy(d))

history == <<partial, uninstalled, disturbed, faults, kills>>
world == <<files, service>>

-----------------------------------------------------------------------------
\* Acquiring the lock: mkdir, or a lock that is a minute old is removed by name.

\* install-core refuses when another version is active.
Run(c, op, to) ==
  /\ at(c, "start")
  /\ to = None => op = "rollback"
  /\ op = "install" /\ active # None => active.version = to /\ dir[to] # "absent"
  /\ cmd' = [cmd EXCEPT ![c].op = op, ![c].to = to,
                        ![c].pc = IF op = "uninstall" THEN "core" ELSE "lock"]
  /\ UNCHANGED <<world, lock, history>>

acquireLock(c) ==
  /\ at(c, "lock")
  /\ IF lock = None
     THEN /\ lock' = [owner |-> c, old |-> FALSE]
          /\ goes(c, "load")
          /\ disturbs({d \in Command : my(d).op = "uninstall"})
     ELSE /\ goes(c, IF lock.old THEN "steal" ELSE "ended")
          /\ UNCHANGED <<lock, disturbed>>
  /\ UNCHANGED <<world, partial, uninstalled, faults, kills>>

\* The age was read before the removal, which takes whatever lock is there.
Steal(c) ==
  /\ at(c, "steal")
  /\ lock' = None
  /\ disturbs(IF lock = None THEN {} ELSE {lock.owner})
  /\ goes(c, "lock")
  /\ UNCHANGED <<world, partial, uninstalled, faults, kills>>

\* The release removes the lock, whoever owns it by then.
Release(c) ==
  /\ at(c, "release")
  /\ lock' = None
  /\ goes(c, "ended")
  /\ UNCHANGED <<world, history>>

\* The owner is gone, or its download takes more than a minute: nothing
\* refreshes the lock.
LockAges ==
  /\ lock # None /\ ~lock.old
  /\ cmd[lock.owner].pc \in {"killed", "download"}
  /\ lock' = [lock EXCEPT !.old = TRUE]
  /\ UNCHANGED <<world, cmd, history>>

-----------------------------------------------------------------------------
\* The service manager, as `service install|restart|stop` of a Core drive it.

\* A restart runs what active.json names, or the Core that was called.
Restarted(core) == IF active = None THEN core ELSE serviceCore(active)

\* A restart that fails may have stopped the service, and may have started it.
RestartFails(core) == service' \in {service, None, Restarted(core)}

Fault == faults < MaxFaults /\ faults' = faults + 1

\* A call that throws before it has any effect.
Throws(c, pc) ==
  /\ Fault
  /\ goes(c, pc)
  /\ UNCHANGED <<world, lock, partial, uninstalled, disturbed, kills>>

\* A call that only moves the command on.
Passes(c, pc) == goes(c, pc) /\ UNCHANGED <<world, lock, history>>

-----------------------------------------------------------------------------
\* upgrade: what active.json or a single legacy directory says is installed.

isRepair(c) == active # None /\ active.version = my(c).to

\* The installed metadata of the active version contradicts active.json.
conflicts(c) == \/ dir[my(c).to] = "legacy"
                \/ dir[my(c).to] = "full" /\ active.bridge # my(c).to

bridgesReady(c) == /\ bridge = active.bridge
                   /\ Windows => serviceBridge = active.bridge

Load(c) ==
  LET legacy == candidates \ {my(c).to}
      loaded(prev) == [my(c) EXCEPT !.before = snapshot, !.previousVersion = prev]
  IN
  /\ at(c, "load") /\ my(c).op \in {"upgrade", "install"}
  /\ \/ /\ active = None /\ Cardinality(candidates) > 1   \* --from is needed
        /\ \/ goes(c, "release")
           \/ \E v \in legacy : cmd' = [cmd EXCEPT ![c] = [loaded(v) EXCEPT !.pc = "preflight"]]
     \/ /\ active = None /\ Cardinality(candidates) <= 1
        /\ \E v \in IF legacy = {} THEN {None} ELSE legacy :
             cmd' = [cmd EXCEPT ![c] = [loaded(v) EXCEPT !.pc = "preflight"]]
     \/ /\ active # None
        /\ cmd' = [cmd EXCEPT ![c] =
             [loaded(active.version) EXCEPT
                !.repair = isRepair(c),
                !.pc = IF ~isRepair(c) THEN "preflight"
                       ELSE IF conflicts(c) THEN "release"
                       ELSE IF dir[my(c).to] = "full" /\ bridgesReady(c) THEN "reuse"
                       ELSE "preflight"]]
  /\ UNCHANGED <<world, lock, history>>

\* The active version is complete: the service is restarted and nothing else.
Reuse(c) ==
  /\ at(c, "reuse")
  /\ \/ /\ service' = IF my(c).op = "install" THEN service ELSE Restarted(my(c).to)
        /\ faults' = faults
     \/ Fault /\ my(c).op # "install" /\ RestartFails(my(c).to)
  /\ goes(c, "release")
  /\ UNCHANGED <<files, lock, partial, uninstalled, disturbed, kills>>

\* The service of an M2 version delivers an item to one channel of several, or
\* to the last one; `raced` is the history of a preflight it has outdated.
Deliver ==
  /\ service # None /\ service \notin PreM2
  /\ partial' = ~partial
  /\ cmd' = [c \in Command |->
       IF busy(c) /\ ~partial THEN [cmd[c] EXCEPT !.raced = TRUE] ELSE cmd[c]]
  /\ UNCHANGED <<world, lock, uninstalled, disturbed, faults, kills>>

\* The configuration and the queue must be readable by the version that a
\* rollback would bring back: it knows no channel ledger and would send an item
\* to every channel again.
runRollbackPreflight(c) ==
  /\ at(c, "preflight")
  /\ \/ /\ my(c).previousVersion # None => ~partial
        /\ cmd' = [cmd EXCEPT ![c].raced = FALSE,
             ![c].pc = IF my(c).op = "rollback" THEN "smoke" ELSE "download"]
     \/ /\ my(c).previousVersion # None
        /\ cmd' = [cmd EXCEPT ![c].journal = "preflight-rejected", ![c].pc = "release"]
  /\ UNCHANGED <<world, lock, history>>

downloadBundle(c) ==
  /\ at(c, "download")
  /\ \/ ~(my(c).repair /\ before(c).bridge # my(c).to) /\ Passes(c, "stage")
     \/ my(c).repair /\ before(c).bridge # my(c).to /\ Passes(c, "catch")
     \/ Throws(c, "catch")

installVersion(c) ==
  /\ at(c, "stage")
  /\ \/ dir[my(c).to] = "legacy" /\ Passes(c, "catch")
     \/ dir[my(c).to] = "full" /\ Passes(c, "smoke")
     \/ /\ dir[my(c).to] = "absent"
        /\ dir' = [dir EXCEPT ![my(c).to] = "full"]
        /\ cmd' = [cmd EXCEPT ![c].installedNew = TRUE, ![c].pc = "smoke"]
        /\ UNCHANGED <<active, bridge, serviceBridge, service, lock, history>>
     \/ Throws(c, "catch")

\* The new Core runs; then the bridges are read, to be put back on failure.
smokeCore(c) ==
  /\ at(c, "smoke") /\ my(c).op # "rollback"
  /\ \/ /\ cmd' = [cmd EXCEPT
             ![c].previousBridge = bridge, ![c].previousServiceBridge = serviceBridge,
             ![c].quiesced = Windows /\ my(c).previousVersion # None,
             ![c].pc = IF Windows /\ my(c).previousVersion # None THEN "quiesce" ELSE "bridge"]
        /\ UNCHANGED <<world, lock, history>>
     \/ Throws(c, "catch")

quiesceService(c) ==
  /\ at(c, "quiesce")
  /\ \/ /\ service' = None
        /\ goes(c, "bridge")
        /\ UNCHANGED <<files, lock, history>>
     \/ Throws(c, "catch")

writeStableBridge(c) ==
  /\ at(c, "bridge")
  /\ \/ /\ bridge' = my(c).to
        /\ cmd' = [cmd EXCEPT ![c].bridgeChanged = TRUE, ![c].journal = "activating",
                              ![c].pc = IF Windows THEN "serviceBridge" ELSE "active"]
        /\ UNCHANGED <<dir, active, serviceBridge, service, lock, history>>
     \/ Throws(c, "catch")

writeServiceBridge(c) ==
  /\ at(c, "serviceBridge")
  /\ \/ /\ serviceBridge' = my(c).to
        /\ cmd' = [cmd EXCEPT ![c].serviceBridgeChanged = TRUE, ![c].pc = "active"]
        /\ UNCHANGED <<dir, active, bridge, service, lock, history>>
     \/ Throws(c, "catch")

nextGeneration(c) ==
  IF before(c) # None THEN before(c).generation + 1
  ELSE IF my(c).previousVersion # None THEN 2 ELSE 1

nextActive(c) ==
  IF my(c).repair
  THEN [before(c) EXCEPT !.generation = nextGeneration(c), !.bridge = my(c).to]
  ELSE [version |-> my(c).to, generation |-> nextGeneration(c),
        previous |-> my(c).previousVersion, pinned |-> None, bridge |-> my(c).to]

writeActive(c) ==
  /\ at(c, "active") /\ my(c).op # "rollback"
  /\ \/ /\ active' = nextActive(c)
        /\ cmd' = [cmd EXCEPT ![c].activeWritten = TRUE, ![c].pc = "restart",
                              ![c].generation = nextGeneration(c)]
        /\ UNCHANGED <<dir, bridge, serviceBridge, service, lock, history>>
     \/ /\ cmd' = [cmd EXCEPT ![c].generation = nextGeneration(c), ![c].pc = "catch"]
        /\ Fault
        /\ UNCHANGED <<world, lock, partial, uninstalled, disturbed, kills>>

\* install-core passes a restart that does nothing.
restartService(c) ==
  /\ at(c, "restart")
  /\ \/ /\ service' = IF my(c).op = "install" THEN service ELSE Restarted(my(c).to)
        /\ goes(c, "commit")
        /\ UNCHANGED <<files, lock, history>>
     \/ /\ my(c).op # "install"
        /\ Fault /\ RestartFails(my(c).to)
        /\ goes(c, IF my(c).op = "rollback" THEN "compActive" ELSE "catch")
        /\ UNCHANGED <<files, lock, partial, uninstalled, disturbed, kills>>

\* writeJournal "committed": when it fails, an upgrade is compensated and its
\* journal still says "activating"; a rollback stays as it is.
Commit(c) ==
  /\ at(c, "commit")
  /\ \/ /\ cmd' = [cmd EXCEPT ![c].journal = "committed", ![c].pc = "release"]
        /\ UNCHANGED <<world, lock, history>>
     \/ /\ Fault
        /\ cmd' = [cmd EXCEPT ![c].committing = TRUE,
                     ![c].pc = IF my(c).op = "rollback" THEN "release" ELSE "catch"]
        /\ UNCHANGED <<world, lock, partial, uninstalled, disturbed, kills>>

-----------------------------------------------------------------------------
\* The catch block of upgrade, and compensateUpgrade: every step is attempted,
\* a step that fails is recorded and the next one follows.

\* Mutant: the compensation runs without a preflight of its own.
CatchUnchecked(c) ==
  /\ at(c, "catch")
  /\ cmd' = [cmd EXCEPT ![c].raced = FALSE, ![c].pc = "compQuiesce"]
  /\ UNCHANGED <<world, lock, history>>

\* After active.json was written the old version comes back only if it can
\* still read what the new one has queued.
Catch(c) ==
  LET checked == my(c).activeWritten /\ my(c).previousVersion # None IN
  /\ at(c, "catch")
  /\ \/ /\ checked => ~partial
        /\ cmd' = [cmd EXCEPT ![c].raced = @ /\ ~checked, ![c].pc = "compQuiesce"]
     \/ /\ checked
        /\ cmd' = [cmd EXCEPT ![c].journal = "compensation-blocked", ![c].pc = "release"]
  /\ UNCHANGED <<world, lock, history>>

\* A step that is not called for, or fails.
Skips(c, needed, pc) ==
  \/ ~needed /\ Passes(c, pc)
  \/ /\ needed /\ Fault
     /\ cmd' = [cmd EXCEPT ![c].errors = TRUE, ![c].pc = pc]
     /\ UNCHANGED <<world, lock, partial, uninstalled, disturbed, kills>>

CompQuiesce(c) ==
  LET needed == my(c).quiesced IN
  /\ at(c, "compQuiesce")
  /\ \/ /\ needed
        /\ service' = None
        /\ goes(c, "compBridge")
        /\ UNCHANGED <<files, lock, history>>
     \/ Skips(c, needed, "compBridge")

\* Mutant: the bridge of the failed version stays.
CompBridgeKept(c) == at(c, "compBridge") /\ Passes(c, "compServiceBridge")

CompBridge(c) ==
  LET needed == my(c).bridgeChanged IN
  /\ at(c, "compBridge")
  /\ \/ /\ needed
        /\ bridge' = my(c).previousBridge
        /\ goes(c, "compServiceBridge")
        /\ UNCHANGED <<dir, active, serviceBridge, service, lock, history>>
     \/ Skips(c, needed, "compServiceBridge")

CompServiceBridge(c) ==
  LET needed == my(c).serviceBridgeChanged IN
  /\ at(c, "compServiceBridge")
  /\ \/ /\ needed
        /\ serviceBridge' = my(c).previousServiceBridge
        /\ goes(c, "compActive")
        /\ UNCHANGED <<dir, active, bridge, service, lock, history>>
     \/ Skips(c, needed, "compActive")

CompActive(c) ==
  /\ at(c, "compActive")
  /\ \/ /\ my(c).activeWritten
        /\ active' = IF before(c) = None THEN None
                     ELSE [before(c) EXCEPT !.generation = my(c).generation + 1]
        /\ cmd' = [cmd EXCEPT ![c].restored = TRUE, ![c].pc = "compRestart"]
        /\ UNCHANGED <<dir, bridge, serviceBridge, service, lock, history>>
     \/ /\ ~my(c).activeWritten
        /\ cmd' = [cmd EXCEPT ![c].restored = TRUE, ![c].pc = "compRestart"]
        /\ UNCHANGED <<world, lock, history>>
     \/ my(c).activeWritten /\ Skips(c, TRUE, "compRestart")

CompRestart(c) ==
  LET needed == /\ my(c).activeWritten \/ my(c).quiesced
                /\ my(c).previousVersion # None /\ my(c).restored
                /\ my(c).op # "install"
  IN
  /\ at(c, "compRestart")
  /\ \/ /\ needed
        /\ service' = Restarted(my(c).previousVersion)
        /\ goes(c, "compRemove")
        /\ UNCHANGED <<files, lock, history>>
     \/ /\ needed /\ Fault
        /\ RestartFails(my(c).previousVersion)
        /\ cmd' = [cmd EXCEPT ![c].errors = TRUE, ![c].pc = "compRemove"]
        /\ UNCHANGED <<files, lock, partial, uninstalled, disturbed, kills>>
     \/ ~needed /\ Passes(c, "compRemove")

\* Mutant: the staged version goes although active.json still names it.
CompRemoveAnyway(c) ==
  /\ at(c, "compRemove")
  /\ dir' = IF my(c).installedNew THEN [dir EXCEPT ![my(c).to] = "absent"] ELSE dir
  /\ goes(c, "finish")
  /\ UNCHANGED <<active, bridge, serviceBridge, service, lock, history>>

CompRemove(c) ==
  LET needed == my(c).installedNew /\ my(c).restored IN
  /\ at(c, "compRemove")
  /\ \/ /\ needed
        /\ dir' = [dir EXCEPT ![my(c).to] = "absent"]
        /\ goes(c, "finish")
        /\ UNCHANGED <<active, bridge, serviceBridge, service, lock, history>>
     \/ Skips(c, needed, "finish")

\* The last entry of the journal; writing it may fail too.
verdict(c) ==
  IF my(c).bridgeChanged \/ my(c).serviceBridgeChanged \/ my(c).quiesced \/ my(c).activeWritten
  THEN IF my(c).errors THEN "compensation-failed" ELSE "rolled-back"
  ELSE "failed"

Finish(c) ==
  /\ at(c, "finish")
  /\ \/ /\ cmd' = [cmd EXCEPT ![c].pc = "release",
             ![c].journal = IF my(c).committing THEN @ ELSE verdict(c)]
        /\ UNCHANGED <<world, lock, history>>
     \/ ~my(c).committing /\ Throws(c, "release")

-----------------------------------------------------------------------------
\* rollback: an installed version becomes active under the present bridge.

resolveRollbackSelection(c) ==
  LET selected == IF my(c).to # None \/ active = None THEN my(c).to ELSE active.previous
      installed == /\ active # None /\ selected # None /\ selected # active.version
                   /\ dir[active.version] # "absent" /\ dir[selected] # "absent"
  IN
  /\ at(c, "load") /\ my(c).op = "rollback"
  /\ IF installed
     THEN cmd' = [cmd EXCEPT ![c].to = selected, ![c].previousVersion = active.version,
                             ![c].before = snapshot, ![c].pc = "preflight"]
     ELSE goes(c, "release")
  /\ UNCHANGED <<world, lock, history>>

RollbackSmoke(c) ==
  /\ at(c, "smoke") /\ my(c).op = "rollback"
  /\ Passes(c, "active") \/ Throws(c, "finish")

\* Mutant: a second rollback forgets which version the service was pinned to.
rollbackActiveRepins(c) ==
  [version |-> my(c).to, generation |-> before(c).generation + 1,
   previous |-> before(c).version, bridge |-> before(c).bridge,
   pinned |-> IF my(c).to \in PreM2 THEN before(c).version ELSE None]

\* The service stays on a version that can run the queue.
rollbackActive(c) ==
  [version |-> my(c).to, generation |-> before(c).generation + 1,
   previous |-> before(c).version, bridge |-> before(c).bridge,
   pinned |-> IF my(c).to \in PreM2 THEN serviceCore(before(c)) ELSE None]

RollbackActivate(c) ==
  /\ at(c, "active") /\ my(c).op = "rollback"
  /\ \/ /\ active' = rollbackActive(c)
        /\ cmd' = [cmd EXCEPT ![c].activeWritten = TRUE, ![c].pc = "restart",
                              ![c].generation = before(c).generation + 1]
        /\ UNCHANGED <<dir, bridge, serviceBridge, service, lock, history>>
     \/ Throws(c, "finish")

-----------------------------------------------------------------------------
\* uninstall takes no lock.  The Core removes its hooks and its service first;
\* then the directory goes, and with the active version active.json and bridges.

UninstallCoreRuns(c) ==
  LET version == IF active # None THEN active.version ELSE my(c).to IN
  /\ at(c, "core")
  /\ \/ /\ dir[version] # "absent"
        /\ service' = None
        /\ cmd' = [cmd EXCEPT ![c].to = version, ![c].pc = "uninstall"]
        /\ disturbs(Command \ {c})
        /\ UNCHANGED <<files, lock, partial, uninstalled, faults, kills>>
     \/ dir[version] = "absent" /\ Passes(c, "ended")

uninstallCore(c) ==
  /\ at(c, "uninstall")
  /\ cmd' = [cmd EXCEPT ![c].removeActive = active # None /\ active.version = my(c).to,
                        ![c].pc = "rmVersion"]
  /\ UNCHANGED <<world, lock, history>>

RemoveVersion(c) ==
  /\ at(c, "rmVersion")
  /\ dir' = [dir EXCEPT ![my(c).to] = "absent"]
  /\ uninstalled' = IF my(c).removeActive THEN uninstalled \cup {my(c).to} ELSE uninstalled
  /\ goes(c, IF my(c).removeActive THEN "rmActive" ELSE "ended")
  /\ UNCHANGED <<active, bridge, serviceBridge, service, partial, lock, disturbed, faults, kills>>

RemoveActive(c) ==
  /\ at(c, "rmActive")
  /\ active' = None
  /\ uninstalled' = uninstalled \ {my(c).to}
  /\ goes(c, "rmBridge")
  /\ UNCHANGED <<dir, bridge, serviceBridge, service, partial, lock, disturbed, faults, kills>>

RemoveBridges(c) ==
  \/ /\ at(c, "rmBridge")
     /\ bridge' = None
     /\ goes(c, "rmServiceBridge")
     /\ UNCHANGED <<dir, active, serviceBridge, service, lock, history>>
  \/ /\ at(c, "rmServiceBridge")
     /\ serviceBridge' = None
     /\ goes(c, "ended")
     /\ UNCHANGED <<dir, active, bridge, service, lock, history>>

-----------------------------------------------------------------------------
\* A command is killed between any two steps; its files and its lock stay.
Killed(c) ==
  /\ kills < MaxKills /\ kills' = kills + 1
  /\ cmd[c].pc \notin Over
  /\ goes(c, "killed")
  /\ UNCHANGED <<world, lock, partial, uninstalled, disturbed, faults>>

Step(c) ==
  \/ acquireLock(c) \/ Steal(c) \/ Release(c)
  \/ Load(c) \/ Reuse(c) \/ runRollbackPreflight(c) \/ downloadBundle(c)
  \/ installVersion(c) \/ smokeCore(c) \/ quiesceService(c) \/ writeStableBridge(c)
  \/ writeServiceBridge(c) \/ writeActive(c) \/ restartService(c) \/ Commit(c)
  \/ Catch(c) \/ CompQuiesce(c) \/ CompBridge(c) \/ CompServiceBridge(c)
  \/ CompActive(c) \/ CompRestart(c) \/ CompRemove(c) \/ Finish(c)
  \/ resolveRollbackSelection(c) \/ RollbackSmoke(c) \/ RollbackActivate(c)
  \/ UninstallCoreRuns(c) \/ uninstallCore(c) \/ RemoveVersion(c)
  \/ RemoveActive(c) \/ RemoveBridges(c)

Next ==
  \/ \E c \in Command :
       \/ Step(c) \/ Killed(c)
       \/ \E op \in {"upgrade", "install", "rollback", "uninstall"},
             to \in Version \cup {None} : Run(c, op, to)
  \/ LockAges \/ Deliver

UpgradeSpec == Init /\ [][Next]_vars

-----------------------------------------------------------------------------
installed(v) == dir[v] # "absent"

(***************************************************************************)
(* The bridge can always start what active.json names, for the hooks and   *)
(* for the pinned service: no upgrade, rollback, failed step, compensation *)
(* or kill removes a directory that active.json names.  Only an uninstall  *)
(* that was cut between its two removals leaves such a name, and nothing   *)
(* is promised once two commands ran at the same time.                     *)
(***************************************************************************)
ActiveIsInstalled ==
  ~disturbed /\ active # None =>
    {v \in {active.version, serviceCore(active)} : ~installed(v)} \subseteq uninstalled

(***************************************************************************)
(* A transaction whose journal says "committed" has left the version it    *)
(* was asked for active and installed, a bridge that matches active.json,  *)
(* and the service running what the bridge would start, whatever earlier   *)
(* commands that failed or were killed had left behind.  A rollback never  *)
(* moves a service that could run the queue to one that cannot.            *)
(***************************************************************************)
CommittedIsComplete ==
  \A c \in Command :
    at(c, "release") /\ my(c).journal = "committed" /\ ~disturbed =>
      /\ active # None /\ active.version = my(c).to /\ installed(my(c).to)
      /\ my(c).op # "rollback" => bridgesReady(c)
      /\ my(c).op # "install" => service = serviceCore(active)
      /\ my(c).op = "rollback" /\ serviceCore(before(c)) \notin PreM2 =>
           service \notin PreM2

(***************************************************************************)
(* A transaction whose journal says "rolled-back", "failed" or             *)
(* "preflight-rejected" has left the installation as it found it: the same *)
(* version active, with the same pin, the same bridges, the same           *)
(* directories (unless removing the staged one failed), and, if a version  *)
(* was there before and its service was touched, a running service.  Only  *)
(* install-core, whose restart does nothing, may leave it stopped, and a   *)
(* first upgrade may leave it registered.                                  *)
(***************************************************************************)
FailureRestores ==
  \A c \in Command :
    LET old == my(c).before IN
    /\ at(c, "release") /\ ~disturbed
    /\ my(c).journal \in {"rolled-back", "failed", "preflight-rejected"}
    => /\ (active = None) = (old.active = None)
       /\ active # None => active = [old.active EXCEPT !.generation = active.generation]
       /\ bridge = old.bridge /\ serviceBridge = old.serviceBridge
       /\ ~my(c).errors => dir = old.dir
       /\ \/ service = old.service
          \/ my(c).op = "install" \/ my(c).previousVersion = None
          \/ /\ my(c).journal = "rolled-back"
             /\ service = IF active = None THEN my(c).previousVersion ELSE serviceCore(active)

(***************************************************************************)
(* The compensation of a failed upgrade never starts a pre-M2 service on a *)
(* queue with a partially delivered item, which that service would deliver *)
(* to every channel again, unless the item became partial after the        *)
(* preflight of this very compensation.                                    *)
(***************************************************************************)
NoPartialDowngrade ==
  [][\A c \in Command :
       at(c, "compRestart") /\ service' \in PreM2 \ {service} /\ ~disturbed =>
         ~partial \/ my(c).raced]_vars

=============================================================================
