------------------------------ MODULE Scheduler ------------------------------
(***************************************************************************)
(* The service processes together with the connector worker each of them   *)
(* runs beside the queue (HostScheduler, remote/scheduler.go): a lock file *)
(* of its own with an age and no PID, attempts to push or to pull, and a   *)
(* status file that `doctor` shows.  The service starts the worker once    *)
(* and waits for it before it gives its own lock back; a worker that       *)
(* cannot get its lock ends for good.  Connectors share no file, so one is *)
(* enough.                                                                 *)
(***************************************************************************)
EXTENDS ServiceLock

CONSTANT Faults   \* the worker's own file operations may fail

ASSUME FaultsAssumption == Faults \in BOOLEAN

VARIABLES
  schedulerLock,  \* NoLock, or its owner, whether it was left behind, and its age
  worker,         \* per process, where its worker is
  tries,          \* per process, the loop counter of the worker's acquireLock
  stopping,       \* per process, whether its context is cancelled
  status,         \* status.json: the state; history: the end of a worker is untold
  shutOut         \* history: processes whose worker met a lock that was left
                  \* behind, or a failure of a file operation on its own

schedulerVars == <<schedulerLock, worker, tries, stopping, status, shutOut>>

SchedulerInit ==
  /\ Init
  /\ schedulerLock = NoLock
  /\ worker = [p \in Process |-> "off"]
  /\ tries = [p \in Process |-> 0]
  /\ stopping = [p \in Process |-> FALSE]
  /\ status = [state |-> "none", untold |-> FALSE]
  /\ shutOut = {}

works(p, to) == worker' = [worker EXCEPT ![p] = to]
isLive(p) == worker[p] \in {"attempt", "select", "wait", "release"}
ownsLock(p) == schedulerLock # NoLock /\ schedulerLock.owner = p

-----------------------------------------------------------------------------
\* The worker: Run.

startWorkers(p) ==
  /\ pc[p] = "running" /\ worker[p] = "off"
  /\ works(p, "create") /\ tries' = [tries EXCEPT ![p] = 1]
  /\ UNCHANGED <<vars, schedulerLock, stopping, status, shutOut>>

\* acquireLock: O_EXCL, or a look at the lock that is there.
createLock(p) ==
  /\ worker[p] = "create"
  /\ IF schedulerLock = NoLock
     THEN /\ schedulerLock' = [owner |-> p, left |-> FALSE, old |-> FALSE]
          /\ works(p, "attempt")
     ELSE works(p, "stat") /\ UNCHANGED schedulerLock
  /\ UNCHANGED <<vars, tries, stopping, status, shutOut>>

\* The lock is created but its token cannot be written.
createFault(p) ==
  /\ Faults /\ worker[p] = "create" /\ schedulerLock = NoLock
  /\ works(p, "ended") /\ shutOut' = shutOut \cup {p}
  /\ UNCHANGED <<vars, schedulerLock, tries, stopping, status>>

again(p) ==
  IF tries[p] < 2
  THEN works(p, "create") /\ tries' = [tries EXCEPT ![p] = @ + 1]
  ELSE works(p, "ended") /\ UNCHANGED tries

\* A lock of less than five minutes is taken for a running scheduler.  Nothing
\* else removes a lock meanwhile: the service lock admits one worker at a time.
statLock(p) ==
  /\ worker[p] = "stat" /\ schedulerLock # NoLock
  /\ IF schedulerLock.old
     THEN works(p, "rename") /\ UNCHANGED shutOut
     ELSE /\ works(p, "ended")
          /\ shutOut' = IF schedulerLock.left THEN shutOut \cup {p} ELSE shutOut
  /\ UNCHANGED <<vars, schedulerLock, tries, stopping, status>>

renameStale(p) ==
  /\ worker[p] = "rename"
  /\ schedulerLock' = NoLock
  /\ again(p)
  /\ UNCHANGED <<vars, stopping, status, shutOut>>

\* The error of writeStatus is dropped.
writeStatus(state) ==
  \/ status' = [state |-> state, untold |-> FALSE]
  \/ Faults /\ status' = [status EXCEPT !.untold = TRUE]

\* A push or a pull succeeds or fails, or the configuration cannot be loaded.
attempt(p) ==
  /\ worker[p] = "attempt"
  /\ \E state \in {"healthy", "backoff", "invalid"} : writeStatus(state)
  /\ works(p, "select")
  /\ UNCHANGED <<vars, schedulerLock, tries, stopping, shutOut>>

\* The poll interval or the failure delay begins, and passes.
wait(p) ==
  /\ ~stopping[p]
  /\ \/ worker[p] = "select" /\ works(p, "wait")
     \/ worker[p] = "wait" /\ works(p, "attempt")
  /\ UNCHANGED <<vars, schedulerLock, tries, stopping, status, shutOut>>

\* Mutant: a worker that stops leaves its last status.
stopWorkerSilently(p) ==
  /\ worker[p] \in {"select", "wait"} /\ stopping[p]
  /\ works(p, "release")
  /\ UNCHANGED <<vars, schedulerLock, tries, stopping, status, shutOut>>

stopWorker(p) ==
  /\ worker[p] \in {"select", "wait"} /\ stopping[p]
  /\ writeStatus("stopped")
  /\ works(p, "release")
  /\ UNCHANGED <<vars, schedulerLock, tries, stopping, shutOut>>

\* The heartbeat ends when the context is cancelled, too, so both channels of the
\* select are ready and it may take this one, which writes no status.
selectLost(p) ==
  /\ worker[p] = "select" /\ stopping[p]
  /\ status' = [status EXCEPT !.untold = TRUE]
  /\ works(p, "release")
  /\ UNCHANGED <<vars, schedulerLock, tries, stopping, shutOut>>

\* The heartbeat cannot touch the lock: the attempt is cut short, or one more
\* is made with the cancelled context, and Run returns.
heartbeatFails(p) ==
  /\ Faults /\ worker[p] \in {"attempt", "wait"}
  /\ writeStatus("backoff")
  /\ works(p, "release") /\ shutOut' = shutOut \cup {p}
  /\ UNCHANGED <<vars, schedulerLock, tries, stopping>>

\* The lock is removed if it is its own; that may fail.
releaseLock(p) ==
  /\ worker[p] = "release"
  /\ ownsLock(p)
  /\ \/ schedulerLock' = NoLock
     \/ Faults /\ schedulerLock' = [schedulerLock EXCEPT !.left = TRUE]
  /\ works(p, "ended")
  /\ UNCHANGED <<vars, tries, stopping, status, shutOut>>

-----------------------------------------------------------------------------
\* The service around it.

cancelWorkers(p) ==
  /\ pc[p] = "running" /\ ~stopping[p]
  /\ stopping' = [stopping EXCEPT ![p] = TRUE]
  /\ UNCHANGED <<vars, schedulerLock, worker, tries, status, shutOut>>

\* What the worker of a process that is gone has left.
leaves(p, isKilled) ==
  /\ works(p, "off")
  /\ tries' = [tries EXCEPT ![p] = 0]
  /\ stopping' = [stopping EXCEPT ![p] = FALSE]
  /\ shutOut' = shutOut \ {p}
  /\ schedulerLock' = IF ownsLock(p)
                      THEN [schedulerLock EXCEPT !.owner = Dead, !.left = @ \/ isKilled]
                      ELSE schedulerLock
  /\ status' = [status EXCEPT !.untold = @ \/ (isKilled /\ isLive(p))]

\* Mutant: the service does not wait for its worker.
endServiceAtOnce(p) ==
  /\ stopping[p]
  /\ Release(p) /\ leaves(p, FALSE)

\* The deferred calls of Run wait for the worker before they release the lock.
\* A service that cannot repair its queue ends before it starts one.
endService(p) ==
  /\ worker[p] = "off" \/ (worker[p] = "ended" /\ stopping[p])
  /\ Release(p) /\ leaves(p, FALSE)

killService(p) == Kill(p) /\ leaves(p, TRUE)

\* A worker that runs touches its lock every 30 seconds.
schedulerLockAges ==
  /\ schedulerLock # NoLock /\ ~schedulerLock.old /\ schedulerLock.owner = Dead
  /\ schedulerLock' = [schedulerLock EXCEPT !.old = TRUE]
  /\ UNCHANGED <<vars, worker, tries, stopping, status, shutOut>>

-----------------------------------------------------------------------------
Work(p) ==
  \/ startWorkers(p) \/ createLock(p) \/ createFault(p) \/ statLock(p) \/ renameStale(p)
  \/ attempt(p) \/ wait(p) \/ stopWorker(p) \/ selectLost(p) \/ releaseLock(p)

\* The steps of a service process that do not concern its worker.
ServiceStep(p) ==
  (acquireLock(p) \/ Heartbeat(p) \/ Start(p)) /\ UNCHANGED schedulerVars

SchedulerNext ==
  \/ \E p \in Process :
       \/ Work(p) \/ heartbeatFails(p) \/ ServiceStep(p)
       \/ cancelWorkers(p) \/ endService(p) \/ killService(p)
  \/ Age /\ UNCHANGED schedulerVars
  \/ schedulerLockAges

\* As for the service alone; a worker goes on, and so does a service that stops.
SchedulerSpec ==
  /\ SchedulerInit /\ [][SchedulerNext]_<<vars, schedulerVars>>
  /\ \A p \in Process :
       /\ WF_vars(acquireLock(p) /\ UNCHANGED schedulerVars)
       /\ SF_vars(Encode(p) /\ UNCHANGED schedulerVars)
       /\ WF_vars(Start(p) /\ UNCHANGED schedulerVars)
       /\ WF_schedulerVars(Work(p))
       /\ WF_vars(stopping[p] /\ endService(p))
  /\ WF_vars(Age /\ UNCHANGED schedulerVars) /\ WF_schedulerVars(schedulerLockAges)

-----------------------------------------------------------------------------
\* A service whose worker has ended is on its way down itself, or its worker met
\* a lock that a killed one left, or a failed file operation: a service that was
\* stopped leaves nothing that keeps the worker of the next one away.
WorkerStarts ==
  \A p \in Process :
    pc[p] = "running" /\ worker[p] = "ended" /\ ~stopping[p] => p \in shutOut

\* doctor calls a connector healthy only while its worker runs, or when the end of
\* that worker left no trace: it was killed, or could not or did not write it.
DoctorHonest ==
  status.state = "healthy" => status.untold \/ \E p \in Process : isLive(p)

\* The restart recovery of the host bridge: the worker of a service that is up,
\* and stays up, comes to run.
WorkerComesBack ==
  \A p \in Process :
    pc[p] = "running" ~> isLive(p) \/ stopping[p] \/ pc[p] # "running"
=============================================================================
