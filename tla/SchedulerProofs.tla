--------------------------- MODULE SchedulerProofs ---------------------------
(***************************************************************************)
(* Theorems about Scheduler and its service lock, for any number of        *)
(* processes, starts, stops, kills and failed file operations.             *)
(*                                                                         *)
(* The lock excludes a second consumer as long as starts do not overlap    *)
(* and a running service does not miss its heartbeats.  The services with  *)
(* their workers are services of ServiceLock, so at most one runs; and     *)
(* therefore a worker is kept away only by a lock that was left behind.    *)
(***************************************************************************)
EXTENDS Scheduler, TLAPS

\* At most one process is starting, and it does not share the lock with a
\* running one: while a service runs the lock is its own, written and young.
OneStarter ==
  \A p, q \in Process :
    pc[p] \notin {"ended", "running"} /\ pc[q] \notin {"ended", "running"} => p = q

RunnerHoldsLock ==
  \A p \in Process :
    pc[p] = "running" => /\ lock # NoLock
                         /\ lock.pid = p /\ lock.named /\ lock.age # "stale"

\* What a starter has found out is still so: past the check nobody runs, and a
\* PID it has read is that of the running service.
StarterKnows ==
  \A p, q \in Process :
    pc[q] = "running" =>
      /\ pc[p] \notin {"encode", "remove", "again"}
      /\ pc[p] = "alive" => who[p] = q

\* A starter that has created the lock still holds it.
CreatorHoldsLock ==
  \A p \in Process : pc[p] = "encode" => lock # NoLock /\ lock.pid = p

LockInv ==
  /\ TypeOK /\ OneStarter /\ AtMostOneRunning /\ RunnerHoldsLock /\ StarterKnows
  /\ CreatorHoldsLock

\* One step of the lock preserves the invariant.
LEMMA LockStep ==
  ASSUME ~Overlaps, ~Stalls, LockInv, [Next]_vars
  PROVE  LockInv'
<1> USE LockAssumption, NoLockAssumption DEF LockAssumption, NoLockAssumption
<1>1. TypeOK'
  <2> USE DEF LockInv, TypeOK, Lock, Steps
  <2>1. CASE UNCHANGED vars
    BY <2>1, Zenon DEF vars
  <2>2. CASE Age
    BY <2>2, Zenon DEF Age
  <2>3. ASSUME NEW p \in Process, Heartbeat(p) \/ Start(p) \/ Create(p) \/ Encode(p)
        PROVE  TypeOK'
    <3>1. CASE Heartbeat(p)
      BY <3>1, Zenon DEF Heartbeat
    <3>2. CASE Start(p)
      BY <3>2, Zenon DEF Start, Goto
    <3>4. CASE Create(p)
      <4>1. [pid |-> p, named |-> FALSE, age |-> "young"] \in Lock
        OBVIOUS
      <4> QED
        BY <3>4, <4>1, Zenon DEF Create, Goto
    <3>3. CASE Encode(p)
      BY <3>3, Zenon DEF Encode, Goto
    <3> QED
      BY <2>3, <3>1, <3>2, <3>3, <3>4, Zenon
  <2>4. ASSUME NEW p \in Process, NEW file \in Lock \cup {NoLock}, End(p, file),
               kills' \in 0 .. MaxKills
        PROVE  TypeOK'
    BY <2>4, Zenon DEF End
  <2>5. ASSUME NEW p \in Process,
               CreateExists(p) \/ EncodeFault(p) \/ StatLock(p) \/ ReadLock(p)
                 \/ serviceProcessAlive(p) \/ RemoveLock(p) \/ Release(p) \/ Kill(p)
        PROVE  TypeOK'
    <3>1. CASE End(p, lock) \/ End(p, NoLock)
      <4>1. kills' \in 0 .. MaxKills
        BY <2>5 DEF CreateExists, EncodeFault, StatLock, ReadLock,
                    serviceProcessAlive, RemoveLock, Release, Kill
      <4> QED
        BY <2>4, <3>1, <4>1, Zenon
    <3>2. CASE ~(End(p, lock) \/ End(p, NoLock))
      BY <2>5, <3>2 DEF CreateExists, EncodeFault, StatLock, ReadLock,
                        serviceProcessAlive, RemoveLock, Release, Kill, Goto
    <3> QED
      BY <3>1, <3>2, Zenon
  <2> QED
    BY <2>1, <2>2, <2>3, <2>5, Zenon DEF Next, acquireLock
<1>2. CASE UNCHANGED vars
  BY <1>1, <1>2 DEF vars, LockInv, OneStarter, AtMostOneRunning, RunnerHoldsLock,
                    StarterKnows, CreatorHoldsLock
<1>3. CASE Age
  BY <1>1, <1>3 DEF Age, LockInv, OneStarter, AtMostOneRunning, RunnerHoldsLock,
                    StarterKnows, CreatorHoldsLock, TypeOK, Lock
<1>4. ASSUME NEW p \in Process, Create(p) PROVE LockInv'
  <2>1. /\ pc \in [Process -> Steps \cup {"ended"}] /\ pc[p] \in {"create", "again"}
        /\ pc' = [pc EXCEPT ![p] = "encode"]
    BY <1>4, Zenon DEF Create, Goto, LockInv, TypeOK
  <2>2. lock' \in Lock /\ lock'.pid = p
    BY <1>4, Zenon DEF Create, Lock
  <2>3. \A q \in Process : pc[q] # "running"
    BY <1>4, Zenon DEF Create, LockInv, RunnerHoldsLock
  <2>4. \A q \in Process : pc'[q] # "running" /\ (pc'[q] = "encode" => q = p)
    BY <2>1, <2>3, Zenon DEF LockInv, OneStarter
  <2>5. OneStarter'
    BY <2>1, Zenon DEF LockInv, OneStarter
  <2> QED
    BY <1>1, <2>2, <2>4, <2>5, Zenon
       DEF LockInv, AtMostOneRunning, RunnerHoldsLock, StarterKnows, CreatorHoldsLock
<1>5. ASSUME NEW p \in Process, Encode(p) PROVE LockInv'
  <2>1. /\ pc \in [Process -> Steps \cup {"ended"}] /\ pc[p] = "encode"
        /\ pc' = [pc EXCEPT ![p] = "running"]
    BY <1>5, Zenon DEF Encode, Goto, LockInv, TypeOK
  <2>2. lock \in Lock /\ lock # NoLock /\ lock.pid = p
    BY <1>5, Zenon DEF Encode, LockInv, CreatorHoldsLock, TypeOK
  <2>3. lock' = [lock EXCEPT !.named = TRUE, !.age = "young"]
    BY <1>5, <2>2, Zenon DEF Encode
  <2>4. lock' \in Lock /\ lock'.pid = p /\ lock'.named /\ lock'.age # "stale"
    BY <2>2, <2>3, Zenon DEF Lock
  <2>5. \A q \in Process : q # p => pc'[q] \in {"ended"}
    BY <2>1, Zenon DEF LockInv, StarterKnows, OneStarter
  <2>6. pc'[p] = "running"
    BY <2>1, Zenon
  <2> QED
    BY <1>1, <2>4, <2>5, <2>6, Zenon
       DEF LockInv, OneStarter, AtMostOneRunning, RunnerHoldsLock, StarterKnows,
           CreatorHoldsLock
<1>6. ASSUME NEW p \in Process,
             Heartbeat(p) \/ Start(p) \/ EncodeFault(p) \/ Release(p) \/ Kill(p)
      PROVE  LockInv'
  <2> USE DEF LockInv, OneStarter, AtMostOneRunning, RunnerHoldsLock, StarterKnows,
              CreatorHoldsLock, TypeOK, Lock, Steps
  <2>1. CASE Heartbeat(p)
    BY <1>1, <2>1 DEF Heartbeat
  <2>2. CASE Start(p)
    BY <1>1, <2>2 DEF Start, Goto
  <2>3. CASE EncodeFault(p)
    BY <1>1, <2>3 DEF EncodeFault, End
  <2>4. CASE Release(p)
    BY <1>1, <2>4 DEF Release, End
  <2>5. CASE Kill(p)
    BY <1>1, <2>5 DEF Kill, End
  <2> QED
    BY <1>6, <2>1, <2>2, <2>3, <2>4, <2>5, Zenon
<1>7. ASSUME NEW p \in Process,
             CreateExists(p) \/ StatLock(p) \/ ReadLock(p)
               \/ serviceProcessAlive(p) \/ RemoveLock(p)
      PROVE  LockInv'
  <2> USE DEF LockInv, OneStarter, AtMostOneRunning, RunnerHoldsLock, StarterKnows,
              CreatorHoldsLock, TypeOK, Lock, Steps
  <2>1. CASE CreateExists(p)
    BY <1>1, <2>1 DEF CreateExists, End, Goto
  <2>2. CASE StatLock(p)
    BY <1>1, <2>2 DEF StatLock, End, Goto
  <2>3. CASE ReadLock(p)
    BY <1>1, <2>3 DEF ReadLock, End, Goto
  <2>4. CASE serviceProcessAlive(p)
    BY <1>1, <2>4 DEF serviceProcessAlive, End, Goto
  <2>5. CASE RemoveLock(p)
    BY <1>1, <2>5 DEF RemoveLock, End, Goto
  <2> QED
    BY <1>7, <2>1, <2>2, <2>3, <2>4, <2>5, Zenon
<1> QED
  BY <1>2, <1>3, <1>4, <1>5, <1>6, <1>7, Zenon DEF Next, acquireLock

\* The second instance refuses to start: with starts one after the other and
\* heartbeats in time, a live service is never taken for a stale one.
THEOREM OneConsumer == ~Overlaps /\ ~Stalls /\ Spec => []AtMostOneRunning
<1>1. Init => LockInv
  BY LockAssumption
     DEF LockAssumption, Init, LockInv, TypeOK, OneStarter, AtMostOneRunning,
         RunnerHoldsLock, StarterKnows, CreatorHoldsLock
<1>2. ~Overlaps /\ ~Stalls /\ LockInv /\ [Next]_vars => LockInv'
  BY LockStep, Zenon
<1>3. LockInv => AtMostOneRunning
  BY Zenon DEF LockInv
<1>4. CASE ~Overlaps /\ ~Stalls
  <2>1. LockInv /\ [Next]_vars => LockInv'
    BY <1>2, <1>4, Zenon
  <2> QED
    BY <1>1, <1>3, <2>1, PTL DEF Spec
<1> QED
  BY <1>4, Zenon

-----------------------------------------------------------------------------
\* The workers.

Places ==
  {"off", "create", "stat", "rename", "attempt", "select", "wait", "release", "ended"}

WorkerType ==
  /\ schedulerLock \in [owner : Process \cup {Dead}, left : BOOLEAN, old : BOOLEAN]
                         \cup {NoLock}
  /\ worker \in [Process -> Places]
  /\ tries \in [Process -> Nat]
  /\ stopping \in [Process -> BOOLEAN]
  /\ shutOut \in SUBSET Process

\* Only a running service has a worker.
WorkerRuns == \A p \in Process : worker[p] # "off" => pc[p] = "running"

\* A lock belongs to a worker that is alive, or it was left behind.
LockOwned ==
  schedulerLock # NoLock /\ ~schedulerLock.left =>
    schedulerLock.owner \in Process /\ isLive(schedulerLock.owner)

\* The second try of acquireLock finds no lock.
SecondTry ==
  \A p \in Process :
    /\ worker[p] \in {"stat", "rename"} => tries[p] = 1
    /\ worker[p] = "create" => tries[p] = 1 \/ (tries[p] = 2 /\ schedulerLock = NoLock)

EndHasReason ==
  \A p \in Process : worker[p] \in {"release", "ended"} => stopping[p] \/ p \in shutOut

WorkerInv ==
  /\ AtMostOneRunning
  /\ WorkerType /\ WorkerRuns /\ LockOwned /\ SecondTry /\ EndHasReason

-----------------------------------------------------------------------------
\* Every step of a service with its worker is a step of the service, or none.
LEMMA ServiceRefined == SchedulerNext => [Next]_vars
BY Zenon DEF SchedulerNext, Work, ServiceStep, startWorkers, createLock, createFault, statLock,
       renameStale, attempt, wait, stopWorker, selectLost, releaseLock, heartbeatFails,
       cancelWorkers, endService, killService, schedulerLockAges, Next

\* While a service runs, no other one has a worker.
LEMMA OneWorker ==
  ASSUME WorkerInv, NEW p \in Process, NEW q \in Process, worker[p] # "off",
         worker[q] # "off"
  PROVE  p = q
BY Zenon DEF WorkerInv, AtMostOneRunning, WorkerRuns

LEMMA ServiceStepRuns ==
  ASSUME NEW p \in Process, ServiceStep(p), NEW q \in Process, pc[q] = "running", TypeOK
  PROVE  pc'[q] = "running"
BY Zenon DEF ServiceStep, acquireLock, Create, CreateExists, Encode, EncodeFault, StatLock,
       ReadLock, serviceProcessAlive, RemoveLock, Heartbeat, Start, Goto, End, TypeOK

LEMMA EndsRun ==
  ASSUME TypeOK, NEW p \in Process, Release(p) \/ Kill(p), NEW q \in Process, q # p
  PROVE  pc'[q] = pc[q]
BY Zenon DEF Release, Kill, End, TypeOK

-----------------------------------------------------------------------------
\* The worker's own steps.
LEMMA WorkKeeps ==
  ASSUME WorkerInv, NEW p \in Process, Work(p) \/ heartbeatFails(p)
  PROVE  WorkerInv'
<1> USE DEF works
<1>1. /\ UNCHANGED pc /\ AtMostOneRunning /\ WorkerType /\ WorkerRuns /\ LockOwned
      /\ SecondTry /\ EndHasReason
  BY Zenon DEF WorkerInv, Work, vars, startWorkers, createLock, createFault, statLock, renameStale,
         attempt, wait, stopWorker, selectLost, releaseLock, heartbeatFails
<1>2. AtMostOneRunning'
  BY <1>1, Zenon DEF AtMostOneRunning
<1>3. \A q \in Process : q # p /\ worker[p] # "off" => worker[q] = "off"
  BY OneWorker, Zenon
<1>4. CASE startWorkers(p)
  <2>1. \A q \in Process : q # p => worker[q] = "off"
    BY <1>1, <1>4, Zenon DEF startWorkers, AtMostOneRunning, WorkerRuns
  <2>2. WorkerType'
    BY <1>1, <1>4, <2>1, Zenon DEF Places, startWorkers, WorkerType
  <2>3. WorkerRuns'
    BY <1>1, <1>4, <2>1, Zenon DEF startWorkers, WorkerType, WorkerRuns
  <2>4. LockOwned'
    BY <1>1, <1>3, <1>4, <2>1, Zenon DEF startWorkers, WorkerType, WorkerRuns, LockOwned, isLive
  <2>5. SecondTry'
    BY <1>1, <1>3, <1>4, <2>1, Zenon DEF startWorkers, WorkerType, SecondTry
  <2>6. EndHasReason'
    BY <1>1, <1>4, <2>1, Zenon DEF startWorkers, WorkerType, EndHasReason
  <2> QED
    BY <1>2, <2>2, <2>3, <2>4, <2>5, <2>6, Zenon DEF WorkerInv
<1>5. CASE createLock(p)
  <2>1. WorkerType'
    <3>1. [owner |-> p, left |-> FALSE, old |-> FALSE]
            \in [owner : Process \cup {Dead}, left : BOOLEAN, old : BOOLEAN]
      OBVIOUS
    <3>2. schedulerLock' \in [owner : Process \cup {Dead}, left : BOOLEAN, old : BOOLEAN]
                              \cup {NoLock}
      BY <1>1, <1>5, <3>1, Zenon DEF createLock, WorkerType
    <3>3. worker' \in [Process -> Places]
      BY <1>1, <1>5 DEF Places, createLock, WorkerType
    <3> QED
      BY <1>1, <1>5, <3>2, <3>3, Zenon DEF createLock, WorkerType
  <2>2. WorkerRuns'
    BY <1>1, <1>5, Zenon DEF createLock, WorkerType, WorkerRuns
  <2>3. LockOwned'
    BY <1>1, <1>3, <1>5 DEF createLock, WorkerType, WorkerRuns, LockOwned, isLive
  <2>4. SecondTry'
    BY <1>1, <1>3, <1>5, Zenon DEF createLock, WorkerType, SecondTry
  <2>5. EndHasReason'
    BY <1>1, <1>5, Zenon DEF createLock, WorkerType, EndHasReason
  <2> QED
    BY <1>2, <2>1, <2>2, <2>3, <2>4, <2>5, Zenon DEF WorkerInv
<1>6. CASE createFault(p)
  <2>1. WorkerType'
    BY <1>1, <1>6, Zenon DEF Places, createFault, WorkerType
  <2>2. WorkerRuns'
    BY <1>1, <1>6, Zenon DEF createFault, WorkerType, WorkerRuns
  <2>3. LockOwned'
    BY <1>1, <1>3, <1>6, Zenon DEF createFault, WorkerType, WorkerRuns, LockOwned, isLive
  <2>4. SecondTry'
    BY <1>1, <1>3, <1>6, Zenon DEF createFault, WorkerType, SecondTry
  <2>5. EndHasReason'
    BY <1>1, <1>6, Zenon DEF createFault, WorkerType, EndHasReason
  <2> QED
    BY <1>2, <2>1, <2>2, <2>3, <2>4, <2>5, Zenon DEF WorkerInv
<1>7. CASE statLock(p)
  <2>1. schedulerLock # NoLock /\ worker[p] = "stat" /\ schedulerLock.left \in BOOLEAN
    BY <1>1, <1>7, Zenon DEF statLock, WorkerType
  <2>2. schedulerLock.left
    BY <1>1, <1>3, <2>1, Zenon DEF LockOwned, isLive
  <2>3. WorkerType'
    BY <1>1, <1>7, <2>1, <2>2 DEF Places, statLock, WorkerType
  <2>4. WorkerRuns'
    BY <1>1, <1>7, <2>1, <2>2, Zenon DEF statLock, WorkerType, WorkerRuns
  <2>5. LockOwned'
    BY <1>1, <1>3, <1>7, <2>1, <2>2, Zenon DEF statLock, WorkerType, WorkerRuns, LockOwned, isLive
  <2>6. SecondTry'
    BY <1>1, <1>3, <1>7, <2>1, <2>2, Zenon DEF statLock, WorkerType, SecondTry
  <2>7. EndHasReason'
    BY <1>1, <1>7, <2>1, <2>2, Zenon DEF statLock, WorkerType, EndHasReason
  <2> QED
    BY <1>2, <2>3, <2>4, <2>5, <2>6, <2>7, Zenon DEF WorkerInv
<1>8. CASE renameStale(p)
  <2>1. tries[p] = 1 /\ worker[p] = "rename"
    BY <1>1, <1>8, Zenon DEF renameStale, SecondTry
  <2>2. WorkerType'
    BY <1>1, <1>8, <2>1 DEF Places, renameStale, again, WorkerType
  <2>3. WorkerRuns'
    BY <1>1, <1>8, <2>1, Zenon DEF renameStale, again, WorkerType, WorkerRuns
  <2>4. LockOwned'
    BY <1>1, <1>3, <1>8, <2>1, Zenon DEF renameStale, again, WorkerType, WorkerRuns, LockOwned, isLive
  <2>5. SecondTry'
    BY <1>1, <1>3, <1>8, <2>1 DEF renameStale, again, WorkerType, SecondTry
  <2>6. EndHasReason'
    BY <1>1, <1>8, <2>1 DEF renameStale, again, WorkerType, EndHasReason
  <2> QED
    BY <1>2, <2>2, <2>3, <2>4, <2>5, <2>6, Zenon DEF WorkerInv
<1>9. CASE attempt(p) \/ wait(p)
  <2>1. WorkerType'
    BY <1>1, <1>9, Zenon DEF Places, attempt, wait, WorkerType
  <2>2. WorkerRuns'
    BY <1>1, <1>9, Zenon DEF attempt, wait, WorkerType, WorkerRuns
  <2>3. LockOwned'
    BY <1>1, <1>3, <1>9 DEF attempt, wait, WorkerType, WorkerRuns, LockOwned, isLive
  <2>4. SecondTry'
    BY <1>1, <1>3, <1>9, Zenon DEF attempt, wait, WorkerType, SecondTry
  <2>5. EndHasReason'
    BY <1>1, <1>9, Zenon DEF attempt, wait, WorkerType, EndHasReason
  <2> QED
    BY <1>2, <2>1, <2>2, <2>3, <2>4, <2>5, Zenon DEF WorkerInv
<1>10. CASE stopWorker(p) \/ selectLost(p)
  <2>1. WorkerType'
    BY <1>1, <1>10, Zenon DEF Places, stopWorker, selectLost, WorkerType
  <2>2. WorkerRuns'
    BY <1>1, <1>10, Zenon DEF stopWorker, selectLost, WorkerType, WorkerRuns
  <2>3. LockOwned'
    BY <1>1, <1>3, <1>10 DEF stopWorker, selectLost, WorkerType, WorkerRuns, LockOwned, isLive
  <2>4. SecondTry'
    BY <1>1, <1>3, <1>10, Zenon DEF stopWorker, selectLost, WorkerType, SecondTry
  <2>5. EndHasReason'
    BY <1>1, <1>10, Zenon DEF stopWorker, selectLost, WorkerType, EndHasReason
  <2> QED
    BY <1>2, <2>1, <2>2, <2>3, <2>4, <2>5, Zenon DEF WorkerInv
<1>11. CASE releaseLock(p)
  <2>1. WorkerType'
    BY <1>1, <1>11, Zenon DEF Places, releaseLock, ownsLock, WorkerType
  <2>2. WorkerRuns'
    BY <1>1, <1>11, Zenon DEF releaseLock, ownsLock, WorkerType, WorkerRuns
  <2>3. LockOwned'
    BY <1>1, <1>3, <1>11, Zenon DEF releaseLock, ownsLock, WorkerType, WorkerRuns, LockOwned, isLive
  <2>4. SecondTry'
    BY <1>1, <1>3, <1>11, Zenon DEF releaseLock, ownsLock, WorkerType, SecondTry
  <2>5. EndHasReason'
    BY <1>1, <1>11, Zenon DEF releaseLock, ownsLock, WorkerType, EndHasReason
  <2> QED
    BY <1>2, <2>1, <2>2, <2>3, <2>4, <2>5, Zenon DEF WorkerInv
<1>12. CASE heartbeatFails(p)
  <2>1. WorkerType'
    BY <1>1, <1>12, Zenon DEF Places, heartbeatFails, WorkerType
  <2>2. WorkerRuns'
    BY <1>1, <1>12, Zenon DEF heartbeatFails, WorkerType, WorkerRuns
  <2>3. LockOwned'
    BY <1>1, <1>3, <1>12, Zenon DEF heartbeatFails, WorkerType, WorkerRuns, LockOwned, isLive
  <2>4. SecondTry'
    BY <1>1, <1>3, <1>12, Zenon DEF heartbeatFails, WorkerType, SecondTry
  <2>5. EndHasReason'
    BY <1>1, <1>12, Zenon DEF heartbeatFails, WorkerType, EndHasReason
  <2> QED
    BY <1>2, <2>1, <2>2, <2>3, <2>4, <2>5, Zenon DEF WorkerInv
<1> QED
  BY <1>4, <1>5, <1>6, <1>7, <1>8, <1>9, <1>10, <1>11, <1>12, Zenon DEF Work

\* The steps of the service around it.
LEMMA AroundKeeps ==
  ASSUME WorkerInv, TypeOK, AtMostOneRunning', NEW p \in Process,
         ServiceStep(p) \/ cancelWorkers(p) \/ endService(p) \/ killService(p)
  PROVE  WorkerInv'
<1>1. /\ AtMostOneRunning /\ WorkerType /\ WorkerRuns /\ LockOwned
      /\ SecondTry /\ EndHasReason
  BY Zenon DEF WorkerInv
<1>2. CASE ServiceStep(p)
  <2>1. \A q \in Process : pc[q] = "running" => pc'[q] = "running"
    BY <1>2, ServiceStepRuns, Zenon
  <2> QED
    BY <1>1, <1>2, <2>1, Zenon
       DEF ServiceStep, schedulerVars, WorkerInv, WorkerType, WorkerRuns, LockOwned,
           SecondTry, EndHasReason, isLive
<1>3. CASE cancelWorkers(p)
  BY <1>1, <1>3, Zenon
     DEF cancelWorkers, vars, WorkerInv, WorkerType, WorkerRuns, LockOwned,
         SecondTry, EndHasReason, isLive
<1>4. ASSUME Release(p) \/ Kill(p), NEW killed \in BOOLEAN, leaves(p, killed),
             ~killed => ~isLive(p)
      PROVE  WorkerInv'
  <2>1. \A q \in Process : q # p => pc'[q] = pc[q]
    BY <1>4, EndsRun, Zenon
  <2>2. WorkerType' /\ WorkerRuns'
    BY <1>1, <1>4, <2>1, Zenon DEF Places, leaves, works, ownsLock, WorkerType, WorkerRuns
  <2>3. LockOwned'
    BY <1>1, <1>4, Zenon DEF leaves, works, ownsLock, WorkerType, LockOwned, isLive
  <2>4. SecondTry' /\ EndHasReason'
    BY <1>1, <1>4, Zenon DEF leaves, works, ownsLock, WorkerType, SecondTry, EndHasReason
  <2> QED
    BY <2>2, <2>3, <2>4, Zenon DEF WorkerInv
<1>5. CASE endService(p)
  BY <1>4, <1>5, Zenon DEF endService, isLive
<1>6. CASE killService(p)
  BY <1>4, <1>6, Zenon DEF killService
<1> QED
  BY <1>2, <1>3, <1>5, <1>6, Zenon

\* One step of the composition preserves the invariant.
LEMMA WorkerStep ==
  ASSUME WorkerInv, TypeOK, AtMostOneRunning', [SchedulerNext]_<<vars, schedulerVars>>
  PROVE  WorkerInv'
<1>1. CASE (Age /\ UNCHANGED schedulerVars) \/ UNCHANGED <<vars, schedulerVars>>
  BY <1>1 DEF Age, vars, schedulerVars, WorkerInv, WorkerType, WorkerRuns, LockOwned,
              SecondTry, EndHasReason, isLive
<1>2. CASE schedulerLockAges
  BY <1>2, Zenon DEF schedulerLockAges, vars, WorkerInv, WorkerType, WorkerRuns, LockOwned,
              SecondTry, EndHasReason, isLive
<1>3. ASSUME NEW p \in Process, Work(p) \/ heartbeatFails(p) PROVE WorkerInv'
  BY <1>3, WorkKeeps, Zenon
<1>4. ASSUME NEW p \in Process,
             ServiceStep(p) \/ cancelWorkers(p) \/ endService(p) \/ killService(p)
      PROVE  WorkerInv'
  BY <1>4, AroundKeeps, Zenon
<1> QED
  BY <1>1, <1>2, <1>3, <1>4, Zenon DEF SchedulerNext

\* The services with their workers are services: every behaviour of the
\* composition is one of ServiceLock, whose theorem OneConsumer it inherits.
THEOREM ServicesImplementLock == SchedulerSpec => Spec
<1>1. SchedulerInit => Init
  BY Zenon DEF SchedulerInit
<1>2. [SchedulerNext]_<<vars, schedulerVars>> => [Next]_vars
  BY ServiceRefined, Zenon
<1> QED
  BY <1>1, <1>2, PTL DEF SchedulerSpec, Spec

\* The worker of a service is kept away, or ends, only when the service stops,
\* when a lock was left behind, or when a file operation of its own failed.
THEOREM WorkerIsStarted == ~Overlaps /\ ~Stalls /\ SchedulerSpec => []WorkerStarts
<1>1. SchedulerInit => LockInv /\ WorkerInv
  BY LockAssumption
     DEF SchedulerInit, LockAssumption, Init, LockInv, TypeOK, OneStarter,
         AtMostOneRunning, RunnerHoldsLock, StarterKnows, CreatorHoldsLock,
         WorkerInv, Places, WorkerType, WorkerRuns, LockOwned, SecondTry, EndHasReason
<1>2. CASE ~Overlaps /\ ~Stalls
  <2>1. LockInv /\ WorkerInv /\ [SchedulerNext]_<<vars, schedulerVars>>
          => LockInv' /\ WorkerInv'
    <3> SUFFICES ASSUME LockInv, WorkerInv, [SchedulerNext]_<<vars, schedulerVars>>
                 PROVE  LockInv' /\ WorkerInv'
      OBVIOUS
    <3>1. [Next]_vars
      BY ServiceRefined, Zenon
    <3>2. LockInv'
      BY <1>2, <3>1, LockStep, Zenon
    <3>3. WorkerInv'
      BY <3>2, WorkerStep, Zenon DEF LockInv
    <3> QED
      BY <3>2, <3>3, Zenon
  <2>2. WorkerInv => WorkerStarts
    BY Zenon DEF WorkerInv, EndHasReason, WorkerStarts
  <2> QED
    BY <1>1, <2>1, <2>2, PTL DEF SchedulerSpec
<1> QED
  BY <1>2, Zenon

-----------------------------------------------------------------------------
\* What doctor shows.

StatusType ==
  /\ status \in [state : {"none", "healthy", "backoff", "invalid", "stopped"},
                 untold : BOOLEAN]
  /\ worker \in [Process -> Places]

\* Behind a healthy status is a worker that has not begun to end: one that is to
\* release its lock has replaced the status, or failed to.
HealthyWorks ==
  status.state = "healthy" /\ ~status.untold =>
    \E p \in Process : worker[p] \in {"attempt", "select", "wait"}

HonestInv == StatusType /\ HealthyWorks

\* Writing a status, or failing to.
LEMMA WrittenStatus ==
  ASSUME StatusType, NEW state \in {"healthy", "backoff", "invalid", "stopped"},
         writeStatus(state)
  PROVE  /\ status' \in [state : {"none", "healthy", "backoff", "invalid", "stopped"},
                         untold : BOOLEAN]
         /\ status'.untold \/ status'.state = state
<1>1. CASE status' = [state |-> state, untold |-> FALSE]
  BY <1>1, Zenon
<1>2. CASE status' = [status EXCEPT !.untold = TRUE]
  BY <1>2, Zenon DEF StatusType
<1> QED
  BY <1>1, <1>2, Zenon DEF writeStatus

\* A step of the worker or of the service around it keeps the status honest.
LEMMA HonestProcess ==
  ASSUME HonestInv, NEW p \in Process,
         \/ Work(p) \/ heartbeatFails(p) \/ ServiceStep(p) \/ cancelWorkers(p)
         \/ endService(p) \/ killService(p)
  PROVE  HonestInv'
<1> USE DEF HonestInv, works
<1>1. CASE \/ startWorkers(p) \/ createLock(p) \/ createFault(p) \/ statLock(p)
           \/ renameStale(p) \/ wait(p) \/ releaseLock(p)
  <2>1. /\ status' = status
        /\ \E to \in Places :
             /\ worker' = [worker EXCEPT ![p] = to]
             /\ worker[p] \in {"attempt", "select", "wait"} =>
                  to \in {"attempt", "select", "wait"}
    BY <1>1, Zenon DEF startWorkers, createLock, createFault, statLock, renameStale, again, wait,
                releaseLock, Places
  <2> QED
    BY <2>1 DEF StatusType, HealthyWorks
<1>2. CASE attempt(p)
  <2>1. PICK state \in {"healthy", "backoff", "invalid"} : writeStatus(state)
    BY <1>2, Zenon DEF attempt
  <2>2. worker' = [worker EXCEPT ![p] = "select"]
    BY <1>2, Zenon DEF attempt
  <2>3. worker' \in [Process -> Places] /\ worker'[p] = "select"
    BY <2>2, Zenon DEF StatusType, Places
  <2> QED
    BY <2>1, <2>3, WrittenStatus, Zenon DEF StatusType, HealthyWorks
<1>3. CASE stopWorker(p) \/ heartbeatFails(p)
  <2>1. PICK state \in {"backoff", "stopped"} : writeStatus(state)
    BY <1>3, Zenon DEF stopWorker, heartbeatFails
  <2>2. worker' \in [Process -> Places]
    BY <1>3, Zenon DEF stopWorker, heartbeatFails, StatusType, Places
  <2> QED
    BY <2>1, <2>2, WrittenStatus, Zenon DEF StatusType, HealthyWorks
<1>4. CASE selectLost(p)
  <2>1. /\ status' = [status EXCEPT !.untold = TRUE]
        /\ worker' = [worker EXCEPT ![p] = "release"]
    BY <1>4, Zenon DEF selectLost
  <2> QED
    BY <2>1, Zenon DEF StatusType, HealthyWorks, Places
<1>5. CASE ServiceStep(p) \/ cancelWorkers(p)
  BY <1>5, Zenon DEF ServiceStep, cancelWorkers, schedulerVars, StatusType, HealthyWorks
<1>6. ASSUME NEW killed \in BOOLEAN, leaves(p, killed), ~killed => ~isLive(p)
      PROVE  HonestInv'
  <2>1. /\ worker' = [worker EXCEPT ![p] = "off"]
        /\ status' = [status EXCEPT !.untold = @ \/ (killed /\ isLive(p))]
    BY <1>6, Zenon DEF leaves
  <2>2. StatusType'
    BY <2>1, Zenon DEF StatusType, Places, isLive
  <2>3. HealthyWorks'
    <3>1. /\ status'.state = status.state
          /\ status'.untold = (status.untold \/ (killed /\ isLive(p)))
      BY <2>1, Zenon DEF StatusType
    <3>2. \A q \in Process : q # p => worker'[q] = worker[q]
      BY <2>1, Zenon DEF StatusType
    <3> QED
      BY <1>6, <3>1, <3>2, Zenon DEF HealthyWorks, isLive
  <2> QED
    BY <2>2, <2>3, Zenon
<1>7. CASE endService(p)
  BY <1>6, <1>7, Zenon DEF endService, isLive
<1>8. CASE killService(p)
  BY <1>6, <1>8, Zenon DEF killService
<1> QED
  BY <1>1, <1>2, <1>3, <1>4, <1>5, <1>7, <1>8, Zenon DEF Work

\* doctor calls a connector healthy only while its worker runs, or when the end
\* of the worker left no trace, however services overlap, stall and are killed.
THEOREM DoctorIsHonest == SchedulerSpec => []DoctorHonest
<1>1. SchedulerInit => HonestInv
  BY DEF SchedulerInit, HonestInv, StatusType, HealthyWorks, Places
<1>2. HonestInv /\ [SchedulerNext]_<<vars, schedulerVars>> => HonestInv'
  <2> SUFFICES ASSUME HonestInv, [SchedulerNext]_<<vars, schedulerVars>>
               PROVE  HonestInv'
    OBVIOUS
  <2>1. CASE UNCHANGED <<worker, status>>
    BY <2>1, Zenon DEF HonestInv, StatusType, HealthyWorks
  <2>2. \/ UNCHANGED <<worker, status>>
        \/ \E p \in Process :
             \/ Work(p) \/ heartbeatFails(p) \/ ServiceStep(p) \/ cancelWorkers(p)
             \/ endService(p) \/ killService(p)
    BY Zenon DEF SchedulerNext, schedulerLockAges, schedulerVars
  <2> QED
    BY <2>1, <2>2, HonestProcess, Zenon
<1>3. HonestInv => DoctorHonest
  BY Zenon DEF HonestInv, HealthyWorks, DoctorHonest, isLive
<1> QED
  BY <1>1, <1>2, <1>3, PTL DEF SchedulerSpec
=============================================================================
