----------------------------- MODULE ServiceLock -----------------------------
(***************************************************************************)
(* The lock file that keeps a second service away from the spool           *)
(* (service/lock.go), as several service processes use it.  Creating the   *)
(* file and writing the PID into it are two steps; so are looking at a     *)
(* lock and removing it.  A process that ends is followed by another with  *)
(* a PID of its own, so a lock names a live process or a dead one.         *)
(***************************************************************************)
EXTENDS Naturals

CONSTANTS
  Process,      \* slots for service processes
  NoLock,       \* no lock file
  Dead,         \* the PID of a process that is gone
  Overlaps,     \* a service may be started while another one is starting
  Stalls,       \* a running service may miss its heartbeats for 15 seconds
  MaxKills      \* bound: killed services

ASSUME LockAssumption ==
  /\ Dead \notin Process
  /\ Overlaps \in BOOLEAN /\ Stalls \in BOOLEAN /\ MaxKills \in Nat

VARIABLES
  lock,     \* NoLock, or the PID in it, whether it is written, and its age
  pc,       \* per process, where it is
  who,      \* per process, the PID it read from the lock
  kills     \* history: killed services

vars == <<lock, pc, who, kills>>

Lock == [pid : Process \cup {Dead}, named : BOOLEAN,
         age : {"young", "due", "stale"}]

ASSUME NoLockAssumption == NoLock \notin Lock

Steps == {"create", "encode", "stat", "read", "alive", "remove", "again", "running"}

Init ==
  /\ lock = NoLock /\ kills = 0
  /\ pc = [p \in Process |-> "ended"]
  /\ who = [p \in Process |-> Dead]

\* p ends: what still names its PID names a process that is gone.
End(p, file) ==
  /\ pc' = [pc EXCEPT ![p] = "ended"]
  /\ who' = [q \in Process |-> IF q = p \/ who[q] = p THEN Dead ELSE who[q]]
  /\ lock' = IF file # NoLock /\ file.pid = p THEN [file EXCEPT !.pid = Dead] ELSE file

Goto(p, to) == pc' = [pc EXCEPT ![p] = to]

-----------------------------------------------------------------------------
\* acquireLock.

\* O_EXCL, at the first try and again after a stale lock was removed.
Create(p) ==
  /\ pc[p] \in {"create", "again"}
  /\ lock = NoLock
  /\ lock' = [pid |-> p, named |-> FALSE, age |-> "young"]
  /\ Goto(p, "encode")
  /\ UNCHANGED <<who, kills>>

CreateExists(p) ==
  /\ lock # NoLock
  /\ \/ pc[p] = "create" /\ Goto(p, "stat") /\ UNCHANGED <<lock, who>>
     \/ pc[p] = "again" /\ End(p, lock)
  /\ UNCHANGED kills

\* The PID goes into the file that was opened, wherever its name is now.
Encode(p) ==
  /\ pc[p] = "encode"
  /\ lock' = IF lock # NoLock /\ lock.pid = p
             THEN [lock EXCEPT !.named = TRUE, !.age = "young"] ELSE lock
  /\ Goto(p, "running")
  /\ UNCHANGED <<who, kills>>

\* A failed write leaves the lock file behind.
EncodeFault(p) ==
  /\ pc[p] = "encode"
  /\ End(p, lock)
  /\ UNCHANGED kills

\* Mutant: no lock is ever stale.
StatLockNeverStale(p) ==
  /\ pc[p] = "stat"
  /\ \/ lock = NoLock /\ End(p, lock)
     \/ lock # NoLock /\ Goto(p, "read") /\ UNCHANGED <<lock, who>>
  /\ UNCHANGED kills

StatLock(p) ==
  /\ pc[p] = "stat"
  /\ \/ lock = NoLock /\ End(p, lock)
     \/ /\ lock # NoLock
        /\ Goto(p, IF lock.age = "stale" THEN "remove" ELSE "read")
        /\ UNCHANGED <<lock, who>>
  /\ UNCHANGED kills

ReadLock(p) ==
  /\ pc[p] = "read"
  /\ \/ (IF lock = NoLock THEN TRUE ELSE ~lock.named) /\ End(p, lock)
     \/ /\ lock # NoLock /\ lock.named
        /\ who' = [who EXCEPT ![p] = lock.pid]
        /\ Goto(p, "alive")
        /\ UNCHANGED lock
  /\ UNCHANGED kills

\* Mutant: the lock of a live process is removed.
serviceProcessAliveIgnored(p) ==
  /\ pc[p] = "alive"
  /\ Goto(p, "remove")
  /\ UNCHANGED <<lock, who, kills>>

serviceProcessAlive(p) ==
  /\ pc[p] = "alive"
  /\ \/ who[p] # Dead /\ End(p, lock)
     \/ who[p] = Dead /\ Goto(p, "remove") /\ UNCHANGED <<lock, who>>
  /\ UNCHANGED kills

\* Whatever lock has the name by now is removed.
RemoveLock(p) ==
  /\ pc[p] = "remove"
  /\ \/ lock = NoLock /\ End(p, lock)
     \/ lock # NoLock /\ lock' = NoLock /\ Goto(p, "again") /\ UNCHANGED who
  /\ UNCHANGED kills

-----------------------------------------------------------------------------
\* Run, and the end of a process.

\* The heartbeat touches the file by its name.
Heartbeat(p) ==
  /\ pc[p] = "running"
  /\ lock # NoLock /\ lock.age # "young"
  /\ lock' = [lock EXCEPT !.age = "young"]
  /\ UNCHANGED <<pc, who, kills>>

\* Release removes it by its name, too.
Release(p) ==
  /\ pc[p] = "running"
  /\ End(p, NoLock)
  /\ UNCHANGED kills

Kill(p) ==
  /\ pc[p] \in Steps /\ kills < MaxKills
  /\ kills' = kills + 1
  /\ End(p, lock)

\* The next process in the slot: the service manager's, or another terminal's.
Start(p) ==
  /\ pc[p] = "ended"
  /\ Overlaps \/ \A q \in Process : pc[q] \in {"ended", "running"}
  /\ Goto(p, "create")
  /\ UNCHANGED <<lock, who, kills>>

\* Three heartbeats fit into the 15 seconds after which a lock is stale, and a
\* lock that is being written is new.
Age ==
  /\ lock # NoLock
  /\ \/ lock.age = "young" /\ lock' = [lock EXCEPT !.age = "due"]
     \/ /\ lock.age = "due"
        /\ Stalls \/ \A p \in Process : pc[p] \notin {"encode", "running"}
        /\ lock' = [lock EXCEPT !.age = "stale"]
  /\ UNCHANGED <<pc, who, kills>>

-----------------------------------------------------------------------------
acquireLock(p) ==
  \/ Create(p) \/ CreateExists(p) \/ Encode(p) \/ EncodeFault(p) \/ StatLock(p)
  \/ ReadLock(p) \/ serviceProcessAlive(p) \/ RemoveLock(p)

Next ==
  \/ \E p \in Process :
       acquireLock(p) \/ Heartbeat(p) \/ Release(p) \/ Kill(p) \/ Start(p)
  \/ Age

Spec == Init /\ [][Next]_vars

\* A started process goes on, its write of the lock does not fail for ever, the
\* service manager starts it again when it ends, and time passes.
FairSpec ==
  /\ Spec
  /\ \A p \in Process :
       WF_vars(acquireLock(p)) /\ SF_vars(Encode(p)) /\ WF_vars(Start(p))
  /\ WF_vars(Age)

-----------------------------------------------------------------------------
\* Type correctness.
TypeOK ==
  /\ lock \in Lock \cup {NoLock}
  /\ pc \in [Process -> Steps \cup {"ended"}]
  /\ who \in [Process -> Process \cup {Dead}]
  /\ kills \in 0 .. MaxKills

\* At most one service consumes the spool: the second instance refuses to start.
AtMostOneRunning ==
  \A p, q \in Process : pc[p] = "running" /\ pc[q] = "running" => p = q

\* A lock that a killed service, or a failed write, left behind does not keep
\* the service down: again and again one is running.
ServiceComesBack == []<>(\E p \in Process : pc[p] = "running")
=============================================================================
