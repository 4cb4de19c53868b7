----------------------------- MODULE StorageLock -----------------------------
(***************************************************************************)
(* The lock files of the relay's stores (relay/storage.go), as operators   *)
(* on a function lock from names to NoLock or a lock file.  A lock file    *)
(* holds its owner's random token, so it is named by the owner.  Its age   *)
(* is one fact, old: its last write is more than storageLockStale ago.     *)
(* The 5 s a waiter is willing to wait are over whenever it gives up.      *)
(***************************************************************************)
CONSTANTS NoLock

LockFile(p) == [owner |-> p, old |-> FALSE]

isHeld(lock, n) == lock[n] # NoLock
isStale(lock, n) == isHeld(lock, n) /\ lock[n].old

\* O_CREATE|O_EXCL, then the token is written.
created(lock, n, p) == [lock EXCEPT ![n] = LockFile(p)]

\* A stale lock is removed by its name, whoever owns it by then.
removed(lock, n) == [lock EXCEPT ![n] = NoLock]

\* ownedStorageLockRelease removes the lock only if it holds p's token.
released(lock, n, p) ==
  IF isHeld(lock, n) /\ lock[n].owner = p THEN removed(lock, n) ELSE lock

aged(lock, n) == [lock EXCEPT ![n].old = TRUE]
=============================================================================
