----------------------------- MODULE MCScheduler -----------------------------
(***************************************************************************)
(* Instances of Scheduler: three service processes, two of which may be    *)
(* killed.                                                                 *)
(***************************************************************************)
EXTENDS Scheduler
=============================================================================
