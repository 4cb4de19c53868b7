---------------------------- MODULE MCQueueRetry ----------------------------
(***************************************************************************)
(* Small instances of QueueRetry for TLC.                                  *)
(***************************************************************************)
EXTENDS QueueRetry

CONSTANTS t1, legacy, none

MCTargets == {t1}
MCShortBackoff == <<1>>
=============================================================================
