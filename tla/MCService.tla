------------------------------ MODULE MCService ------------------------------
(***************************************************************************)
(* Small instances of Service for TLC.                                     *)
(***************************************************************************)
EXTENDS Service, TLC

CONSTANTS t1, t2, legacy, none

MCTargets == {t1, t2}
MCOneTarget == {t1}
MCLongBackoff == <<2, 1, 2>>   \* longer than the lease of the run that uses it
MCShortBackoff == <<1>>

\* The targets are interchangeable: no definition names one of them.
TargetSymmetry == Permutations(MCTargets)
=============================================================================
