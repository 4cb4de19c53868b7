-------------------------------- MODULE Clock --------------------------------
(***************************************************************************)
(* The wall clock that the processes of one composition share.  Times are  *)
(* naturals; 0 is Go's zero time.                                          *)
(***************************************************************************)
VARIABLES
  now     \* the wall clock

ZeroTime == 0
=============================================================================
