-------------------------- MODULE MCTaskScheduler --------------------------
(* TaskScheduler for TLC.  Runs share only the list, which they copy, and  *)
(* the flag; the proofs cover any number of them, so one is run here with  *)
(* more tasks.                                                             *)
EXTENDS TaskScheduler
============================================================================
