----------------------------- MODULE MCScheduler ----------------------------
(* An instance of Scheduler: two occurrences in a row and a pause.           *)
EXTENDS Scheduler

InARow == {0, 1}
=============================================================================
