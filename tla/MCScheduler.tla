---------------------------- MODULE MCScheduler ----------------------------
(* Small instances of Scheduler: all threads start at level 0, and either b *)
(* is paused at first, or c is created by one of the others.                *)
EXTENDS Scheduler

CONSTANTS a, b, c

AllAtZero == [t \in Threads |-> 0]
StartTwo == [t \in Threads |-> IF t = c THEN "New" ELSE "Runnable"]
StartPaused == [t \in Threads |-> IF t = b THEN "Paused" ELSE "Runnable"]
============================================================================
