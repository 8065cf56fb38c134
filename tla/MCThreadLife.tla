---------------------------- MODULE MCThreadLife ----------------------------
(* Small instances of ThreadLife: a and b share a task; c has one of its own. *)
EXTENDS ThreadLife

CONSTANTS a, b, c, P, Q

TwoTasks == [t \in Threads |-> IF t = c THEN Q ELSE P]
All == [t \in Threads |-> AllCalls]
JoinOnly == [t \in Threads |-> {"join", "destroy"}]
TwoOneOne == [t \in Threads |-> IF t = a THEN 2 ELSE 1]
AllRun == [t \in Threads |-> "Runnable"]
OneNew == [t \in Threads |-> IF t = b THEN "New" ELSE "Runnable"]
=============================================================================
