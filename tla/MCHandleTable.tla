---------------------------- MODULE MCHandleTable ----------------------------
(***************************************************************************)
(* One thread allocates two regions, one after the other, the second looks   *)
(* them up and deallocates them, the third looks them up.                  *)
(***************************************************************************)
EXTENDS HandleTable, TLC

CONSTANTS t1, t2, t3, r1, r2

MCThreads == {t1, t2, t3}
MCRegions == {r1, r2}
MCSharedPtrs == MCThreads \cup MCRegions
MCSlots == {1}
MCCalls == t1 :> {"alloc"} @@ t2 :> {"dealloc"} @@ t3 :> {"get"}
=============================================================================
