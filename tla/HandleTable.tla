----------------------------- MODULE HandleTable -----------------------------
(***************************************************************************)
(* The table of VM region handles with its parts put together: threads     *)
(* that allocate, look up and deallocate regions (kernel/src/sys/VM.cpp,   *)
(* vm/MapEntry.cpp) through the handle manager (handle/Manager.h), whose   *)
(* table is guarded by a reader/writer lock (RwLock) and holds weak        *)
(* pointers (InfoBlock).  The tables of the other handle types work alike. *)
(*                                                                         *)
(* A thread has one SharedPtr, a local of the system call it executes; a   *)
(* region has one in its task's list.  The WeakPtrs are the table's slots. *)
(* The table begins empty; a slot it adds is copied into its vector, which *)
(* counts no weak reference (Vector::push_back takes it by value).         *)
(* What a region maps, and the pages ~MapEntry frees, are in VmMap.        *)
(***************************************************************************)
EXTENDS RwLock, InfoBlock, Sequences

CONSTANT Calls           \* what each thread calls: alloc, get (VmRegionMap ...), dealloc

Slots == WeakPtrs

ASSUME TableAssumption ==
    /\ SharedPtrs = Threads \cup Objects
    /\ Threads \cap Objects = {}
    /\ Slots = 1..Cardinality(Slots)

VARIABLES size, epoch,   \* of the table; of each slot
          handle,        \* the handle each region was given
          pc,            \* where each thread is in its system call
          target         \* the region whose handle it looks up

tableVars == <<size, epoch, handle>>
callVars == <<pc, target>>
vars == <<lockVars, ptrVars, tableVars, callVars>>

NoHandle == <<0, 0>>
Pcs == {"idle", "make", "making", "register", "get", "load", "cas", "got", "use",
        "destroy", "release", "released", "unlink"}

Init ==
    /\ InitLock /\ InitPtrs
    /\ size = 0
    /\ epoch = [i \in Slots |-> 0]
    /\ handle = [o \in Objects |-> NoHandle]
    /\ pc = [t \in Threads |-> "idle"]
    /\ target = [t \in Threads |-> None]

Goto(t, from, to) == pc[t] = from /\ pc' = [pc EXCEPT ![t] = to]
----------------------------------------------------------------------------
\* VmAllocAnonRegion: a new region with its first SharedPtr ...
VmAlloc(t, o) ==
    /\ "alloc" \in Calls[t]
    /\ Cardinality({x \in Objects : obj[x] = "live"}) < Cardinality(Slots)   \* bound
    /\ Goto(t, "idle", "make")
    /\ NewShared(t, o)
    /\ UNCHANGED <<lockVars, tableVars, target>>

MakeHandle(t) ==
    /\ Goto(t, "make", "making")
    /\ WrLock(t)
    /\ UNCHANGED <<ptrVars, tableVars, target>>

\* expired(): also true of an empty WeakPtr.
Expired(i) == weak[i] = None \/ useCount[weak[i]] = 0
Free == {i \in 1..size : Expired(i)}

\* ... the first free slot, or a new one: the slot is copied into the vector ...
AllocateSameEpoch(t) ==
    /\ Goto(t, "making", "register")
    /\ LET i == IF Free = {} THEN size + 1 ELSE CHOOSE i \in Free : \A j \in Free : i <= j
       IN  /\ i \in Slots
           /\ IF Free = {} THEN size' = i /\ CopyWeak(i, shared[t]) /\ UNCHANGED epoch
              ELSE AssignWeak(i, shared[t]) /\ UNCHANGED <<size, epoch>>
           /\ handle' = [handle EXCEPT ![shared[t]] = <<i, epoch'[i]>>]
    /\ WrUnlock(t)
    /\ UNCHANGED target
AllocateCopied(t) ==
    /\ Goto(t, "making", "register")
    /\ LET i == IF Free = {} THEN size + 1 ELSE CHOOSE i \in Free : \A j \in Free : i <= j
       IN  /\ i \in Slots
           /\ IF Free = {} THEN size' = i /\ CopyWeak(i, shared[t]) /\ UNCHANGED epoch
              ELSE /\ CopyWeak(i, shared[t])
                   /\ epoch' = [epoch EXCEPT ![i] = @ + 1]
                   /\ UNCHANGED size
           /\ handle' = [handle EXCEPT ![shared[t]] = <<i, epoch'[i]>>]
    /\ WrUnlock(t)
    /\ UNCHANGED target
Allocate(t) ==
    /\ Goto(t, "making", "register")
    /\ LET i == IF Free = {} THEN size + 1 ELSE CHOOSE i \in Free : \A j \in Free : i <= j
       IN  /\ i \in Slots
           /\ IF Free = {} THEN size' = i /\ CopyWeak(i, shared[t]) /\ UNCHANGED epoch
              ELSE /\ AssignWeak(i, shared[t])
                   /\ epoch' = [epoch EXCEPT ![i] = @ + 1]
                   /\ UNCHANGED size
           /\ handle' = [handle EXCEPT ![shared[t]] = <<i, epoch'[i]>>]
    /\ WrUnlock(t)
    /\ UNCHANGED target

\* ... and addVmRegion: the task's list gets a SharedPtr.
AddVmRegion(t) ==
    /\ Goto(t, "register", "use")
    /\ lockPc[t] = "out"
    /\ CopyShared(shared[t], t)
    /\ UNCHANGED <<lockVars, tableVars, target>>
----------------------------------------------------------------------------
\* getVmObject, with a handle that may have gone stale: under the read lock ...
GetVmObject(t, o) ==
    /\ Calls[t] \cap {"get", "dealloc"} # {}
    /\ Goto(t, "idle", "get")
    /\ handle[o] # NoHandle
    /\ target' = [target EXCEPT ![t] = o]
    /\ RdLock(t)
    /\ UNCHANGED <<ptrVars, tableVars>>

\* ... compare the epochs ...
GetEpoch(t) ==
    /\ lockPc[t] = "reading"
    /\ LET h == handle[target[t]]
       IN  Goto(t, "get", IF epoch[h[1]] = h[2] THEN "load" ELSE "got")
    /\ UNCHANGED <<lockVars, ptrVars, tableVars, target>>

\* ... and lock the weak pointer.
GetLoad(t) ==
    LET i == handle[target[t]][1] IN
    \/ Goto(t, "load", "cas") /\ LockLoad(t, i) /\ UNCHANGED <<lockVars, tableVars, target>>
    \/ /\ Goto(t, "load", "got")
       /\ Expired(i)
       /\ UNCHANGED <<lockVars, ptrVars, tableVars, target>>

GetCas(t) ==
    /\ pc[t] = "cas"
    /\ LockCas(t)
    /\ pc' = [pc EXCEPT ![t] = IF phase'[t] = "cas" THEN "cas" ELSE "got"]
    /\ UNCHANGED <<lockVars, tableVars, target>>

GetUnlock(t) ==
    /\ Goto(t, "got", IF shared[t] = None THEN "idle" ELSE "use")
    /\ RdUnlock(t)
    /\ target' = [target EXCEPT ![t] = None]
    /\ UNCHANGED <<ptrVars, tableVars>>
----------------------------------------------------------------------------
\* VmDealloc takes the region out of its task's list.
RemoveVmRegion(t) ==
    /\ "dealloc" \in Calls[t]
    /\ pc[t] = "use"
    /\ shared[shared[t]] # None
    /\ DropShared(shared[t])
    /\ UNCHANGED <<lockVars, tableVars, callVars>>

\* The system call returns and its SharedPtr goes; the last one runs ~MapEntry ...
Return(t) ==
    /\ Goto(t, "use", IF useCount[shared[t]] = 1 THEN "destroy" ELSE "idle")
    /\ DropShared(t)
    /\ UNCHANGED <<lockVars, tableVars, target>>

ReleaseHandle(t) ==
    /\ Goto(t, "destroy", "release")
    /\ WrLock(t)
    /\ UNCHANGED <<ptrVars, tableVars, target>>

\* ... which releases the handle, unless the slot has a new owner already ...
Release(t) ==
    /\ Goto(t, "release", "released")
    /\ LET i == handle[shared[t]][1] IN
       IF epoch[i] = handle[shared[t]][2]
       THEN DropWeak(i) /\ epoch' = [epoch EXCEPT ![i] = @ + 1]
       ELSE UNCHANGED <<ptrVars, epoch>>
    /\ WrUnlock(t)
    /\ UNCHANGED <<size, handle, target>>

\* ... and destroys the rest of the region; the info block comes last.
Destroyed(t) ==
    /\ Goto(t, "released", "unlink")
    /\ lockPc[t] = "out"
    /\ DestroyEnd(t)
    /\ UNCHANGED <<lockVars, tableVars, target>>

Unlinked(t) ==
    /\ Goto(t, "unlink", "idle")
    /\ Unlink(t)
    /\ UNCHANGED <<lockVars, tableVars, target>>
----------------------------------------------------------------------------
\* What a thread does without being asked: all but the start of a system call.
Proceed(t) ==
    \/ MakeHandle(t) \/ Allocate(t) \/ AddVmRegion(t)
    \/ GetEpoch(t) \/ GetLoad(t) \/ GetCas(t) \/ GetUnlock(t)
    \/ Return(t) \/ ReleaseHandle(t) \/ Release(t) \/ Destroyed(t) \/ Unlinked(t)
    \/ LockStep(t) /\ UNCHANGED <<ptrVars, tableVars, callVars>>

Next == \E t \in Threads : \/ \E o \in Objects : VmAlloc(t, o) \/ GetVmObject(t, o)
                           \/ RemoveVmRegion(t)
                           \/ Proceed(t)

Spec == Init /\ [][Next]_vars /\ \A t \in Threads : WF_vars(Proceed(t))
----------------------------------------------------------------------------
TypeOK ==
    /\ LockTypeOK /\ PtrTypeOK
    /\ size \in 0..Cardinality(Slots)
    /\ epoch \in [Slots -> Nat]
    /\ handle \in [Objects -> (Slots \cup {0}) \X Nat]
    /\ pc \in [Threads -> Pcs]
    /\ target \in [Threads -> Objects \cup {None}]

(***************************************************************************)
(* A lookup yields the region its handle was made for, or nothing: between   *)
(* the epoch check and the locked weak pointer the slot has not changed    *)
(* hands, and a handle of a region that is gone names no later one.          *)
(***************************************************************************)
LookupTrue ==
    /\ TypeOK
    /\ \A t \in Threads : pc[t] = "got" /\ shared[t] # None => shared[t] = target[t]

(***************************************************************************)
(* No leak: a region nobody holds any more is destroyed and its info block   *)
(* freed, however lookups of its handle and new regions get in between.      *)
(***************************************************************************)
RegionReclaimed == \A o \in Objects : obj[o] = "dying" ~> info[o] = "freed"

(***************************************************************************)
(* The lock of the table lets threads in in the order they came, and the   *)
(* first in line does not wait for ever: it implements FifoRwLock.         *)
(***************************************************************************)
FirstComeFirstServed == Fifo!Spec

(***************************************************************************)
(* The table uses its pointers as SmartPointers.h expects: every step is   *)
(* one of InfoBlock's, none of which changes a WeakPtr that is locked or   *)
(* makes one of an object nobody holds.                                    *)
(***************************************************************************)
PointersUsedRight == SpecPtrs
=============================================================================
