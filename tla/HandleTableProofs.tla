-------------------------- MODULE HandleTableProofs --------------------------
(***************************************************************************)
(* Theorems about the handle table with its lock and its pointers, for any *)
(* number of threads, regions and slots.  The lock of the table is used as *)
(* RwLock says, and the pointers as InfoBlock says, so the theorems about  *)
(* both apply; and a lookup finds the region its handle was made for.      *)
(***************************************************************************)
EXTENDS HandleTable, RwLockProofs, InfoBlockProofs, WellFoundedInduction

Inserting == {"make", "making"}
Looking == {"get", "load", "cas", "got"}
Named(o) == handle[o] # NoHandle

\* Where a thread is in its call, at the lock, and with its pointer.
AtLock(t) ==
    /\ pc[t] \in {"idle", "make", "use", "destroy", "unlink"} => lockPc[t] = "out"
    /\ pc[t] \in {"making", "release"} => lockPc[t] \in {"wrwait", "writing"}
    /\ pc[t] = "get" => lockPc[t] \in {"rdwait", "rdinc", "reading"}
    /\ pc[t] \in {"load", "cas", "got"} => lockPc[t] = "reading"
    /\ pc[t] \in {"register", "released"} => lockPc[t] \in {"wrstore", "out"}

AtPointer(t) ==
    /\ pc[t] \in {"idle", "get", "load"} => phase[t] = "idle" /\ shared[t] = None
    /\ pc[t] \in {"make", "making", "register", "use"} => phase[t] = "idle" /\ shared[t] \in Objects
    /\ pc[t] = "cas" => phase[t] = "cas" /\ via[t] = handle[target[t]][1]
    /\ pc[t] = "got" => phase[t] = "idle"
    /\ pc[t] \in {"destroy", "release", "released"} => phase[t] = "destroy"
    /\ pc[t] = "unlink" => phase[t] = "unlink"

\* Whoever has a region, or looks for it, has its handle, except while it is made.
HasHandle(t) ==
    /\ pc[t] \in Inserting => ~Named(shared[t])
    /\ pc[t] \in {"register", "use", "destroy", "release", "released"} => Named(shared[t])
    /\ pc[t] \in Looking => target[t] \in Objects /\ Named(target[t])

\* Under the read lock the epoch compared stays the one found.
Lookup(t) ==
    /\ pc[t] \in {"load", "cas"} => handle[target[t]][2] = epoch[handle[target[t]][1]]
    /\ pc[t] = "got" /\ shared[t] # None => shared[t] = target[t]

ThreadOK(t) == AtLock(t) /\ AtPointer(t) /\ HasHandle(t) /\ Lookup(t)

\* A region's own pointer is copied and dropped, and never the last one.
RegionPointers == \A o \in Objects : phase[o] = "idle" /\ shared[o] \in {o, None}

\* A region without a handle is known to the thread that makes it only.
Unnamed == \A o \in Objects : ~Named(o) =>
    /\ \A w \in Slots : weak[w] # o
    /\ \A s, r \in SharedPtrs : shared[s] = o /\ shared[r] = o => s = r

\* Handles: the slot is one of the table's, and its epoch has not been behind the handle's
\* since; as long as they are equal the slot is the region's.
Handles == \A o \in Objects : Named(o) =>
    /\ obj[o] # "none" /\ handle[o][1] \in Slots
    /\ handle[o][2] <= epoch[handle[o][1]]
    /\ handle[o][2] = epoch[handle[o][1]] => weak[handle[o][1]] = o

\* The table has its first slots: no handle names another one, and the others are unused.
Sized ==
    /\ size \in Nat /\ size <= Cardinality(Slots)
    /\ \A o \in Objects : Named(o) => handle[o][1] <= size
    /\ \A i \in Slots : i > size => weak[i] = None

TableType ==
    /\ epoch \in [Slots -> Nat]
    /\ handle \in [Objects -> (Slots \cup {0}) \X Nat]
    /\ pc \in [Threads -> Pcs]
    /\ target \in [Threads -> Objects \cup {None}]

TableInv ==
    /\ TableType /\ RegionPointers /\ Unnamed /\ Handles /\ Sized
    /\ \A t \in Threads : ThreadOK(t)

HInv == LockInv /\ PtrInv /\ TableInv
----------------------------------------------------------------------------
\* Threads, regions and slots are told apart.
LEMMA Apart ==
    /\ \A t \in Threads : t \in SharedPtrs /\ t \notin Objects
    /\ \A o \in Objects : o \in SharedPtrs /\ o # None
    /\ \A w \in Slots : w \in WeakPtrs /\ w # None /\ w \in Nat /\ w # 0
    /\ Cardinality(Slots) \in Nat /\ Slots = 1..Cardinality(Slots)
<1>1. Cardinality(Slots) \in Nat
  BY Zenon, FS_CardinalityType, PtrAssumption DEF Slots
<1> QED
  BY <1>1, TableAssumption, PtrAssumption DEF Slots

\* The scan for a free slot starts at the front: there is a first one.
LEMMA LeastExists ==
    ASSUME NEW S \in SUBSET Nat, S # {}
    PROVE  \E x \in S : \A y \in S : x <= y
<1> DEFINE R == OpToRel(<, Nat)
<1>1. IsWellFoundedOn(R, Nat)
  BY Zenon, NatLessThanWellFounded
<1>2. \A x, y \in Nat : <<y, x>> \in R <=> y < x
  BY Zenon DEF OpToRel
<1> HIDE DEF R
<1>3. PICK x \in S : \A y \in S : ~ (<<y, x>> \in R)
  BY Zenon, <1>1, WFMin
<1>4. ASSUME NEW y \in S PROVE x <= y
  <2>1. x \in Nat /\ y \in Nat /\ ~ (y < x)
    BY Zenon, <1>2, <1>3
  <2> QED
    BY <2>1
<1> QED
  BY Zenon, <1>4

\* Every step is a step of the lock, or leaves the lock alone.
LEMMA StepIsLock == [Next]_vars => [NextLock]_lockVars
<1> SUFFICES ASSUME [Next]_vars PROVE [NextLock]_lockVars
  BY Zenon
<1>1. CASE UNCHANGED vars
  BY Zenon, <1>1 DEF vars
<1>2. CASE Next
  <2> PICK t \in Threads : \/ \E o \in Objects : VmAlloc(t, o) \/ GetVmObject(t, o)
                           \/ RemoveVmRegion(t)
                           \/ Proceed(t)
    BY Zenon, <1>2 DEF Next
  <2>1. CASE \E o \in Objects : VmAlloc(t, o) \/ GetVmObject(t, o)
    BY Zenon, <2>1 DEF VmAlloc, GetVmObject, NextLock
  <2>2. CASE RemoveVmRegion(t)
    BY Zenon, <2>2 DEF RemoveVmRegion
  <2>3. CASE MakeHandle(t) \/ Allocate(t) \/ AddVmRegion(t)
    BY Zenon, <2>3 DEF MakeHandle, Allocate, AddVmRegion, NextLock
  <2>4. CASE GetEpoch(t) \/ GetLoad(t) \/ GetCas(t) \/ GetUnlock(t)
    BY Zenon, <2>4 DEF GetEpoch, GetLoad, GetCas, GetUnlock, NextLock
  <2>5. CASE Return(t) \/ ReleaseHandle(t) \/ Release(t) \/ Destroyed(t) \/ Unlinked(t)
    BY Zenon, <2>5 DEF Return, ReleaseHandle, Release, Destroyed, Unlinked, NextLock
  <2>6. CASE LockStep(t)
    BY Zenon, <2>6 DEF NextLock
  <2> QED
    BY <2>1, <2>2, <2>3, <2>4, <2>5, <2>6 DEF Proceed
<1> QED
  BY Zenon, <1>1, <1>2

\* Whoever changes a slot has the write lock, so that nobody is inside lock() of its pointer.
LEMMA WriterFindsStill ==
    ASSUME HInv, NEW t \in Threads, lockPc[t] = "writing", NEW w \in Slots
    PROVE  Still(w)
<1>1. t \in Writers
  BY Zenon DEF Writers
<1>2. Readers = {}
  BY Zenon, <1>1, WriterAlone DEF HInv
<1> SUFFICES ASSUME NEW s \in SharedPtrs, via[s] = w PROVE FALSE
  BY Zenon DEF Still
<1>3. phase[s] = "cas"
  BY Zenon, Apart, Typed DEF HInv, Locking
<1>4. CASE s \in Objects
  BY Zenon, <1>3, <1>4 DEF HInv, TableInv, RegionPointers
<1>5. CASE s \in Threads
  <2>1. pc[s] = "cas"
    BY Zenon, <1>3, <1>5 DEF HInv, TableInv, TableType, ThreadOK, AtPointer, Pcs
  <2>2. s \in Readers
    BY Zenon, <1>5, <2>1 DEF HInv, TableInv, ThreadOK, AtLock, Readers
  <2> QED
    BY Zenon, <1>2, <2>2
<1> QED
  BY Zenon, <1>4, <1>5, TableAssumption

\* The slot a new region gets: one that is free, assigned and with a new epoch, or the next one,
\* copied.  No handle has it with the epoch it gets.
Reused(i, o) == /\ AssignWeak(i, o)
                /\ epoch' = [epoch EXCEPT ![i] = @ + 1]
                /\ size' = size /\ i <= size
Pushed(i, o) == /\ CopyWeak(i, o) /\ weak[i] = None
                /\ epoch' = epoch
                /\ size' = size + 1 /\ i = size + 1

LEMMA SlotChosen ==
    ASSUME HInv, NEW t \in Threads, Allocate(t)
    PROVE  \E i \in Slots : /\ Still(i)
                            /\ shared[t] \in Objects /\ Holds(t, shared[t])
                            /\ ~Named(shared[t])
                            /\ Reused(i, shared[t]) \/ Pushed(i, shared[t])
                            /\ handle' = [handle EXCEPT ![shared[t]] = <<i, epoch'[i]>>]
<1> DEFINE i == IF Free = {} THEN size + 1 ELSE CHOOSE j \in Free : \A k \in Free : j <= k
<1>0. size \in Nat /\ size <= Cardinality(Slots)
  BY Zenon DEF HInv, TableInv, Sized
<1>1. /\ i \in Slots
      /\ IF Free = {} THEN size' = i /\ CopyWeak(i, shared[t]) /\ UNCHANGED epoch
         ELSE /\ AssignWeak(i, shared[t])
              /\ epoch' = [epoch EXCEPT ![i] = @ + 1]
              /\ UNCHANGED size
      /\ handle' = [handle EXCEPT ![shared[t]] = <<i, epoch'[i]>>]
  BY Zenon DEF Allocate
<1>2. Free \subseteq Nat /\ \A j \in Free : j <= size
  BY <1>0 DEF Free
<1>3. Free # {} => i \in Free
  <2>1. Free # {} => \E j \in Free : \A k \in Free : j <= k
    BY Zenon, <1>2, LeastExists
  <2> QED
    BY Zenon, <2>1
<1>4. Free = {} => i = size + 1
  BY Zenon
<1> HIDE DEF i
<1>5. Reused(i, shared[t]) \/ Pushed(i, shared[t])
  <2>1. CASE Free # {}
    BY Zenon, <1>1, <1>2, <1>3, <2>1 DEF Reused
  <2>2. CASE Free = {}
    <3>1. i > size /\ i = size + 1
      BY <1>0, <1>4, <2>2
    <3>2. weak[i] = None
      BY Zenon, <1>1, <3>1 DEF HInv, TableInv, Sized
    <3> QED
      BY Zenon, <1>1, <2>2, <3>1, <3>2 DEF Pushed
  <2> QED
    BY Zenon, <2>1, <2>2
<1>6. shared[t] \in Objects /\ Holds(t, shared[t]) /\ ~Named(shared[t])
  BY Zenon DEF Allocate, Goto, HInv, TableInv, ThreadOK, AtPointer, HasHandle, Inserting, Holds
<1>7. Still(i)
  BY Zenon, <1>1, WriterFindsStill DEF Allocate, WrUnlock, Move
<1> QED
  BY Zenon, <1>1, <1>5, <1>6, <1>7

\* Every step is a step of InfoBlock, or leaves the pointers alone.
LEMMA StepIsPointers == HInv /\ [Next]_vars => [NextPtrs]_ptrVars
<1> SUFFICES ASSUME HInv, [Next]_vars PROVE [NextPtrs]_ptrVars
  BY Zenon
<1>1. CASE UNCHANGED vars
  BY Zenon, <1>1 DEF vars
<1>2. CASE Next
  <2> PICK t \in Threads : \/ \E o \in Objects : VmAlloc(t, o) \/ GetVmObject(t, o)
                           \/ RemoveVmRegion(t)
                           \/ Proceed(t)
    BY Zenon, <1>2 DEF Next
  <2>0. t \in SharedPtrs
    BY Zenon, Apart
  <2>1. CASE \E o \in Objects : VmAlloc(t, o) \/ GetVmObject(t, o)
    BY Zenon, <2>0, <2>1 DEF VmAlloc, GetVmObject, NextPtrs
  <2>2. CASE RemoveVmRegion(t)
    <3>1. shared[t] \in SharedPtrs
      BY Zenon, <2>2, Apart DEF RemoveVmRegion, HInv, TableInv, ThreadOK, AtPointer
    <3> QED
      BY Zenon, <2>2, <3>1 DEF RemoveVmRegion, NextPtrs
  <2>3. CASE MakeHandle(t)
    BY Zenon, <2>3 DEF MakeHandle
  <2>4. CASE Allocate(t)
    <3> PICK i \in Slots : Still(i) /\ shared[t] \in Objects /\ Holds(t, shared[t])
                           /\ \/ AssignWeak(i, shared[t])
                              \/ weak[i] = None /\ CopyWeak(i, shared[t])
      BY Zenon, <2>4, SlotChosen DEF Reused, Pushed
    <3> QED
      BY Zenon, <2>0, Apart DEF NextPtrs
  <2>5. CASE AddVmRegion(t)
    <3>1. shared[t] \in SharedPtrs
      BY Zenon, <2>5, Apart DEF AddVmRegion, Goto, HInv, TableInv, ThreadOK, AtPointer
    <3> QED
      BY Zenon, <2>0, <2>5, <3>1 DEF AddVmRegion, NextPtrs
  <2>6. CASE GetEpoch(t) \/ GetUnlock(t) \/ ReleaseHandle(t)
    BY Zenon, <2>6 DEF GetEpoch, GetUnlock, ReleaseHandle
  <2>7. CASE GetLoad(t)
    <3>1. handle[target[t]][1] \in WeakPtrs
      BY Zenon, <2>7, Apart DEF GetLoad, Goto, HInv, TableInv, ThreadOK, HasHandle, Handles, Looking
    <3> QED
      BY Zenon, <2>0, <2>7, <3>1 DEF GetLoad, NextPtrs
  <2>8. CASE GetCas(t)
    BY Zenon, <2>0, <2>8 DEF GetCas, NextPtrs
  <2>9. CASE Return(t) \/ Destroyed(t) \/ Unlinked(t)
    BY Zenon, <2>0, <2>9 DEF Return, Destroyed, Unlinked, NextPtrs
  <2>10. CASE Release(t)
    <3>1. lockPc[t] = "writing"
      BY Zenon, <2>10 DEF Release, WrUnlock, Move
    <3>2. phase[t] = "destroy" /\ Named(shared[t])
      BY Zenon, <2>10 DEF Release, Goto, HInv, TableInv, ThreadOK, AtPointer, HasHandle
    <3>3. shared[t] \in Objects
      BY Zenon, <2>0, <3>2, Typed DEF HInv, Destroying
    <3>4. handle[shared[t]][1] \in Slots
      BY Zenon, <3>2, <3>3 DEF HInv, TableInv, Handles
    <3>5. Still(handle[shared[t]][1])
      BY Zenon, <3>1, <3>4, WriterFindsStill
    <3> QED
      BY Zenon, <2>10, <3>4, <3>5, Apart DEF Release, NextPtrs, ptrVars
  <2>11. CASE LockStep(t) /\ UNCHANGED <<ptrVars, tableVars, callVars>>
    BY Zenon, <2>11
  <2> QED
    BY <2>1, <2>2, <2>3, <2>4, <2>5, <2>6, <2>7, <2>8, <2>9, <2>10, <2>11 DEF Proceed
<1> QED
  BY Zenon, <1>1, <1>2
----------------------------------------------------------------------------
\* The types the lemmas on the steps need.
LEMMA Types ==
    ASSUME HInv
    PROVE  /\ TableType /\ RegionPointers /\ Unnamed /\ Handles /\ Sized
           /\ epoch \in [Slots -> Nat] /\ handle \in [Objects -> (Slots \cup {0}) \X Nat]
           /\ pc \in [Threads -> Pcs] /\ target \in [Threads -> Objects \cup {None}]
           /\ lockPc \in [Threads -> LockPcs]
           /\ phase \in [SharedPtrs -> Phases] /\ via \in [SharedPtrs -> WeakPtrs \cup {None}]
           /\ shared \in [SharedPtrs -> Objects \cup {None}]
           /\ weak \in [Slots -> Objects \cup {None}]
           /\ obj \in [Objects -> {"none", "live", "dying", "gone"}]
BY Zenon DEF HInv, TableInv, TableType, LockInv, LockTypeOK, PtrInv, PtrTypeOK, Slots

LEMMA ThreadWas ==
    ASSUME HInv, NEW t \in Threads
    PROVE  AtLock(t) /\ AtPointer(t) /\ HasHandle(t) /\ Lookup(t)
BY Zenon DEF HInv, TableInv, ThreadOK

\* A region that was not made yet has no pointer.
LEMMA Unmade ==
    ASSUME HInv, NEW o \in Objects, obj[o] = "none", NEW s \in SharedPtrs
    PROVE  shared[s] # o
<1>1. CASE phase[s] = "idle"
  BY Zenon, <1>1, HolderLive DEF HInv
<1>2. CASE phase[s] # "idle"
  <2>1. phase[s] \in {"cas", "destroy", "unlink"}
    BY Zenon, <1>2, Types DEF Phases
  <2> QED
    BY Zenon, <2>1, Apart, Typed DEF HInv, Destroying, Locking
<1> QED
  BY Zenon, <1>1, <1>2

\* With the caller's pointer and the list's there are two.
LEMMA TwoHolders ==
    ASSUME HInv, NEW s \in SharedPtrs, NEW r \in SharedPtrs, s # r, NEW o \in Objects,
           Holds(s, o), Holds(r, o)
    PROVE  useCount[o] # 1
<1>1. s \in Holders(o) /\ r \in Holders(o)
  BY Zenon DEF Holders, Holds
<1>2. IsFiniteSet(Holders(o)) /\ useCount[o] = Cardinality(Holders(o))
  BY Zenon, Counted, Typed DEF HInv
<1>3. IsFiniteSet(Holders(o) \ {s}) /\ Cardinality(Holders(o) \ {s}) = Cardinality(Holders(o)) - 1
  BY Zenon, <1>1, <1>2, FS_RemoveElement
<1>4. Cardinality(Holders(o) \ {s}) # 0
  BY <1>1, <1>3, FS_EmptySet
<1> QED
  BY <1>2, <1>3, <1>4
----------------------------------------------------------------------------
(***************************************************************************)
(* A step of thread t leaves the other threads where they are, and most    *)
(* steps leave the slots and the handles alone.                            *)
(***************************************************************************)
Others(t) == \A u \in Threads : u # t =>
    /\ pc'[u] = pc[u] /\ lockPc'[u] = lockPc[u] /\ target'[u] = target[u]
    /\ phase'[u] = phase[u] /\ shared'[u] = shared[u] /\ via'[u] = via[u]

SameSlots == UNCHANGED <<handle, epoch, weak, size>>

LEMMA OthersKept ==
    ASSUME HInv, NEW t \in Threads, Others(t), UNCHANGED <<handle, epoch>>, ThreadOK(t)'
    PROVE  \A u \in Threads : ThreadOK(u)'
<1> SUFFICES ASSUME NEW u \in Threads, u # t PROVE ThreadOK(u)'
  BY Zenon
<1>1. /\ pc'[u] = pc[u] /\ lockPc'[u] = lockPc[u] /\ target'[u] = target[u]
      /\ phase'[u] = phase[u] /\ shared'[u] = shared[u] /\ via'[u] = via[u]
  BY Zenon DEF Others
<1>2. AtLock(u)' /\ AtPointer(u)'
  BY Zenon, <1>1, ThreadWas DEF AtLock, AtPointer
<1>3. HasHandle(u)' /\ Lookup(u)'
  BY Zenon, <1>1, ThreadWas DEF HasHandle, Lookup, Named
<1> QED
  BY Zenon, <1>2, <1>3 DEF ThreadOK

LEMMA HandlesKept ==
    ASSUME HInv, SameSlots, \A o \in Objects : obj[o] # "none" => obj'[o] # "none"
    PROVE  Handles'
BY Zenon, Types DEF SameSlots, Handles, Named

LEMMA SizedKept ==
    ASSUME HInv, SameSlots
    PROVE  Sized'
BY Zenon, Types DEF SameSlots, Sized, Named

\* A step that at most takes t's pointer away.
LEMMA Frame ==
    ASSUME HInv, NEW t \in Threads, TableType', Others(t), SameSlots, ThreadOK(t)',
           shared'[t] \in {shared[t], None},
           \A o \in Objects : /\ phase'[o] = phase[o] /\ shared'[o] = shared[o]
                              /\ obj[o] # "none" => obj'[o] # "none"
    PROVE  TableInv'
<1>1. RegionPointers'
  BY Zenon, Types DEF RegionPointers
<1>2. \A s \in SharedPtrs : shared'[s] \in {shared[s], None}
  BY Zenon, TableAssumption DEF Others
<1>3. Unnamed'
  BY <1>2, Types, Apart DEF SameSlots, Unnamed, Named
<1>4. Handles'
  BY Zenon, HandlesKept
<1>5. \A u \in Threads : ThreadOK(u)'
  BY Zenon, OthersKept DEF SameSlots
<1> QED
  BY Zenon, <1>1, <1>3, <1>4, <1>5, SizedKept DEF TableInv
----------------------------------------------------------------------------
\* VmAlloc: a region nobody has a pointer to gets its first one.
LEMMA VmAllocKeeps ==
    ASSUME HInv, NEW t \in Threads, NEW o \in Objects, VmAlloc(t, o)
    PROVE  TableInv'
<1>1. /\ pc' = [pc EXCEPT ![t] = "make"] /\ UNCHANGED <<lockPc, target, phase, via>>
      /\ shared' = [shared EXCEPT ![t] = o] /\ obj[o] = "none" /\ obj' = [obj EXCEPT ![o] = "live"]
      /\ SameSlots /\ pc[t] = "idle"
  BY Zenon DEF VmAlloc, Goto, NewShared, lockVars, tableVars, SameSlots
<1>2. TableType' /\ Others(t) /\ pc'[t] = "make" /\ shared'[t] = o
      /\ \A s \in SharedPtrs : s # t => shared'[s] = shared[s]
  BY Zenon, <1>1, Types, Apart DEF TableType, Pcs, Others, SameSlots
<1>3. ~Named(o)
  BY Zenon, <1>1, Types DEF Handles
<1>4. RegionPointers'
  BY <1>1, <1>2, Types, Apart DEF RegionPointers
<1>5. Unnamed'
  BY <1>1, <1>2, Unmade, Types DEF SameSlots, Unnamed, Named
<1>6. Handles'
  BY Zenon, <1>1, Types, HandlesKept
<1>7. ThreadOK(t)'
  BY <1>1, <1>2, <1>3, ThreadWas
  DEF ThreadOK, AtLock, AtPointer, HasHandle, Lookup, Inserting, Looking, SameSlots, Named
<1>8. \A u \in Threads : ThreadOK(u)'
  BY Zenon, <1>1, <1>2, <1>7, OthersKept DEF SameSlots
<1> QED
  BY <1>1, <1>2, <1>4, <1>5, <1>6, <1>8, SizedKept DEF TableInv

\* MakeHandle: the caller queues for the write lock.
LEMMA MakeHandleKeeps ==
    ASSUME HInv, NEW t \in Threads, MakeHandle(t)
    PROVE  TableInv'
<1>1. /\ pc[t] = "make" /\ pc' = [pc EXCEPT ![t] = "making"]
      /\ lockPc' = [lockPc EXCEPT ![t] = "wrwait"]
      /\ UNCHANGED <<target, phase, shared, via, obj>> /\ SameSlots
  BY Zenon DEF MakeHandle, Goto, WrLock, Move, ptrVars, tableVars, SameSlots
<1>2. TableType' /\ Others(t) /\ pc'[t] = "making" /\ lockPc'[t] = "wrwait"
  BY Zenon, <1>1, Types DEF TableType, Pcs, Others, SameSlots
<1>3. ThreadOK(t)'
  BY Zenon, <1>1, <1>2, ThreadWas
  DEF ThreadOK, AtLock, AtPointer, HasHandle, Lookup, Inserting, Looking, SameSlots, Named
<1> QED
  BY <1>1, <1>2, <1>3, Frame

\* AddVmRegion: the list of the task gets a pointer of a region that has a handle.
LEMMA AddVmRegionKeeps ==
    ASSUME HInv, NEW t \in Threads, AddVmRegion(t)
    PROVE  TableInv'
<1>1. /\ pc[t] = "register" /\ pc' = [pc EXCEPT ![t] = "use"] /\ lockPc[t] = "out"
      /\ shared' = [shared EXCEPT ![shared[t]] = shared[t]]
      /\ UNCHANGED <<lockPc, target, phase, via, obj>> /\ SameSlots
  BY Zenon DEF AddVmRegion, Goto, CopyShared, lockVars, tableVars, SameSlots
<1>2. shared[t] \in Objects /\ Named(shared[t])
  BY Zenon, <1>1, ThreadWas DEF AtPointer, HasHandle
<1>3. /\ TableType' /\ Others(t) /\ pc'[t] = "use" /\ shared'[t] = shared[t]
      /\ \A s \in SharedPtrs : shared'[s] = IF s = shared[t] THEN shared[t] ELSE shared[s]
  BY Zenon, <1>1, <1>2, Types, Apart DEF TableType, Pcs, Others, SameSlots
<1>4. RegionPointers'
  BY Zenon, <1>1, <1>2, <1>3, Types, Apart DEF RegionPointers
<1>5. Unnamed'
  BY <1>1, <1>2, <1>3, Types DEF SameSlots, Unnamed, Named
<1>6. Handles'
  BY Zenon, <1>1, HandlesKept
<1>7. ThreadOK(t)'
  BY Zenon, <1>1, <1>2, <1>3, ThreadWas
  DEF ThreadOK, AtLock, AtPointer, HasHandle, Lookup, Inserting, Looking, SameSlots, Named
<1>8. \A u \in Threads : ThreadOK(u)'
  BY Zenon, <1>1, <1>3, <1>7, OthersKept DEF SameSlots
<1> QED
  BY Zenon, <1>1, <1>3, <1>4, <1>5, <1>6, <1>8, SizedKept DEF TableInv

\* GetVmObject: the caller queues for the read lock with a handle that was made.
LEMMA GetVmObjectKeeps ==
    ASSUME HInv, NEW t \in Threads, NEW o \in Objects, GetVmObject(t, o)
    PROVE  TableInv'
<1>1. /\ pc[t] = "idle" /\ pc' = [pc EXCEPT ![t] = "get"] /\ Named(o)
      /\ target' = [target EXCEPT ![t] = o] /\ lockPc' = [lockPc EXCEPT ![t] = "rdwait"]
      /\ UNCHANGED <<phase, shared, via, obj>> /\ SameSlots
  BY Zenon DEF GetVmObject, Goto, RdLock, Move, ptrVars, tableVars, SameSlots, Named
<1>2. TableType' /\ Others(t) /\ pc'[t] = "get" /\ lockPc'[t] = "rdwait" /\ target'[t] = o
  BY Zenon, <1>1, Types DEF TableType, Pcs, Others, SameSlots
<1>3. ThreadOK(t)'
  BY Zenon, <1>1, <1>2, ThreadWas
  DEF ThreadOK, AtLock, AtPointer, HasHandle, Lookup, Inserting, Looking, SameSlots, Named
<1> QED
  BY Zenon, <1>1, <1>2, <1>3, Frame

\* GetEpoch: equal epochs are noted under the read lock.
LEMMA GetEpochKeeps ==
    ASSUME HInv, NEW t \in Threads, GetEpoch(t)
    PROVE  TableInv'
<1> DEFINE h == handle[target[t]]
<1>1. /\ pc[t] = "get" /\ lockPc[t] = "reading"
      /\ pc' = [pc EXCEPT ![t] = IF epoch[h[1]] = h[2] THEN "load" ELSE "got"]
      /\ UNCHANGED <<lockPc, target, phase, shared, via, obj>> /\ SameSlots
  BY Zenon DEF GetEpoch, Goto, lockVars, ptrVars, tableVars, SameSlots
<1>2. /\ TableType' /\ Others(t)
      /\ \/ pc'[t] = "load" /\ h[2] = epoch[h[1]]
         \/ pc'[t] = "got"
  BY Zenon, <1>1, Types DEF TableType, Pcs, Others, SameSlots
<1>3. ThreadOK(t)'
  BY Zenon, <1>1, <1>2, ThreadWas
  DEF ThreadOK, AtLock, AtPointer, HasHandle, Lookup, Inserting, Looking, SameSlots, Named
<1> QED
  BY Zenon, <1>1, <1>2, <1>3, Frame

\* GetLoad: the slot the handle names is read.
LEMMA GetLoadKeeps ==
    ASSUME HInv, NEW t \in Threads, GetLoad(t)
    PROVE  TableInv'
<1>1. /\ pc[t] = "load" /\ UNCHANGED <<lockPc, target, shared, obj>> /\ SameSlots
      /\ \/ /\ pc' = [pc EXCEPT ![t] = "cas"] /\ phase' = [phase EXCEPT ![t] = "cas"]
            /\ via' = [via EXCEPT ![t] = handle[target[t]][1]]
         \/ pc' = [pc EXCEPT ![t] = "got"] /\ UNCHANGED <<phase, via>>
  BY Zenon DEF GetLoad, Goto, LockLoad, lockVars, ptrVars, tableVars, SameSlots
<1>2. /\ TableType' /\ Others(t) /\ \A o \in Objects : phase'[o] = phase[o]
      /\ \/ pc'[t] = "cas" /\ phase'[t] = "cas" /\ via'[t] = handle[target[t]][1]
         \/ pc'[t] = "got" /\ phase'[t] = phase[t]
  <2>1. TableType' /\ \A o \in Objects : phase'[o] = phase[o]
    BY Zenon, <1>1, Types, Apart DEF TableType, Pcs, SameSlots
  <2> QED
    BY <1>1, <2>1, Types, Apart DEF Others
<1>3. ThreadOK(t)'
  BY Zenon, <1>1, <1>2, ThreadWas
  DEF ThreadOK, AtLock, AtPointer, HasHandle, Lookup, Inserting, Looking, SameSlots, Named
<1> QED
  BY Zenon, <1>1, <1>2, <1>3, Frame

\* GetCas: the region locked is the one whose slot it still is.
LEMMA GetCasKeeps ==
    ASSUME HInv, NEW t \in Threads, GetCas(t)
    PROVE  TableInv'
<1>1. /\ pc[t] = "cas" /\ UNCHANGED <<lockPc, target, obj>> /\ SameSlots
      /\ pc' = [pc EXCEPT ![t] = IF phase'[t] = "cas" THEN "cas" ELSE "got"]
      /\ shared' \in {shared, [shared EXCEPT ![t] = weak[via[t]]]}
      /\ \/ phase' = [phase EXCEPT ![t] = "idle"] /\ via' = [via EXCEPT ![t] = None]
         \/ UNCHANGED <<phase, via, shared>>
  BY Zenon DEF GetCas, LockCas, lockVars, tableVars, SameSlots
<1>2. /\ via[t] = handle[target[t]][1] /\ handle[target[t]][2] = epoch[handle[target[t]][1]]
      /\ target[t] \in Objects /\ Named(target[t]) /\ phase[t] = "cas"
  BY Zenon, <1>1, ThreadWas DEF AtPointer, HasHandle, Lookup, Looking
<1>3. weak[via[t]] = target[t]
  BY Zenon, <1>2, Types DEF Handles
<1>4. shared[t] = None
  BY Zenon, <1>2, Apart, Typed DEF HInv, Locking
<1>5. /\ TableType' /\ Others(t)
      /\ \A o \in Objects : phase'[o] = phase[o] /\ shared'[o] = shared[o]
      /\ \A s \in SharedPtrs : s # t => shared'[s] = shared[s]
      /\ shared'[t] \in {None, target[t]}
      /\ \/ pc'[t] = "cas" /\ phase'[t] = "cas" /\ via'[t] = via[t] /\ shared'[t] = shared[t]
         \/ pc'[t] = "got" /\ phase'[t] = "idle"
  BY <1>1, <1>2, <1>3, <1>4, Types, Apart DEF TableType, Pcs, Others, SameSlots
<1>6. RegionPointers'
  BY Zenon, <1>5, Types DEF RegionPointers
<1>7. Unnamed'
  BY <1>1, <1>2, <1>5, Types, Apart DEF SameSlots, Unnamed, Named
<1>8. Handles'
  BY Zenon, <1>1, HandlesKept
<1>9. ThreadOK(t)'
  BY <1>1, <1>2, <1>5, ThreadWas
  DEF ThreadOK, AtLock, AtPointer, HasHandle, Lookup, Inserting, Looking, SameSlots, Named
<1>10. \A u \in Threads : ThreadOK(u)'
  BY Zenon, <1>1, <1>5, <1>9, OthersKept DEF SameSlots
<1> QED
  BY <1>1, <1>5, <1>6, <1>7, <1>8, <1>10, SizedKept DEF TableInv

\* GetUnlock: the region found has a handle.
LEMMA GetUnlockKeeps ==
    ASSUME HInv, NEW t \in Threads, GetUnlock(t)
    PROVE  TableInv'
<1>1. /\ pc[t] = "got" /\ pc' = [pc EXCEPT ![t] = IF shared[t] = None THEN "idle" ELSE "use"]
      /\ lockPc' = [lockPc EXCEPT ![t] = "out"] /\ target' = [target EXCEPT ![t] = None]
      /\ UNCHANGED <<phase, shared, via, obj>> /\ SameSlots
  BY Zenon DEF GetUnlock, Goto, RdUnlock, Move, ptrVars, tableVars, SameSlots
<1>2. /\ TableType' /\ Others(t) /\ lockPc'[t] = "out"
      /\ pc'[t] = IF shared[t] = None THEN "idle" ELSE "use"
  BY Zenon, <1>1, Types DEF TableType, Pcs, Others, SameSlots
<1>3. ThreadOK(t)'
  BY <1>1, <1>2, ThreadWas
  DEF ThreadOK, AtLock, AtPointer, HasHandle, Lookup, Inserting, Looking, SameSlots, Named
<1> QED
  BY Zenon, <1>1, <1>2, <1>3, Frame

\* RemoveVmRegion: the caller has a pointer too, so the one dropped is not the last.
LEMMA RemoveVmRegionKeeps ==
    ASSUME HInv, NEW t \in Threads, RemoveVmRegion(t)
    PROVE  TableInv'
<1>1. /\ pc[t] = "use" /\ shared[shared[t]] # None /\ DropShared(shared[t])
      /\ UNCHANGED <<lockPc, pc, target, via>> /\ SameSlots
  BY Zenon DEF RemoveVmRegion, DropShared, lockVars, tableVars, callVars, SameSlots
<1>2. shared[t] \in Objects /\ Holds(t, shared[t])
  BY Zenon, <1>1, ThreadWas DEF AtPointer, Holds
<1>3. Holds(shared[t], shared[t]) /\ shared[t] # t
  BY <1>1, <1>2, Types, Apart DEF RegionPointers, Holds
<1>4. useCount[shared[t]] # 1 /\ shared[shared[t]] = shared[t]
  BY Zenon, <1>2, <1>3, Apart, TwoHolders DEF Holds
<1>5. shared' = [shared EXCEPT ![shared[t]] = None] /\ UNCHANGED <<phase, obj>>
  BY Zenon, <1>1, <1>4 DEF DropShared
<1>6. /\ TableType' /\ Others(t) /\ shared'[t] = shared[t]
      /\ \A s \in SharedPtrs : shared'[s] = IF s = shared[t] THEN None ELSE shared[s]
  BY <1>1, <1>2, <1>5, Types, Apart DEF TableType, Others, SameSlots
<1>7. RegionPointers'
  BY Zenon, <1>2, <1>5, <1>6, Types, Apart DEF RegionPointers
<1>8. Unnamed'
  BY <1>1, <1>6, Types, Apart DEF SameSlots, Unnamed, Named
<1>9. Handles'
  BY Zenon, <1>1, <1>5, HandlesKept
<1>10. ThreadOK(t)'
  BY <1>1, <1>5, <1>6, ThreadWas
  DEF ThreadOK, AtLock, AtPointer, HasHandle, Lookup, Inserting, Looking, SameSlots, Named
<1>11. \A u \in Threads : ThreadOK(u)'
  BY Zenon, <1>1, <1>6, <1>10, OthersKept DEF SameSlots
<1> QED
  BY <1>1, <1>6, <1>7, <1>8, <1>9, <1>11, SizedKept DEF TableInv

\* Return: the last pointer dropped takes the thread to the destructor.
LEMMA ReturnKeeps ==
    ASSUME HInv, NEW t \in Threads, Return(t)
    PROVE  TableInv'
<1>1. /\ pc[t] = "use" /\ UNCHANGED <<lockPc, target, via>> /\ SameSlots
      /\ \/ /\ pc' = [pc EXCEPT ![t] = "destroy"] /\ phase' = [phase EXCEPT ![t] = "destroy"]
            /\ obj' = [obj EXCEPT ![shared[t]] = "dying"] /\ shared' = shared
         \/ /\ pc' = [pc EXCEPT ![t] = "idle"] /\ shared' = [shared EXCEPT ![t] = None]
            /\ UNCHANGED <<phase, obj>>
  BY Zenon DEF Return, Goto, DropShared, lockVars, tableVars, SameSlots
<1>2. /\ TableType' /\ Others(t)
      /\ \A o \in Objects : /\ phase'[o] = phase[o] /\ shared'[o] = shared[o]
                            /\ obj[o] # "none" => obj'[o] # "none"
      /\ \/ pc'[t] = "destroy" /\ phase'[t] = "destroy" /\ shared'[t] = shared[t]
         \/ pc'[t] = "idle" /\ phase'[t] = phase[t] /\ shared'[t] = None
  <2>1. CASE pc' = [pc EXCEPT ![t] = "destroy"] /\ phase' = [phase EXCEPT ![t] = "destroy"]
              /\ obj' = [obj EXCEPT ![shared[t]] = "dying"] /\ shared' = shared
    BY <1>1, <2>1, Types, Apart DEF TableType, Pcs, Others, SameSlots
  <2>2. CASE pc' = [pc EXCEPT ![t] = "idle"] /\ shared' = [shared EXCEPT ![t] = None]
              /\ UNCHANGED <<phase, obj>>
    BY <1>1, <2>2, Types, Apart DEF TableType, Pcs, Others, SameSlots
  <2> QED
    BY Zenon, <1>1, <2>1, <2>2
<1>3. ThreadOK(t)'
  BY Zenon, <1>1, <1>2, ThreadWas
  DEF ThreadOK, AtLock, AtPointer, HasHandle, Lookup, Inserting, Looking, SameSlots, Named
<1> QED
  BY Zenon, <1>1, <1>2, <1>3, Frame

\* ReleaseHandle: the destructor queues for the write lock.
LEMMA ReleaseHandleKeeps ==
    ASSUME HInv, NEW t \in Threads, ReleaseHandle(t)
    PROVE  TableInv'
<1>1. /\ pc[t] = "destroy" /\ pc' = [pc EXCEPT ![t] = "release"]
      /\ lockPc' = [lockPc EXCEPT ![t] = "wrwait"]
      /\ UNCHANGED <<target, phase, shared, via, obj>> /\ SameSlots
  BY Zenon DEF ReleaseHandle, Goto, WrLock, Move, ptrVars, tableVars, SameSlots
<1>2. TableType' /\ Others(t) /\ pc'[t] = "release" /\ lockPc'[t] = "wrwait"
  BY Zenon, <1>1, Types DEF TableType, Pcs, Others, SameSlots
<1>3. ThreadOK(t)'
  BY Zenon, <1>1, <1>2, ThreadWas
  DEF ThreadOK, AtLock, AtPointer, HasHandle, Lookup, Inserting, Looking, SameSlots, Named
<1> QED
  BY Zenon, <1>1, <1>2, <1>3, Frame

\* Destroyed: the destructor ends after it has left the lock.
LEMMA DestroyedKeeps ==
    ASSUME HInv, NEW t \in Threads, Destroyed(t)
    PROVE  TableInv'
<1>1. /\ pc[t] = "released" /\ pc' = [pc EXCEPT ![t] = "unlink"] /\ lockPc[t] = "out"
      /\ phase' = [phase EXCEPT ![t] = "unlink"] /\ obj' = [obj EXCEPT ![shared[t]] = "gone"]
      /\ UNCHANGED <<lockPc, target, shared, via>> /\ SameSlots
  BY Zenon DEF Destroyed, Goto, DestroyEnd, lockVars, tableVars, SameSlots
<1>2. /\ TableType' /\ Others(t) /\ pc'[t] = "unlink" /\ phase'[t] = "unlink"
      /\ \A o \in Objects : phase'[o] = phase[o] /\ (obj[o] # "none" => obj'[o] # "none")
  BY Zenon, <1>1, Types, Apart DEF TableType, Pcs, Others, SameSlots
<1>3. ThreadOK(t)'
  BY Zenon, <1>1, <1>2, ThreadWas
  DEF ThreadOK, AtLock, AtPointer, HasHandle, Lookup, Inserting, Looking, SameSlots, Named
<1> QED
  BY Zenon, <1>1, <1>2, <1>3, Frame

\* Unlinked: the thread has no pointer when its call ends.
LEMMA UnlinkedKeeps ==
    ASSUME HInv, NEW t \in Threads, Unlinked(t)
    PROVE  TableInv'
<1>1. /\ pc[t] = "unlink" /\ pc' = [pc EXCEPT ![t] = "idle"]
      /\ phase' = [phase EXCEPT ![t] = "idle"] /\ shared' = [shared EXCEPT ![t] = None]
      /\ UNCHANGED <<lockPc, target, via, obj>> /\ SameSlots
  BY Zenon DEF Unlinked, Goto, Unlink, lockVars, tableVars, SameSlots
<1>2. /\ TableType' /\ Others(t) /\ pc'[t] = "idle" /\ phase'[t] = "idle" /\ shared'[t] = None
      /\ \A o \in Objects : phase'[o] = phase[o] /\ shared'[o] = shared[o]
  BY Zenon, <1>1, Types, Apart DEF TableType, Pcs, Others, SameSlots
<1>3. ThreadOK(t)'
  BY Zenon, <1>1, <1>2, ThreadWas
  DEF ThreadOK, AtLock, AtPointer, HasHandle, Lookup, Inserting, Looking, SameSlots, Named
<1> QED
  BY Zenon, <1>1, <1>2, <1>3, Frame

\* LockMove: the functions of the lock touch nothing else.
LEMMA LockMoveKeeps ==
    ASSUME HInv, NEW t \in Threads, LockStep(t) /\ UNCHANGED <<ptrVars, tableVars, callVars>>
    PROVE  TableInv'
<1>1. /\ \/ Move(t, "rdwait", "rdinc") \/ Move(t, "rdinc", "reading")
         \/ Move(t, "wrwait", "writing") \/ Move(t, "wrstore", "out")
      /\ UNCHANGED <<pc, target, phase, shared, via, obj>> /\ SameSlots
  BY Zenon DEF LockStep, RdTurn, RdIncrement, WrTurn, WrStore, ptrVars, tableVars, callVars, SameSlots
<1>2. /\ TableType' /\ Others(t)
      /\ <<lockPc[t], lockPc'[t]>> \in {<<"rdwait", "rdinc">>, <<"rdinc", "reading">>,
                                        <<"wrwait", "writing">>, <<"wrstore", "out">>}
  BY Zenon, <1>1, Types DEF TableType, Others, SameSlots, Move
<1>3. ThreadOK(t)'
  BY Zenon, <1>1, <1>2, ThreadWas
  DEF ThreadOK, AtLock, AtPointer, HasHandle, Lookup, Inserting, Looking, SameSlots, Named
<1> QED
  BY Zenon, <1>1, <1>2, <1>3, Frame

\* While a thread has the write lock, none is inside a lookup.
LEMMA NoLookup ==
    ASSUME HInv, NEW t \in Threads, lockPc[t] = "writing"
    PROVE  \A u \in Threads : pc[u] \notin {"load", "cas", "got"}
<1>1. t \in Writers
  BY Zenon DEF Writers
<1>2. Readers = {}
  BY Zenon, <1>1, WriterAlone DEF HInv
<1> QED
  BY Zenon, <1>2, ThreadWas DEF AtLock, Readers

\* Allocate: the slot gets a new owner and a new epoch, which no older handle has.
LEMMA AllocateKeeps ==
    ASSUME HInv, NEW t \in Threads, Allocate(t)
    PROVE  TableInv'
<1>1. PICK i \in Slots : /\ shared[t] \in Objects /\ Holds(t, shared[t]) /\ ~Named(shared[t])
                         /\ Reused(i, shared[t]) \/ Pushed(i, shared[t])
                         /\ handle' = [handle EXCEPT ![shared[t]] = <<i, epoch'[i]>>]
  BY Zenon, SlotChosen
<1>2. /\ pc[t] = "making" /\ pc' = [pc EXCEPT ![t] = "register"] /\ target' = target
      /\ lockPc[t] = "writing" /\ lockPc' = [lockPc EXCEPT ![t] = "wrstore"]
  BY Zenon DEF Allocate, Goto, WrUnlock, Move
<1>3. weak' = [weak EXCEPT ![i] = shared[t]] /\ UNCHANGED <<obj, shared, phase, via>>
  BY Zenon, <1>1 DEF Reused, Pushed, AssignWeak, CopyWeak
<1>o. PICK o \in Objects : o = shared[t]
  BY Zenon, <1>1
<1>4. /\ TableType' /\ Others(t) /\ pc'[t] = "register" /\ lockPc'[t] = "wrstore"
      /\ handle'[o] = <<i, epoch'[i]>> /\ epoch[i] \in Nat /\ epoch'[i] \in Nat
      /\ \A x \in Objects : x # o => handle'[x] = handle[x]
      /\ \A w \in Slots : w # i => weak'[w] = weak[w] /\ epoch'[w] = epoch[w]
      /\ weak'[i] = o
  <2>1. epoch' \in {epoch, [epoch EXCEPT ![i] = @ + 1]}
    BY Zenon, <1>1 DEF Reused, Pushed
  <2>2. /\ epoch' \in [Slots -> Nat] /\ epoch[i] \in Nat /\ epoch'[i] \in Nat
        /\ \A w \in Slots : w # i => epoch'[w] = epoch[w]
    BY <2>1, Types
  <2>3. /\ handle' \in [Objects -> (Slots \cup {0}) \X Nat] /\ handle'[o] = <<i, epoch'[i]>>
        /\ \A x \in Objects : x # o => handle'[x] = handle[x]
    BY <1>1, <1>o, <2>2, Types
  <2> QED
    BY <1>1, <1>2, <1>3, <1>o, <2>2, <2>3, Types, Apart DEF TableType, Pcs, Others
<1>x. /\ \/ epoch'[i] = epoch[i] + 1 /\ size' = size /\ i <= size
         \/ epoch'[i] = epoch[i] /\ size' = size + 1 /\ i = size + 1
      /\ \A x \in Objects : Named(x) => handle[x][1] <= size /\ handle[x][1] \in Slots
      /\ size \in Nat /\ size <= Cardinality(Slots) /\ i \in Nat /\ i <= Cardinality(Slots)
  <2>1. \/ epoch'[i] = epoch[i] + 1 /\ size' = size /\ i <= size
        \/ epoch'[i] = epoch[i] /\ size' = size + 1 /\ i = size + 1
    BY <1>1, Types DEF Reused, Pushed
  <2>2. /\ \A x \in Objects : Named(x) => handle[x][1] <= size /\ handle[x][1] \in Slots
        /\ size \in Nat /\ size <= Cardinality(Slots)
    BY Zenon, Types DEF Sized, Handles
  <2>3. i \in Nat /\ i <= Cardinality(Slots)
    BY Apart
  <2> QED
    BY Zenon, <2>1, <2>2, <2>3
<1>5. /\ \A x \in Objects : Named(x)' <=> Named(x) \/ x = o
      /\ obj[o] # "none" /\ \A u \in Threads : shared[u] = o => u = t
  <2>1. obj[o] # "none"
    BY Zenon, <1>1, <1>o, HolderLive, Apart DEF HInv, Holds
  <2>2. \A u \in Threads : shared[u] = o => u = t
    BY Zenon, <1>1, <1>o, Types, Apart DEF Unnamed
  <2>3. Named(o)'
    <3>1. <<i, epoch'[i]>> # <<0, 0>>
      BY Apart
    <3> QED
      BY Zenon, <1>4, <3>1 DEF Named, NoHandle
  <2>4. \A x \in Objects : x # o => (Named(x)' <=> Named(x))
    BY Zenon, <1>4 DEF Named
  <2> QED
    BY Zenon, <2>1, <2>2, <2>3, <2>4
<1>6. RegionPointers'
  BY Zenon, <1>3, Types DEF RegionPointers
<1>7. Unnamed'
  BY <1>1, <1>o, <1>3, <1>4, <1>5, Types DEF Unnamed
<1>8. Handles'
  <2> SUFFICES ASSUME NEW x \in Objects, Named(x)'
               PROVE  /\ obj'[x] # "none" /\ handle'[x][1] \in Slots
                      /\ handle'[x][2] <= epoch'[handle'[x][1]]
                      /\ handle'[x][2] = epoch'[handle'[x][1]] => weak'[handle'[x][1]] = x
    BY Zenon DEF Handles
  <2>1. CASE x = o
    BY <1>3, <1>4, <1>5, <2>1
  <2>2. CASE x # o
    <3>1. /\ handle'[x] = handle[x] /\ Named(x) /\ obj[x] # "none" /\ handle[x][1] \in Slots
          /\ handle[x][2] \in Nat /\ epoch[handle[x][1]] \in Nat
          /\ handle[x][2] <= epoch[handle[x][1]]
          /\ handle[x][2] = epoch[handle[x][1]] => weak[handle[x][1]] = x
      BY Zenon, <1>4, <1>5, <2>2, Types DEF Handles
    <3>2. CASE handle[x][1] = i
      <4>1. epoch'[i] = epoch[i] + 1
        BY <1>x, <3>1, <3>2
      <4> QED
        BY <1>3, <1>4, <3>1, <3>2, <4>1
    <3>3. CASE handle[x][1] # i
      BY Zenon, <1>3, <1>4, <3>1, <3>3
    <3> QED
      BY Zenon, <3>2, <3>3
  <2> QED
    BY Zenon, <2>1, <2>2
<1>9. \A u \in Threads : ThreadOK(u)'
  <2> SUFFICES ASSUME NEW u \in Threads PROVE ThreadOK(u)'
    BY Zenon
  <2>1. pc[u] \notin {"load", "cas", "got"}
    BY Zenon, <1>2, NoLookup
  <2>2. CASE u = t
    BY <1>1, <1>o, <1>2, <1>3, <1>4, <1>5, <2>2, ThreadWas
    DEF ThreadOK, AtLock, AtPointer, HasHandle, Lookup, Inserting, Looking
  <2>3. CASE u # t
    <3>1. pc'[u] = pc[u] /\ lockPc'[u] = lockPc[u] /\ target'[u] = target[u]
      BY Zenon, <1>4, <2>3 DEF Others
    <3>2. shared[u] # o /\ shared[u] \in Objects \cup {None}
      BY Zenon, <1>5, <2>3, Types, Apart
    <3>3. AtLock(u)' /\ AtPointer(u)' /\ Lookup(u)'
      BY Zenon, <1>3, <2>1, <3>1, ThreadWas DEF AtLock, AtPointer, Lookup
    <3>4. pc[u] \in {"register", "use", "destroy", "release", "released"} \cup Inserting
          => shared[u] \in Objects
      BY Zenon, ThreadWas, Apart, Typed DEF HInv, AtPointer, Destroying, Inserting
    <3>5. HasHandle(u)'
      BY <1>3, <1>5, <3>1, <3>2, <3>4, ThreadWas DEF HasHandle, Looking
    <3> QED
      BY Zenon, <3>3, <3>5 DEF ThreadOK
  <2> QED
    BY Zenon, <2>2, <2>3
<1>10. Sized'
  <2>1. size' \in Nat /\ size' <= Cardinality(Slots) /\ i <= size' /\ size <= size'
    BY <1>x, Apart
  <2>2. \A x \in Objects : Named(x)' => handle'[x][1] <= size'
    <3> SUFFICES ASSUME NEW x \in Objects, Named(x)' PROVE handle'[x][1] <= size'
      BY Zenon
    <3>1. CASE x = o
      BY <1>4, <2>1, <3>1
    <3>2. CASE x # o
      <4>1. handle'[x][1] = handle[x][1] /\ handle[x][1] <= size /\ handle[x][1] \in Nat
        BY Zenon, <1>4, <1>5, <1>x, <3>2, Apart
      <4> QED
        BY <1>x, <2>1, <4>1
    <3> QED
      BY Zenon, <3>1, <3>2
  <2>3. \A w \in Slots : w > size' => weak'[w] = None
    <3> SUFFICES ASSUME NEW w \in Slots, w > size' PROVE weak'[w] = None
      BY Zenon
    <3>1. w # i /\ w > size
      BY <1>x, <2>1, Apart
    <3> QED
      BY Zenon, <1>4, <3>1, Types DEF Sized
  <2> QED
    BY Zenon, <2>1, <2>2, <2>3 DEF Sized
<1> QED
  BY <1>1, <1>4, <1>6, <1>7, <1>8, <1>9, <1>10 DEF TableInv

\* Release: no handle has the epoch the slot gets.
LEMMA ReleaseKeeps ==
    ASSUME HInv, NEW t \in Threads, Release(t)
    PROVE  TableInv'
<1>1. /\ pc[t] = "release" /\ pc' = [pc EXCEPT ![t] = "released"] /\ UNCHANGED <<size, handle, target>>
      /\ lockPc[t] = "writing" /\ lockPc' = [lockPc EXCEPT ![t] = "wrstore"]
  BY Zenon DEF Release, Goto, WrUnlock, Move
<1>2. PICK i \in Slots : i = handle[shared[t]][1]
  <2>1. phase[t] = "destroy" /\ Named(shared[t])
    BY Zenon, <1>1, ThreadWas DEF AtPointer, HasHandle
  <2>2. shared[t] \in Objects
    BY Zenon, <2>1, Apart, Typed DEF HInv, Destroying
  <2> QED
    BY Zenon, <2>1, <2>2, Types DEF Handles
<1>3. /\ \/ weak' = [weak EXCEPT ![i] = None] /\ epoch' = [epoch EXCEPT ![i] = @ + 1]
         \/ UNCHANGED <<weak, epoch>>
      /\ UNCHANGED <<obj, shared, phase, via>>
  BY Zenon, <1>2 DEF Release, DropWeak, ptrVars
<1>4. /\ TableType' /\ Others(t) /\ pc'[t] = "released" /\ lockPc'[t] = "wrstore"
      /\ \A w \in Slots : \/ weak'[w] = None /\ epoch'[w] = epoch[w] + 1
                          \/ weak'[w] = weak[w] /\ epoch'[w] = epoch[w]
  BY <1>1, <1>3, Types DEF TableType, Pcs, Others
<1>5. RegionPointers'
  BY Zenon, <1>3, Types DEF RegionPointers
<1>6. Unnamed'
  BY <1>1, <1>3, <1>4, Types, Apart DEF Unnamed, Named
<1>7. Handles'
  <2> SUFFICES ASSUME NEW x \in Objects, Named(x)
               PROVE  /\ obj[x] # "none" /\ handle[x][1] \in Slots
                      /\ handle[x][2] <= epoch'[handle[x][1]]
                      /\ handle[x][2] = epoch'[handle[x][1]] => weak'[handle[x][1]] = x
    BY Zenon, <1>1, <1>3 DEF Handles, Named
  <2>1. /\ obj[x] # "none" /\ handle[x][1] \in Slots
        /\ handle[x][2] \in Nat /\ epoch[handle[x][1]] \in Nat
        /\ handle[x][2] <= epoch[handle[x][1]]
        /\ handle[x][2] = epoch[handle[x][1]] => weak[handle[x][1]] = x
    BY Zenon, Types DEF Handles
  <2> QED
    BY <1>4, <2>1
<1>8. \A u \in Threads : ThreadOK(u)'
  <2> SUFFICES ASSUME NEW u \in Threads PROVE ThreadOK(u)'
    BY Zenon
  <2>1. pc[u] \notin {"load", "cas", "got"}
    BY Zenon, <1>1, NoLookup
  <2>2. \/ /\ u = t /\ pc[u] = "release" /\ pc'[u] = "released" /\ lockPc'[u] = "wrstore"
        \/ u # t /\ pc'[u] = pc[u] /\ lockPc'[u] = lockPc[u]
    BY Zenon, <1>1, <1>4 DEF Others
  <2> QED
    BY <1>1, <1>3, <2>1, <2>2, ThreadWas
    DEF ThreadOK, AtLock, AtPointer, HasHandle, Lookup, Inserting, Looking, Named
<1>9. Sized'
  BY Zenon, <1>1, <1>4, Types DEF Sized, Named
<1> QED
  BY <1>1, <1>4, <1>5, <1>6, <1>7, <1>8, <1>9 DEF TableInv
----------------------------------------------------------------------------
\* An empty table is where the program starts.
LEMMA InitTable == Init => HInv
<1> SUFFICES ASSUME Init PROVE HInv
  BY Zenon
<1> USE Apart DEF Init
<1>1. LockInv /\ PtrInv
  BY Zenon, InitTickets, InitCounts
<1>2. \A t \in Threads : pc[t] = "idle" /\ lockPc[t] = "out" /\ phase[t] = "idle" /\ shared[t] = None
  BY Zenon DEF InitLock, InitPtrs
<1>3. \A o \in Objects : ~Named(o) /\ phase[o] = "idle" /\ shared[o] = None
  BY Zenon DEF InitPtrs, Named
<1>4. TableType
  BY Zenon DEF TableType, Pcs, NoHandle
<1>5. \A t \in Threads : ThreadOK(t)
  BY Zenon, <1>2 DEF ThreadOK, AtLock, AtPointer, HasHandle, Lookup, Inserting, Looking
<1>6. RegionPointers /\ Handles
  BY Zenon, <1>3 DEF RegionPointers, Handles
<1>7. Unnamed
  BY Zenon, PtrAssumption DEF Unnamed, InitPtrs, Slots
<1>8. Sized
  <2>1. size = 0 /\ \A i \in Slots : weak[i] = None
    BY Zenon DEF InitPtrs, Slots
  <2>2. size \in Nat /\ size <= Cardinality(Slots)
    BY <2>1
  <2> QED
    BY Zenon, <1>3, <2>1, <2>2 DEF Sized
<1> QED
  BY Zenon, <1>1, <1>4, <1>5, <1>6, <1>7, <1>8 DEF HInv, TableInv

\* Every step keeps all of it.
LEMMA TableStepKeeps == HInv /\ [Next]_vars => HInv'
<1> SUFFICES ASSUME HInv, [Next]_vars PROVE HInv'
  BY Zenon
<1>1. LockInv'
  BY Zenon, StepIsLock, LockStepKeeps DEF HInv
<1>2. PtrInv'
  BY Zenon, StepIsPointers, PtrStepKeeps DEF HInv
<1>3. CASE UNCHANGED vars
  <2>1. UNCHANGED <<lockPc, obj, shared, weak, phase, via, size, epoch, handle, pc, target>>
    BY Zenon, <1>3 DEF vars, lockVars, ptrVars, tableVars, callVars
  <2>2. TableType' /\ RegionPointers' /\ Unnamed' /\ Handles' /\ Sized'
    BY Zenon, <2>1, Types DEF TableType, RegionPointers, Unnamed, Handles, Sized, Named
  <2>3. \A t \in Threads : ThreadOK(t)'
    BY <2>1, ThreadWas DEF ThreadOK, AtLock, AtPointer, HasHandle, Lookup, Named
  <2> QED
    BY <1>1, <1>2, <2>1, <2>2, <2>3 DEF HInv, TableInv
<1>4. CASE Next
  <2> PICK t \in Threads : \/ \E o \in Objects : VmAlloc(t, o) \/ GetVmObject(t, o)
                           \/ RemoveVmRegion(t)
                           \/ Proceed(t)
    BY Zenon, <1>4 DEF Next
  <2>1. TableInv'
    BY VmAllocKeeps, GetVmObjectKeeps, RemoveVmRegionKeeps, MakeHandleKeeps, AllocateKeeps,
       AddVmRegionKeeps, GetEpochKeeps, GetLoadKeeps, GetCasKeeps, GetUnlockKeeps, ReturnKeeps,
       ReleaseHandleKeeps, ReleaseKeeps, DestroyedKeeps, UnlinkedKeeps, LockMoveKeeps
    DEF Proceed
  <2> QED
    BY Zenon, <1>1, <1>2, <2>1 DEF HInv
<1> QED
  BY Zenon, <1>3, <1>4

\* The table uses its lock as rwlock.h expects, full or not: every step of the system is one of
\* RwLock's, so that a writer of the table is alone in it.
THEOREM TableExcludes == Spec => SpecLock /\ []Exclusion
<1>1. Init => InitLock
  BY Zenon DEF Init
<1>2. Spec => SpecLock
  BY <1>1, StepIsLock, PTL DEF Spec, SpecLock
<1> QED
  BY <1>2, WriterExcludes, PTL

\* Its threads are let in in the order they came: the safety part of FirstComeFirstServed.
THEOREM TableServesInOrder == Spec => Fifo!Init /\ [][Fifo!Next]_(Fifo!vars)
BY TableExcludes, LockIsFifo, PTL

\* The invariant of the table, its lock and its pointers.
LEMMA TableRight == Spec => []HInv
BY InitTable, TableStepKeeps, PTL DEF Spec

\* The table uses its weak pointers as SmartPointers.h expects: every step is one of InfoBlock's,
\* so that no slot is changed while a lookup locks its pointer.
THEOREM TableUsesPointersRight == Spec => PointersUsedRight
<1>1. Init => InitPtrs
  BY Zenon DEF Init
<1>2. Spec => InitPtrs /\ [][NextPtrs]_ptrVars
  BY <1>1, TableRight, StepIsPointers, PTL DEF Spec
<1> QED
  BY Zenon, <1>2 DEF PointersUsedRight, SpecPtrs

\* A lookup yields the region its handle was made for, or nothing: for any number of threads,
\* regions and slots, in a table that begins empty and grows, and whoever allocates and
\* deallocates in between.
THEOREM LookupsTrue == Spec => []LookupTrue
<1>1. HInv => LookupTrue
  <2> SUFFICES ASSUME HInv PROVE LookupTrue
    BY Zenon
  <2>1. size \in 0..Cardinality(Slots)
    BY Apart DEF HInv, TableInv, Sized
  <2> QED
    BY <2>1 DEF HInv, LockInv, PtrInv, TableInv, TableType, ThreadOK, Lookup, LookupTrue, TypeOK
<1> QED
  BY <1>1, TableRight, PTL

\* What a system call has from a lookup, or has made, is alive; and a region that was put in a slot
\* used before keeps its info block to the end of its destructor.
THEOREM TablePointeesAlive == Spec => [](PointeeAlive /\ InfoKeptCounted)
<1>1. HInv => PointeeAlive /\ InfoKeptCounted
  BY Zenon, CountersSuffice DEF HInv
<1> QED
  BY <1>1, TableRight, PTL
=============================================================================
