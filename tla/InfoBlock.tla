------------------------------ MODULE InfoBlock ------------------------------
(***************************************************************************)
(* Reference counting of kernel objects (kernel/src/runtime/SmartPointers.h): *)
(* SharedPtr, WeakPtr and the InfoBlock they share.  A SharedPtr or WeakPtr *)
(* variable is used by one thread at a time; the two counters of an info   *)
(* block are shared, and each atomic access to them is a step.             *)
(*                                                                         *)
(* An object of Self derives from SharedFromThis: it carries a WeakPtr to  *)
(* itself, which its destructor drops.  The constructor that finds such a  *)
(* WeakPtr set already joins its info block, as CopyShared does.           *)
(*                                                                         *)
(* A count that is wrong lets an info block be freed while it is in use.   *)
(* An access to it after that finds what was left there, as it does until  *)
(* the heap hands the memory out again.                                    *)
(***************************************************************************)
EXTENDS Integers, FiniteSets

CONSTANTS Objects, Self,
          SharedPtrs, WeakPtrs,   \* the variables of each type
          None                    \* the null pointer

ASSUME PtrAssumption == /\ Self \subseteq Objects
                        /\ IsFiniteSet(SharedPtrs) /\ IsFiniteSet(WeakPtrs)
                        /\ None \notin Objects \cup WeakPtrs

VARIABLES obj, info,             \* of the object, of its info block: none, live, ...
          useCount, weakCount,
          shared, weak,          \* what each pointer variable points to
          phase,                 \* where the thread using a SharedPtr is in its functions
          via, seen,             \* WeakPtr::lock(): the WeakPtr, and strongCount
          copied                 \* history: objects with a WeakPtr that was never counted

ptrVars == <<obj, info, useCount, weakCount, shared, weak, phase, via, seen, copied>>

Phases == {"idle", "cas", "destroy", "unlink"}

InitPtrs ==
    /\ obj = [o \in Objects |-> "none"] /\ info = [o \in Objects |-> "none"]
    /\ useCount = [o \in Objects |-> 0] /\ weakCount = [o \in Objects |-> 0]
    /\ shared = [s \in SharedPtrs |-> None] /\ weak = [w \in WeakPtrs |-> None]
    /\ phase = [s \in SharedPtrs |-> "idle"]
    /\ via = [s \in SharedPtrs |-> None] /\ seen = [s \in SharedPtrs |-> 0]
    /\ copied = {}

Idle(s) == phase[s] = "idle" /\ shared[s] = None
Holds(s, o) == phase[s] = "idle" /\ shared[s] = o
SelfRef(o) == IF o \in Self THEN 1 ELSE 0
----------------------------------------------------------------------------
\* The constructor from a plain pointer, which also sets the object's own WeakPtr.
NewSharedUncounted(s, o) ==
    /\ Idle(s) /\ obj[o] = "none"
    /\ obj' = [obj EXCEPT ![o] = "live"]
    /\ info' = [info EXCEPT ![o] = "live"]
    /\ useCount' = [useCount EXCEPT ![o] = 1]
    /\ weakCount' = [weakCount EXCEPT ![o] = SelfRef(o)]
    /\ shared' = [shared EXCEPT ![s] = o]
    /\ UNCHANGED <<weak, phase, via, seen, copied>>
NewShared(s, o) ==
    /\ Idle(s) /\ obj[o] = "none"
    /\ obj' = [obj EXCEPT ![o] = "live"]
    /\ info' = [info EXCEPT ![o] = "live"]
    /\ useCount' = [useCount EXCEPT ![o] = 1]
    /\ weakCount' = [weakCount EXCEPT ![o] = 1 + SelfRef(o)]
    /\ shared' = [shared EXCEPT ![s] = o]
    /\ UNCHANGED <<weak, phase, via, seen, copied>>

\* The copy constructor, and assignment to an empty pointer.
CopyShared(s, r) ==
    /\ Idle(s) /\ phase[r] = "idle" /\ shared[r] # None
    /\ useCount' = [useCount EXCEPT ![shared[r]] = @ + 1]
    /\ shared' = [shared EXCEPT ![s] = shared[r]]
    /\ UNCHANGED <<obj, info, weakCount, weak, phase, via, seen, copied>>

\* decrementStrongRefs(): the last one out runs the deleter ...
DropShared(s) ==
    /\ phase[s] = "idle" /\ shared[s] # None
    /\ LET o == shared[s]
           last == useCount[o] = 1
       IN  /\ useCount' = [useCount EXCEPT ![o] = @ - 1]
           /\ obj' = IF last THEN [obj EXCEPT ![o] = "dying"] ELSE obj
           /\ phase' = IF last THEN [phase EXCEPT ![s] = "destroy"] ELSE phase
           /\ shared' = IF last THEN shared ELSE [shared EXCEPT ![s] = None]
    /\ UNCHANGED <<info, weakCount, weak, via, seen, copied>>

\* A weak reference to o given up: the last one frees the info block.
WeakDropped(o) ==
    /\ weakCount' = [weakCount EXCEPT ![o] = @ - 1]
    /\ info' = IF weakCount[o] = 1 THEN [info EXCEPT ![o] = "freed"] ELSE info

\* ... which ends with the object's own WeakPtr ...
DestroyEnd(s) ==
    /\ phase[s] = "destroy"
    /\ obj' = [obj EXCEPT ![shared[s]] = "gone"]
    /\ IF shared[s] \in Self THEN WeakDropped(shared[s]) ELSE UNCHANGED <<weakCount, info>>
    /\ phase' = [phase EXCEPT ![s] = "unlink"]
    /\ UNCHANGED <<useCount, shared, weak, via, seen, copied>>

\* ... and then gives up the weak reference all SharedPtrs have together.
Unlink(s) ==
    /\ phase[s] = "unlink"
    /\ WeakDropped(shared[s])
    /\ phase' = [phase EXCEPT ![s] = "idle"]
    /\ shared' = [shared EXCEPT ![s] = None]
    /\ UNCHANGED <<obj, useCount, weak, via, seen, copied>>
----------------------------------------------------------------------------
\* WeakPtr::operator=, from a SharedPtr to o.  Its two counters are of different info blocks,
\* and the new one cannot reach zero in between: the SharedPtr is counted in it.
AssignWeak(w, o) ==
    LET old == weak[w] IN
    /\ old # o
    /\ weakCount' = [x \in Objects |-> CASE x = o -> weakCount[x] + 1
                                         [] x = old -> weakCount[x] - 1
                                         [] OTHER -> weakCount[x]]
    /\ info' = [x \in Objects |-> IF x = old /\ weakCount[x] = 1 THEN "freed" ELSE info[x]]
    /\ weak' = [weak EXCEPT ![w] = o]
    /\ UNCHANGED <<obj, useCount, shared, phase, via, seen, copied>>

\* The copy constructor the compiler supplies, for a variable that is new: it copies the pointer
\* and counts nothing.
CopyWeak(w, o) ==
    /\ weak' = [weak EXCEPT ![w] = o]
    /\ copied' = copied \cup {o}
    /\ UNCHANGED <<obj, info, useCount, weakCount, shared, phase, via, seen>>

\* operator=(nullptr) and the destructor.
DropWeak(w) ==
    /\ weak[w] # None
    /\ WeakDropped(weak[w])
    /\ weak' = [weak EXCEPT ![w] = None]
    /\ UNCHANGED <<obj, useCount, shared, phase, via, seen, copied>>

\* lock(): load the strong count, and give up when it is zero (nothing changes) ...
LockLoad(s, w) ==
    /\ Idle(s) /\ weak[w] # None
    /\ useCount[weak[w]] # 0
    /\ phase' = [phase EXCEPT ![s] = "cas"]
    /\ via' = [via EXCEPT ![s] = w]
    /\ seen' = [seen EXCEPT ![s] = useCount[weak[w]]]
    /\ UNCHANGED <<obj, info, useCount, weakCount, shared, weak, copied>>

\* ... then compare-and-swap it up by one, looking again at the count when that fails.
LockCasBlind(s) ==
    /\ phase[s] = "cas"
    /\ LET o == weak[via[s]] IN
           /\ useCount' = [useCount EXCEPT ![o] = @ + 1]
           /\ shared' = [shared EXCEPT ![s] = o]
           /\ phase' = [phase EXCEPT ![s] = "idle"]
           /\ via' = [via EXCEPT ![s] = None]
           /\ seen' = [seen EXCEPT ![s] = 0]
    /\ UNCHANGED <<obj, info, weakCount, weak, copied>>
LockCasStale(s) ==
    /\ phase[s] = "cas"
    /\ LET o == weak[via[s]]
           done == useCount[o] = seen[s]
       IN  /\ useCount' = IF done THEN [useCount EXCEPT ![o] = @ + 1] ELSE useCount
           /\ shared' = IF done THEN [shared EXCEPT ![s] = o] ELSE shared
           /\ phase' = IF done THEN [phase EXCEPT ![s] = "idle"] ELSE phase
           /\ via' = IF done THEN [via EXCEPT ![s] = None] ELSE via
           /\ seen' = IF done THEN [seen EXCEPT ![s] = 0] ELSE seen
    /\ UNCHANGED <<obj, info, weakCount, weak, copied>>
LockCas(s) ==
    /\ phase[s] = "cas"
    /\ LET o == weak[via[s]]
           swapped == useCount[o] = seen[s]
           done == swapped \/ useCount[o] = 0
       IN  /\ useCount' = IF swapped THEN [useCount EXCEPT ![o] = @ + 1] ELSE useCount
           /\ shared' = IF swapped THEN [shared EXCEPT ![s] = o] ELSE shared
           /\ phase' = IF done THEN [phase EXCEPT ![s] = "idle"] ELSE phase
           /\ via' = IF done THEN [via EXCEPT ![s] = None] ELSE via
           /\ seen' = [seen EXCEPT ![s] = IF done THEN 0 ELSE useCount[o]]
    /\ UNCHANGED <<obj, info, weakCount, weak, copied>>
----------------------------------------------------------------------------
\* What the users of a WeakPtr owe it: it is not changed while one of them locks it.
Still(w) == \A s \in SharedPtrs : via[s] # w

NextPtrs ==
    \/ \E s \in SharedPtrs : \/ \E o \in Objects : NewShared(s, o)
                             \/ \E r \in SharedPtrs : CopyShared(s, r)
                             \/ DropShared(s) \/ DestroyEnd(s) \/ Unlink(s) \/ LockCas(s)
                             \/ \E w \in WeakPtrs : LockLoad(s, w)
    \/ \E w \in WeakPtrs : /\ Still(w)
                           /\ \/ DropWeak(w)
                              \/ \E s \in SharedPtrs, o \in Objects :
                                     Holds(s, o) /\ \/ AssignWeak(w, o)
                                                    \/ weak[w] = None /\ CopyWeak(w, o)

SpecPtrs == InitPtrs /\ [][NextPtrs]_ptrVars
----------------------------------------------------------------------------
PtrTypeOK ==
    /\ obj \in [Objects -> {"none", "live", "dying", "gone"}]
    /\ info \in [Objects -> {"none", "live", "freed"}]
    /\ useCount \in [Objects -> Int] /\ weakCount \in [Objects -> Int]
    /\ shared \in [SharedPtrs -> Objects \cup {None}] /\ weak \in [WeakPtrs -> Objects \cup {None}]
    /\ phase \in [SharedPtrs -> Phases]
    /\ via \in [SharedPtrs -> WeakPtrs \cup {None}] /\ seen \in [SharedPtrs -> Int]
    /\ copied \subseteq Objects

(***************************************************************************)
(* An object is alive as long as any SharedPtr has it: lock() never brings *)
(* back one whose deleter has started, and no two threads run it.          *)
(***************************************************************************)
PointeeAlive ==
    /\ \A s \in SharedPtrs, o \in Objects : Holds(s, o) => obj[o] = "live"
    /\ \A s, r \in SharedPtrs : /\ phase[s] \in {"destroy", "unlink"}
                                /\ phase[r] \in {"destroy", "unlink"}
                                /\ shared[s] = shared[r]
                                => s = r

(***************************************************************************)
(* The info block outlives every pointer to it, the thread running the     *)
(* deleter included (the comments of InfoBlock and WeakPtr).               *)
(***************************************************************************)
InfoKept ==
    /\ \A s \in SharedPtrs : shared[s] # None => info[shared[s]] = "live"
    /\ \A w \in WeakPtrs : weak[w] # None => info[weak[w]] = "live"

(***************************************************************************)
(* ... as far as the copy constructor lets it: the info block of an object *)
(* whose WeakPtrs were all assigned.                                       *)
(***************************************************************************)
InfoKeptCounted ==
    /\ \A s \in SharedPtrs : shared[s] \notin {None} \cup copied => info[shared[s]] = "live"
    /\ \A w \in WeakPtrs : weak[w] \notin {None} \cup copied => info[weak[w]] = "live"

(***************************************************************************)
(* ... and no longer: with the object gone and no pointer left the info    *)
(* block has been freed.                                                   *)
(***************************************************************************)
InfoReclaimed ==
    \A o \in Objects \ copied : /\ obj[o] = "gone"
                                /\ \A s \in SharedPtrs : shared[s] # o
                                /\ \A w \in WeakPtrs : weak[w] # o
                                => info[o] = "freed"
=============================================================================
