--------------------------- MODULE HandleManager ---------------------------
(***************************************************************************)
(* The kernel's handle table (kernel/src/handle/Manager.h).  A handle is   *)
(* an opaque word (type, slot index, epoch) that user space may keep and   *)
(* pass back at any time; a slot holds a WEAK reference to the object and  *)
(* a counter, the epoch, that tells a stale handle from a current one.     *)
(*                                                                         *)
(* Every table operation runs under the table's reader/writer lock and is  *)
(* one step.  The strong count of an object is not protected by that lock: *)
(* an object can lose its last reference on one core, and its slot can be  *)
(* found expired and reused by another core, before its destructor gets    *)
(* around to releasing the handle.                                         *)
(***************************************************************************)
EXTENDS Integers, FiniteSets

CONSTANTS Objects,     \* kernel objects that will be created
          TypeOf,      \* the type code of each object
          EpochMod,    \* kEpochMask + 1: handles carry the epoch modulo this
          MaxSlots,    \* bound on the growth of each table's vector
          MaxRefs,     \* bound on the strong references to one object
          NoObject     \* a null weak pointer

\* Type codes (enum Type).
Task == 1
Thread == 2
Port == 3
VmRegion == 4
IrqHandler == 5
Types == 1..5

ASSUME HandleAssumption ==
    /\ TypeOf \in [Objects -> Types]
    /\ EpochMod \in Nat \ {0}
    /\ MaxSlots \in Nat
    /\ MaxRefs \in Nat \ {0}
    /\ NoObject \notin Objects

VARIABLES
    size,      \* size[t]: number of slots in the vector of type t
    slots,     \* slots[t][i]: the HandleInfo at index i
    strong,    \* strong[o]: strong references to o
    phase,     \* unborn, live, dying (in its destructor) or dead
    handle,    \* handle[o]: the handle stored in o
    issued     \* issued[o]: the full epoch of the slot when o got its handle

vars == <<size, slots, strong, phase, handle, issued>>

Indices == 0..(MaxSlots - 1)
Slot == [object : Objects \cup {NoObject}, epoch : Nat]
Handle == [type : 0..5, index : Nat, epoch : 0..(EpochMod - 1)]
Invalid == [type |-> 0, index |-> 0, epoch |-> 0]

makeHandle(t, i, e) == [type |-> t, index |-> i, epoch |-> e % EpochMod]

\* WeakPtr::expired(): no strong reference left; a null pointer counts as expired.
Expired(s) == IF s.object = NoObject THEN TRUE ELSE strong[s.object] = 0

SlotFree(s) == s.object = NoObject \/ Expired(s)

\* The epoch a slot gets when it is reused: "we don't know when the object
\* expired so increment epoch to be safe".
ReuseEpochKept(s) == s.epoch
ReuseEpoch(s) == IF Expired(s) THEN s.epoch + 1 ELSE s.epoch

FreeSlots(t) == {i \in Indices : i < size[t] /\ SlotFree(slots[t][i])}
IsFirst(i, S) == i \in S /\ \A j \in S : i <= j

\* release() and get() accept a handle whose index is in range and whose
\* epoch matches the slot's.
IndexValid(h) == h.index < size[h.type]
EpochUnchecked(h) == TRUE
EpochMatches(h) == slots[h.type][h.index].epoch % EpochMod = h.epoch

\* get<Type>(): the object a handle resolves to, if it can be locked.
Get(h) ==
    IF h.type \in Types
    THEN IF IndexValid(h)
         THEN IF EpochMatches(h) /\ ~Expired(slots[h.type][h.index])
              THEN slots[h.type][h.index].object
              ELSE NoObject
         ELSE NoObject
    ELSE NoObject

----------------------------------------------------------------------------
Init ==
    /\ size = [t \in Types |-> 0]
    /\ slots = [t \in Types |-> [i \in Indices |-> [object |-> NoObject, epoch |-> 0]]]
    /\ strong = [o \in Objects |-> 0]
    /\ phase = [o \in Objects |-> "unborn"]
    /\ handle = [o \in Objects |-> Invalid]
    /\ issued = [o \in Objects |-> 0]

\* The first shared pointer to a new object and the handle it is given.
Born(o, t, i, e) ==
    /\ slots' = [slots EXCEPT ![t][i] = [object |-> o, epoch |-> e]]
    /\ handle' = [handle EXCEPT ![o] = makeHandle(t, i, e)]
    /\ issued' = [issued EXCEPT ![o] = e]
    /\ strong' = [strong EXCEPT ![o] = 1]
    /\ phase' = [phase EXCEPT ![o] = "live"]

\* allocate(): reuse the first free or expired slot ...
AllocateReuse(o) ==
    /\ phase[o] = "unborn"
    /\ \E i \in Indices :
          /\ IsFirst(i, FreeSlots(TypeOf[o]))
          /\ Born(o, TypeOf[o], i, ReuseEpoch(slots[TypeOf[o]][i]))
    /\ UNCHANGED size

\* ... or, when there is none, push a new one at the back of the vector. This module keeps the
\* strong counts only: that the push copies the slot's WeakPtr without counting it in the info
\* block, and what follows from it, is in HandleTable and InfoBlock.
AllocateGrow(o) ==
    /\ phase[o] = "unborn"
    /\ FreeSlots(TypeOf[o]) = {}
    /\ size[TypeOf[o]] < MaxSlots
    /\ Born(o, TypeOf[o], size[TypeOf[o]], 0)
    /\ size' = [size EXCEPT ![TypeOf[o]] = @ + 1]

\* A thread resolves a handle user space kept; WeakPtr::lock() takes a reference.
Lookup(h) ==
    LET o == Get(h) IN
    /\ o \in Objects
    /\ strong[o] < MaxRefs
    /\ strong' = [strong EXCEPT ![o] = @ + 1]
    /\ UNCHANGED <<size, slots, phase, handle, issued>>

\* A strong reference goes away; with the last one the destructor starts.
Drop(o) ==
    /\ strong[o] > 0
    /\ strong' = [strong EXCEPT ![o] = @ - 1]
    /\ phase' = [phase EXCEPT ![o] = IF strong[o] = 1 THEN "dying" ELSE @]
    /\ UNCHANGED <<size, slots, handle, issued>>

\* Task, Thread, Port and MapEntry destructors release their handle;
\* IrqHandler's does not.
ReleasesHandleNever(o) == FALSE
ReleasesHandle(o) == TypeOf[o] # IrqHandler

\* release<Type>Handle() called by the destructor.
Destroy(o) ==
    /\ phase[o] = "dying"
    /\ phase' = [phase EXCEPT ![o] = "dead"]
    /\ IF ReleasesHandle(o) /\ IndexValid(handle[o]) /\ EpochMatches(handle[o])
       THEN slots' = [slots EXCEPT ![handle[o].type][handle[o].index] =
                                   [object |-> NoObject, epoch |-> @.epoch + 1]]
       ELSE UNCHANGED slots
    /\ UNCHANGED <<size, strong, handle, issued>>

Next ==
    \E o \in Objects :
        \/ AllocateReuse(o)
        \/ AllocateGrow(o)
        \/ Lookup(handle[o])
        \/ Drop(o)
        \/ Destroy(o)

Spec == Init /\ [][Next]_vars
----------------------------------------------------------------------------
Issued(o) == phase[o] # "unborn"
SlotOf(o) == slots[TypeOf[o]][handle[o].index]

\* Every table holds weak references and epochs, every object has a life phase.
TypeOK ==
    /\ size \in [Types -> 0..MaxSlots]
    /\ slots \in [Types -> [Indices -> Slot]]
    /\ strong \in [Objects -> Nat]
    /\ phase \in [Objects -> {"unborn", "live", "dying", "dead"}]
    /\ handle \in [Objects -> Handle]
    /\ issued \in [Objects -> Nat]

\* A handle that user space kept resolves to the object it was made for or to
\* nothing, whoever reused the slot since, unless the slot's epoch has advanced
\* by a full turn of the epoch field (get, allocate, release in Manager.h).
StaleHandleDetected ==
    \A o \in Objects :
        Issued(o) =>
            \/ Get(handle[o]) \in {o, NoObject}
            \/ SlotOf(o).epoch - issued[o] >= EpochMod

\* As long as an object is referenced its handle resolves to it: no late
\* release by the destructor of an earlier tenant of the slot, and no
\* allocation, takes the slot away (first turn of the epoch field).
LiveHandleResolves ==
    \A o \in Objects :
        phase[o] = "live" /\ SlotOf(o).epoch < EpochMod => Get(handle[o]) = o

\* An object whose destructor has finished has given its slot back ("it is the
\* responsibility of the object that owns the handle to release the handle slot
\* when it is being deallocated"), for the four classes whose destructor does.
SlotReleased ==
    \A o \in Objects :
        phase[o] = "dead" /\ TypeOf[o] # IrqHandler => SlotOf(o).object # o

\* The same responsibility, for interrupt handlers.
IrqSlotReleased ==
    \A o \in Objects :
        phase[o] = "dead" /\ TypeOf[o] = IrqHandler => SlotOf(o).object # o
============================================================================
