------------------------ MODULE HandleManagerProofs ------------------------
(***************************************************************************)
(* Theorems about the handle table, for any number of objects, any size of *)
(* the tables and any width of the epoch field.                            *)
(***************************************************************************)
EXTENDS HandleManager, TLAPS

(***************************************************************************)
(* The strengthening of the safety properties.  A slot that holds an       *)
(* object holds the epoch that object was issued (Tenant), epochs never    *)
(* fall behind an issued one (NotAhead), and a slot whose epoch is the one *)
(* o was issued still holds o (Unmoved): releasing a slot and reusing it   *)
(* both advance the epoch.                                                 *)
(***************************************************************************)
Counted ==
    \A o \in Objects : phase[o] = "live" <=> strong[o] > 0

Signed ==
    \A o \in Objects : Issued(o) =>
        /\ handle[o].type = TypeOf[o]
        /\ handle[o].index < size[TypeOf[o]]
        /\ handle[o].epoch = issued[o] % EpochMod

Tenant ==
    \A t \in Types, i \in Indices : slots[t][i].object \in Objects =>
        LET o == slots[t][i].object IN
        /\ Issued(o)
        /\ TypeOf[o] = t
        /\ handle[o].index = i
        /\ issued[o] = slots[t][i].epoch

NotAhead ==
    \A o \in Objects : Issued(o) => issued[o] <= SlotOf(o).epoch

Unmoved ==
    \A o \in Objects : Issued(o) /\ issued[o] = SlotOf(o).epoch =>
        SlotOf(o).object = o

Kept ==
    \A o \in Objects : phase[o] = "live" /\ SlotOf(o).epoch < EpochMod =>
        SlotOf(o).object = o

IInv == TypeOK /\ Counted /\ Signed /\ Tenant /\ NotAhead /\ Unmoved /\ Kept /\ SlotReleased
----------------------------------------------------------------------------
\* Two epochs with the same residue are equal or a full turn apart.
LEMMA ModTurn ==
    ASSUME NEW a \in Nat, NEW b \in Nat, NEW m \in Nat \ {0},
           a <= b, a % m = b % m
    PROVE  a = b \/ b - a >= m
<1> DEFINE q == b \div m - a \div m
<1>1. /\ a = m * (a \div m) + (a % m)
      /\ b = m * (b \div m) + (b % m)
      /\ a \div m \in Int
      /\ b \div m \in Int
  OBVIOUS
<1>2. q \in Int /\ b - a = m * q
  BY <1>1
<1>3. CASE q <= 0
  <2>1. m * q <= 0
    BY <1>2, <1>3
  <2> QED BY <2>1, <1>2
<1>4. CASE q >= 1
  <2>1. m * q >= m
    BY <1>2, <1>4
  <2> QED BY <2>1, <1>2
<1> QED BY <1>2, <1>3, <1>4

\* A masked epoch fits the epoch field.
LEMMA ModRange ==
    ASSUME NEW a \in Nat, NEW m \in Nat \ {0}
    PROVE  a % m \in 0..(m - 1)
OBVIOUS

\* Below the first turn the mask loses nothing.
LEMMA ModSmall ==
    ASSUME NEW a \in Nat, NEW b \in Nat, NEW m \in Nat \ {0},
           a <= b, b < m, a % m = b % m
    PROVE  a = b
<1>1. a = b \/ b - a >= m
  BY ModTurn
<1> QED BY <1>1

\* The initial state satisfies the inductive invariant.
LEMMA InitIInv == Init => IInv
<1> SUFFICES ASSUME Init PROVE IInv
  OBVIOUS
<1> USE HandleAssumption DEF Init
<1>1. TypeOK
  BY DEF TypeOK, Slot, Handle, Invalid, Types, Indices
<1>2. Counted /\ Signed /\ NotAhead /\ Unmoved /\ Kept /\ SlotReleased
  BY DEF Counted, Signed, NotAhead, Unmoved, Kept, SlotReleased, Issued
<1>3. Tenant
  BY DEF Tenant
<1> QED BY <1>1, <1>2, <1>3 DEF IInv

\* An issued handle names a slot of the table of its object's type.
LEMMA SlotInTable ==
    ASSUME TypeOK, Signed, NEW o \in Objects, Issued(o)
    PROVE  /\ TypeOf[o] \in Types
           /\ handle[o].index \in Indices
           /\ SlotOf(o) \in Slot
           /\ issued[o] \in Nat
<1>1. TypeOf[o] \in Types
  BY HandleAssumption
<1>2. handle[o] \in Handle /\ size[TypeOf[o]] \in 0..MaxSlots
  BY <1>1 DEF TypeOK
<1>3. handle[o].index \in Nat /\ handle[o].index < size[TypeOf[o]]
  BY <1>2 DEF Handle, Signed
<1>4. handle[o].index \in Indices
  BY <1>2, <1>3, HandleAssumption DEF Indices
<1> QED BY <1>1, <1>4 DEF TypeOK, SlotOf

(***************************************************************************)
(* Storing a new object in slot i of its table preserves the invariant     *)
(* when the epoch e is later than any issued for that slot, and no earlier *)
(* tenant is still alive in the first turn of the epoch field.             *)
(***************************************************************************)
LEMMA BornIInv ==
    ASSUME IInv, NEW o \in Objects, NEW i \in Indices, NEW e \in Nat,
           phase[o] = "unborn",
           Born(o, TypeOf[o], i, e),
           size' \in [Types -> 0..MaxSlots],
           \A t \in Types : size[t] <= size'[t],
           i < size'[TypeOf[o]],
           \A p \in Objects : Issued(p) /\ TypeOf[p] = TypeOf[o] /\ handle[p].index = i
               => issued[p] < e /\ (phase[p] = "live" => e >= EpochMod)
    PROVE  IInv'
<1> USE HandleAssumption
<1> DEFINE T == TypeOf[o]
<1>0. /\ TypeOK /\ Counted /\ Signed /\ Tenant /\ NotAhead /\ Unmoved /\ Kept /\ SlotReleased
      /\ T \in Types
  BY DEF IInv
<1>1. /\ slots' = [slots EXCEPT ![T][i] = [object |-> o, epoch |-> e]]
      /\ handle' = [handle EXCEPT ![o] = makeHandle(T, i, e)]
      /\ issued' = [issued EXCEPT ![o] = e]
      /\ strong' = [strong EXCEPT ![o] = 1]
      /\ phase' = [phase EXCEPT ![o] = "live"]
  BY DEF Born
<1>2. makeHandle(T, i, e) \in Handle
  <2>1. e % EpochMod \in 0..(EpochMod - 1)
    BY ModRange
  <2>2. T \in 0..5 /\ i \in Nat
    BY <1>0 DEF Types, Indices
  <2> QED BY <2>1, <2>2 DEF makeHandle, Handle
<1>3. TypeOK'
  BY <1>0, <1>1, <1>2 DEF TypeOK, Slot
<1>4. /\ handle'[o] = makeHandle(T, i, e) /\ issued'[o] = e /\ phase'[o] = "live"
      /\ slots'[T][i] = [object |-> o, epoch |-> e]
      /\ \A p \in Objects \ {o} : /\ handle'[p] = handle[p] /\ issued'[p] = issued[p]
                                 /\ phase'[p] = phase[p] /\ strong'[p] = strong[p]
      /\ \A t \in Types, j \in Indices : <<t, j>> # <<T, i>> => slots'[t][j] = slots[t][j]
  BY <1>0, <1>1 DEF TypeOK
<1>5. Counted'
  BY <1>0, <1>1, <1>4 DEF Counted, TypeOK
<1>6. Signed'
  <2> SUFFICES ASSUME NEW p \in Objects, Issued(p)'
               PROVE  /\ handle'[p].type = TypeOf[p]
                      /\ handle'[p].index < size'[TypeOf[p]]
                      /\ handle'[p].epoch = issued'[p] % EpochMod
    BY DEF Signed
  <2>1. CASE p = o
    BY <2>1, <1>4 DEF makeHandle
  <2>2. CASE p # o
    <3>1. Issued(p) /\ handle'[p] = handle[p] /\ issued'[p] = issued[p]
      BY <2>2, <1>4 DEF Issued
    <3>2. TypeOf[p] \in Types /\ handle[p].index \in Nat
      BY <3>1, <1>0, SlotInTable DEF Indices
    <3>3. size[TypeOf[p]] \in Nat /\ size'[TypeOf[p]] \in Nat
      BY <3>2, <1>0 DEF TypeOK
    <3> QED BY <3>1, <3>2, <3>3, <1>0 DEF Signed
  <2> QED BY <2>1, <2>2
<1>7. \A p \in Objects \ {o} : Issued(p)' =>
         /\ Issued(p)
         /\ \/ SlotOf(p)' = SlotOf(p)
            \/ SlotOf(p)' = [object |-> o, epoch |-> e] /\ TypeOf[p] = T /\ handle[p].index = i
  <2> SUFFICES ASSUME NEW p \in Objects \ {o}, Issued(p)'
               PROVE  /\ Issued(p)
                      /\ \/ SlotOf(p)' = SlotOf(p)
                         \/ /\ SlotOf(p)' = [object |-> o, epoch |-> e]
                            /\ TypeOf[p] = T /\ handle[p].index = i
    OBVIOUS
  <2>1. Issued(p) /\ handle'[p] = handle[p] /\ TypeOf[p] \in Types
    BY <1>4 DEF Issued
  <2>2. handle[p].index \in Indices
    BY <1>0, <2>1, SlotInTable
  <2> QED BY <1>4, <2>1, <2>2 DEF SlotOf
<1>8. Tenant'
  BY <1>0, <1>4 DEF Tenant, Issued, makeHandle
<1>9. SlotOf(o)' = [object |-> o, epoch |-> e]
  BY <1>4 DEF SlotOf, makeHandle
<1>10. NotAhead'
  BY <1>0, <1>4, <1>7, <1>9 DEF NotAhead, TypeOK
<1>11. Unmoved'
  BY <1>0, <1>4, <1>7, <1>9 DEF Unmoved, TypeOK
<1>12. Kept'
  BY <1>0, <1>4, <1>7, <1>9 DEF Kept, TypeOK, Issued
<1>13. SlotReleased'
  BY <1>0, <1>4, <1>7, <1>9 DEF SlotReleased, Issued
<1> QED BY <1>3, <1>5, <1>6, <1>8, <1>10, <1>11, <1>12, <1>13 DEF IInv

\* Reusing the first free slot preserves the invariant.
LEMMA ReuseIInv ==
    ASSUME IInv, NEW o \in Objects, AllocateReuse(o)
    PROVE  IInv'
<1> USE HandleAssumption
<1> DEFINE T == TypeOf[o]
<1>0. /\ TypeOK /\ Counted /\ Signed /\ Tenant /\ NotAhead /\ Kept
      /\ T \in Types /\ phase[o] = "unborn" /\ size' = size
  BY DEF IInv, AllocateReuse
<1>1. PICK i \in Indices : /\ IsFirst(i, FreeSlots(T))
                           /\ Born(o, T, i, ReuseEpoch(slots[T][i]))
  BY DEF AllocateReuse
<1>2. i < size[T] /\ SlotFree(slots[T][i])
  BY <1>1 DEF IsFirst, FreeSlots
<1>3. Expired(slots[T][i])
  BY <1>2 DEF SlotFree, Expired
<1> DEFINE e == ReuseEpoch(slots[T][i])
<1>4. slots[T][i] \in Slot /\ slots[T][i].epoch \in Nat
  BY <1>0 DEF TypeOK, Slot
<1>5. e = slots[T][i].epoch + 1 /\ e \in Nat
  BY <1>3, <1>4 DEF ReuseEpoch
<1>6. ASSUME NEW p \in Objects, Issued(p), TypeOf[p] = T, handle[p].index = i
      PROVE  issued[p] < e /\ (phase[p] = "live" => e >= EpochMod)
  <2>1. SlotOf(p) = slots[T][i]
    BY <1>6 DEF SlotOf
  <2>2. issued[p] <= slots[T][i].epoch /\ issued[p] \in Nat
    BY <1>0, <1>6, <2>1 DEF NotAhead, TypeOK
  <2>3. ASSUME phase[p] = "live" PROVE slots[T][i].epoch >= EpochMod
    <3>1. SUFFICES ASSUME slots[T][i].epoch < EpochMod PROVE FALSE
      BY <1>4
    <3>2. slots[T][i].object = p
      BY <1>0, <2>1, <2>3, <3>1 DEF Kept
    <3>3. strong[p] = 0
      BY <1>3, <3>2 DEF Expired
    <3> QED BY <1>0, <2>3, <3>3 DEF Counted
  <2> QED BY <2>2, <2>3, <1>4, <1>5
<1>7. \A t \in Types : size[t] <= size'[t]
  BY <1>0 DEF TypeOK
<1>8. size' \in [Types -> 0..MaxSlots]
  BY <1>0 DEF TypeOK
<1> HIDE DEF e
<1> QED BY <1>0, <1>1, <1>2, <1>5, <1>6, <1>7, <1>8, BornIInv DEF e

\* Growing a table preserves the invariant: no handle names the new slot.
LEMMA GrowIInv ==
    ASSUME IInv, NEW o \in Objects, AllocateGrow(o)
    PROVE  IInv'
<1> USE HandleAssumption
<1> DEFINE T == TypeOf[o]
<1>0. /\ TypeOK /\ Signed /\ T \in Types /\ phase[o] = "unborn"
      /\ size[T] < MaxSlots /\ size' = [size EXCEPT ![T] = @ + 1]
      /\ Born(o, T, size[T], 0)
  BY DEF IInv, AllocateGrow
<1>1. size \in [Types -> 0..MaxSlots] /\ size[T] \in Indices
  BY <1>0 DEF TypeOK, Indices
<1>2. /\ size' \in [Types -> 0..MaxSlots]
      /\ \A t \in Types : size[t] <= size'[t]
      /\ size[T] < size'[T]
  BY <1>0, <1>1
<1>3. ASSUME NEW p \in Objects, Issued(p), TypeOf[p] = T, handle[p].index = size[T]
      PROVE  FALSE
  BY <1>0, <1>1, <1>3 DEF Signed
<1> QED BY <1>0, <1>1, <1>2, <1>3, BornIInv

\* Taking or dropping a strong reference preserves the invariant.
LEMMA CountIInv ==
    ASSUME IInv, NEW o \in Objects, Lookup(handle[o]) \/ Drop(o)
    PROVE  IInv'
<1> USE HandleAssumption
<1>0. /\ TypeOK /\ Counted /\ Signed /\ Tenant /\ NotAhead /\ Unmoved /\ Kept /\ SlotReleased
      /\ size' = size /\ slots' = slots /\ handle' = handle /\ issued' = issued
  BY DEF IInv, Lookup, Drop
<1>1. PICK p \in Objects :
         \/ /\ strong[p] > 0 /\ strong' = [strong EXCEPT ![p] = @ + 1]
            /\ phase' = phase
         \/ /\ strong[p] > 0 /\ strong' = [strong EXCEPT ![p] = @ - 1]
            /\ phase' = [phase EXCEPT ![p] = IF strong[p] = 1 THEN "dying" ELSE @]
  <2>1. CASE Drop(o)
    BY <2>1 DEF Drop
  <2>2. CASE Lookup(handle[o])
    <3> DEFINE q == Get(handle[o])
    <3>1. q \in Objects /\ strong' = [strong EXCEPT ![q] = @ + 1] /\ phase' = phase
      BY <2>2 DEF Lookup
    <3>2. strong[q] # 0
      BY <3>1 DEF Get, Expired
    <3>3. strong[q] \in Nat
      BY <3>1, <1>0 DEF TypeOK
    <3>4. strong[q] > 0
      BY <3>2, <3>3
    <3> HIDE DEF q
    <3> QED BY <3>1, <3>4
  <2> QED BY <2>1, <2>2
<1>2. TypeOK'
  <2>1. strong \in [Objects -> Nat] /\ phase \in [Objects -> {"unborn", "live", "dying", "dead"}]
    BY <1>0 DEF TypeOK
  <2>2. strong[p] + 1 \in Nat /\ strong[p] - 1 \in Nat
    BY <2>1, <1>1
  <2>3. strong' \in [Objects -> Nat]
    BY <2>1, <2>2, <1>1
  <2>4. phase' \in [Objects -> {"unborn", "live", "dying", "dead"}]
    BY <2>1, <1>1
  <2> QED BY <2>3, <2>4, <1>0 DEF TypeOK
<1>3. Counted'
  BY <1>0, <1>1 DEF Counted, TypeOK
<1>4. \A x \in Objects : /\ phase'[x] = "unborn" <=> phase[x] = "unborn"
                         /\ phase'[x] = "live" => phase[x] = "live"
                         /\ phase'[x] = "dead" <=> phase[x] = "dead"
  BY <1>0, <1>1 DEF TypeOK, Counted
<1>5. \A x \in Objects : (Issued(x)' <=> Issued(x)) /\ SlotOf(x)' = SlotOf(x)
  BY <1>0, <1>4 DEF Issued, SlotOf
<1>6. Signed' /\ NotAhead' /\ Unmoved' /\ Kept' /\ SlotReleased'
  BY <1>0, <1>4, <1>5 DEF Signed, NotAhead, Unmoved, Kept, SlotReleased
<1>7. Tenant'
  BY <1>0, <1>5 DEF Tenant
<1> QED BY <1>2, <1>3, <1>6, <1>7 DEF IInv

\* A destructor that releases its handle, or does not, preserves the invariant.
LEMMA DestroyIInv ==
    ASSUME IInv, NEW o \in Objects, Destroy(o)
    PROVE  IInv'
<1> USE HandleAssumption
<1> DEFINE T == TypeOf[o]
           x == handle[o].index
           s == slots[T][x]
<1>0. /\ TypeOK /\ Counted /\ Signed /\ Tenant /\ NotAhead /\ Unmoved /\ Kept /\ SlotReleased
      /\ size' = size /\ strong' = strong /\ handle' = handle /\ issued' = issued
      /\ phase[o] = "dying" /\ phase' = [phase EXCEPT ![o] = "dead"]
  BY DEF IInv, Destroy
<1>1. /\ Issued(o) /\ T \in Types /\ x \in Indices /\ SlotOf(o) = s
      /\ s \in Slot /\ s.epoch \in Nat /\ handle[o].type = T
      /\ handle[o].epoch = issued[o] % EpochMod /\ issued[o] \in Nat
  BY <1>0, SlotInTable DEF Issued, SlotOf, Slot, Signed
<1>2. phase' \in [Objects -> {"unborn", "live", "dying", "dead"}]
  BY <1>0 DEF TypeOK
<1>3. \A p \in Objects : /\ Issued(p)' <=> Issued(p)
                         /\ phase'[p] = "live" <=> phase[p] = "live"
                         /\ phase'[p] = "dead" <=> phase[p] = "dead" \/ p = o
  BY <1>0 DEF TypeOK, Issued
<1>4. Counted' /\ Signed'
  BY <1>0, <1>3 DEF Counted, Signed
<1>5. CASE slots' = slots /\ ~(ReleasesHandle(o) /\ EpochMatches(handle[o]))
  <2>1. \A p \in Objects : SlotOf(p)' = SlotOf(p)
    BY <1>0, <1>5 DEF SlotOf
  <2>2. TypeOK'
    BY <1>0, <1>2, <1>5 DEF TypeOK
  <2>3. Tenant'
    BY <1>0, <1>3, <1>5 DEF Tenant
  <2>4. NotAhead' /\ Unmoved' /\ Kept'
    BY <1>0, <1>3, <2>1 DEF NotAhead, Unmoved, Kept
  <2>5. TypeOf[o] # IrqHandler => s.object # o
    <3> SUFFICES ASSUME TypeOf[o] # IrqHandler, s.object = o PROVE FALSE
      OBVIOUS
    <3>1. issued[o] = s.epoch
      BY <1>0, <1>1 DEF Tenant
    <3>2. EpochMatches(handle[o])
      BY <1>1, <3>1 DEF EpochMatches
    <3> QED BY <3>2, <1>5 DEF ReleasesHandle
  <2>6. SlotReleased'
    BY <1>0, <1>1, <1>3, <2>1, <2>5 DEF SlotReleased
  <2> QED BY <1>4, <2>2, <2>3, <2>4, <2>6 DEF IInv
<1>6. CASE /\ EpochMatches(handle[o])
           /\ slots' = [slots EXCEPT ![T][x] = [object |-> NoObject, epoch |-> s.epoch + 1]]
  <2>1. /\ slots'[T][x] = [object |-> NoObject, epoch |-> s.epoch + 1]
        /\ \A t \in Types, j \in Indices : <<t, j>> # <<T, x>> => slots'[t][j] = slots[t][j]
    BY <1>0, <1>1, <1>6 DEF TypeOK
  <2>2. TypeOK'
    <3>1. [object |-> NoObject, epoch |-> s.epoch + 1] \in Slot
      BY <1>1 DEF Slot
    <3>2. slots' \in [Types -> [Indices -> Slot]]
      BY <3>1, <1>0, <1>1, <1>6 DEF TypeOK
    <3> QED BY <3>2, <1>0, <1>2 DEF TypeOK
  <2>3. Tenant'
    BY <1>0, <1>3, <2>1 DEF Tenant
  <2>4. \A p \in Objects : Issued(p) =>
           \/ SlotOf(p)' = SlotOf(p)
           \/ /\ SlotOf(p)' = [object |-> NoObject, epoch |-> s.epoch + 1]
              /\ SlotOf(p) = s
    <3> SUFFICES ASSUME NEW p \in Objects, Issued(p)
                 PROVE  \/ SlotOf(p)' = SlotOf(p)
                        \/ /\ SlotOf(p)' = [object |-> NoObject, epoch |-> s.epoch + 1]
                           /\ SlotOf(p) = s
      OBVIOUS
    <3>1. TypeOf[p] \in Types /\ handle[p].index \in Indices /\ handle'[p] = handle[p]
      BY <1>0, SlotInTable
    <3> QED BY <3>1, <2>1 DEF SlotOf
  <2>5. \A p \in Objects : issued[p] \in Nat
    BY <1>0 DEF TypeOK
  <2>6. NotAhead'
    BY <1>0, <1>1, <1>3, <2>4, <2>5 DEF NotAhead
  <2>7. Unmoved'
    BY <1>0, <1>1, <1>3, <2>4, <2>5 DEF Unmoved, NotAhead
  <2>8. s.epoch < EpochMod => s.object = o
    <3> SUFFICES ASSUME s.epoch < EpochMod PROVE s.object = o
      OBVIOUS
    <3>1. issued[o] <= s.epoch
      BY <1>0, <1>1 DEF NotAhead
    <3>2. s.epoch % EpochMod = issued[o] % EpochMod
      BY <1>1, <1>6 DEF EpochMatches
    <3>3. issued[o] = s.epoch
      BY <1>1, <3>1, <3>2, ModSmall
    <3> QED BY <1>0, <1>1, <3>3 DEF Unmoved
  <2>9. Kept'
    <3> SUFFICES ASSUME NEW p \in Objects, phase'[p] = "live", SlotOf(p)'.epoch < EpochMod
                 PROVE  SlotOf(p)'.object = p
      BY DEF Kept
    <3>1. phase[p] = "live" /\ Issued(p)
      BY <1>3 DEF Issued
    <3>2. CASE SlotOf(p)' = SlotOf(p)
      BY <3>1, <3>2, <1>0 DEF Kept
    <3>3. CASE SlotOf(p) = s /\ SlotOf(p)'.epoch = s.epoch + 1
      <4>1. s.epoch < EpochMod
        BY <3>3, <1>1
      <4>2. s.object = p
        BY <3>1, <3>3, <4>1, <1>0 DEF Kept
      <4> QED BY <4>1, <4>2, <2>8, <3>1, <1>0
    <3> QED BY <2>4, <3>1, <3>2, <3>3
  <2>10. SlotReleased'
    <3> SUFFICES ASSUME NEW p \in Objects, phase'[p] = "dead", TypeOf[p] # IrqHandler
                 PROVE  SlotOf(p)'.object # p
      BY DEF SlotReleased
    <3>1. CASE p = o
      BY <3>1, <1>0, <1>1, <2>1 DEF SlotOf
    <3>2. CASE p # o
      BY <3>2, <1>0, <1>3, <2>4 DEF SlotReleased, Issued
    <3> QED BY <3>1, <3>2
  <2> QED BY <1>4, <2>2, <2>3, <2>6, <2>7, <2>9, <2>10 DEF IInv
<1>7. IndexValid(handle[o])
  BY <1>0, <1>1 DEF Signed, IndexValid
<1> QED BY <1>1, <1>5, <1>6, <1>7 DEF Destroy

\* Every step preserves the inductive invariant.
LEMMA NextIInv == IInv /\ [Next]_vars => IInv'
<1> SUFFICES ASSUME IInv, [Next]_vars PROVE IInv'
  OBVIOUS
<1>1. CASE Next
  BY <1>1, ReuseIInv, GrowIInv, CountIInv, DestroyIInv DEF Next
<1>2. CASE UNCHANGED vars
  BY <1>2 DEF vars, IInv, TypeOK, Counted, Signed, Tenant, NotAhead, Unmoved, Kept,
              SlotReleased, Issued, SlotOf
<1> QED BY <1>1, <1>2
----------------------------------------------------------------------------
\* The table, the counts and the handles keep their types (Manager.h).
THEOREM TypeCorrect == Spec => []TypeOK
<1>1. IInv => TypeOK
  BY DEF IInv
<1> QED BY <1>1, InitIInv, NextIInv, PTL DEF Spec

\* get() never resolves a kept handle to another object than the one it was
\* made for before the slot's epoch has made a full turn.
THEOREM StaleHandlesDetected == Spec => []StaleHandleDetected
<1>1. IInv => StaleHandleDetected
  <2> SUFFICES ASSUME IInv, NEW o \in Objects, Issued(o),
                      Get(handle[o]) \notin {o, NoObject}
               PROVE  SlotOf(o).epoch - issued[o] >= EpochMod
    BY DEF StaleHandleDetected
  <2>0. TypeOK /\ Signed /\ NotAhead /\ Unmoved
    BY DEF IInv
  <2>1. /\ SlotOf(o) \in Slot /\ SlotOf(o).epoch \in Nat /\ issued[o] \in Nat
        /\ handle[o].type = TypeOf[o] /\ handle[o].epoch = issued[o] % EpochMod
    BY <2>0, SlotInTable DEF Slot, Signed
  <2>2. EpochMatches(handle[o]) /\ Get(handle[o]) = SlotOf(o).object
    BY <2>1 DEF Get, SlotOf
  <2>3. issued[o] % EpochMod = SlotOf(o).epoch % EpochMod
    BY <2>1, <2>2 DEF EpochMatches, SlotOf
  <2>4. issued[o] <= SlotOf(o).epoch
    BY <2>0 DEF NotAhead
  <2>5. issued[o] # SlotOf(o).epoch
    BY <2>0, <2>2 DEF Unmoved
  <2> QED BY <2>1, <2>3, <2>4, <2>5, ModTurn, HandleAssumption
<1> QED BY <1>1, InitIInv, NextIInv, PTL DEF Spec

\* The handle of a referenced object resolves to it during the first turn of
\* the slot's epoch: a destructor's late release() never hits a later tenant.
THEOREM LiveHandlesResolve == Spec => []LiveHandleResolves
<1>1. IInv => LiveHandleResolves
  <2> SUFFICES ASSUME IInv, NEW o \in Objects, phase[o] = "live", SlotOf(o).epoch < EpochMod
               PROVE  Get(handle[o]) = o
    BY DEF LiveHandleResolves
  <2>0. TypeOK /\ Signed /\ Tenant /\ Kept /\ Counted /\ Issued(o)
    BY DEF IInv, Issued
  <2>1. /\ TypeOf[o] \in Types /\ handle[o].index \in Indices
        /\ handle[o].type = TypeOf[o] /\ handle[o].epoch = issued[o] % EpochMod
        /\ handle[o].index < size[TypeOf[o]]
    BY <2>0, SlotInTable DEF Signed
  <2>2. SlotOf(o).object = o
    BY <2>0 DEF Kept
  <2>3. issued[o] = SlotOf(o).epoch
    BY <2>0, <2>1, <2>2 DEF Tenant, SlotOf
  <2>4. EpochMatches(handle[o]) /\ IndexValid(handle[o])
    BY <2>1, <2>3 DEF EpochMatches, IndexValid, SlotOf
  <2>5. ~Expired(SlotOf(o))
    BY <2>0, <2>2, HandleAssumption DEF Expired, Counted
  <2> QED BY <2>1, <2>2, <2>4, <2>5 DEF Get, SlotOf
<1> QED BY <1>1, InitIInv, NextIInv, PTL DEF Spec

\* A task, thread, port or VM region whose destructor has run has left its slot.
THEOREM SlotsReleased == Spec => []SlotReleased
<1>1. IInv => SlotReleased
  BY DEF IInv
<1> QED BY <1>1, InitIInv, NextIInv, PTL DEF Spec
============================================================================
