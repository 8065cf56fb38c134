--------------------------- MODULE InfoBlockProofs ---------------------------
(***************************************************************************)
(* Theorems about SharedPtr and WeakPtr, for any objects and any number of *)
(* pointers.  The inductive invariant says what the two counters of an     *)
(* info block count: useCount the SharedPtrs; weakCount, unless a WeakPtr  *)
(* was made by the copy constructor, the WeakPtrs, one more for all        *)
(* SharedPtrs together until the last one has unlinked, and one more for   *)
(* the object's own WeakPtr until it is destroyed.                         *)
(***************************************************************************)
EXTENDS InfoBlock, FiniteSetTheorems, TLAPS

Holders(o) == {s \in SharedPtrs : phase[s] = "idle" /\ shared[s] = o}
WeakRefs(o) == {w \in WeakPtrs : weak[w] = o}
Unlinking(o) == \E s \in SharedPtrs : phase[s] = "unlink" /\ shared[s] = o
Undestroyed(o) == obj[o] \in {"live", "dying"}
Group(o) == IF Undestroyed(o) \/ Unlinking(o) THEN 1 ELSE 0
Own(o) == IF Undestroyed(o) THEN SelfRef(o) ELSE 0

Destroying == \A s \in SharedPtrs :
    /\ phase[s] = "destroy" => shared[s] \in Objects /\ obj[shared[s]] = "dying"
    /\ phase[s] = "unlink" => shared[s] \in Objects /\ obj[shared[s]] = "gone"
OneDestroys == \A s, r \in SharedPtrs : /\ phase[s] \in {"destroy", "unlink"}
                                        /\ phase[r] \in {"destroy", "unlink"}
                                        /\ shared[s] = shared[r]
                                        => s = r
Locking == \A s \in SharedPtrs :
    /\ phase[s] = "cas" => /\ shared[s] = None /\ via[s] \in WeakPtrs /\ weak[via[s]] \in Objects
                           /\ seen[s] # 0
    /\ phase[s] # "cas" => via[s] = None
UseCounts == \A o \in Objects : useCount[o] = Cardinality(Holders(o))
LiveInUse == \A o \in Objects : obj[o] = "live" <=> useCount[o] # 0
CopiedMade == \A o \in copied : obj[o] # "none"
WeakCounts == \A o \in Objects \ copied : weakCount[o] = Cardinality(WeakRefs(o)) + Group(o) + Own(o)
InfoStates == \A o \in Objects \ copied : /\ info[o] = "live" <=> weakCount[o] # 0
                                          /\ info[o] = "none" <=> obj[o] = "none"

PtrInv == /\ PtrTypeOK /\ Destroying /\ OneDestroys /\ Locking
          /\ UseCounts /\ LiveInUse /\ CopiedMade /\ WeakCounts /\ InfoStates
----------------------------------------------------------------------------
\* Sets of pointers are finite, and empty exactly when they count nothing.
LEMMA Counted ==
    ASSUME NEW o
    PROVE  /\ IsFiniteSet(Holders(o)) /\ IsFiniteSet(WeakRefs(o))
           /\ Cardinality(Holders(o)) \in Nat /\ Cardinality(WeakRefs(o)) \in Nat
           /\ Cardinality(Holders(o)) = 0 <=> Holders(o) = {}
           /\ Cardinality(WeakRefs(o)) = 0 <=> WeakRefs(o) = {}
<1>1. Holders(o) \subseteq SharedPtrs /\ WeakRefs(o) \subseteq WeakPtrs
  BY DEF Holders, WeakRefs
<1>2. IsFiniteSet(Holders(o)) /\ IsFiniteSet(WeakRefs(o))
  BY <1>1, FS_Subset, PtrAssumption
<1> QED
  BY <1>2, FS_CardinalityType, FS_EmptySet

\* The terms of weakCount are small numbers.
LEMMA Terms ==
    ASSUME NEW o
    PROVE  Group(o) \in {0, 1} /\ Own(o) \in {0, 1} /\ SelfRef(o) \in {0, 1}
BY DEF Group, Own, SelfRef

\* ... after a step as well.
LEMMA TermsNext ==
    ASSUME NEW o
    PROVE  Group(o)' \in {0, 1} /\ Own(o)' \in {0, 1}
BY DEF Group, Own, SelfRef

\* A holder makes the object live and, as far as it is counted, its info block live.
LEMMA HolderLive ==
    ASSUME PtrInv, NEW s \in SharedPtrs, NEW o \in Objects, phase[s] = "idle", shared[s] = o
    PROVE  /\ obj[o] = "live" /\ useCount[o] >= 1
           /\ o \notin copied => weakCount[o] >= 1 /\ info[o] = "live"
<1>1. s \in Holders(o)
  BY DEF Holders
<1>2. useCount[o] = Cardinality(Holders(o)) /\ useCount[o] >= 1
  BY <1>1, Counted DEF PtrInv, UseCounts
<1>3. obj[o] = "live"
  BY <1>2 DEF PtrInv, LiveInUse
<1>4. Group(o) = 1
  BY <1>3 DEF Group, Undestroyed
<1>5. o \notin copied => weakCount[o] >= 1
  BY <1>4, Counted, Terms DEF PtrInv, WeakCounts
<1> QED
  BY <1>2, <1>3, <1>5 DEF PtrInv, InfoStates

\* A weak pointer keeps the info block.
LEMMA WeakKeeps ==
    ASSUME PtrInv, NEW w \in WeakPtrs, NEW o \in Objects \ copied, weak[w] = o
    PROVE  weakCount[o] >= 1 /\ info[o] = "live" /\ Cardinality(WeakRefs(o)) >= 1
<1>1. w \in WeakRefs(o)
  BY DEF WeakRefs
<1>2. Cardinality(WeakRefs(o)) >= 1
  BY <1>1, Counted
<1>3. weakCount[o] >= 1
  BY <1>2, Counted, Terms DEF PtrInv, WeakCounts
<1> QED
  BY <1>2, <1>3 DEF PtrInv, InfoStates

\* Every property follows from what the counters count.
LEMMA CountersSuffice == PtrInv => PointeeAlive /\ InfoKeptCounted /\ InfoReclaimed
<1> SUFFICES ASSUME PtrInv PROVE PointeeAlive /\ InfoKeptCounted /\ InfoReclaimed
  OBVIOUS
<1>1. PointeeAlive
  BY HolderLive DEF PtrInv, PointeeAlive, Holds, OneDestroys
<1>2. ASSUME NEW s \in SharedPtrs, shared[s] \notin {None} \cup copied
      PROVE  info[shared[s]] = "live"
  <2>1. shared[s] \in Objects \ copied /\ phase[s] \in Phases
    BY <1>2 DEF PtrInv, PtrTypeOK
  <2>2. CASE phase[s] = "idle"
    BY <2>1, <2>2, HolderLive
  <2>3. CASE phase[s] \in {"destroy", "unlink"}
    <3>1. Group(shared[s]) = 1
      BY <2>3 DEF PtrInv, Destroying, Group, Undestroyed, Unlinking
    <3>2. weakCount[shared[s]] # 0
      BY <2>1, <3>1, Counted, Terms DEF PtrInv, WeakCounts
    <3> QED
      BY <2>1, <3>2 DEF PtrInv, InfoStates
  <2>4. phase[s] # "cas"
    BY <1>2 DEF PtrInv, Locking
  <2> QED
    BY <2>1, <2>2, <2>3, <2>4 DEF Phases
<1>3. InfoKeptCounted
  BY <1>2, WeakKeeps DEF InfoKeptCounted, PtrInv, PtrTypeOK
<1>4. InfoReclaimed
  <2> SUFFICES ASSUME NEW o \in Objects \ copied, obj[o] = "gone",
                      \A s \in SharedPtrs : shared[s] # o, \A w \in WeakPtrs : weak[w] # o
               PROVE  info[o] = "freed"
    BY DEF InfoReclaimed
  <2>1. WeakRefs(o) = {} /\ Group(o) = 0 /\ Own(o) = 0
    BY DEF WeakRefs, Group, Own, Undestroyed, Unlinking
  <2>2. weakCount[o] = 0
    BY <2>1, Counted DEF PtrInv, WeakCounts
  <2> QED
    BY <2>2 DEF PtrInv, InfoStates, PtrTypeOK
<1> QED
  BY <1>1, <1>3, <1>4
----------------------------------------------------------------------------
\* What the step lemmas know of the state before.
LEMMA Typed ==
    ASSUME PtrInv
    PROVE  /\ PtrTypeOK /\ Destroying /\ OneDestroys /\ Locking /\ CopiedMade
           /\ \A o \in Objects : useCount[o] = Cardinality(Holders(o)) /\ useCount[o] \in Nat
           /\ \A o \in Objects \ copied :
                 /\ weakCount[o] = Cardinality(WeakRefs(o)) + Group(o) + Own(o)
                 /\ weakCount[o] \in Nat
BY Counted, Terms DEF PtrInv, UseCounts, WeakCounts

\* new and the first SharedPtr.
LEMMA NewSharedStep ==
    ASSUME PtrInv, NEW s \in SharedPtrs, NEW o \in Objects, NewShared(s, o)
    PROVE  PtrInv'
<1> USE DEF NewShared, Idle
<1>1. /\ o \notin copied /\ useCount[o] = 0 /\ weakCount[o] = 0
      /\ WeakRefs(o) = {} /\ Holders(o) = {}
  <2>1. o \notin copied /\ useCount[o] = 0 /\ info[o] = "none" /\ weakCount[o] = 0
    BY DEF PtrInv, CopiedMade, LiveInUse, InfoStates
  <2> QED
    BY <2>1, Typed, Counted, Terms
<1>2. \A r \in SharedPtrs : phase[r] \in {"destroy", "unlink"} => shared[r] # o /\ r # s
  BY Typed DEF Destroying
<1>3. PtrTypeOK'
  BY Typed, Terms DEF PtrTypeOK, Phases
<1>4. Destroying' /\ OneDestroys' /\ Locking' /\ CopiedMade'
  BY <1>2, Typed, PtrAssumption DEF Destroying, OneDestroys, Locking, CopiedMade, PtrTypeOK, Phases
<1>5. \A x \in Objects : WeakRefs(x)' = WeakRefs(x) /\ (Unlinking(x)' <=> Unlinking(x))
  BY <1>2, Typed DEF WeakRefs, Unlinking, PtrTypeOK
<1>6. ASSUME NEW x \in Objects, x # o
      PROVE  /\ Holders(x)' = Holders(x) /\ Group(x)' = Group(x) /\ Own(x)' = Own(x)
             /\ useCount'[x] = useCount[x] /\ weakCount'[x] = weakCount[x]
             /\ obj'[x] = obj[x] /\ info'[x] = info[x]
  <2>1. obj'[x] = obj[x] /\ info'[x] = info[x] /\ useCount'[x] = useCount[x]
        /\ weakCount'[x] = weakCount[x]
    BY <1>6, Typed DEF PtrTypeOK
  <2>2. Holders(x)' = Holders(x)
    BY <1>6, Typed, PtrAssumption DEF Holders, PtrTypeOK
  <2> QED
    BY <1>5, <2>1, <2>2 DEF Group, Own, Undestroyed
<1>7. Holders(o)' = {s} /\ Group(o)' = 1 /\ Own(o)' = SelfRef(o)
  <2>1. Holders(o)' = Holders(o) \cup {s}
    BY Typed DEF Holders, PtrTypeOK
  <2>2. obj'[o] = "live"
    BY Typed DEF PtrTypeOK
  <2> QED
    BY <1>1, <2>1, <2>2 DEF Group, Own, Undestroyed, SelfRef
<1>8. UseCounts' /\ LiveInUse'
  <2>1. useCount'[o] = 1 /\ obj'[o] = "live"
    BY Typed DEF PtrTypeOK
  <2>2. Cardinality({s}) = 1
    BY FS_Singleton
  <2> QED
    BY <1>6, <1>7, <2>1, <2>2 DEF UseCounts, LiveInUse, PtrInv
<1>9. WeakCounts' /\ InfoStates'
  <2>1. weakCount'[o] = 1 + SelfRef(o) /\ obj'[o] = "live" /\ info'[o] = "live"
    BY Typed DEF PtrTypeOK
  <2>2. Cardinality(WeakRefs(o)') = 0
    BY <1>1, <1>5, FS_EmptySet
  <2> QED
    BY <1>5, <1>6, <1>7, <2>1, <2>2, Terms DEF WeakCounts, InfoStates, PtrInv
<1> QED
  BY <1>3, <1>4, <1>8, <1>9 DEF PtrInv

\* The weak side, for a step that touches no weak pointer and no object's state.
LEMMA WeakSideKept ==
    ASSUME PtrInv, UNCHANGED <<info, weakCount, weak, copied>>,
           \A o \in Objects : /\ Undestroyed(o)' = Undestroyed(o)
                             /\ (obj[o] = "none")' = (obj[o] = "none")
                             /\ (Unlinking(o)' <=> Unlinking(o))
    PROVE  WeakCounts' /\ InfoStates'
<1>1. \A o \in Objects : WeakRefs(o)' = WeakRefs(o) /\ Group(o)' = Group(o) /\ Own(o)' = Own(o)
  BY DEF WeakRefs, Group, Own, SelfRef
<1> QED
  BY <1>1 DEF PtrInv, WeakCounts, InfoStates

\* A copy: one holder more of a live object.
LEMMA CopySharedStep ==
    ASSUME PtrInv, NEW s \in SharedPtrs, NEW r \in SharedPtrs, CopyShared(s, r)
    PROVE  PtrInv'
<1> USE DEF CopyShared, Idle
<1>0. PICK o \in Objects : o = shared[r]
  BY Typed DEF PtrTypeOK
<1>1. obj[o] = "live"
  BY <1>0, HolderLive
<1>2. /\ useCount' = [useCount EXCEPT ![o] = @ + 1]
      /\ shared' = [shared EXCEPT ![s] = o]
  BY <1>0
<1>3. PtrTypeOK'
  BY <1>1, <1>2, Typed DEF PtrTypeOK
<1>4. Destroying' /\ OneDestroys' /\ Locking' /\ CopiedMade'
  BY <1>2, Typed DEF Destroying, OneDestroys, Locking, CopiedMade, PtrTypeOK, Phases
<1>5. Holders(o)' = Holders(o) \cup {s} /\ s \notin Holders(o)
  BY <1>1, <1>2, Typed, PtrAssumption DEF Holders, PtrTypeOK
<1>6. \A x \in Objects \ {o} : Holders(x)' = Holders(x)
  BY <1>1, <1>2, Typed, PtrAssumption DEF Holders, PtrTypeOK
<1>7. Cardinality(Holders(o)') = Cardinality(Holders(o)) + 1
  BY Zenon, <1>5, Counted, FS_AddElement
<1>8. UseCounts' /\ LiveInUse'
  BY <1>1, <1>2, <1>6, <1>7, Typed DEF UseCounts, LiveInUse, PtrInv, PtrTypeOK
<1>9. WeakCounts' /\ InfoStates'
  <2>1. \A x \in Objects : Unlinking(x)' <=> Unlinking(x)
    BY <1>2, Typed DEF Unlinking, PtrTypeOK
  <2> QED
    BY <2>1, WeakSideKept DEF Undestroyed
<1> QED
  BY <1>3, <1>4, <1>8, <1>9 DEF PtrInv

\* A SharedPtr dropped: the last one, and only that, starts the deleter.
LEMMA DropSharedStep ==
    ASSUME PtrInv, NEW s \in SharedPtrs, DropShared(s)
    PROVE  PtrInv'
<1>0. PICK o \in Objects : o = shared[s]
  BY Typed DEF PtrTypeOK, DropShared
<1>x. PICK last \in BOOLEAN : last <=> useCount[o] = 1
  BY Zenon
<1>1. phase[s] = "idle" /\ obj[o] = "live" /\ useCount[o] >= 1
  BY <1>0, HolderLive DEF DropShared
<1>2. /\ useCount' = [useCount EXCEPT ![o] = @ - 1]
      /\ obj' = IF last THEN [obj EXCEPT ![o] = "dying"] ELSE obj
      /\ phase' = IF last THEN [phase EXCEPT ![s] = "destroy"] ELSE phase
      /\ shared' = IF last THEN shared ELSE [shared EXCEPT ![s] = None]
      /\ UNCHANGED <<info, weakCount, weak, via, seen, copied>>
  BY <1>0, <1>x DEF DropShared
<1>3. s \in Holders(o) /\ shared[s] = o
  BY <1>0, <1>1 DEF Holders
<1>4. Holders(o)' = Holders(o) \ {s}
  BY <1>1, <1>2, <1>3, Typed, PtrAssumption DEF Holders, PtrTypeOK
<1>5. \A x \in Objects \ {o} : Holders(x)' = Holders(x)
  BY <1>1, <1>2, <1>3, Typed, PtrAssumption DEF Holders, PtrTypeOK
<1>6. Cardinality(Holders(o)') = Cardinality(Holders(o)) - 1
  BY Zenon, <1>3, <1>4, Counted, FS_RemoveElement
<1>7. PtrTypeOK'
  BY <1>1, <1>2, Typed DEF PtrTypeOK, Phases
<1>8. \A r \in SharedPtrs : phase[r] \in {"destroy", "unlink"} => shared[r] # o /\ r # s
  BY <1>1, Typed DEF Destroying
<1>9. Destroying' /\ OneDestroys' /\ Locking' /\ CopiedMade'
  BY <1>1, <1>2, <1>3, <1>8, Typed DEF Destroying, OneDestroys, Locking, CopiedMade, PtrTypeOK, Phases
<1>10. UseCounts' /\ LiveInUse'
  BY <1>x, <1>1, <1>2, <1>5, <1>6, Typed DEF UseCounts, LiveInUse, PtrInv, PtrTypeOK
<1>11. WeakCounts' /\ InfoStates'
  <2>1. \A x \in Objects : Unlinking(x)' <=> Unlinking(x)
    BY <1>1, <1>2, <1>8, Typed DEF Unlinking, PtrTypeOK
  <2>2. \A x \in Objects : Undestroyed(x)' = Undestroyed(x) /\ (obj[x] = "none")' = (obj[x] = "none")
    BY <1>1, <1>2, Typed DEF Undestroyed, PtrTypeOK
  <2> QED
    BY <1>2, <2>1, <2>2, WeakSideKept
<1> QED
  BY <1>7, <1>9, <1>10, <1>11 DEF PtrInv

\* The strong side, for a step that changes no holder.
LEMMA UseSideKept ==
    ASSUME PtrInv, UNCHANGED useCount,
           \A o \in Objects : Holders(o)' = Holders(o) /\ (obj[o] = "live")' = (obj[o] = "live")
    PROVE  UseCounts' /\ LiveInUse'
BY DEF PtrInv, UseCounts, LiveInUse

\* One weak reference less: how WeakDropped leaves the count and the info block.
LEMMA WeakDroppedStep ==
    ASSUME PtrInv, NEW o \in Objects, WeakDropped(o), UNCHANGED copied,
           \A x \in Objects : (obj[x] = "none")' = (obj[x] = "none"),
           \A x \in Objects \ {o} :
               WeakRefs(x)' = WeakRefs(x) /\ Group(x)' = Group(x) /\ Own(x)' = Own(x),
           o \notin copied =>
               /\ weakCount[o] >= 1
               /\ Cardinality(WeakRefs(o)') + Group(o)' + Own(o)'
                      = Cardinality(WeakRefs(o)) + Group(o) + Own(o) - 1
    PROVE  /\ WeakCounts' /\ InfoStates'
           /\ weakCount' \in [Objects -> Int] /\ info' \in [Objects -> {"none", "live", "freed"}]
<1> USE DEF WeakDropped
<1>1. weakCount'[o] = weakCount[o] - 1 /\ \A x \in Objects \ {o} : weakCount'[x] = weakCount[x]
  BY Typed DEF PtrTypeOK
<1>2. info'[o] = (IF weakCount[o] = 1 THEN "freed" ELSE info[o])
      /\ \A x \in Objects \ {o} : info'[x] = info[x]
  BY Typed DEF PtrTypeOK
<1>3. ASSUME NEW x \in Objects \ copied, x # o
      PROVE  /\ weakCount'[x] = Cardinality(WeakRefs(x)') + Group(x)' + Own(x)'
             /\ info'[x] = "live" <=> weakCount'[x] # 0
             /\ info'[x] = "none" <=> obj'[x] = "none"
  <2>1. weakCount[x] = Cardinality(WeakRefs(x)) + Group(x) + Own(x) /\ weakCount'[x] = weakCount[x]
    BY <1>1, <1>3, Typed
  <2>2. WeakRefs(x)' = WeakRefs(x) /\ Group(x)' = Group(x) /\ Own(x)' = Own(x)
    BY <1>3
  <2>3. /\ info'[x] = "live" <=> weakCount'[x] # 0
        /\ info'[x] = "none" <=> obj'[x] = "none"
    BY <1>1, <1>2, <1>3 DEF InfoStates, PtrInv
  <2> QED
    BY <2>1, <2>2, <2>3
<1>4. ASSUME o \notin copied
      PROVE  /\ weakCount'[o] = Cardinality(WeakRefs(o)') + Group(o)' + Own(o)'
             /\ info'[o] = "live" <=> weakCount'[o] # 0
             /\ info'[o] = "none" <=> obj'[o] = "none"
  <2>1. info[o] = "live" /\ obj[o] # "none"
    BY <1>4 DEF PtrInv, InfoStates
  <2>2. weakCount[o] = Cardinality(WeakRefs(o)) + Group(o) + Own(o) /\ weakCount[o] \in Nat
    BY <1>4, Typed
  <2>3. weakCount'[o] = Cardinality(WeakRefs(o)') + Group(o)' + Own(o)'
    BY <1>1, <1>4, <2>2, Counted, Terms
  <2>4. weakCount[o] = 1 <=> weakCount'[o] = 0
    BY <1>1, <2>2
  <2> QED
    BY <1>2, <2>1, <2>3, <2>4
<1>5. \A x \in Objects \ copied' :
          /\ weakCount'[x] = Cardinality(WeakRefs(x)') + Group(x)' + Own(x)'
          /\ info'[x] = "live" <=> weakCount'[x] # 0
          /\ info'[x] = "none" <=> obj'[x] = "none"
  BY <1>3, <1>4
<1>6. WeakCounts' /\ InfoStates'
  BY <1>5 DEF WeakCounts, InfoStates
<1> QED
  BY <1>6, Typed DEF PtrTypeOK

\* The destructor returns.
LEMMA DestroyEndStep ==
    ASSUME PtrInv, NEW s \in SharedPtrs, DestroyEnd(s)
    PROVE  PtrInv'
<1> USE DEF DestroyEnd
<1>0. PICK o \in Objects : o = shared[s] /\ obj[o] = "dying"
  BY Typed DEF Destroying
<1>1. phase' = [phase EXCEPT ![s] = "unlink"] /\ obj' = [obj EXCEPT ![o] = "gone"]
  BY <1>0
<1>2. \A r \in SharedPtrs : phase[r] \in {"destroy", "unlink"} /\ shared[r] = o => r = s
  BY <1>0, Typed DEF OneDestroys
<1>3. Destroying' /\ OneDestroys' /\ Locking' /\ CopiedMade'
  BY <1>0, <1>1, <1>2, Typed DEF Destroying, OneDestroys, Locking, CopiedMade, PtrTypeOK, Phases
<1>4. \A x \in Objects : Holders(x)' = Holders(x) /\ WeakRefs(x)' = WeakRefs(x)
  BY <1>1, Typed DEF Holders, WeakRefs, PtrTypeOK
<1>5. \A x \in Objects \ {o} : obj'[x] = obj[x] /\ (Unlinking(x)' <=> Unlinking(x))
  BY <1>0, <1>1, Typed DEF Unlinking, PtrTypeOK
<1>6. Unlinking(o)' /\ obj'[o] = "gone"
  BY <1>0, <1>1, Typed DEF Unlinking, PtrTypeOK
<1>7. UseCounts' /\ LiveInUse'
  BY <1>0, <1>4, <1>5, <1>6, UseSideKept
<1>8. \A x \in Objects \ {o} : Group(x)' = Group(x) /\ Own(x)' = Own(x)
  BY <1>5 DEF Group, Own, Undestroyed, SelfRef
<1>9. Group(o)' = 1 /\ Group(o) = 1 /\ Own(o)' = 0 /\ Own(o) = SelfRef(o)
  BY <1>0, <1>6 DEF Group, Own, Undestroyed
<1>10. \A x \in Objects : (obj[x] = "none")' = (obj[x] = "none")
  BY <1>0, <1>5, <1>6
<1>11. /\ WeakCounts' /\ InfoStates'
       /\ weakCount' \in [Objects -> Int] /\ info' \in [Objects -> {"none", "live", "freed"}]
  <2>1. CASE o \in Self
    <3>1. SelfRef(o) = 1 /\ WeakDropped(o)
      BY <1>0, <2>1 DEF SelfRef
    <3>2. o \notin copied => weakCount[o] >= 1
      BY <1>9, <3>1, Typed, Counted
    <3>3. Cardinality(WeakRefs(o)') + Group(o)' + Own(o)'
               = Cardinality(WeakRefs(o)) + Group(o) + Own(o) - 1
      BY <1>4, <1>9, <3>1, Counted
    <3> QED
      BY <1>4, <1>8, <1>10, <3>1, <3>2, <3>3, WeakDroppedStep
  <2>2. CASE o \notin Self
    <3>1. SelfRef(o) = 0 /\ UNCHANGED <<weakCount, info>>
      BY <1>0, <2>2 DEF SelfRef
    <3> QED
      BY <1>4, <1>8, <1>9, <1>10, <3>1, Typed DEF PtrInv, WeakCounts, InfoStates, PtrTypeOK
  <2> QED
    BY <2>1, <2>2
<1>12. PtrTypeOK'
  BY Zenon, <1>1, <1>11, Typed DEF PtrTypeOK, Phases
<1> QED
  BY <1>3, <1>7, <1>11, <1>12 DEF PtrInv

\* The last weak reference of the SharedPtrs.
LEMMA UnlinkStep ==
    ASSUME PtrInv, NEW s \in SharedPtrs, Unlink(s)
    PROVE  PtrInv'
<1> USE DEF Unlink
<1>0. PICK o \in Objects : o = shared[s] /\ obj[o] = "gone"
  BY Typed DEF Destroying
<1>1. \A r \in SharedPtrs : phase[r] \in {"destroy", "unlink"} /\ shared[r] = o => r = s
  BY <1>0, Typed DEF OneDestroys
<1>2. Destroying' /\ OneDestroys' /\ Locking' /\ CopiedMade'
  BY <1>1, Typed DEF Destroying, OneDestroys, Locking, CopiedMade, PtrTypeOK, Phases
<1>3. \A x \in Objects : Holders(x)' = Holders(x) /\ WeakRefs(x)' = WeakRefs(x)
  BY Typed, PtrAssumption DEF Holders, WeakRefs, PtrTypeOK
<1>4. UseCounts' /\ LiveInUse'
  BY <1>3, UseSideKept
<1>5. \A x \in Objects \ {o} : (Unlinking(x)' <=> Unlinking(x))
  BY <1>0, Typed, PtrAssumption DEF Unlinking, PtrTypeOK
<1>6. Unlinking(o) /\ ~ Unlinking(o)'
  BY <1>0, <1>1, Typed DEF Unlinking, PtrTypeOK
<1>7. \A x \in Objects \ {o} : Group(x)' = Group(x) /\ Own(x)' = Own(x)
  BY <1>5 DEF Group, Own, Undestroyed, SelfRef
<1>8. Group(o)' = 0 /\ Group(o) = 1 /\ Own(o)' = 0 /\ Own(o) = 0
  BY <1>0, <1>6 DEF Group, Own, Undestroyed
<1>9. (o \notin copied => weakCount[o] >= 1) /\ WeakDropped(o)
  BY <1>0, <1>8, Typed, Counted
<1>10. Cardinality(WeakRefs(o)') + Group(o)' + Own(o)'
               = Cardinality(WeakRefs(o)) + Group(o) + Own(o) - 1
  BY <1>3, <1>8, Counted
<1>11. /\ WeakCounts' /\ InfoStates'
       /\ weakCount' \in [Objects -> Int] /\ info' \in [Objects -> {"none", "live", "freed"}]
  BY <1>3, <1>7, <1>9, <1>10, WeakDroppedStep
<1>12. PtrTypeOK'
  BY <1>11, Typed DEF PtrTypeOK, Phases
<1> QED
  BY <1>2, <1>4, <1>11, <1>12 DEF PtrInv

\* A WeakPtr let go.
LEMMA DropWeakStep ==
    ASSUME PtrInv, NEW w \in WeakPtrs, Still(w), DropWeak(w)
    PROVE  PtrInv'
<1> USE DEF DropWeak
<1>0. PICK o \in Objects : o = weak[w]
  BY Typed DEF PtrTypeOK
<1>1. Destroying' /\ OneDestroys' /\ CopiedMade'
  BY Typed DEF Destroying, OneDestroys, CopiedMade
<1>2. Locking'
  BY Typed DEF Locking, PtrTypeOK, Still
<1>3. \A x \in Objects : Holders(x)' = Holders(x) /\ Group(x)' = Group(x) /\ Own(x)' = Own(x)
  BY DEF Holders, Group, Own, Undestroyed, Unlinking, SelfRef
<1>4. UseCounts' /\ LiveInUse'
  BY <1>3, UseSideKept
<1>5. WeakRefs(o)' = WeakRefs(o) \ {w} /\ w \in WeakRefs(o)
  BY <1>0, Typed, PtrAssumption DEF WeakRefs, PtrTypeOK
<1>6. \A x \in Objects \ {o} : WeakRefs(x)' = WeakRefs(x)
  BY <1>0, Typed, PtrAssumption DEF WeakRefs, PtrTypeOK
<1>7. Cardinality(WeakRefs(o)') = Cardinality(WeakRefs(o)) - 1
  BY Zenon, <1>5, Counted, FS_RemoveElement
<1>8. Cardinality(WeakRefs(o)') + Group(o)' + Own(o)'
               = Cardinality(WeakRefs(o)) + Group(o) + Own(o) - 1
  BY <1>3, <1>7, Counted, Terms
<1>9. (o \notin copied => weakCount[o] >= 1) /\ WeakDropped(o)
  BY <1>0, WeakKeeps
<1>10. /\ WeakCounts' /\ InfoStates'
       /\ weakCount' \in [Objects -> Int] /\ info' \in [Objects -> {"none", "live", "freed"}]
  BY <1>3, <1>6, <1>8, <1>9, WeakDroppedStep
<1>11. PtrTypeOK'
  BY <1>10, Typed DEF PtrTypeOK
<1> QED
  BY <1>1, <1>2, <1>4, <1>10, <1>11 DEF PtrInv

\* A WeakPtr pointed at another object, which somebody holds.
LEMMA AssignWeakStep ==
    ASSUME PtrInv, NEW w \in WeakPtrs, Still(w), NEW s \in SharedPtrs, NEW o \in Objects,
           Holds(s, o), AssignWeak(w, o)
    PROVE  PtrInv'
<1> USE DEF AssignWeak
<1>1. obj[o] = "live" /\ (o \notin copied => weakCount[o] >= 1 /\ info[o] = "live")
  BY HolderLive DEF Holds
<1>2. Destroying' /\ OneDestroys' /\ CopiedMade'
  BY Typed DEF Destroying, OneDestroys, CopiedMade
<1>3. Locking'
  BY Typed DEF Locking, PtrTypeOK, Still
<1>4. \A x \in Objects : Holders(x)' = Holders(x) /\ Group(x)' = Group(x) /\ Own(x)' = Own(x)
  BY DEF Holders, Group, Own, Undestroyed, Unlinking, SelfRef
<1>5. UseCounts' /\ LiveInUse'
  BY <1>4, UseSideKept
<1>6. PtrTypeOK'
  BY Typed DEF PtrTypeOK
<1>7. ASSUME NEW x \in Objects \ copied
      PROVE  /\ weakCount'[x] = Cardinality(WeakRefs(x)') + Group(x) + Own(x)
             /\ info'[x] = "live" <=> weakCount'[x] # 0
             /\ info'[x] = "none" <=> obj[x] = "none"
  <2>1. weakCount[x] = Cardinality(WeakRefs(x)) + Group(x) + Own(x) /\ weakCount[x] \in Nat
    BY Typed
  <2>2. Cardinality(WeakRefs(x)) \in Nat /\ Group(x) \in {0, 1} /\ Own(x) \in {0, 1}
    BY Counted, Terms
  <2>3. /\ info[x] = "live" <=> weakCount[x] # 0
        /\ info[x] = "none" <=> obj[x] = "none"
    BY DEF PtrInv, InfoStates
  <2>4. CASE x = o
    <3>1. WeakRefs(x)' = WeakRefs(x) \cup {w} /\ w \notin WeakRefs(x)
      BY <2>4, Typed DEF WeakRefs, PtrTypeOK
    <3>2. Cardinality(WeakRefs(x)') = Cardinality(WeakRefs(x)) + 1
      BY Zenon, <3>1, Counted, FS_AddElement
    <3>3. weakCount'[x] = weakCount[x] + 1 /\ info'[x] = "live"
      BY <1>1, <2>4
    <3> QED
      BY <1>1, <2>1, <2>2, <2>4, <3>2, <3>3
  <2>5. CASE x # o /\ x = weak[w]
    <3>1. WeakRefs(x)' = WeakRefs(x) \ {w} /\ w \in WeakRefs(x)
      BY <2>5, Typed DEF WeakRefs, PtrTypeOK
    <3>2. Cardinality(WeakRefs(x)') = Cardinality(WeakRefs(x)) - 1
      BY Zenon, <3>1, Counted, FS_RemoveElement
    <3>3. weakCount[x] >= 1 /\ info[x] = "live"
      BY <2>5, WeakKeeps
    <3>4. /\ weakCount'[x] = weakCount[x] - 1
          /\ info'[x] = IF weakCount[x] = 1 THEN "freed" ELSE "live"
      BY <2>5, <3>3
    <3>5. weakCount[x] = 1 <=> weakCount'[x] = 0
      BY <2>1, <3>4
    <3>6. weakCount'[x] = Cardinality(WeakRefs(x)') + Group(x) + Own(x)
      BY <2>1, <2>2, <3>2, <3>4
    <3> QED
      BY <2>3, <3>3, <3>4, <3>5, <3>6
  <2>6. CASE x # o /\ x # weak[w]
    <3>1. WeakRefs(x)' = WeakRefs(x)
      BY <2>6, Typed DEF WeakRefs, PtrTypeOK
    <3>2. weakCount'[x] = weakCount[x] /\ info'[x] = info[x]
      BY <2>6
    <3> QED
      BY <2>1, <2>3, <3>1, <3>2
  <2> QED
    BY <2>4, <2>5, <2>6
<1>8. WeakCounts' /\ InfoStates'
  BY <1>4, <1>7 DEF WeakCounts, InfoStates
<1> QED
  BY <1>2, <1>3, <1>5, <1>6, <1>8 DEF PtrInv

\* A WeakPtr made by the copy constructor: from now on the count of the object is off.
LEMMA CopyWeakStep ==
    ASSUME PtrInv, NEW w \in WeakPtrs, Still(w), NEW s \in SharedPtrs, NEW o \in Objects,
           Holds(s, o), weak[w] = None, CopyWeak(w, o)
    PROVE  PtrInv'
<1> USE DEF CopyWeak
<1>1. obj[o] = "live"
  BY HolderLive DEF Holds
<1>2. Destroying' /\ OneDestroys' /\ CopiedMade'
  BY <1>1, Typed DEF Destroying, OneDestroys, CopiedMade
<1>3. Locking'
  BY Typed DEF Locking, PtrTypeOK, Still
<1>4. \A x \in Objects : Holders(x)' = Holders(x) /\ Group(x)' = Group(x) /\ Own(x)' = Own(x)
  BY DEF Holders, Group, Own, Undestroyed, Unlinking, SelfRef
<1>5. UseCounts' /\ LiveInUse'
  BY <1>4, UseSideKept
<1>6. PtrTypeOK'
  BY Typed DEF PtrTypeOK
<1>7. \A x \in Objects \ copied' : x \notin copied /\ WeakRefs(x)' = WeakRefs(x)
  BY Typed, PtrAssumption DEF WeakRefs, PtrTypeOK
<1>8. WeakCounts' /\ InfoStates'
  BY <1>4, <1>7 DEF PtrInv, WeakCounts, InfoStates
<1> QED
  BY <1>2, <1>3, <1>5, <1>6, <1>8 DEF PtrInv

\* lock() loads a count.
LEMMA LockLoadStep ==
    ASSUME PtrInv, NEW s \in SharedPtrs, NEW w \in WeakPtrs, LockLoad(s, w)
    PROVE  PtrInv'
<1> USE DEF LockLoad, Idle
<1>1. weak[w] \in Objects /\ useCount[weak[w]] \in Nat
  BY Typed DEF PtrTypeOK
<1>2. PtrTypeOK'
  BY <1>1, Typed DEF PtrTypeOK, Phases
<1>3. Destroying' /\ OneDestroys' /\ Locking' /\ CopiedMade'
  BY <1>1, Typed DEF Destroying, OneDestroys, Locking, CopiedMade, PtrTypeOK, Phases
<1>4. \A x \in Objects : Holders(x)' = Holders(x) /\ (Unlinking(x)' <=> Unlinking(x))
  BY Typed, PtrAssumption DEF Holders, Unlinking, PtrTypeOK
<1>5. UseCounts' /\ LiveInUse'
  BY <1>4, UseSideKept
<1>6. WeakCounts' /\ InfoStates'
  BY <1>4, WeakSideKept DEF Undestroyed
<1> QED
  BY <1>2, <1>3, <1>5, <1>6 DEF PtrInv

\* lock() makes a SharedPtr only of a count that is not zero, hence of a live object.
LEMMA LockCasStep ==
    ASSUME PtrInv, NEW s \in SharedPtrs, LockCas(s)
    PROVE  PtrInv'
<1>0. PICK o \in Objects : o = weak[via[s]]
  BY Typed DEF Locking, LockCas
<1>1. phase[s] = "cas" /\ shared[s] = None /\ seen[s] # 0 /\ useCount[o] \in Nat
  BY Typed DEF Locking, LockCas
<1>2. \A x \in Objects : Unlinking(x)' <=> Unlinking(x)
  <2>1. \A r \in SharedPtrs \ {s} : phase'[r] = phase[r] /\ shared'[r] = shared[r]
    BY Typed DEF LockCas, PtrTypeOK
  <2>2. phase'[s] \in {"idle", "cas"}
    BY <1>1, Typed DEF LockCas, PtrTypeOK
  <2> QED
    BY <1>1, <2>1, <2>2 DEF Unlinking
<1>3. WeakCounts' /\ InfoStates'
  BY <1>2, WeakSideKept DEF Undestroyed, LockCas
<1>4. CASE useCount[o] = seen[s]
  <2>1. /\ useCount' = [useCount EXCEPT ![o] = @ + 1]
        /\ shared' = [shared EXCEPT ![s] = o]
        /\ phase' = [phase EXCEPT ![s] = "idle"]
        /\ via' = [via EXCEPT ![s] = None]
        /\ seen' = [seen EXCEPT ![s] = 0]
        /\ UNCHANGED <<obj, info, weakCount, weak, copied>>
    BY <1>0, <1>4 DEF LockCas
  <2>2. obj[o] = "live"
    BY <1>1, <1>4 DEF PtrInv, LiveInUse
  <2>3. PtrTypeOK'
    BY <2>1, Typed DEF PtrTypeOK, Phases
  <2>4. Destroying' /\ OneDestroys' /\ Locking' /\ CopiedMade'
    BY <1>1, <2>1, Typed DEF Destroying, OneDestroys, Locking, CopiedMade, PtrTypeOK, Phases
  <2>5. Holders(o)' = Holders(o) \cup {s} /\ s \notin Holders(o)
    BY <1>1, <2>1, Typed DEF Holders, PtrTypeOK
  <2>6. \A x \in Objects \ {o} : Holders(x)' = Holders(x)
    BY <1>1, <2>1, Typed DEF Holders, PtrTypeOK
  <2>7. Cardinality(Holders(o)') = Cardinality(Holders(o)) + 1
    BY Zenon, <2>5, Counted, FS_AddElement
  <2>8. UseCounts' /\ LiveInUse'
    BY <2>1, <2>2, <2>6, <2>7, Typed DEF UseCounts, LiveInUse, PtrInv, PtrTypeOK
  <2> QED
    BY <1>3, <2>3, <2>4, <2>8 DEF PtrInv
<1>5. CASE useCount[o] # seen[s]
  <2>1. PICK done \in BOOLEAN : done <=> useCount[o] = 0
    BY Zenon
  <2>2. /\ phase' = (IF done THEN [phase EXCEPT ![s] = "idle"] ELSE phase)
        /\ via' = (IF done THEN [via EXCEPT ![s] = None] ELSE via)
        /\ seen' = [seen EXCEPT ![s] = IF done THEN 0 ELSE useCount[o]]
        /\ UNCHANGED <<obj, info, weakCount, weak, useCount, shared, copied>>
    BY Zenon, <1>0, <1>5, <2>1 DEF LockCas
  <2>3. PtrTypeOK'
    BY <1>1, <2>2, Typed DEF PtrTypeOK, Phases
  <2>4. Destroying' /\ OneDestroys' /\ Locking' /\ CopiedMade'
    BY <1>1, <2>1, <2>2, Typed DEF Destroying, OneDestroys, Locking, CopiedMade, PtrTypeOK, Phases
  <2>5. \A x \in Objects : Holders(x)' = Holders(x)
    BY <1>1, <2>2, Typed, PtrAssumption DEF Holders, PtrTypeOK
  <2>6. UseCounts' /\ LiveInUse'
    BY <2>2, <2>5, UseSideKept
  <2> QED
    BY <1>3, <2>3, <2>4, <2>6 DEF PtrInv
<1> QED
  BY <1>4, <1>5
----------------------------------------------------------------------------
\* Before the first object there is nothing to count.
LEMMA InitCounts == InitPtrs => PtrInv
<1> SUFFICES ASSUME InitPtrs PROVE PtrInv
  OBVIOUS
<1> USE DEF InitPtrs
<1>1. PtrTypeOK /\ Destroying /\ OneDestroys /\ Locking /\ CopiedMade
  BY DEF PtrTypeOK, Destroying, OneDestroys, Locking, CopiedMade, Phases
<1>2. \A o \in Objects : Holders(o) = {} /\ WeakRefs(o) = {} /\ Group(o) = 0 /\ Own(o) = 0
  BY PtrAssumption DEF Holders, WeakRefs, Group, Own, Undestroyed, Unlinking
<1> QED
  BY <1>1, <1>2, Counted DEF PtrInv, UseCounts, LiveInUse, WeakCounts, InfoStates

\* Every operation on a pointer keeps the counters right.
LEMMA PtrStepKeeps == PtrInv /\ [NextPtrs]_ptrVars => PtrInv'
<1> SUFFICES ASSUME PtrInv, [NextPtrs]_ptrVars PROVE PtrInv'
  OBVIOUS
<1>1. CASE UNCHANGED ptrVars
  <2> USE <1>1 DEF ptrVars
  <2>1. PtrTypeOK' /\ Destroying' /\ OneDestroys' /\ Locking' /\ CopiedMade'
    BY Typed DEF PtrTypeOK, Destroying, OneDestroys, Locking, CopiedMade
  <2>2. \A o \in Objects : Holders(o)' = Holders(o) /\ (Unlinking(o)' <=> Unlinking(o))
    BY DEF Holders, Unlinking
  <2> QED
    BY <2>1, <2>2, UseSideKept, WeakSideKept DEF PtrInv, Undestroyed
<1>2. ASSUME NEW s \in SharedPtrs,
             \/ \E o \in Objects : NewShared(s, o)
             \/ \E r \in SharedPtrs : CopyShared(s, r)
             \/ DropShared(s) \/ DestroyEnd(s) \/ Unlink(s) \/ LockCas(s)
             \/ \E w \in WeakPtrs : LockLoad(s, w)
      PROVE  PtrInv'
  BY <1>2, NewSharedStep, CopySharedStep, DropSharedStep, DestroyEndStep, UnlinkStep,
     LockCasStep, LockLoadStep
<1>3. ASSUME NEW w \in WeakPtrs, Still(w),
             \/ DropWeak(w)
             \/ \E s \in SharedPtrs, o \in Objects :
                    Holds(s, o) /\ \/ AssignWeak(w, o)
                                   \/ weak[w] = None /\ CopyWeak(w, o)
      PROVE  PtrInv'
  BY <1>3, DropWeakStep, AssignWeakStep, CopyWeakStep
<1> QED
  BY <1>1, <1>2, <1>3 DEF NextPtrs

\* The counters of an info block count what SmartPointers.h says they count.
LEMMA CountersRight == SpecPtrs => []PtrInv
BY InitCounts, PtrStepKeeps, PTL DEF SpecPtrs

\* No SharedPtr, one made by WeakPtr::lock() included, has an object whose deleter has started.
THEOREM NoResurrection == SpecPtrs => []PointeeAlive
BY CountersRight, CountersSuffice, PTL

\* The info block of an object whose WeakPtrs were all assigned lives as long as any pointer to
\* it does ...
THEOREM InfoBlockKept == SpecPtrs => []InfoKeptCounted
BY CountersRight, CountersSuffice, PTL

\* ... and is freed by whoever drops the last one.
THEOREM InfoBlockFreed == SpecPtrs => []InfoReclaimed
BY CountersRight, CountersSuffice, PTL
=============================================================================
