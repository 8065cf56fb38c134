-------------------------- MODULE SchedulerProofs --------------------------
(***************************************************************************)
(* Theorems about the scheduler of one core, for any number of threads,    *)
(* levels and queue entries and any mix of the calls threads make.         *)
(***************************************************************************)
EXTENDS Scheduler, FiniteSetTheorems, SequenceTheorems, WellFoundedInduction, TLAPS

(***************************************************************************)
(* The inductive invariants.  A thread marked as unblocked is on the list; *)
(* a thread in a wait for notifications, or claimed by a notifier, is in   *)
(* blockNotify(); one that has been notified is about to be made runnable; *)
(* the running thread is runnable unless it is about to give up the        *)
(* processor.                                                              *)
(***************************************************************************)
Marked(t) == unblockRequested[t] => t \in Range(unblocked)
InWait(t) == state[t] = "NotifyWait" \/ notified[t] => pc[t] \in {"block", "woken"}
Leaving(t) == state[t] = "NotifyWait" /\ (bits[t] \/ notified[t]) =>
                 t \in Range(unblocked) /\ blockState[t] # "Blocking"
RunsRunnable(t) == running = t => state[t] = "Runnable" \/ pc[t] = "block"

WaitInv == TypeOK /\ \A t \in Threads : Marked(t) /\ InWait(t) /\ Leaving(t) /\ RunsRunnable(t)

\* A queue better than the running thread's holds nothing unless an IPI is pending.
PreemptInv ==
    /\ TypeOK
    /\ \A t \in Threads : pc[t] \notin {"resume", "resumed"}
    /\ running # NoThread => \A l \in Levels : l < currentLevel /\ queue[l] # <<>> => ipi
----------------------------------------------------------------------------
\* A non-empty set of natural numbers has a least element.
LEMMA LeastExists ==
    ASSUME NEW S \in SUBSET Nat, S # {}
    PROVE  \E x \in S : \A y \in S : x <= y
<1> DEFINE R == OpToRel(<, Nat)
<1>1. IsWellFoundedOn(R, Nat)
  BY Zenon, NatLessThanWellFounded
<1>2. \A x, y \in Nat : <<y, x>> \in R <=> y < x
  BY Zenon DEF OpToRel
<1> HIDE DEF R
<1>3. PICK x \in S : \A y \in S : ~ (<<y, x>> \in R)
  BY Zenon, <1>1, WFMin
<1>4. ASSUME NEW y \in S PROVE x <= y
  <2>1. x \in Nat /\ y \in Nat /\ ~ (y < x)
    BY Zenon, <1>2, <1>3
  <2> QED
    BY <2>1
<1> QED
  BY Zenon, <1>4

\* Induction up to n, for a property given as the set of numbers that have it.
LEMMA UpTo ==
    ASSUME NEW n \in Nat, NEW P, 0 \in P,
           \A i \in 1..n : i - 1 \in P => i \in P
    PROVE  \A i \in 0..n : i \in P
<1> SUFFICES ASSUME NEW m \in 0..n, m \notin P PROVE FALSE
  OBVIOUS
<1> DEFINE S == {i \in 0..n : i \notin P}
<1>1. S \in SUBSET Nat /\ S # {}
  OBVIOUS
<1>2. PICK i \in S : \A j \in S : i <= j
  BY Zenon, <1>1, LeastExists
<1>3. i \in 1..n /\ i - 1 \in 0..n /\ ~ (i <= i - 1)
  BY <1>2
<1>4. i - 1 \in P
  BY Zenon, <1>2, <1>3
<1> QED
  BY Zenon, <1>2, <1>3, <1>4

\* One step of the loop behind Where(), and the values it goes through.
Keep(u, x, S) == IF x \in S THEN Append(u, x) ELSE u
Loop(f, s, S, n, T) ==
    /\ f \in [0..n -> Seq(T)] /\ f[0] = <<>>
    /\ \A i \in 1..n : f[i] = Keep(f[i - 1], s[i], S)

LEMMA LoopExists ==
    ASSUME NEW T, NEW s \in Seq(T), NEW S
    PROVE  \E f : Loop(f, s, S, Len(s), T)
<1> DEFINE P == {n \in Nat : \E f : Loop(f, s, S, n, T)}
<1>0. Len(s) \in Nat /\ \A i \in 1..Len(s) : s[i] \in T
  BY ElementOfSeq
<1>1. 0 \in P
  <2>1. PICK f : f = [i \in 0..0 |-> <<>>]
    OBVIOUS
  <2>2. f \in [0..0 -> Seq(T)] /\ f[0] = <<>> /\ 1..0 = {}
    BY <2>1
  <2>3. Loop(f, s, S, 0, T)
    BY Zenon, <2>2 DEF Loop
  <2> QED BY <2>3
<1>2. ASSUME NEW n \in 1..Len(s), n - 1 \in P PROVE n \in P
  <2>1. PICK f : Loop(f, s, S, n - 1, T)
    BY <1>2
  <2>2. PICK m \in Nat : m = n - 1 /\ n = m + 1 /\ n \in Nat
    BY <1>0
  <2>3. /\ f \in [0..m -> Seq(T)] /\ f[0] = <<>>
        /\ \A i \in 1..m : f[i] = Keep(f[i - 1], s[i], S)
    BY Zenon, <2>1, <2>2 DEF Loop
  <2> DEFINE v == Keep(f[m], s[n], S)
             g == [i \in 0..n |-> IF i = n THEN v ELSE f[i]]
  <2>4. f[m] \in Seq(T) /\ s[n] \in T
    BY <1>0, <2>2, <2>3
  <2>5. v \in Seq(T)
    BY <2>4 DEF Keep
  <2> HIDE DEF v
  <2>6. g \in [0..n -> Seq(T)] /\ g[0] = <<>>
    BY <2>2, <2>3, <2>5
  <2>7. ASSUME NEW i \in 1..n PROVE g[i] = Keep(g[i - 1], s[i], S)
    <3>1. CASE i = n
      <4>1. g[i] = v /\ g[i - 1] = f[m]
        BY <2>2, <3>1
      <4> QED BY Zenon, <3>1, <4>1 DEF v
    <3>2. CASE i # n
      <4>1. i \in 1..m /\ g[i] = f[i] /\ g[i - 1] = f[i - 1]
        BY <2>2, <3>2
      <4> QED BY Zenon, <2>3, <4>1
    <3> QED BY <3>1, <3>2
  <2> HIDE DEF g
  <2>8. Loop(g, s, S, n, T)
    BY Zenon, <2>6, <2>7 DEF Loop
  <2> QED BY Zenon, <2>2, <2>8
<1> HIDE DEF P
<1>3. Len(s) \in P
  <2>1. \A i \in 1..Len(s) : i - 1 \in P => i \in P
    BY Zenon, <1>2
  <2>2. Len(s) \in 0..Len(s)
    BY <1>0
  <2> QED BY Zenon, <1>0, <1>1, <2>1, <2>2, UpTo
<1> QED BY Zenon, <1>3 DEF P

\* Where() is the last value of such a loop.
LEMMA WhereIsLoop ==
    ASSUME NEW T, NEW s \in Seq(T), NEW S
    PROVE  \E f : Loop(f, s, S, Len(s), T) /\ Where(s, S) = f[Len(s)]
<1> DEFINE Eq(f) == f = [i \in 0..Len(s) |-> IF i = 0 THEN <<>>
                                             ELSE IF s[i] \in S THEN Append(f[i - 1], s[i])
                                             ELSE f[i - 1]]
<1>0. Len(s) \in Nat
  OBVIOUS
<1>1. PICK g : Loop(g, s, S, Len(s), T)
  BY Zenon, LoopExists
<1>2. Eq(g)
  <2>1. g \in [0..Len(s) -> Seq(T)] /\ g[0] = <<>>
    BY Zenon, <1>1 DEF Loop
  <2>2. ASSUME NEW i \in 0..Len(s)
        PROVE  g[i] = IF i = 0 THEN <<>> ELSE IF s[i] \in S THEN Append(g[i - 1], s[i])
                                               ELSE g[i - 1]
    <3>1. CASE i = 0
      BY Zenon, <2>1, <3>1
    <3>2. CASE i # 0
      <4>1. i \in 1..Len(s)
        BY <1>0, <3>2
      <4> QED BY Zenon, <1>1, <3>2, <4>1 DEF Loop, Keep
    <3> QED BY Zenon, <3>1, <3>2
  <2> QED BY Zenon, <2>1, <2>2
<1> DEFINE f == CHOOSE f : Eq(f)
<1>3. Eq(f)
  BY Zenon, <1>2
<1>4. Where(s, S) = f[Len(s)]
  BY Zenon DEF Where
<1> HIDE DEF f
<1> DEFINE P == {i \in Nat : f[i] = g[i]}
<1>5. 0 \in P
  <2>1. 0 \in 0..Len(s) /\ 0 \in Nat
    BY <1>0
  <2>2. f[0] = <<>> /\ g[0] = <<>>
    BY Zenon, <1>1, <1>3, <2>1 DEF Loop
  <2> QED BY Zenon, <2>1, <2>2
<1>6. ASSUME NEW i \in 1..Len(s), i - 1 \in P PROVE i \in P
  <2>1. i \in 0..Len(s) /\ i # 0 /\ i \in Nat
    BY <1>0
  <2>2. f[i] = IF s[i] \in S THEN Append(f[i - 1], s[i]) ELSE f[i - 1]
    BY Zenon, <1>3, <2>1
  <2>3. g[i] = IF s[i] \in S THEN Append(g[i - 1], s[i]) ELSE g[i - 1]
    BY Zenon, <1>2, <2>1
  <2>4. f[i - 1] = g[i - 1]
    BY Zenon, <1>6
  <2>5. f[i] = g[i]
    BY <2>2, <2>3, <2>4
  <2> QED BY Zenon, <2>1, <2>5
<1> HIDE DEF P
<1>7. Len(s) \in P
  <2>1. Len(s) \in 0..Len(s)
    BY <1>0
  <2> QED BY Zenon, <1>0, <1>5, <1>6, <2>1, UpTo
<1> QED BY Zenon, <1>1, <1>4, <1>7 DEF P

\* Where() keeps exactly the elements that are in S.
LEMMA WhereProps ==
    ASSUME NEW T, NEW s \in Seq(T), NEW S
    PROVE  /\ Where(s, S) \in Seq(T)
           /\ Range(Where(s, S)) = Range(s) \cap S
<1>0. /\ Len(s) \in Nat /\ DOMAIN s = 1..Len(s) /\ \A i \in 1..Len(s) : s[i] \in T
  BY ElementOfSeq
<1>1. PICK f : Loop(f, s, S, Len(s), T) /\ Where(s, S) = f[Len(s)]
  BY Zenon, WhereIsLoop
<1>2. /\ f \in [0..Len(s) -> Seq(T)] /\ f[0] = <<>>
      /\ \A i \in 1..Len(s) : f[i] = Keep(f[i - 1], s[i], S)
  BY Zenon, <1>1 DEF Loop
<1> DEFINE First(n) == {s[i] : i \in 1..n}
           P == {n \in Nat : n <= Len(s) => Range(f[n]) = First(n) \cap S}
<1>3. 0 \in P
  <2>1. Range(<<>>) = {} /\ First(0) = {}
    BY DEF Range
  <2> QED BY <1>2, <2>1
<1>4. ASSUME NEW n \in 1..Len(s)
      PROVE  /\ n \in Nat /\ n - 1 \in Nat /\ n - 1 <= Len(s)
             /\ f[n - 1] \in Seq(T) /\ f[n] \in Seq(T) /\ s[n] \in T
             /\ First(n) = First(n - 1) \cup {s[n]}
             /\ f[n] = Keep(f[n - 1], s[n], S)
  <2>1. n \in Nat /\ n - 1 \in Nat /\ n - 1 <= Len(s) /\ n - 1 \in 0..Len(s) /\ n \in 0..Len(s)
    BY <1>0
  <2>2. f[n - 1] \in Seq(T) /\ f[n] \in Seq(T)
    BY <1>2, <2>1
  <2>3. 1..n = 1..(n - 1) \cup {n}
    BY <2>1
  <2>4. First(n) = First(n - 1) \cup {s[n]}
    BY Zenon, <2>3
  <2>5. f[n] = Keep(f[n - 1], s[n], S)
    BY Zenon, <1>2
  <2> QED BY Zenon, <1>0, <2>1, <2>2, <2>4, <2>5
<1>5. ASSUME NEW u \in Seq(T), NEW x \in T
      PROVE  Range(Append(u, x)) = Range(u) \cup {x}
  <2>1. /\ Len(u) \in Nat /\ DOMAIN u = 1..Len(u) /\ DOMAIN Append(u, x) = 1..(Len(u) + 1)
        /\ Append(u, x)[Len(u) + 1] = x /\ \A i \in 1..Len(u) : Append(u, x)[i] = u[i]
    OBVIOUS
  <2>2. 1..(Len(u) + 1) = 1..Len(u) \cup {Len(u) + 1}
    BY <2>1
  <2> QED BY Zenon, <2>1, <2>2 DEF Range
<1>6. ASSUME NEW n \in 1..Len(s), n - 1 \in P PROVE n \in P
  <2>1. Range(f[n - 1]) = First(n - 1) \cap S
    BY Zenon, <1>4, <1>6
  <2>2. CASE s[n] \in S
    <3>1. Range(f[n]) = Range(f[n - 1]) \cup {s[n]}
      BY Zenon, <1>4, <1>5, <2>2 DEF Keep
    <3>2. Range(f[n]) = First(n) \cap S
      <4> HIDE DEF First
      <4> QED BY <1>4, <2>1, <2>2, <3>1
    <3> QED BY Zenon, <1>4, <3>2
  <2>3. CASE s[n] \notin S
    <3>1. f[n] = f[n - 1]
      BY Zenon, <1>4, <2>3 DEF Keep
    <3>2. Range(f[n]) = First(n) \cap S
      <4> HIDE DEF First
      <4> QED BY <1>4, <2>1, <2>3, <3>1
    <3> QED BY Zenon, <1>4, <3>2
  <2> QED BY Zenon, <2>2, <2>3
<1>7. Len(s) \in 0..Len(s)
  BY <1>0
<1>8. \A n \in 0..Len(s) : n \in P
  <2> HIDE DEF P
  <2> QED BY Zenon, <1>0, <1>3, <1>6, UpTo
<1>9. Range(Where(s, S)) = Range(s) \cap S
  <2>1. Len(s) \in P /\ Len(s) <= Len(s)
    <3> HIDE DEF P
    <3> QED BY <1>0, <1>7, <1>8
  <2>2. First(Len(s)) = Range(s)
    BY Zenon, <1>0 DEF Range
  <2> HIDE DEF First
  <2> QED BY Zenon, <1>1, <2>1, <2>2
<1>10. Where(s, S) \in Seq(T)
  BY <1>1, <1>2, <1>7
<1> QED BY Zenon, <1>9, <1>10
----------------------------------------------------------------------------
\* A sequence of the elements of S.
LEMMA SeqWithin ==
    ASSUME NEW T, NEW s \in Seq(T), NEW S, Range(s) \subseteq S
    PROVE  s \in Seq(S)
<1>1. Len(s) \in Nat /\ s \in [1..Len(s) -> T]
  OBVIOUS
<1>2. s \in [1..Len(s) -> S]
  BY Zenon, <1>1 DEF Range
<1> QED BY <1>1, <1>2

\* What a sequence holds, element by element.
LEMMA InRange ==
    ASSUME NEW T, NEW s \in Seq(T)
    PROVE  /\ Len(s) \in Nat /\ DOMAIN s = 1..Len(s) /\ Range(s) \subseteq T
           /\ \A x : x \in Range(s) <=> \E i \in 1..Len(s) : s[i] = x
<1>1. Len(s) \in Nat /\ DOMAIN s = 1..Len(s) /\ \A i \in 1..Len(s) : s[i] \in T
  BY ElementOfSeq
<1> QED BY Zenon, <1>1 DEF Range

LEMMA RangeConcat ==
    ASSUME NEW T, NEW s \in Seq(T), NEW u \in Seq(T)
    PROVE  s \o u \in Seq(T) /\ Range(s \o u) = Range(s) \cup Range(u)
<1> DEFINE w == s \o u
<1>1. /\ w \in Seq(T) /\ Len(w) = Len(s) + Len(u)
      /\ \A i \in 1..(Len(s) + Len(u)) : w[i] = IF i <= Len(s) THEN s[i] ELSE u[i - Len(s)]
  BY Zenon, ConcatProperties
<1> HIDE DEF w
<1>2. Len(s) \in Nat /\ Len(u) \in Nat
  OBVIOUS
<1>3. ASSUME NEW x \in Range(w) PROVE x \in Range(s) \cup Range(u)
  <2>1. PICK i \in 1..(Len(s) + Len(u)) : w[i] = x
    BY Zenon, <1>1, InRange
  <2>2. CASE i <= Len(s)
    <3>1. i \in 1..Len(s) /\ s[i] = x
      BY <1>1, <1>2, <2>1, <2>2
    <3> QED BY Zenon, <3>1, InRange
  <2>3. CASE ~ (i <= Len(s))
    <3>1. i - Len(s) \in 1..Len(u)
      BY <1>2, <2>3
    <3>2. u[i - Len(s)] = x
      BY Zenon, <1>1, <2>1, <2>3
    <3> QED BY Zenon, <3>1, <3>2, InRange
  <2> QED BY <2>2, <2>3
<1>4. ASSUME NEW x \in Range(s) PROVE x \in Range(w)
  <2>1. PICK i \in 1..Len(s) : s[i] = x
    BY Zenon, InRange
  <2>2. i \in 1..(Len(s) + Len(u)) /\ i <= Len(s)
    BY <1>2
  <2>3. w[i] = x
    BY Zenon, <1>1, <2>1, <2>2
  <2> QED BY Zenon, <1>1, <2>2, <2>3, InRange
<1>5. ASSUME NEW x \in Range(u) PROVE x \in Range(w)
  <2>1. PICK j \in 1..Len(u) : u[j] = x
    BY Zenon, InRange
  <2>2. PICK i \in 1..(Len(s) + Len(u)) : i = Len(s) + j /\ ~ (i <= Len(s)) /\ i - Len(s) = j
    BY <1>2
  <2>3. w[i] = x
    BY Zenon, <1>1, <2>1, <2>2
  <2> QED BY Zenon, <1>1, <2>3, InRange
<1>6. w \in Seq(T) /\ Range(w) = Range(s) \cup Range(u)
  BY <1>1, <1>3, <1>4, <1>5
<1> QED BY Zenon, <1>6 DEF w

\* The threads in some run queue.
In(q) == UNION {Range(q[l]) : l \in Levels}

LEMMA InQueues ==
    ASSUME NEW q \in [Levels -> Seq(Threads)]
    PROVE  In(q) \subseteq Threads /\ \A t : t \in In(q) <=> \E l \in Levels : t \in Range(q[l])
<1>1. \A l \in Levels : Range(q[l]) \subseteq Threads
  BY InRange
<1> QED BY Zenon, <1>1 DEF In

LEMMA QueueRange ==
    ASSUME NEW q \in [Levels -> Seq(Threads)], NEW l \in Levels
    PROVE  /\ q[l] \in Seq(Threads) /\ Len(q[l]) \in Nat /\ DOMAIN q[l] = 1..Len(q[l])
           /\ Range(q[l]) \subseteq Threads
           /\ \A x : x \in Range(q[l]) <=> \E i \in 1..Len(q[l]) : q[l][i] = x
<1>1. PICK u \in Seq(Threads) : u = q[l]
  BY Zenon
<1>2. /\ Len(u) \in Nat /\ DOMAIN u = 1..Len(u) /\ Range(u) \subseteq Threads
      /\ \A x : x \in Range(u) <=> \E i \in 1..Len(u) : u[i] = x
  BY Zenon, InRange
<1> QED BY Zenon, <1>1, <1>2

LEMMA QueueEntry ==
    ASSUME NEW q \in [Levels -> Seq(Threads)], NEW l \in Levels, NEW x \in Range(q[l])
    PROVE  /\ \E i \in 1..Len(q[l]) : q[l][i] = x
           /\ \E i \in DOMAIN q[l] : q[l][i] = x
<1>1. /\ DOMAIN q[l] = 1..Len(q[l])
      /\ \A y : y \in Range(q[l]) <=> \E i \in 1..Len(q[l]) : q[l][i] = y
  BY Zenon, QueueRange
<1> QED BY Zenon, <1>1

\* schedule() adds the threads it is given, each to the queue of its level.
Adds(r, q, ts, lv) ==
    \A l \in Levels : \A t \in Threads :
        t \in Range(r[l]) <=> t \in Range(q[l]) \/ (t \in Range(ts) /\ lv[t] = l)

LEMMA ScheduleAdds ==
    ASSUME NEW q \in [Levels -> Seq(Threads)], NEW T, NEW ts \in Seq(T),
           NEW lv \in [Threads -> Levels]
    PROVE  /\ Schedule(q, ts, lv) \in [Levels -> Seq(Threads)]
           /\ Adds(Schedule(q, ts, lv), q, ts, lv)
           /\ In(Schedule(q, ts, lv)) = In(q) \cup (Range(ts) \cap Threads)
<1> DEFINE new(l) == Where(ts, {t \in Threads : lv[t] = l})
           r == Schedule(q, ts, lv)
<1>1. r = [l \in Levels |-> q[l] \o new(l)]
  BY Zenon DEF Schedule
<1>2. ASSUME NEW l \in Levels
      PROVE  new(l) \in Seq(Threads) /\ Range(new(l)) = {t \in Range(ts) \cap Threads : lv[t] = l}
  <2>1. new(l) \in Seq(T) /\ Range(new(l)) = Range(ts) \cap {t \in Threads : lv[t] = l}
    BY Zenon, WhereProps
  <2> HIDE DEF new
  <2>2. Range(new(l)) \subseteq Threads
    BY Zenon, <2>1
  <2>3. new(l) \in Seq(Threads)
    BY Zenon, <2>1, <2>2, SeqWithin
  <2> QED BY <2>1, <2>3
<1> HIDE DEF new, r
<1>3. ASSUME NEW l \in Levels
      PROVE  /\ r[l] \in Seq(Threads)
             /\ Range(r[l]) = Range(q[l]) \cup {t \in Range(ts) \cap Threads : lv[t] = l}
  <2>1. r[l] = q[l] \o new(l) /\ q[l] \in Seq(Threads)
    BY Zenon, <1>1
  <2>2. r[l] \in Seq(Threads) /\ Range(r[l]) = Range(q[l]) \cup Range(new(l))
    <3>1. PICK a \in Seq(Threads), b \in Seq(Threads) : a = q[l] /\ b = new(l)
      BY Zenon, <1>2, <2>1
    <3>2. a \o b \in Seq(Threads) /\ Range(a \o b) = Range(a) \cup Range(b)
      BY Zenon, RangeConcat
    <3> QED BY Zenon, <2>1, <3>1, <3>2
  <2> QED BY Zenon, <1>2, <2>2
<1>4. r \in [Levels -> Seq(Threads)]
  BY Zenon, <1>1, <1>3
<1>5. In(r) = In(q) \cup (Range(ts) \cap Threads)
  <2>1. ASSUME NEW t PROVE t \in In(r) <=> t \in In(q) \cup (Range(ts) \cap Threads)
    <3>1. t \in Range(ts) \cap Threads => lv[t] \in Levels
      BY Zenon
    <3>2. t \in In(r) <=> \E l \in Levels : t \in Range(r[l])
      BY Zenon, <1>4, InQueues
    <3>3. t \in In(q) <=> \E l \in Levels : t \in Range(q[l])
      BY Zenon, InQueues
    <3>4. \A l \in Levels : t \in Range(r[l]) <=>
             t \in Range(q[l]) \/ (t \in Range(ts) \cap Threads /\ lv[t] = l)
      BY Zenon, <1>3
    <3> QED BY Zenon, <3>1, <3>2, <3>3, <3>4
  <2> QED BY Zenon, <2>1
<1>6. Adds(r, q, ts, lv)
  BY Zenon, <1>3 DEF Adds
<1> QED BY Zenon, <1>4, <1>5, <1>6 DEF r

\* What follows the i-th element of a queue.
LEMMA Rest ==
    ASSUME NEW T, NEW u \in Seq(T), NEW i \in 1..Len(u)
    PROVE  /\ SubSeq(u, i + 1, Len(u)) \in Seq(T)
           /\ Len(SubSeq(u, i + 1, Len(u))) = Len(u) - i
           /\ \A j \in 1..(Len(u) - i) : SubSeq(u, i + 1, Len(u))[j] = u[i + j]
<1> DEFINE w == SubSeq(u, i + 1, Len(u))
<1>0. Len(u) \in Nat /\ i \in Nat /\ i >= 1 /\ i <= Len(u) /\ \A k \in 1..Len(u) : u[k] \in T
  BY ElementOfSeq
<1>1. \A k \in (i + 1)..Len(u) : u[k] \in T
  BY <1>0
<1>2. i + 1 \in Int /\ Len(u) \in Int
  BY <1>0
<1>3. /\ w \in Seq(T)
      /\ Len(w) = IF i + 1 <= Len(u) THEN Len(u) - (i + 1) + 1 ELSE 0
      /\ \A k \in 1..(Len(u) - (i + 1) + 1) : w[k] = u[(i + 1) + k - 1]
  BY <1>1, <1>2, SubSeqProperties
<1> HIDE DEF w
<1>4. Len(w) = Len(u) - i
  BY <1>0, <1>3
<1>5. ASSUME NEW j \in 1..(Len(u) - i) PROVE w[j] = u[i + j]
  <2>1. j \in 1..(Len(u) - (i + 1) + 1) /\ (i + 1) + j - 1 = i + j
    BY <1>0
  <2> QED BY Zenon, <1>3, <2>1
<1> QED BY Zenon, <1>3, <1>4, <1>5 DEF w

\* The result of findRunnableThread() when there is a runnable thread: the i-th of
\* level l is the first one of the first level that has one.
Left(q, l, i) == [k \in Levels |-> CASE k < l -> <<>>
                                     [] k = l -> SubSeq(q[l], i + 1, Len(q[l]))
                                     [] OTHER -> q[k]]
First(q, st, l, i) ==
    /\ FindRunnable(q, st) = [thread |-> q[l][i], level |-> l, queue |-> Left(q, l, i)]
    /\ st[q[l][i]] = "Runnable"
    /\ \A k \in 0..(l - 1) : \A j \in 1..Len(q[k]) : st[q[k][j]] # "Runnable"
    /\ \A j \in 1..(i - 1) : st[q[l][j]] # "Runnable"

LEMMA FoundFirst ==
    ASSUME NEW q \in [Levels -> Seq(Threads)], NEW st,
           NEW x \in Levels, NEW y \in 1..Len(q[x]), st[q[x][y]] = "Runnable"
    PROVE  \E l \in Levels : \E i \in 1..Len(q[l]) : First(q, st, l, i)
<1> DEFINE Ready(l) == {i \in DOMAIN q[l] : st[q[l][i]] = "Runnable"}
           found == {l \in Levels : Ready(l) # {}}
           l == CHOOSE l \in found : \A k \in found : l <= k
           i == CHOOSE i \in Ready(l) : \A k \in Ready(l) : i <= k
<1>0. /\ \A k \in Levels : q[k] \in Seq(Threads) /\ DOMAIN q[k] = 1..Len(q[k]) /\ Len(q[k]) \in Nat
      /\ Levels \subseteq Nat
  BY SchedulerAssumption DEF Levels
<1>1. x \in found
  BY Zenon, <1>0
<1>2. l \in found /\ \A k \in found : l <= k
  <2>1. found \in SUBSET Nat /\ found # {}
    BY Zenon, <1>0, <1>1
  <2>2. \E m \in found : \A k \in found : m <= k
    BY Zenon, <2>1, LeastExists
  <2> QED BY Zenon, <2>2
<1> HIDE DEF l
<1>3. i \in Ready(l) /\ \A k \in Ready(l) : i <= k
  <2>1. Ready(l) \in SUBSET Nat /\ Ready(l) # {}
    BY <1>0, <1>2
  <2>2. \E m \in Ready(l) : \A k \in Ready(l) : m <= k
    BY Zenon, <2>1, LeastExists
  <2> QED BY Zenon, <2>2
<1> HIDE DEF i
<1>4. l \in Levels /\ i \in 1..Len(q[l]) /\ st[q[l][i]] = "Runnable" /\ l \in Nat
  BY Zenon, <1>0, <1>2, <1>3
<1>5. ASSUME NEW k \in 0..(l - 1), NEW j \in 1..Len(q[k]) PROVE st[q[k][j]] # "Runnable"
  <2>1. k \in Levels /\ ~ (l <= k)
    BY <1>4, SchedulerAssumption DEF Levels
  <2> QED BY Zenon, <1>0, <1>2, <2>1
<1>6. ASSUME NEW j \in 1..(i - 1) PROVE st[q[l][j]] # "Runnable"
  <2>1. j \in 1..Len(q[l]) /\ ~ (i <= j)
    BY <1>0, <1>4
  <2> QED BY Zenon, <1>0, <1>3, <1>4, <2>1
<1>7. FindRunnable(q, st) = [thread |-> q[l][i], level |-> l, queue |-> Left(q, l, i)]
  <2>1. found # {}
    BY Zenon, <1>1
  <2> QED BY Zenon, <2>1 DEF FindRunnable, Left, l, i
<1> QED BY Zenon, <1>4, <1>5, <1>6, <1>7 DEF First

LEMMA FoundNone ==
    ASSUME NEW q \in [Levels -> Seq(Threads)], NEW st,
           \A l \in Levels : \A i \in 1..Len(q[l]) : st[q[l][i]] # "Runnable"
    PROVE  FindRunnable(q, st) = [thread |-> Idle, level |-> kNumLevels,
                                  queue |-> [l \in Levels |-> <<>>]]
<1> DEFINE Ready(l) == {i \in DOMAIN q[l] : st[q[l][i]] = "Runnable"}
           found == {l \in Levels : Ready(l) # {}}
<1>0. \A l \in Levels : DOMAIN q[l] = 1..Len(q[l])
  OBVIOUS
<1>1. found = {}
  BY Zenon, <1>0
<1> QED BY Zenon, <1>1 DEF FindRunnable

\* What findRunnableThread() promises: a runnable thread of the queues if there is
\* one, nothing left in the levels it has gone through, and every other runnable
\* thread still queued.
Picks(next, q, st) ==
    /\ next.queue \in [Levels -> Seq(Threads)] /\ next.level \in 0..kNumLevels
    /\ next.thread \in In(q) \cup {Idle}
    /\ next.thread \in Threads => st[next.thread] = "Runnable"
    /\ \A l \in Levels : l < next.level => next.queue[l] = <<>>
    /\ In(next.queue) \subseteq In(q)
    /\ \A t \in In(q) : st[t] = "Runnable" => t = next.thread \/ t \in In(next.queue)

LEMMA PicksNone ==
    ASSUME NEW q \in [Levels -> Seq(Threads)], NEW st,
           \A l \in Levels : \A i \in 1..Len(q[l]) : st[q[l][i]] # "Runnable"
    PROVE  Picks(FindRunnable(q, st), q, st)
<1> DEFINE e == [l \in Levels |-> <<>>]
           next == [thread |-> Idle, level |-> kNumLevels, queue |-> e]
<1>1. FindRunnable(q, st) = next
  BY Zenon, FoundNone
<1>2. e \in [Levels -> Seq(Threads)] /\ \A l \in Levels : e[l] = <<>>
  OBVIOUS
<1>3. In(e) = {}
  <2>1. Range(<<>>) = {}
    BY DEF Range
  <2> QED BY Zenon, <1>2, <2>1 DEF In
<1>4. kNumLevels \in 0..kNumLevels /\ Idle \notin Threads
  BY SchedulerAssumption
<1>5. \A t \in In(q) : st[t] # "Runnable"
  <2> SUFFICES ASSUME NEW l \in Levels, NEW t \in Range(q[l]) PROVE st[t] # "Runnable"
    BY Zenon, InQueues
  <2>1. \E i \in 1..Len(q[l]) : q[l][i] = t
    BY Zenon, QueueEntry
  <2> QED BY Zenon, <2>1
<1> HIDE DEF e
<1>6. Picks(next, q, st)
  <2>1. next.thread = Idle /\ next.level = kNumLevels /\ next.queue = e
    OBVIOUS
  <2> HIDE DEF next
  <2> QED BY Zenon, <2>1, <1>2, <1>3, <1>4, <1>5 DEF Picks
<1> QED BY Zenon, <1>1, <1>6

LEMMA PicksFirst ==
    ASSUME NEW q \in [Levels -> Seq(Threads)], NEW st,
           NEW x \in Levels, NEW y \in 1..Len(q[x]), st[q[x][y]] = "Runnable"
    PROVE  Picks(FindRunnable(q, st), q, st)
<1>1. PICK l \in Levels : \E i \in 1..Len(q[l]) : First(q, st, l, i)
  BY Zenon, FoundFirst
<1>a. PICK i \in 1..Len(q[l]) : First(q, st, l, i)
  BY Zenon, <1>1
<1>2. /\ FindRunnable(q, st) = [thread |-> q[l][i], level |-> l, queue |-> Left(q, l, i)]
      /\ st[q[l][i]] = "Runnable"
      /\ \A k \in 0..(l - 1) : \A j \in 1..Len(q[k]) : st[q[k][j]] # "Runnable"
      /\ \A j \in 1..(i - 1) : st[q[l][j]] # "Runnable"
  BY Zenon, <1>a DEF First
<1> DEFINE r == Left(q, l, i)
           next == [thread |-> q[l][i], level |-> l, queue |-> r]
<1>0. /\ \A k \in Levels : /\ q[k] \in Seq(Threads) /\ DOMAIN q[k] = 1..Len(q[k])
                            /\ Len(q[k]) \in Nat
      /\ Levels \subseteq Nat /\ l \in Nat /\ l \in 0..kNumLevels
  <2>1. Levels \subseteq Nat /\ l \in Nat /\ l \in 0..kNumLevels
    BY SchedulerAssumption DEF Levels
  <2> QED BY Zenon, <2>1, QueueRange
<1>3. /\ SubSeq(q[l], i + 1, Len(q[l])) \in Seq(Threads)
      /\ Len(SubSeq(q[l], i + 1, Len(q[l]))) = Len(q[l]) - i
      /\ \A j \in 1..(Len(q[l]) - i) : SubSeq(q[l], i + 1, Len(q[l]))[j] = q[l][i + j]
  <2>1. PICK u \in Seq(Threads) : u = q[l]
    BY Zenon, <1>0
  <2> QED BY Zenon, <2>1, Rest
<1>4. \A k \in Levels : /\ k < l => r[k] = <<>>
                        /\ k = l => r[k] = SubSeq(q[l], i + 1, Len(q[l]))
                        /\ ~ (k < l) /\ k # l => r[k] = q[k]
  <2>1. ~ (l < l)
    BY <1>0
  <2> QED BY Zenon, <2>1 DEF Left
<1>5. r \in [Levels -> Seq(Threads)]
  <2>1. <<>> \in Seq(Threads)
    OBVIOUS
  <2>2. \A k \in Levels : r[k] \in Seq(Threads)
    BY Zenon, <1>0, <1>3, <1>4, <2>1
  <2>3. r = [k \in Levels |-> r[k]]
    BY DEF Left
  <2> QED BY Zenon, <2>2, <2>3
<1> HIDE DEF r
\* an entry left behind is an entry of the same queue, after the one taken
<1>6. ASSUME NEW k \in Levels, NEW j \in DOMAIN r[k]
      PROVE  \E m \in DOMAIN q[k] : /\ r[k][j] = q[k][m]
                                    /\ k = l => m = i + j /\ m > i
                                    /\ k # l => m = j
  <2>1. CASE k < l
    <3>1. DOMAIN <<>> = {}
      OBVIOUS
    <3> QED BY Zenon, <1>4, <2>1, <3>1
  <2>2. CASE k = l
    <3>1. j \in 1..(Len(q[l]) - i)
      BY <1>0, <1>3, <1>4, <2>2
    <3>2. i + j \in 1..Len(q[l]) /\ i + j > i
      BY <1>0, <3>1
    <3> QED BY Zenon, <1>0, <1>3, <1>4, <2>2, <3>1, <3>2
  <2>3. CASE ~ (k < l) /\ k # l
    BY Zenon, <1>4, <2>3
  <2> QED BY Zenon, <2>1, <2>2, <2>3
\* and a runnable one that is not left behind is the one taken
<1>7. ASSUME NEW k \in Levels, NEW j \in 1..Len(q[k]), st[q[k][j]] = "Runnable",
             k # l \/ j # i
      PROVE  q[k][j] \in Range(r[k])
  <2>1. CASE k < l
    <3>0. k \in Nat /\ l \in Nat
      BY Zenon, <1>0
    <3>1. k \in 0..(l - 1)
      BY <2>1, <3>0
    <3> QED BY Zenon, <1>2, <1>7, <3>1
  <2>2. CASE k = l
    <3>1. ~ (j \in 1..(i - 1))
      BY Zenon, <1>2, <1>7, <2>2
    <3>2. j - i \in 1..(Len(q[l]) - i) /\ i + (j - i) = j
      BY <1>0, <1>7, <2>2, <3>1
    <3>3. j - i \in DOMAIN r[k] /\ r[k][j - i] = q[k][j]
      <4>1. DOMAIN r[k] = 1..(Len(q[l]) - i)
        BY <1>3, <1>4, <2>2
      <4> QED BY Zenon, <1>3, <1>4, <2>2, <3>2, <4>1
    <3> QED BY Zenon, <3>3 DEF Range
  <2>3. CASE ~ (k < l) /\ k # l
    BY Zenon, <1>0, <1>4, <2>3 DEF Range
  <2> QED BY Zenon, <2>1, <2>2, <2>3
<1>8. q[l][i] \in In(q) /\ q[l][i] \in Threads
  BY Zenon, InQueues, QueueRange
<1>9. In(r) \subseteq In(q)
  <2> SUFFICES ASSUME NEW t \in In(r) PROVE t \in In(q)
    BY Zenon
  <2>1. PICK k \in Levels : t \in Range(r[k])
    BY Zenon, <1>5, InQueues
  <2>2. PICK j \in DOMAIN r[k] : t = r[k][j]
    BY Zenon, <1>5, <2>1, QueueEntry
  <2>3. PICK m \in 1..Len(q[k]) : t = q[k][m]
    BY Zenon, <1>0, <1>6, <2>2
  <2> QED BY Zenon, <2>3, InQueues, QueueRange
<1>10. ASSUME NEW t \in In(q), st[t] = "Runnable" PROVE t = q[l][i] \/ t \in In(r)
  <2>1. PICK k \in Levels : t \in Range(q[k])
    BY Zenon, InQueues
  <2>2. PICK j \in 1..Len(q[k]) : t = q[k][j]
    BY Zenon, <2>1, QueueEntry
  <2> QED BY Zenon, <1>5, <1>7, <1>10, <2>2, InQueues
<1>11. Picks(next, q, st)
  <2>1. \A k \in Levels : k < l => r[k] = <<>>
    BY Zenon, <1>4
  <2>2. next.thread = q[l][i] /\ next.level = l /\ next.queue = r
    OBVIOUS
  <2> HIDE DEF next
  <2> QED BY Zenon, <2>2, <1>0, <1>2, <1>5, <1>8, <1>9, <1>10, <2>1 DEF Picks
<1> QED BY Zenon, <1>2, <1>11 DEF r

LEMMA FindRunnablePicks ==
    ASSUME NEW q \in [Levels -> Seq(Threads)], NEW st
    PROVE  Picks(FindRunnable(q, st), q, st)
<1>1. CASE \A l \in Levels : \A i \in 1..Len(q[l]) : st[q[l][i]] # "Runnable"
  BY Zenon, <1>1, PicksNone
<1>2. CASE \E l \in Levels : \E i \in 1..Len(q[l]) : st[q[l][i]] = "Runnable"
  BY Zenon, <1>2, PicksFirst
<1> QED BY Zenon, <1>1, <1>2

\* One thread as a sequence.
LEMMA Single ==
    ASSUME NEW T, NEW t \in T
    PROVE  <<t>> \in Seq(T) /\ Range(<<t>>) = {t}
<1>1. <<t>> \in Seq(T) /\ Len(<<t>>) = 1 /\ DOMAIN <<t>> = {1} /\ <<t>>[1] = t
  OBVIOUS
<1> QED BY Zenon, <1>1 DEF Range

LEMMA Empty ==
    ASSUME NEW T
    PROVE  <<>> \in Seq(T) /\ Range(<<>>) = {}
<1>1. <<>> \in Seq(T) /\ DOMAIN <<>> = {}
  OBVIOUS
<1> QED BY Zenon, <1>1 DEF Range

\* The orders of a finite set of threads.
LEMMA OrdersOf ==
    ASSUME NEW S, IsFiniteSet(S)
    PROVE  /\ \E f : f \in Orders(S)
           /\ \A f \in Orders(S) : f \in Seq(S) /\ Range(f) = S
<1>1. PICK n \in Nat : n = Cardinality(S) /\ Bijection(1..n, S) # {}
  BY Zenon, FS_CardinalityType DEF ExistsBijection
<1>2. ASSUME NEW f \in Bijection(1..n, S) PROVE f \in Seq(S) /\ Range(f) = S
  <2>1. /\ f \in [1..n -> S]
        /\ \A x \in S : \E i \in 1..n : f[i] = x
    BY Zenon DEF Bijection, Injection, Surjection
  <2>2. Range(f) = S
    BY Zenon, <2>1 DEF Range
  <2>3. f \in Seq(S)
    BY <2>1
  <2> QED BY Zenon, <2>2, <2>3
<1> QED BY Zenon, <1>1, <1>2 DEF Orders
----------------------------------------------------------------------------
LEMMA DemoteType ==
    ASSUME NEW lv \in [Threads -> Levels], NEW t, NEW expired
    PROVE  Demote(lv, t, expired) \in [Threads -> Levels]
<1>1. CASE expired /\ t \in Threads
  <2>1. Smaller(lv[t] + 1, kNumLevels - 1) \in Levels
    BY <1>1, SchedulerAssumption DEF Smaller, Levels
  <2> QED BY <1>1, <2>1 DEF Demote
<1>2. CASE ~ (expired /\ t \in Threads)
  BY Zenon, <1>2 DEF Demote
<1> QED BY Zenon, <1>1, <1>2

LEMMA CheckedType ==
    ASSUME NEW invalid, NEW q, panic \in Panics, Checked(invalid, q)
    PROVE  panic' \in Panics
BY DEF Checked, Panics

\* The thread that is put back, as a set.
Back(t, st) == {u \in Threads : u = t /\ st[u] = "Runnable"}

LEMMA RequeuedIs ==
    ASSUME NEW t, NEW st
    PROVE  Requeued(t, st) \in Seq(Threads) /\ Range(Requeued(t, st)) = Back(t, st)
<1>1. CASE t \in Threads /\ st[t] = "Runnable"
  <2>1. Requeued(t, st) = <<t>> /\ Back(t, st) = {t}
    BY Zenon, <1>1 DEF Requeued, Back
  <2> QED BY Zenon, <1>1, <2>1, Single
<1>2. CASE ~ (t \in Threads /\ st[t] = "Runnable")
  <2>1. Requeued(t, st) = <<>> /\ Back(t, st) = {}
    BY Zenon, <1>2 DEF Requeued, Back
  <2> QED BY Zenon, <2>1, Empty
<1> QED BY Zenon, <1>1, <1>2

\* Nothing is left in the queues better than the one the next thread came from.
Cleared == \A l \in Levels : l < currentLevel' => queue'[l] = <<>>

\* What a step does that adds the threads A to the queues and gives the processor
\* to the first runnable one, or leaves the running thread alone.
Dispatched(st, A) ==
    /\ queue' \in [Levels -> Seq(Threads)] /\ currentLevel' \in 0..kNumLevels
    /\ running' \in Threads \cup {Idle}
    /\ running' \in Threads => st[running'] = "Runnable"
    /\ \A u \in Threads : st[u] = "Runnable" /\ (u \in A \/ u \in In(queue)) =>
                             running' = u \/ u \in In(queue')
    /\ In(queue') \subseteq In(queue) \cup A
    /\ UNCHANGED <<queue, currentLevel>> \/ Cleared

LEMMA PickIsDispatch ==
    ASSUME NEW st, NEW ts \in Seq(Threads), NEW lv \in [Threads -> Levels],
           queue \in [Levels -> Seq(Threads)],
           NEW next, next = FindRunnable(Schedule(queue, ts, lv), st),
           queue' = next.queue, currentLevel' = next.level, running' = next.thread
    PROVE  Dispatched(st, Range(ts)) /\ Cleared
<1>1. PICK q \in [Levels -> Seq(Threads)] :
         q = Schedule(queue, ts, lv) /\ In(q) = In(queue) \cup (Range(ts) \cap Threads)
  BY Zenon, ScheduleAdds
<1>2. Picks(next, q, st)
  BY Zenon, <1>1, FindRunnablePicks
<1>3. Range(ts) \subseteq Threads /\ In(q) \subseteq Threads
  BY Zenon, InRange, InQueues
<1>4. In(q) = In(queue) \cup Range(ts)
  BY Zenon, <1>1, <1>3
<1>5. /\ queue' \in [Levels -> Seq(Threads)] /\ currentLevel' \in 0..kNumLevels
      /\ running' \in In(q) \cup {Idle}
      /\ running' \in Threads => st[running'] = "Runnable"
      /\ Cleared
      /\ In(queue') \subseteq In(q)
      /\ \A t \in In(q) : st[t] = "Runnable" => t = running' \/ t \in In(queue')
  BY Zenon, <1>2 DEF Picks, Cleared
<1>6. Dispatched(st, Range(ts))
  BY Zenon, <1>3, <1>4, <1>5 DEF Dispatched
<1> QED BY Zenon, <1>5, <1>6

\* yield() does that with the thread that calls it.
LEMMA YieldDispatches ==
    ASSUME TypeOK, NEW t \in Threads, running = t, NEW st, NEW expired, NEW spent,
           YieldNow(t, st, expired, spent)
    PROVE  /\ Dispatched(st, Back(t, st))
           /\ level' \in [Threads -> Levels] /\ irql' \in {Passive, SchedulerLevel}
           /\ panic' \in Panics
<1>0. /\ queue \in [Levels -> Seq(Threads)] /\ level \in [Threads -> Levels]
      /\ currentLevel \in 0..kNumLevels
      /\ irql \in {Passive, SchedulerLevel} /\ panic \in Panics
  BY Zenon DEF TypeOK
<1>1. PICK lv \in [Threads -> Levels] : lv = Demote(level, t, expired)
  BY Zenon, <1>0, DemoteType
<1>2. PICK q : q = Schedule(queue, Requeued(t, st), lv)
  BY Zenon
<1>3. PICK next : next = FindRunnable(q, st)
  BY Zenon
<1>4. \/ /\ st[t] = "Runnable" /\ level' = lv
         /\ UNCHANGED <<queue, running, currentLevel, irql, panic>>
      \/ /\ queue' = next.queue /\ currentLevel' = next.level /\ Checked(FALSE, q)
         /\ \/ next.thread = t /\ level' = lv /\ irql' = SchedulerLevel /\ running' = running
            \/ level' = Demote(lv, t, spent) /\ running' = next.thread /\ irql' = Passive
  BY Zenon, <1>1, <1>2, <1>3 DEF YieldNow, SwitchTo
<1>5. CASE /\ st[t] = "Runnable" /\ level' = lv
           /\ UNCHANGED <<queue, running, currentLevel, irql, panic>>
  <2>1. Back(t, st) = {t}
    BY Zenon, <1>5 DEF Back
  <2>2. queue' = queue /\ running' = t /\ currentLevel' = currentLevel
    BY Zenon, <1>5
  <2>3. Dispatched(st, {t})
    BY Zenon, <1>0, <1>5, <2>2 DEF Dispatched
  <2> QED BY Zenon, <1>0, <1>5, <2>1, <2>3
<1>6. CASE /\ queue' = next.queue /\ currentLevel' = next.level /\ Checked(FALSE, q)
           /\ \/ next.thread = t /\ level' = lv /\ irql' = SchedulerLevel /\ running' = running
              \/ level' = Demote(lv, t, spent) /\ running' = next.thread /\ irql' = Passive
  <2>1. running' = next.thread
    BY Zenon, <1>6
  <2>2. PICK ts \in Seq(Threads) : ts = Requeued(t, st) /\ Range(ts) = Back(t, st)
    BY Zenon, RequeuedIs
  <2>3. Dispatched(st, Range(ts))
    BY Zenon, <1>0, <1>2, <1>3, <1>6, <2>1, <2>2, PickIsDispatch
  <2>4. level' \in [Threads -> Levels]
    BY Zenon, <1>6, DemoteType
  <2>5. panic' \in Panics
    BY Zenon, <1>0, <1>6, CheckedType
  <2> QED BY Zenon, <1>6, <2>2, <2>3, <2>4, <2>5
<1> QED BY Zenon, <1>4, <1>5, <1>6

\* handleIpi() makes the threads on the list that are not still blocking runnable
\* and does that with them and the running thread.
Ready == {t \in Range(unblocked) : blockState[t] # "Blocking"}
Woken(st) == /\ st \in [Threads -> States]
             /\ \A t \in Threads : st[t] = IF t \in Ready THEN "Runnable" ELSE state[t]

LEMMA IpiDispatches ==
    ASSUME TypeOK, NEW spent, HandleIpi(spent)
    PROVE  /\ state' \in [Threads -> States] /\ Woken(state')
           /\ Dispatched(state', Ready \cup Back(running, state')) /\ Cleared
           /\ level' \in [Threads -> Levels] /\ panic' \in Panics
           /\ unblockRequested' \in [Threads -> BOOLEAN]
<1>0. /\ queue \in [Levels -> Seq(Threads)] /\ level \in [Threads -> Levels]
      /\ state \in [Threads -> States] /\ unblocked \in Seq(Threads) /\ panic \in Panics
      /\ unblockRequested \in [Threads -> BOOLEAN]
  BY Zenon DEF TypeOK
<1>1. PICK S : S = {t \in Threads : blockState[t] # "Blocking"}
  BY Zenon
<1>2. PICK ready \in Seq(Threads) : ready = Where(unblocked, S) /\ Range(ready) = Range(unblocked) \cap S
  BY <1>0, WhereProps
<1>3. Range(ready) = Ready /\ Range(unblocked) \subseteq Threads
  <2>1. Range(unblocked) \subseteq Threads
    BY Zenon, <1>0, InRange
  <2> QED BY Zenon, <1>1, <1>2, <2>1 DEF Ready
<1>4. PICK st : st = [t \in Threads |-> IF t \in Range(ready) THEN "Runnable" ELSE state[t]]
  BY Zenon
<1>5. PICK b \in Seq(Threads) : b = Requeued(running, st) /\ Range(b) = Back(running, st)
  BY Zenon, RequeuedIs
<1>6. PICK ts \in Seq(Threads) : ts = ready \o b /\ Range(ts) = Ready \cup Back(running, st)
  <2>1. ready \o b \in Seq(Threads) /\ Range(ready \o b) = Range(ready) \cup Range(b)
    BY Zenon, RangeConcat
  <2> QED BY Zenon, <1>3, <1>5, <2>1
<1>7. PICK next : next = FindRunnable(Schedule(queue, ts, level), st)
  BY Zenon
<1>8. /\ state' = st /\ queue' = next.queue /\ currentLevel' = next.level /\ running' = next.thread
      /\ level' = IF next.thread # running THEN Demote(level, running, spent) ELSE level
      /\ unblockRequested' = [t \in Threads |-> unblockRequested[t] /\ t \notin Range(unblocked)]
      /\ \E invalid, q : Checked(invalid, q)
  BY Zenon, <1>1, <1>2, <1>4, <1>5, <1>6, <1>7 DEF HandleIpi, SwitchTo
<1>9. st \in [Threads -> States] /\ Woken(st)
  <2>1. st \in [Threads -> States]
    BY <1>0, <1>4 DEF States
  <2> QED BY Zenon, <1>3, <1>4, <2>1 DEF Woken
<1>10. Dispatched(st, Range(ts)) /\ Cleared
  BY Zenon, <1>0, <1>7, <1>8, PickIsDispatch
<1>11. level' \in [Threads -> Levels]
  BY Zenon, <1>0, <1>8, DemoteType
<1>12. panic' \in Panics
  BY Zenon, <1>0, <1>8, CheckedType
<1>13. unblockRequested' \in [Threads -> BOOLEAN]
  BY <1>0, <1>8
<1> QED BY Zenon, <1>6, <1>8, <1>9, <1>10, <1>11, <1>12, <1>13

\* threadUnblocked() puts the threads that were not marked on the list.
LEMMA UnblockedAdds ==
    ASSUME TypeOK, NEW ts \in Seq(Threads), ThreadUnblocked(ts)
    PROVE  /\ unblocked' \in Seq(Threads) /\ unblockRequested' \in [Threads -> BOOLEAN]
           /\ Range(unblocked') = Range(unblocked) \cup {t \in Range(ts) : ~unblockRequested[t]}
           /\ \A t \in Threads : unblockRequested'[t] <=> unblockRequested[t] \/ t \in Range(ts)
<1>0. unblocked \in Seq(Threads) /\ unblockRequested \in [Threads -> BOOLEAN]
  BY Zenon DEF TypeOK
<1>1. PICK S : S = {t \in Threads : ~unblockRequested[t]}
  BY Zenon
<1>2. PICK w \in Seq(Threads) : w = Where(ts, S) /\ Range(w) = Range(ts) \cap S
  BY WhereProps
<1>3. Range(ts) \subseteq Threads
  BY Zenon, InRange
<1>4. unblocked' = unblocked \o w
  BY Zenon, <1>1, <1>2 DEF ThreadUnblocked, Fresh
<1>5. unblocked' \in Seq(Threads) /\ Range(unblocked') = Range(unblocked) \cup Range(w)
  BY Zenon, <1>0, <1>4, RangeConcat
<1>6. Range(unblocked') = Range(unblocked) \cup {t \in Range(ts) : ~unblockRequested[t]}
  BY Zenon, <1>1, <1>2, <1>3, <1>5
<1>7. unblockRequested' = [t \in Threads |-> unblockRequested[t] \/ t \in Range(ts)]
  BY Zenon DEF ThreadUnblocked
<1>8. unblockRequested' \in [Threads -> BOOLEAN]
  BY <1>0, <1>7
<1> QED BY Zenon, <1>5, <1>6, <1>7, <1>8

LEMMA NonEmpty ==
    ASSUME NEW T, NEW s \in Seq(T)
    PROVE  s # <<>> <=> Range(s) # {}
<1>1. Len(s) \in Nat /\ DOMAIN s = 1..Len(s)
  OBVIOUS
<1>2. s = <<>> <=> Len(s) = 0
  BY EmptySeq
<1>3. Len(s) = 0 <=> 1..Len(s) = {}
  <2>1. 1..0 = {} /\ (Len(s) # 0 => 1 \in 1..Len(s))
    BY <1>1
  <2> QED BY Zenon, <2>1
<1>4. Range(s) = {} <=> DOMAIN s = {}
  BY Zenon DEF Range
<1> QED BY Zenon, <1>1, <1>2, <1>3, <1>4

\* timerFired() makes the sleepers whose deadline expires runnable and queues them,
\* and puts the waiters on the list.
Expired(S, kind) == {t \in Threads : <<t, kind>> \in S}

LEMMA TimerEffect ==
    ASSUME TypeOK, NEW expired \in BOOLEAN, NEW S \in SUBSET deadlines, TimerFired(expired, S)
    PROVE  /\ level' \in [Threads -> Levels] /\ queue' \in [Levels -> Seq(Threads)]
           /\ In(queue') = In(queue) \cup Expired(S, "sleep")
           /\ \A l \in Levels : l < currentLevel /\ queue'[l] # <<>> => ipi' \/ queue[l] # <<>>
           /\ state' \in [Threads -> States]
           /\ \A t \in Threads :
                 state'[t] = IF t \in Expired(S, "sleep") THEN "Runnable" ELSE state[t]
           /\ blockState' \in [Threads -> {"None", "Blocking", "Unblocked", "Timeout"}]
           /\ \A t \in Threads :
                 blockState'[t] = IF t \in Expired(S, "wait") THEN "Timeout" ELSE blockState[t]
           /\ unblocked' \in Seq(Threads) /\ unblockRequested' \in [Threads -> BOOLEAN]
           /\ Range(unblocked') =
                 Range(unblocked) \cup {t \in Expired(S, "wait") : ~unblockRequested[t]}
           /\ \A t \in Threads :
                 unblockRequested'[t] <=> unblockRequested[t] \/ t \in Expired(S, "wait")
           /\ panic' \in Panics /\ ipi' \in BOOLEAN /\ timer' \in BOOLEAN /\ (timer' \/ ipi')
           /\ ipi => ipi'
<1>0. /\ queue \in [Levels -> Seq(Threads)] /\ level \in [Threads -> Levels]
      /\ state \in [Threads -> States] /\ panic \in Panics /\ ipi \in BOOLEAN
      /\ blockState \in [Threads -> {"None", "Blocking", "Unblocked", "Timeout"}]
  BY Zenon DEF TypeOK
<1>1. IsFiniteSet(Expired(S, "sleep")) /\ IsFiniteSet(Expired(S, "wait"))
  <2>1. Expired(S, "sleep") \in SUBSET Threads /\ Expired(S, "wait") \in SUBSET Threads
    BY Zenon DEF Expired
  <2> QED BY Zenon, <2>1, SchedulerAssumption, FS_Subset
<1>2. PICK lv \in [Threads -> Levels] : lv = Demote(level, running, expired)
  BY Zenon, <1>0, DemoteType
<1>3. PICK sleepers \in Orders(Expired(S, "sleep")), waiters \in Orders(Expired(S, "wait")) :
          /\ level' = lv
          /\ state' = [t \in Threads |-> IF t \in Range(sleepers) THEN "Runnable" ELSE state[t]]
          /\ queue' = Schedule(queue, sleepers, lv)
          /\ blockState' =
                 [t \in Threads |-> IF t \in Range(waiters) THEN "Timeout" ELSE blockState[t]]
          /\ ThreadUnblocked(waiters) /\ Checked(NotWaiting(waiters), queue')
          /\ ipi' = (ipi \/ Preempts(expired, sleepers, lv) \/ WantsIpi(waiters, lv))
          /\ timer' = ~Preempts(expired, sleepers, lv)
  BY Zenon, <1>2 DEF TimerFired, Expired, TimerRestarts
<1>4. /\ sleepers \in Seq(Threads) /\ Range(sleepers) = Expired(S, "sleep")
      /\ waiters \in Seq(Threads) /\ Range(waiters) = Expired(S, "wait")
  <2>1. sleepers \in Seq(Expired(S, "sleep")) /\ Range(sleepers) = Expired(S, "sleep")
    BY Zenon, <1>1, OrdersOf
  <2>2. waiters \in Seq(Expired(S, "wait")) /\ Range(waiters) = Expired(S, "wait")
    BY Zenon, <1>1, OrdersOf
  <2>3. Expired(S, "sleep") \subseteq Threads /\ Expired(S, "wait") \subseteq Threads
    BY Zenon DEF Expired
  <2> QED BY Zenon, <2>1, <2>2, <2>3, SeqWithin
<1>5. /\ queue' \in [Levels -> Seq(Threads)]
      /\ In(queue') = In(queue) \cup (Range(sleepers) \cap Threads)
  BY Zenon, <1>0, <1>3, <1>4, ScheduleAdds
<1>6. ASSUME NEW l \in Levels, l < currentLevel, queue'[l] # <<>>, queue[l] = <<>> PROVE ipi'
  <2>1. Range(queue'[l]) # {} /\ Range(queue[l]) = {}
    BY Zenon, <1>0, <1>5, <1>6, NonEmpty
  <2>2. PICK t \in Range(sleepers) : lv[t] = l
    <3>1. PICK t : t \in Range(Schedule(queue, sleepers, lv)[l]) /\ t \notin Range(queue[l])
      BY Zenon, <1>3, <2>1
    <3>2. Adds(queue', queue, sleepers, lv)
      BY Zenon, <1>0, <1>3, <1>4, ScheduleAdds
    <3>3. t \in Threads
      BY Zenon, <1>3, <1>5, <3>1, QueueRange
    <3> QED BY Zenon, <1>3, <3>1, <3>2, <3>3 DEF Adds
  <2>3. currentLevel >= lv[t]
    <3>1. l \in Nat /\ currentLevel \in Nat
      BY SchedulerAssumption DEF TypeOK, Levels
    <3> QED BY <1>6, <2>2, <3>1
  <2>4. Preempts(expired, sleepers, lv)
    BY Zenon, <2>2, <2>3 DEF Preempts
  <2> QED BY Zenon, <1>3, <2>4
<1>7. /\ state' \in [Threads -> States]
      /\ blockState' \in [Threads -> {"None", "Blocking", "Unblocked", "Timeout"}]
  <2>1. "Runnable" \in States
    BY DEF States
  <2> QED BY <1>0, <1>3, <2>1
<1>8. /\ \A t \in Threads :
            state'[t] = IF t \in Expired(S, "sleep") THEN "Runnable" ELSE state[t]
      /\ \A t \in Threads :
            blockState'[t] = IF t \in Expired(S, "wait") THEN "Timeout" ELSE blockState[t]
  BY Zenon, <1>3, <1>4
<1>9. /\ unblocked' \in Seq(Threads) /\ unblockRequested' \in [Threads -> BOOLEAN]
       /\ Range(unblocked') = Range(unblocked) \cup {t \in Range(waiters) : ~unblockRequested[t]}
       /\ \A t \in Threads : unblockRequested'[t] <=> unblockRequested[t] \/ t \in Range(waiters)
  BY Zenon, <1>3, <1>4, UnblockedAdds
<1>10. panic' \in Panics
  BY Zenon, <1>0, <1>3, CheckedType
<1>11. /\ ipi' \in BOOLEAN /\ timer' \in BOOLEAN /\ (timer' \/ ipi') /\ (ipi => ipi')
  <2>1. Preempts(expired, sleepers, lv) \in BOOLEAN /\ WantsIpi(waiters, lv) \in BOOLEAN
    BY Zenon DEF Preempts, WantsIpi
  <2> QED BY Zenon, <1>0, <1>3, <2>1
<1>12. In(queue') = In(queue) \cup Expired(S, "sleep")
  BY Zenon, <1>4, <1>5 DEF Expired
<1> HIDE DEF Expired
<1> QED BY Zenon, <1>3, <1>4, <1>5, <1>6, <1>7, <1>8, <1>9, <1>10, <1>11, <1>12
----------------------------------------------------------------------------
LEMMA InitQueues ==
    ASSUME Init
    PROVE  /\ queue \in [Levels -> Seq(Threads)]
           /\ In(queue) = {t \in Threads : Initial[t] = "Runnable"}
<1>1. PICK R \in SUBSET Threads : R = {t \in Threads : Initial[t] = "Runnable"}
  BY Zenon
<1>2. IsFiniteSet(R)
  BY Zenon, SchedulerAssumption, FS_Subset
<1> DEFINE first == CHOOSE ts \in Orders(R) : TRUE
<1>3. PICK ts \in Seq(Threads) : ts = first /\ Range(ts) = R
  <2>1. first \in Orders(R)
    BY Zenon, <1>2, OrdersOf
  <2> HIDE DEF first
  <2>2. first \in Seq(R) /\ Range(first) = R
    BY Zenon, <1>2, <2>1, OrdersOf
  <2> QED BY Zenon, <2>2, SeqWithin
<1>4. PICK e : e = [l \in Levels |-> <<>>]
  BY Zenon
<1>5. e \in [Levels -> Seq(Threads)] /\ \A l \in Levels : e[l] = <<>>
  BY <1>4
<1>6. In(e) = {}
  <2>1. Range(<<>>) = {}
    BY DEF Range
  <2> QED BY Zenon, <1>5, <2>1 DEF In
<1>7. queue = Schedule(e, ts, maxLevel) /\ maxLevel \in [Threads -> Levels]
  BY Zenon, <1>1, <1>3, <1>4, SchedulerAssumption DEF Init
<1>8. queue \in [Levels -> Seq(Threads)] /\ In(queue) = In(e) \cup (Range(ts) \cap Threads)
  BY Zenon, <1>5, <1>7, ScheduleAdds
<1> QED BY Zenon, <1>1, <1>3, <1>6, <1>8

LEMMA InitType == Init => TypeOK
<1> SUFFICES ASSUME Init PROVE TypeOK
  OBVIOUS
<1>1. queue \in [Levels -> Seq(Threads)]
  BY Zenon, InitQueues
<1>2. /\ state \in [Threads -> States]
      /\ blockState \in [Threads -> {"None", "Blocking", "Unblocked", "Timeout"}]
      /\ level \in [Threads -> Levels]
      /\ pc \in [Threads -> {"user", "block", "woken", "finish", "created", "resume", "resumed"}]
      /\ target \in [Threads -> Threads \cup {NoThread}]
  BY SchedulerAssumption DEF Init, States
<1>3. {bits, notified, unblockRequested, timed} \subseteq [Threads -> BOOLEAN]
  BY DEF Init
<1>4. /\ unblocked \in Seq(Threads) /\ running \in Threads \cup {NoThread, Idle}
      /\ currentLevel \in 0..kNumLevels /\ deadlines \subseteq Threads \X {"sleep", "wait"}
      /\ {timer, ipi} \subseteq BOOLEAN /\ irql \in {Passive, SchedulerLevel} /\ panic \in Panics
  <2>1. unblocked \in Seq(Threads) /\ deadlines \subseteq Threads \X {"sleep", "wait"}
    BY DEF Init
  <2>2. currentLevel \in 0..kNumLevels
    BY SchedulerAssumption DEF Init
  <2>3. /\ running \in Threads \cup {NoThread, Idle} /\ panic \in Panics
        /\ {timer, ipi} \subseteq BOOLEAN /\ irql \in {Passive, SchedulerLevel}
    BY Zenon DEF Init, Panics
  <2> QED BY Zenon, <2>1, <2>2, <2>3
<1> QED BY Zenon, <1>1, <1>2, <1>3, <1>4 DEF TypeOK

\* TypeOK conjunct by conjunct.
LEMMA TypeParts ==
    TypeOK <=>
    /\ state \in [Threads -> States]
    /\ blockState \in [Threads -> {"None", "Blocking", "Unblocked", "Timeout"}]
    /\ level \in [Threads -> Levels]
    /\ bits \in [Threads -> BOOLEAN] /\ notified \in [Threads -> BOOLEAN]
    /\ unblockRequested \in [Threads -> BOOLEAN] /\ timed \in [Threads -> BOOLEAN]
    /\ pc \in [Threads -> {"user", "block", "woken", "finish", "created", "resume", "resumed"}]
    /\ target \in [Threads -> Threads \cup {NoThread}]
    /\ queue \in [Levels -> Seq(Threads)] /\ unblocked \in Seq(Threads)
    /\ running \in Threads \cup {NoThread, Idle} /\ currentLevel \in 0..kNumLevels
    /\ deadlines \subseteq Threads \X {"sleep", "wait"}
    /\ timer \in BOOLEAN /\ ipi \in BOOLEAN
    /\ irql \in {Passive, SchedulerLevel} /\ panic \in Panics
<1>1. {bits, notified, unblockRequested, timed} \subseteq [Threads -> BOOLEAN] <=>
         /\ bits \in [Threads -> BOOLEAN] /\ notified \in [Threads -> BOOLEAN]
         /\ unblockRequested \in [Threads -> BOOLEAN] /\ timed \in [Threads -> BOOLEAN]
  BY Zenon
<1>2. {timer, ipi} \subseteq BOOLEAN <=> timer \in BOOLEAN /\ ipi \in BOOLEAN
  BY Zenon
<1> QED BY Zenon, <1>1, <1>2 DEF TypeOK

LEMMA TypePartsNext ==
    TypeOK' <=>
    /\ state' \in [Threads -> States]
    /\ blockState' \in [Threads -> {"None", "Blocking", "Unblocked", "Timeout"}]
    /\ level' \in [Threads -> Levels]
    /\ bits' \in [Threads -> BOOLEAN] /\ notified' \in [Threads -> BOOLEAN]
    /\ unblockRequested' \in [Threads -> BOOLEAN] /\ timed' \in [Threads -> BOOLEAN]
    /\ pc' \in [Threads -> {"user", "block", "woken", "finish", "created", "resume", "resumed"}]
    /\ target' \in [Threads -> Threads \cup {NoThread}]
    /\ queue' \in [Levels -> Seq(Threads)] /\ unblocked' \in Seq(Threads)
    /\ running' \in Threads \cup {NoThread, Idle} /\ currentLevel' \in 0..kNumLevels
    /\ deadlines' \subseteq Threads \X {"sleep", "wait"}
    /\ timer' \in BOOLEAN /\ ipi' \in BOOLEAN
    /\ irql' \in {Passive, SchedulerLevel} /\ panic' \in Panics
<1>1. {bits', notified', unblockRequested', timed'} \subseteq [Threads -> BOOLEAN] <=>
         /\ bits' \in [Threads -> BOOLEAN] /\ notified' \in [Threads -> BOOLEAN]
         /\ unblockRequested' \in [Threads -> BOOLEAN] /\ timed' \in [Threads -> BOOLEAN]
  BY Zenon
<1>2. {timer', ipi'} \subseteq BOOLEAN <=> timer' \in BOOLEAN /\ ipi' \in BOOLEAN
  BY Zenon
<1> QED BY Zenon, <1>1, <1>2 DEF TypeOK

LEMMA SetOne ==
    ASSUME NEW D, NEW C, NEW f \in [D -> C], NEW t, NEW v \in C
    PROVE  /\ [f EXCEPT ![t] = v] \in [D -> C]
           /\ \A u \in D : [f EXCEPT ![t] = v][u] = IF u = t THEN v ELSE f[u]
OBVIOUS

\* Every step of the scheduler keeps the state well typed.
LEMMA NextType == TypeOK /\ [Next]_vars => TypeOK'
<1> SUFFICES ASSUME TypeOK, [Next]_vars PROVE TypeOK'
  OBVIOUS
<1>0. /\ state \in [Threads -> States]
      /\ blockState \in [Threads -> {"None", "Blocking", "Unblocked", "Timeout"}]
      /\ level \in [Threads -> Levels]
      /\ bits \in [Threads -> BOOLEAN] /\ notified \in [Threads -> BOOLEAN]
      /\ unblockRequested \in [Threads -> BOOLEAN] /\ timed \in [Threads -> BOOLEAN]
      /\ pc \in [Threads -> {"user", "block", "woken", "finish", "created", "resume", "resumed"}]
      /\ target \in [Threads -> Threads \cup {NoThread}]
      /\ queue \in [Levels -> Seq(Threads)] /\ unblocked \in Seq(Threads)
      /\ running \in Threads \cup {NoThread, Idle} /\ currentLevel \in 0..kNumLevels
      /\ deadlines \subseteq Threads \X {"sleep", "wait"}
      /\ timer \in BOOLEAN /\ ipi \in BOOLEAN
      /\ irql \in {Passive, SchedulerLevel} /\ panic \in Panics
  BY Zenon, TypeParts
<1>a. {"Sleeping", "NotifyWait", "Runnable"} \subseteq States
  BY DEF States, Waiting
<1>b. ASSUME NEW t, NEW to \in {"user", "block", "woken", "finish", "created", "resume", "resumed"}, Goes(t, to)
      PROVE  pc' \in [Threads -> {"user", "block", "woken", "finish", "created", "resume", "resumed"}]
  BY Zenon, <1>0, <1>b, SetOne DEF Goes
<1>c. ASSUME NEW t \in Threads, NEW kind \in {"sleep", "wait"}, AddDeadline(t, kind)
      PROVE  deadlines' \subseteq Threads \X {"sleep", "wait"} /\ timer' \in BOOLEAN
  <2>1. <<t, kind>> \in Threads \X {"sleep", "wait"}
    OBVIOUS
  <2>2. deadlines' \subseteq Threads \X {"sleep", "wait"}
    BY Zenon, <1>0, <1>c, <2>1 DEF AddDeadline
  <2>3. timer' \in BOOLEAN
    BY Zenon, <1>0, <1>c DEF AddDeadline
  <2> QED BY Zenon, <2>2, <2>3
<1>1. CASE Run
  <2>1. Picks(FindRunnable(queue, state), queue, state) /\ In(queue) \subseteq Threads
    BY Zenon, <1>0, FindRunnablePicks, InQueues
  <2>2. /\ queue' \in [Levels -> Seq(Threads)] /\ currentLevel' \in 0..kNumLevels
        /\ running' \in Threads \cup {NoThread, Idle}
    BY Zenon, <1>1, <2>1 DEF Run, SwitchTo, Picks
  <2> QED BY Zenon, <1>0, <1>1, <2>2, TypePartsNext DEF Run, SwitchTo, waitVars, callVars
<1>2. CASE Stopped \/ UNCHANGED vars
  BY Zenon, <1>0, <1>2, TypePartsNext DEF Stopped, vars, waitVars, callVars
<1>3. ASSUME NEW t \in Threads, NEW expired \in BOOLEAN, NEW spent \in BOOLEAN,
             BlockNotifyYields(t, expired, spent)
      PROVE  TypeOK'
  <2>1. /\ Dispatched(state, Back(t, state)) /\ level' \in [Threads -> Levels]
        /\ irql' \in {Passive, SchedulerLevel} /\ panic' \in Panics
    BY Zenon, <1>3, YieldDispatches DEF BlockNotifyYields, Executes
  <2>2. Goes(t, "woken")
    BY Zenon, <1>3 DEF BlockNotifyYields
  <2> QED BY Zenon, <1>0, <1>3, <1>b, <2>1, <2>2, TypePartsNext
          DEF BlockNotifyYields, Dispatched, waitVars
<1>4. ASSUME NEW t \in Threads, BlockNotifyResumes(t) PROVE TypeOK'
  <2>1. Goes(t, "finish") /\ notified' \in [Threads -> BOOLEAN]
    BY Zenon, <1>0, <1>4, SetOne DEF BlockNotifyResumes
  <2> QED BY Zenon, <1>0, <1>4, <1>b, <2>1, TypePartsNext DEF BlockNotifyResumes
<1>5. ASSUME NEW t \in Threads, BlockNotifyFinishes(t) PROVE TypeOK'
  <2>1. Goes(t, "user") /\ bits' \in [Threads -> BOOLEAN]
    BY Zenon, <1>0, <1>5, SetOne DEF BlockNotifyFinishes
  <2>2. /\ deadlines' \subseteq Threads \X {"sleep", "wait"} /\ timer' \in BOOLEAN
        /\ panic' \in Panics
    <3>1. "empty heap" \in Panics
      BY DEF Panics
    <3> QED BY Zenon, <1>0, <1>5, <3>1 DEF BlockNotifyFinishes
  <2> QED BY Zenon, <1>0, <1>5, <1>b, <2>1, <2>2, TypePartsNext DEF BlockNotifyFinishes
<1>6. ASSUME NEW t \in Threads, ResumeSet(t) PROVE TypeOK'
  <2>1. Goes(t, "resumed") /\ state' \in [Threads -> States]
    BY Zenon, <1>0, <1>6, <1>a, SetOne DEF ResumeSet
  <2> QED BY Zenon, <1>0, <1>6, <1>b, <2>1, TypePartsNext DEF ResumeSet, waitVars
<1>7. ASSUME NEW t \in Threads, ResumeQueue(t) PROVE TypeOK'
  <2>1. Goes(t, "user") /\ target' \in [Threads -> Threads \cup {NoThread}]
    BY Zenon, <1>0, <1>7, SetOne DEF ResumeQueue
  <2>2. queue' \in [Levels -> Seq(Threads)]
    <3>1. target[t] \in Threads \cup {NoThread}
      BY Zenon, <1>0
    <3>2. PICK ts \in Seq(Threads \cup {NoThread}) : ts = <<target[t]>>
      BY Zenon, <3>1, Single
    <3> QED BY Zenon, <1>0, <1>7, <3>2, ScheduleAdds DEF ResumeQueue
  <2>3. panic' \in Panics
    BY Zenon, <1>0, <1>7, CheckedType DEF ResumeQueue
  <2> QED BY Zenon, <1>0, <1>7, <1>b, <2>1, <2>2, <2>3, TypePartsNext DEF ResumeQueue, waitVars
<1>8. ASSUME NEW t \in Threads, NEW expired \in BOOLEAN, NEW spent \in BOOLEAN,
             Yield(t, expired, spent)
      PROVE  TypeOK'
  <2>1. /\ Dispatched(state, Back(t, state)) /\ level' \in [Threads -> Levels]
        /\ irql' \in {Passive, SchedulerLevel} /\ panic' \in Panics
    BY Zenon, <1>8, YieldDispatches DEF Yield, Executes
  <2> QED BY Zenon, <1>0, <1>8, <2>1, TypePartsNext DEF Yield, Dispatched, waitVars, callVars
<1>9. ASSUME NEW t \in Threads, NEW expired \in BOOLEAN, NEW spent \in BOOLEAN,
             Sleep(t, expired, spent)
      PROVE  TypeOK'
  <2>1. /\ Dispatched(state', Back(t, state')) /\ level' \in [Threads -> Levels]
        /\ irql' \in {Passive, SchedulerLevel} /\ panic' \in Panics
    BY Zenon, <1>9, YieldDispatches DEF Sleep, Executes
  <2>2. state' \in [Threads -> States]
    BY Zenon, <1>0, <1>9, <1>a, SetOne DEF Sleep
  <2>3. deadlines' \subseteq Threads \X {"sleep", "wait"} /\ timer' \in BOOLEAN
    BY Zenon, <1>9, <1>c DEF Sleep
  <2> QED BY Zenon, <1>0, <1>9, <2>1, <2>2, <2>3, TypePartsNext
          DEF Sleep, Dispatched, waitVars, callVars
<1>10. ASSUME NEW t \in Threads, BlockNotifyReturns(t) PROVE TypeOK'
  <2>1. bits' \in [Threads -> BOOLEAN]
    BY Zenon, <1>0, <1>10, SetOne DEF BlockNotifyReturns
  <2> QED BY Zenon, <1>0, <1>10, <2>1, TypePartsNext DEF BlockNotifyReturns, callVars
<1>11. ASSUME NEW t \in Threads, NEW withDeadline \in BOOLEAN, BlockNotifyWaits(t, withDeadline)
       PROVE  TypeOK'
  <2>1. Goes(t, "block") /\ timed' \in [Threads -> BOOLEAN] /\ state' \in [Threads -> States]
    BY Zenon, <1>0, <1>11, <1>a, SetOne DEF BlockNotifyWaits
  <2>2. blockState' \in [Threads -> {"None", "Blocking", "Unblocked", "Timeout"}]
    BY Zenon, <1>0, <1>11, SetOne DEF BlockNotifyWaits
  <2>3. deadlines' \subseteq Threads \X {"sleep", "wait"} /\ timer' \in BOOLEAN
    BY Zenon, <1>0, <1>11, <1>c DEF BlockNotifyWaits
  <2> QED BY Zenon, <1>0, <1>11, <1>b, <2>1, <2>2, <2>3, TypePartsNext DEF BlockNotifyWaits
<1>12. ASSUME NEW r \in Threads, NEW t \in Threads, CreateSet(r, t) PROVE TypeOK'
  <2>1. /\ Goes(r, "created") /\ state' \in [Threads -> States]
        /\ target' \in [Threads -> Threads \cup {NoThread}]
    BY Zenon, <1>0, <1>12, <1>a, SetOne DEF CreateSet
  <2> QED BY Zenon, <1>0, <1>12, <1>b, <2>1, TypePartsNext DEF CreateSet, waitVars
<1>13. ASSUME NEW r \in Threads, NEW t \in Threads, ResumeTest(r, t) PROVE TypeOK'
  <2>1. Goes(r, "resume") /\ target' \in [Threads -> Threads \cup {NoThread}]
    BY Zenon, <1>0, <1>13, SetOne DEF ResumeTest
  <2> QED BY Zenon, <1>0, <1>13, <1>b, <2>1, TypePartsNext DEF ResumeTest, waitVars
<1>14. ASSUME NEW t \in Threads, Notify(t) PROVE TypeOK'
  <2>1. bits' \in [Threads -> BOOLEAN]
    BY Zenon, <1>0, <1>14, SetOne DEF Notify
  <2>2. CASE state[t] = "NotifyWait" /\ ~notified[t]
    <3>1. /\ notified' = [notified EXCEPT ![t] = TRUE]
          /\ blockState' = [blockState EXCEPT ![t] = "Unblocked"]
          /\ ThreadUnblocked(<<t>>) /\ Checked(NotWaiting(<<t>>), queue)
          /\ ipi' = (ipi \/ WantsIpi(<<t>>, level))
      BY Zenon, <1>14, <2>2 DEF Notify
    <3>2. unblocked' \in Seq(Threads) /\ unblockRequested' \in [Threads -> BOOLEAN]
      BY Zenon, <3>1, Single, UnblockedAdds
    <3>3. /\ notified' \in [Threads -> BOOLEAN]
          /\ blockState' \in [Threads -> {"None", "Blocking", "Unblocked", "Timeout"}]
      BY Zenon, <1>0, <3>1, SetOne
    <3>4. panic' \in Panics /\ ipi' \in BOOLEAN
      BY Zenon, <1>0, <3>1, CheckedType DEF WantsIpi
    <3> QED BY Zenon, <1>0, <1>14, <2>1, <3>2, <3>3, <3>4, TypePartsNext DEF Notify, callVars
  <2>3. CASE ~ (state[t] = "NotifyWait" /\ ~notified[t])
    BY Zenon, <1>0, <1>14, <2>1, <2>3, TypePartsNext DEF Notify, callVars
  <2> QED BY Zenon, <2>2, <2>3
<1>15. ASSUME NEW expired \in BOOLEAN, NEW S \in SUBSET deadlines, TimerFired(expired, S)
       PROVE  TypeOK'
  <2>1. /\ level' \in [Threads -> Levels] /\ queue' \in [Levels -> Seq(Threads)]
        /\ state' \in [Threads -> States]
        /\ blockState' \in [Threads -> {"None", "Blocking", "Unblocked", "Timeout"}]
        /\ unblocked' \in Seq(Threads) /\ unblockRequested' \in [Threads -> BOOLEAN]
        /\ panic' \in Panics /\ ipi' \in BOOLEAN /\ timer' \in BOOLEAN
    BY Zenon, <1>15, TimerEffect
  <2>2. deadlines' \subseteq Threads \X {"sleep", "wait"}
    BY Zenon, <1>0, <1>15 DEF TimerFired
  <2> QED BY Zenon, <1>0, <1>15, <2>1, <2>2, TypePartsNext DEF TimerFired, callVars
<1>16. ASSUME NEW spent \in BOOLEAN, HandleIpi(spent) PROVE TypeOK'
  <2>1. /\ state' \in [Threads -> States] /\ level' \in [Threads -> Levels] /\ panic' \in Panics
        /\ unblockRequested' \in [Threads -> BOOLEAN]
        /\ Dispatched(state', Ready \cup Back(running, state'))
    BY Zenon, <1>16, IpiDispatches
  <2>2. unblocked' \in Seq(Threads) /\ ipi' \in BOOLEAN /\ timer' \in BOOLEAN
    BY Zenon, <1>16, Empty DEF HandleIpi
  <2> QED BY Zenon, <1>0, <1>16, <2>1, <2>2, TypePartsNext
          DEF HandleIpi, Dispatched, SwitchTo, callVars
<1>17. ASSUME NEW t \in Threads, CreateQueue(t) PROVE TypeOK'
  <2>1. Goes(t, "user") /\ target' \in [Threads -> Threads \cup {NoThread}]
    BY Zenon, <1>0, <1>17, SetOne DEF CreateQueue
  <2>2. queue' \in [Levels -> Seq(Threads)]
    <3>1. target[t] \in Threads \cup {NoThread}
      BY Zenon, <1>0
    <3>2. PICK ts \in Seq(Threads \cup {NoThread}) : ts = <<target[t]>>
      BY Zenon, <3>1, Single
    <3> QED BY Zenon, <1>0, <1>17, <3>2, ScheduleAdds DEF CreateQueue
  <2>3. panic' \in Panics /\ ipi' \in BOOLEAN
    BY Zenon, <1>0, <1>17, CheckedType DEF CreateQueue
  <2> QED BY Zenon, <1>0, <1>17, <1>b, <2>1, <2>2, <2>3, TypePartsNext DEF CreateQueue, waitVars
<1> QED BY Zenon, <1>1, <1>2, <1>3, <1>4, <1>5, <1>6, <1>7, <1>8, <1>9, <1>10, <1>11, <1>12,
           <1>13, <1>14, <1>15, <1>16, <1>17 DEF Next, ThreadStep, ThreadCall
----------------------------------------------------------------------------
LEMMA QueuedIsIn == \A t : (Queued(t) <=> t \in In(queue)) /\ (Queued(t)' <=> t \in In(queue'))
BY Zenon DEF Queued, In

Resumed(t) == \E r \in Threads : pc[r] \in {"created", "resumed"} /\ target[r] = t

\* Where a runnable thread is, before and after a step.
LEMMA RunnableHeld ==
    ASSUME TypeOK
    PROVE  RunnableIsQueued <=>
              (panic = "none" => \A t \in Threads : state[t] = "Runnable" =>
                                     running = t \/ t \in In(queue) \/ Resumed(t))
BY Zenon, QueuedIsIn DEF RunnableIsQueued, Resumed

LEMMA RunnableHeldNext ==
    ASSUME TypeOK'
    PROVE  RunnableIsQueued' <=>
              (panic' = "none" => \A t \in Threads : state'[t] = "Runnable" =>
                                      running' = t \/ t \in In(queue') \/ Resumed(t)')
BY Zenon, QueuedIsIn DEF RunnableIsQueued, Resumed

\* No step loses a runnable thread.
LEMMA NextRunnable == RunnableIsQueued /\ [Next]_vars => RunnableIsQueued'
<1> SUFFICES ASSUME RunnableIsQueued, [Next]_vars PROVE RunnableIsQueued'
  OBVIOUS
<1>0. TypeOK /\ TypeOK'
  BY Zenon, NextType DEF RunnableIsQueued
<1> SUFFICES ASSUME panic' = "none", NEW u \in Threads, state'[u] = "Runnable"
             PROVE  running' = u \/ u \in In(queue') \/ Resumed(u)'
  BY Zenon, <1>0, RunnableHeldNext
<1>a. panic = "none" /\ state[u] = "Runnable" => running = u \/ u \in In(queue) \/ Resumed(u)
  BY Zenon, <1>0, RunnableHeld
<1>b. /\ state \in [Threads -> States] /\ queue \in [Levels -> Seq(Threads)]
      /\ pc \in [Threads -> {"user", "block", "woken", "finish", "created", "resume", "resumed"}]
      /\ target \in [Threads -> Threads \cup {NoThread}] /\ level \in [Threads -> Levels]
  BY Zenon, <1>0, TypeParts
<1>c. UNCHANGED <<pc, target>> /\ Resumed(u) => Resumed(u)'
  BY Zenon DEF Resumed
<1>d. ASSUME NEW t, NEW to, Goes(t, to), pc[t] \notin {"created", "resumed"}, UNCHANGED target, Resumed(u)
      PROVE  Resumed(u)'
  <2>1. PICK r \in Threads : pc[r] \in {"created", "resumed"} /\ target[r] = u
    BY Zenon, <1>d DEF Resumed
  <2>2. pc'[r] \in {"created", "resumed"} /\ target'[r] = u
    BY <1>b, <1>d, <2>1 DEF Goes
  <2> QED BY Zenon, <2>2 DEF Resumed
<1>e. ASSUME NEW A, Dispatched(state', A), u \in A \/ u \in In(queue)
      PROVE  running' = u \/ u \in In(queue')
  BY Zenon, <1>e DEF Dispatched
<1>1. CASE Run
  <2>1. Picks(FindRunnable(queue, state), queue, state)
    BY Zenon, <1>b, FindRunnablePicks
  <2>2. state[u] = "Runnable" /\ panic = "none" /\ running # u
    BY Zenon, <1>1, SchedulerAssumption DEF Run
  <2>3. u \in In(queue) => running' = u \/ u \in In(queue')
    BY Zenon, <1>1, <2>1, <2>2 DEF Run, SwitchTo, Picks
  <2> QED BY Zenon, <1>1, <1>a, <1>c, <2>2, <2>3 DEF Run, callVars
<1>2. CASE Stopped \/ UNCHANGED vars
  BY Zenon, <1>2, <1>a, <1>c DEF Stopped, vars, callVars
<1>3. ASSUME NEW t \in Threads, NEW expired \in BOOLEAN, NEW spent \in BOOLEAN,
             BlockNotifyYields(t, expired, spent)
      PROVE  running' = u \/ u \in In(queue') \/ Resumed(u)'
  <2>1. state' = state /\ running = t /\ panic = "none" /\ pc[t] = "block" /\ target' = target
        /\ Goes(t, "woken")
    BY Zenon, <1>3 DEF BlockNotifyYields, Executes
  <2>2. Dispatched(state', Back(t, state'))
    BY Zenon, <1>0, <1>3, <2>1, YieldDispatches DEF BlockNotifyYields
  <2>3. running = u => u \in Back(t, state')
    BY Zenon, <2>1 DEF Back
  <2>4. "block" \notin {"created", "resumed"}
    OBVIOUS
  <2> QED BY Zenon, <1>a, <1>d, <1>e, <2>1, <2>2, <2>3, <2>4
<1>4. ASSUME NEW t \in Threads, BlockNotifyResumes(t)
      PROVE  running' = u \/ u \in In(queue') \/ Resumed(u)'
  <2>1. "woken" \notin {"created", "resumed"}
    OBVIOUS
  <2> QED BY Zenon, <1>4, <1>a, <1>d, <2>1 DEF BlockNotifyResumes, Executes
<1>5. ASSUME NEW t \in Threads, BlockNotifyFinishes(t)
      PROVE  running' = u \/ u \in In(queue') \/ Resumed(u)'
  <2>1. "finish" \notin {"created", "resumed"}
    OBVIOUS
  <2> QED BY Zenon, <1>5, <1>a, <1>d, <2>1 DEF BlockNotifyFinishes, Executes
<1>6. ASSUME NEW t \in Threads, ResumeSet(t)
      PROVE  running' = u \/ u \in In(queue') \/ Resumed(u)'
  <2>1. "resume" \notin {"created", "resumed"}
    OBVIOUS
  <2>2. CASE u = target[t]
    <3>1. pc'[t] \in {"created", "resumed"} /\ target'[t] = u
      BY <1>6, <1>b, <2>2 DEF ResumeSet, Goes
    <3> QED BY Zenon, <3>1 DEF Resumed
  <2>3. CASE u # target[t]
    <3>1. state[u] = "Runnable"
      BY <1>6, <1>b, <2>3 DEF ResumeSet
    <3> QED BY Zenon, <1>6, <1>a, <1>d, <2>1, <3>1 DEF ResumeSet, Executes
  <2> QED BY Zenon, <2>2, <2>3
<1>7. ASSUME NEW t \in Threads, ResumeQueue(t)
      PROVE  running' = u \/ u \in In(queue') \/ Resumed(u)'
  <2>1. PICK ts \in Seq(Threads \cup {NoThread}) : ts = <<target[t]>> /\ Range(ts) = {target[t]}
    BY Zenon, <1>b, Single
  <2>2. In(queue') = In(queue) \cup (Range(ts) \cap Threads)
    BY Zenon, <1>7, <1>b, <2>1, ScheduleAdds DEF ResumeQueue
  <2>3. CASE u = target[t]
    BY Zenon, <2>1, <2>2, <2>3
  <2>4. CASE u # target[t] /\ Resumed(u)
    <3>1. PICK r \in Threads : pc[r] \in {"created", "resumed"} /\ target[r] = u
      BY Zenon, <2>4 DEF Resumed
    <3>2. pc'[r] \in {"created", "resumed"} /\ target'[r] = u
      BY <1>7, <1>b, <2>4, <3>1 DEF ResumeQueue, Goes
    <3> QED BY Zenon, <3>2 DEF Resumed
  <2> QED BY Zenon, <1>7, <1>a, <2>2, <2>3, <2>4 DEF ResumeQueue, Executes
<1>8. ASSUME NEW t \in Threads, NEW expired \in BOOLEAN, NEW spent \in BOOLEAN,
             Yield(t, expired, spent)
      PROVE  running' = u \/ u \in In(queue') \/ Resumed(u)'
  <2>1. state' = state /\ running = t /\ panic = "none" /\ UNCHANGED <<pc, target>>
    BY Zenon, <1>8 DEF Yield, Executes, callVars
  <2>2. Dispatched(state', Back(t, state'))
    BY Zenon, <1>0, <1>8, <2>1, YieldDispatches DEF Yield
  <2>3. running = u => u \in Back(t, state')
    BY Zenon, <2>1 DEF Back
  <2> QED BY Zenon, <1>a, <1>c, <1>e, <2>1, <2>2, <2>3
<1>9. ASSUME NEW t \in Threads, NEW expired \in BOOLEAN, NEW spent \in BOOLEAN,
             Sleep(t, expired, spent)
      PROVE  running' = u \/ u \in In(queue') \/ Resumed(u)'
  <2>1. running = t /\ panic = "none" /\ UNCHANGED <<pc, target>>
    BY Zenon, <1>9 DEF Sleep, Executes, callVars
  <2>2. Dispatched(state', Back(t, state'))
    BY Zenon, <1>0, <1>9, <2>1, YieldDispatches DEF Sleep
  <2>3. u # t /\ state[u] = "Runnable"
    <3>1. state' = [state EXCEPT ![t] = "Sleeping"]
      BY Zenon, <1>9 DEF Sleep
    <3> QED BY <1>b, <3>1
  <2> QED BY Zenon, <1>a, <1>c, <1>e, <2>1, <2>2, <2>3
<1>10. ASSUME NEW t \in Threads, BlockNotifyReturns(t)
       PROVE  running' = u \/ u \in In(queue') \/ Resumed(u)'
  BY Zenon, <1>10, <1>a, <1>c DEF BlockNotifyReturns, Executes, callVars
<1>11. ASSUME NEW t \in Threads, NEW withDeadline \in BOOLEAN, BlockNotifyWaits(t, withDeadline)
       PROVE  running' = u \/ u \in In(queue') \/ Resumed(u)'
  <2>1. state[u] = "Runnable"
    <3>1. state' = [state EXCEPT ![t] = "NotifyWait"]
      BY Zenon, <1>11 DEF BlockNotifyWaits
    <3> QED BY <1>b, <3>1
  <2>2. "user" \notin {"created", "resumed"}
    OBVIOUS
  <2> QED BY Zenon, <1>11, <1>a, <1>d, <2>1, <2>2 DEF BlockNotifyWaits, Executes
<1>12. ASSUME NEW r \in Threads, NEW t \in Threads, CreateSet(r, t)
       PROVE  running' = u \/ u \in In(queue') \/ Resumed(u)'
  <2>1. CASE u = t
    <3>1. pc'[r] \in {"created", "resumed"} /\ target'[r] = u
      BY <1>12, <1>b, <2>1 DEF CreateSet, Goes
    <3> QED BY Zenon, <3>1 DEF Resumed
  <2>2. CASE u # t
    <3>1. state[u] = "Runnable"
      BY <1>12, <1>b, <2>2 DEF CreateSet
    <3>2. ASSUME Resumed(u) PROVE Resumed(u)'
      <4>1. PICK w \in Threads : pc[w] \in {"created", "resumed"} /\ target[w] = u
        BY Zenon, <3>2 DEF Resumed
      <4>2. pc'[w] \in {"created", "resumed"} /\ target'[w] = u
        BY <1>12, <1>b, <4>1 DEF CreateSet, Goes, Executes
      <4> QED BY Zenon, <4>2 DEF Resumed
    <3> QED BY Zenon, <1>12, <1>a, <3>1, <3>2 DEF CreateSet, Executes
  <2> QED BY Zenon, <2>1, <2>2
<1>13. ASSUME NEW r \in Threads, NEW t \in Threads, ResumeTest(r, t)
       PROVE  running' = u \/ u \in In(queue') \/ Resumed(u)'
  <2>1. ASSUME Resumed(u) PROVE Resumed(u)'
    <3>1. PICK w \in Threads : pc[w] \in {"created", "resumed"} /\ target[w] = u
      BY Zenon, <2>1 DEF Resumed
    <3>2. pc'[w] \in {"created", "resumed"} /\ target'[w] = u
      BY <1>13, <1>b, <3>1 DEF ResumeTest, Goes, Executes
    <3> QED BY Zenon, <3>2 DEF Resumed
  <2> QED BY Zenon, <1>13, <1>a, <2>1 DEF ResumeTest, Executes
<1>14. ASSUME NEW t \in Threads, Notify(t)
       PROVE  running' = u \/ u \in In(queue') \/ Resumed(u)'
  BY Zenon, <1>14, <1>a, <1>c DEF Notify, callVars
<1>15. ASSUME NEW expired \in BOOLEAN, NEW S \in SUBSET deadlines, TimerFired(expired, S)
       PROVE  running' = u \/ u \in In(queue') \/ Resumed(u)'
  <2>1. /\ In(queue') = In(queue) \cup Expired(S, "sleep")
        /\ state'[u] = IF u \in Expired(S, "sleep") THEN "Runnable" ELSE state[u]
    BY Zenon, <1>0, <1>15, TimerEffect
  <2> QED BY Zenon, <1>15, <1>a, <1>c, <2>1 DEF TimerFired, callVars
<1>16. ASSUME NEW spent \in BOOLEAN, HandleIpi(spent)
       PROVE  running' = u \/ u \in In(queue') \/ Resumed(u)'
  <2>1. Woken(state') /\ Dispatched(state', Ready \cup Back(running, state'))
    BY Zenon, <1>0, <1>16, IpiDispatches
  <2>2. u \in Ready \/ state[u] = "Runnable"
    BY Zenon, <2>1 DEF Woken
  <2>3. running = u => u \in Back(running, state')
    BY Zenon DEF Back
  <2>4. panic = "none" /\ UNCHANGED <<pc, target>>
    BY Zenon, <1>16 DEF HandleIpi, callVars
  <2>5. u \in Ready \cup Back(running, state') \/ u \in In(queue) \/ Resumed(u)
    BY Zenon, <1>a, <2>2, <2>3, <2>4
  <2> QED BY Zenon, <1>c, <1>e, <2>1, <2>4, <2>5
<1>17. ASSUME NEW t \in Threads, CreateQueue(t)
       PROVE  running' = u \/ u \in In(queue') \/ Resumed(u)'
  <2>1. PICK ts \in Seq(Threads \cup {NoThread}) : ts = <<target[t]>> /\ Range(ts) = {target[t]}
    BY Zenon, <1>b, Single
  <2>2. In(queue') = In(queue) \cup (Range(ts) \cap Threads)
    BY Zenon, <1>17, <1>b, <2>1, ScheduleAdds DEF CreateQueue
  <2>3. CASE u = target[t]
    BY Zenon, <2>1, <2>2, <2>3
  <2>4. CASE u # target[t] /\ Resumed(u)
    <3>1. PICK r \in Threads : pc[r] \in {"created", "resumed"} /\ target[r] = u
      BY Zenon, <2>4 DEF Resumed
    <3>2. pc'[r] \in {"created", "resumed"} /\ target'[r] = u
      BY <1>17, <1>b, <2>4, <3>1 DEF CreateQueue, Goes
    <3> QED BY Zenon, <3>2 DEF Resumed
  <2> QED BY Zenon, <1>17, <1>a, <2>2, <2>3, <2>4 DEF CreateQueue, Executes
<1> QED BY Zenon, <1>1, <1>2, <1>3, <1>4, <1>5, <1>6, <1>7, <1>8, <1>9, <1>10, <1>11, <1>12,
           <1>13, <1>14, <1>15, <1>16, <1>17 DEF Next, ThreadStep, ThreadCall

LEMMA InitRunnable == Init => RunnableIsQueued
<1> SUFFICES ASSUME Init PROVE RunnableIsQueued
  OBVIOUS
<1>1. TypeOK /\ state = Initial
  BY Zenon, InitType DEF Init
<1>2. In(queue) = {t \in Threads : Initial[t] = "Runnable"}
  BY Zenon, InitQueues
<1>3. \A t \in Threads : state[t] = "Runnable" => t \in In(queue)
  BY Zenon, <1>1, <1>2
<1> QED BY Zenon, <1>1, <1>3, RunnableHeld

\* The scheduler never loses a runnable thread: in every reachable state it runs, is
\* queued, or is about to be queued by the thread that started or resumed it, however yield(),
\* sleep(), blockNotify(), the timer and the IPI interleave.
THEOREM RunnablesQueued == Spec => []RunnableIsQueued
<1>1. Init => RunnableIsQueued
  BY InitRunnable
<1>2. RunnableIsQueued /\ [Next]_vars => RunnableIsQueued'
  BY NextRunnable
<1> QED BY <1>1, <1>2, PTL DEF Spec
----------------------------------------------------------------------------
\* No step leaves the core with neither timer nor IPI.
LEMMA NextInterrupt == TypeOK /\ InterruptAhead /\ [Next]_vars => InterruptAhead'
<1> SUFFICES ASSUME TypeOK, InterruptAhead, [Next]_vars, panic' = "none", running' # NoThread
             PROVE  timer' \/ ipi'
  BY Zenon DEF InterruptAhead
<1>a. panic = "none" /\ running # NoThread => timer \/ ipi
  BY Zenon DEF InterruptAhead
<1>b. timer \in BOOLEAN /\ ipi \in BOOLEAN
  BY Zenon, TypeParts
<1>c. \A t \in Threads : t # NoThread
  BY Zenon, SchedulerAssumption
<1>d. ASSUME NEW t \in Threads, NEW at, Executes(t, at)
      PROVE  timer \/ ipi
  BY Zenon, <1>a, <1>c, <1>d DEF Executes
<1>e. ASSUME NEW t, NEW kind, AddDeadline(t, kind), timer \/ ipi, ipi' = ipi PROVE timer' \/ ipi'
  BY Zenon, <1>e DEF AddDeadline
<1>1. CASE Run
  BY Zenon, <1>1 DEF Run
<1>2. CASE Stopped \/ UNCHANGED vars
  <2>1. UNCHANGED <<timer, ipi, panic, running>>
    BY Zenon, <1>2 DEF Stopped, vars
  <2> QED BY Zenon, <1>a, <2>1
<1>3. ASSUME NEW t \in Threads, ThreadStep(t) PROVE timer' \/ ipi'
  <2>1. ASSUME NEW expired \in BOOLEAN, NEW spent \in BOOLEAN, BlockNotifyYields(t, expired, spent)
        PROVE  timer' \/ ipi'
    BY Zenon, <1>d, <2>1 DEF BlockNotifyYields
  <2>2. CASE BlockNotifyResumes(t)
    BY Zenon, <1>d, <2>2 DEF BlockNotifyResumes
  <2>3. CASE BlockNotifyFinishes(t)
    <3>1. (timer' = timer \/ timer' = TRUE) /\ ipi' = ipi /\ Executes(t, "finish")
      BY Zenon, <2>3 DEF BlockNotifyFinishes
    <3>2. timer \/ ipi
      BY Zenon, <1>d, <3>1
    <3>3. CASE timer' = timer
      BY Zenon, <3>1, <3>2, <3>3
    <3> QED BY Zenon, <3>1, <3>3
  <2>4. CASE ResumeSet(t)
    BY Zenon, <1>d, <2>4 DEF ResumeSet
  <2>5. CASE ResumeQueue(t)
    BY Zenon, <1>d, <2>5 DEF ResumeQueue
  <2>6. CASE CreateQueue(t)
    BY Zenon, <1>d, <2>6 DEF CreateQueue
  <2> QED BY Zenon, <1>3, <2>1, <2>2, <2>3, <2>4, <2>5, <2>6 DEF ThreadStep
<1>4. ASSUME NEW t \in Threads, ThreadCall(t) PROVE timer' \/ ipi'
  <2>1. ASSUME NEW expired \in BOOLEAN, NEW spent \in BOOLEAN, Yield(t, expired, spent)
        PROVE  timer' \/ ipi'
    BY Zenon, <1>d, <2>1 DEF Yield
  <2>2. ASSUME NEW expired \in BOOLEAN, NEW spent \in BOOLEAN, Sleep(t, expired, spent)
        PROVE  timer' \/ ipi'
    BY Zenon, <1>d, <1>e, <2>2 DEF Sleep
  <2>3. CASE BlockNotifyReturns(t)
    BY Zenon, <1>d, <2>3 DEF BlockNotifyReturns
  <2>4. ASSUME NEW withDeadline \in BOOLEAN, BlockNotifyWaits(t, withDeadline)
        PROVE  timer' \/ ipi'
    <3>1. (timer' = timer \/ AddDeadline(t, "wait")) /\ ipi' = ipi /\ Executes(t, "user")
      BY Zenon, <2>4 DEF BlockNotifyWaits
    <3>2. timer \/ ipi
      BY Zenon, <1>d, <3>1
    <3>3. CASE timer' = timer
      BY Zenon, <3>1, <3>2, <3>3
    <3> QED BY Zenon, <1>e, <3>1, <3>2, <3>3
  <2>5. ASSUME NEW u \in Threads, CreateSet(t, u) PROVE timer' \/ ipi'
    BY Zenon, <1>d, <2>5 DEF CreateSet
  <2>6. ASSUME NEW u \in Threads, ResumeTest(t, u) PROVE timer' \/ ipi'
    BY Zenon, <1>d, <2>6 DEF ResumeTest
  <2> QED BY Zenon, <1>4, <2>1, <2>2, <2>3, <2>4, <2>5, <2>6 DEF ThreadCall
<1>5. ASSUME NEW t \in Threads, Notify(t) PROVE timer' \/ ipi'
  BY Zenon, <1>5, <1>a DEF Notify
<1>6. ASSUME NEW expired \in BOOLEAN, NEW S \in SUBSET deadlines, TimerFired(expired, S)
      PROVE  timer' \/ ipi'
  BY Zenon, <1>6, TimerEffect
<1>7. ASSUME NEW spent \in BOOLEAN, HandleIpi(spent) PROVE timer' \/ ipi'
  BY Zenon, <1>7 DEF HandleIpi
<1> QED BY Zenon, <1>1, <1>2, <1>3, <1>4, <1>5, <1>6, <1>7 DEF Next

\* Once run() has been called the timer is armed or an IPI is pending, in every
\* reachable state: timerFired() and handleIpi() hand the duty to each other and no
\* call drops it.
THEOREM InterruptsAhead == Spec => []InterruptAhead
<1>1. Init => TypeOK /\ InterruptAhead
  BY Zenon, InitType DEF Init, InterruptAhead
<1>2. TypeOK /\ InterruptAhead /\ [Next]_vars => (TypeOK /\ InterruptAhead)'
  BY Zenon, NextType, NextInterrupt
<1> QED BY <1>1, <1>2, PTL DEF Spec
----------------------------------------------------------------------------
LEMMA InitWait == Init => WaitInv
<1> SUFFICES ASSUME Init PROVE WaitInv
  OBVIOUS
<1>1. TypeOK
  BY Zenon, InitType
<1>2. ASSUME NEW t \in Threads PROVE Marked(t) /\ InWait(t) /\ Leaving(t) /\ RunsRunnable(t)
  <2>1. ~unblockRequested[t] /\ ~notified[t] /\ ~bits[t] /\ state[t] = Initial[t] /\ running # t
    BY Zenon, SchedulerAssumption DEF Init
  <2>2. state[t] # "NotifyWait"
    BY <2>1, SchedulerAssumption
  <2> QED BY Zenon, <2>1, <2>2 DEF Marked, InWait, Leaving, RunsRunnable
<1> QED BY Zenon, <1>1, <1>2 DEF WaitInv

\* A thread is not marked and forgotten, does not leave blockNotify() while it
\* waits, and once notified stays on its way out.
LEMMA NextWait == WaitInv /\ [Next]_vars => WaitInv'
<1> SUFFICES ASSUME WaitInv, [Next]_vars PROVE WaitInv'
  OBVIOUS
<1>0. TypeOK /\ TypeOK'
  BY Zenon, NextType DEF WaitInv
<1> SUFFICES ASSUME NEW u \in Threads
             PROVE  Marked(u)' /\ InWait(u)' /\ Leaving(u)' /\ RunsRunnable(u)'
  BY Zenon, <1>0 DEF WaitInv
<1> DEFINE G == Marked(u)' /\ InWait(u)' /\ Leaving(u)' /\ RunsRunnable(u)'
<1>a. /\ unblockRequested[u] => u \in Range(unblocked)
      /\ state[u] = "NotifyWait" \/ notified[u] => pc[u] \in {"block", "woken"}
      /\ state[u] = "NotifyWait" /\ (bits[u] \/ notified[u]) =>
             u \in Range(unblocked) /\ blockState[u] # "Blocking"
      /\ running = u => state[u] = "Runnable" \/ pc[u] = "block"
  BY Zenon DEF WaitInv, Marked, InWait, Leaving, RunsRunnable
<1>b. /\ state \in [Threads -> States] /\ queue \in [Levels -> Seq(Threads)]
      /\ blockState \in [Threads -> {"None", "Blocking", "Unblocked", "Timeout"}]
      /\ bits \in [Threads -> BOOLEAN] /\ notified \in [Threads -> BOOLEAN]
      /\ pc \in [Threads -> {"user", "block", "woken", "finish", "created", "resume", "resumed"}]
  BY Zenon, <1>0, TypeParts
<1>c. ASSUME NEW t, NEW to, Goes(t, to) PROVE pc'[u] = IF u = t THEN to ELSE pc[u]
  BY <1>b, <1>c DEF Goes
\* a step that leaves the notifications alone and makes nobody wait
<1>d. ASSUME UNCHANGED waitVars, pc'[u] = pc[u] \/ pc[u] \notin {"block", "woken"},
             state'[u] = state[u] \/ state'[u] # "NotifyWait",
             running' = u => state'[u] = "Runnable" \/ pc'[u] = "block"
      PROVE  G
  <2>1. /\ unblockRequested'[u] = unblockRequested[u] /\ notified'[u] = notified[u]
        /\ bits'[u] = bits[u] /\ blockState'[u] = blockState[u] /\ unblocked' = unblocked
    BY Zenon, <1>d DEF waitVars
  <2>2. Marked(u)' /\ Leaving(u)' /\ RunsRunnable(u)'
    BY Zenon, <1>a, <1>d, <2>1 DEF Marked, Leaving, RunsRunnable
  <2>3. InWait(u)'
    BY Zenon, <1>a, <1>d, <2>1 DEF InWait
  <2> QED BY Zenon, <2>2, <2>3
<1>e. ASSUME NEW A, Dispatched(state', A), running' = u PROVE state'[u] = "Runnable"
  BY Zenon, <1>e DEF Dispatched
<1>1. CASE Run
  <2>1. Picks(FindRunnable(queue, state), queue, state)
    BY Zenon, <1>b, FindRunnablePicks
  <2>2. running' = u => state'[u] = "Runnable"
    BY Zenon, <1>1, <2>1 DEF Run, SwitchTo, Picks
  <2> QED BY Zenon, <1>1, <1>d, <2>2 DEF Run, callVars
<1>2. CASE Stopped \/ UNCHANGED vars
  <2>1. UNCHANGED <<waitVars, callVars, state, running>>
    BY Zenon, <1>2 DEF Stopped, vars
  <2> QED BY Zenon, <1>a, <1>d, <2>1 DEF callVars
<1>3. ASSUME NEW t \in Threads, NEW expired \in BOOLEAN, NEW spent \in BOOLEAN,
             BlockNotifyYields(t, expired, spent)
      PROVE  G
  <2>1. state' = state /\ running = t /\ pc[t] = "block" /\ Goes(t, "woken") /\ UNCHANGED waitVars
    BY Zenon, <1>3 DEF BlockNotifyYields, Executes
  <2>2. Dispatched(state', Back(t, state'))
    BY Zenon, <1>0, <1>3, <2>1, YieldDispatches DEF BlockNotifyYields
  <2>3. pc'[u] = IF u = t THEN "woken" ELSE pc[u]
    BY Zenon, <1>c, <2>1
  <2>4. /\ unblockRequested'[u] = unblockRequested[u] /\ notified'[u] = notified[u]
        /\ bits'[u] = bits[u] /\ blockState'[u] = blockState[u] /\ unblocked' = unblocked
    BY Zenon, <2>1 DEF waitVars
  <2>5. Marked(u)' /\ Leaving(u)'
    BY Zenon, <1>a, <2>1, <2>4 DEF Marked, Leaving
  <2>6. InWait(u)'
    BY Zenon, <1>a, <2>1, <2>3, <2>4 DEF InWait
  <2>7. RunsRunnable(u)'
    BY Zenon, <1>e, <2>2 DEF RunsRunnable
  <2> QED BY Zenon, <2>5, <2>6, <2>7
<1>4. ASSUME NEW t \in Threads, BlockNotifyResumes(t) PROVE G
  <2>1. /\ state' = state /\ running' = running /\ running = t /\ pc[t] = "woken"
        /\ notified' = [notified EXCEPT ![t] = FALSE]
        /\ UNCHANGED <<blockState, bits, unblockRequested, unblocked>>
        /\ pc'[u] = IF u = t THEN "finish" ELSE pc[u]
    BY Zenon, <1>4, <1>c DEF BlockNotifyResumes, Executes
  <2>2. notified'[u] = IF u = t THEN FALSE ELSE notified[u]
    BY <1>b, <2>1
  <2>3. u = t => state[u] = "Runnable"
    BY <1>a, <2>1
  <2>4. Marked(u)'
    BY Zenon, <1>a, <2>1 DEF Marked
  <2>5. InWait(u)' /\ RunsRunnable(u)'
    BY Zenon, <1>a, <2>1, <2>2, <2>3 DEF InWait, RunsRunnable
  <2>6. Leaving(u)'
    BY Zenon, <1>a, <2>1, <2>2 DEF Leaving
  <2> QED BY Zenon, <2>4, <2>5, <2>6
<1>5. ASSUME NEW t \in Threads, BlockNotifyFinishes(t) PROVE G
  <2>1. /\ state' = state /\ running' = running /\ running = t /\ pc[t] = "finish"
        /\ UNCHANGED <<blockState, notified, unblockRequested, unblocked>>
        /\ pc'[u] = IF u = t THEN "user" ELSE pc[u]
        /\ bits' = bits \/ bits' = [bits EXCEPT ![t] = FALSE]
    BY Zenon, <1>5, <1>c DEF BlockNotifyFinishes, Executes
  <2>2. bits'[u] => bits[u]
    BY <1>b, <2>1
  <2>3. Marked(u)'
    BY Zenon, <1>a, <2>1 DEF Marked
  <2>4. InWait(u)' /\ RunsRunnable(u)'
    BY <1>a, <2>1 DEF InWait, RunsRunnable
  <2>5. Leaving(u)'
    BY Zenon, <1>a, <2>1, <2>2 DEF Leaving
  <2> QED BY Zenon, <2>3, <2>4, <2>5
<1>6. ASSUME NEW t \in Threads, ResumeSet(t) PROVE G
  <2>1. /\ running' = running /\ running = t /\ pc[t] = "resume" /\ UNCHANGED waitVars
        /\ state' = [state EXCEPT ![target[t]] = "Runnable"]
        /\ pc'[u] = IF u = t THEN "resumed" ELSE pc[u]
    BY Zenon, <1>6, <1>c DEF ResumeSet, Executes
  <2>2. state'[u] = state[u] \/ state'[u] = "Runnable"
    BY <1>b, <2>1
  <2>3. /\ pc'[u] = pc[u] \/ pc[u] \notin {"block", "woken"}
        /\ state'[u] = state[u] \/ state'[u] # "NotifyWait"
        /\ running' = u => state'[u] = "Runnable" \/ pc'[u] = "block"
    BY <1>a, <2>1, <2>2
  <2> QED BY Zenon, <1>d, <2>1, <2>3
<1>7. ASSUME NEW t \in Threads, ResumeQueue(t) PROVE G
  <2>1. /\ running' = running /\ running = t /\ pc[t] = "resumed" /\ UNCHANGED waitVars
        /\ state' = state /\ pc'[u] = IF u = t THEN "user" ELSE pc[u]
    BY Zenon, <1>7, <1>c DEF ResumeQueue, Executes
  <2>2. /\ pc'[u] = pc[u] \/ pc[u] \notin {"block", "woken"}
        /\ running' = u => state'[u] = "Runnable" \/ pc'[u] = "block"
    BY <1>a, <2>1
  <2> QED BY Zenon, <1>d, <2>1, <2>2
<1>8. ASSUME NEW t \in Threads, NEW expired \in BOOLEAN, NEW spent \in BOOLEAN,
             Yield(t, expired, spent)
      PROVE  G
  <2>1. state' = state /\ running = t /\ UNCHANGED <<pc, waitVars>>
    BY Zenon, <1>8 DEF Yield, Executes, callVars
  <2>2. Dispatched(state', Back(t, state'))
    BY Zenon, <1>0, <1>8, <2>1, YieldDispatches DEF Yield
  <2> QED BY Zenon, <1>d, <1>e, <2>1, <2>2
<1>9. ASSUME NEW t \in Threads, NEW expired \in BOOLEAN, NEW spent \in BOOLEAN,
             Sleep(t, expired, spent)
      PROVE  G
  <2>1. /\ running = t /\ UNCHANGED <<pc, waitVars>>
        /\ state' = [state EXCEPT ![t] = "Sleeping"]
    BY Zenon, <1>9 DEF Sleep, Executes, callVars
  <2>2. Dispatched(state', Back(t, state'))
    BY Zenon, <1>0, <1>9, <2>1, YieldDispatches DEF Sleep
  <2>3. state'[u] = state[u] \/ state'[u] # "NotifyWait"
    BY <1>b, <2>1
  <2> QED BY Zenon, <1>d, <1>e, <2>1, <2>2, <2>3
<1>10. ASSUME NEW t \in Threads, BlockNotifyReturns(t) PROVE G
  <2>1. /\ UNCHANGED <<state, running, pc, blockState, notified, unblockRequested, unblocked>>
        /\ bits' = [bits EXCEPT ![t] = FALSE]
    BY Zenon, <1>10 DEF BlockNotifyReturns, callVars
  <2>2. bits'[u] => bits[u]
    BY <1>b, <2>1
  <2> QED BY Zenon, <1>a, <2>1, <2>2 DEF Marked, InWait, Leaving, RunsRunnable
<1>11. ASSUME NEW t \in Threads, NEW withDeadline \in BOOLEAN, BlockNotifyWaits(t, withDeadline)
       PROVE  G
  <2>1. /\ UNCHANGED <<running, notified, bits, unblockRequested, unblocked>>
        /\ running = t /\ pc[t] = "user" /\ ~bits[t]
        /\ state' = [state EXCEPT ![t] = "NotifyWait"]
        /\ blockState' = [blockState EXCEPT ![t] = "Blocking"]
        /\ pc'[u] = IF u = t THEN "block" ELSE pc[u]
    BY Zenon, <1>11, <1>c DEF BlockNotifyWaits, Executes, NotificationPending
  <2>2. Marked(u)'
    BY Zenon, <1>a, <2>1 DEF Marked
  <2>3. CASE u = t
    <3>1. ~notified[u] /\ ~bits[u]
      BY <1>a, <2>1, <2>3
    <3> QED BY Zenon, <2>1, <2>2, <2>3, <3>1 DEF InWait, Leaving, RunsRunnable
  <2>4. CASE u # t
    <3>1. state'[u] = state[u] /\ blockState'[u] = blockState[u]
      BY <1>b, <2>1, <2>4
    <3> QED BY Zenon, <1>a, <2>1, <2>2, <2>4, <3>1 DEF InWait, Leaving, RunsRunnable
  <2> QED BY Zenon, <2>3, <2>4
<1>12. ASSUME NEW r \in Threads, NEW t \in Threads, CreateSet(r, t) PROVE G
  <2>1. /\ UNCHANGED <<waitVars, running>> /\ state' = [state EXCEPT ![t] = "Runnable"]
        /\ pc[r] = "user" /\ pc'[u] = IF u = r THEN "created" ELSE pc[u]
    BY Zenon, <1>12, <1>c DEF CreateSet, Executes
  <2>2. state'[u] = state[u] \/ state'[u] = "Runnable"
    BY <1>b, <2>1
  <2>3. /\ pc'[u] = pc[u] \/ pc[u] \notin {"block", "woken"}
        /\ state'[u] = state[u] \/ state'[u] # "NotifyWait"
        /\ running' = u => state'[u] = "Runnable" \/ pc'[u] = "block"
    BY <1>a, <2>1, <2>2
  <2> QED BY Zenon, <1>d, <2>1, <2>3
<1>13. ASSUME NEW r \in Threads, NEW t \in Threads, ResumeTest(r, t) PROVE G
  <2>1. /\ UNCHANGED <<state, waitVars, running>> /\ pc[r] = "user"
        /\ pc'[u] = IF u = r THEN "resume" ELSE pc[u]
    BY Zenon, <1>13, <1>c DEF ResumeTest, Executes
  <2>2. /\ pc'[u] = pc[u] \/ pc[u] \notin {"block", "woken"}
        /\ running' = u => state'[u] = "Runnable" \/ pc'[u] = "block"
    BY <1>a, <2>1
  <2> QED BY Zenon, <1>d, <2>1, <2>2
<1>14. ASSUME NEW t \in Threads, Notify(t) PROVE G
  <2>1. UNCHANGED <<state, pc, running>> /\ bits' = [bits EXCEPT ![t] = TRUE]
    BY Zenon, <1>14 DEF Notify, callVars
  <2>2. u # t => bits'[u] = bits[u]
    BY <1>b, <2>1
  <2>3. RunsRunnable(u)'
    BY Zenon, <1>a, <2>1 DEF RunsRunnable
  <2>4. CASE state[t] = "NotifyWait" /\ ~notified[t]
    <3>1. /\ notified' = [notified EXCEPT ![t] = TRUE]
          /\ blockState' = [blockState EXCEPT ![t] = "Unblocked"] /\ ThreadUnblocked(<<t>>)
      BY Zenon, <1>14, <2>4 DEF Notify
    <3>2. <<t>> \in Seq(Threads) /\ Range(<<t>>) = {t}
      BY Zenon, Single
    <3>3. /\ Range(unblocked') = Range(unblocked) \cup {w \in {t} : ~unblockRequested[w]}
          /\ unblockRequested'[u] <=> unblockRequested[u] \/ u \in {t}
      BY Zenon, <1>0, <3>1, <3>2, UnblockedAdds
    <3>4. CASE u = t
      <4>1. blockState'[u] = "Unblocked" /\ "Unblocked" # "Blocking"
        BY <1>b, <3>1, <3>4
      <4>2. u \in Range(unblocked')
        BY Zenon, <1>a, <3>3, <3>4
      <4> QED BY Zenon, <1>a, <2>1, <2>3, <2>4, <3>4, <4>1, <4>2 DEF Marked, InWait, Leaving
    <3>5. CASE u # t
      <4>1. blockState'[u] = blockState[u] /\ notified'[u] = notified[u]
        BY <1>b, <3>1, <3>5
      <4>2. /\ u \in Range(unblocked) => u \in Range(unblocked')
            /\ unblockRequested'[u] => unblockRequested[u]
        BY Zenon, <3>3, <3>5
      <4> QED BY Zenon, <1>a, <2>1, <2>2, <2>3, <3>5, <4>1, <4>2 DEF Marked, InWait, Leaving
    <3> QED BY Zenon, <3>4, <3>5
  <2>5. CASE ~ (state[t] = "NotifyWait" /\ ~notified[t])
    <3>1. UNCHANGED <<notified, blockState, unblockRequested, unblocked>>
      BY Zenon, <1>14, <2>5 DEF Notify
    <3> QED BY Zenon, <1>a, <2>1, <2>2, <2>3, <2>5, <3>1 DEF Marked, InWait, Leaving
  <2> QED BY Zenon, <2>4, <2>5
<1>15. ASSUME NEW expired \in BOOLEAN, NEW S \in SUBSET deadlines, TimerFired(expired, S)
       PROVE  G
  <2>1. /\ state'[u] = IF u \in Expired(S, "sleep") THEN "Runnable" ELSE state[u]
        /\ blockState'[u] = IF u \in Expired(S, "wait") THEN "Timeout" ELSE blockState[u]
        /\ Range(unblocked') =
              Range(unblocked) \cup {t \in Expired(S, "wait") : ~unblockRequested[t]}
        /\ unblockRequested'[u] <=> unblockRequested[u] \/ u \in Expired(S, "wait")
    BY Zenon, <1>0, <1>15, TimerEffect
  <2>2. UNCHANGED <<bits, notified, pc, running>>
    BY Zenon, <1>15 DEF TimerFired, callVars
  <2>3. /\ u \in Range(unblocked) => u \in Range(unblocked')
        /\ unblockRequested'[u] => u \in Range(unblocked')
    BY Zenon, <1>a, <2>1
  <2>4. /\ state'[u] = "NotifyWait" => state[u] = "NotifyWait"
        /\ state[u] = "Runnable" => state'[u] = "Runnable"
        /\ blockState[u] # "Blocking" => blockState'[u] # "Blocking"
    BY <2>1
  <2> QED BY Zenon, <1>a, <2>2, <2>3, <2>4 DEF Marked, InWait, Leaving, RunsRunnable
<1>16. ASSUME NEW spent \in BOOLEAN, HandleIpi(spent) PROVE G
  <2>1. Woken(state') /\ Dispatched(state', Ready \cup Back(running, state'))
    BY Zenon, <1>0, <1>16, IpiDispatches
  <2>2. /\ UNCHANGED <<bits, notified, pc, blockState>>
        /\ unblockRequested' = [t \in Threads |-> unblockRequested[t] /\ t \notin Range(unblocked)]
    BY Zenon, <1>16 DEF HandleIpi, callVars
  <2>3. ~unblockRequested'[u]
    BY Zenon, <1>a, <2>2
  <2>4. state'[u] = "NotifyWait" => state[u] = "NotifyWait" /\ u \notin Ready
    <3>1. state'[u] = IF u \in Ready THEN "Runnable" ELSE state[u]
      BY Zenon, <2>1 DEF Woken
    <3> QED BY <3>1
  <2>5. ~ (state'[u] = "NotifyWait" /\ (bits'[u] \/ notified'[u]))
    BY Zenon, <1>a, <2>2, <2>4 DEF Ready
  <2> QED BY Zenon, <1>a, <1>e, <2>1, <2>2, <2>3, <2>4, <2>5
          DEF Marked, InWait, Leaving, RunsRunnable
<1>17. ASSUME NEW t \in Threads, CreateQueue(t) PROVE G
  <2>1. /\ running' = running /\ running = t /\ pc[t] = "created" /\ UNCHANGED waitVars
        /\ state' = state /\ pc'[u] = IF u = t THEN "user" ELSE pc[u]
    BY Zenon, <1>17, <1>c DEF CreateQueue, Executes
  <2>2. /\ pc'[u] = pc[u] \/ pc[u] \notin {"block", "woken"}
        /\ running' = u => state'[u] = "Runnable" \/ pc'[u] = "block"
    BY <1>a, <2>1
  <2> QED BY Zenon, <1>d, <2>1, <2>2
<1> QED BY Zenon, <1>1, <1>2, <1>3, <1>4, <1>5, <1>6, <1>7, <1>8, <1>9, <1>10, <1>11, <1>12,
           <1>13, <1>14, <1>15, <1>16, <1>17 DEF Next, ThreadStep, ThreadCall

\* A notified thread is never left asleep: in every reachable state a thread that waits
\* with a notification pending is on the list of unblocked threads, and handleIpi()
\* will not take it for one that is still blocking.
THEOREM NotifiedThreadsWake == Spec => []NotifiedWakes
<1>1. Init => WaitInv
  BY InitWait
<1>2. WaitInv /\ [Next]_vars => WaitInv'
  BY NextWait
<1>3. WaitInv => NotifiedWakes
  BY Zenon DEF WaitInv, Leaving, NotifiedWakes
<1> QED BY <1>1, <1>2, <1>3, PTL DEF Spec
----------------------------------------------------------------------------
LEMMA InitPreempt == Init => PreemptInv
<1> SUFFICES ASSUME Init PROVE PreemptInv
  OBVIOUS
<1>1. TypeOK /\ running = NoThread /\ pc = [t \in Threads |-> "user"]
  BY Zenon, InitType DEF Init
<1>2. \A t \in Threads : pc[t] \notin {"resume", "resumed"}
  BY <1>1
<1> QED BY Zenon, <1>1, <1>2 DEF PreemptInv

\* A step that queues a thread better than the running one leaves an IPI pending, and
\* one that takes the IPI leaves nothing in the better queues.
LEMMA NextPreempt == "resume" \notin Ops /\ PreemptInv /\ [Next]_vars => PreemptInv'
<1> SUFFICES ASSUME "resume" \notin Ops, PreemptInv, [Next]_vars PROVE PreemptInv'
  OBVIOUS
<1>0. TypeOK /\ TypeOK' /\ \A t \in Threads : pc[t] \notin {"resume", "resumed"}
  BY Zenon, NextType DEF PreemptInv
<1> DEFINE P == \A l \in Levels : l < currentLevel /\ queue[l] # <<>> => ipi
           G == \A t \in Threads : pc'[t] \notin {"resume", "resumed"}
           H == running' # NoThread =>
                   \A l \in Levels : l < currentLevel' /\ queue'[l] # <<>> => ipi'
<1> SUFFICES G /\ H
  BY Zenon, <1>0 DEF PreemptInv
<1>a. running # NoThread => P
  BY Zenon DEF PreemptInv
<1>b. /\ queue \in [Levels -> Seq(Threads)] /\ queue' \in [Levels -> Seq(Threads)]
      /\ level \in [Threads -> Levels] /\ currentLevel \in 0..kNumLevels
      /\ pc \in [Threads -> {"user", "block", "woken", "finish", "created", "resume", "resumed"}]
      /\ target \in [Threads -> Threads \cup {NoThread}]
  BY Zenon, <1>0, TypeParts, TypePartsNext
<1>c. \A t \in Threads : t # NoThread
  BY Zenon, SchedulerAssumption
<1>d. ASSUME NEW t \in Threads, NEW to, to \notin {"resume", "resumed"}, Goes(t, to) PROVE G
  <2> SUFFICES ASSUME NEW u \in Threads PROVE pc'[u] \notin {"resume", "resumed"}
    BY Zenon
  <2>1. pc'[u] = IF u = t THEN to ELSE pc[u]
    BY <1>b, <1>d DEF Goes
  <2> QED BY Zenon, <1>0, <1>d, <2>1
<1>e. pc' = pc => G
  BY Zenon, <1>0
<1>f. UNCHANGED <<queue, currentLevel, running, ipi>> => H
  <2> SUFFICES ASSUME UNCHANGED <<queue, currentLevel, running, ipi>>, running' # NoThread,
                      NEW l \in Levels, l < currentLevel', queue'[l] # <<>>
               PROVE  ipi'
    BY Zenon
  <2>1. queue' = queue /\ currentLevel' = currentLevel /\ running' = running /\ ipi' = ipi
    BY Zenon
  <2>2. P /\ l < currentLevel /\ queue[l] # <<>>
    BY Zenon, <1>a, <2>1
  <2>3. ipi
    BY Zenon, <2>2
  <2> QED BY Zenon, <2>1, <2>3
<1>g. ASSUME NEW t \in Threads, running = t, NEW st, NEW A, Dispatched(st, A), ipi' = ipi PROVE H
  BY Zenon, <1>a, <1>c, <1>g DEF Dispatched, Cleared
<1>h. "user" \notin {"resume", "resumed"} /\ "block" \notin {"resume", "resumed"}
      /\ "woken" \notin {"resume", "resumed"} /\ "finish" \notin {"resume", "resumed"}
      /\ "created" \notin {"resume", "resumed"}
  OBVIOUS
<1>1. CASE Run
  <2>1. Picks(FindRunnable(queue, state), queue, state)
    BY Zenon, <1>b, FindRunnablePicks
  <2>2. H
    BY Zenon, <1>1, <2>1 DEF Run, Picks
  <2> QED BY Zenon, <1>1, <1>e, <2>2 DEF Run, callVars
<1>2. CASE Stopped \/ UNCHANGED vars
  <2>1. UNCHANGED <<queue, currentLevel, running, ipi, callVars>>
    BY Zenon, <1>2 DEF Stopped, vars
  <2> QED BY Zenon, <1>e, <1>f, <2>1 DEF callVars
<1>3. ASSUME NEW t \in Threads, ThreadStep(t) PROVE G /\ H
  <2>1. ASSUME NEW expired \in BOOLEAN, NEW spent \in BOOLEAN, BlockNotifyYields(t, expired, spent)
        PROVE  G /\ H
    <3>1. running = t /\ ipi' = ipi /\ Goes(t, "woken") /\ YieldNow(t, state, expired, spent)
      BY Zenon, <2>1 DEF BlockNotifyYields, Executes
    <3>2. Dispatched(state, Back(t, state))
      BY Zenon, <1>0, <3>1, YieldDispatches
    <3> QED BY Zenon, <1>d, <1>g, <1>h, <3>1, <3>2
  <2>2. CASE BlockNotifyResumes(t)
    BY Zenon, <1>d, <1>f, <1>h, <2>2 DEF BlockNotifyResumes
  <2>3. CASE BlockNotifyFinishes(t)
    BY Zenon, <1>d, <1>f, <1>h, <2>3 DEF BlockNotifyFinishes
  <2>4. CASE ResumeSet(t) \/ ResumeQueue(t)
    <3>1. pc[t] \in {"resume", "resumed"}
      BY Zenon, <2>4 DEF ResumeSet, ResumeQueue, Executes
    <3> QED BY Zenon, <1>0, <3>1
  <2>5. CASE CreateQueue(t)
    <3>0. PICK u \in Threads \cup {NoThread} : u = target[t]
      BY Zenon, <1>b
    <3>1. /\ running = t /\ Goes(t, "user") /\ UNCHANGED <<running, currentLevel>>
          /\ ipi' = (ipi \/ currentLevel >= level[u]) /\ queue' = Schedule(queue, <<u>>, level)
      BY Zenon, <2>5, <3>0 DEF CreateQueue, Executes
    <3>2. PICK ts \in Seq(Threads \cup {NoThread}) : ts = <<u>> /\ Range(ts) = {u}
      BY Zenon, Single
    <3>3. Adds(queue', queue, ts, level)
      BY Zenon, <1>b, <3>1, <3>2, ScheduleAdds
    <3>4. ASSUME NEW l \in Levels, l < currentLevel, queue'[l] # <<>> PROVE ipi'
      <4>1. CASE queue[l] # <<>>
        BY Zenon, <1>a, <1>c, <3>1, <3>4, <4>1
      <4>2. CASE queue[l] = <<>>
        <5>1. Range(queue'[l]) # {} /\ Range(queue[l]) = {} /\ Range(queue'[l]) \subseteq Threads
          BY Zenon, <1>b, <3>4, <4>2, NonEmpty, QueueRange
        <5>2. level[u] = l
          BY Zenon, <3>2, <3>3, <5>1 DEF Adds
        <5>3. currentLevel >= level[u]
          <6>1. l \in Nat /\ currentLevel \in Nat
            BY <1>b, SchedulerAssumption DEF Levels
          <6> QED BY <3>4, <5>2, <6>1
        <5> QED BY Zenon, <3>1, <5>3
      <4> QED BY Zenon, <4>1, <4>2
    <3> QED BY Zenon, <1>d, <1>h, <3>1, <3>4
  <2> QED BY Zenon, <1>3, <2>1, <2>2, <2>3, <2>4, <2>5 DEF ThreadStep
<1>4. ASSUME NEW t \in Threads, ThreadCall(t) PROVE G /\ H
  <2>1. ASSUME NEW expired \in BOOLEAN, NEW spent \in BOOLEAN, Yield(t, expired, spent)
        PROVE  G /\ H
    <3>1. running = t /\ ipi' = ipi /\ pc' = pc /\ YieldNow(t, state, expired, spent)
      BY Zenon, <2>1 DEF Yield, Executes, callVars
    <3>2. Dispatched(state, Back(t, state))
      BY Zenon, <1>0, <3>1, YieldDispatches
    <3> QED BY Zenon, <1>e, <1>g, <3>1, <3>2
  <2>2. ASSUME NEW expired \in BOOLEAN, NEW spent \in BOOLEAN, Sleep(t, expired, spent)
        PROVE  G /\ H
    <3>1. running = t /\ ipi' = ipi /\ pc' = pc /\ YieldNow(t, state', expired, spent)
      BY Zenon, <2>2 DEF Sleep, Executes, callVars
    <3>2. Dispatched(state', Back(t, state'))
      BY Zenon, <1>0, <3>1, YieldDispatches
    <3> QED BY Zenon, <1>e, <1>g, <3>1, <3>2
  <2>3. CASE BlockNotifyReturns(t)
    BY Zenon, <1>e, <1>f, <2>3 DEF BlockNotifyReturns, callVars
  <2>4. ASSUME NEW withDeadline \in BOOLEAN, BlockNotifyWaits(t, withDeadline) PROVE G /\ H
    BY Zenon, <1>d, <1>f, <1>h, <2>4 DEF BlockNotifyWaits
  <2>5. ASSUME NEW u \in Threads, CreateSet(t, u) PROVE G /\ H
    BY Zenon, <1>d, <1>f, <1>h, <2>5 DEF CreateSet
  <2>6. ASSUME NEW u \in Threads, ResumeTest(t, u) PROVE G /\ H
    BY Zenon, <2>6 DEF ResumeTest
  <2> QED BY Zenon, <1>4, <2>1, <2>2, <2>3, <2>4, <2>5, <2>6 DEF ThreadCall
<1>5. ASSUME NEW t \in Threads, Notify(t) PROVE G /\ H
  <2>1. UNCHANGED <<queue, currentLevel, running, pc>> /\ (ipi => ipi') /\ running # NoThread
    BY Zenon, <1>5 DEF Notify, callVars
  <2> QED BY Zenon, <1>a, <1>e, <2>1
<1>6. ASSUME NEW expired \in BOOLEAN, NEW S \in SUBSET deadlines, TimerFired(expired, S)
      PROVE  G /\ H
  <2>1. /\ \A l \in Levels : l < currentLevel /\ queue'[l] # <<>> => ipi' \/ queue[l] # <<>>
        /\ ipi => ipi'
    BY Zenon, <1>0, <1>6, TimerEffect
  <2>2. UNCHANGED <<pc, running, currentLevel>>
    BY Zenon, <1>6 DEF TimerFired, callVars
  <2> QED BY Zenon, <1>a, <1>e, <2>1, <2>2
<1>7. ASSUME NEW spent \in BOOLEAN, HandleIpi(spent) PROVE G /\ H
  <2>1. Cleared /\ pc' = pc
    BY Zenon, <1>0, <1>7, IpiDispatches DEF HandleIpi, callVars
  <2> QED BY Zenon, <1>e, <2>1 DEF Cleared
<1> QED BY Zenon, <1>1, <1>2, <1>3, <1>4, <1>5, <1>6, <1>7 DEF Next

LEMMA PreemptIs == TypeOK => (("resume" \in Ops \/ PreemptInv) => BetterThreadPreempts)
<1> SUFFICES ASSUME TypeOK, PreemptInv, running # NoThread, NEW t \in Threads, NEW l \in Levels,
                    t \in Range(queue[l]), l < currentLevel
             PROVE  ipi
  BY Zenon DEF BetterThreadPreempts
<1>1. queue \in [Levels -> Seq(Threads)]
  BY Zenon, TypeParts
<1>2. queue[l] # <<>>
  BY Zenon, <1>1, NonEmpty
<1> QED BY Zenon, <1>2 DEF PreemptInv

\* A runnable thread better than the running one has an IPI on its way to it, in every
\* reachable state, whatever the threads call (ThreadResume apart, which switches
\* to nobody): schedule(), timerFired() and threadUnblocked() compare the levels
\* before the queues change hands.
THEOREM BetterThreadsPreempt == Spec => []BetterThreadPreempts
<1>1. CASE "resume" \in Ops
  <2>1. Init => TypeOK
    BY InitType
  <2>2. TypeOK /\ [Next]_vars => TypeOK'
    BY NextType
  <2>3. TypeOK => BetterThreadPreempts
    BY <1>1, PreemptIs
  <2> QED BY <2>1, <2>2, <2>3, PTL DEF Spec
<1>2. CASE "resume" \notin Ops
  <2>1. Init => PreemptInv
    BY InitPreempt
  <2>2. PreemptInv /\ [Next]_vars => PreemptInv'
    BY <1>2, NextPreempt
  <2>3. PreemptInv => BetterThreadPreempts
    BY PreemptIs DEF PreemptInv
  <2> QED BY <2>1, <2>2, <2>3, PTL DEF Spec
<1> QED BY <1>1, <1>2
============================================================================
