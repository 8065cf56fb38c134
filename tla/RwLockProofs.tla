---------------------------- MODULE RwLockProofs ----------------------------
(***************************************************************************)
(* Theorems about the reader/writer lock, for any number of threads below  *)
(* Wrap.  The inductive invariant is TicketsOut: tickets in use follow     *)
(* `write' without a gap, so that comparing single bytes is enough.        *)
(***************************************************************************)
EXTENDS RwLock, FiniteSetTheorems, SequenceTheorems, TLAPS

Dist(w, b) == IF b >= w THEN b - w ELSE b - w + Wrap
Inside == {t \in Threads : lockPc[t] # "out"}
Queue == Waiting \cup Writers

LockInv == LockTypeOK /\ TicketsOut
----------------------------------------------------------------------------
\* A byte is the number of unlocks `write' is behind it, below Wrap.
LEMMA DistRange ==
    ASSUME NEW w \in Byte, NEW b \in Byte
    PROVE  Dist(w, b) \in 0 .. Wrap - 1 /\ (Dist(w, b) = 0 <=> b = w)
BY WrapAssumption DEF Dist, Byte

\* Different bytes are at different distances.
LEMMA DistInjective ==
    ASSUME NEW w \in Byte, NEW a \in Byte, NEW b \in Byte, Dist(w, a) = Dist(w, b)
    PROVE  a = b
BY WrapAssumption DEF Dist, Byte

\* Incrementing a byte stays a byte and moves it one further, until it meets `write'.
LEMMA DistNext ==
    ASSUME NEW w \in Byte, NEW b \in Byte, Dist(w, b) + 1 < Wrap
    PROVE  Incremented(b) \in Byte /\ Dist(w, Incremented(b)) = Dist(w, b) + 1
BY WrapAssumption DEF Dist, Byte, Incremented

\* Incrementing `write' brings every other byte one nearer.
LEMMA DistShift ==
    ASSUME NEW w \in Byte, NEW b \in Byte, Dist(w, b) >= 1
    PROVE  Incremented(w) \in Byte /\ Dist(Incremented(w), b) = Dist(w, b) - 1
BY WrapAssumption DEF Dist, Byte, Incremented

\* uint8_t arithmetic stays within a byte.
LEMMA IncrementedByte == ASSUME NEW b \in Byte PROVE Incremented(b) \in Byte
BY WrapAssumption DEF Byte, Incremented

\* Who is at the lock: readers, writers and those who wait, each counted once.
LEMMA InsideSets ==
    ASSUME LockTypeOK
    PROVE  /\ Inside = Readers \cup Writers \cup Waiting
           /\ IsFiniteSet(Inside) /\ IsFiniteSet(Readers)
           /\ Cardinality(Inside) \in Nat /\ Cardinality(Readers) \in Nat
           /\ Cardinality(Inside) < Wrap
           /\ Cardinality(Readers) <= Cardinality(Inside)
<1>1. Inside = Readers \cup Writers \cup Waiting
  BY DEF LockTypeOK, LockPcs, Inside, Readers, Writers, Waiting
<1>2. IsFiniteSet(Threads) /\ Cardinality(Threads) \in Nat /\ Wrap \in Nat
  BY FS_CardinalityType, WrapAssumption
<1>3. Inside \subseteq Threads /\ Readers \subseteq Inside
  BY DEF Inside, Readers
<1>4. IsFiniteSet(Inside) /\ Cardinality(Inside) <= Cardinality(Threads)
  BY <1>2, <1>3, FS_Subset
<1>5. IsFiniteSet(Readers) /\ Cardinality(Readers) <= Cardinality(Inside)
  BY <1>3, <1>4, FS_Subset
<1>6. Cardinality(Inside) \in Nat /\ Cardinality(Readers) \in Nat
  BY <1>4, <1>5, FS_CardinalityType
<1> QED
  BY <1>1, <1>2, <1>4, <1>5, <1>6, WrapAssumption

\* TicketsOut in terms of distances.
TicketsAt ==
    /\ Cardinality(Inside) = Dist(write, users)
    /\ Cardinality(Readers) = Dist(write, read)
    /\ \A t \in Queue : Dist(write, read) <= Dist(write, ticket[t])
    /\ \A t \in Queue : Dist(write, ticket[t]) < Dist(write, users)
    /\ \A t, u \in Queue : ticket[t] = ticket[u] => t = u
    /\ \A t \in Threads : lockPc[t] = "rdinc" => ticket[t] = read /\ copy[t][2] = read
    /\ \A t \in Writers : ticket[t] = write
    /\ \A t \in Threads : lockPc[t] = "wrstore" => copy[t] = <<write, read>>

\* The two forms agree, now and after a step.
LEMMA TicketsDist == LockTypeOK => (TicketsOut <=> TicketsAt)
<1> SUFFICES ASSUME LockTypeOK PROVE TicketsOut <=> TicketsAt
  OBVIOUS
<1>1. Inside = Readers \cup Writers \cup Waiting
  BY DEF LockTypeOK, LockPcs, Inside, Readers, Writers, Waiting
<1> QED
  BY <1>1 DEF TicketsOut, TicketsAt, Ahead, Dist, Queue

LEMMA TicketsDistNext == LockTypeOK' => (TicketsOut' <=> TicketsAt')
<1> SUFFICES ASSUME LockTypeOK' PROVE TicketsOut' <=> TicketsAt'
  OBVIOUS
<1>1. Inside' = (Readers \cup Writers \cup Waiting)'
  BY DEF LockTypeOK, LockPcs, Inside, Readers, Writers, Waiting
<1> QED
  BY <1>1 DEF TicketsOut, TicketsAt, Ahead, Dist, Queue

\* With a writer inside the two bytes agree and no reader is.
LEMMA WriterAlone ==
    ASSUME LockInv, NEW t \in Writers
    PROVE  read = write /\ Readers = {} /\ Writers = {t}
<1>1. t \in Queue /\ t \in Threads /\ ticket[t] = write
  BY TicketsDist DEF LockInv, TicketsAt, Queue, Writers
<1>2. Dist(write, ticket[t]) = 0 /\ Dist(write, read) \in Nat
  BY <1>1, DistRange, WrapAssumption DEF LockInv, LockTypeOK
<1>3. Dist(write, read) = 0
  BY <1>1, <1>2, TicketsDist DEF LockInv, TicketsAt
<1>4. read = write
  BY <1>3, DistRange DEF LockInv, LockTypeOK
<1>5. Cardinality(Readers) = 0 /\ IsFiniteSet(Readers)
  BY <1>3, TicketsDist, InsideSets DEF LockInv, TicketsAt
<1>6. Readers = {}
  BY <1>5, FS_EmptySet
<1>7. \A u \in Writers : u = t
  BY <1>1, TicketsDist DEF LockInv, TicketsAt, Queue
<1> QED
  BY <1>4, <1>6, <1>7

\* Somebody who holds a ticket is at the lock.
LEMMA QueueInside == Queue \subseteq Inside /\ Inside \subseteq Threads
BY DEF Queue, Inside, Waiting, Writers
----------------------------------------------------------------------------
\* A thread that arrives gets the ticket behind all others.
LEMMA ArriveStep ==
    ASSUME LockInv, NEW t \in Threads, NEW pc \in {"rdwait", "wrwait"},
           Move(t, "out", pc), TakeTicket(t)
    PROVE  LockInv'
<1> USE DEF Move, TakeTicket
<1>1. LockTypeOK'
  BY IncrementedByte DEF LockInv, LockTypeOK, LockPcs
<1>2. /\ write \in Byte /\ read \in Byte /\ users \in Byte /\ ticket \in [Threads -> Byte]
      /\ lockPc \in [Threads -> LockPcs] /\ copy \in [Threads -> Byte \X Byte]
  BY DEF LockInv, LockTypeOK
<1>3. TicketsAt
  BY TicketsDist DEF LockInv
<1>4. /\ Inside' = Inside \cup {t} /\ t \notin Inside
      /\ Readers' = Readers /\ Writers' = Writers
      /\ Queue' = Queue \cup {t} /\ t \notin Queue
      /\ \A u \in Queue : ticket'[u] = ticket[u] /\ u \in Threads
      /\ ticket'[t] = users
  BY <1>2 DEF Inside, Readers, Writers, Queue, Waiting, LockPcs
<1>5. Cardinality(Inside') = Cardinality(Inside) + 1
  BY <1>4, InsideSets, FS_AddElement DEF LockInv
<1>6. Cardinality(Inside') < Wrap
  <2>1. Inside' \subseteq Threads
    BY <1>4, QueueInside
  <2> QED
    BY <2>1, FS_Subset, FS_CardinalityType, WrapAssumption
<1>7. Dist(write, users) + 1 < Wrap /\ Cardinality(Inside) \in Nat
  BY <1>3, <1>5, <1>6, InsideSets, FS_CardinalityType DEF TicketsAt, LockInv
<1>8. users' \in Byte /\ Dist(write, users') = Dist(write, users) + 1
  BY <1>2, <1>7, DistNext
<1>9. Dist(write, read) <= Dist(write, users)
  BY <1>3, InsideSets DEF TicketsAt, LockInv
<1>10. \A u \in Queue : Dist(write, ticket[u]) \in Int /\ ticket[u] # users
  <2> TAKE u \in Queue
  <2>1. ticket[u] \in Byte /\ Dist(write, ticket[u]) < Dist(write, users)
    BY <1>2, <1>3, <1>4 DEF TicketsAt
  <2> QED
    BY <2>1, <1>2, DistRange, WrapAssumption
<1>11. Dist(write, users) \in Int
  BY <1>2, DistRange, WrapAssumption
<1>a. (\A u \in Queue : Dist(write, read) <= Dist(write, ticket[u]))'
  BY <1>3, <1>4, <1>9 DEF TicketsAt
<1>b. (\A u \in Queue : Dist(write, ticket[u]) < Dist(write, users))'
  BY <1>3, <1>4, <1>8, <1>10, <1>11 DEF TicketsAt
<1>c. (\A u, v \in Queue : ticket[u] = ticket[v] => u = v)'
  BY <1>3, <1>4, <1>10 DEF TicketsAt
<1>d. (\A u \in Threads : lockPc[u] = "rdinc" => ticket[u] = read /\ copy[u][2] = read)'
  BY <1>2, <1>3 DEF TicketsAt
<1>e. (\A u \in Writers : ticket[u] = write)'
  BY <1>2, <1>3, <1>4 DEF TicketsAt, Queue
<1>f. (\A u \in Threads : lockPc[u] = "wrstore" => copy[u] = <<write, read>>)'
  BY <1>2, <1>3 DEF TicketsAt
<1>g. (Cardinality(Inside) = Dist(write, users))' /\ (Cardinality(Readers) = Dist(write, read))'
  BY <1>3, <1>4, <1>5, <1>8 DEF TicketsAt
<1> QED
  BY <1>1, <1>a, <1>b, <1>c, <1>d, <1>e, <1>f, <1>g, TicketsDistNext DEF LockInv, TicketsAt

\* What the remaining lemmas need of the state before the step.
LEMMA Before ==
    ASSUME LockInv
    PROVE  /\ TicketsAt
           /\ write \in Byte /\ read \in Byte /\ users \in Byte /\ ticket \in [Threads -> Byte]
           /\ lockPc \in [Threads -> LockPcs] /\ copy \in [Threads -> Byte \X Byte]
           /\ Dist(write, users) \in 0 .. Wrap - 1 /\ Dist(write, read) \in 0 .. Wrap - 1
           /\ Wrap \in Nat
           /\ \A u \in Queue : Dist(write, ticket[u]) \in 0 .. Wrap - 1 /\ u \in Threads
BY TicketsDist, DistRange, QueueInside, WrapAssumption DEF LockInv, LockTypeOK

\* A step that moves one thread on within the queue and no byte.
LEMMA QueuedStep ==
    ASSUME LockInv, NEW t \in Threads,
           NEW from \in {"rdwait", "wrwait", "writing"}, NEW to \in {"rdinc", "writing", "wrstore"},
           Move(t, from, to), UNCHANGED <<write, read, users, ticket>>,
           to = "rdinc" => ticket[t] = read /\ copy' = [copy EXCEPT ![t] = <<0, read>>],
           to = "writing" => ticket[t] = write /\ copy' = copy,
           to = "wrstore" => from = "writing" /\ copy' = [copy EXCEPT ![t] = <<write, read>>]
    PROVE  LockInv'
<1> USE DEF Move
<1>1. LockTypeOK'
  BY Before, WrapAssumption DEF LockTypeOK, LockPcs, Byte
<1>2. Inside' = Inside /\ Readers' = Readers /\ Queue' = Queue
  BY Before DEF Inside, Readers, Writers, Queue, Waiting, LockPcs
<1>3. Writers' \subseteq Writers \cup {t}
  BY Before DEF Writers, LockPcs
<1>4. to = "wrstore" => t \in Writers
  BY DEF Writers
<1>5. (\A u \in Writers : ticket[u] = write)'
  <2>1. ~ t \in Writers' \/ to \in {"writing", "wrstore"}
    BY Before DEF Writers
  <2> QED
    BY <1>3, <1>4, <2>1, Before DEF TicketsAt
<1>6. (\A u \in Threads : lockPc[u] = "rdinc" => ticket[u] = read /\ copy[u][2] = read)'
  BY Before DEF TicketsAt
<1>7. (\A u \in Threads : lockPc[u] = "wrstore" => copy[u] = <<write, read>>)'
  BY Before DEF TicketsAt
<1> QED
  BY <1>1, <1>2, <1>5, <1>6, <1>7, Before, TicketsDistNext DEF LockInv, TicketsAt

\* A reader goes in: it leaves the queue at its head.
LEMMA RdIncrementStep ==
    ASSUME LockInv, NEW t \in Threads, RdIncrement(t)
    PROVE  LockInv'
<1> USE DEF RdIncrement, Move
<1>1. ticket[t] = read /\ copy[t][2] = read /\ t \in Queue
  BY Before DEF TicketsAt, Queue, Waiting
<1>2. Dist(write, read) + 1 < Wrap
  BY <1>1, Before DEF TicketsAt
<1>3. read' \in Byte /\ Dist(write, read') = Dist(write, read) + 1
  BY <1>1, <1>2, Before, DistNext
<1>4. LockTypeOK'
  BY <1>3, Before DEF LockTypeOK, LockPcs
<1>5. /\ Inside' = Inside /\ Readers' = Readers \cup {t} /\ t \notin Readers
      /\ Queue' = Queue \ {t} /\ Writers' = Writers
  BY Before DEF Inside, Readers, Writers, Queue, Waiting, LockPcs
<1>6. Writers = {}
  <2> SUFFICES ASSUME NEW u \in Writers PROVE FALSE
    OBVIOUS
  <2>1. read = write /\ ticket[u] = write /\ u \in Queue
    BY WriterAlone, Before DEF TicketsAt, Queue
  <2>2. u = t
    BY <1>1, <2>1, Before DEF TicketsAt
  <2> QED
    BY <2>2 DEF Writers
<1>7. Cardinality(Readers') = Cardinality(Readers) + 1
  BY <1>5, InsideSets, FS_AddElement DEF LockInv
<1>8. \A u \in Queue' : Dist(write, read') <= Dist(write, ticket[u])
  <2> TAKE u \in Queue'
  <2>1. ticket[u] # read /\ Dist(write, read) <= Dist(write, ticket[u]) /\ ticket[u] \in Byte
    BY <1>1, <1>5, Before DEF TicketsAt
  <2>2. Dist(write, read) # Dist(write, ticket[u])
    BY <2>1, Before, DistInjective
  <2> QED
    BY <2>1, <2>2, <1>3, <1>5, Before
<1>9. (\A u \in Threads : lockPc[u] = "rdinc" => ticket[u] = read /\ copy[u][2] = read)'
  <2> SUFFICES ASSUME NEW u \in Threads, lockPc'[u] = "rdinc" PROVE FALSE
    OBVIOUS
  <2>1. u # t /\ lockPc[u] = "rdinc" /\ u \in Queue /\ ticket[u] = read
    BY Before DEF TicketsAt, Queue, Waiting
  <2> QED
    BY <1>1, <2>1, Before DEF TicketsAt
<1>10. (\A u \in Threads : lockPc[u] # "wrstore")'
  BY <1>5, <1>6 DEF Writers
<1>11. (\A u \in Queue : Dist(write, ticket[u]) < Dist(write, users))'
  BY <1>5, Before DEF TicketsAt
<1>12. (\A u, v \in Queue : ticket[u] = ticket[v] => u = v)'
  BY <1>5, Before DEF TicketsAt
<1>13. (Cardinality(Inside) = Dist(write, users))' /\ (Cardinality(Readers) = Dist(write, read))'
  BY <1>3, <1>5, <1>7, Before DEF TicketsAt
<1>14. (\A u \in Queue : Dist(write, read) <= Dist(write, ticket[u]))'
  BY <1>8
<1>15. (\A u \in Writers : ticket[u] = write)'
  BY <1>5, <1>6
<1> QED
  BY <1>4, <1>9, <1>10, <1>11, <1>12, <1>13, <1>14, <1>15, TicketsDistNext DEF LockInv, TicketsAt

\* A reader leaves: `write' moves on, and everybody's ticket comes one nearer.
LEMMA RdUnlockStep ==
    ASSUME LockInv, NEW t \in Threads, RdUnlock(t)
    PROVE  LockInv'
<1> USE DEF RdUnlock, Move
<1>1. t \in Readers /\ t \in Inside
  BY DEF Readers, Inside
<1>2. Writers = {}
  BY <1>1, WriterAlone
<1>3. /\ Inside' = Inside \ {t} /\ Readers' = Readers \ {t} /\ Writers' = {}
      /\ Queue' = Queue /\ t \notin Queue
      /\ \A u \in Queue : ticket'[u] = ticket[u]
  BY <1>2, Before DEF Inside, Readers, Writers, Queue, Waiting, LockPcs
<1>4. Cardinality(Inside') = Cardinality(Inside) - 1 /\ Cardinality(Readers') = Cardinality(Readers) - 1
  BY <1>1, <1>3, InsideSets, FS_RemoveElement DEF LockInv
<1>5. Cardinality(Readers) # 0 /\ Cardinality(Readers) <= Cardinality(Inside)
      /\ Cardinality(Readers) \in Nat /\ Cardinality(Inside) \in Nat
  BY <1>1, InsideSets, FS_EmptySet DEF LockInv
<1>6. Dist(write, read) >= 1 /\ Dist(write, users) >= 1
  BY <1>5, Before DEF TicketsAt
<1>7. \A u \in Queue : Dist(write, ticket[u]) >= 1
  BY <1>6, Before DEF TicketsAt
<1>8. /\ write' \in Byte
      /\ Dist(write', read) = Dist(write, read) - 1
      /\ Dist(write', users) = Dist(write, users) - 1
      /\ \A u \in Queue : Dist(write', ticket[u]) = Dist(write, ticket[u]) - 1
  BY <1>6, <1>7, Before, DistShift
<1>9. LockTypeOK'
  BY <1>8, Before, WrapAssumption DEF LockTypeOK, LockPcs, Byte
<1>a. (Cardinality(Inside) = Dist(write, users))' /\ (Cardinality(Readers) = Dist(write, read))'
  BY <1>4, <1>8, Before DEF TicketsAt
<1>b. (\A u \in Queue : Dist(write, read) <= Dist(write, ticket[u]))'
  BY <1>3, <1>8, Before DEF TicketsAt
<1>c. (\A u \in Queue : Dist(write, ticket[u]) < Dist(write, users))'
  BY <1>3, <1>8, Before DEF TicketsAt
<1>d. (\A u, v \in Queue : ticket[u] = ticket[v] => u = v)'
  BY <1>3, Before DEF TicketsAt
<1>e. (\A u \in Threads : lockPc[u] = "rdinc" => ticket[u] = read /\ copy[u][2] = read)'
  BY Before DEF TicketsAt
<1>f. (\A u \in Threads : lockPc[u] # "wrstore")'
  BY <1>3 DEF Writers
<1> QED
  BY <1>3, <1>9, <1>a, <1>b, <1>c, <1>d, <1>e, <1>f, TicketsDistNext DEF LockInv, TicketsAt

\* A writer leaves: what it loaded is still what the bytes hold.
LEMMA WrStoreStep ==
    ASSUME LockInv, NEW t \in Threads, WrStore(t)
    PROVE  LockInv'
<1> USE DEF WrStore, Move
<1>1. t \in Writers /\ t \in Inside /\ t \in Queue
  BY DEF Writers, Inside, Queue
<1>2. read = write /\ Readers = {} /\ Writers = {t} /\ ticket[t] = write
  BY <1>1, WriterAlone, Before DEF TicketsAt
<1>3. write' = Incremented(write) /\ read' = Incremented(write)
  BY <1>2, Before DEF TicketsAt
<1>4. /\ Inside' = Inside \ {t} /\ Readers' = {} /\ Writers' = {}
      /\ Queue' = Queue \ {t}
      /\ \A u \in Queue \ {t} : ticket'[u] = ticket[u]
  BY <1>2, Before DEF Inside, Readers, Writers, Queue, Waiting, LockPcs
<1>5. Cardinality(Inside') = Cardinality(Inside) - 1
  BY <1>1, <1>4, InsideSets, FS_RemoveElement DEF LockInv
<1>6. Dist(write, users) >= 1
  BY <1>1, Before DEF TicketsAt
<1>7. \A u \in Queue \ {t} : Dist(write, ticket[u]) >= 1
  <2> TAKE u \in Queue \ {t}
  <2>1. ticket[u] # write /\ ticket[u] \in Byte
    BY <1>1, <1>2, Before DEF TicketsAt
  <2> QED
    BY <2>1, Before, DistRange
<1>8. /\ write' \in Byte /\ read' \in Byte
      /\ Dist(write', users) = Dist(write, users) - 1
      /\ \A u \in Queue \ {t} : Dist(write', ticket[u]) = Dist(write, ticket[u]) - 1
  BY <1>3, <1>6, <1>7, Before, DistShift
<1>9. Dist(write', read') = 0
  BY <1>3, <1>8, DistRange
<1>10. LockTypeOK'
  BY <1>8, Before, WrapAssumption DEF LockTypeOK, LockPcs, Byte
<1>a. (Cardinality(Inside) = Dist(write, users))' /\ (Cardinality(Readers) = Dist(write, read))'
  BY <1>4, <1>5, <1>8, <1>9, Before, FS_EmptySet DEF TicketsAt
<1>b. (\A u \in Queue : Dist(write, read) <= Dist(write, ticket[u]))'
  BY <1>4, <1>7, <1>8, <1>9, Before
<1>c. (\A u \in Queue : Dist(write, ticket[u]) < Dist(write, users))'
  BY <1>4, <1>8, Before DEF TicketsAt
<1>d. (\A u, v \in Queue : ticket[u] = ticket[v] => u = v)'
  BY <1>4, Before DEF TicketsAt
<1>e. (\A u \in Threads : lockPc[u] # "rdinc")'
  <2> SUFFICES ASSUME NEW u \in Threads, lockPc'[u] = "rdinc" PROVE FALSE
    OBVIOUS
  <2>1. u # t /\ u \in Queue /\ ticket[u] = read
    BY Before DEF TicketsAt, Queue, Waiting
  <2> QED
    BY <1>1, <1>2, <2>1, Before DEF TicketsAt
<1>f. (\A u \in Threads : lockPc[u] # "wrstore")'
  BY <1>4 DEF Writers
<1> QED
  BY <1>4, <1>10, <1>a, <1>b, <1>c, <1>d, <1>e, <1>f, TicketsDistNext DEF LockInv, TicketsAt
----------------------------------------------------------------------------
\* At the start every byte is equal and nobody is at the lock.
LEMMA InitTickets == InitLock => LockInv
<1> SUFFICES ASSUME InitLock PROVE LockInv
  OBVIOUS
<1> USE DEF InitLock
<1>1. LockTypeOK
  BY FS_CardinalityType, WrapAssumption DEF LockTypeOK, Byte, LockPcs
<1>2. Inside = {} /\ Readers = {} /\ Queue = {} /\ Writers = {}
  BY DEF Inside, Readers, Queue, Writers, Waiting
<1>3. Dist(write, users) = 0 /\ Dist(write, read) = 0
  BY DEF Dist
<1> QED
  BY <1>1, <1>2, <1>3, FS_EmptySet, TicketsDist DEF LockInv, TicketsAt

\* Every step of every lock function keeps the tickets in order.
LEMMA LockStepKeeps == LockInv /\ [NextLock]_lockVars => LockInv'
<1> SUFFICES ASSUME LockInv, [NextLock]_lockVars PROVE LockInv'
  OBVIOUS
<1>1. CASE UNCHANGED lockVars
  BY <1>1 DEF lockVars, LockInv, LockTypeOK, TicketsOut, Ahead, Readers, Writers, Waiting
<1>2. CASE NextLock
  <2> PICK t \in Threads :
        RdLock(t) \/ WrLock(t) \/ RdUnlock(t) \/ WrUnlock(t) \/ LockStep(t)
    BY <1>2 DEF NextLock
  <2>1. CASE RdLock(t)
    BY <2>1, ArriveStep DEF RdLock
  <2>2. CASE WrLock(t)
    BY <2>2, ArriveStep DEF WrLock
  <2>3. CASE RdUnlock(t)
    BY <2>3, RdUnlockStep
  <2>4. CASE WrUnlock(t)
    BY <2>4, QueuedStep DEF WrUnlock
  <2>5. CASE RdTurn(t)
    BY <2>5, QueuedStep DEF RdTurn
  <2>6. CASE RdIncrement(t)
    BY <2>6, RdIncrementStep
  <2>7. CASE WrTurn(t)
    BY <2>7, QueuedStep DEF WrTurn
  <2>8. CASE WrStore(t)
    BY <2>8, WrStoreStep
  <2> QED
    BY <2>1, <2>2, <2>3, <2>4, <2>5, <2>6, <2>7, <2>8 DEF LockStep
<1> QED
  BY <1>1, <1>2

\* The bytes of rwlock.h stay bytes, and the tickets stay in order (TicketsOut).
THEOREM TicketsInOrder == SpecLock => [](LockTypeOK /\ TicketsOut)
<1>1. SpecLock => []LockInv
  BY InitTickets, LockStepKeeps, PTL DEF SpecLock
<1> QED
  BY <1>1, PTL DEF LockInv

\* A writer that left rwlock_wrlock is alone, for any number of threads below Wrap.
THEOREM WriterExcludes == SpecLock => []Exclusion
<1>1. LockInv => Exclusion
  BY WriterAlone DEF Exclusion
<1>2. SpecLock => []LockInv
  BY InitTickets, LockStepKeeps, PTL DEF SpecLock
<1> QED
  BY <1>1, <1>2, PTL
----------------------------------------------------------------------------
(***************************************************************************)
(* First come, first served.  The tickets of those who wait follow those   *)
(* of the threads inside without a gap, so the place of a thread in the    *)
(* queue is the distance of its ticket from `write', less the threads      *)
(* inside; arriving, being let in and leaving do to these places what they *)
(* do to a queue.                                                          *)
(***************************************************************************)
Entered == Cardinality(Readers) + Cardinality(Writers)
Place == [t \in Waiting |-> Dist(write, ticket[t]) - Entered + 1]
LockQueue == [i \in DOMAIN ByTicket |-> <<ByTicket[i], Mode(ByTicket[i])>>]

InPlace ==
    /\ Cardinality(Waiting) \in Nat /\ IsFiniteSet(Waiting)
    /\ DOMAIN ByTicket = 1..Cardinality(Waiting)
    /\ \A i \in 1..Cardinality(Waiting) : ByTicket[i] \in Waiting /\ Place[ByTicket[i]] = i
    /\ \A t \in Waiting : Place[t] \in 1..Cardinality(Waiting)
    /\ \A t, u \in Waiting : Place[t] = Place[u] => t = u
QueueType ==
    LockQueue \in Seq(Threads \X {"rd", "wr"}) /\ Len(LockQueue) = Cardinality(Waiting)

\* Distinct places without a gap: as many threads are before one as its place says.
LEMMA Ranks ==
    ASSUME NEW W, IsFiniteSet(W), NEW pl \in [W -> 1..Cardinality(W)],
           \A u, v \in W : pl[u] = pl[v] => u = v
    PROVE  /\ \A i \in 1..Cardinality(W) : \E t \in W : pl[t] = i
           /\ \A t \in W : Cardinality({u \in W : pl[u] < pl[t]}) = pl[t] - 1
<1> DEFINE n == Cardinality(W)
<1>1. n \in Nat /\ IsFiniteSet(1..n) /\ Cardinality(1..n) = n
  BY FS_CardinalityType, FS_Interval
<1>2. pl \in Injection(W, 1..n)
  BY DEF Injection, IsInjective
<1>3. pl \in Surjection(W, 1..n)
  BY <1>1, <1>2, FS_Injection
<1>4. \A i \in 1..n : \E t \in W : pl[t] = i
  BY <1>3 DEF Surjection
<1>5. ASSUME NEW t \in W PROVE Cardinality({u \in W : pl[u] < pl[t]}) = pl[t] - 1
  <2> DEFINE B == {u \in W : pl[u] < pl[t]}
             f == [u \in B |-> pl[u]]
  <2>1. pl[t] \in 1..n /\ pl[t] \in Int /\ pl[t] - 1 \in Nat
    BY <1>1
  <2>2. f \in Injection(B, 1..(pl[t] - 1))
    BY <1>1, <2>1 DEF Injection, IsInjective
  <2>3. f \in Surjection(B, 1..(pl[t] - 1))
    BY <1>1, <1>4, <2>1, <2>2 DEF Surjection, Injection
  <2>4. IsFiniteSet(1..(pl[t] - 1)) /\ Cardinality(1..(pl[t] - 1)) = pl[t] - 1
    BY <2>1, FS_Interval
  <2> QED
    BY <2>2, <2>3, <2>4, FS_Injection
<1> QED
  BY <1>4, <1>5

\* Everybody at the lock has entered it or waits for it.
LEMMA EnteredOrWaiting ==
    ASSUME LockInv
    PROVE  /\ IsFiniteSet(Waiting) /\ Cardinality(Waiting) \in Nat /\ Entered \in Nat
           /\ Dist(write, users) = Entered + Cardinality(Waiting)
           /\ Writers = {} => Entered = Dist(write, read)
           /\ \A t \in Writers : Entered = 1 /\ Dist(write, read) = 0
<1>1. IsFiniteSet(Readers) /\ IsFiniteSet(Writers) /\ IsFiniteSet(Waiting)
  BY WrapAssumption, FS_Subset DEF Readers, Writers, Waiting
<1>2. /\ Cardinality(Readers) \in Nat /\ Cardinality(Writers) \in Nat
      /\ Cardinality(Waiting) \in Nat
  BY <1>1, FS_CardinalityType
<1>3. Readers \cap Writers = {} /\ (Readers \cup Writers) \cap Waiting = {}
  BY DEF Readers, Writers, Waiting
<1>4. Cardinality(Readers \cup Writers) = Entered /\ IsFiniteSet(Readers \cup Writers)
  <2>1. /\ IsFiniteSet(Readers \cup Writers)
        /\ Cardinality(Readers \cup Writers)
           = Cardinality(Readers) + Cardinality(Writers) - Cardinality(Readers \cap Writers)
    BY <1>1, FS_Union
  <2>2. Cardinality(Readers \cap Writers) = 0
    BY <1>3, FS_EmptySet
  <2> QED
    BY <1>2, <2>1, <2>2 DEF Entered
<1>5. Cardinality(Inside) = Entered + Cardinality(Waiting)
  <2>1. Cardinality((Readers \cup Writers) \cup Waiting)
        = Entered + Cardinality(Waiting) - Cardinality((Readers \cup Writers) \cap Waiting)
    BY <1>1, <1>4, FS_Union
  <2>2. Cardinality((Readers \cup Writers) \cap Waiting) = 0
    BY <1>3, FS_EmptySet
  <2>3. Inside = (Readers \cup Writers) \cup Waiting
    BY InsideSets DEF LockInv
  <2> QED
    BY <1>2, <2>1, <2>2, <2>3 DEF Entered
<1>6. Writers = {} => Entered = Dist(write, read)
  BY <1>2, FS_EmptySet, Before DEF Entered, TicketsAt
<1>7. ASSUME NEW t \in Writers PROVE Entered = 1 /\ Dist(write, read) = 0
  <2>1. Readers = {} /\ Writers = {t} /\ read = write
    BY WriterAlone
  <2>2. Cardinality(Readers) = 0 /\ Cardinality(Writers) = 1
    BY <2>1, FS_EmptySet, FS_Singleton
  <2>3. Dist(write, read) = 0
    BY <2>1, Before, DistRange
  <2> QED
    BY <2>2, <2>3 DEF Entered
<1> QED
  BY <1>1, <1>2, <1>5, <1>6, <1>7, Before DEF TicketsAt, Entered

\* The number of threads inside is one after a step as well.
EnteredType == Entered \in Nat
LEMMA EnteredNext == LockInv' => EnteredType'
<1>1. LockInv => EnteredType
  BY EnteredOrWaiting DEF EnteredType
<1> QED
  BY <1>1, PTL

\* Those who wait have distinct places, from the first on.
LEMMA Places ==
    ASSUME LockInv
    PROVE  /\ \A t \in Waiting : Place[t] \in 1..Cardinality(Waiting)
           /\ \A t, u \in Waiting : Place[t] = Place[u] => t = u
<1>1. ASSUME NEW t \in Waiting PROVE Place[t] \in 1..Cardinality(Waiting)
  <2>1. t \in Queue /\ t \notin Writers /\ Dist(write, ticket[t]) \in Int
    BY Before DEF Queue, Waiting, Writers
  <2>2. Dist(write, ticket[t]) < Entered + Cardinality(Waiting)
    BY <2>1, Before, EnteredOrWaiting DEF TicketsAt
  <2>3. CASE Writers = {}
    BY <2>1, <2>2, <2>3, Before, EnteredOrWaiting DEF TicketsAt, Place
  <2>4. CASE Writers # {}
    <3> PICK w \in Writers : TRUE
      BY <2>4
    <3>1. ticket[w] = write /\ w \in Queue
      BY Before DEF TicketsAt, Queue
    <3>2. ticket[t] # write
      BY <2>1, <3>1, Before DEF TicketsAt
    <3>3. Dist(write, ticket[t]) # 0
      BY <2>1, <3>2, Before, DistRange
    <3> QED
      BY <2>1, <2>2, <3>3, Before, EnteredOrWaiting DEF Place
  <2> QED
    BY <2>3, <2>4
<1>2. ASSUME NEW t \in Waiting, NEW u \in Waiting, Place[t] = Place[u] PROVE t = u
  <2>1. /\ t \in Queue /\ u \in Queue /\ Entered \in Int
        /\ Dist(write, ticket[t]) \in Int /\ Dist(write, ticket[u]) \in Int
    BY Before, EnteredOrWaiting DEF Queue
  <2>2. Dist(write, ticket[t]) = Dist(write, ticket[u])
    BY <1>2, <2>1 DEF Place
  <2>3. ticket[t] = ticket[u]
    BY <2>1, <2>2, Before, DistInjective
  <2> QED
    BY <2>1, <2>3, Before DEF TicketsAt
<1> QED
  BY <1>1, <1>2

\* The queue lists everybody at their place ...
LEMMA QueuePlaces == LockInv => InPlace /\ QueueType
<1> SUFFICES ASSUME LockInv PROVE InPlace /\ QueueType
  OBVIOUS
<1> DEFINE n == Cardinality(Waiting)
<1>1. IsFiniteSet(Waiting) /\ Place \in [Waiting -> 1..n] /\ n \in Nat
  BY EnteredOrWaiting, Places DEF Place
<1>2. \A u, v \in Waiting : Place[u] = Place[v] => u = v
  BY Places
<1>3. \A t \in Waiting : Cardinality({u \in Waiting : Place[u] < Place[t]}) = Place[t] - 1
  BY <1>1, <1>2, Ranks
<1>4. \A i \in 1..n : \E t \in Waiting : Place[t] = i
  BY <1>1, <1>2, Ranks
<1>5. \A t, u \in Waiting : Earlier(u, t) <=> Place[u] < Place[t]
  BY Before, EnteredOrWaiting DEF Earlier, Ahead, Dist, Place, Queue
<1>6. \A t \in Waiting : {u \in Waiting : Earlier(u, t)} = {u \in Waiting : Place[u] < Place[t]}
  BY <1>5
<1>7. \A t \in Waiting : Cardinality({u \in Waiting : Earlier(u, t)}) = Place[t] - 1
  BY <1>3, <1>6
<1>8. ASSUME NEW i \in 1..n PROVE ByTicket[i] \in Waiting /\ Place[ByTicket[i]] = i
  <2>1. \E t \in Waiting : Cardinality({u \in Waiting : Earlier(u, t)}) = i - 1
    BY <1>4, <1>7
  <2>2. ByTicket[i] = CHOOSE t \in Waiting : Cardinality({u \in Waiting : Earlier(u, t)}) = i - 1
    BY DEF ByTicket
  <2>3. /\ ByTicket[i] \in Waiting
        /\ Cardinality({u \in Waiting : Earlier(u, ByTicket[i])}) = i - 1
    BY <2>1, <2>2
  <2>4. Place[ByTicket[i]] - 1 = i - 1 /\ Place[ByTicket[i]] \in 1..n
    BY <1>7, <2>3, Places
  <2> QED
    BY <1>1, <2>3, <2>4
<1>9. LockQueue \in [1..n -> Threads \X {"rd", "wr"}]
  BY <1>8 DEF LockQueue, ByTicket, Mode, Waiting
<1>10. LockQueue \in Seq(Threads \X {"rd", "wr"}) /\ Len(LockQueue) = n
  BY <1>1, <1>9
<1> QED
  BY <1>1, <1>8, <1>10, Places DEF InPlace, QueueType, ByTicket

\* ... after a step as well.
LEMMA QueuePlacesNext == LockInv' => InPlace' /\ QueueType'
BY QueuePlaces, PTL

\* Nobody came and nobody was let in.
LEMMA SameQueue ==
    ASSUME LockInv, LockInv', Waiting' = Waiting,
           \A u \in Waiting : Place'[u] = Place[u] /\ Mode(u)' = Mode(u)
    PROVE  LockQueue' = LockQueue
<1>1. InPlace /\ InPlace' /\ QueueType /\ QueueType'
  BY QueuePlaces, QueuePlacesNext
<1>2. ASSUME NEW i \in 1..Cardinality(Waiting) PROVE ByTicket'[i] = ByTicket[i]
  <2>1. ByTicket'[i] \in Waiting /\ Place'[ByTicket'[i]] = i
    BY <1>1 DEF InPlace
  <2> QED
    BY <1>1, <2>1 DEF InPlace
<1> QED
  BY <1>1, <1>2 DEF InPlace, LockQueue, Mode

\* Somebody came: they are the last.
LEMMA LongerQueue ==
    ASSUME LockInv, LockInv', NEW t, t \notin Waiting, Waiting' = Waiting \cup {t},
           \A u \in Waiting : Place'[u] = Place[u] /\ Mode(u)' = Mode(u),
           Place'[t] = Cardinality(Waiting) + 1
    PROVE  LockQueue' = Append(LockQueue, <<t, Mode(t)'>>)
<1>1. InPlace /\ InPlace' /\ QueueType /\ QueueType'
  BY QueuePlaces, QueuePlacesNext
<1>2. Cardinality(Waiting') = Cardinality(Waiting) + 1
  BY <1>1, FS_AddElement DEF InPlace
<1> DEFINE n == Cardinality(Waiting)
           T == Threads \X {"rd", "wr"}
<1>3. ASSUME NEW i \in 1..n PROVE ByTicket'[i] = ByTicket[i]
  <2>0. i \in 1..Cardinality(Waiting')
    BY <1>1, <1>2 DEF InPlace
  <2>1. ByTicket'[i] \in Waiting' /\ Place'[ByTicket'[i]] = i
    BY <1>1, <2>0 DEF InPlace
  <2>2. ByTicket'[i] \in Waiting
    BY <1>1, <2>1 DEF InPlace
  <2>3. Place[ByTicket'[i]] = i
    BY <2>1, <2>2
  <2> QED
    BY <1>1, <2>2, <2>3 DEF InPlace
<1>4. ByTicket'[n + 1] = t
  <2>0. n + 1 \in 1..Cardinality(Waiting')
    BY <1>1, <1>2 DEF InPlace
  <2>1. ByTicket'[n + 1] \in Waiting' /\ Place'[ByTicket'[n + 1]] = n + 1
    BY <1>1, <2>0 DEF InPlace
  <2>2. t \in Waiting' /\ Place'[t] = n + 1
    OBVIOUS
  <2> QED
    BY <1>1, <2>1, <2>2 DEF InPlace
<1>5. /\ LockQueue \in Seq(T) /\ Len(LockQueue) = n /\ n \in Nat
      /\ LockQueue' \in Seq(T) /\ Len(LockQueue') = n + 1
  BY <1>1, <1>2 DEF InPlace, QueueType
<1>a. DOMAIN ByTicket = 1..n /\ DOMAIN ByTicket' = 1..(n + 1)
  BY <1>1, <1>2 DEF InPlace
<1>b. ASSUME NEW i \in 1..n PROVE LockQueue'[i] = LockQueue[i]
  <2>1. ByTicket[i] \in Waiting /\ i \in 1..(n + 1)
    BY <1>1, <1>5 DEF InPlace
  <2> QED
    BY <1>a, <1>3, <2>1 DEF LockQueue, Mode
<1>6. \A i \in 1..n : LockQueue'[i] = LockQueue[i]
  BY <1>b
<1>7. LockQueue'[n + 1] = <<t, Mode(t)'>>
  BY <1>a, <1>4, <1>5 DEF LockQueue, Mode
<1>8. <<t, Mode(t)'>> \in T
  BY <1>5, <1>7, ElementOfSeq
<1> HIDE DEF n, T
<1>9. /\ Append(LockQueue, <<t, Mode(t)'>>) \in Seq(T)
      /\ Len(Append(LockQueue, <<t, Mode(t)'>>)) = n + 1
      /\ \A i \in 1..n : Append(LockQueue, <<t, Mode(t)'>>)[i] = LockQueue[i]
      /\ Append(LockQueue, <<t, Mode(t)'>>)[n + 1] = <<t, Mode(t)'>>
  BY <1>5, <1>8, AppendProperties
<1> QED
  BY <1>5, <1>6, <1>7, <1>9, SeqEqual

\* The first was let in.
LEMMA ShorterQueue ==
    ASSUME LockInv, LockInv', NEW t \in Waiting, Place[t] = 1, Waiting' = Waiting \ {t},
           \A u \in Waiting \ {t} : Place'[u] = Place[u] - 1 /\ Mode(u)' = Mode(u)
    PROVE  LockQueue' = Tail(LockQueue) /\ LockQueue # <<>> /\ LockQueue[1] = <<t, Mode(t)>>
<1>1. InPlace /\ InPlace' /\ QueueType /\ QueueType'
  BY QueuePlaces, QueuePlacesNext
<1> DEFINE n == Cardinality(Waiting)
           T == Threads \X {"rd", "wr"}
<1>2. Cardinality(Waiting') = n - 1
  BY <1>1, FS_RemoveElement DEF InPlace
<1>3. n >= 1 /\ n \in Nat /\ ByTicket[1] = t
  BY <1>1 DEF InPlace
<1>4. ASSUME NEW i \in 1..(n - 1) PROVE ByTicket'[i] = ByTicket[i + 1] /\ ByTicket'[i] \in Waiting \ {t}
  <2>1. ByTicket'[i] \in Waiting \ {t} /\ Place'[ByTicket'[i]] = i
    BY <1>1, <1>2 DEF InPlace
  <2>2. Place[ByTicket'[i]] \in 1..n
    BY <1>1, <2>1 DEF InPlace
  <2>3. Place[ByTicket'[i]] = i + 1 /\ i + 1 \in 1..n
    BY <1>3, <2>1, <2>2
  <2> QED
    BY <1>1, <2>1, <2>3 DEF InPlace
<1>5. /\ LockQueue \in Seq(T) /\ Len(LockQueue) = n
      /\ LockQueue' \in Seq(T) /\ Len(LockQueue') = n - 1
  BY <1>1, <1>2 DEF InPlace, QueueType
<1>6. ASSUME NEW i \in 1..(n - 1) PROVE LockQueue'[i] = LockQueue[i + 1]
  <2>1. LockQueue'[i] = <<ByTicket'[i], IF lockPc'[ByTicket'[i]] = "wrwait" THEN "wr" ELSE "rd">>
    BY <1>1, <1>2 DEF InPlace, LockQueue, Mode
  <2>2. LockQueue[i + 1] = <<ByTicket[i + 1], Mode(ByTicket[i + 1])>>
    BY <1>1, <1>3 DEF InPlace, LockQueue, Mode
  <2> QED
    BY <1>4, <2>1, <2>2 DEF Mode
<1>7. LockQueue[1] = <<t, Mode(t)>>
  BY <1>1, <1>3 DEF InPlace, LockQueue, Mode
<1>8. LockQueue # <<>>
  BY <1>3, <1>5
<1> HIDE DEF n, T
<1>9. /\ Tail(LockQueue) \in Seq(T) /\ Len(Tail(LockQueue)) = n - 1
      /\ \A i \in 1..(n - 1) : Tail(LockQueue)[i] = LockQueue[i + 1]
  BY <1>5, <1>8, HeadTailProperties
<1> QED
  BY <1>3, <1>5, <1>6, <1>7, <1>8, <1>9, SeqEqual

\* How the byte `write' moves and a thread enters or leaves, a place changes accordingly.
LEMMA PlaceMoves ==
    ASSUME LockInv, NEW u \in Waiting, u \in Waiting', ticket'[u] = ticket[u], NEW d \in Int,
           Dist(write', ticket[u]) - Entered' = Dist(write, ticket[u]) - Entered - d
    PROVE  Place'[u] = Place[u] - d
<1>1. Place[u] = Dist(write, ticket[u]) - Entered + 1
  BY DEF Place
<1>2. Place'[u] = Dist(write', ticket'[u]) - Entered' + 1
  BY DEF Place
<1>3. Dist(write, ticket[u]) \in Int /\ Entered \in Int
  BY Before, EnteredOrWaiting DEF Queue
<1> QED
  BY <1>1, <1>2, <1>3

\* A thread that takes a ticket joins the queue behind everybody.
LEMMA ArriveIsFifo ==
    ASSUME LockInv, LockInv', NEW t \in Threads, NEW to \in {"rdwait", "wrwait"},
           Move(t, "out", to), TakeTicket(t)
    PROVE  /\ t \notin Readers \cup Writers \cup Waiting
           /\ LockQueue' = Append(LockQueue, <<t, IF to = "wrwait" THEN "wr" ELSE "rd">>)
           /\ Readers' = Readers /\ Writers' = Writers
<1> USE Before DEF Move, TakeTicket
<1>1. /\ t \notin Readers \cup Writers \cup Waiting
      /\ Readers' = Readers /\ Writers' = Writers /\ Waiting' = Waiting \cup {t}
  BY DEF Readers, Writers, Waiting, LockPcs
<1>2. Entered' = Entered
  BY <1>1 DEF Entered
<1>3. \A u \in Waiting : u \in Threads /\ u # t /\ ticket'[u] = ticket[u] /\ Mode(u)' = Mode(u)
  BY <1>1 DEF Waiting, Mode
<1>4. ASSUME NEW u \in Waiting PROVE Place'[u] = Place[u]
  BY <1>1, <1>2, <1>3 DEF Place
<1>5. Place'[t] = Cardinality(Waiting) + 1
  <2>1. Place'[t] = Dist(write, users) - Entered + 1
    BY <1>1, <1>2 DEF Place
  <2> QED
    BY <2>1, EnteredOrWaiting
<1>6. Mode(t)' = IF to = "wrwait" THEN "wr" ELSE "rd"
  BY DEF Mode
<1> QED
  BY <1>1, <1>3, <1>4, <1>5, <1>6, LongerQueue

\* The reader whose ticket `read' reaches is the first in the queue.
LEMMA RdIncrementIsFifo ==
    ASSUME LockInv, LockInv', NEW t \in Threads, RdIncrement(t)
    PROVE  /\ Writers = {} /\ Writers' = {} /\ Readers' = Readers \cup {t}
           /\ LockQueue' = Tail(LockQueue) /\ LockQueue # <<>> /\ LockQueue[1] = <<t, "rd">>
<1> USE Before DEF RdIncrement, Move
<1>1. /\ Readers' = Readers \cup {t} /\ t \notin Readers /\ Writers' = Writers
      /\ Waiting' = Waiting \ {t} /\ t \in Waiting /\ t \in Queue
  BY DEF Readers, Writers, Waiting, Queue, LockPcs
<1>2. ticket[t] = read
  BY DEF TicketsAt
<1>3. Writers = {}
  <2> SUFFICES ASSUME NEW w \in Writers PROVE FALSE
    OBVIOUS
  <2>1. ticket[w] = write /\ read = write /\ w \in Queue /\ w # t
    BY WriterAlone DEF TicketsAt, Queue, Writers
  <2> QED
    BY <1>1, <1>2, <2>1 DEF TicketsAt
<1>4. Entered' = Entered + 1 /\ Entered \in Nat
  <2>1. IsFiniteSet(Readers) /\ Cardinality(Readers) \in Nat
    BY InsideSets DEF LockInv
  <2>2. Cardinality(Readers') = Cardinality(Readers) + 1
    BY <1>1, <2>1, FS_AddElement
  <2> QED
    BY <1>1, <1>3, <2>1, <2>2, FS_EmptySet DEF Entered
<1>5. Place[t] = 1
  BY <1>1, <1>2, <1>3, EnteredOrWaiting DEF Place
<1>6. ASSUME NEW u \in Waiting \ {t} PROVE Place'[u] = Place[u] - 1 /\ Mode(u)' = Mode(u)
  <2>1. u \in Queue /\ Dist(write, ticket[u]) \in Int
    BY DEF Queue
  <2>2. Place'[u] = Place[u] - 1
    BY <1>1, <1>4, <2>1, PlaceMoves
  <2> QED
    BY <2>2 DEF Mode, Waiting
<1>7. Mode(t) = "rd"
  BY DEF Mode
<1> QED
  BY <1>1, <1>3, <1>5, <1>6, <1>7, ShorterQueue

\* The writer whose ticket `write' reaches is the first in the queue, and nobody is inside.
LEMMA WrTurnIsFifo ==
    ASSUME LockInv, LockInv', NEW t \in Threads, WrTurn(t)
    PROVE  /\ Writers = {} /\ Writers' = {t} /\ Readers = {} /\ Readers' = {}
           /\ LockQueue' = Tail(LockQueue) /\ LockQueue # <<>> /\ LockQueue[1] = <<t, "wr">>
<1> USE Before DEF WrTurn, Move
<1>1. /\ Readers' = Readers /\ Writers' = Writers \cup {t}
      /\ Waiting' = Waiting \ {t} /\ t \in Waiting /\ t \in Queue
  BY DEF Readers, Writers, Waiting, Queue, LockPcs
<1>2. ticket[t] = write
  OBVIOUS
<1>3. Writers = {}
  <2> SUFFICES ASSUME NEW w \in Writers PROVE FALSE
    OBVIOUS
  <2>1. ticket[w] = write /\ w \in Queue /\ w # t
    BY DEF TicketsAt, Queue, Writers
  <2> QED
    BY <1>1, <1>2, <2>1 DEF TicketsAt
<1>4. Readers = {}
  <2>1. Dist(write, ticket[t]) = 0
    BY <1>2, DistRange
  <2>2. Dist(write, read) = 0
    BY <1>1, <2>1 DEF TicketsAt
  <2>3. Cardinality(Readers) = 0 /\ IsFiniteSet(Readers)
    BY <2>2, InsideSets DEF TicketsAt, LockInv
  <2> QED
    BY <2>3, FS_EmptySet
<1>5. Entered = 0 /\ Entered' = 1
  <2>1. Cardinality(Readers) = 0 /\ Cardinality(Writers) = 0
    BY <1>3, <1>4, FS_EmptySet
  <2>2. Cardinality(Readers') = 0 /\ Cardinality(Writers') = 1
    <3>1. Writers' = {t} /\ Readers' = {}
      BY <1>1, <1>3, <1>4
    <3> QED
      BY <3>1, FS_EmptySet, FS_Singleton
  <2> QED
    BY <2>1, <2>2 DEF Entered
<1>6. Place[t] = 1
  BY <1>1, <1>2, <1>5, DistRange DEF Place
<1>7. ASSUME NEW u \in Waiting \ {t} PROVE Place'[u] = Place[u] - 1 /\ Mode(u)' = Mode(u)
  <2>1. u \in Queue /\ Dist(write, ticket[u]) \in Int
    BY DEF Queue
  <2>2. Place'[u] = Place[u] - 1
    BY <1>1, <1>5, <2>1, PlaceMoves
  <2> QED
    BY <2>2 DEF Mode, Waiting
<1>8. Mode(t) = "wr"
  BY DEF Mode
<1> QED
  BY <1>1, <1>3, <1>4, <1>6, <1>7, <1>8, ShorterQueue

\* Who leaves makes everybody's ticket one nearer and one fewer inside: the queue stays.
LEMMA LeaveIsFifo ==
    ASSUME LockInv, LockInv', NEW t \in Threads, RdUnlock(t) \/ WrStore(t)
    PROVE  /\ t \in Readers \cup Writers
           /\ Readers' = Readers \ {t} /\ Writers' = Writers \ {t}
           /\ LockQueue' = LockQueue
<1>1. /\ Readers' = Readers \ {t} /\ Writers' = Writers \ {t} /\ t \in Readers \cup Writers
      /\ Readers \cap Writers = {} /\ Waiting' = Waiting /\ t \notin Waiting
  BY Before DEF RdUnlock, WrStore, Move, Readers, Writers, Waiting, LockPcs
<1>2. Entered' = Entered - 1 /\ Entered \in Int
  <2>1. IsFiniteSet(Readers) /\ IsFiniteSet(Writers)
    BY WrapAssumption, FS_Subset DEF Readers, Writers
  <2>2. Cardinality(Readers) \in Nat /\ Cardinality(Writers) \in Nat
    BY <2>1, FS_CardinalityType
  <2>3. CASE t \in Readers
    <3>1. Cardinality(Readers') = Cardinality(Readers) - 1 /\ Writers' = Writers
      BY <1>1, <2>1, <2>3, FS_RemoveElement
    <3> QED
      BY <2>2, <3>1 DEF Entered
  <2>4. CASE t \in Writers
    <3>1. Cardinality(Writers') = Cardinality(Writers) - 1 /\ Readers' = Readers
      BY <1>1, <2>1, <2>4, FS_RemoveElement
    <3> QED
      BY <2>2, <3>1 DEF Entered
  <2> QED
    BY <1>1, <2>3, <2>4
<1>3. write' = Incremented(write)
  BY Before DEF RdUnlock, WrStore, Move, TicketsAt
<1>4. ASSUME NEW u \in Waiting PROVE Place'[u] = Place[u] /\ Mode(u)' = Mode(u)
  <2>1. /\ u \in Queue /\ u # t /\ ticket'[u] = ticket[u] /\ Mode(u)' = Mode(u)
        /\ Dist(write, ticket[u]) \in Int /\ ticket[u] \in Byte /\ write \in Byte
    BY <1>1, Before DEF RdUnlock, WrStore, Move, Queue, Mode
  <2>2. Place[u] >= 1 /\ Place[u] \in Int
    BY Places, EnteredOrWaiting
  <2>3. Place[u] = Dist(write, ticket[u]) - Entered + 1
    BY DEF Place
  <2>4. Entered >= 1
    BY <1>2, EnteredNext DEF EnteredType
  <2>5. Dist(write, ticket[u]) >= 1
    BY <1>2, <2>1, <2>2, <2>3, <2>4
  <2>6. Dist(write', ticket[u]) = Dist(write, ticket[u]) - 1
    BY <1>3, <2>1, <2>5, DistShift
  <2>7. Place'[u] = Place[u] - 0
    BY <1>1, <1>2, <2>1, <2>6, PlaceMoves
  <2> QED
    BY <2>1, <2>2, <2>7
<1> QED
  BY <1>1, <1>4, SameQueue

\* What remains goes on behind the doors: nothing of the promise changes.
LEMMA OthersAreFifo ==
    ASSUME LockInv, LockInv', NEW t \in Threads, RdTurn(t) \/ WrUnlock(t)
    PROVE  Readers' = Readers /\ Writers' = Writers /\ LockQueue' = LockQueue
<1> USE Before DEF RdTurn, WrUnlock, Move
<1>1. Readers' = Readers /\ Writers' = Writers /\ Waiting' = Waiting
  BY DEF Readers, Writers, Waiting, LockPcs
<1>2. Entered' = Entered
  BY <1>1 DEF Entered
<1>3. \A u \in Waiting : Place'[u] = Place[u] /\ Mode(u)' = Mode(u)
  BY <1>1, <1>2 DEF Place, Mode, Waiting
<1> QED
  BY <1>1, <1>3, SameQueue

\* Every step of the lock is a step of the queue of threads, or none.
LEMMA LockStepIsFifo == LockInv /\ LockInv' /\ [NextLock]_lockVars => [Fifo!Next]_(Fifo!vars)
<1> SUFFICES ASSUME LockInv, LockInv', [NextLock]_lockVars PROVE [Fifo!Next]_(Fifo!vars)
  OBVIOUS
<1>1. CASE UNCHANGED lockVars
  <2>1. Readers' = Readers /\ Writers' = Writers /\ Waiting' = Waiting
    BY <1>1 DEF lockVars, Readers, Writers, Waiting
  <2>2. \A u \in Waiting : Place'[u] = Place[u] /\ Mode(u)' = Mode(u)
    BY <1>1, <2>1 DEF lockVars, Place, Entered, Mode
  <2>3. LockQueue' = LockQueue
    BY <2>1, <2>2, SameQueue
  <2> QED
    BY <2>1, <2>3 DEF Fifo!vars, LockQueue
<1>2. CASE NextLock
  <2> PICK t \in Threads :
        RdLock(t) \/ WrLock(t) \/ RdUnlock(t) \/ WrUnlock(t) \/ LockStep(t)
    BY <1>2 DEF NextLock
  <2>1. ASSUME NEW to \in {"rdwait", "wrwait"}, Move(t, "out", to), TakeTicket(t)
        PROVE  Fifo!Next
    <3> DEFINE mode == IF to = "wrwait" THEN "wr" ELSE "rd"
    <3>1. /\ t \notin Readers \cup Writers \cup Waiting
          /\ LockQueue' = Append(LockQueue, <<t, mode>>)
          /\ Readers' = Readers /\ Writers' = Writers
      BY <2>1, ArriveIsFifo
    <3>2. Fifo!Queued \subseteq Waiting
      BY QueuePlaces DEF Fifo!Queued, InPlace, QueueType, LockQueue
    <3>3. Fifo!Arrive(t, mode)
      BY <3>1, <3>2 DEF Fifo!Arrive, LockQueue
    <3>4. mode \in {"rd", "wr"}
      OBVIOUS
    <3> QED
      BY <3>3, <3>4 DEF Fifo!Next
  <2>2. CASE RdLock(t) \/ WrLock(t)
    BY <2>1, <2>2 DEF RdLock, WrLock
  <2>3. CASE RdUnlock(t) \/ WrStore(t)
    <3>1. /\ t \in Readers \cup Writers
          /\ Readers' = Readers \ {t} /\ Writers' = Writers \ {t} /\ LockQueue' = LockQueue
      BY <2>3, LeaveIsFifo
    <3>2. Fifo!Leave(t)
      BY <3>1 DEF Fifo!Leave, LockQueue
    <3> QED
      BY <3>2 DEF Fifo!Next
  <2>4. CASE RdTurn(t) \/ WrUnlock(t)
    BY <2>4, OthersAreFifo DEF Fifo!vars, LockQueue
  <2>5. CASE RdIncrement(t)
    <3>1. /\ Writers = {} /\ Writers' = {} /\ Readers' = Readers \cup {t}
          /\ LockQueue' = Tail(LockQueue) /\ LockQueue # <<>> /\ LockQueue[1] = <<t, "rd">>
      BY <2>5, RdIncrementIsFifo
    <3>2. LockQueue[1][1] = t /\ LockQueue[1][2] = "rd"
      BY <3>1
    <3>3. Fifo!Admit
      BY <3>1, <3>2 DEF Fifo!Admit, LockQueue
    <3> QED
      BY <3>3 DEF Fifo!Next
  <2>6. CASE WrTurn(t)
    <3>1. /\ Writers = {} /\ Writers' = {t} /\ Readers = {} /\ Readers' = {}
          /\ LockQueue' = Tail(LockQueue) /\ LockQueue # <<>> /\ LockQueue[1] = <<t, "wr">>
      BY <2>6, WrTurnIsFifo
    <3>2. LockQueue[1][1] = t /\ LockQueue[1][2] = "wr"
      BY <3>1
    <3>3. Fifo!Admit
      BY <3>1, <3>2 DEF Fifo!Admit, LockQueue
    <3> QED
      BY <3>3 DEF Fifo!Next
  <2> QED
    BY <2>2, <2>3, <2>4, <2>5, <2>6 DEF LockStep
<1> QED
  BY <1>1, <1>2

\* The lock lets threads in in the order they came, readers together and a writer alone: every
\* step of it is a step of FifoRwLock, for any number of threads below Wrap.
THEOREM LockIsFifo == SpecLock => Fifo!Init /\ [][Fifo!Next]_(Fifo!vars)
<1>1. InitLock => Fifo!Init
  <2> SUFFICES ASSUME InitLock PROVE Fifo!Init
    OBVIOUS
  <2>1. Readers = {} /\ Writers = {} /\ Waiting = {}
    BY DEF InitLock, Readers, Writers, Waiting
  <2>2. Len(LockQueue) = 0 /\ LockQueue \in Seq(Threads \X {"rd", "wr"})
    BY <2>1, InitTickets, QueuePlaces, FS_EmptySet DEF QueueType
  <2>3. LockQueue = <<>>
    BY <2>2, EmptySeq
  <2> QED
    BY <2>1, <2>3 DEF Fifo!Init, LockQueue
<1>2. SpecLock => []LockInv
  BY InitTickets, LockStepKeeps, PTL DEF SpecLock
<1> QED
  BY <1>1, <1>2, LockStepIsFifo, PTL DEF SpecLock
=============================================================================
