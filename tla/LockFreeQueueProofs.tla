------------------------ MODULE LockFreeQueueProofs ------------------------
(***************************************************************************)
(* Theorems about the ring queue, for any number of producers, consumers,  *)
(* ring slots and batch sizes.                                             *)
(***************************************************************************)
EXTENDS LockFreeQueue, SequenceTheorems, TLAPS

(***************************************************************************)
(* The inductive invariant: the four counters keep their order and span at *)
(* most `mask' positions; a claim lies between the tail and the head of    *)
(* its side; claims of one side do not overlap; a claim about to be made   *)
(* is within what its thread has seen available.                           *)
(***************************************************************************)
Ordered ==
    /\ consTail <= consHead
    /\ consHead <= prodTail
    /\ prodTail <= prodHead
    /\ prodHead <= consTail + mask

ProducerOK(p) ==
    /\ prod[p].pc \in {"reserve", "claim"} => prod[p].old <= prodHead
    /\ prod[p].pc \in {"reserve", "claim"} /\ p \in SoleProducers => prod[p].old = prodHead
    /\ prod[p].pc = "reserve" => prod[p].i = 0 /\ prod[p].data # <<>>
    /\ prod[p].pc = "claim" => /\ prod[p].n <= mask + consTail - prod[p].old
                               /\ prod[p].i = 0
    /\ prod[p].pc \in {"claim", "copy", "publish"} =>
          prod[p].n >= 1 /\ prod[p].n <= Len(prod[p].data)
    /\ prod[p].pc = "copy" => prod[p].i < prod[p].n
    /\ PClaimed(p) => prodTail <= prod[p].old /\ prod[p].old + prod[p].n <= prodHead

ConsumerOK(c) ==
    /\ cons[c].pc \in {"reserve", "claim"} => cons[c].old <= consHead
    /\ cons[c].pc \in {"reserve", "claim"} /\ c \in SoleConsumers => cons[c].old = consHead
    /\ cons[c].pc = "claim" => cons[c].n <= prodTail - cons[c].old
    /\ cons[c].pc \in {"claim", "copy", "publish"} => cons[c].n >= 1
    /\ CClaimed(c) => consTail <= cons[c].old /\ cons[c].old + cons[c].n <= consHead

ProdLocals == \A p \in Producers : ProducerOK(p)
ConsLocals == \A c \in Consumers : ConsumerOK(c)

Apart(x, y) == x.old + x.n <= y.old \/ y.old + y.n <= x.old

ProdApart == \A p1, p2 \in Producers :
    p1 # p2 /\ PClaimed(p1) /\ PClaimed(p2) => Apart(prod[p1], prod[p2])

ConsApart == \A c1, c2 \in Consumers :
    c1 # c2 /\ CClaimed(c1) /\ CClaimed(c2) => Apart(cons[c1], cons[c2])

IInv == TypeOK /\ Ordered /\ ProdLocals /\ ConsLocals /\ ProdApart /\ ConsApart
----------------------------------------------------------------------------
\* The batch a caller passes is a non-empty sequence of items.
LEMMA BatchSeq == ASSUME NEW d \in Batch PROVE d \in Seq(Values) /\ d # <<>> /\ Len(d) >= 1
<1>1. PICK n \in 1..MaxBatch : d \in [1..n -> Values]
  BY DEF Batch
<1>2. n \in Nat /\ n >= 1
  BY <1>1, QueueAssumption
<1>3. d \in Seq(Values) /\ Len(d) = n
  BY <1>1, <1>2
<1> QED BY <1>2, <1>3

\* The initial state satisfies the inductive invariant.
LEMMA InitIInv == Init => IInv
<1> SUFFICES ASSUME Init PROVE IInv
  OBVIOUS
<1> USE QueueAssumption DEF Init
<1>1. IdleProducer \in ProducerRecord /\ IdleConsumer \in ConsumerRecord
  BY DEF IdleProducer, IdleConsumer, ProducerRecord, ConsumerRecord
<1>2. TypeOK
  BY <1>1 DEF TypeOK
<1>3. Ordered
  BY DEF Ordered, mask
<1>4. ProdLocals /\ ConsLocals /\ ProdApart /\ ConsApart
  BY DEF ProdLocals, ProducerOK, ConsLocals, ConsumerOK, ProdApart, ConsApart, IdleProducer, IdleConsumer, PClaimed, CClaimed
<1> QED BY <1>2, <1>3, <1>4 DEF IInv

\* A producer whose locals do not change keeps its part of the invariant while
\* the counters grow, unless the tail passes its claim.
LEMMA OtherProducer ==
    ASSUME TypeOK, TypeOK', NEW x \in Producers, ProducerOK(x), prod'[x] = prod[x],
           prodHead <= prodHead', consTail <= consTail',
           x \in SoleProducers => prodHead' = prodHead,
           PClaimed(x) => prodTail' <= prod[x].old
    PROVE  ProducerOK(x)'
<1> DEFINE r == prod[x]
<1>1. r \in ProducerRecord /\ r.old \in Nat /\ r.n \in Nat
  BY DEF TypeOK, ProducerRecord
<1>2. /\ prodHead \in Nat /\ prodHead' \in Nat /\ consTail \in Nat /\ consTail' \in Nat
      /\ mask \in Nat
  BY QueueAssumption DEF TypeOK, mask
<1>3. r.pc \in {"reserve", "claim"} => r.old <= prodHead'
  BY <1>1, <1>2 DEF ProducerOK
<1>4. r.pc = "claim" => r.n <= mask + consTail' - r.old /\ r.i = 0
  BY <1>1, <1>2 DEF ProducerOK
<1>5. PClaimed(x) => prodTail' <= r.old /\ r.old + r.n <= prodHead'
  BY <1>1, <1>2 DEF ProducerOK
<1> QED BY <1>3, <1>4, <1>5 DEF ProducerOK, PClaimed, mask

\* The same for a consumer.
LEMMA OtherConsumer ==
    ASSUME TypeOK, TypeOK', NEW x \in Consumers, ConsumerOK(x), cons'[x] = cons[x],
           consHead <= consHead', prodTail <= prodTail',
           x \in SoleConsumers => consHead' = consHead,
           CClaimed(x) => consTail' <= cons[x].old
    PROVE  ConsumerOK(x)'
<1> DEFINE r == cons[x]
<1>1. r \in ConsumerRecord /\ r.old \in Nat /\ r.n \in Nat
  BY DEF TypeOK, ConsumerRecord
<1>2. consHead \in Nat /\ consHead' \in Nat /\ prodTail \in Nat /\ prodTail' \in Nat
  BY DEF TypeOK
<1>3. r.pc \in {"reserve", "claim"} => r.old <= consHead'
  BY <1>1, <1>2 DEF ConsumerOK
<1>4. r.pc = "claim" => r.n <= prodTail' - r.old
  BY <1>1, <1>2 DEF ConsumerOK
<1>5. CClaimed(x) => consTail' <= r.old /\ r.old + r.n <= consHead'
  BY <1>1, <1>2 DEF ConsumerOK
<1> QED BY <1>3, <1>4, <1>5 DEF ConsumerOK, CClaimed

\* A step of one side keeps the other side's part of the invariant.
LEMMA ProducerFrame ==
    ASSUME IInv, TypeOK', UNCHANGED <<consHead, consTail, cons>>, prodTail <= prodTail'
    PROVE  ConsLocals' /\ ConsApart'
<1>1. TypeOK /\ ConsLocals /\ ConsApart
  BY DEF IInv
<1>2. consHead <= consHead'
  BY <1>1 DEF TypeOK
<1>3. ASSUME NEW x \in Consumers PROVE ConsumerOK(x)'
  <2>1. ConsumerOK(x) /\ (CClaimed(x) => consTail' <= cons[x].old)
    BY <1>1 DEF ConsLocals, ConsumerOK
  <2> QED BY <1>1, <1>2, <2>1, OtherConsumer
<1>4. ConsApart'
  BY <1>1 DEF ConsApart, CClaimed, Apart
<1> QED BY <1>3, <1>4 DEF ConsLocals

LEMMA ConsumerFrame ==
    ASSUME IInv, TypeOK', UNCHANGED <<prodHead, prodTail, prod>>, consTail <= consTail'
    PROVE  ProdLocals' /\ ProdApart'
<1>1. TypeOK /\ ProdLocals /\ ProdApart
  BY DEF IInv
<1>2. prodHead <= prodHead'
  BY <1>1 DEF TypeOK
<1>3. ASSUME NEW x \in Producers PROVE ProducerOK(x)'
  <2>1. ProducerOK(x) /\ (PClaimed(x) => prodTail' <= prod[x].old)
    BY <1>1 DEF ProdLocals, ProducerOK
  <2> QED BY <1>1, <1>2, <2>1, OtherProducer
<1>4. ProdApart'
  BY <1>1 DEF ProdApart, PClaimed, Apart
<1> QED BY <1>3, <1>4 DEF ProdLocals

\* The start of insert() preserves the invariant.
LEMMA InsertIInv ==
    ASSUME IInv, NEW p \in Producers, NEW data \in Batch, NEW partial \in BOOLEAN,
           Insert(p, data, partial)
    PROVE  IInv'
<1>0. TypeOK /\ Ordered /\ ProdLocals /\ ProdApart
  BY DEF IInv
<1> DEFINE r == [IdleProducer EXCEPT !.pc = "reserve", !.data = data,
                                     !.partial = partial, !.old = prodHead]
<1>1. prod' = [prod EXCEPT ![p] = r]
      /\ UNCHANGED <<prodHead, prodTail, consHead, consTail, storage, cons>>
  BY DEF Insert
<1>2. r \in ProducerRecord /\ r.pc = "reserve" /\ r.old = prodHead /\ r.i = 0 /\ r.data # <<>>
  BY Zenon, <1>0, BatchSeq DEF IdleProducer, ProducerRecord, TypeOK
<1> HIDE DEF r
<1>3. TypeOK'
  BY <1>0, <1>1, <1>2 DEF TypeOK
<1>4. prod'[p] = r /\ \A x \in Producers \ {p} : prod'[x] = prod[x]
  BY <1>0, <1>1 DEF TypeOK
<1>5. Ordered'
  BY <1>0, <1>1 DEF Ordered
<1>6. ProdLocals'
  BY <1>0, <1>1, <1>2, <1>4 DEF ProdLocals, ProducerOK, PClaimed, TypeOK
<1>7. ProdApart'
  BY <1>0, <1>2, <1>4 DEF ProdApart, PClaimed
<1>8. ConsLocals' /\ ConsApart'
  BY <1>0, <1>1, <1>3, ProducerFrame DEF TypeOK
<1> QED BY <1>3, <1>5, <1>6, <1>7, <1>8 DEF IInv

\* Comparing the request with the free entries preserves the invariant.
LEMMA InsertReserveIInv ==
    ASSUME IInv, NEW p \in Producers, InsertReserve(p)
    PROVE  IInv'
<1>0. TypeOK /\ Ordered /\ ProdLocals /\ ProdApart /\ mask \in Nat
  BY QueueAssumption DEF IInv, mask
<1> DEFINE free == FreeEntries(prod[p].old)
           n == Reserve(free, Len(prod[p].data), prod[p].partial)
           r == IF free = 0 \/ n = 0 \/ free < n
                THEN IdleProducer ELSE [prod[p] EXCEPT !.pc = "claim", !.n = n]
<1>1. /\ prod[p].pc = "reserve" /\ prod' = [prod EXCEPT ![p] = r]
      /\ UNCHANGED <<prodHead, prodTail, consHead, consTail, storage, cons>>
  BY DEF InsertReserve
<1>2. prod[p] \in ProducerRecord
  BY <1>0 DEF TypeOK
<1>3. /\ prod[p].old \in Nat /\ prod[p].old <= prodHead /\ prod[p].i = 0
      /\ p \in SoleProducers => prod[p].old = prodHead
      /\ consTail \in Nat /\ prodHead \in Nat
      /\ Len(prod[p].data) \in Nat
  <2>1. ProducerOK(p)
    BY <1>0 DEF ProdLocals
  <2>2. /\ prod[p].old <= prodHead /\ prod[p].i = 0
        /\ p \in SoleProducers => prod[p].old = prodHead
    BY Zenon, <1>1, <2>1 DEF ProducerOK
  <2>3. consTail \in Nat /\ prodHead \in Nat
    BY <1>0 DEF TypeOK
  <2>4. prod[p].old \in Nat /\ Len(prod[p].data) \in Nat
    BY <1>2 DEF ProducerRecord
  <2> QED BY <2>2, <2>3, <2>4
<1>4. free \in Nat /\ free = mask + consTail - prod[p].old
  BY <1>0, <1>3 DEF FreeEntries, Ordered
<1>5. n \in Nat /\ n <= Len(prod[p].data)
  BY <1>3, <1>4 DEF Reserve
<1>6. /\ r \in ProducerRecord
      /\ \/ r.pc = "idle"
         \/ /\ r.pc = "claim" /\ r.n = n /\ n <= free /\ n >= 1 /\ r.old = prod[p].old
            /\ r.i = 0 /\ r.data = prod[p].data
  <2>1. CASE free = 0 \/ n = 0 \/ free < n
    BY <2>1 DEF IdleProducer, ProducerRecord
  <2>2. CASE ~(free = 0 \/ n = 0 \/ free < n)
    <3> HIDE DEF n, free
    <3>1. r = [prod[p] EXCEPT !.pc = "claim", !.n = n]
      BY <2>2
    <3>2. r \in ProducerRecord /\ r.pc = "claim" /\ r.n = n /\ r.old = prod[p].old
          /\ r.i = prod[p].i /\ r.data = prod[p].data
      BY Zenon, <3>1, <1>2, <1>5 DEF ProducerRecord
    <3>3. n <= free /\ n >= 1
      BY <2>2, <1>4, <1>5
    <3> QED BY <3>2, <3>3, <1>3
  <2> QED BY <2>1, <2>2
<1> HIDE DEF r
<1>7. TypeOK'
  BY <1>0, <1>1, <1>6 DEF TypeOK
<1>8. prod'[p] = r /\ \A x \in Producers \ {p} : prod'[x] = prod[x]
  BY <1>0, <1>1 DEF TypeOK
<1>9. Ordered'
  BY <1>0, <1>1 DEF Ordered
<1>10. ProdLocals'
  BY <1>0, <1>1, <1>3, <1>4, <1>5, <1>6, <1>8 DEF ProdLocals, ProducerOK, PClaimed
<1>11. ProdApart'
  BY <1>0, <1>6, <1>8 DEF ProdApart, PClaimed
<1>12. ConsLocals' /\ ConsApart'
  BY <1>0, <1>1, <1>7, ProducerFrame DEF TypeOK
<1> QED BY <1>7, <1>9, <1>10, <1>11, <1>12 DEF IInv

\* Claiming slots preserves the invariant; a sole producer's plain store never overwrites
\* another claim.
LEMMA InsertClaimIInv ==
    ASSUME IInv, NEW p \in Producers, InsertClaim(p)
    PROVE  IInv'
<1>0. TypeOK /\ Ordered /\ ProdLocals /\ ProdApart /\ mask \in Nat
  BY QueueAssumption DEF IInv, mask
<1>1. /\ prod[p].pc = "claim"
      /\ UNCHANGED <<prodTail, consHead, consTail, storage, cons>>
  BY DEF InsertClaim
<1>2. prod \in [Producers -> ProducerRecord] /\ prod[p] \in ProducerRecord
  BY <1>0 DEF TypeOK, ProducerRecord
<1>3. /\ prodHead \in Nat /\ prodTail \in Nat /\ consTail \in Nat /\ consHead \in Nat
      /\ \A x \in Producers : prod[x].old \in Nat /\ prod[x].n \in Nat
  BY <1>0 DEF TypeOK, ProducerRecord
<1>4. /\ prod[p].n <= mask + consTail - prod[p].old /\ prod[p].n >= 1
      /\ prod[p].n <= Len(prod[p].data) /\ prod[p].i = 0 /\ prod[p].data # <<>>
      /\ p \in SoleProducers => prod[p].old = prodHead
  <2>1. prod[p].data \in Seq(Values)
    BY <1>2 DEF ProducerRecord
  <2> QED BY <1>0, <1>1, <1>3, <2>1 DEF ProdLocals, ProducerOK
<1>5. CASE InsertWins(p)
  <2>1. /\ prodHead = prod[p].old /\ prodHead' = prodHead + prod[p].n
        /\ prod' = [prod EXCEPT ![p].pc = "copy"]
    BY <1>4, <1>5 DEF InsertClaim, InsertWins
  <2> DEFINE r == [prod[p] EXCEPT !.pc = "copy"]
  <2>2. r \in ProducerRecord /\ r.pc = "copy" /\ r.old = prodHead /\ r.n = prod[p].n
        /\ r.i = 0 /\ r.data = prod[p].data
    BY Zenon, <1>2, <1>4, <2>1 DEF ProducerRecord
  <2>3. prod' = [prod EXCEPT ![p] = r]
    BY <2>1
  <2> HIDE DEF r
  <2>4. prod'[p] = r /\ \A x \in Producers \ {p} : prod'[x] = prod[x]
    BY <1>2, <2>3
  <2>5. TypeOK'
    BY <1>0, <1>1, <1>3, <2>1, <2>2, <2>3 DEF TypeOK
  <2>6. Ordered'
    <3>1. prodHead + prod[p].n <= mask + consTail /\ prodHead <= prodHead + prod[p].n
      BY <1>0, <1>3, <1>4, <2>1
    <3> QED BY <1>0, <1>1, <1>3, <2>1, <3>1 DEF Ordered, mask
  <2>7. ProdLocals'
    <3> SUFFICES ASSUME NEW x \in Producers PROVE ProducerOK(x)'
      BY DEF ProdLocals
    <3>1. CASE x = p
      <4>1. r.i < r.n /\ prodTail' <= r.old /\ r.old + r.n <= prodHead'
        BY <1>0, <1>1, <1>3, <1>4, <2>1, <2>2 DEF Ordered
      <4> QED BY <3>1, <4>1, <1>4, <2>2, <2>4 DEF ProducerOK, PClaimed
    <3>2. CASE x # p
      <4>1. /\ prod'[x] = prod[x] /\ ProducerOK(x) /\ x \notin SoleProducers
            /\ PClaimed(x) => prodTail' <= prod[x].old
        BY <3>2, <1>0, <1>1, <2>4, QueueAssumption DEF ProdLocals, ProducerOK
      <4>2. prodHead <= prodHead' /\ consTail <= consTail'
        BY <1>1, <1>3, <2>1
      <4> QED BY <4>1, <4>2, <1>0, <2>5, OtherProducer
    <3> QED BY <3>1, <3>2
  <2>8. ProdApart'
    <3>1. \A x \in Producers : PClaimed(x) => prod[x].old + prod[x].n <= r.old
      BY <1>0, <2>2 DEF ProdLocals, ProducerOK
    <3>2. \A x \in Producers \ {p} : PClaimed(x)' => PClaimed(x)
      BY <2>4 DEF PClaimed
    <3> QED BY <1>0, <2>4, <3>1, <3>2 DEF ProdApart, Apart
  <2>9. ConsLocals' /\ ConsApart'
    BY <1>1, <1>3, <2>5, ProducerFrame
  <2> QED BY <2>5, <2>6, <2>7, <2>8, <2>9 DEF IInv
<1>6. CASE ~InsertWins(p)
  <2>1. prodHead' = prodHead
        /\ prod' = [prod EXCEPT ![p] = [prod[p] EXCEPT !.pc = "reserve", !.old = prodHead]]
    BY Zenon, <1>2, <1>6 DEF InsertClaim
  <2> DEFINE r == [prod[p] EXCEPT !.pc = "reserve", !.old = prodHead]
  <2>2. r \in ProducerRecord /\ r.pc = "reserve" /\ r.old = prodHead
        /\ r.i = 0 /\ r.data # <<>>
    BY Zenon, <1>2, <1>3, <1>4 DEF ProducerRecord
  <2>3. prod' = [prod EXCEPT ![p] = r]
    BY <2>1
  <2> HIDE DEF r
  <2>4. prod'[p] = r /\ \A x \in Producers \ {p} : prod'[x] = prod[x]
    BY <1>2, <2>3
  <2>5. TypeOK'
    BY <1>0, <1>1, <1>3, <2>1, <2>2, <2>3 DEF TypeOK
  <2>6. Ordered'
    BY <1>0, <1>1, <2>1 DEF Ordered
  <2>7. ProdLocals'
    BY <1>0, <1>1, <1>3, <2>1, <2>2, <2>4 DEF ProdLocals, ProducerOK, PClaimed
  <2>8. ProdApart'
    BY <1>0, <2>2, <2>4 DEF ProdApart, PClaimed
  <2>9. ConsLocals' /\ ConsApart'
    BY <1>1, <1>3, <2>5, ProducerFrame
  <2> QED BY <2>5, <2>6, <2>7, <2>8, <2>9 DEF IInv
<1> QED BY <1>5, <1>6

\* Constructing an item in a claimed slot preserves the invariant.
LEMMA InsertCopyIInv ==
    ASSUME IInv, NEW p \in Producers, InsertCopy(p)
    PROVE  IInv'
<1>0. TypeOK /\ Ordered /\ ProdLocals /\ ProdApart
  BY DEF IInv
<1> DEFINE old == prod[p].old
           i == prod[p].i
           n == prod[p].n
           item == prod[p].data[i + 1]
           j == i + 1
           pc == IF j = n THEN "publish" ELSE prod[p].pc
           r == [prod[p] EXCEPT !.i = j, !.pc = pc]
<1>1. /\ prod[p].pc = "copy"
      /\ storage' = [storage EXCEPT ![(old + i) % Size] = item]
      /\ UNCHANGED <<prodHead, prodTail, consHead, consTail, cons>>
  BY DEF InsertCopy
<1>2. /\ prod \in [Producers -> ProducerRecord] /\ prod[p] \in ProducerRecord
      /\ prod[p].data \in Seq(Values) /\ i \in Nat /\ n \in Nat /\ old \in Nat
  BY <1>0 DEF TypeOK, ProducerRecord
<1>3. prod' = [prod EXCEPT ![p] = r]
  BY <1>2 DEF InsertCopy
<1>4. /\ n >= 1 /\ n <= Len(prod[p].data) /\ i < n
      /\ prodTail <= old /\ old + n <= prodHead
  BY <1>0, <1>1 DEF ProdLocals, ProducerOK, PClaimed
<1>5. item \in Values
  BY <1>2, <1>4
<1>6. r \in ProducerRecord /\ r.pc \in {"copy", "publish"} /\ r.old = old /\ r.n = n
      /\ r.data = prod[p].data /\ (r.pc = "copy" => r.i < n)
  <2>1. j \in Nat /\ pc \in {"copy", "publish"} /\ (pc = "copy" => j < n)
    <3>1. j \in Nat /\ j <= n
      BY <1>2, <1>4
    <3>2. CASE j = n
      BY <3>1, <3>2
    <3>3. CASE j # n
      <4>1. pc = "copy"
        BY <3>3, <1>1
      <4> QED BY <4>1, <3>1, <3>3, <1>2
    <3> QED BY <3>2, <3>3
  <2> HIDE DEF j, pc
  <2>2. r \in ProducerRecord /\ r.pc = pc /\ r.i = j /\ r.old = old /\ r.n = n
        /\ r.data = prod[p].data
    BY <2>1, <1>2 DEF ProducerRecord
  <2> QED BY <2>1, <2>2
<1> HIDE DEF r, item
<1>7. prod'[p] = r /\ \A x \in Producers \ {p} : prod'[x] = prod[x]
  BY <1>2, <1>3
<1>8. TypeOK'
  <2>1. storage' \in [Ring -> Values \cup {NoItem}]
    BY <1>0, <1>1, <1>5 DEF TypeOK
  <2> QED BY <2>1, <1>0, <1>1, <1>2, <1>3, <1>6 DEF TypeOK
<1>9. Ordered'
  BY <1>0, <1>1 DEF Ordered, mask
<1>10. ProdLocals'
  <2> SUFFICES ASSUME NEW x \in Producers PROVE ProducerOK(x)'
    BY DEF ProdLocals
  <2>1. CASE x = p
    BY <2>1, <1>1, <1>4, <1>6, <1>7 DEF ProducerOK, PClaimed
  <2>2. CASE x # p
    BY <2>2, <1>0, <1>1, <1>7 DEF ProdLocals, ProducerOK, PClaimed, mask
  <2> QED BY <2>1, <2>2
<1>11. ProdApart'
  <2>1. \A x \in Producers : /\ PClaimed(x)' => PClaimed(x)
                             /\ prod'[x].old = prod[x].old /\ prod'[x].n = prod[x].n
    BY <1>1, <1>6, <1>7 DEF PClaimed
  <2> QED BY <2>1, <1>0 DEF ProdApart, Apart
<1>12. ConsLocals' /\ ConsApart'
  BY <1>0, <1>1, <1>8, ProducerFrame DEF TypeOK
<1> QED BY <1>8, <1>9, <1>10, <1>11, <1>12 DEF IInv

\* Publishing a claim preserves the invariant: it is the oldest one.
LEMMA InsertPublishIInv ==
    ASSUME IInv, NEW p \in Producers, InsertPublish(p)
    PROVE  IInv'
<1>0. TypeOK /\ Ordered /\ ProdLocals /\ ProdApart
  BY DEF IInv
<1>1. /\ prod[p].pc = "publish" /\ prodTail = prod[p].old
      /\ prodTail' = prod[p].old + prod[p].n
      /\ prod' = [prod EXCEPT ![p] = IdleProducer]
      /\ UNCHANGED <<prodHead, consHead, consTail, storage, cons>>
  BY DEF InsertPublish, ProducerTurn
<1>2. /\ prodHead \in Nat /\ prodTail \in Nat /\ consTail \in Nat /\ consHead \in Nat
      /\ \A x \in Producers : prod[x].old \in Nat /\ prod[x].n \in Nat
  BY <1>0 DEF TypeOK, ProducerRecord
<1>3. prod[p].n >= 1 /\ prod[p].old + prod[p].n <= prodHead
  BY <1>0, <1>1 DEF ProdLocals, ProducerOK, PClaimed
<1>4. prodTail' \in Nat /\ prodTail <= prodTail' /\ prodTail' <= prodHead
  BY <1>1, <1>2, <1>3
<1>5. IdleProducer \in ProducerRecord /\ IdleProducer.pc = "idle"
  BY DEF IdleProducer, ProducerRecord
<1>6. prod'[p] = IdleProducer /\ \A x \in Producers \ {p} : prod'[x] = prod[x]
  BY <1>0, <1>1 DEF TypeOK
<1>7. TypeOK'
  BY <1>0, <1>1, <1>4, <1>5 DEF TypeOK
<1>8. Ordered'
  BY <1>0, <1>1, <1>2, <1>4 DEF Ordered, mask
<1>9. ProdLocals'
  <2> SUFFICES ASSUME NEW x \in Producers PROVE ProducerOK(x)'
    BY DEF ProdLocals
  <2>1. CASE x = p
    BY <2>1, <1>5, <1>6 DEF ProducerOK, PClaimed
  <2>2. CASE x # p
    <3>1. ProducerOK(x) /\ prod'[x] = prod[x]
      BY <2>2, <1>0, <1>6 DEF ProdLocals
    <3>2. ASSUME PClaimed(x) PROVE prodTail' <= prod[x].old
      <4>1. prodTail <= prod[x].old /\ prod[x].n >= 1
        BY <3>1, <3>2 DEF ProducerOK, PClaimed
      <4>2. Apart(prod[p], prod[x])
        BY <2>2, <3>2, <1>0, <1>1 DEF ProdApart, PClaimed
      <4> QED BY <4>1, <4>2, <1>1, <1>2 DEF Apart
    <3>3. prodHead <= prodHead' /\ prodHead' = prodHead /\ consTail <= consTail'
      BY <1>1, <1>2
    <3> QED BY <3>1, <3>2, <3>3, <1>0, <1>7, OtherProducer
  <2> QED BY <2>1, <2>2
<1>10. ProdApart'
  BY <1>0, <1>5, <1>6 DEF ProdApart, PClaimed
<1>11. ConsLocals' /\ ConsApart'
  BY <1>1, <1>4, <1>7, ProducerFrame
<1> QED BY <1>7, <1>8, <1>9, <1>10, <1>11 DEF IInv

\* The start of pop() preserves the invariant.
LEMMA PopIInv ==
    ASSUME IInv, NEW c \in Consumers, NEW count \in 1..MaxBatch, NEW partial \in BOOLEAN,
           Pop(c, count, partial)
    PROVE  IInv'
<1>0. TypeOK /\ Ordered /\ ConsLocals /\ ConsApart
  BY DEF IInv
<1> DEFINE r == [IdleConsumer EXCEPT !.pc = "reserve", !.count = count,
                                     !.partial = partial, !.old = consHead]
<1>1. cons' = [cons EXCEPT ![c] = r]
      /\ UNCHANGED <<prodHead, prodTail, consHead, consTail, storage, prod>>
  BY DEF Pop
<1>2. count \in Nat /\ consHead \in Nat
  BY <1>0, QueueAssumption DEF TypeOK
<1>3. r \in ConsumerRecord /\ r.pc = "reserve" /\ r.old = consHead
  <2>1. IdleConsumer \in ConsumerRecord
    BY DEF IdleConsumer, ConsumerRecord
  <2> QED BY <1>2, <2>1 DEF ConsumerRecord
<1> HIDE DEF r
<1>4. TypeOK'
  BY <1>0, <1>1, <1>3 DEF TypeOK
<1>5. cons'[c] = r /\ \A x \in Consumers \ {c} : cons'[x] = cons[x]
  BY <1>0, <1>1 DEF TypeOK
<1>6. Ordered'
  BY <1>0, <1>1 DEF Ordered, mask
<1>7. ConsLocals'
  BY <1>0, <1>1, <1>2, <1>3, <1>5 DEF ConsLocals, ConsumerOK, CClaimed
<1>8. ConsApart'
  BY <1>0, <1>3, <1>5 DEF ConsApart, CClaimed
<1>9. ProdLocals' /\ ProdApart'
  BY <1>0, <1>1, <1>4, ConsumerFrame DEF TypeOK
<1> QED BY <1>4, <1>6, <1>7, <1>8, <1>9 DEF IInv

\* Comparing the request with the ready entries preserves the invariant.
LEMMA PopReserveIInv ==
    ASSUME IInv, NEW c \in Consumers, PopReserve(c)
    PROVE  IInv'
<1>0. TypeOK /\ Ordered /\ ConsLocals /\ ConsApart
  BY DEF IInv
<1> DEFINE ready == prodTail - cons[c].old
           n == Reserve(ready, cons[c].count, cons[c].partial)
           r == IF ready > mask THEN [cons[c] EXCEPT !.pc = "panic"]
                ELSE IF ready = 0 \/ n = 0 \/ ready < n THEN IdleConsumer
                ELSE [cons[c] EXCEPT !.pc = "claim", !.n = n]
<1>1. /\ cons[c].pc = "reserve" /\ cons' = [cons EXCEPT ![c] = r]
      /\ UNCHANGED <<prodHead, prodTail, consHead, consTail, storage, prod>>
  BY DEF PopReserve
<1>2. cons[c] \in ConsumerRecord /\ cons[c].old \in Nat /\ cons[c].count \in Nat
      /\ prodTail \in Nat /\ consHead \in Nat
  BY <1>0 DEF TypeOK, ConsumerRecord
<1>3. cons[c].old <= consHead /\ (c \in SoleConsumers => cons[c].old = consHead)
  BY <1>0, <1>1 DEF ConsLocals, ConsumerOK
<1>4. ready \in Nat
  BY <1>0, <1>2, <1>3 DEF Ordered
<1>5. n \in Nat
  BY <1>2, <1>4 DEF Reserve
<1>6. /\ r \in ConsumerRecord
      /\ \/ r.pc \in {"idle", "panic"}
         \/ r.pc = "claim" /\ r.n <= ready /\ r.n >= 1 /\ r.old = cons[c].old
  <2> HIDE DEF n, ready
  <2>1. CASE ready > mask
    BY <2>1, <1>2 DEF ConsumerRecord
  <2>2. CASE ~(ready > mask) /\ (ready = 0 \/ n = 0 \/ ready < n)
    BY <2>2 DEF IdleConsumer, ConsumerRecord
  <2>3. CASE ~(ready > mask) /\ ~(ready = 0 \/ n = 0 \/ ready < n)
    <3>1. r = [cons[c] EXCEPT !.pc = "claim", !.n = n]
      BY <2>3
    <3>2. r \in ConsumerRecord /\ r.pc = "claim" /\ r.n = n /\ r.old = cons[c].old
      BY <3>1, <1>2, <1>5 DEF ConsumerRecord
    <3>3. n <= ready /\ n >= 1
      BY <2>3, <1>4, <1>5
    <3> QED BY <3>2, <3>3
  <2> QED BY <2>1, <2>2, <2>3
<1> HIDE DEF r
<1>7. TypeOK'
  BY <1>0, <1>1, <1>6 DEF TypeOK
<1>8. cons'[c] = r /\ \A x \in Consumers \ {c} : cons'[x] = cons[x]
  BY <1>0, <1>1 DEF TypeOK
<1>9. Ordered'
  BY <1>0, <1>1 DEF Ordered, mask
<1>10. ConsLocals'
  BY <1>0, <1>1, <1>3, <1>6, <1>8 DEF ConsLocals, ConsumerOK, CClaimed
<1>11. ConsApart'
  BY <1>0, <1>6, <1>8 DEF ConsApart, CClaimed
<1>12. ProdLocals' /\ ProdApart'
  BY <1>0, <1>1, <1>7, ConsumerFrame DEF TypeOK
<1> QED BY <1>7, <1>9, <1>10, <1>11, <1>12 DEF IInv

\* Claiming items preserves the invariant; a sole consumer's plain store never
\* overwrites another claim.
LEMMA PopClaimIInv ==
    ASSUME IInv, NEW c \in Consumers, PopClaim(c)
    PROVE  IInv'
<1>0. TypeOK /\ Ordered /\ ConsLocals /\ ConsApart
  BY DEF IInv
<1>1. cons[c].pc = "claim" /\ UNCHANGED <<prodHead, prodTail, consTail, storage, prod>>
  BY DEF PopClaim
<1>2. /\ cons \in [Consumers -> ConsumerRecord] /\ cons[c] \in ConsumerRecord
      /\ prodHead \in Nat /\ prodTail \in Nat /\ consTail \in Nat /\ consHead \in Nat
      /\ \A x \in Consumers : cons[x].old \in Nat /\ cons[x].n \in Nat
  BY <1>0 DEF TypeOK, ConsumerRecord
<1>3. /\ cons[c].n <= prodTail - cons[c].old /\ cons[c].n >= 1
      /\ c \in SoleConsumers => cons[c].old = consHead
  BY <1>0, <1>1 DEF ConsLocals, ConsumerOK
<1>4. CASE ClaimWins(c)
  <2> DEFINE r == [cons[c] EXCEPT !.pc = "copy"]
  <2>1. /\ cons[c].old = consHead /\ consHead' = consHead + cons[c].n
        /\ cons' = [cons EXCEPT ![c] = r]
    BY <1>2, <1>3, <1>4 DEF PopClaim, ClaimWins
  <2>2. r \in ConsumerRecord /\ r.pc = "copy" /\ r.old = consHead /\ r.n = cons[c].n
    BY <1>2, <2>1 DEF ConsumerRecord
  <2> HIDE DEF r
  <2>3. cons'[c] = r /\ \A x \in Consumers \ {c} : cons'[x] = cons[x]
    BY <1>2, <2>1
  <2>4. TypeOK'
    BY <1>0, <1>1, <1>2, <2>1, <2>2 DEF TypeOK
  <2>5. consHead <= consHead' /\ consHead' <= prodTail
    BY <1>2, <1>3, <2>1
  <2>6. Ordered'
    BY <1>0, <1>1, <1>2, <2>1, <2>5 DEF Ordered, mask
  <2>7. ConsLocals'
    <3> SUFFICES ASSUME NEW x \in Consumers PROVE ConsumerOK(x)'
      BY DEF ConsLocals
    <3>1. CASE x = c
      BY <3>1, <1>0, <1>1, <1>2, <1>3, <2>1, <2>2, <2>3 DEF ConsumerOK, CClaimed, Ordered
    <3>2. CASE x # c
      <4>1. /\ cons'[x] = cons[x] /\ ConsumerOK(x) /\ x \notin SoleConsumers
            /\ CClaimed(x) => consTail' <= cons[x].old
        BY <3>2, <1>0, <1>1, <2>3, QueueAssumption DEF ConsLocals, ConsumerOK
      <4>2. prodTail <= prodTail'
        BY <1>1, <1>2
      <4> QED BY <4>1, <4>2, <1>0, <2>4, <2>5, OtherConsumer
    <3> QED BY <3>1, <3>2
  <2>8. ConsApart'
    <3>1. \A x \in Consumers : CClaimed(x) => cons[x].old + cons[x].n <= r.old
      BY <1>0, <2>2 DEF ConsLocals, ConsumerOK
    <3>2. \A x \in Consumers \ {c} : CClaimed(x)' => CClaimed(x)
      BY <2>3 DEF CClaimed
    <3> QED BY <1>0, <2>3, <3>1, <3>2 DEF ConsApart, Apart
  <2>9. ProdLocals' /\ ProdApart'
    BY <1>1, <1>2, <2>4, ConsumerFrame
  <2> QED BY <2>4, <2>6, <2>7, <2>8, <2>9 DEF IInv
<1>5. CASE ~ClaimWins(c)
  <2> DEFINE r == [cons[c] EXCEPT !.pc = "reserve", !.old = consHead]
  <2>1. consHead' = consHead /\ cons' = [cons EXCEPT ![c] = r]
    BY <1>2, <1>5 DEF PopClaim
  <2>2. r \in ConsumerRecord /\ r.pc = "reserve" /\ r.old = consHead
    BY <1>2 DEF ConsumerRecord
  <2> HIDE DEF r
  <2>3. cons'[c] = r /\ \A x \in Consumers \ {c} : cons'[x] = cons[x]
    BY <1>2, <2>1
  <2>4. TypeOK'
    BY <1>0, <1>1, <1>2, <2>1, <2>2 DEF TypeOK
  <2>5. Ordered'
    BY <1>0, <1>1, <2>1 DEF Ordered, mask
  <2>6. ConsLocals'
    BY <1>0, <1>1, <1>2, <2>1, <2>2, <2>3 DEF ConsLocals, ConsumerOK, CClaimed
  <2>7. ConsApart'
    BY <1>0, <2>2, <2>3 DEF ConsApart, CClaimed
  <2>8. ProdLocals' /\ ProdApart'
    BY <1>1, <1>2, <2>4, ConsumerFrame
  <2> QED BY <2>4, <2>5, <2>6, <2>7, <2>8 DEF IInv
<1> QED BY <1>4, <1>5

\* Copying an item out and destroying it preserves the invariant.
LEMMA PopCopyIInv ==
    ASSUME IInv, NEW c \in Consumers, PopCopy(c)
    PROVE  IInv'
<1>0. TypeOK /\ Ordered /\ ConsLocals /\ ConsApart
  BY DEF IInv
<1> DEFINE s == (cons[c].old + Len(cons[c].out)) % Size
           out == Append(cons[c].out, storage[s])
           pc == IF Len(cons[c].out) + 1 = cons[c].n THEN "publish" ELSE cons[c].pc
           r == [cons[c] EXCEPT !.out = out, !.pc = pc]
<1>1. /\ cons[c].pc = "copy" /\ storage' = [storage EXCEPT ![s] = NoItem]
      /\ UNCHANGED <<prodHead, prodTail, consHead, consTail, prod>>
  BY DEF PopCopy
<1>2. /\ cons \in [Consumers -> ConsumerRecord] /\ cons[c] \in ConsumerRecord
      /\ cons[c].out \in Seq(Values \cup {NoItem}) /\ cons[c].old \in Nat
  BY <1>0 DEF TypeOK, ConsumerRecord
<1>3. cons' = [cons EXCEPT ![c] = r]
  BY <1>2 DEF PopCopy
<1>4. out \in Seq(Values \cup {NoItem})
  <2>1. Len(cons[c].out) \in Nat
    BY <1>2
  <2>2. s \in Ring
    BY <1>2, <2>1, QueueAssumption DEF Ring, mask
  <2>3. storage[s] \in Values \cup {NoItem}
    BY <2>2, <1>0 DEF TypeOK
  <2> QED BY <2>3, <1>2
<1>5. pc \in {"copy", "publish"}
  BY <1>1
<1> HIDE DEF out, pc
<1>6. r \in ConsumerRecord /\ r.pc \in {"copy", "publish"}
      /\ r.old = cons[c].old /\ r.n = cons[c].n
  BY <1>2, <1>4, <1>5 DEF ConsumerRecord
<1> HIDE DEF r
<1>7. cons'[c] = r /\ \A x \in Consumers \ {c} : cons'[x] = cons[x]
  BY <1>2, <1>3
<1>8. TypeOK'
  <2>1. storage' \in [Ring -> Values \cup {NoItem}]
    BY <1>0, <1>1 DEF TypeOK
  <2> QED BY <2>1, <1>0, <1>1, <1>2, <1>3, <1>6 DEF TypeOK
<1>9. Ordered'
  BY <1>0, <1>1 DEF Ordered, mask
<1>10. ConsLocals'
  BY <1>0, <1>1, <1>6, <1>7 DEF ConsLocals, ConsumerOK, CClaimed
<1>11. ConsApart'
  <2>1. \A x \in Consumers : /\ CClaimed(x)' => CClaimed(x)
                             /\ cons'[x].old = cons[x].old /\ cons'[x].n = cons[x].n
    BY <1>1, <1>6, <1>7 DEF CClaimed
  <2> QED BY <2>1, <1>0 DEF ConsApart, Apart
<1>12. ProdLocals' /\ ProdApart'
  BY <1>0, <1>1, <1>8, ConsumerFrame DEF TypeOK
<1> QED BY <1>8, <1>9, <1>10, <1>11, <1>12 DEF IInv

\* Giving the oldest claimed slots back preserves the invariant.
LEMMA PopPublishIInv ==
    ASSUME IInv, NEW c \in Consumers, PopPublish(c)
    PROVE  IInv'
<1>0. TypeOK /\ Ordered /\ ConsLocals /\ ConsApart
  BY DEF IInv
<1>1. /\ cons[c].pc = "publish" /\ consTail = cons[c].old
      /\ consTail' = cons[c].old + cons[c].n
      /\ cons' = [cons EXCEPT ![c] = IdleConsumer]
      /\ UNCHANGED <<prodHead, prodTail, consHead, storage, prod>>
  BY DEF PopPublish, ConsumerTurn
<1>2. /\ prodHead \in Nat /\ prodTail \in Nat /\ consTail \in Nat /\ consHead \in Nat
      /\ mask \in Nat /\ \A x \in Consumers : cons[x].old \in Nat /\ cons[x].n \in Nat
  BY <1>0, QueueAssumption DEF TypeOK, ConsumerRecord, mask
<1>3. cons[c].n >= 1 /\ cons[c].old + cons[c].n <= consHead
  BY <1>0, <1>1 DEF ConsLocals, ConsumerOK, CClaimed
<1>4. consTail' \in Nat /\ consTail <= consTail' /\ consTail' <= consHead
  BY <1>1, <1>2, <1>3
<1>5. IdleConsumer \in ConsumerRecord /\ IdleConsumer.pc = "idle"
  BY DEF IdleConsumer, ConsumerRecord
<1>6. cons'[c] = IdleConsumer /\ \A x \in Consumers \ {c} : cons'[x] = cons[x]
  BY <1>0, <1>1 DEF TypeOK
<1>7. TypeOK'
  BY <1>0, <1>1, <1>4, <1>5 DEF TypeOK
<1>8. Ordered'
  <2>1. prodHead <= consTail' + mask
    BY <1>0, <1>2, <1>4 DEF Ordered
  <2> QED BY <2>1, <1>0, <1>1, <1>4 DEF Ordered, mask
<1>9. ConsLocals'
  <2> SUFFICES ASSUME NEW x \in Consumers PROVE ConsumerOK(x)'
    BY DEF ConsLocals
  <2>1. CASE x = c
    BY <2>1, <1>5, <1>6 DEF ConsumerOK, CClaimed
  <2>2. CASE x # c
    <3>1. ConsumerOK(x) /\ cons'[x] = cons[x]
      BY <2>2, <1>0, <1>6 DEF ConsLocals
    <3>2. ASSUME CClaimed(x) PROVE consTail' <= cons[x].old
      <4>1. consTail <= cons[x].old /\ cons[x].n >= 1
        BY <3>1, <3>2 DEF ConsumerOK, CClaimed
      <4>2. Apart(cons[c], cons[x])
        BY <2>2, <3>2, <1>0, <1>1 DEF ConsApart, CClaimed
      <4> QED BY <4>1, <4>2, <1>1, <1>2 DEF Apart
    <3>3. consHead <= consHead' /\ consHead' = consHead /\ prodTail <= prodTail'
      BY <1>1, <1>2
    <3> QED BY <3>1, <3>2, <3>3, <1>0, <1>7, OtherConsumer
  <2> QED BY <2>1, <2>2
<1>10. ConsApart'
  BY <1>0, <1>5, <1>6 DEF ConsApart, CClaimed
<1>11. ProdLocals' /\ ProdApart'
  BY <1>1, <1>4, <1>7, ConsumerFrame
<1> QED BY <1>7, <1>8, <1>9, <1>10, <1>11 DEF IInv

\* Every step preserves the inductive invariant.
LEMMA NextIInv == IInv /\ [Next]_vars => IInv'
<1> SUFFICES ASSUME IInv, [Next]_vars PROVE IInv'
  OBVIOUS
<1>1. CASE Next
  <2>1. ASSUME NEW p \in Producers, ProducerStep(p) PROVE IInv'
    BY <2>1, InsertReserveIInv, InsertClaimIInv, InsertCopyIInv, InsertPublishIInv
       DEF ProducerStep
  <2>2. ASSUME NEW c \in Consumers, ConsumerStep(c) PROVE IInv'
    BY <2>2, PopReserveIInv, PopClaimIInv, PopCopyIInv, PopPublishIInv DEF ConsumerStep
  <2> QED BY <1>1, <2>1, <2>2, InsertIInv, PopIInv DEF Next
<1>2. CASE UNCHANGED vars
  BY <1>2 DEF vars, IInv, TypeOK, Ordered, ProdLocals, ConsLocals, ProducerOK, ConsumerOK,
              ProdApart, ConsApart, PClaimed, CClaimed, mask
<1> QED BY <1>1, <1>2
----------------------------------------------------------------------------
\* The counters and the operations in progress stay well formed.
THEOREM TypeCorrect == Spec => []TypeOK
<1>1. IInv => TypeOK
  BY DEF IInv
<1> QED BY <1>1, InitIInv, NextIInv, PTL DEF Spec

\* The assertions insert() and pop() make after a successful claim never fail.
THEOREM ReservationsAlwaysValid == Spec => []ReservationsValid
<1>1. IInv => ReservationsValid
  <2> SUFFICES ASSUME IInv PROVE ReservationsValid
    OBVIOUS
  <2>0. TypeOK /\ Ordered /\ ProdLocals /\ ConsLocals /\ mask \in Nat
    BY QueueAssumption DEF IInv, mask
  <2>1. ASSUME NEW p \in Producers, prod[p].pc = "copy"
        PROVE  prod[p].n <= mask + consTail - prod[p].old
    <3>1. prod[p].old + prod[p].n <= prodHead
      BY <2>0, <2>1 DEF ProdLocals, ProducerOK, PClaimed
    <3> QED BY <3>1, <2>0 DEF Ordered, TypeOK, ProducerRecord
  <2>2. ASSUME NEW c \in Consumers, cons[c].pc = "copy"
        PROVE  cons[c].n <= prodTail - cons[c].old
    <3>1. cons[c].old + cons[c].n <= consHead
      BY <2>0, <2>2 DEF ConsLocals, ConsumerOK, CClaimed
    <3> QED BY <3>1, <2>0 DEF Ordered, TypeOK, ConsumerRecord
  <2> QED BY <2>1, <2>2 DEF ReservationsValid
<1> QED BY <1>1, InitIInv, NextIInv, PTL DEF Spec

\* Positions less than a turn of the ring apart occupy different slots.
LEMMA SlotsDiffer ==
    ASSUME NEW j \in Nat, NEW k \in Nat, j < k, k - j < Size
    PROVE  j % Size # k % Size
<1> DEFINE q == k \div Size - j \div Size
<1>0. Size \in Nat \ {0}
  BY QueueAssumption
<1>1. /\ j = Size * (j \div Size) + (j % Size)
      /\ k = Size * (k \div Size) + (k % Size)
      /\ j \div Size \in Int
      /\ k \div Size \in Int
  BY <1>0
<1>2. SUFFICES ASSUME j % Size = k % Size PROVE FALSE
  OBVIOUS
<1>3. q \in Int /\ k - j = Size * q
  BY <1>0, <1>1, <1>2
<1>4. CASE q <= 0
  <2>1. Size * q <= 0
    BY <1>0, <1>3, <1>4
  <2> QED BY <2>1, <1>3
<1>5. CASE q >= 1
  <2>1. Size * q >= Size
    BY <1>0, <1>3, <1>5
  <2>2. k - j >= Size
    BY <2>1, <1>3
  <2> QED BY <2>2, <1>0
<1> QED BY <1>3, <1>4, <1>5

\* Two claims that lie apart within `mask' positions share no slot.
LEMMA ApartSlots ==
    ASSUME NEW a \in Nat, NEW m \in Nat, NEW b \in Nat, NEW n \in Nat, NEW lo \in Nat,
           lo <= a, lo <= b, a + m <= lo + mask, b + n <= lo + mask,
           a + m <= b \/ b + n <= a
    PROVE  {k % Size : k \in a..(a + m - 1)} \cap {k % Size : k \in b..(b + n - 1)} = {}
<1> SUFFICES ASSUME NEW j \in a..(a + m - 1), NEW k \in b..(b + n - 1), j % Size = k % Size
             PROVE  FALSE
  OBVIOUS
<1>1. j \in Nat /\ k \in Nat /\ Size \in Nat
  BY QueueAssumption
<1>2. (j < k /\ k - j < Size) \/ (k < j /\ j - k < Size)
  BY <1>1 DEF mask
<1> QED BY <1>1, <1>2, SlotsDiffer

\* Concurrent operations never touch the same slot of the ring.
THEOREM SlotsAlwaysExclusive == Spec => []SlotsExclusive
<1>1. IInv => SlotsExclusive
  <2> SUFFICES ASSUME IInv PROVE SlotsExclusive
    OBVIOUS
  <2>0. /\ TypeOK /\ Ordered /\ ProdLocals /\ ConsLocals /\ ProdApart /\ ConsApart
        /\ mask \in Nat
    BY QueueAssumption DEF IInv, mask
  <2>1. prodHead \in Nat /\ prodTail \in Nat /\ consTail \in Nat /\ consHead \in Nat
    BY <2>0 DEF TypeOK
  <2>2. ASSUME NEW p \in Producers, PClaimed(p)
        PROVE  /\ prod[p].old \in Nat /\ prod[p].n \in Nat
               /\ prodTail <= prod[p].old /\ prod[p].old + prod[p].n <= consTail + mask
               /\ consTail <= prod[p].old
    <3>1. prod[p].old \in Nat /\ prod[p].n \in Nat
      BY <2>0 DEF TypeOK, ProducerRecord
    <3>2. prodTail <= prod[p].old /\ prod[p].old + prod[p].n <= prodHead
      BY <2>0, <2>2 DEF ProdLocals, ProducerOK
    <3> QED BY <2>0, <2>1, <3>1, <3>2 DEF Ordered
  <2>3. ASSUME NEW c \in Consumers, CClaimed(c)
        PROVE  /\ cons[c].old \in Nat /\ cons[c].n \in Nat
               /\ consTail <= cons[c].old /\ cons[c].old + cons[c].n <= consTail + mask
               /\ cons[c].old + cons[c].n <= prodTail
    <3>1. cons[c].old \in Nat /\ cons[c].n \in Nat
      BY <2>0 DEF TypeOK, ConsumerRecord
    <3>2. consTail <= cons[c].old /\ cons[c].old + cons[c].n <= consHead
      BY <2>0, <2>3 DEF ConsLocals, ConsumerOK
    <3> QED BY <2>0, <2>1, <3>1, <3>2 DEF Ordered
  <2>4. ASSUME NEW p1 \in Producers, NEW p2 \in Producers, p1 # p2
        PROVE  ProdSlots(p1) \cap ProdSlots(p2) = {}
    <3>1. CASE PClaimed(p1) /\ PClaimed(p2)
      <4>1. Apart(prod[p1], prod[p2])
        BY <2>0, <2>4, <3>1 DEF ProdApart
      <4> QED BY <2>1, <2>2, <3>1, <4>1, ApartSlots DEF Apart, ProdSlots, PClaimed
    <3> QED BY <3>1 DEF ProdSlots, PClaimed
  <2>5. ASSUME NEW c1 \in Consumers, NEW c2 \in Consumers, c1 # c2
        PROVE  ConsSlots(c1) \cap ConsSlots(c2) = {}
    <3>1. CASE CClaimed(c1) /\ CClaimed(c2)
      <4>1. Apart(cons[c1], cons[c2])
        BY <2>0, <2>5, <3>1 DEF ConsApart
      <4> QED BY <2>1, <2>3, <3>1, <4>1, ApartSlots DEF Apart, ConsSlots, CClaimed
    <3> QED BY <3>1 DEF ConsSlots, CClaimed
  <2>6. ASSUME NEW p \in Producers, NEW c \in Consumers
        PROVE  ProdSlots(p) \cap ConsSlots(c) = {}
    <3>1. CASE PClaimed(p) /\ CClaimed(c)
      <4>1. cons[c].old + cons[c].n <= prod[p].old
        BY <2>1, <2>2, <2>3, <3>1
      <4> QED BY <2>1, <2>2, <2>3, <3>1, <4>1, ApartSlots DEF ProdSlots, ConsSlots, PClaimed, CClaimed
    <3> QED BY <3>1 DEF ProdSlots, ConsSlots, PClaimed, CClaimed
  <2> QED BY <2>4, <2>5, <2>6 DEF SlotsExclusive
<1> QED BY <1>1, InitIInv, NextIInv, PTL DEF Spec
----------------------------------------------------------------------------
(***************************************************************************)
(* The ring as a FIFO queue.  Beyond IInv: what a producer has copied so   *)
(* far is in its slots until it publishes, and a consumer has copied out   *)
(* as much as its place in pop() says.                                     *)
(***************************************************************************)
ProducerFilled(p) ==
    /\ prod[p].pc # "idle" => Len(prod[p].data) <= MaxBatch
    /\ PClaimed(p) => /\ prod[p].i <= prod[p].n
                      /\ \A j \in 0..(prod[p].i - 1) : storage[(prod[p].old + j) % Size] \in Values
    /\ prod[p].pc = "publish" => prod[p].i = prod[p].n

ConsumerTook(c) ==
    /\ cons[c].pc \in {"reserve", "claim", "copy", "publish"} => cons[c].count \in 1..MaxBatch
    /\ cons[c].pc \in {"reserve", "claim"} => cons[c].out = <<>>
    /\ cons[c].pc \in {"claim", "copy", "publish"} => cons[c].n <= cons[c].count
    /\ cons[c].pc = "copy" => Len(cons[c].out) < cons[c].n
    /\ cons[c].pc = "publish" => Len(cons[c].out) = cons[c].n

Filled == \A p \in Producers : ProducerFilled(p)
Took == \A c \in Consumers : ConsumerTook(c)

QInv == IInv /\ Filled /\ Took
----------------------------------------------------------------------------
\* Different positions within one turn of the ring occupy different slots.
LEMMA SlotApart ==
    ASSUME NEW lo \in Nat, NEW j \in lo..(lo + mask), NEW k \in lo..(lo + mask), j # k
    PROVE  j % Size # k % Size
<1>1. j \in Nat /\ k \in Nat /\ Size \in Nat /\ mask = Size - 1
  BY QueueAssumption DEF mask
<1>2. (j < k /\ k - j < Size) \/ (k < j /\ j - k < Size)
  BY <1>1
<1> QED BY <1>1, <1>2, SlotsDiffer

\* Every position has a slot.
LEMMA InRing == ASSUME NEW k \in Nat PROVE k % Size \in Ring
  BY QueueAssumption DEF Ring, mask

\* Writing one slot leaves the items at the other positions of the window alone.
LEMMA OneSlotWritten ==
    ASSUME TypeOK, NEW at \in consTail..(consTail + mask), NEW v,
           storage' = [storage EXCEPT ![at % Size] = v]
    PROVE  /\ storage'[at % Size] = v
           /\ \A k \in consTail..(consTail + mask) : k # at => storage'[k % Size] = storage[k % Size]
<1>1. consTail \in Nat /\ mask \in Nat /\ storage \in [Ring -> Values \cup {NoItem}]
  BY QueueAssumption DEF TypeOK, mask
<1>2. \A k \in consTail..(consTail + mask) : k % Size \in Ring
  BY <1>1, InRing
<1>3. ASSUME NEW k \in consTail..(consTail + mask), k # at PROVE k % Size # at % Size
  BY <1>1, <1>3, SlotApart
<1> QED BY <1>1, <1>2, <1>3

\* Where the counters and the claims lie in the window of the ring.
LEMMA Bounds ==
    ASSUME IInv
    PROVE  /\ consTail \in Nat /\ consHead \in Nat /\ prodTail \in Nat /\ prodHead \in Nat
           /\ mask \in Nat
           /\ consTail <= consHead /\ consHead <= prodTail /\ prodTail <= prodHead
           /\ prodHead <= consTail + mask
  BY QueueAssumption DEF IInv, TypeOK, Ordered, mask

LEMMA ProducerClaim ==
    ASSUME IInv, NEW p \in Producers, PClaimed(p)
    PROVE  /\ prod[p].old \in Nat /\ prod[p].n \in Nat /\ prod[p].i \in Nat /\ prod[p].n >= 1
           /\ prodTail <= prod[p].old /\ prod[p].old + prod[p].n <= prodHead
           /\ prod[p].n <= Len(prod[p].data) /\ prod[p].data \in Seq(Values)
           /\ prod[p].pc = "copy" => prod[p].i < prod[p].n
<1>1. TypeOK /\ ProducerOK(p)
  BY DEF IInv, ProdLocals
<1>2. prod[p] \in ProducerRecord
  BY <1>1 DEF TypeOK
<1> QED BY <1>1, <1>2 DEF ProducerOK, ProducerRecord, PClaimed

LEMMA ConsumerClaim ==
    ASSUME IInv, NEW c \in Consumers, CClaimed(c)
    PROVE  /\ cons[c].old \in Nat /\ cons[c].n \in Nat /\ cons[c].n >= 1
           /\ consTail <= cons[c].old /\ cons[c].old + cons[c].n <= consHead
           /\ cons[c].out \in Seq(Values \cup {NoItem}) /\ Len(cons[c].out) \in Nat
<1>1. TypeOK /\ ConsumerOK(c)
  BY DEF IInv, ConsLocals
<1>2. cons[c] \in ConsumerRecord
  BY <1>1 DEF TypeOK
<1>3. cons[c].out \in Seq(Values \cup {NoItem}) /\ cons[c].old \in Nat /\ cons[c].n \in Nat
  BY <1>2 DEF ConsumerRecord
<1> QED BY <1>1, <1>3 DEF ConsumerOK, CClaimed
----------------------------------------------------------------------------
\* The initial state satisfies the stronger invariant.
LEMMA InitQInv == Init => QInv
<1> SUFFICES ASSUME Init PROVE Filled /\ Took
  BY InitIInv DEF QInv
<1>1. \A p \in Producers : prod[p].pc = "idle"
  BY DEF Init, IdleProducer
<1>2. \A c \in Consumers : cons[c].pc = "idle"
  BY DEF Init, IdleConsumer
<1>3. Filled
  BY <1>1 DEF Filled, ProducerFilled, PClaimed
<1>4. Took
  BY <1>2 DEF Took, ConsumerTook
<1> QED BY <1>3, <1>4

\* A producer whose locals and claimed slots do not change keeps what it has copied.
LEMMA FilledFrame ==
    ASSUME IInv, NEW x \in Producers, ProducerFilled(x), prod'[x] = prod[x],
           PClaimed(x) => \A k \in prod[x].old..(prod[x].old + prod[x].n - 1) :
                             storage'[k % Size] = storage[k % Size]
    PROVE  ProducerFilled(x)'
<1>1. CASE PClaimed(x)
  <2>1. /\ prod[x].old \in Nat /\ prod[x].n \in Nat /\ prod[x].i \in Nat /\ prod[x].i <= prod[x].n
        /\ prod[x].n >= 1
    BY <1>1, ProducerClaim DEF ProducerFilled
  <2>2. ASSUME NEW j \in 0..(prod[x].i - 1) PROVE storage'[(prod[x].old + j) % Size] \in Values
    <3>1. prod[x].old + j \in prod[x].old..(prod[x].old + prod[x].n - 1)
      BY <2>1
    <3>2. storage[(prod[x].old + j) % Size] \in Values
      BY <1>1 DEF ProducerFilled
    <3> QED BY <1>1, <3>1, <3>2
  <2> QED BY <1>1, <2>1, <2>2 DEF ProducerFilled, PClaimed
<1>2. CASE ~PClaimed(x)
  BY <1>2 DEF ProducerFilled, PClaimed
<1> QED BY <1>1, <1>2

\* Steps of insert() that write no slot.
LEMMA ProducerLocalFilled ==
    ASSUME IInv, Filled, NEW p \in Producers, UNCHANGED storage,
           \A x \in Producers \ {p} : prod'[x] = prod[x],
           ProducerFilled(p)'
    PROVE  Filled'
<1> SUFFICES ASSUME NEW x \in Producers, x # p PROVE ProducerFilled(x)'
  BY DEF Filled
<1> QED BY FilledFrame DEF Filled

\* The start of insert(), its reservation, its claim and its publication keep
\* what every producer has copied.
LEMMA InsertFilled ==
    ASSUME QInv, NEW p \in Producers, NEW data \in Batch, NEW partial \in BOOLEAN,
           Insert(p, data, partial)
    PROVE  Filled'
<1>1. IInv /\ Filled /\ prod \in [Producers -> ProducerRecord]
  BY DEF QInv, IInv, TypeOK
<1>2. /\ UNCHANGED storage /\ \A x \in Producers \ {p} : prod'[x] = prod[x]
      /\ prod'[p].pc = "reserve" /\ prod'[p].data = data
  BY <1>1 DEF Insert, IdleProducer
<1>3. Len(data) <= MaxBatch
  <2>1. PICK n \in 1..MaxBatch : data \in [1..n -> Values]
    BY DEF Batch
  <2>2. n \in Nat /\ n <= MaxBatch
    BY <2>1, QueueAssumption
  <2> QED BY <2>1, <2>2
<1>4. ProducerFilled(p)'
  BY <1>2, <1>3 DEF ProducerFilled, PClaimed
<1> QED BY <1>1, <1>2, <1>4, ProducerLocalFilled

LEMMA InsertReserveFilled ==
    ASSUME QInv, NEW p \in Producers, InsertReserve(p)
    PROVE  Filled'
<1>1. IInv /\ Filled /\ prod \in [Producers -> ProducerRecord] /\ prod[p] \in ProducerRecord
  BY DEF QInv, IInv, TypeOK
<1>2. /\ UNCHANGED storage /\ \A x \in Producers \ {p} : prod'[x] = prod[x]
      /\ prod[p].pc = "reserve"
      /\ \/ prod'[p].pc = "idle"
         \/ prod'[p].pc = "claim" /\ prod'[p].data = prod[p].data
  BY <1>1 DEF InsertReserve, IdleProducer, ProducerRecord
<1>3. ProducerFilled(p)'
  BY <1>1, <1>2 DEF ProducerFilled, PClaimed, Filled
<1> QED BY <1>1, <1>2, <1>3, ProducerLocalFilled

LEMMA InsertClaimFilled ==
    ASSUME QInv, NEW p \in Producers, InsertClaim(p)
    PROVE  Filled'
<1>1. IInv /\ Filled /\ prod \in [Producers -> ProducerRecord] /\ prod[p] \in ProducerRecord
  BY DEF QInv, IInv, TypeOK
<1>2. /\ UNCHANGED storage /\ \A x \in Producers \ {p} : prod'[x] = prod[x]
      /\ prod[p].pc = "claim" /\ prod'[p].pc \in {"copy", "reserve"}
      /\ prod'[p].data = prod[p].data /\ prod'[p].i = prod[p].i /\ prod'[p].n = prod[p].n
  BY <1>1 DEF InsertClaim, ProducerRecord
<1>3. prod[p].i = 0 /\ prod[p].n >= 1
  BY <1>1, <1>2 DEF IInv, ProdLocals, ProducerOK
<1>4. Len(prod[p].data) <= MaxBatch
  BY <1>1, <1>2 DEF Filled, ProducerFilled
<1>5. prod'[p].i <= prod'[p].n /\ 0..(prod'[p].i - 1) = {}
  <2>1. prod[p].n \in Nat
    BY <1>1 DEF ProducerRecord
  <2> QED BY <1>2, <1>3, <2>1
<1>6. ProducerFilled(p)'
  BY <1>2, <1>4, <1>5 DEF ProducerFilled, PClaimed
<1> QED BY <1>1, <1>2, <1>6, ProducerLocalFilled

LEMMA InsertPublishFilled ==
    ASSUME QInv, NEW p \in Producers, InsertPublish(p)
    PROVE  Filled'
<1>1. IInv /\ Filled /\ prod \in [Producers -> ProducerRecord]
  BY DEF QInv, IInv, TypeOK
<1>2. /\ UNCHANGED storage /\ \A x \in Producers \ {p} : prod'[x] = prod[x]
      /\ prod'[p].pc = "idle"
  BY <1>1 DEF InsertPublish, IdleProducer
<1>3. ProducerFilled(p)'
  BY <1>2 DEF ProducerFilled, PClaimed
<1> QED BY <1>1, <1>2, <1>3, ProducerLocalFilled

\* What constructing an item does: one slot at or after the producer tail is
\* written, inside this producer's claim.
LEMMA InsertCopyEffect ==
    ASSUME IInv, NEW p \in Producers, InsertCopy(p), NEW at, at = prod[p].old + prod[p].i
    PROVE  /\ at \in Nat /\ prodTail <= at /\ at < prod[p].old + prod[p].n
           /\ storage'[at % Size] \in Values
           /\ \A k \in consTail..(consTail + mask) : k # at => storage'[k % Size] = storage[k % Size]
           /\ prod[p].pc = "copy"
           /\ \A x \in Producers \ {p} : prod'[x] = prod[x]
           /\ prod'[p].data = prod[p].data /\ prod'[p].old = prod[p].old /\ prod'[p].n = prod[p].n
           /\ prod'[p].i = prod[p].i + 1
           /\ prod'[p].pc = IF prod[p].i + 1 = prod[p].n THEN "publish" ELSE "copy"
<1>1. /\ TypeOK /\ prod[p].pc = "copy" /\ PClaimed(p)
      /\ prod \in [Producers -> ProducerRecord] /\ prod[p] \in ProducerRecord
  BY DEF IInv, TypeOK, InsertCopy, PClaimed
<1>2. /\ prod[p].old \in Nat /\ prod[p].n \in Nat /\ prod[p].i \in Nat /\ prod[p].i < prod[p].n
      /\ prodTail <= prod[p].old /\ prod[p].old + prod[p].n <= prodHead
      /\ prod[p].n <= Len(prod[p].data) /\ prod[p].data \in Seq(Values)
  BY <1>1, ProducerClaim
<1>b. /\ consTail \in Nat /\ consHead \in Nat /\ prodTail \in Nat /\ prodHead \in Nat /\ mask \in Nat
      /\ consTail <= consHead /\ consHead <= prodTail /\ prodTail <= prodHead
      /\ prodHead <= consTail + mask
  BY Bounds, Zenon
<1>n. at \in Nat
  BY <1>2
<1>3. /\ prodTail <= at /\ at < prod[p].old + prod[p].n /\ at \in Nat
      /\ at \in consTail..(consTail + mask)
  BY <1>2, <1>b, <1>n
<1>4. prod[p].data[prod[p].i + 1] \in Values
  BY <1>2
<1>5. storage' = [storage EXCEPT ![at % Size] = prod[p].data[prod[p].i + 1]]
  BY DEF InsertCopy
<1>6. /\ storage'[at % Size] \in Values
      /\ \A k \in consTail..(consTail + mask) : k # at => storage'[k % Size] = storage[k % Size]
  BY <1>1, <1>3, <1>4, <1>5, OneSlotWritten
<1>7. prod' = [prod EXCEPT ![p].i = @ + 1,
                           ![p].pc = IF prod[p].i + 1 = prod[p].n THEN "publish" ELSE @]
  BY DEF InsertCopy
<1>8. /\ \A x \in Producers \ {p} : prod'[x] = prod[x]
      /\ prod'[p].data = prod[p].data /\ prod'[p].old = prod[p].old /\ prod'[p].n = prod[p].n
      /\ prod'[p].i = prod[p].i + 1
      /\ prod'[p].pc = IF prod[p].i + 1 = prod[p].n THEN "publish" ELSE "copy"
  BY <1>1, <1>7 DEF ProducerRecord
<1> QED BY <1>1, <1>3, <1>6, <1>8

\* What destroying an item does: one slot before the consumer head is
\* written, inside this consumer's claim, and its item is appended to `out'.
LEMMA PopCopyEffect ==
    ASSUME IInv, Took, NEW c \in Consumers, PopCopy(c), NEW at, at = cons[c].old + Len(cons[c].out)
    PROVE  /\ at \in Nat /\ cons[c].old <= at /\ at < cons[c].old + cons[c].n /\ at < consHead
           /\ \A k \in consTail..(consTail + mask) : k # at => storage'[k % Size] = storage[k % Size]
           /\ cons[c].pc = "copy"
           /\ \A x \in Consumers \ {c} : cons'[x] = cons[x]
           /\ cons'[c].count = cons[c].count /\ cons'[c].old = cons[c].old /\ cons'[c].n = cons[c].n
           /\ cons'[c].out = Append(cons[c].out, storage[at % Size])
           /\ cons'[c].pc = IF Len(cons[c].out) + 1 = cons[c].n THEN "publish" ELSE "copy"
<1>1. /\ TypeOK /\ cons[c].pc = "copy" /\ CClaimed(c)
      /\ cons \in [Consumers -> ConsumerRecord] /\ cons[c] \in ConsumerRecord
  BY DEF IInv, TypeOK, PopCopy, CClaimed
<1>2. /\ cons[c].old \in Nat /\ cons[c].n \in Nat /\ Len(cons[c].out) \in Nat
      /\ consTail <= cons[c].old /\ cons[c].old + cons[c].n <= consHead
      /\ Len(cons[c].out) < cons[c].n
  BY <1>1, ConsumerClaim DEF Took, ConsumerTook
<1>b. /\ consTail \in Nat /\ consHead \in Nat /\ prodTail \in Nat /\ prodHead \in Nat /\ mask \in Nat
      /\ consTail <= consHead /\ consHead <= prodTail /\ prodTail <= prodHead
      /\ prodHead <= consTail + mask
  BY Bounds, Zenon
<1>n. at \in Nat /\ cons[c].old <= at /\ at < cons[c].old + cons[c].n
  BY <1>2
<1>3. /\ at \in Nat /\ cons[c].old <= at /\ at < cons[c].old + cons[c].n /\ at < consHead
      /\ at \in consTail..(consTail + mask)
  <2>1. PICK o \in Nat, n \in Nat : o = cons[c].old /\ n = cons[c].n
    BY <1>2
  <2>2. consTail <= o /\ o + n <= consHead /\ o <= at /\ at < o + n
    BY <1>2, <1>n, <2>1
  <2> QED BY <1>b, <1>n, <2>1, <2>2
<1>4. storage' = [storage EXCEPT ![at % Size] = NoItem]
  BY DEF PopCopy
<1>5. \A k \in consTail..(consTail + mask) : k # at => storage'[k % Size] = storage[k % Size]
  BY <1>1, <1>3, <1>4, OneSlotWritten
<1>6. cons' = [cons EXCEPT ![c].out = Append(@, storage[at % Size]),
                           ![c].pc = IF Len(cons[c].out) + 1 = cons[c].n THEN "publish" ELSE @]
  BY DEF PopCopy
<1>7. /\ \A x \in Consumers \ {c} : cons'[x] = cons[x]
      /\ cons'[c].count = cons[c].count /\ cons'[c].old = cons[c].old /\ cons'[c].n = cons[c].n
      /\ cons'[c].out = Append(cons[c].out, storage[at % Size])
      /\ cons'[c].pc = IF Len(cons[c].out) + 1 = cons[c].n THEN "publish" ELSE "copy"
  BY <1>1, <1>6 DEF ConsumerRecord
<1> QED BY <1>1, <1>3, <1>5, <1>7

\* Constructing an item extends what its producer has copied.
LEMMA InsertCopyFilled ==
    ASSUME QInv, NEW p \in Producers, InsertCopy(p)
    PROVE  Filled'
<1> DEFINE at == prod[p].old + prod[p].i
<1>0. IInv /\ Filled
  BY DEF QInv
<1>b. /\ consTail \in Nat /\ consHead \in Nat /\ prodTail \in Nat /\ prodHead \in Nat /\ mask \in Nat
      /\ consTail <= consHead /\ consHead <= prodTail /\ prodTail <= prodHead
      /\ prodHead <= consTail + mask
  BY <1>0, Bounds, Zenon
<1>1. /\ at \in Nat /\ prodTail <= at /\ at < prod[p].old + prod[p].n
      /\ storage'[at % Size] \in Values
      /\ \A k \in consTail..(consTail + mask) : k # at => storage'[k % Size] = storage[k % Size]
      /\ prod[p].pc = "copy"
      /\ \A x \in Producers \ {p} : prod'[x] = prod[x]
      /\ prod'[p].data = prod[p].data /\ prod'[p].old = prod[p].old /\ prod'[p].n = prod[p].n
      /\ prod'[p].i = prod[p].i + 1
      /\ prod'[p].pc = IF prod[p].i + 1 = prod[p].n THEN "publish" ELSE "copy"
  BY <1>0, InsertCopyEffect
<1>2. PClaimed(p) /\ ProducerFilled(p)
  BY <1>0, <1>1 DEF PClaimed, Filled
<1>3. /\ prod[p].old \in Nat /\ prod[p].n \in Nat /\ prod[p].i \in Nat /\ prod[p].i < prod[p].n
      /\ prodTail <= prod[p].old /\ prod[p].old + prod[p].n <= prodHead
  BY <1>0, <1>1, <1>2, ProducerClaim
<1>4. ASSUME NEW x \in Producers, x # p PROVE ProducerFilled(x)'
  <2>1. ASSUME PClaimed(x), NEW k \in prod[x].old..(prod[x].old + prod[x].n - 1)
        PROVE  storage'[k % Size] = storage[k % Size]
    <3>1. Apart(prod[p], prod[x])
      BY <1>0, <1>2, <1>4, <2>1 DEF IInv, ProdApart
    <3>2. /\ prod[x].old \in Nat /\ prod[x].n \in Nat /\ prodTail <= prod[x].old
          /\ prod[x].old + prod[x].n <= prodHead
      BY <1>0, <2>1, ProducerClaim
    <3>3. k \in consTail..(consTail + mask) /\ k # at
      BY <1>b, <1>1, <1>3, <2>1, <3>1, <3>2 DEF Apart
    <3> QED BY <1>1, <3>3
  <2> QED BY <1>0, <1>1, <1>4, <2>1, FilledFrame DEF Filled
<1>5. ASSUME NEW j \in 0..prod[p].i PROVE storage'[(prod[p].old + j) % Size] \in Values
  <2>1. CASE j = prod[p].i
    BY <1>1, <2>1
  <2>2. CASE j # prod[p].i
    <3>1. storage[(prod[p].old + j) % Size] \in Values
      BY <1>2, <1>3, <2>2 DEF ProducerFilled
    <3>2. prod[p].old + j \in consTail..(consTail + mask) /\ prod[p].old + j # at
      BY <1>b, <1>3, <2>2
    <3> QED BY <1>1, <3>1, <3>2
  <2> QED BY <2>1, <2>2
<1>6. Len(prod[p].data) <= MaxBatch
  BY <1>1, <1>2 DEF ProducerFilled
<1>7. ProducerFilled(p)'
  <2>1. prod'[p].i - 1 = prod[p].i /\ prod'[p].i <= prod'[p].n
    BY <1>1, <1>3
  <2>2. prod'[p].pc = "publish" => prod'[p].i = prod'[p].n
    BY <1>1
  <2> QED BY <1>1, <1>5, <1>6, <2>1, <2>2 DEF ProducerFilled
<1> QED BY <1>4, <1>7 DEF Filled

\* Destroying an item touches no producer's claim.
LEMMA PopCopyFilled ==
    ASSUME QInv, NEW c \in Consumers, PopCopy(c)
    PROVE  Filled'
<1> DEFINE at == cons[c].old + Len(cons[c].out)
<1>0. IInv /\ Filled /\ Took /\ UNCHANGED prod
  BY DEF QInv, PopCopy
<1>b. /\ consTail \in Nat /\ consHead \in Nat /\ prodTail \in Nat /\ prodHead \in Nat /\ mask \in Nat
      /\ consTail <= consHead /\ consHead <= prodTail /\ prodTail <= prodHead
      /\ prodHead <= consTail + mask
  BY <1>0, Bounds, Zenon
<1>1. /\ at \in Nat /\ at < consHead
      /\ \A k \in consTail..(consTail + mask) : k # at => storage'[k % Size] = storage[k % Size]
  BY <1>0, PopCopyEffect
<1> HIDE DEF at
<1> SUFFICES ASSUME NEW x \in Producers PROVE ProducerFilled(x)'
  BY DEF Filled
<1>2. ASSUME PClaimed(x), NEW k \in prod[x].old..(prod[x].old + prod[x].n - 1)
      PROVE  storage'[k % Size] = storage[k % Size]
  <2>1. /\ prod[x].old \in Nat /\ prod[x].n \in Nat /\ prodTail <= prod[x].old
        /\ prod[x].old + prod[x].n <= prodHead
    BY <1>0, <1>2, ProducerClaim
  <2>2. k \in consTail..(consTail + mask) /\ k # at
    BY <1>b, <1>1, <1>2, <2>1
  <2> QED BY <1>1, <2>2
<1> QED BY <1>0, <1>2, FilledFrame DEF Filled

\* A step of one consumer keeps the others' part of the invariant.
LEMMA TookFrame ==
    ASSUME Took, NEW c \in Consumers, \A x \in Consumers \ {c} : cons'[x] = cons[x],
           ConsumerTook(c)'
    PROVE  Took'
<1> SUFFICES ASSUME NEW x \in Consumers, x # c PROVE ConsumerTook(x)'
  BY DEF Took
<1> QED BY DEF Took, ConsumerTook

\* Each step of pop() keeps the consumer's place and what it has copied in step.
LEMMA PopTook ==
    ASSUME QInv, NEW c \in Consumers, NEW count \in 1..MaxBatch, NEW partial \in BOOLEAN,
           Pop(c, count, partial)
    PROVE  Took'
<1>1. Took /\ cons \in [Consumers -> ConsumerRecord]
  BY DEF QInv, IInv, TypeOK
<1>2. /\ \A x \in Consumers \ {c} : cons'[x] = cons[x]
      /\ cons'[c].pc = "reserve" /\ cons'[c].count = count /\ cons'[c].out = <<>>
  BY <1>1 DEF Pop, IdleConsumer
<1>3. ConsumerTook(c)'
  BY <1>2 DEF ConsumerTook
<1> QED BY <1>1, <1>2, <1>3, TookFrame

LEMMA PopReserveTook ==
    ASSUME QInv, NEW c \in Consumers, PopReserve(c)
    PROVE  Took'
<1> DEFINE ready == prodTail - cons[c].old
           n == Reserve(ready, cons[c].count, cons[c].partial)
           r == IF ready > mask THEN [cons[c] EXCEPT !.pc = "panic"]
                ELSE IF ready = 0 \/ n = 0 \/ ready < n THEN IdleConsumer
                ELSE [cons[c] EXCEPT !.pc = "claim", !.n = n]
<1>1. /\ Took /\ cons \in [Consumers -> ConsumerRecord] /\ cons[c] \in ConsumerRecord
      /\ ready \in Int /\ cons[c].count \in Nat /\ cons[c].pc = "reserve"
      /\ cons' = [cons EXCEPT ![c] = r]
  BY DEF QInv, IInv, TypeOK, PopReserve, ConsumerRecord
<1>2. ConsumerTook(c)
  BY <1>1 DEF Took
<1>3. cons[c].count \in 1..MaxBatch /\ cons[c].out = <<>>
  BY <1>1, <1>2 DEF ConsumerTook
<1>4. n <= cons[c].count
  BY <1>1 DEF Reserve
<1> HIDE DEF n, ready
<1>5. \/ r.pc \in {"idle", "panic"}
      \/ r.pc = "claim" /\ r.n = n /\ r.count = cons[c].count /\ r.out = cons[c].out
  BY <1>1 DEF IdleConsumer, ConsumerRecord
<1> HIDE DEF r
<1>6. cons'[c] = r /\ \A x \in Consumers \ {c} : cons'[x] = cons[x]
  BY <1>1
<1>7. ConsumerTook(c)'
  BY <1>3, <1>4, <1>5, <1>6 DEF ConsumerTook
<1> QED BY <1>1, <1>6, <1>7, TookFrame

LEMMA PopClaimTook ==
    ASSUME QInv, NEW c \in Consumers, PopClaim(c)
    PROVE  Took'
<1>1. /\ IInv /\ Took /\ cons \in [Consumers -> ConsumerRecord] /\ cons[c] \in ConsumerRecord
      /\ cons[c].pc = "claim" /\ cons[c].n \in Nat
  BY DEF QInv, IInv, TypeOK, PopClaim, ConsumerRecord
<1>2. /\ \A x \in Consumers \ {c} : cons'[x] = cons[x]
      /\ cons'[c].pc \in {"copy", "reserve"} /\ cons'[c].count = cons[c].count
      /\ cons'[c].n = cons[c].n /\ cons'[c].out = cons[c].out
  BY <1>1 DEF PopClaim, ConsumerRecord
<1>3. cons[c].count \in 1..MaxBatch /\ cons[c].out = <<>> /\ cons[c].n <= cons[c].count
  BY <1>1 DEF Took, ConsumerTook
<1>4. Len(<<>>) < cons[c].n
  <2>1. cons[c].n >= 1
    BY <1>1 DEF IInv, ConsLocals, ConsumerOK
  <2> QED BY <1>1, <2>1
<1>5. ConsumerTook(c)'
  BY <1>2, <1>3, <1>4 DEF ConsumerTook
<1> QED BY <1>1, <1>2, <1>5, TookFrame

LEMMA PopCopyTook ==
    ASSUME QInv, NEW c \in Consumers, PopCopy(c)
    PROVE  Took'
<1> DEFINE at == cons[c].old + Len(cons[c].out)
           item == storage[at % Size]
<1>0. IInv /\ Took
  BY DEF QInv
<1>1. /\ at < cons[c].old + cons[c].n
      /\ cons[c].pc = "copy"
      /\ \A x \in Consumers \ {c} : cons'[x] = cons[x]
      /\ cons'[c].count = cons[c].count /\ cons'[c].old = cons[c].old /\ cons'[c].n = cons[c].n
      /\ cons'[c].out = Append(cons[c].out, item)
      /\ cons'[c].pc = IF Len(cons[c].out) + 1 = cons[c].n THEN "publish" ELSE "copy"
  BY <1>0, PopCopyEffect
<1>2. /\ cons[c].count \in 1..MaxBatch /\ cons[c].n <= cons[c].count
      /\ Len(cons[c].out) < cons[c].n
  BY <1>0, <1>1 DEF Took, ConsumerTook
<1>3. /\ cons[c].out \in Seq(Values \cup {NoItem}) /\ Len(cons[c].out) \in Nat
      /\ cons[c].n \in Nat
  BY <1>0, <1>1, ConsumerClaim DEF CClaimed
<1>4. Len(cons'[c].out) = Len(cons[c].out) + 1
  <2>1. item \in Values \cup {NoItem}
    <3>1. at \in Nat
      BY <1>0, PopCopyEffect
    <3> QED BY <3>1, <1>0, InRing DEF IInv, TypeOK
  <2> HIDE DEF item
  <2> QED BY <1>1, <1>3, <2>1
<1>5. ConsumerTook(c)'
  <2>1. CASE Len(cons[c].out) + 1 = cons[c].n
    BY <1>1, <1>2, <1>4, <2>1 DEF ConsumerTook
  <2>2. CASE Len(cons[c].out) + 1 # cons[c].n
    <3>1. Len(cons'[c].out) < cons'[c].n
      BY <1>1, <1>2, <1>3, <1>4, <2>2
    <3> QED BY <1>1, <1>2, <2>2, <3>1 DEF ConsumerTook
  <2> QED BY <2>1, <2>2
<1> QED BY <1>0, <1>1, <1>5, TookFrame

LEMMA PopPublishTook ==
    ASSUME QInv, NEW c \in Consumers, PopPublish(c)
    PROVE  Took'
<1>1. Took /\ cons \in [Consumers -> ConsumerRecord]
  BY DEF QInv, IInv, TypeOK
<1>2. (\A x \in Consumers \ {c} : cons'[x] = cons[x]) /\ cons'[c].pc = "idle"
  BY <1>1 DEF PopPublish, IdleConsumer
<1>3. ConsumerTook(c)'
  BY <1>2 DEF ConsumerTook
<1> QED BY <1>1, <1>2, <1>3, TookFrame

\* A producer's step changes no consumer's locals, nor a consumer's a
\* producer's.
LEMMA TookKept == ASSUME Took, UNCHANGED cons PROVE Took'
  BY DEF Took, ConsumerTook

LEMMA FilledKept == ASSUME Filled, UNCHANGED <<prod, storage>> PROVE Filled'
  BY DEF Filled, ProducerFilled, PClaimed

\* Every step preserves the stronger invariant.
LEMMA NextQInv == QInv /\ [Next]_vars => QInv'
<1> SUFFICES ASSUME QInv, [Next]_vars PROVE QInv'
  OBVIOUS
<1>0. IInv /\ Filled /\ Took
  BY DEF QInv
<1>1. IInv'
  BY <1>0, NextIInv
<1>2. CASE Next
  <2>1. ASSUME NEW p \in Producers, NEW data \in Batch, NEW partial \in BOOLEAN,
               Insert(p, data, partial)
        PROVE  Filled' /\ Took'
    BY <1>0, <2>1, InsertFilled, TookKept DEF Insert
  <2>2. ASSUME NEW p \in Producers, ProducerStep(p) PROVE Filled' /\ Took'
    <3>1. UNCHANGED cons
      BY <2>2 DEF ProducerStep, InsertReserve, InsertClaim, InsertCopy, InsertPublish
    <3>2. Filled'
      BY <2>2, InsertReserveFilled, InsertClaimFilled, InsertCopyFilled, InsertPublishFilled
         DEF ProducerStep
    <3> QED BY <1>0, <3>1, <3>2, TookKept
  <2>3. ASSUME NEW c \in Consumers, NEW count \in 1..MaxBatch, NEW partial \in BOOLEAN,
               Pop(c, count, partial)
        PROVE  Filled' /\ Took'
    BY <1>0, <2>3, PopTook, FilledKept DEF Pop
  <2>4. ASSUME NEW c \in Consumers, ConsumerStep(c) PROVE Filled' /\ Took'
    <3>1. CASE PopReserve(c)
      BY <1>0, <3>1, PopReserveTook, FilledKept DEF PopReserve
    <3>2. CASE PopClaim(c)
      BY <1>0, <3>2, PopClaimTook, FilledKept DEF PopClaim
    <3>3. CASE PopCopy(c)
      BY <3>3, PopCopyTook, PopCopyFilled
    <3>4. CASE PopPublish(c)
      BY <1>0, <3>4, PopPublishTook, FilledKept DEF PopPublish
    <3> QED BY <2>4, <3>1, <3>2, <3>3, <3>4 DEF ConsumerStep
  <2>5. Filled' /\ Took'
    BY <1>2, <2>1, <2>2, <2>3, <2>4 DEF Next
  <2> QED BY <1>1, <2>5 DEF QInv
<1>3. CASE UNCHANGED vars
  BY <1>0, <1>1, <1>3, FilledKept, TookKept DEF vars, QInv
<1> QED BY <1>2, <1>3
----------------------------------------------------------------------------
\* How to recognise a concatenation and a part of a sequence.
Joins(u, s, t) ==
    /\ Len(u) = Len(s) + Len(t)
    /\ \A i \in 1..Len(s) : u[i] = s[i]
    /\ \A j \in 1..Len(t) : u[Len(s) + j] = t[j]

PartOf(u, s, a, n) ==
    /\ a + n <= Len(s)
    /\ Len(u) = n
    /\ \A i \in 1..n : u[i] = s[a + i]

LEMMA ConcatIs ==
    ASSUME NEW S, NEW s \in Seq(S), NEW t \in Seq(S), NEW u \in Seq(S), Joins(u, s, t)
    PROVE  u = s \o t
<1>0. PICK m \in Nat, n \in Nat : m = Len(s) /\ n = Len(t)
  OBVIOUS
<1>j. /\ Len(u) = m + n
      /\ \A i \in 1..m : u[i] = s[i]
      /\ \A j \in 1..n : u[m + j] = t[j]
  BY <1>0, Zenon DEF Joins
<1> DEFINE both == s \o t
<1>1. /\ both \in Seq(S) /\ Len(both) = m + n
      /\ \A i \in 1..(m + n) : both[i] = IF i <= m THEN s[i] ELSE t[i - m]
  BY <1>0, ConcatProperties, Zenon
<1> HIDE DEF both
<1>2. ASSUME NEW i \in 1..(m + n) PROVE u[i] = both[i]
  <2>1. CASE i <= m
    BY <1>1, <1>j, <2>1
  <2>2. CASE i > m
    <3>1. i - m \in 1..n /\ m + (i - m) = i /\ ~(i <= m)
      BY <2>2
    <3> QED BY <1>1, <1>j, <3>1, Zenon
  <2> QED BY <2>1, <2>2
<1>3. u = both
  BY <1>j, <1>1, <1>2, SeqEqual, Zenon
<1> QED BY <1>3 DEF both

LEMMA SubSeqIs ==
    ASSUME NEW S, NEW s \in Seq(S), NEW u \in Seq(S), NEW a \in Nat, NEW n \in Nat,
           PartOf(u, s, a, n)
    PROVE  u = SubSeq(s, a + 1, a + n)
<1>0. a + n <= Len(s) /\ Len(u) = n /\ \A i \in 1..n : u[i] = s[a + i]
  BY Zenon DEF PartOf
<1> DEFINE part == SubSeq(s, a + 1, a + n)
<1>1. \A i \in (a + 1)..(a + n) : s[i] \in S
  <2>1. Len(s) \in Nat /\ \A i \in 1..Len(s) : s[i] \in S
    BY ElementOfSeq
  <2> QED BY <1>0, <2>1
<1>2. /\ part \in Seq(S)
      /\ Len(part) = IF a + 1 <= a + n THEN (a + n) - (a + 1) + 1 ELSE 0
      /\ \A i \in 1..((a + n) - (a + 1) + 1) : part[i] = s[(a + 1) + i - 1]
  <2>1. a + 1 \in Int /\ a + n \in Int
    OBVIOUS
  <2> QED BY <1>1, <2>1, SubSeqProperties
<1> HIDE DEF part
<1>3. Len(part) = n /\ \A i \in 1..n : part[i] = s[a + i]
  <2>1. (a + n) - (a + 1) + 1 = n /\ \A i \in 1..n : (a + 1) + i - 1 = a + i
    OBVIOUS
  <2>2. Len(part) = n
    BY <1>2
  <2> QED BY <1>2, <2>1, <2>2
<1>4. u = part
  BY <1>0, <1>2, <1>3, SeqEqual
<1> QED BY <1>4 DEF part

\* The items in the ring that no consumer has claimed, as a sequence.
LEMMA PendingSeq ==
    ASSUME IInv
    PROVE  /\ Pending \in Seq(Values \cup {NoItem})
           /\ Len(Pending) = prodTail - consHead
           /\ \A i \in 1..(prodTail - consHead) : Pending[i] = storage[(consHead + i - 1) % Size]
<1>1. consHead \in Nat /\ prodTail \in Nat /\ prodTail - consHead \in Nat
  BY Bounds
<1>2. ASSUME NEW i \in 1..(prodTail - consHead)
      PROVE  storage[(consHead + i - 1) % Size] \in Values \cup {NoItem}
  <2>1. consHead + i - 1 \in Nat
    BY <1>1
  <2> QED BY <2>1, InRing DEF IInv, TypeOK
<1>3. Pending \in [1..(prodTail - consHead) -> Values \cup {NoItem}]
  BY <1>2 DEF Pending
<1>4. Pending \in Seq(Values \cup {NoItem}) /\ Len(Pending) = prodTail - consHead
  BY <1>1, <1>3
<1> QED BY <1>4 DEF Pending

LEMMA PendingSeqNext ==
    IInv' => /\ Pending' \in Seq(Values \cup {NoItem})
             /\ Len(Pending') = prodTail' - consHead'
             /\ \A i \in 1..(prodTail' - consHead') :
                   Pending'[i] = storage'[(consHead' + i - 1) % Size]
<1> DEFINE P == /\ Pending \in Seq(Values \cup {NoItem})
                /\ Len(Pending) = prodTail - consHead
                /\ \A i \in 1..(prodTail - consHead) : Pending[i] = storage[(consHead + i - 1) % Size]
<1>1. IInv => P
  BY PendingSeq, Zenon
<1>2. IInv' => P'
  <2> HIDE DEF P
  <2> QED BY <1>1, PTL
<1> QED BY <1>2

\* A step that moves neither counter nor any item between them leaves the
\* abstract queue alone.
LEMMA PendingKept ==
    ASSUME UNCHANGED <<prodTail, consHead>>, IInv,
           \A k \in consHead..(prodTail - 1) : storage'[k % Size] = storage[k % Size]
    PROVE  Pending' = Pending
<1>1. consHead \in Nat /\ prodTail \in Nat
  BY Bounds
<1>2. \A i \in 1..(prodTail - consHead) : consHead + i - 1 \in consHead..(prodTail - 1)
  BY <1>1
<1> QED BY <1>2 DEF Pending

\* A consumer whose locals and claimed slots do not change has taken the same items.
LEMMA TakenByKept ==
    ASSUME IInv, NEW x \in Consumers, cons'[x] = cons[x],
           CClaimed(x) => \A k \in cons[x].old..(cons[x].old + cons[x].n - 1) :
                             storage'[k % Size] = storage[k % Size]
    PROVE  TakenBy(x)' = TakenBy(x)
<1>1. CASE CClaimed(x)
  <2>1. cons[x].old \in Nat /\ cons[x].n \in Nat
    BY <1>1, ConsumerClaim
  <2>2. \A i \in 1..cons[x].n : cons[x].old + i - 1 \in cons[x].old..(cons[x].old + cons[x].n - 1)
    BY <2>1
  <2>3. \A i \in 1..cons[x].n : storage'[(cons[x].old + i - 1) % Size] = storage[(cons[x].old + i - 1) % Size]
    BY <1>1, <2>2
  <2> QED BY <1>1, <2>3 DEF TakenBy, CClaimed
<1>2. CASE ~CClaimed(x)
  BY <1>2 DEF TakenBy, CClaimed
<1> QED BY <1>1, <1>2

\* Publishing a claim is the instant a batch enters the queue, whole and in order.
LEMMA InsertPublishEnqueues ==
    ASSUME QInv, QInv', NEW p \in Producers, InsertPublish(p)
    PROVE  \E items \in Batch : Fifo!Enqueue(items)
<1>0. IInv /\ IInv' /\ ProducerFilled(p)
  BY DEF QInv, Filled
<1>1. /\ prod[p].pc = "publish" /\ prodTail = prod[p].old /\ prodTail' = prod[p].old + prod[p].n
      /\ UNCHANGED <<prodHead, consHead, consTail, storage, cons>>
  BY DEF InsertPublish, ProducerTurn
<1>2. PICK n \in Nat : n = prod[p].n
  BY <1>0, <1>1, ProducerClaim DEF PClaimed
<1>3. /\ n >= 1 /\ n <= MaxBatch /\ prodTail + n <= prodHead
      /\ \A j \in 0..(n - 1) : storage[(prodTail + j) % Size] \in Values
  <2>1. /\ PClaimed(p) /\ n >= 1 /\ n <= Len(prod[p].data) /\ prodTail + n <= prodHead
        /\ Len(prod[p].data) \in Nat
    BY <1>0, <1>1, <1>2, ProducerClaim DEF PClaimed
  <2>2. Len(prod[p].data) <= MaxBatch /\ prod[p].i = n
    BY <1>0, <1>1, <1>2 DEF ProducerFilled
  <2>3. \A j \in 0..(n - 1) : storage[(prodTail + j) % Size] \in Values
    BY <1>0, <1>1, <2>1, <2>2 DEF ProducerFilled
  <2> QED BY <2>1, <2>2, <2>3, QueueAssumption
<1>b. /\ consTail \in Nat /\ consHead \in Nat /\ prodTail \in Nat /\ prodHead \in Nat /\ mask \in Nat
      /\ consTail <= consHead /\ consHead <= prodTail /\ prodTail <= prodHead
      /\ prodHead <= consTail + mask
  BY <1>0, Bounds, Zenon
<1> DEFINE items == [j \in 1..n |-> storage[(prodTail + (j - 1)) % Size]]
<1>4. items \in [1..n -> Values]
  <2>1. ASSUME NEW j \in 1..n PROVE storage[(prodTail + (j - 1)) % Size] \in Values
    <3>1. j - 1 \in 0..(n - 1)
      BY <1>2
    <3> QED BY <1>3, <3>1, Zenon
  <2> QED BY <2>1
<1>5. items \in Batch
  <2>1. n \in 1..MaxBatch
    BY <1>2, <1>3, QueueAssumption
  <2> QED BY <1>4, <2>1 DEF Batch
<1>6. /\ items \in Seq(Values \cup {NoItem}) /\ Len(items) = n
      /\ \A j \in 1..n : items[j] = storage[(prodTail + (j - 1)) % Size]
  <2>1. \A j \in 1..n : items[j] = storage[(prodTail + (j - 1)) % Size]
    BY Zenon
  <2> HIDE DEF items
  <2>2. items \in [1..n -> Values \cup {NoItem}]
    BY <1>4
  <2>3. items \in Seq(Values \cup {NoItem}) /\ Len(items) = n
    BY <1>2, <2>2
  <2> QED BY <2>1, <2>3
<1> HIDE DEF items
<1>7. Len(Pending) + Len(items) <= mask
  <2>1. Len(Pending) = prodTail - consHead
    BY <1>0, PendingSeq
  <2> QED BY <1>b, <1>2, <1>3, <1>6, <2>1
<1>8. Pending' = Pending \o items
  <2>1. PICK m \in Nat : m = prodTail - consHead
    BY <1>b
  <2>2. /\ Pending \in Seq(Values \cup {NoItem}) /\ Len(Pending) = m
        /\ \A i \in 1..m : Pending[i] = storage[(consHead + i - 1) % Size]
    BY <1>0, <2>1, PendingSeq
  <2>3. prodTail' - consHead' = m + n /\ consHead' = consHead /\ storage' = storage
    BY <1>b, <1>1, <1>2, <2>1
  <2>4. /\ Pending' \in Seq(Values \cup {NoItem}) /\ Len(Pending') = m + n
        /\ \A i \in 1..(m + n) : Pending'[i] = storage[(consHead + i - 1) % Size]
    BY <1>0, <2>3, PendingSeqNext, Zenon
  <2>5. \A i \in 1..m : Pending'[i] = Pending[i]
    BY <2>2, <2>4
  <2>6. ASSUME NEW j \in 1..n PROVE Pending'[m + j] = items[j]
    <3>1. m + j \in 1..(m + n) /\ consHead + (m + j) - 1 = prodTail + (j - 1)
      BY <1>b, <2>1
    <3> QED BY <1>6, <2>4, <3>1, Zenon
  <2>7. Joins(Pending', Pending, items)
    BY <1>6, <2>2, <2>4, <2>5, <2>6, Zenon DEF Joins
  <2> QED BY <1>6, <2>2, <2>4, <2>7, ConcatIs, Zenon
<1>9. Taken' = Taken
  BY <1>1 DEF Taken, TakenBy
<1> QED BY <1>5, <1>7, <1>8, <1>9 DEF Fifo!Enqueue

\* Winning the claim is the instant the items at the front leave the queue.
LEMMA PopClaimDequeues ==
    ASSUME QInv, QInv', NEW c \in Consumers, PopClaim(c), ClaimWins(c)
    PROVE  \E n \in 1..MaxBatch : Fifo!Dequeue(c, n)
<1>0. IInv /\ IInv' /\ ConsumerTook(c) /\ ConsumerOK(c)
  BY DEF QInv, Took, IInv, ConsLocals
<1>1. /\ cons \in [Consumers -> ConsumerRecord] /\ cons[c] \in ConsumerRecord
      /\ cons[c].pc = "claim" /\ UNCHANGED <<prodTail, storage>>
      /\ consHead' = cons[c].old + cons[c].n /\ cons' = [cons EXCEPT ![c].pc = "copy"]
  BY <1>0 DEF IInv, TypeOK, PopClaim
<1>2. PICK n \in Nat : n = cons[c].n
  BY <1>1 DEF ConsumerRecord
<1>b. consHead \in Nat /\ prodTail \in Nat /\ consHead <= prodTail /\ cons[c].old \in Nat
  BY <1>0, <1>1, Bounds DEF ConsumerRecord
<1>3. /\ cons[c].old = consHead /\ n >= 1 /\ n <= prodTail - consHead /\ n <= MaxBatch
      /\ cons[c].out = <<>>
  <2>1. cons[c].old = consHead
    BY <1>0, <1>1 DEF ConsumerOK, ClaimWins
  <2>2. n >= 1 /\ n <= prodTail - consHead
    BY <1>0, <1>1, <1>2, <2>1 DEF ConsumerOK
  <2>3. cons[c].count \in 1..MaxBatch /\ n <= cons[c].count /\ cons[c].out = <<>>
    BY <1>0, <1>1, <1>2 DEF ConsumerTook
  <2> QED BY <1>2, <2>1, <2>2, <2>3, QueueAssumption
<1>4. /\ cons'[c].pc = "copy" /\ cons'[c].n = n /\ cons'[c].old = consHead /\ cons'[c].out = <<>>
      /\ \A x \in Consumers \ {c} : cons'[x] = cons[x]
  BY <1>1, <1>2, <1>3 DEF ConsumerRecord
<1>5. PICK m \in Nat : m = prodTail - consHead
  BY <1>b
<1>6. /\ Pending \in Seq(Values \cup {NoItem}) /\ Len(Pending) = m
      /\ \A i \in 1..m : Pending[i] = storage[(consHead + i - 1) % Size]
  BY <1>0, <1>5, PendingSeq
<1>7. TakenBy(c)' = SubSeq(Pending, 1, n)
  <2> DEFINE T == TakenBy(c)'
  <2>1. T = [i \in 1..n |-> storage[(consHead + i - 1) % Size]]
    <3>1. \A i \in 1..n : ~(i <= Len(<<>>))
      OBVIOUS
    <3>2. T = [i \in 1..n |-> IF i <= Len(<<>>) THEN <<>>[i] ELSE storage[(consHead + i - 1) % Size]]
      BY <1>1, <1>4 DEF TakenBy
    <3> QED BY <3>1, <3>2
  <2> HIDE DEF T
  <2>2. 1..n \subseteq 1..m
    BY <1>3, <1>5
  <2>3. \A i \in 1..n : T[i] = Pending[i]
    BY <1>6, <2>1, <2>2
  <2>4. \A i \in 1..n : Pending[i] \in Values \cup {NoItem}
    BY <1>6, <2>2, ElementOfSeq
  <2>5. T \in [1..n -> Values \cup {NoItem}]
    BY <2>1, <2>3, <2>4
  <2>6. T \in Seq(Values \cup {NoItem}) /\ Len(T) = n
    BY <1>2, <2>5
  <2>7. PartOf(T, Pending, 0, n)
    <3>1. 0 + n <= m /\ \A i \in 1..n : 0 + i = i
      BY <1>3, <1>5
    <3> QED BY <1>6, <2>3, <2>6, <3>1, Zenon DEF PartOf
  <2>8. T = SubSeq(Pending, 0 + 1, 0 + n)
    <3>1. 0 \in Nat
      OBVIOUS
    <3> QED BY <1>2, <1>6, <2>6, <2>7, <3>1, SubSeqIs, Zenon
  <2>9. 0 + 1 = 1 /\ 0 + n = n
    BY <1>2
  <2> QED BY <2>8, <2>9, Zenon DEF T
<1>8. Taken' = [Taken EXCEPT ![c] = SubSeq(Pending, 1, n)]
  <2>1. \A x \in Consumers \ {c} : TakenBy(x)' = TakenBy(x)
    BY <1>1, <1>4 DEF TakenBy
  <2> QED BY <1>7, <2>1, Zenon DEF Taken
<1>9. Pending' = SubSeq(Pending, n + 1, Len(Pending))
  <2>1. PICK k \in Nat : k = m - n
    BY <1>2, <1>3, <1>5
  <2>2. prodTail' - consHead' = k /\ consHead' = consHead + n /\ storage' = storage
    BY <1>1, <1>2, <1>3, <1>5, <1>b, <2>1
  <2>3. /\ Pending' \in Seq(Values \cup {NoItem}) /\ Len(Pending') = k
        /\ \A i \in 1..k : Pending'[i] = storage[(consHead + n + i - 1) % Size]
    BY <1>0, <2>2, PendingSeqNext, Zenon
  <2>4. ASSUME NEW i \in 1..k PROVE Pending'[i] = Pending[n + i]
    <3>1. n + i \in 1..m /\ consHead + (n + i) - 1 = consHead + n + i - 1
      BY <1>2, <1>5, <1>b, <2>1
    <3> QED BY <1>6, <2>3, <3>1, Zenon
  <2>5. n + k = m /\ n + k <= m
    BY <1>2, <2>1
  <2>6. PartOf(Pending', Pending, n, k)
    BY <1>6, <2>3, <2>4, <2>5, Zenon DEF PartOf
  <2>7. Pending' = SubSeq(Pending, n + 1, n + k)
    <3>1. Pending \in Seq(Values \cup {NoItem}) /\ Pending' \in Seq(Values \cup {NoItem})
      BY <1>6, <2>3, Zenon
    <3>2. n \in Nat /\ k \in Nat
      BY <1>2, <2>1
    <3> QED BY <2>6, <3>1, <3>2, SubSeqIs, Zenon
  <2> QED BY <1>6, <2>5, <2>7, Zenon
<1>10. Taken[c] = <<>>
  BY <1>1 DEF Taken, TakenBy
<1>11. n \in 1..MaxBatch /\ n <= Len(Pending)
  BY <1>2, <1>3, <1>5, <1>6, QueueAssumption
<1> QED BY <1>8, <1>9, <1>10, <1>11, Zenon DEF Fifo!Dequeue

\* Giving the slots back ends the consumer's operation.
LEMMA PopPublishReturns ==
    ASSUME QInv, NEW c \in Consumers, PopPublish(c)
    PROVE  Fifo!Return(c)
<1>0. IInv /\ cons \in [Consumers -> ConsumerRecord]
  BY DEF QInv, IInv, TypeOK
<1>1. /\ CClaimed(c) /\ cons'[c].pc = "idle" /\ \A x \in Consumers \ {c} : cons'[x] = cons[x]
      /\ UNCHANGED <<prodTail, consHead, storage>>
  BY <1>0 DEF PopPublish, IdleConsumer, CClaimed
<1>2. Pending' = Pending
  BY <1>1 DEF Pending
<1>3. Taken[c] # <<>>
  <2>1. cons[c].n \in Nat /\ cons[c].n >= 1
    BY <1>0, <1>1, ConsumerClaim
  <2>2. DOMAIN TakenBy(c) = 1..cons[c].n
    BY <1>1 DEF TakenBy, CClaimed
  <2>3. 1 \in DOMAIN TakenBy(c) /\ 1 \notin DOMAIN <<>>
    BY <2>1, <2>2
  <2>4. TakenBy(c) # <<>>
    BY <2>3, Zenon
  <2> QED BY <2>4 DEF Taken
<1>4. Taken' = [Taken EXCEPT ![c] = <<>>]
  <2>1. TakenBy(c)' = <<>> /\ \A x \in Consumers \ {c} : TakenBy(x)' = TakenBy(x)
    BY <1>1 DEF TakenBy
  <2> QED BY <2>1, Zenon DEF Taken
<1> QED BY <1>2, <1>3, <1>4, Zenon DEF Fifo!Return

\* Constructing an item in the ring and copying one out are invisible: the
\* slot written is neither pending nor another consumer's.
LEMMA InsertCopyInvisible ==
    ASSUME QInv, NEW p \in Producers, InsertCopy(p)
    PROVE  Pending' = Pending /\ Taken' = Taken
<1> DEFINE at == prod[p].old + prod[p].i
<1>0. IInv /\ UNCHANGED <<prodTail, consHead, cons>>
  BY DEF QInv, InsertCopy
<1>b. /\ consTail \in Nat /\ consHead \in Nat /\ prodTail \in Nat /\ prodHead \in Nat /\ mask \in Nat
      /\ consTail <= consHead /\ consHead <= prodTail /\ prodTail <= prodHead
      /\ prodHead <= consTail + mask
  BY <1>0, Bounds, Zenon
<1>1. /\ at \in Nat /\ prodTail <= at
      /\ \A k \in consTail..(consTail + mask) : k # at => storage'[k % Size] = storage[k % Size]
  BY <1>0, InsertCopyEffect
<1> HIDE DEF at
<1>2. \A k \in consTail..(prodTail - 1) : storage'[k % Size] = storage[k % Size]
  <2> SUFFICES ASSUME NEW k \in consTail..(prodTail - 1)
               PROVE  storage'[k % Size] = storage[k % Size]
    OBVIOUS
  <2>1. k \in consTail..(consTail + mask) /\ k # at
    BY <1>b, <1>1
  <2> QED BY <1>1, <2>1
<1>3. Pending' = Pending
  <2>1. \A k \in consHead..(prodTail - 1) : k \in consTail..(prodTail - 1)
    BY <1>b
  <2> QED BY <1>0, <1>2, <2>1, PendingKept
<1>4. ASSUME NEW x \in Consumers PROVE TakenBy(x)' = TakenBy(x)
  <2>1. ASSUME CClaimed(x), NEW k \in cons[x].old..(cons[x].old + cons[x].n - 1)
        PROVE  storage'[k % Size] = storage[k % Size]
    <3>1. /\ cons[x].old \in Nat /\ cons[x].n \in Nat /\ consTail <= cons[x].old
          /\ cons[x].old + cons[x].n <= consHead
      BY <1>0, <2>1, ConsumerClaim
    <3>2. k \in consTail..(prodTail - 1)
      BY <1>b, <3>1
    <3> QED BY <1>2, <3>2
  <2> QED BY <1>0, <2>1, TakenByKept
<1>5. Taken' = Taken
  BY <1>4, Zenon DEF Taken
<1> QED BY <1>3, <1>5

LEMMA PopCopyInvisible ==
    ASSUME QInv, QInv', NEW c \in Consumers, PopCopy(c)
    PROVE  Pending' = Pending /\ Taken' = Taken
<1> DEFINE at == cons[c].old + Len(cons[c].out)
           item == storage[at % Size]
<1>0. IInv /\ Took /\ UNCHANGED <<prodTail, consHead>>
  BY DEF QInv, PopCopy
<1>b. /\ consTail \in Nat /\ consHead \in Nat /\ prodTail \in Nat /\ prodHead \in Nat /\ mask \in Nat
      /\ consTail <= consHead /\ consHead <= prodTail /\ prodTail <= prodHead
      /\ prodHead <= consTail + mask
  BY <1>0, Bounds, Zenon
<1>1. /\ at \in Nat /\ cons[c].old <= at /\ at < cons[c].old + cons[c].n /\ at < consHead
      /\ \A k \in consTail..(consTail + mask) : k # at => storage'[k % Size] = storage[k % Size]
      /\ cons[c].pc = "copy"
      /\ \A x \in Consumers \ {c} : cons'[x] = cons[x]
      /\ cons'[c].old = cons[c].old /\ cons'[c].n = cons[c].n
      /\ cons'[c].out = Append(cons[c].out, item)
      /\ cons'[c].pc \in {"copy", "publish"}
  BY <1>0, PopCopyEffect
<1>2. /\ CClaimed(c) /\ cons[c].old \in Nat /\ cons[c].n \in Nat
      /\ consTail <= cons[c].old /\ cons[c].old + cons[c].n <= consHead
      /\ cons[c].out \in Seq(Values \cup {NoItem}) /\ Len(cons[c].out) \in Nat
  <2>1. CClaimed(c)
    BY <1>1 DEF CClaimed
  <2> QED BY <1>0, <2>1, ConsumerClaim
<1>3. PICK l \in Nat : l = Len(cons[c].out) /\ at = cons[c].old + l
  BY <1>2
<1>4. item \in Values \cup {NoItem}
  BY <1>0, <1>1, InRing DEF IInv, TypeOK
<1>5. PICK v : v = item
  OBVIOUS
<1>6. /\ Len(cons'[c].out) = l + 1 /\ cons'[c].out[l + 1] = v
      /\ \A i \in 1..l : cons'[c].out[i] = cons[c].out[i]
  <2> HIDE DEF item
  <2> QED BY <1>1, <1>2, <1>3, <1>4, <1>5
<1>7. storage[(cons[c].old + l) % Size] = v
  BY <1>3, <1>5, Zenon
<1> HIDE DEF at, item
<1>8. Pending' = Pending
  <2>1. ASSUME NEW k \in consHead..(prodTail - 1) PROVE storage'[k % Size] = storage[k % Size]
    <3>1. k \in consTail..(consTail + mask) /\ k # at
      BY <1>b, <1>1
    <3> QED BY <1>1, <3>1
  <2> QED BY <1>0, <2>1, PendingKept
<1>9. ASSUME NEW x \in Consumers, x # c PROVE TakenBy(x)' = TakenBy(x)
  <2>1. ASSUME CClaimed(x), NEW k \in cons[x].old..(cons[x].old + cons[x].n - 1)
        PROVE  storage'[k % Size] = storage[k % Size]
    <3>1. /\ cons[x].old \in Nat /\ cons[x].n \in Nat /\ consTail <= cons[x].old
          /\ cons[x].old + cons[x].n <= consHead
      BY <1>0, <2>1, ConsumerClaim
    <3>2. Apart(cons[c], cons[x])
      BY <1>0, <1>2, <1>9, <2>1 DEF IInv, ConsApart
    <3>3. k \in consTail..(consTail + mask) /\ k # at
      <4>1. PICK o \in Nat, n \in Nat, a \in Nat, m \in Nat :
                    o = cons[x].old /\ n = cons[x].n /\ a = cons[c].old /\ m = cons[c].n
        BY <1>2, <3>1, Zenon
      <4>2. k \in o..(o + n - 1) /\ a <= at /\ at < a + m /\ (a + m <= o \/ o + n <= a)
        BY <1>1, <2>1, <3>2, <4>1, Zenon DEF Apart
      <4>3. consTail <= o /\ o + n <= consHead
        BY <3>1, <4>1, Zenon
      <4>4. at \in Nat
        BY <1>1, Zenon
      <4>5. k \in Nat /\ o <= k /\ k < o + n
        BY <4>1, <4>2
      <4>6. k # at
        BY <4>1, <4>2, <4>4, <4>5
      <4> QED BY <1>b, <4>1, <4>3, <4>5, <4>6
    <3> QED BY <1>1, <3>3
  <2> QED BY <1>0, <1>1, <1>9, <2>1, TakenByKept
<1>10. TakenBy(c)' = TakenBy(c)
  <2> DEFINE was(i) == IF i <= Len(cons[c].out) THEN cons[c].out[i]
                       ELSE storage[(cons[c].old + i - 1) % Size]
             is(i) == IF i <= Len(cons'[c].out) THEN cons'[c].out[i]
                      ELSE storage'[(cons[c].old + i - 1) % Size]
  <2>1. ASSUME NEW i \in 1..cons[c].n PROVE is(i) = was(i)
    <3>0. i \in Nat /\ i >= 1 /\ i <= cons[c].n
      BY <1>2
    <3>1. CASE i <= l
      BY <1>3, <1>6, <3>0, <3>1
    <3>2. CASE i = l + 1
      <4>1. cons[c].old + i - 1 = cons[c].old + l /\ ~(i <= l) /\ i <= l + 1
        BY <1>2, <1>3, <3>0, <3>2
      <4> QED BY <1>3, <1>6, <1>7, <3>2, <4>1, Zenon
    <3>3. CASE i > l + 1
      <4>1. /\ cons[c].old + i - 1 \in consTail..(consTail + mask)
            /\ cons[c].old + i - 1 # at /\ ~(i <= l) /\ ~(i <= l + 1)
        <5>1. PICK o \in Nat, k \in Nat : o = cons[c].old /\ k = cons[c].n
          BY <1>2
        <5>2. consTail <= o /\ o + k <= consHead /\ at = o + l /\ i <= k
          BY <1>2, <1>3, <3>0, <5>1
        <5>3. o + i - 1 \in consTail..(consTail + mask) /\ o + i - 1 # at /\ ~(i <= l) /\ ~(i <= l + 1)
          <6>1. i \in Nat /\ i >= 1 /\ i > l + 1 /\ l \in Nat
            BY <1>3, <3>0, <3>3
          <6>2. i - 1 # l /\ i - 1 \in Nat /\ ~(i <= l) /\ ~(i <= l + 1) /\ i - 1 < k
            BY <3>0, <5>1, <5>2, <6>1
          <6>3. PICK e \in Nat : e = o + i - 1
            BY <5>1, <6>1, <6>2
          <6>4. e # at /\ consTail <= e /\ e < consHead
            BY <1>b, <5>1, <5>2, <6>1, <6>2, <6>3
          <6> QED BY <1>b, <6>2, <6>3, <6>4
        <5> QED BY <5>1, <5>3
      <4> QED BY <1>1, <1>3, <1>6, <4>1, Zenon
    <3> QED BY <3>0, <3>1, <3>2, <3>3
  <2>2. TakenBy(c) = [i \in 1..cons[c].n |-> was(i)]
    BY <1>2 DEF TakenBy, CClaimed
  <2>3. TakenBy(c)' = [i \in 1..cons[c].n |-> is(i)]
    BY <1>1 DEF TakenBy
  <2> HIDE DEF was, is
  <2> QED BY <2>1, <2>2, <2>3, Zenon
<1>11. Taken' = Taken
  BY <1>9, <1>10, Zenon DEF Taken
<1> QED BY <1>8, <1>11

\* Steps that move no item between ring and consumer and publish nothing are
\* invisible too.
LEMMA InsertLocalInvisible ==
    ASSUME UNCHANGED <<prodTail, consHead, storage, cons>>
    PROVE  Pending' = Pending /\ Taken' = Taken
  BY DEF Pending, Taken, TakenBy

LEMMA PopLocalInvisible ==
    ASSUME NEW c \in Consumers, UNCHANGED <<prodTail, consHead, storage>>,
           ~CClaimed(c), ~CClaimed(c)', \A x \in Consumers \ {c} : cons'[x] = cons[x]
    PROVE  Pending' = Pending /\ Taken' = Taken
<1>1. Pending' = Pending
  BY DEF Pending
<1>2. \A x \in Consumers : TakenBy(x)' = TakenBy(x)
  BY DEF TakenBy, CClaimed
<1>3. Taken' = Taken
  BY <1>2, Zenon DEF Taken
<1> QED BY <1>1, <1>3

\* Every step of the ring is a step of the atomic queue or changes nothing in it.
LEMMA StepIsFifo == QInv /\ QInv' /\ [Next]_vars => [Fifo!FifoNext]_(Fifo!fifoVars)
<1> SUFFICES ASSUME QInv, QInv', [Next]_vars
             PROVE  Fifo!FifoNext \/ (Pending' = Pending /\ Taken' = Taken)
  BY Zenon DEF Fifo!fifoVars
<1>0. cons \in [Consumers -> ConsumerRecord]
  BY DEF QInv, IInv, TypeOK
<1>1. CASE Next
  <2>1. ASSUME NEW p \in Producers, NEW data \in Batch, NEW partial \in BOOLEAN,
               Insert(p, data, partial)
        PROVE  Pending' = Pending /\ Taken' = Taken
    BY <2>1, InsertLocalInvisible DEF Insert
  <2>2. ASSUME NEW p \in Producers, ProducerStep(p)
        PROVE  Fifo!FifoNext \/ (Pending' = Pending /\ Taken' = Taken)
    <3>1. CASE InsertReserve(p) \/ InsertClaim(p)
      BY <3>1, InsertLocalInvisible DEF InsertReserve, InsertClaim
    <3>2. CASE InsertCopy(p)
      BY <3>2, InsertCopyInvisible
    <3>3. CASE InsertPublish(p)
      <4>1. \E items \in Batch : Fifo!Enqueue(items)
        BY <3>3, InsertPublishEnqueues
      <4> QED BY <4>1, Zenon DEF Fifo!FifoNext, Fifo!Batch, Batch
    <3> QED BY <2>2, <3>1, <3>2, <3>3 DEF ProducerStep
  <2>3. ASSUME NEW c \in Consumers, NEW count \in 1..MaxBatch, NEW partial \in BOOLEAN,
               Pop(c, count, partial)
        PROVE  Pending' = Pending /\ Taken' = Taken
    <3>1. /\ UNCHANGED <<prodTail, consHead, storage>> /\ ~CClaimed(c) /\ ~CClaimed(c)'
          /\ \A x \in Consumers \ {c} : cons'[x] = cons[x]
      BY <1>0, <2>3 DEF Pop, CClaimed, IdleConsumer
    <3> QED BY <3>1, PopLocalInvisible
  <2>4. ASSUME NEW c \in Consumers, ConsumerStep(c)
        PROVE  Fifo!FifoNext \/ (Pending' = Pending /\ Taken' = Taken)
    <3>0. cons[c] \in ConsumerRecord
      BY <1>0
    <3>1. CASE PopReserve(c)
      <4>1. /\ UNCHANGED <<prodTail, consHead, storage>> /\ ~CClaimed(c) /\ ~CClaimed(c)'
            /\ \A x \in Consumers \ {c} : cons'[x] = cons[x]
        BY <1>0, <3>0, <3>1 DEF PopReserve, CClaimed, IdleConsumer, ConsumerRecord
      <4> QED BY <4>1, PopLocalInvisible
    <3>2. CASE PopClaim(c) /\ ~ClaimWins(c)
      <4>1. /\ UNCHANGED <<prodTail, consHead, storage>> /\ ~CClaimed(c) /\ ~CClaimed(c)'
            /\ \A x \in Consumers \ {c} : cons'[x] = cons[x]
        BY <1>0, <3>0, <3>2 DEF PopClaim, CClaimed, ConsumerRecord
      <4> QED BY <4>1, PopLocalInvisible
    <3>3. CASE PopClaim(c) /\ ClaimWins(c)
      <4>1. \E n \in 1..MaxBatch : Fifo!Dequeue(c, n)
        BY <3>3, PopClaimDequeues
      <4> QED BY <4>1, Zenon DEF Fifo!FifoNext
    <3>4. CASE PopCopy(c)
      BY <3>4, PopCopyInvisible
    <3>5. CASE PopPublish(c)
      <4>1. Fifo!Return(c)
        BY <3>5, PopPublishReturns
      <4> QED BY <4>1, Zenon DEF Fifo!FifoNext
    <3> QED BY <2>4, <3>1, <3>2, <3>3, <3>4, <3>5 DEF ConsumerStep
  <2> QED BY <1>1, <2>1, <2>2, <2>3, <2>4 DEF Next
<1>2. CASE UNCHANGED vars
  BY <1>2, InsertLocalInvisible DEF vars
<1> QED BY <1>1, <1>2

\* The queue starts empty.
LEMMA InitIsFifo == Init => Fifo!FifoInit
<1> SUFFICES ASSUME Init PROVE Pending = <<>> /\ Taken = [c \in Consumers |-> <<>>]
  BY Zenon DEF Fifo!FifoInit
<1>1. Pending = <<>>
  <2>1. 1..(prodTail - consHead) = {}
    BY DEF Init
  <2>2. Pending \in [1..0 -> Values]
    BY <2>1 DEF Pending
  <2>3. Pending \in Seq(Values) /\ Len(Pending) = 0
    BY <2>2
  <2> QED BY <2>3
<1>2. Taken = [c \in Consumers |-> <<>>]
  BY DEF Init, IdleConsumer, Taken, TakenBy
<1> QED BY <1>1, <1>2

\* The ring queue implements the atomic bounded FIFO queue: batches enter
\* whole and in order when insert() publishes them, and pop() takes, in order,
\* what is at the front when it claims, for any number of producers and
\* consumers, any ring size and any batches.
THEOREM QueueIsFifo == Spec => ImplementsFifo
<1>1. QInv /\ [Next]_vars => [Fifo!FifoNext]_(Fifo!fifoVars)
  BY StepIsFifo, NextQInv
<1> QED BY <1>1, InitQInv, NextQInv, InitIsFifo, PTL DEF Spec, ImplementsFifo, Fifo!FifoSpec
----------------------------------------------------------------------------
(***************************************************************************)
(* Whose turn it is.  TurnPassed alone is not inductive: the claim made    *)
(* next begins at the head, so the head, too, is the tail or the end of a  *)
(* claim.                                                                  *)
(***************************************************************************)
PEnds(k) == \E q \in Producers : PClaimed(q) /\ prod[q].old + prod[q].n = k
CEnds(k) == \E d \in Consumers : CClaimed(d) /\ cons[d].old + cons[d].n = k
PEndsNext(k) == \E q \in Producers : PClaimed(q)' /\ prod'[q].old + prod'[q].n = k
CEndsNext(k) == \E d \in Consumers : CClaimed(d)' /\ cons'[d].old + cons'[d].n = k

ProdTurns ==
    /\ prodTail = prodHead \/ PEnds(prodHead)
    /\ \A p \in Producers : PClaimed(p) => prod[p].old = prodTail \/ PEnds(prod[p].old)
ConsTurns ==
    /\ consTail = consHead \/ CEnds(consHead)
    /\ \A c \in Consumers : CClaimed(c) => cons[c].old = consTail \/ CEnds(cons[c].old)

TInv == IInv /\ ProdTurns /\ ConsTurns

\* A step that changes no claim changes no turn.
LEMMA ProdTurnsKept ==
    ASSUME ProdTurns, UNCHANGED <<prodHead, prodTail>>,
           \A x \in Producers : /\ PClaimed(x)' <=> PClaimed(x)
                                /\ PClaimed(x) => prod'[x].old = prod[x].old /\ prod'[x].n = prod[x].n
    PROVE  ProdTurns'
<1>1. \A k : PEnds(k) => PEndsNext(k)
  BY DEF PEnds, PEndsNext
<1> QED BY <1>1 DEF ProdTurns, PEnds, PEndsNext

LEMMA ConsTurnsKept ==
    ASSUME ConsTurns, UNCHANGED <<consHead, consTail>>,
           \A x \in Consumers : /\ CClaimed(x)' <=> CClaimed(x)
                                /\ CClaimed(x) => cons'[x].old = cons[x].old /\ cons'[x].n = cons[x].n
    PROVE  ConsTurns'
<1>1. \A k : CEnds(k) => CEndsNext(k)
  BY DEF CEnds, CEndsNext
<1> QED BY <1>1 DEF ConsTurns, CEnds, CEndsNext

\* A new claim begins where the one before ends.
LEMMA InsertClaimTurns ==
    ASSUME TInv, NEW p \in Producers, InsertClaim(p)
    PROVE  ProdTurns'
<1>1. /\ prod \in [Producers -> ProducerRecord] /\ prod[p] \in ProducerRecord /\ ProdTurns
      /\ prod[p].pc = "claim" /\ UNCHANGED prodTail
  BY DEF TInv, IInv, TypeOK, InsertClaim
<1>2. CASE ~InsertWins(p)
  <2>1. /\ prodHead' = prodHead /\ prod'[p].pc = "reserve"
        /\ \A x \in Producers \ {p} : prod'[x] = prod[x]
    BY <1>1, <1>2 DEF InsertClaim, ProducerRecord
  <2> QED BY <1>1, <2>1, ProdTurnsKept DEF PClaimed
<1>3. CASE InsertWins(p)
  <2>1. prod[p].old = prodHead
    BY <1>1, <1>3 DEF InsertWins, TInv, IInv, ProdLocals, ProducerOK
  <2>2. /\ prodHead' = prodHead + prod[p].n /\ prod'[p].pc = "copy"
        /\ prod'[p].old = prodHead /\ prod'[p].n = prod[p].n
        /\ \A x \in Producers \ {p} : prod'[x] = prod[x]
    BY <1>1, <1>3, <2>1 DEF InsertClaim, ProducerRecord
  <2>3. ~PClaimed(p) /\ PClaimed(p)'
    BY <1>1, <2>2 DEF PClaimed
  <2>4. \A k : PEnds(k) => PEndsNext(k)
    BY <2>2, <2>3 DEF PEnds, PEndsNext, PClaimed
  <2>5. PEndsNext(prodHead')
    BY <2>2, <2>3 DEF PEnds, PEndsNext
  <2>6. ASSUME NEW x \in Producers, PClaimed(x)'
        PROVE  prod'[x].old = prodTail' \/ PEndsNext(prod'[x].old)
    <3>1. CASE x = p
      BY <3>1, <1>1, <2>2, <2>4 DEF ProdTurns
    <3>2. CASE x # p
      <4>1. prod'[x] = prod[x] /\ PClaimed(x)
        BY Zenon, <3>2, <2>6, <2>2 DEF PClaimed
      <4>2. prod[x].old = prodTail \/ PEnds(prod[x].old)
        BY Zenon, <1>1, <4>1 DEF ProdTurns
      <4> QED BY Zenon, <1>1, <2>4, <4>1, <4>2
    <3> QED BY <3>1, <3>2
  <2> QED BY <2>5, <2>6 DEF ProdTurns, PEnds, PEndsNext
<1> QED BY <1>2, <1>3

LEMMA PopClaimTurns ==
    ASSUME TInv, NEW c \in Consumers, PopClaim(c)
    PROVE  ConsTurns'
<1>1. /\ cons \in [Consumers -> ConsumerRecord] /\ cons[c] \in ConsumerRecord /\ ConsTurns
      /\ cons[c].pc = "claim" /\ UNCHANGED consTail
  BY DEF TInv, IInv, TypeOK, PopClaim
<1>2. CASE ~ClaimWins(c)
  <2>1. /\ consHead' = consHead /\ cons'[c].pc = "reserve"
        /\ \A x \in Consumers \ {c} : cons'[x] = cons[x]
    BY <1>1, <1>2 DEF PopClaim, ConsumerRecord
  <2> QED BY <1>1, <2>1, ConsTurnsKept DEF CClaimed
<1>3. CASE ClaimWins(c)
  <2>1. cons[c].old = consHead
    BY <1>1, <1>3 DEF ClaimWins, TInv, IInv, ConsLocals, ConsumerOK
  <2>2. /\ consHead' = consHead + cons[c].n /\ cons'[c].pc = "copy"
        /\ cons'[c].old = consHead /\ cons'[c].n = cons[c].n
        /\ \A x \in Consumers \ {c} : cons'[x] = cons[x]
    BY <1>1, <1>3, <2>1 DEF PopClaim, ConsumerRecord
  <2>3. ~CClaimed(c) /\ CClaimed(c)'
    BY <1>1, <2>2 DEF CClaimed
  <2>4. \A k : CEnds(k) => CEndsNext(k)
    BY <2>2, <2>3 DEF CEnds, CEndsNext, CClaimed
  <2>5. CEndsNext(consHead')
    BY <2>2, <2>3 DEF CEnds, CEndsNext
  <2>6. ASSUME NEW x \in Consumers, CClaimed(x)'
        PROVE  cons'[x].old = consTail' \/ CEndsNext(cons'[x].old)
    <3>1. CASE x = c
      BY <3>1, <1>1, <2>2, <2>4 DEF ConsTurns
    <3>2. CASE x # c
      <4>1. cons'[x] = cons[x] /\ CClaimed(x)
        BY Zenon, <3>2, <2>6, <2>2 DEF CClaimed
      <4>2. cons[x].old = consTail \/ CEnds(cons[x].old)
        BY Zenon, <1>1, <4>1 DEF ConsTurns
      <4> QED BY Zenon, <1>1, <2>4, <4>1, <4>2
    <3> QED BY <3>1, <3>2
  <2> QED BY <2>5, <2>6 DEF ConsTurns, CEnds, CEndsNext
<1> QED BY <1>2, <1>3

\* The tail moves to where the claim after the published one begins.
LEMMA InsertPublishTurns ==
    ASSUME TInv, NEW p \in Producers, InsertPublish(p)
    PROVE  ProdTurns'
<1>1. /\ prod \in [Producers -> ProducerRecord] /\ ProdTurns /\ ProdApart /\ ProdLocals
      /\ \A x \in Producers : prod[x].old \in Nat /\ prod[x].n \in Nat
  BY DEF TInv, IInv, TypeOK, ProducerRecord
<1>2. /\ prodTail = prod[p].old /\ prodTail' = prod[p].old + prod[p].n /\ prodHead' = prodHead
      /\ PClaimed(p) /\ ~PClaimed(p)' /\ \A x \in Producers \ {p} : prod'[x] = prod[x]
  BY <1>1 DEF InsertPublish, ProducerTurn, PClaimed, IdleProducer
<1>3. \A k : PEnds(k) => k = prodTail' \/ PEndsNext(k)
  BY <1>2 DEF PEnds, PEndsNext, PClaimed
<1>4. ASSUME NEW x \in Producers, PClaimed(x)'
      PROVE  prod'[x].old = prodTail' \/ PEndsNext(prod'[x].old)
  <2>1. x # p /\ prod'[x] = prod[x] /\ PClaimed(x)
    BY <1>2, <1>4 DEF PClaimed
  <2>2. prod[x].old # prodTail
    <3>1. Apart(prod[p], prod[x]) /\ prod[p].n >= 1 /\ prod[x].n >= 1
      BY <1>1, <1>2, <2>1 DEF ProdApart, ProdLocals, ProducerOK, PClaimed
    <3> QED BY <3>1, <1>1, <1>2 DEF Apart
  <2> QED BY <1>1, <1>3, <2>1, <2>2 DEF ProdTurns
<1>5. prodTail = prodHead => prodTail' = prodHead
  <2>1. ProducerOK(p)
    BY Zenon, <1>1 DEF ProdLocals
  <2>2. prod[p].n >= 1 /\ prod[p].old + prod[p].n <= prodHead
    BY Zenon, <1>2, <2>1 DEF ProducerOK, PClaimed
  <2>3. prodHead \in Nat
    BY DEF TInv, IInv, TypeOK
  <2> QED BY <1>1, <1>2, <2>2, <2>3
<1>6. prodTail' = prodHead' \/ PEndsNext(prodHead')
  BY <1>1, <1>2, <1>3, <1>5 DEF ProdTurns
<1> QED BY <1>4, <1>6 DEF ProdTurns, PEnds, PEndsNext

LEMMA PopPublishTurns ==
    ASSUME TInv, NEW c \in Consumers, PopPublish(c)
    PROVE  ConsTurns'
<1>1. /\ cons \in [Consumers -> ConsumerRecord] /\ ConsTurns /\ ConsApart /\ ConsLocals
      /\ \A x \in Consumers : cons[x].old \in Nat /\ cons[x].n \in Nat
  BY DEF TInv, IInv, TypeOK, ConsumerRecord
<1>2. /\ consTail = cons[c].old /\ consTail' = cons[c].old + cons[c].n /\ consHead' = consHead
      /\ CClaimed(c) /\ ~CClaimed(c)' /\ \A x \in Consumers \ {c} : cons'[x] = cons[x]
  BY <1>1 DEF PopPublish, ConsumerTurn, CClaimed, IdleConsumer
<1>3. \A k : CEnds(k) => k = consTail' \/ CEndsNext(k)
  BY <1>2 DEF CEnds, CEndsNext, CClaimed
<1>4. ASSUME NEW x \in Consumers, CClaimed(x)'
      PROVE  cons'[x].old = consTail' \/ CEndsNext(cons'[x].old)
  <2>1. x # c /\ cons'[x] = cons[x] /\ CClaimed(x)
    BY <1>2, <1>4 DEF CClaimed
  <2>2. cons[x].old # consTail
    <3>1. Apart(cons[c], cons[x]) /\ cons[c].n >= 1 /\ cons[x].n >= 1
      BY <1>1, <1>2, <2>1 DEF ConsApart, ConsLocals, ConsumerOK, CClaimed
    <3> QED BY <3>1, <1>1, <1>2 DEF Apart
  <2> QED BY <1>1, <1>3, <2>1, <2>2 DEF ConsTurns
<1>5. consTail = consHead => consTail' = consHead
  <2>1. ConsumerOK(c)
    BY Zenon, <1>1 DEF ConsLocals
  <2>2. cons[c].n >= 1 /\ cons[c].old + cons[c].n <= consHead
    BY Zenon, <1>2, <2>1 DEF ConsumerOK, CClaimed
  <2>3. consHead \in Nat
    BY DEF TInv, IInv, TypeOK
  <2> QED BY <1>1, <1>2, <2>2, <2>3
<1>6. consTail' = consHead' \/ CEndsNext(consHead')
  BY <1>1, <1>2, <1>3, <1>5 DEF ConsTurns
<1> QED BY <1>4, <1>6 DEF ConsTurns, CEnds, CEndsNext

\* Every step passes the turns on.
LEMMA NextTurns == TInv /\ [Next]_vars => ProdTurns' /\ ConsTurns'
<1> SUFFICES ASSUME TInv, [Next]_vars PROVE ProdTurns' /\ ConsTurns'
  OBVIOUS
<1>0. /\ ProdTurns /\ ConsTurns
      /\ prod \in [Producers -> ProducerRecord] /\ cons \in [Consumers -> ConsumerRecord]
      /\ \A p \in Producers : prod[p] \in ProducerRecord
      /\ \A c \in Consumers : cons[c] \in ConsumerRecord
  BY DEF TInv, IInv, TypeOK
<1>1. ASSUME UNCHANGED <<consHead, consTail, cons>> PROVE ConsTurns'
  BY <1>0, <1>1, ConsTurnsKept DEF CClaimed
<1>2. ASSUME UNCHANGED <<prodHead, prodTail, prod>> PROVE ProdTurns'
  BY <1>0, <1>2, ProdTurnsKept DEF PClaimed
<1>3. ASSUME NEW p \in Producers, NEW data \in Batch, NEW partial \in BOOLEAN,
             Insert(p, data, partial)
      PROVE  ProdTurns'
  <2>1. /\ prod[p].pc = "idle" /\ prod'[p].pc = "reserve" /\ UNCHANGED <<prodHead, prodTail>>
        /\ \A x \in Producers \ {p} : prod'[x] = prod[x]
    BY <1>0, <1>3 DEF Insert, IdleProducer
  <2> QED BY <1>0, <2>1, ProdTurnsKept DEF PClaimed
<1>4. ASSUME NEW p \in Producers, InsertReserve(p) PROVE ProdTurns'
  <2>1. /\ prod[p].pc = "reserve" /\ prod'[p].pc \in {"idle", "claim"}
        /\ UNCHANGED <<prodHead, prodTail>>
        /\ \A x \in Producers \ {p} : prod'[x] = prod[x]
    BY <1>0, <1>4 DEF InsertReserve, IdleProducer, ProducerRecord
  <2> QED BY <1>0, <2>1, ProdTurnsKept DEF PClaimed
<1>5. ASSUME NEW p \in Producers, InsertCopy(p) PROVE ProdTurns'
  <2>1. /\ prod[p].pc = "copy" /\ prod'[p].pc \in {"copy", "publish"}
        /\ prod'[p].old = prod[p].old /\ prod'[p].n = prod[p].n
        /\ UNCHANGED <<prodHead, prodTail>>
        /\ \A x \in Producers \ {p} : prod'[x] = prod[x]
    BY <1>0, <1>5 DEF InsertCopy, ProducerRecord
  <2> QED BY <1>0, <2>1, ProdTurnsKept DEF PClaimed
<1>6. ASSUME NEW c \in Consumers, NEW count \in 1..MaxBatch, NEW partial \in BOOLEAN,
             Pop(c, count, partial)
      PROVE  ConsTurns'
  <2>1. /\ cons[c].pc = "idle" /\ cons'[c].pc = "reserve" /\ UNCHANGED <<consHead, consTail>>
        /\ \A x \in Consumers \ {c} : cons'[x] = cons[x]
    BY <1>0, <1>6 DEF Pop, IdleConsumer
  <2> QED BY <1>0, <2>1, ConsTurnsKept DEF CClaimed
<1>7. ASSUME NEW c \in Consumers, PopReserve(c) PROVE ConsTurns'
  <2>1. /\ cons[c].pc = "reserve" /\ cons'[c].pc \in {"idle", "claim", "panic"}
        /\ UNCHANGED <<consHead, consTail>>
        /\ \A x \in Consumers \ {c} : cons'[x] = cons[x]
    BY <1>0, <1>7 DEF PopReserve, IdleConsumer, ConsumerRecord
  <2> QED BY <1>0, <2>1, ConsTurnsKept DEF CClaimed
<1>8. ASSUME NEW c \in Consumers, PopCopy(c) PROVE ConsTurns'
  <2>1. /\ cons[c].pc = "copy" /\ cons'[c].pc \in {"copy", "publish"}
        /\ cons'[c].old = cons[c].old /\ cons'[c].n = cons[c].n
        /\ UNCHANGED <<consHead, consTail>>
        /\ \A x \in Consumers \ {c} : cons'[x] = cons[x]
    BY <1>0, <1>8 DEF PopCopy, ConsumerRecord
  <2> QED BY <1>0, <2>1, ConsTurnsKept DEF CClaimed
<1>9. ASSUME NEW p \in Producers, ProducerStep(p) PROVE ProdTurns' /\ ConsTurns'
  <2>1. UNCHANGED <<consHead, consTail, cons>>
    BY <1>9 DEF ProducerStep, InsertReserve, InsertClaim, InsertCopy, InsertPublish
  <2> QED BY <1>1, <1>4, <1>5, <1>9, <2>1, InsertClaimTurns, InsertPublishTurns DEF ProducerStep
<1>10. ASSUME NEW c \in Consumers, ConsumerStep(c) PROVE ProdTurns' /\ ConsTurns'
  <2>1. UNCHANGED <<prodHead, prodTail, prod>>
    BY Zenon, <1>10 DEF ConsumerStep, PopReserve, PopClaim, PopCopy, PopPublish
  <2> QED BY <1>2, <1>7, <1>8, <1>10, <2>1, PopClaimTurns, PopPublishTurns DEF ConsumerStep
<1>11. CASE Next
  BY Zenon, <1>11, <1>1, <1>2, <1>3, <1>6, <1>9, <1>10 DEF Next, Insert, Pop
<1>12. CASE UNCHANGED vars
  BY <1>12, <1>1, <1>2 DEF vars
<1> QED BY <1>11, <1>12

\* Whoever spins for its turn waits for the claim right before its own, which is still being
\* made good: the turn at either tail is passed from claim to claim and never lost.
THEOREM TurnAlwaysPassed == Spec => []TurnPassed
<1>1. Init => TInv
  BY InitIInv DEF Init, TInv, ProdTurns, ConsTurns, PClaimed, CClaimed, IdleProducer, IdleConsumer
<1>2. TInv /\ [Next]_vars => TInv'
  BY NextIInv, NextTurns DEF TInv
<1>3. TInv => TurnPassed
  BY DEF TInv, ProdTurns, ConsTurns, TurnPassed, PEnds, CEnds, ProducerTurn, ConsumerTurn
<1> QED BY <1>1, <1>2, <1>3, PTL DEF Spec
============================================================================
