--------------------------- MODULE LockFreeQueue ---------------------------
(***************************************************************************)
(* The ring queue behind the scheduler's run queues, its list of unblocked *)
(* threads and the idle workers (kernel/src/runtime/LockFreeQueue.h).      *)
(* Producers and consumers run concurrently on any number of cores; every  *)
(* atomic access of insert() and pop() is a step of its own.               *)
(*                                                                         *)
(* Head and tail counters are 64 bits wide and count items from boot: they *)
(* are natural numbers here, cut off at MaxIndex by the guards.            *)
(*                                                                         *)
(* Nothing makes an operation finish: its thread may be preempted for as   *)
(* long as the scheduler likes, or destroyed, with slots claimed; then it  *)
(* takes no more steps.                                                    *)
(***************************************************************************)
EXTENDS Integers, Sequences, FiniteSets

CONSTANTS Producers, Consumers,
          SoleProducers,   \* producers that pass kSingleProducer
          SoleConsumers,   \* consumers that pass kSingleConsumer
          Values,          \* items
          Size,            \* allocatedCapacity: a power of two
          MaxBatch,        \* most items in one insert() or pop()
          MaxIndex,        \* bound on the head and tail counters
          NoItem           \* raw storage: nothing constructed in the slot

ASSUME QueueAssumption ==
    /\ Size \in Nat \ {0}
    /\ \E e \in 0..Size : Size = 2^e
    /\ MaxBatch \in Nat
    /\ MaxIndex \in Nat
    /\ NoItem \notin Values
    /\ SoleProducers \subseteq Producers
    /\ \A p \in SoleProducers : Producers = {p}
    /\ SoleConsumers \subseteq Consumers
    /\ \A c \in SoleConsumers : Consumers = {c}

VARIABLES prodHead, prodTail, consHead, consTail,
          storage,   \* the ring: an item, or NoItem
          prod,      \* locals of each producer's insert()
          cons       \* locals of each consumer's pop()

vars == <<prodHead, prodTail, consHead, consTail, storage, prod, cons>>

mask == Size - 1
Ring == 0..mask
Batch == UNION {[1..n -> Values] : n \in 1..MaxBatch}

IdleProducer == [pc |-> "idle", data |-> <<>>, partial |-> FALSE, old |-> 0, n |-> 0, i |-> 0]
IdleConsumer == [pc |-> "idle", count |-> 0, partial |-> FALSE, old |-> 0, n |-> 0, out |-> <<>>]

Init ==
    /\ prodHead = 0 /\ prodTail = 0 /\ consHead = 0 /\ consTail = 0
    /\ storage = [s \in Ring |-> NoItem]
    /\ prod = [p \in Producers |-> IdleProducer]
    /\ cons = [c \in Consumers |-> IdleConsumer]

\* REQUIRE stops the kernel.
Panicked == \E c \in Consumers : cons[c].pc = "panic"

\* Number of items a reservation asks for when `avail' are available.
Reserve(avail, count, partial) == IF avail < count /\ partial THEN avail ELSE count
----------------------------------------------------------------------------
\* insert(): read the producer head ...
Insert(p, data, partial) ==
    /\ prod[p].pc = "idle"
    /\ prodHead < MaxIndex
    /\ prod' = [prod EXCEPT ![p] = [IdleProducer EXCEPT !.pc = "reserve", !.data = data,
                                                        !.partial = partial, !.old = prodHead]]
    /\ UNCHANGED <<prodHead, prodTail, consHead, consTail, storage, cons>>

FreeEntriesWhole(old) == Size + consTail - old
FreeEntries(old) == mask + consTail - old

\* ... then the consumer tail, and give up when the items do not fit ...
InsertReserve(p) ==
    /\ prod[p].pc = "reserve"
    /\ LET free == FreeEntries(prod[p].old)
           n == Reserve(free, Len(prod[p].data), prod[p].partial)
       IN  prod' = [prod EXCEPT ![p] = IF free = 0 \/ n = 0 \/ free < n
                                       THEN IdleProducer
                                       ELSE [@ EXCEPT !.pc = "claim", !.n = n]]
    /\ UNCHANGED <<prodHead, prodTail, consHead, consTail, storage, cons>>

\* ... claim the slots, a sole producer with a store, others with a compare-and-swap, or
\* start over ...
InsertWins(p) == p \in SoleProducers \/ prodHead = prod[p].old

InsertClaim(p) ==
    /\ prod[p].pc = "claim"
    /\ IF InsertWins(p)
       THEN /\ prodHead' = prod[p].old + prod[p].n
            /\ prod' = [prod EXCEPT ![p].pc = "copy"]
       ELSE /\ prod' = [prod EXCEPT ![p].pc = "reserve", ![p].old = prodHead]
            /\ UNCHANGED prodHead
    /\ UNCHANGED <<prodTail, consHead, consTail, storage, cons>>

\* ... construct the items one by one ...
InsertCopy(p) ==
    /\ prod[p].pc = "copy"
    /\ storage' = [storage EXCEPT ![(prod[p].old + prod[p].i) % Size] = prod[p].data[prod[p].i + 1]]
    /\ prod' = [prod EXCEPT ![p].i = @ + 1,
                            ![p].pc = IF prod[p].i + 1 = prod[p].n THEN "publish" ELSE @]
    /\ UNCHANGED <<prodHead, prodTail, consHead, consTail, cons>>

\* ... and, once every earlier claim is published, publish this one.
ProducerTurnAny(p) == prodTail <= prod[p].old
ProducerTurn(p) == prodTail = prod[p].old

InsertPublish(p) ==
    /\ prod[p].pc = "publish"
    /\ ProducerTurn(p)
    /\ prodTail' = prod[p].old + prod[p].n
    /\ prod' = [prod EXCEPT ![p] = IdleProducer]
    /\ UNCHANGED <<prodHead, consHead, consTail, storage, cons>>
----------------------------------------------------------------------------
\* pop(): read the consumer head ...
Pop(c, count, partial) ==
    /\ cons[c].pc = "idle"
    /\ cons' = [cons EXCEPT ![c] = [IdleConsumer EXCEPT !.pc = "reserve", !.count = count,
                                                        !.partial = partial, !.old = consHead]]
    /\ UNCHANGED <<prodHead, prodTail, consHead, consTail, storage, prod>>

\* ... then the producer tail; REQUIRE that what is ready fits the ring ...
PopReserve(c) ==
    /\ cons[c].pc = "reserve"
    /\ LET ready == prodTail - cons[c].old
           n == Reserve(ready, cons[c].count, cons[c].partial)
       IN  cons' = [cons EXCEPT ![c] = IF ready > mask THEN [@ EXCEPT !.pc = "panic"]
                                       ELSE IF ready = 0 \/ n = 0 \/ ready < n
                                       THEN IdleConsumer
                                       ELSE [@ EXCEPT !.pc = "claim", !.n = n]]
    /\ UNCHANGED <<prodHead, prodTail, consHead, consTail, storage, prod>>

\* ... claim the items; a sole consumer stores, others compare and swap ...
ClaimWinsAlways(c) == TRUE
ClaimWins(c) == c \in SoleConsumers \/ consHead = cons[c].old

PopClaim(c) ==
    /\ cons[c].pc = "claim"
    /\ IF ClaimWins(c)
       THEN /\ consHead' = cons[c].old + cons[c].n
            /\ cons' = [cons EXCEPT ![c].pc = "copy"]
       ELSE /\ cons' = [cons EXCEPT ![c].pc = "reserve", ![c].old = consHead]
            /\ UNCHANGED consHead
    /\ UNCHANGED <<prodHead, prodTail, consTail, storage, prod>>

\* ... copy each item out and destroy it ...
PopCopy(c) ==
    /\ cons[c].pc = "copy"
    /\ LET s == (cons[c].old + Len(cons[c].out)) % Size
       IN  /\ storage' = [storage EXCEPT ![s] = NoItem]
           /\ cons' = [cons EXCEPT ![c].out = Append(@, storage[s]),
                                   ![c].pc = IF Len(cons[c].out) + 1 = cons[c].n
                                             THEN "publish" ELSE @]
    /\ UNCHANGED <<prodHead, prodTail, consHead, consTail, prod>>

\* ... and give the slots back in the order they were claimed.
ConsumerTurn(c) == consTail = cons[c].old

PopPublish(c) ==
    /\ cons[c].pc = "publish"
    /\ ConsumerTurn(c)
    /\ consTail' = cons[c].old + cons[c].n
    /\ cons' = [cons EXCEPT ![c] = IdleConsumer]
    /\ UNCHANGED <<prodHead, prodTail, consHead, storage, prod>>

\* capacityFree(); the difference is taken modulo the word size, which no
\* comparison of small numbers can tell.
capacityFree == mask - consTail - prodHead
----------------------------------------------------------------------------
ProducerStep(p) == InsertReserve(p) \/ InsertClaim(p) \/ InsertCopy(p) \/ InsertPublish(p)
ConsumerStep(c) == PopReserve(c) \/ PopClaim(c) \/ PopCopy(c) \/ PopPublish(c)

Next ==
    /\ ~Panicked
    /\ \/ \E p \in Producers :
             \/ \E data \in Batch, partial \in BOOLEAN : Insert(p, data, partial)
             \/ ProducerStep(p)
       \/ \E c \in Consumers :
             \/ \E count \in 1..MaxBatch, partial \in BOOLEAN : Pop(c, count, partial)
             \/ ConsumerStep(c)

Spec == Init /\ [][Next]_vars
----------------------------------------------------------------------------
\* The slots a thread has claimed and not yet published.
ProdSlots(p) == IF prod[p].pc \in {"copy", "publish"}
                THEN {k % Size : k \in prod[p].old..(prod[p].old + prod[p].n - 1)} ELSE {}
ConsSlots(c) == IF cons[c].pc \in {"copy", "publish"}
                THEN {k % Size : k \in cons[c].old..(cons[c].old + cons[c].n - 1)} ELSE {}

ProducerRecord == [pc : {"idle", "reserve", "claim", "copy", "publish"},
                   data : Seq(Values), partial : BOOLEAN,
                   old : Nat, n : Nat, i : Nat]
ConsumerRecord == [pc : {"idle", "reserve", "claim", "copy", "publish", "panic"},
                   count : Nat, partial : BOOLEAN,
                   old : Nat, n : Nat, out : Seq(Values \cup {NoItem})]

\* The counters and the operations in progress are well formed.
TypeOK ==
    /\ prodHead \in Nat /\ prodTail \in Nat /\ consHead \in Nat /\ consTail \in Nat
    /\ storage \in [Ring -> Values \cup {NoItem}]
    /\ prod \in [Producers -> ProducerRecord]
    /\ cons \in [Consumers -> ConsumerRecord]

\* No slot of the ring is ever accessed by two operations at once, so the
\* plain (non-atomic) construction, copy and destruction of items never race.
SlotsExclusive ==
    /\ \A p1, p2 \in Producers : p1 # p2 => ProdSlots(p1) \cap ProdSlots(p2) = {}
    /\ \A c1, c2 \in Consumers : c1 # c2 => ConsSlots(c1) \cap ConsSlots(c2) = {}
    /\ \A p \in Producers, c \in Consumers : ProdSlots(p) \cap ConsSlots(c) = {}

\* The REQUIREs after a successful claim: a producer never writes past the
\* consumer tail and a consumer never reads past the producer tail.
ReservationsValid ==
    /\ \A p \in Producers : prod[p].pc = "copy" =>
          prod[p].n <= mask + consTail - prod[p].old
    /\ \A c \in Consumers : cons[c].pc = "copy" =>
          cons[c].n <= prodTail - cons[c].old

\* The items published and not yet claimed by a consumer, in order, and the
\* items a consumer has claimed: those copied out, then those still in the ring.
Pending == [i \in 1..(prodTail - consHead) |-> storage[(consHead + i - 1) % Size]]

TakenBy(c) ==
    IF cons[c].pc \in {"copy", "publish"}
    THEN [i \in 1..cons[c].n |-> IF i <= Len(cons[c].out) THEN cons[c].out[i]
                                 ELSE storage[(cons[c].old + i - 1) % Size]]
    ELSE <<>>

Taken == [c \in Consumers |-> TakenBy(c)]

Fifo == INSTANCE FifoQueue WITH Capacity <- mask, q <- Pending, taken <- Taken

\* The concurrent queue behaves as an atomic bounded FIFO queue: insert()
\* takes effect when it publishes, pop() when it claims.
ImplementsFifo == Fifo!FifoSpec

\* An operation spins for its turn only while another one of its side, which claimed the slots
\* right before its own, has yet to publish them: the turn is passed from claim to claim and
\* never lost, whichever way producers or consumers finish.
PClaimed(p) == prod[p].pc \in {"copy", "publish"}
CClaimed(c) == cons[c].pc \in {"copy", "publish"}
TurnPassed ==
    /\ \A p \in Producers : PClaimed(p) =>
          \/ ProducerTurn(p)
          \/ \E q \in Producers : PClaimed(q) /\ prod[q].old + prod[q].n = prod[p].old
    /\ \A c \in Consumers : CClaimed(c) =>
          \/ ConsumerTurn(c)
          \/ \E d \in Consumers : CClaimed(d) /\ cons[d].old + cons[d].n = cons[c].old

\* The assertion in pop() ("number of free entries overflow"): a consumer
\* never sees more ready entries than the ring holds.
ReadyEntriesFit == \A c \in Consumers : cons[c].pc # "panic"

\* "Returns the number of free storage slots in the queue": with no operation
\* in progress capacityFree() is what insert() would find free.
CapacityFreeCorrect ==
    prodHead = prodTail /\ consHead = consTail => capacityFree = mask - (prodTail - consHead)
============================================================================
