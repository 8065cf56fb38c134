----------------------------- MODULE FifoQueue -----------------------------
(***************************************************************************)
(* What rt::LockFreeQueue promises its callers: a bounded first-in         *)
(* first-out queue whose operations take effect at one instant.  A batch   *)
(* enters whole and in order, and what a consumer takes is, in order, what *)
(* the queue held at its front.                                            *)
(***************************************************************************)
EXTENDS Integers, Sequences

CONSTANTS Consumers, Values, Capacity, MaxBatch

VARIABLES q,       \* the items in the queue
          taken    \* taken[c]: items consumer c has removed and not yet returned

fifoVars == <<q, taken>>

Batch == UNION {[1..n -> Values] : n \in 1..MaxBatch}

FifoInit == q = <<>> /\ taken = [c \in Consumers |-> <<>>]

Enqueue(items) ==
    /\ Len(q) + Len(items) <= Capacity
    /\ q' = q \o items
    /\ UNCHANGED taken

Dequeue(c, n) ==
    /\ taken[c] = <<>>
    /\ n <= Len(q)
    /\ taken' = [taken EXCEPT ![c] = SubSeq(q, 1, n)]
    /\ q' = SubSeq(q, n + 1, Len(q))

Return(c) ==
    /\ taken[c] # <<>>
    /\ taken' = [taken EXCEPT ![c] = <<>>]
    /\ UNCHANGED q

FifoNext ==
    \/ \E items \in Batch : Enqueue(items)
    \/ \E c \in Consumers : Return(c) \/ \E n \in 1..MaxBatch : Dequeue(c, n)

FifoSpec == FifoInit /\ [][FifoNext]_fifoVars
============================================================================
