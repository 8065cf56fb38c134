------------------------------- MODULE RwLock -------------------------------
(***************************************************************************)
(* The reader/writer ticket lock of the kernel                             *)
(* (kernel/arch/x86_64/include/arch/rwlock.h).  Three bytes: a ticket is   *)
(* the value of `users' when its thread arrived, a reader goes in when     *)
(* `read' reaches its ticket and a writer when `write' does.  A load and a *)
(* store of a byte that the code does not make atomic are two steps.       *)
(*                                                                         *)
(* Bytes wrap at Wrap, which is 256 in the code; no more threads may be at *)
(* the lock at once than a byte can tell apart.                            *)
(***************************************************************************)
EXTENDS Integers, FiniteSets

CONSTANTS Threads,
          Wrap       \* values of a byte

ASSUME WrapAssumption == IsFiniteSet(Threads) /\ Wrap \in Nat /\ Cardinality(Threads) < Wrap

VARIABLES write, read, users,
          lockPc,    \* where each thread is in the lock's functions
          ticket,    \* `val'
          copy       \* what a thread has loaded and will store incremented

lockVars == <<write, read, users, lockPc, ticket, copy>>

Byte == 0 .. Wrap - 1
LockPcs == {"out", "rdwait", "rdinc", "reading", "wrwait", "writing", "wrstore"}

InitLock ==
    /\ write = 0 /\ read = 0 /\ users = 0
    /\ lockPc = [t \in Threads |-> "out"]
    /\ ticket = [t \in Threads |-> 0]
    /\ copy = [t \in Threads |-> <<0, 0>>]

Incremented(b) == IF b = Wrap - 1 THEN 0 ELSE b + 1

Move(t, from, to) == lockPc[t] = from /\ lockPc' = [lockPc EXCEPT ![t] = to]

\* The atomic_xadd both lock functions start with.
TakeTicket(t) ==
    /\ ticket' = [ticket EXCEPT ![t] = users]
    /\ users' = Incremented(users)
    /\ UNCHANGED <<write, read, copy>>

RdLock(t) == Move(t, "out", "rdwait") /\ TakeTicket(t)
WrLock(t) == Move(t, "out", "wrwait") /\ TakeTicket(t)

\* The reader's wait ends; it loads `read' ...
RdTurn(t) ==
    /\ Move(t, "rdwait", "rdinc")
    /\ ticket[t] = read
    /\ copy' = [copy EXCEPT ![t] = <<0, read>>]
    /\ UNCHANGED <<write, read, users, ticket>>

\* ... and stores it incremented, which lets the next reader in.
RdIncrement(t) ==
    /\ Move(t, "rdinc", "reading")
    /\ read' = Incremented(copy[t][2])
    /\ UNCHANGED <<write, users, ticket, copy>>

RdUnlock(t) ==
    /\ Move(t, "reading", "out")
    /\ write' = Incremented(write)
    /\ ticket' = [ticket EXCEPT ![t] = 0]
    /\ copy' = [copy EXCEPT ![t] = <<0, 0>>]
    /\ UNCHANGED <<read, users>>

\* The writer's wait ends when everybody before it has left.
WrTurnWhenEmpty(t) ==
    /\ Move(t, "wrwait", "writing")
    /\ read = write
    /\ UNCHANGED <<write, read, users, ticket, copy>>
WrTurn(t) ==
    /\ Move(t, "wrwait", "writing")
    /\ ticket[t] = write
    /\ UNCHANGED <<write, read, users, ticket, copy>>

\* wrunlock: both bytes are loaded ...
WrUnlock(t) ==
    /\ Move(t, "writing", "wrstore")
    /\ copy' = [copy EXCEPT ![t] = <<write, read>>]
    /\ UNCHANGED <<write, read, users, ticket>>

\* ... and stored incremented, as one 16-bit word.
WrStore(t) ==
    /\ Move(t, "wrstore", "out")
    /\ write' = Incremented(copy[t][1])
    /\ read' = Incremented(copy[t][2])
    /\ ticket' = [ticket EXCEPT ![t] = 0]
    /\ copy' = [copy EXCEPT ![t] = <<0, 0>>]
    /\ UNCHANGED users

\* The steps a thread takes inside the functions, once it has called one.
LockStep(t) == RdTurn(t) \/ RdIncrement(t) \/ WrTurn(t) \/ WrStore(t)

NextLock == \E t \in Threads :
    RdLock(t) \/ WrLock(t) \/ RdUnlock(t) \/ WrUnlock(t) \/ LockStep(t)

SpecLock == InitLock /\ [][NextLock]_lockVars
----------------------------------------------------------------------------
LockTypeOK ==
    /\ write \in Byte /\ read \in Byte /\ users \in Byte
    /\ lockPc \in [Threads -> LockPcs]
    /\ ticket \in [Threads -> Byte]
    /\ copy \in [Threads -> Byte \X Byte]

Readers == {t \in Threads : lockPc[t] = "reading"}
Writers == {t \in Threads : lockPc[t] \in {"writing", "wrstore"}}
Waiting == {t \in Threads : lockPc[t] \in {"rdwait", "rdinc", "wrwait"}}

(***************************************************************************)
(* Mutual exclusion: a writer is inside alone, whatever way the tickets    *)
(* wrapped and whichever unlock was cut in two.                            *)
(***************************************************************************)
Exclusion == \A t \in Writers : Writers = {t} /\ Readers = {}

\* Steps from `write' to byte b: how many unlocks until `write' reaches it.
Ahead(b) == IF b >= write THEN b - write ELSE b - write + Wrap

(***************************************************************************)
(* Why it works.  The tickets handed out and not yet given back are the    *)
(* Ahead(users) that follow `write'; the readers inside hold as many as    *)
(* `read' is ahead of `write'; those who wait hold distinct tickets at or  *)
(* behind `read'.  While a writer is inside `read' stands still, so a load *)
(* and a store of it that are two steps still count by one.                *)
(***************************************************************************)
TicketsOut ==
    /\ Cardinality(Readers \cup Writers \cup Waiting) = Ahead(users)
    /\ Cardinality(Readers) = Ahead(read)
    /\ \A t \in Waiting \cup Writers : Ahead(read) <= Ahead(ticket[t])
    /\ \A t \in Waiting \cup Writers : Ahead(ticket[t]) < Ahead(users)
    /\ \A t, u \in Waiting \cup Writers : ticket[t] = ticket[u] => t = u
    /\ \A t \in Threads : lockPc[t] = "rdinc" => ticket[t] = read /\ copy[t][2] = read
    /\ \A t \in Writers : ticket[t] = write
    /\ \A t \in Threads : lockPc[t] = "wrstore" => copy[t] = <<write, read>>

\* What the lock promises, and how its queue is found in the bytes: by ticket.
Mode(t) == IF lockPc[t] = "wrwait" THEN "wr" ELSE "rd"
Earlier(t, u) == Ahead(ticket[t]) < Ahead(ticket[u])
ByTicket == [i \in 1..Cardinality(Waiting) |->
                CHOOSE t \in Waiting : Cardinality({u \in Waiting : Earlier(u, t)}) = i - 1]
Fifo == INSTANCE FifoRwLock WITH
            queue <- [i \in DOMAIN ByTicket |-> <<ByTicket[i], Mode(ByTicket[i])>>],
            readers <- Readers, writers <- Writers
=============================================================================
