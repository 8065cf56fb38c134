----------------------------- MODULE FifoRwLock -----------------------------
(***************************************************************************)
(* What the kernel's reader/writer lock promises: threads are let in in    *)
(* the order they came, readers together and a writer alone.               *)
(***************************************************************************)
EXTENDS Naturals, Sequences

CONSTANT Threads

VARIABLES queue,              \* who waits, and for what: <<thread, mode>>
          readers, writers    \* who is inside

vars == <<queue, readers, writers>>

Init == queue = <<>> /\ readers = {} /\ writers = {}

Queued == {queue[i][1] : i \in 1..Len(queue)}

Arrive(t, mode) ==
    /\ t \notin readers \cup writers \cup Queued
    /\ queue' = Append(queue, <<t, mode>>)
    /\ UNCHANGED <<readers, writers>>

Admit ==
    /\ queue # <<>> /\ writers = {}
    /\ queue' = Tail(queue)
    /\ \/ /\ queue[1][2] = "rd"
          /\ readers' = readers \cup {queue[1][1]} /\ UNCHANGED writers
       \/ /\ queue[1][2] = "wr" /\ readers = {}
          /\ writers' = {queue[1][1]} /\ UNCHANGED readers

Leave(t) ==
    /\ t \in readers \cup writers
    /\ readers' = readers \ {t} /\ writers' = writers \ {t}
    /\ UNCHANGED queue

Next == Admit \/ \E t \in Threads : Leave(t) \/ \E mode \in {"rd", "wr"} : Arrive(t, mode)

Spec == Init /\ [][Next]_vars /\ WF_vars(Admit)
=============================================================================
