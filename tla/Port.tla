-------------------------------- MODULE Port --------------------------------
(***************************************************************************)
(* A message port (kernel/src/ipc/Port.cpp, Port.h) with the part of the   *)
(* blocking machinery it goes through: Thread::blockOn and Thread::unblock *)
(* (kernel/src/sched/Thread.cpp), Scheduler::threadUnblocked and           *)
(* Scheduler::processUnblockedThreads (kernel/src/sched/Scheduler.cpp).    *)
(*                                                                         *)
(* One thread receives ("only one thread may block for receiving") and any *)
(* number of threads send.  The threads of a core preempt each other       *)
(* between any two instructions except inside a critical section, so a     *)
(* step is a whole critical section or one access to shared state outside  *)
(* of one.  Which runnable thread moves next is left open.                 *)
(***************************************************************************)
EXTENDS Integers, Sequences, FiniteSets

CONSTANTS Senders,      \* threads that send on the port
          maxMessages,  \* the queue depth (0 = unlimited)
          MaxSends,     \* bound on the calls of send per sender
          Waits         \* the blockUntil values receive is called with

ASSUME PortAssumption ==
    /\ maxMessages \in Nat
    /\ MaxSends \in Nat
    /\ Waits \subseteq {"poll", "timed", "forever"}
    /\ "none" \notin Senders

VARIABLES
    messages,            \* the port's queue
    signalled, unblockedSignalled, isBlocking,   \* flags of the Blocker
    blocker,             \* whether the Blocker points to the receiver
    state, blockState,   \* of the receiver, as is the next variable
    blockingOn,          \* whether its list of blockables is not empty
    lock,                \* the sender preempted while it holds its thread lock
    unblockRequested,    \* of the receiver's scheduler data
    unblocked,           \* entries of the receiver in the unblocked list
    rpc, wait,           \* where the receiver is, and its blockUntil
    spc, sends,          \* where each sender is, and its calls so far
    panic,               \* why the kernel stopped, if it did
    sent, received,      \* messages queued and delivered, in order
    buffers,             \* messages whose content buffer is allocated
    wakeDue              \* a message was queued while the receiver was blocked

blockerVars == <<signalled, unblockedSignalled, isBlocking, blocker>>
threadVars == <<state, blockState, blockingOn, lock, unblockRequested, unblocked>>
queueVars == <<messages, sent, received, buffers>>
vars == <<blockerVars, threadVars, queueVars, rpc, wait, spc, sends, panic, wakeDue>>

Messages == Senders \X (1..MaxSends)
SenderSteps == {"idle", "queued", "flag", "check", "signal", "unblock", "locked",
                "request", "enqueue"}
ReceiverSteps == {"idle", "block", "yield", "reason"}
Panics == {"none", "null blocker", "invalid state", "block state", "spin"}

Init ==
    /\ messages = <<>> /\ sent = <<>> /\ received = <<>> /\ buffers = {}
    /\ signalled = FALSE /\ unblockedSignalled = FALSE /\ isBlocking = FALSE
    /\ blocker = FALSE
    /\ state = "Runnable" /\ blockState = "None" /\ blockingOn = FALSE
    /\ lock = "none" /\ unblockRequested = FALSE /\ unblocked = 0
    /\ rpc = "idle" /\ wait = "poll"
    /\ spc = [s \in Senders |-> "idle"] /\ sends = [s \in Senders |-> 0]
    /\ panic = "none" /\ wakeDue = FALSE

SenderGoes(s, from, to) ==
    /\ panic = "none"
    /\ spc[s] = from
    /\ spc' = [spc EXCEPT ![s] = to]
ReceiverGoes(from, to) == panic = "none" /\ rpc = from /\ rpc' = to
\* The kernel stops when a step finds something wrong, whatever else it did.
PanicIf(wrong, why) == panic' = IF wrong THEN why ELSE panic
----------------------------------------------------------------------------
\* send(): the critical section; the queue is full, or takes the message.
QueueFull == maxMessages # 0 /\ Len(messages) >= maxMessages

SendRejected(s) ==
    /\ SenderGoes(s, "idle", "idle")
    /\ sends[s] < MaxSends /\ QueueFull
    /\ sends' = [sends EXCEPT ![s] = @ + 1]
    /\ UNCHANGED <<blockerVars, threadVars, queueVars, rpc, wait, panic, wakeDue>>

SendQueued(s) ==
    LET m == <<s, sends[s] + 1>> IN
    /\ SenderGoes(s, "idle", "queued")
    /\ sends[s] < MaxSends /\ ~QueueFull
    /\ sends' = [sends EXCEPT ![s] = @ + 1]
    /\ messages' = Append(messages, m)
    /\ sent' = Append(sent, m)
    /\ buffers' = buffers \cup {m}
    /\ wakeDue' = (wakeDue \/ state = "Blocked")
    /\ UNCHANGED <<blockerVars, threadVars, received, rpc, wait, panic>>

\* Blocker::messageQueued(), outside of any critical section.
TestBlocker(s) ==
    /\ SenderGoes(s, "queued", IF blocker THEN "check" ELSE "flag")
    /\ UNCHANGED <<blockerVars, threadVars, queueVars, rpc, wait, sends, panic, wakeDue>>

SetUnblockedSignalled(s) ==
    /\ SenderGoes(s, "flag", "idle")
    /\ unblockedSignalled' = TRUE
    /\ UNCHANGED <<signalled, isBlocking, blocker, threadVars, queueVars, rpc, wait,
                   sends, panic, wakeDue>>

TestBlockingNever(s) ==
    /\ SenderGoes(s, "check", "idle")
    /\ UNCHANGED <<blockerVars, threadVars, queueVars, rpc, wait, sends, panic, wakeDue>>
TestBlocking(s) ==
    /\ SenderGoes(s, "check", IF isBlocking THEN "signal" ELSE "idle")
    /\ UNCHANGED <<blockerVars, threadVars, queueVars, rpc, wait, sends, panic, wakeDue>>

TestAndSetSignalled(s) ==
    /\ SenderGoes(s, "signal", IF signalled THEN "idle" ELSE "unblock")
    /\ signalled' = TRUE
    /\ UNCHANGED <<unblockedSignalled, isBlocking, blocker, threadVars, queueVars, rpc,
                   wait, sends, panic, wakeDue>>

\* Thread::unblock() through the Blocker's pointer; it takes the thread's lock
\* BEFORE it enters the critical section.
UnblockLock(s) ==
    /\ SenderGoes(s, "unblock", "locked")
    /\ lock = "none"
    /\ lock' = s
    /\ PanicIf(~blocker, "null blocker")
    /\ UNCHANGED <<blockerVars, state, blockState, blockingOn, unblockRequested, unblocked,
                   queueVars, rpc, wait, sends, wakeDue>>

UnblockSet(s) ==
    /\ SenderGoes(s, "locked", "request")
    /\ blockState' = "Unblocked"
    /\ lock' = "none"
    /\ UNCHANGED <<blockerVars, state, blockingOn, unblockRequested, unblocked, queueVars,
                   rpc, wait, sends, panic, wakeDue>>

\* threadUnblocked(): test and set unblockRequested ...
RequestUnblockAlways(s) ==
    /\ SenderGoes(s, "request", "enqueue")
    /\ unblockRequested' = TRUE
    /\ UNCHANGED <<blockerVars, state, blockState, blockingOn, lock, unblocked, queueVars,
                   rpc, wait, sends, panic, wakeDue>>
RequestUnblock(s) ==
    /\ SenderGoes(s, "request", IF unblockRequested THEN "idle" ELSE "enqueue")
    /\ unblockRequested' = TRUE
    /\ UNCHANGED <<blockerVars, state, blockState, blockingOn, lock, unblocked, queueVars,
                   rpc, wait, sends, panic, wakeDue>>

\* ... then look at the thread's state and put it on the unblocked list.
EnqueueUnblocked(s) ==
    /\ SenderGoes(s, "enqueue", "idle")
    /\ unblocked' = unblocked + 1
    /\ PanicIf(state # "Blocked", "invalid state")
    /\ UNCHANGED <<blockerVars, state, blockState, blockingOn, lock, unblockRequested,
                   queueVars, rpc, wait, sends, wakeDue>>

\* processUnblockedThreads() with Thread::schedTestUnblock(), from a scheduler
\* interrupt, which may come between any two steps of the threads.
PopsLastNever == unblocked > 1
PopsUnblocked == unblocked > 0

ProcessUnblocked ==
    /\ panic = "none" /\ PopsUnblocked
    /\ unblocked' = unblocked - 1
    /\ unblockRequested' = FALSE
    /\ PanicIf(state # "Blocked" \/ blockState = "None", "invalid state")
    /\ IF blockState = "Blocking"           \* spurious wakeup
       THEN UNCHANGED <<state, wakeDue>>
       ELSE state' = "Runnable" /\ wakeDue' = FALSE
    /\ UNCHANGED <<blockerVars, blockState, blockingOn, lock, queueVars, rpc, wait, spc, sends>>
----------------------------------------------------------------------------
\* The head of the queue is copied to the caller.
PopMessageKept ==
    /\ received' = Append(received, Head(messages))
    /\ UNCHANGED <<messages, sent>>
PopMessage ==
    /\ received' = Append(received, Head(messages))
    /\ messages' = Tail(messages)
    /\ UNCHANGED sent

\* receive(): the first critical section.  Blocker::reset(), then a message is
\* taken and its buffer released, or the caller polls, or it goes on to block.
ReceiveFirst(w) ==
    /\ ReceiverGoes("idle", IF messages = <<>> /\ w # "poll" THEN "block" ELSE "idle")
    /\ wait' = w
    /\ unblockedSignalled' = FALSE /\ signalled' = FALSE
    /\ IF messages = <<>> THEN UNCHANGED queueVars
                          ELSE PopMessage /\ buffers' = buffers \ {Head(messages)}
    /\ UNCHANGED <<isBlocking, blocker, threadVars, spc, sends, panic, wakeDue>>

\* Blocker::willBlockOn(): refuse if a message was signalled since the reset.
WillBlockOn == ~(signalled \/ unblockedSignalled)

\* blockOn(): the first critical section.  When the block is refused the
\* Blocker is not added to the list, and keeps pointing to the thread.
BlockOn ==
    /\ ReceiverGoes("block", "yield")
    /\ PanicIf(lock # "none", "spin")    \* at raised IRQL, for a preempted holder
    /\ blocker' = TRUE
    /\ IF WillBlockOn
       THEN /\ isBlocking' = TRUE /\ blockingOn' = TRUE
            /\ state' = "Blocked" /\ blockState' = "Blocking"
       ELSE blockState' = "Aborted" /\ UNCHANGED <<isBlocking, blockingOn, state>>
    /\ UNCHANGED <<signalled, unblockedSignalled, lock, unblockRequested, unblocked,
                   queueVars, wait, spc, sends, wakeDue>>

\* blockOn(): the second critical section, once yield() has returned.
\* Blockable::didUnblock() for every blockable in the list.
Woken ==
    /\ state = "Runnable"
    /\ ReceiverGoes("yield", "reason")
    /\ PanicIf(lock # "none", "spin")
    /\ blockingOn' = FALSE
    /\ IF blockingOn THEN blocker' = FALSE /\ isBlocking' = FALSE
                     ELSE UNCHANGED <<blocker, isBlocking>>
    /\ UNCHANGED <<signalled, unblockedSignalled, state, blockState, lock, unblockRequested,
                   unblocked, queueVars, wait, spc, sends, wakeDue>>

\* blockOn() returns why; receive() looks at the queue again.  The buffer of a
\* message taken here is not released.
ReceiveSecond ==
    /\ ReceiverGoes("reason", "idle")
    /\ PanicIf(blockState \in {"None", "Blocking"}, "block state")
    /\ IF messages = <<>> THEN UNCHANGED queueVars ELSE PopMessage /\ UNCHANGED buffers
    /\ UNCHANGED <<blockerVars, threadVars, wait, spc, sends, wakeDue>>

SenderStep(s) ==
    \/ TestBlocker(s) \/ SetUnblockedSignalled(s) \/ TestBlocking(s)
    \/ TestAndSetSignalled(s) \/ UnblockLock(s) \/ UnblockSet(s)
    \/ RequestUnblock(s) \/ EnqueueUnblocked(s)
ReceiverStep == BlockOn \/ Woken \/ ReceiveSecond

Next ==
    \/ \E s \in Senders : SendRejected(s) \/ SendQueued(s) \/ SenderStep(s)
    \/ \E w \in Waits : ReceiveFirst(w)
    \/ ReceiverStep
    \/ ProcessUnblocked

Spec == Init /\ [][Next]_vars

\* A thread that is inside a call gets the processor again and again, and
\* scheduler interrupts keep coming.  Nobody has to start a call.
Fairness ==
    /\ \A s \in Senders : WF_vars(SenderStep(s))
    /\ WF_vars(ReceiverStep)
    /\ WF_vars(ProcessUnblocked)

FairSpec == Spec /\ Fairness
----------------------------------------------------------------------------
\* The state of the port, of its receiver and of every call in progress.
TypeOK ==
    /\ messages \in Seq(Messages) /\ sent \in Seq(Messages) /\ received \in Seq(Messages)
    /\ buffers \subseteq Messages
    /\ {signalled, unblockedSignalled, isBlocking, blocker, blockingOn, unblockRequested,
        wakeDue} \subseteq BOOLEAN
    /\ state \in {"Runnable", "Blocked"}
    /\ blockState \in {"None", "Blocking", "Unblocked", "Aborted"}
    /\ lock \in Senders \cup {"none"}
    /\ unblocked \in Nat
    /\ rpc \in ReceiverSteps /\ wait \in {"poll", "timed", "forever"}
    /\ spc \in [Senders -> SenderSteps] /\ sends \in [Senders -> 0..MaxSends]
    /\ panic \in Panics

\* Whatever path receive() takes, with or without blocking, every queued message
\* is delivered exactly once and in the order send() queued it, and the queue
\* never exceeds its depth.
DeliveredInOrder ==
    /\ received \o messages = sent
    /\ maxMessages # 0 => Len(messages) <= maxMessages

\* A sender on its way to wake a receiver that was asleep when it started.
Waking(s) == spc[s] \in SenderSteps \ {"idle", "flag"}

\* threadUnblocked() and processUnblockedThreads() keep one wake-up of a thread
\* outstanding at most: the flag is set exactly while one caller is about to put
\* the thread on the list or the list holds it once, so the list cannot overflow.
OneWakeup ==
    panic = "none" =>
        Cardinality({s \in Senders : spc[s] = "enqueue"}) + unblocked =
            IF unblockRequested THEN 1 ELSE 0

\* A message queued while the receiver sleeps always leaves a wake-up on the way:
\* the first sender to test and set signalled carries it to the list.
SleeperWakes ==
    panic = "none" /\ state = "Blocked" /\ wakeDue =>
        unblocked > 0 \/ \E s \in Senders : Waking(s)

\* The same as progress: the receiver becomes runnable again.
SleeperRuns == (state = "Blocked" /\ wakeDue) ~> (state = "Runnable" \/ panic # "none")

\* "Reset the block flag; this way if we receive a message at some point while
\* we're in the process of setting up for blocking we'll be able to detect it."
NoLostMessage ==
    panic = "none" /\ state = "Blocked" /\ messages # <<>> =>
        \/ unblocked > 0
        \/ \E s \in Senders : spc[s] # "idle"

\* "cannot unblock object without blocker": whoever unblocks the receiver through
\* the Blocker finds it there.
UnblockHasBlocker == panic # "null blocker"

\* "Time point until which to block": a receive with a timeout returns.
TimedReceiveReturns == (rpc # "idle" /\ wait = "timed") ~> rpc = "idle"

\* "when set, we're responsible for deleting the content buffer": a message that
\* has been delivered no longer holds its buffer.
BufferReleased == \A i \in 1..Len(received) : received[i] \notin buffers
============================================================================
