------------------------------ MODULE Scheduler ------------------------------
(***************************************************************************)
(* The scheduler of one core (kernel/src/sched/Scheduler.cpp) and the      *)
(* threads that sleep and wait for notifications on it (sleep, notify and  *)
(* blockNotify of kernel/src/sched/Thread.cpp).                            *)
(*                                                                         *)
(* The running thread is interrupted between any two steps by a device     *)
(* (which may notify a thread), and at passive IRQL also by the core's     *)
(* timer and by the scheduler's own interrupt, the IPI.  Code at scheduler *)
(* IRQL touches nothing a device interrupt changes, interrupt handlers run *)
(* with interrupts off, and critical sections mask everything: each is one *)
(* step.  Time is left out: a deadline may have expired whenever the timer *)
(* fires, and a quantum may be used up whenever it is accounted.           *)
(***************************************************************************)
EXTENDS Integers, Sequences, FiniteSets, Functions

CONSTANTS Threads,
          kNumLevels,    \* run queues, 0 being the one served first
          QueueSize,     \* entries a run queue holds
          maxLevel,      \* the level each thread starts at
          Initial,       \* each thread at boot: New, Paused or Runnable
          Ops            \* the calls the threads make

NoThread == "none"       \* no thread has been switched to yet
Idle == "idle"           \* the idle worker's thread
Levels == 0..(kNumLevels - 1)

ASSUME SchedulerAssumption ==
    /\ IsFiniteSet(Threads)
    /\ kNumLevels \in Nat \ {0} /\ QueueSize \in Nat \ {0}
    /\ maxLevel \in [Threads -> Levels]
    /\ Initial \in [Threads -> {"New", "Paused", "Runnable"}]
    /\ Ops \subseteq {"yield", "sleep", "notify", "timed", "create", "resume"}
    /\ {NoThread, Idle} \cap Threads = {}

VARIABLES
    state, blockState,               \* of each thread, as are the next seven
    level,                           \* its run queue
    bits, notified,                  \* a notification its mask lets through is
                                     \* set; a notifier has claimed the wake-up
    unblockRequested,
    pc, target,                      \* where it is; the thread it starts or resumes
    timed,                           \* whether the wait it is in has a deadline
    queue,                           \* the run queue of each level
    unblocked,                       \* the list of unblocked threads
    running, currentLevel,
    deadlines,                       \* pending deadlines: <<thread, kind>>
    timer, ipi,                      \* the timer is armed; an IPI is pending
    irql,                            \* of the core, between two steps
    panic                            \* why the kernel stopped, if it did

waitVars == <<blockState, bits, notified, unblockRequested, unblocked>>
callVars == <<pc, target, timed>>
vars == <<state, level, waitVars, callVars, queue, running, currentLevel, deadlines,
          timer, ipi, irql, panic>>

Waiting == {"Blocked", "Sleeping", "NotifyWait"}
States == Waiting \cup {"New", "Paused", "Runnable"}
Passive == 0
SchedulerLevel == 3
Panics == {"none", "unblocked in invalid state", "empty heap", "queue overflow"}

Smaller(i, j) == IF i < j THEN i ELSE j

\* The elements of s that are in S, in order: the loops over a list of threads
\* that handle some of them.
Where(s, S) ==
    LET kept[i \in 0..Len(s)] ==
            IF i = 0 THEN <<>>
            ELSE IF s[i] \in S THEN Append(kept[i - 1], s[i]) ELSE kept[i - 1]
    IN  kept[Len(s)]

\* The orders in which the threads of S may come.
Orders(S) == Bijection(1..Cardinality(S), S)

Queued(t) == \E l \in Levels : t \in Range(queue[l])
----------------------------------------------------------------------------
\* updateQuantumUsed() and getLevelFor(): a thread that has used up its quantum moves down.
Demote(lv, t, expired) ==
    IF expired /\ t \in Threads
    THEN [lv EXCEPT ![t] = Smaller(lv[t] + 1, kNumLevels - 1)] ELSE lv

\* schedule(): the threads of the sequence ts go to the back of their queue; the
\* idle thread is not queued.
ScheduleFront(q, ts, lv) ==
    [l \in Levels |-> Where(ts, {t \in Threads : lv[t] = l}) \o q[l]]
Schedule(q, ts, lv) ==
    [l \in Levels |-> q[l] \o Where(ts, {t \in Threads : lv[t] = l})]
Full(q) == \E l \in Levels : Len(q[l]) > QueueSize

\* The running thread goes back to its queue if it is still runnable.
RequeuedNever(t, st) == <<>>
RequeuedAlways(t, st) == IF t \in Threads THEN <<t>> ELSE <<>>
Requeued(t, st) == IF t \in Threads /\ st[t] = "Runnable" THEN <<t>> ELSE <<>>

\* What a step that queues and unblocks threads may find wrong; the kernel stops,
\* whatever else the step did.
Checked(invalid, q) ==
    panic' = CASE invalid -> "unblocked in invalid state"
               [] Full(q) -> "queue overflow"
               [] OTHER -> panic

\* findRunnableThread(): pop the levels from the first; a thread that is no
\* longer runnable is dropped from its queue.
FindRunnable(q, st) ==
    LET Ready(l) == {i \in DOMAIN q[l] : st[q[l][i]] = "Runnable"}
        found == {l \in Levels : Ready(l) # {}}
    IN  IF found = {}
        THEN [thread |-> Idle, level |-> kNumLevels, queue |-> [l \in Levels |-> <<>>]]
        ELSE LET l == CHOOSE l \in found : \A k \in found : l <= k
                 i == CHOOSE i \in Ready(l) : \A k \in Ready(l) : i <= k
             IN  [thread |-> q[l][i],
                  level |-> l,
                  queue |-> [k \in Levels |-> CASE k < l -> <<>>
                                                [] k = l -> SubSeq(q[l], i + 1, Len(q[l]))
                                                [] OTHER -> q[k]]]

\* threadUnblocked(), for threads whose wait is over (the sequence ts, distinct):
\* those it puts on the list, and those it panics about.
Fresh(ts) == Where(ts, {t \in Threads : ~unblockRequested[t]})
ThreadUnblocked(ts) ==
    /\ unblockRequested' = [t \in Threads |-> unblockRequested[t] \/ t \in Range(ts)]
    /\ unblocked' = unblocked \o Fresh(ts)
NotWaiting(ts) == \E t \in Range(Fresh(ts)) : state[t] \notin Waiting
WantsIpi(ts, lv) == \E t \in Range(Fresh(ts)) : currentLevel >= lv[t]

\* addDeadline(): the timer is set again if the deadline is the first to expire.
AddDeadline(t, kind) ==
    /\ deadlines' = deadlines \cup {<<t, kind>>}
    /\ timer' \in IF deadlines = {} THEN {TRUE} ELSE {timer, TRUE}

\* switchTo(): context switch at the end of which the core is at passive IRQL.
SwitchTo(next) == running' = next /\ irql' = Passive
----------------------------------------------------------------------------
\* The boot code has queued the first threads and calls run().
Init ==
    /\ state = Initial
    /\ blockState = [t \in Threads |-> "None"]
    /\ level = maxLevel
    /\ bits = [t \in Threads |-> FALSE]
    /\ notified = [t \in Threads |-> FALSE]
    /\ unblockRequested = [t \in Threads |-> FALSE]
    /\ pc = [t \in Threads |-> "user"]
    /\ target = [t \in Threads |-> NoThread]
    /\ timed = [t \in Threads |-> FALSE]
    /\ queue = Schedule([l \in Levels |-> <<>>],
                        CHOOSE ts \in Orders({t \in Threads : Initial[t] = "Runnable"}) : TRUE,
                        maxLevel)
    /\ unblocked = <<>>
    /\ running = NoThread /\ currentLevel = kNumLevels
    /\ deadlines = {} /\ timer = FALSE /\ ipi = FALSE /\ irql = SchedulerLevel
    /\ panic = "none"

\* run(): arm the timer and switch to the first thread.
Run ==
    LET next == FindRunnable(queue, state) IN
    /\ running = NoThread
    /\ timer' = TRUE
    /\ queue' = next.queue /\ currentLevel' = next.level
    /\ SwitchTo(next.thread)
    /\ UNCHANGED <<state, level, waitVars, callVars, deadlines, ipi, panic>>

Executes(t, at) == panic = "none" /\ running = t /\ pc[t] = at
Goes(t, to) == pc' = [pc EXCEPT ![t] = to]

\* yield() by thread t, whose state is st[t] and whose quantum has expired or not.
\* The processor is kept if the thread is runnable and no queue it has to respect
\* holds anything; otherwise the next thread is taken from the queues.  If that is
\* the thread itself there is no switch, and the IRQL stays raised.
YieldNow(t, st, expired, spent) ==
    LET lv == Demote(level, t, expired)
        limit == IF expired THEN lv[t] ELSE Smaller(currentLevel, kNumLevels - 1)
        runnable == st[t] = "Runnable"
        q == Schedule(queue, Requeued(t, st), lv)
        next == FindRunnable(q, st)
    IN  IF runnable /\ \A l \in 0..limit : queue[l] = <<>>
        THEN /\ level' = lv
             /\ UNCHANGED <<queue, running, currentLevel, irql, panic>>
        ELSE /\ queue' = next.queue /\ currentLevel' = next.level
             /\ Checked(FALSE, q)
             /\ IF next.thread = t
                THEN level' = lv /\ irql' = SchedulerLevel /\ UNCHANGED running
                ELSE level' = Demote(lv, t, spent) /\ SwitchTo(next.thread)

\* The Yield system call.
Yield(t, expired, spent) ==
    /\ "yield" \in Ops /\ Executes(t, "user")
    /\ YieldNow(t, state, expired, spent)
    /\ UNCHANGED <<state, waitVars, callVars, deadlines, timer, ipi>>

\* Thread::sleep(): all of it at scheduler IRQL.
Sleep(t, expired, spent) ==
    /\ "sleep" \in Ops /\ Executes(t, "user")
    /\ state' = [state EXCEPT ![t] = "Sleeping"]
    /\ AddDeadline(t, "sleep")
    /\ YieldNow(t, state', expired, spent)
    /\ UNCHANGED <<waitVars, callVars, ipi>>

\* blockNotify(): the critical section that takes a pending notification or
\* prepares to wait for one, with or without a deadline.
NotificationMissed(t) == FALSE
NotificationPending(t) == bits[t]

BlockNotifyReturns(t) ==
    /\ {"notify", "timed"} \cap Ops # {} /\ Executes(t, "user")
    /\ NotificationPending(t)
    /\ bits' = [bits EXCEPT ![t] = FALSE]
    /\ UNCHANGED <<state, level, blockState, notified, unblockRequested, unblocked, callVars,
                   queue, running, currentLevel, deadlines, timer, ipi,
                   irql, panic>>

BlockNotifyWaits(t, withDeadline) ==
    /\ (IF withDeadline THEN "timed" ELSE "notify") \in Ops /\ Executes(t, "user")
    /\ ~NotificationPending(t)
    /\ state' = [state EXCEPT ![t] = "NotifyWait"]
    /\ blockState' = [blockState EXCEPT ![t] = "Blocking"]
    /\ timed' = [timed EXCEPT ![t] = withDeadline]
    /\ IF withDeadline THEN AddDeadline(t, "wait") ELSE UNCHANGED <<deadlines, timer>>
    /\ Goes(t, "block")
    /\ UNCHANGED <<level, bits, notified, unblockRequested, unblocked, target, queue, running,
                   currentLevel, ipi, irql, panic>>

\* ... then, at passive IRQL again, it yields ...
BlockNotifyYields(t, expired, spent) ==
    /\ Executes(t, "block")
    /\ Goes(t, "woken")
    /\ YieldNow(t, state, expired, spent)
    /\ UNCHANGED <<state, waitVars, target, timed, deadlines, timer, ipi>>

\* ... and once it has the processor again clears notified ...
BlockNotifyResumes(t) ==
    /\ Executes(t, "woken")
    /\ Goes(t, "finish")
    /\ notified' = [notified EXCEPT ![t] = FALSE]
    /\ UNCHANGED <<state, level, blockState, bits, unblockRequested, unblocked, target, timed,
                   queue, running, currentLevel, deadlines, timer, ipi,
                   irql, panic>>

\* ... removes its deadline, and takes the notification unless it timed out.
\* removeDeadline() looks at the first deadline before and after the removal.
BlockNotifyFinishes(t) ==
    LET left == deadlines \ {<<t, "wait">>} IN
    /\ Executes(t, "finish")
    /\ IF timed[t] THEN /\ deadlines' = left /\ timer' \in {timer, TRUE}
                        /\ panic' = IF left = {} THEN "empty heap" ELSE panic
                   ELSE UNCHANGED <<deadlines, timer, panic>>
    /\ bits' = IF blockState[t] = "Timeout" THEN bits ELSE [bits EXCEPT ![t] = FALSE]
    /\ Goes(t, "user")
    /\ UNCHANGED <<state, level, blockState, notified, unblockRequested, unblocked, target,
                   timed, queue, running, currentLevel, ipi, irql>>

\* ThreadCreate: a new thread is made runnable, then queued, and preempts the creator
\* if it is not of lower priority.
CreateSet(r, t) ==
    /\ "create" \in Ops /\ Executes(r, "user")
    /\ state[t] = "New"
    /\ state' = [state EXCEPT ![t] = "Runnable"]
    /\ Goes(r, "created") /\ target' = [target EXCEPT ![r] = t]
    /\ UNCHANGED <<level, waitVars, timed, queue, running, currentLevel, deadlines, timer, ipi,
                   irql, panic>>

CreateQueue(r) ==
    /\ Executes(r, "created")
    /\ Goes(r, "user") /\ target' = [target EXCEPT ![r] = NoThread]
    /\ queue' = Schedule(queue, <<target[r]>>, level) /\ Checked(FALSE, queue')
    /\ ipi' = (ipi \/ currentLevel >= level[target[r]])
    /\ UNCHANGED <<state, level, waitVars, timed, running, currentLevel, deadlines, timer, irql>>

\* ThreadResume: test the state, set it, queue the thread.
ResumeTest(r, t) ==
    /\ "resume" \in Ops /\ Executes(r, "user")
    /\ state[t] = "Paused"
    /\ Goes(r, "resume") /\ target' = [target EXCEPT ![r] = t]
    /\ UNCHANGED <<state, level, waitVars, timed, queue, running, currentLevel, deadlines,
                   timer, ipi, irql, panic>>

ResumeSet(r) ==
    /\ Executes(r, "resume")
    /\ Goes(r, "resumed")
    /\ state' = [state EXCEPT ![target[r]] = "Runnable"]
    /\ UNCHANGED <<level, waitVars, target, timed, queue, running, currentLevel, deadlines,
                   timer, ipi, irql, panic>>

ResumeQueue(r) ==
    /\ Executes(r, "resumed")
    /\ Goes(r, "user") /\ target' = [target EXCEPT ![r] = NoThread]
    /\ queue' = Schedule(queue, <<target[r]>>, level) /\ Checked(FALSE, queue')
    /\ UNCHANGED <<state, level, waitVars, timed, running, currentLevel, deadlines, timer,
                   ipi, irql>>
----------------------------------------------------------------------------
\* notify(), from a device interrupt (or another thread's system call).
Notify(t) ==
    /\ {"notify", "timed"} \cap Ops # {} /\ panic = "none" /\ running # NoThread
    /\ bits' = [bits EXCEPT ![t] = TRUE]
    /\ IF state[t] = "NotifyWait" /\ ~notified[t]
       THEN /\ notified' = [notified EXCEPT ![t] = TRUE]
            /\ blockState' = [blockState EXCEPT ![t] = "Unblocked"]
            /\ ThreadUnblocked(<<t>>) /\ Checked(NotWaiting(<<t>>), queue)
            /\ ipi' = (ipi \/ WantsIpi(<<t>>, level))
       ELSE UNCHANGED <<notified, blockState, unblockRequested, unblocked, ipi, panic>>
    /\ UNCHANGED <<state, level, callVars, queue, running, currentLevel,
                   deadlines, timer, irql>>

\* timerFired(): account the quantum, expire the deadlines S, and ask for an IPI if the
\* running thread is to be preempted or a thread of its level or better was queued.
PreemptsQuantumOnly(expired, ts, lv) == expired
Preempts(expired, ts, lv) == expired \/ \E t \in Range(ts) : currentLevel >= lv[t]
TimerStops(preempt) == timer' = FALSE
TimerRestarts(preempt) == timer' = ~preempt     \* else the IPI restarts it

TimerFired(expired, S) ==
    /\ panic = "none" /\ timer /\ irql = Passive
    /\ \E sleepers \in Orders({t \in Threads : <<t, "sleep">> \in S}),
          waiters \in Orders({t \in Threads : <<t, "wait">> \in S}) :
          LET lv == Demote(level, running, expired)
              preempt == Preempts(expired, sleepers, lv)
          IN
          /\ deadlines' = deadlines \ S
          /\ level' = lv
          /\ state' = [t \in Threads |-> IF t \in Range(sleepers) THEN "Runnable" ELSE state[t]]
          /\ queue' = Schedule(queue, sleepers, lv)
          /\ blockState' =
                 [t \in Threads |-> IF t \in Range(waiters) THEN "Timeout" ELSE blockState[t]]
          /\ ThreadUnblocked(waiters) /\ Checked(NotWaiting(waiters), queue')
          /\ ipi' = (ipi \/ preempt \/ WantsIpi(waiters, lv))
          /\ TimerRestarts(preempt)
    /\ UNCHANGED <<bits, notified, callVars, running, currentLevel, irql>>

\* handleIpi(): processUnblockedThreads() with schedTestUnblock(), the running
\* thread goes back to its queue, and the first runnable thread is switched to.
HandleIpi(spent) ==
    LET ready == Where(unblocked, {t \in Threads : blockState[t] # "Blocking"})
        st == [t \in Threads |-> IF t \in Range(ready) THEN "Runnable" ELSE state[t]]
        q == Schedule(queue, ready \o Requeued(running, st), level)
        next == FindRunnable(q, st)
    IN
    /\ panic = "none" /\ ipi /\ irql = Passive /\ running # NoThread
    /\ ipi' = FALSE /\ timer' = TRUE
    /\ Checked(\E t \in Range(unblocked) : state[t] \notin Waiting \/ blockState[t] = "None", q)
    /\ state' = st
    /\ unblocked' = <<>>
    /\ unblockRequested' = [t \in Threads |-> unblockRequested[t] /\ t \notin Range(unblocked)]
    /\ queue' = next.queue /\ currentLevel' = next.level
    /\ SwitchTo(next.thread)
    /\ level' = IF next.thread # running THEN Demote(level, running, spent) ELSE level
    /\ UNCHANGED <<blockState, bits, notified, callVars, deadlines>>

ThreadStep(t) ==
    \/ \E expired, spent \in BOOLEAN : BlockNotifyYields(t, expired, spent)
    \/ BlockNotifyResumes(t) \/ BlockNotifyFinishes(t)
    \/ CreateQueue(t) \/ ResumeSet(t) \/ ResumeQueue(t)

ThreadCall(t) ==
    \/ \E expired, spent \in BOOLEAN : Yield(t, expired, spent) \/ Sleep(t, expired, spent)
    \/ BlockNotifyReturns(t)
    \/ \E withDeadline \in BOOLEAN : BlockNotifyWaits(t, withDeadline)
    \/ \E u \in Threads : CreateSet(t, u) \/ ResumeTest(t, u)

\* A kernel that panicked has stopped.
Stopped == panic # "none" /\ UNCHANGED vars

Next ==
    \/ Run \/ Stopped
    \/ \E t \in Threads : ThreadStep(t) \/ ThreadCall(t) \/ Notify(t)
    \/ \E expired \in BOOLEAN, S \in SUBSET deadlines : TimerFired(expired, S)
    \/ \E spent \in BOOLEAN : HandleIpi(spent)

Spec == Init /\ [][Next]_vars

\* The interrupts that are due come; a thread that keeps running uses up its
\* quantum, wherever that is noticed; a deadline does not stay in the future.
QuantumExpires(t) ==
    /\ \/ \E spent \in BOOLEAN : Yield(t, TRUE, spent) \/ Sleep(t, TRUE, spent)
       \/ running = t /\ (HandleIpi(TRUE) \/ \E S \in SUBSET deadlines : TimerFired(TRUE, S))
    /\ level'[t] >= Demote(level, t, TRUE)[t]
DeadlineExpires(t) ==
    \E expired \in BOOLEAN, S \in SUBSET deadlines :
        <<t, "sleep">> \in S /\ TimerFired(expired, S)
Fairness ==
    /\ WF_vars(Run)
    /\ WF_vars(\E spent \in BOOLEAN : HandleIpi(spent))
    /\ \A t \in Threads : SF_vars(ThreadStep(t))
    /\ \A t \in Threads : SF_vars(QuantumExpires(t)) /\ SF_vars(DeadlineExpires(t))

FairSpec == Spec /\ Fairness
----------------------------------------------------------------------------
\* The scheduler's queues, flags and levels, and where every thread is.
TypeOK ==
    /\ state \in [Threads -> States]
    /\ blockState \in [Threads -> {"None", "Blocking", "Unblocked", "Timeout"}]
    /\ level \in [Threads -> Levels]
    /\ {bits, notified, unblockRequested, timed} \subseteq [Threads -> BOOLEAN]
    /\ pc \in [Threads -> {"user", "block", "woken", "finish", "created", "resume", "resumed"}]
    /\ target \in [Threads -> Threads \cup {NoThread}]
    /\ queue \in [Levels -> Seq(Threads)]
    /\ unblocked \in Seq(Threads)
    /\ running \in Threads \cup {NoThread, Idle}
    /\ currentLevel \in 0..kNumLevels
    /\ deadlines \subseteq Threads \X {"sleep", "wait"}
    /\ {timer, ipi} \subseteq BOOLEAN
    /\ irql \in {Passive, SchedulerLevel}
    /\ panic \in Panics

\* The state is well typed and a runnable thread is never forgotten: it has the
\* processor, or it is in a run queue, or the thread that started or resumed it is
\* about to queue it.  yield(), sleep(), timerFired() and handleIpi() each hand threads from
\* one to the other.
RunnableIsQueued ==
    /\ TypeOK
    /\ panic = "none" =>
        \A t \in Threads :
            state[t] = "Runnable" =>
                \/ running = t \/ Queued(t)
                \/ \E r \in Threads : pc[r] \in {"created", "resumed"} /\ target[r] = t

\* A thread that waits with a notification pending is on its way out: notify()
\* and blockNotify() never leave a notified thread asleep, whatever interrupts
\* them, and the wake-up is not taken for a spurious one.
NotifiedWakes ==
    panic = "none" =>
        \A t \in Threads :
            state[t] = "NotifyWait" /\ bits[t] =>
                t \in Range(unblocked) /\ blockState[t] # "Blocking"

\* The core never loses its timer: once run() has been called the timer is armed
\* or an IPI is pending, so unblocked threads and deadlines get looked at again.
InterruptAhead == panic = "none" /\ running # NoThread => timer \/ ipi

\* A runnable thread of a better level than the running one waits only for an IPI
\* that is already pending (threads resumed without a switch apart).
BetterThreadPreempts ==
    panic = "none" /\ running # NoThread /\ "resume" \notin Ops =>
        \A t \in Threads, l \in Levels :
            t \in Range(queue[l]) /\ state[t] = "Runnable" /\ l < currentLevel => ipi

\* As long as no thread waits for notifications or is resumed, a thread is in the
\* run queues at most once, and not at all while it runs, so the fixed size of a
\* queue bounds the number of threads and nothing else.
QueuedOnce ==
    \A t \in Threads :
        Cardinality({e \in Levels \X (1..QueueSize) :
                        e[2] <= Len(queue[e[1]]) /\ queue[e[1]][e[2]] = t})
            <= (IF running = t THEN 0 ELSE 1)

\* No thread is starved: a runnable or sleeping thread gets the processor, even if
\* others yield and sleep so as to stay at the best level.
EveryThreadRuns ==
    \A t \in Threads : state[t] \in {"Runnable", "Sleeping"} ~> running = t

\* "when a thread returns, IRQL is back at Passive level": no thread executes with
\* the timer and the scheduler interrupt masked.
YieldReturnsPassive == running # NoThread => irql = Passive

\* "when a deadline (or other object) fires, it should ensure the epoch value is the
\* same as what it was when it began blocking": a deadline that fires late does not
\* wake a thread that is no longer waiting.
LateDeadlineIgnored == panic # "unblocked in invalid state"

\* "Removes an existing deadline, if it has not yet expired": removeDeadline() may be
\* called for the only deadline, or for one that has expired.
DeadlineRemoved == panic # "empty heap"
============================================================================
