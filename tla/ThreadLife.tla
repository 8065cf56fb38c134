----------------------------- MODULE ThreadLife -----------------------------
(***************************************************************************)
(* How threads and tasks end: Thread::terminate, waitOn, callTerminators   *)
(* (kernel/src/sched/Thread.cpp), Task::terminate, addThread, detachThread *)
(* (Task.cpp), the idle worker that takes dead threads apart               *)
(* (IdleWorker.cpp), and the ThreadCreate, ThreadResume, ThreadDestroy,    *)
(* ThreadJoin and TaskTerminate system calls, on one core.                 *)
(*                                                                         *)
(* A thread is preempted between any two of its steps.  Critical sections, *)
(* exception handlers and code at scheduler IRQL are one step each.        *)
(* Priorities, quanta, timed waits and the raised IRQL that a yield() to   *)
(* oneself leaves behind are in Scheduler; here all threads share a level, *)
(* a join has no timeout, and every step starts at passive IRQL.           *)
(***************************************************************************)
EXTENDS Integers, Sequences, FiniteSets, SequencesExt

CONSTANTS Threads, Tasks,
          taskOf,        \* the task a thread is created in
          Initial,       \* each thread at first: New, Paused or Runnable
          Ops,           \* the system calls each thread makes
          MaxCalls       \* how many it makes (a bound)

Idle == "idle"           \* the idle worker's thread
None == "none"
AllCalls == {"create", "resume", "destroy", "join", "sleep", "terminate", "fault"}

ASSUME ThreadLifeAssumption ==
    /\ taskOf \in [Threads -> Tasks]
    /\ Initial \in [Threads -> {"New", "Paused", "Runnable"}]
    /\ Ops \in [Threads -> SUBSET AllCalls] /\ MaxCalls \in [Threads -> Nat]
    /\ {Idle, None} \cap (Threads \cup Tasks) = {} /\ Threads \cap Tasks = {}

VARIABLES
    state, needsToDie,               \* of each thread, as are the next six
    attachedToTask,
    unblockRequested,
    pc, arg,                         \* where it is; the thread its call is about
    job,                             \* the task it terminates and the threads left to do
    calls,                           \* how many system calls it has made
    sleepers,                        \* threads with a sleep deadline
    terminateSignals,                \* per thread: those whose join has a flag in its list
    blocker, signalled,              \* the two fields of a joining thread's flag
    threads, taskLock,               \* of each task; the thread that holds its lock
    threadLock,                      \* the threads whose locks the idle worker holds
    runQueue, unblocked, running, ipi,
    work, idle,                      \* the idle worker's queue, and where it is
    joined, reaped, ended,           \* history: threads a join found terminated, threads
                                     \* whose terminators were called, terminated tasks
    panic                            \* why the kernel stopped, if it did

schedVars == <<state, unblockRequested, runQueue, unblocked, running, ipi>>
deathVars == <<needsToDie, attachedToTask, threads, taskLock>>
joinVars == <<terminateSignals, blocker, signalled, joined>>
idleVars == <<threadLock, idle, reaped, ended>>
vars == <<schedVars, deathVars, joinVars, idleVars, pc, arg, job, calls, sleepers, work, panic>>

States == {"New", "Paused", "Runnable", "Blocked", "Sleeping", "Zombie"}
Places == {"user", "terminate", "kill", "queue", "dead", "join", "block", "wait",
           "woken", "unlist", "add", "start", "resume", "schedule", "each", "last", "own", "fault"}
NoJob == [task |-> None, left |-> {}]

Occurrences(s, x) == Cardinality({i \in DOMAIN s : s[i] = x})
----------------------------------------------------------------------------
Init ==
    /\ state = Initial
    /\ needsToDie = [t \in Threads |-> FALSE]
    /\ attachedToTask = [t \in Threads |-> Initial[t] # "New"]
    /\ unblockRequested = [t \in Threads |-> FALSE]
    /\ pc = [t \in Threads |-> "user"] /\ arg = [t \in Threads |-> None]
    /\ job = [t \in Threads |-> NoJob] /\ calls = [t \in Threads |-> 0]
    /\ sleepers = {}
    /\ terminateSignals = [t \in Threads |-> {}]
    /\ blocker = [t \in Threads |-> FALSE] /\ signalled = [t \in Threads |-> FALSE]
    /\ threads = [k \in Tasks |-> {t \in Threads : taskOf[t] = k /\ Initial[t] # "New"}]
    /\ taskLock = [k \in Tasks |-> None] /\ threadLock = {}
    /\ runQueue = SetToSeq({t \in Threads : Initial[t] = "Runnable"})
    /\ unblocked = <<>> /\ running = Idle /\ ipi = TRUE
    /\ work = <<>> /\ idle = [at |-> "pop", thread |-> None, flags |-> {}, flag |-> None]
    /\ joined = {} /\ reaped = {} /\ ended = {} /\ panic = None

\* A thread's handle is known once ThreadCreate has returned it or the thread runs.
Known(u) == state[u] # "New" /\ \A r \in Threads : pc[r] = "start" => arg[r] # u

Executes(t, at) == panic = None /\ running = t /\ pc[t] = at
Calls(t, op) ==
    /\ Executes(t, "user") /\ op \in Ops[t] /\ calls[t] < MaxCalls[t]
    /\ calls' = [calls EXCEPT ![t] = @ + 1]
Goes(t, to) == pc' = [pc EXCEPT ![t] = to]
Aims(t, u) == arg' = [arg EXCEPT ![t] = u]

\* findRunnableThread() on the run queue q: a popped thread that needs to die is
\* handed to deferredTerminate(), one that is not runnable is dropped.
FindAnyRunnable(q, st) ==
    LET ready == {i \in DOMAIN q : st[q[i]] = "Runnable"}
        first == CHOOSE i \in ready : \A j \in ready : i <= j
    IN  IF ready = {} THEN [thread |-> Idle, dead |-> <<>>, queue |-> <<>>]
        ELSE [thread |-> q[first], dead |-> <<>>, queue |-> SubSeq(q, first + 1, Len(q))]
FindRunnable(q, st) ==
    LET ready == {i \in DOMAIN q : st[q[i]] = "Runnable" /\ ~needsToDie[q[i]]}
        first == CHOOSE i \in ready : \A j \in ready : i <= j
        popped == IF ready = {} THEN q ELSE SubSeq(q, 1, first - 1)
    IN  [thread |-> IF ready = {} THEN Idle ELSE q[first],
         dead |-> SelectSeq(popped, LAMBDA t : needsToDie[t]),
         queue |-> IF ready = {} THEN <<>> ELSE SubSeq(q, first + 1, Len(q))]

\* The next thread is taken from the queue q and switched to.  switchFrom() hands
\* the thread that is left to deferredTerminate() as well if it needs to die; a
\* thread deferredTerminate() gets is a zombie with an item in the work queue.
Switch(q, st) ==
    LET next == FindRunnable(q, st)
        left == IF next.thread # running /\ running \in Threads /\ needsToDie[running]
                THEN <<running>> ELSE <<>>
        dead == next.dead \o left
    IN  /\ running' = next.thread /\ runQueue' = next.queue
        /\ state' = [t \in Threads |-> IF t \in Range(dead) THEN "Zombie" ELSE st[t]]
        /\ work' = work \o dead

\* Scheduler::yield() by thread t whose state is st[t]
YieldNow(t, st) ==
    IF st[t] = "Runnable" /\ ~needsToDie[t]
    THEN IF runQueue = <<>> THEN state' = st /\ UNCHANGED <<runQueue, running, work>>
                            ELSE Switch(Append(runQueue, t), st)
    ELSE Switch(runQueue, st)
----------------------------------------------------------------------------
\* Thread::sleep()
Sleep(t) ==
    /\ Calls(t, "sleep")
    /\ sleepers' = sleepers \cup {t}
    /\ YieldNow(t, [state EXCEPT ![t] = "Sleeping"])
    /\ UNCHANGED <<deathVars, joinVars, idleVars, pc, arg, job, unblockRequested, unblocked,
                   ipi, panic>>

\* ThreadCreate: addThread() takes the lock of the caller's task ...
Create(t, u) ==
    /\ Calls(t, "create")
    /\ state[u] = "New" /\ taskOf[u] = taskOf[t]
    /\ \A r \in Threads : pc[r] \in {"add", "start"} => arg[r] # u
    /\ taskLock[taskOf[t]] = None
    /\ taskLock' = [taskLock EXCEPT ![taskOf[t]] = t]
    /\ Goes(t, "add") /\ Aims(t, u)
    /\ UNCHANGED <<schedVars, needsToDie, attachedToTask, threads, joinVars, idleVars, job,
                   sleepers, work, panic>>

\* ... puts the thread on its list and lets go of the lock ...
AddThreadUnlisted(t) ==
    LET k == taskOf[t] IN
    /\ Executes(t, "add")
    /\ attachedToTask' = [attachedToTask EXCEPT ![arg[t]] = TRUE]
    /\ taskLock' = [taskLock EXCEPT ![k] = None]
    /\ state' = [state EXCEPT ![arg[t]] = "Paused"]
    /\ Goes(t, "start")
    /\ UNCHANGED <<unblockRequested, runQueue, unblocked, running, ipi, needsToDie, threads,
                   joinVars, idleVars, arg, job, sleepers, work, panic, calls>>
AddThread(t) ==
    LET k == taskOf[t] IN
    /\ Executes(t, "add")
    /\ threads' = [threads EXCEPT ![k] = @ \cup {arg[t]}]
    /\ attachedToTask' = [attachedToTask EXCEPT ![arg[t]] = TRUE]
    /\ taskLock' = [taskLock EXCEPT ![k] = None]
    /\ state' = [state EXCEPT ![arg[t]] = "Paused"]
    /\ Goes(t, "start")
    /\ UNCHANGED <<unblockRequested, runQueue, unblocked, running, ipi, needsToDie, joinVars,
                   idleVars, arg, job, sleepers, work, panic, calls>>

\* ... and the thread is started, or stays paused; ThreadResume starts it as well,
\* having tested that it is paused.
StartPaused(t) ==
    /\ Executes(t, "start")
    /\ Goes(t, "user") /\ Aims(t, None)
    /\ state' = [state EXCEPT ![arg[t]] = "Paused"]
    /\ UNCHANGED <<unblockRequested, runQueue, unblocked, running, ipi, deathVars, joinVars,
                   idleVars, job, sleepers, work, panic, calls>>

Resume(t, u) ==
    /\ Calls(t, "resume")
    /\ Known(u) /\ state[u] = "Paused"
    /\ Goes(t, "resume") /\ Aims(t, u)
    /\ UNCHANGED <<schedVars, deathVars, joinVars, idleVars, job, sleepers, work, panic>>

\* setState() to runnable by thread t; a blocked thread must not be made runnable so.
SetRunnable(t) ==
    /\ Executes(t, "start") \/ Executes(t, "resume")
    /\ Goes(t, "schedule")
    /\ state' = [state EXCEPT ![arg[t]] = "Runnable"]
    /\ panic' = IF state[arg[t]] = "Blocked" THEN "runnable while blocking" ELSE panic
    /\ UNCHANGED <<unblockRequested, runQueue, unblocked, running, ipi, deathVars, joinVars,
                   idleVars, arg, job, sleepers, work, calls>>

\* markThreadAsRunnable(); the IPI ThreadCreate asks for adds nothing to the timer's
MarkThreadAsRunnable(t) ==
    /\ Executes(t, "schedule")
    /\ Goes(t, "user") /\ Aims(t, None)
    /\ runQueue' = Append(runQueue, arg[t])
    /\ UNCHANGED <<state, unblockRequested, unblocked, running, ipi, deathVars, joinVars,
                   idleVars, job, sleepers, work, panic, calls>>
----------------------------------------------------------------------------
\* ThreadDestroy calls Thread::terminate(), which first takes needsToDie; whoever
\* finds it taken is done.
Destroy(t, u) ==
    /\ Calls(t, "destroy")
    /\ Known(u)
    /\ Goes(t, "terminate") /\ Aims(t, u)
    /\ UNCHANGED <<schedVars, deathVars, joinVars, idleVars, job, sleepers, work, panic>>

Returns(t) ==
    /\ IF job[t] = NoJob THEN Goes(t, "user") ELSE Goes(t, "each")
    /\ Aims(t, None)

TakeNeedsToDie(t) ==
    /\ Executes(t, "terminate")
    /\ IF needsToDie[arg[t]] THEN Returns(t) ELSE Goes(t, "kill") /\ UNCHANGED arg
    /\ needsToDie' = [needsToDie EXCEPT ![arg[t]] = TRUE]
    /\ UNCHANGED <<schedVars, attachedToTask, threads, taskLock, joinVars, idleVars, job,
                   sleepers, work, panic, calls>>

\* The critical section: a thread that does not have the processor is a zombie now.
BecomeNothing(t) ==
    /\ Executes(t, "kill")
    /\ IF arg[t] = t THEN Goes(t, "dead") ELSE Goes(t, "queue")
    /\ UNCHANGED <<schedVars, deathVars, joinVars, idleVars, arg, job, sleepers, work, panic,
                   calls>>
BecomeZombie(t) ==
    /\ Executes(t, "kill")
    /\ IF arg[t] = t THEN Goes(t, "dead") /\ UNCHANGED state
                     ELSE Goes(t, "queue") /\ state' = [state EXCEPT ![arg[t]] = "Zombie"]
    /\ UNCHANGED <<unblockRequested, runQueue, unblocked, running, ipi, deathVars, joinVars,
                   idleVars, arg, job, sleepers, work, panic, calls>>

\* queueDestroyThread(); a thread that terminates itself yields instead.
QueueDestroyThread(t) ==
    /\ Executes(t, "queue")
    /\ Returns(t)
    /\ work' = Append(work, arg[t])
    /\ UNCHANGED <<schedVars, deathVars, joinVars, idleVars, job, sleepers, panic, calls>>

Die(t) ==
    /\ Executes(t, "dead")
    /\ YieldNow(t, state)
    /\ UNCHANGED <<deathVars, joinVars, idleVars, pc, arg, job, sleepers, unblockRequested,
                   unblocked, ipi, panic, calls>>
----------------------------------------------------------------------------
\* Task::terminate(): under the task's lock ...
TerminateTask(t, k) ==
    /\ Calls(t, "terminate")
    /\ taskLock[k] = None
    /\ taskLock' = [taskLock EXCEPT ![k] = t]
    /\ job' = [job EXCEPT ![t] = [task |-> k, left |-> threads[k] \ {t}]]
    /\ Goes(t, "each")
    /\ UNCHANGED <<schedVars, needsToDie, attachedToTask, threads, joinVars, idleVars, arg,
                   sleepers, work, panic>>

\* ... every thread but the caller is detached and terminated ...
TerminateEach(t, u) ==
    /\ Executes(t, "each") /\ u \in job[t].left
    /\ job' = [job EXCEPT ![t].left = @ \ {u}]
    /\ attachedToTask' = [attachedToTask EXCEPT ![u] = FALSE]
    /\ Goes(t, "terminate") /\ Aims(t, u)
    /\ UNCHANGED <<schedVars, needsToDie, threads, taskLock, joinVars, idleVars, sleepers, work,
                   panic, calls>>

TerminatedAll(t) ==
    LET k == job[t].task IN
    /\ Executes(t, "each") /\ job[t].left = {}
    /\ threads' = [threads EXCEPT ![k] = {}]
    /\ taskLock' = [taskLock EXCEPT ![k] = None]
    /\ Goes(t, "last")
    /\ UNCHANGED <<schedVars, needsToDie, attachedToTask, joinVars, idleVars, arg, job,
                   sleepers,
                   work, panic, calls>>

\* ... the task is queued for deletion ...
QueueDestroyTask(t) ==
    LET k == job[t].task IN
    /\ Executes(t, "last")
    /\ work' = Append(work, k) /\ ended' = ended \cup {k}
    /\ Goes(t, "own")
    /\ UNCHANGED <<schedVars, deathVars, joinVars, threadLock, idle, reaped, arg, job, sleepers,
                   panic, calls>>

\* ... and the caller's turn comes if it belongs to the task.
TerminateOwn(t) ==
    /\ Executes(t, "own")
    /\ job' = [job EXCEPT ![t] = NoJob]
    /\ IF taskOf[t] = job[t].task
       THEN /\ Goes(t, "terminate") /\ Aims(t, t)
            /\ attachedToTask' = [attachedToTask EXCEPT ![t] = FALSE]
       ELSE Goes(t, "user") /\ UNCHANGED <<arg, attachedToTask>>
    /\ UNCHANGED <<schedVars, needsToDie, threads, taskLock, joinVars, idleVars, sleepers, work,
                   panic, calls>>

\* handleFault(): Task::terminate() of the thread's own task, in the exception handler.
\* Interrupts are off, so a lock that another thread holds is waited for in vain.
Fault(t) ==
    LET k == taskOf[t]
        others == threads[k] \ {t}
        killed == {u \in others : ~needsToDie[u]}
    IN
    /\ Calls(t, "fault")
    /\ IF taskLock[k] # None
       THEN panic' = "spin" /\ UNCHANGED <<schedVars, deathVars, pc, work, ended>>
       ELSE /\ attachedToTask' = [u \in Threads |-> attachedToTask[u] /\ u \notin others \cup {t}]
            /\ needsToDie' = [u \in Threads |-> needsToDie[u] \/ u \in killed \cup {t}]
            /\ state' = [u \in Threads |-> IF u \in killed THEN "Zombie" ELSE state[u]]
            /\ threads' = [threads EXCEPT ![k] = {}]
            /\ work' = work \o SetToSeq(killed) \o <<k, t>> /\ ended' = ended \cup {k}
            /\ ipi' = TRUE /\ Goes(t, "fault")
            /\ UNCHANGED <<unblockRequested, runQueue, unblocked, running, taskLock, panic>>
    /\ UNCHANGED <<joinVars, threadLock, idle, reaped, arg, job, sleepers>>
----------------------------------------------------------------------------
\* ThreadJoin: a thread that is to die already counts as terminated ...
JoinDead(t, u) ==
    /\ Calls(t, "join") /\ t # u
    /\ Known(u) /\ needsToDie[u]
    /\ joined' = joined \cup {u}
    /\ UNCHANGED <<schedVars, deathVars, terminateSignals, blocker, signalled, idleVars, pc,
                   arg,
                   job, sleepers, work, panic>>

Join(t, u) ==
    /\ Calls(t, "join") /\ t # u
    /\ Known(u) /\ ~needsToDie[u]
    /\ Goes(t, "join") /\ Aims(t, u)
    /\ UNCHANGED <<schedVars, deathVars, joinVars, idleVars, job, sleepers, work, panic>>

\* ... else waitOn() adds a new flag to its list, under its lock and with everything
\* masked: if the idle worker holds the lock this waits for ever ...
Spins(t) == arg[t] \in threadLock

AppendFlag(t) ==
    /\ Executes(t, "join")
    /\ IF Spins(t)
       THEN panic' = "spin" /\ UNCHANGED <<terminateSignals, blocker, signalled, pc>>
       ELSE /\ terminateSignals' = [terminateSignals EXCEPT ![arg[t]] = @ \cup {t}]
            /\ blocker' = [blocker EXCEPT ![t] = FALSE]
            /\ signalled' = [signalled EXCEPT ![t] = FALSE]
            /\ Goes(t, "block") /\ UNCHANGED panic
    /\ UNCHANGED <<schedVars, deathVars, idleVars, arg, job, sleepers, work, joined, calls>>

\* ... blockOn() makes the caller the flag's blocker, yields ...
BlockOn(t) ==
    /\ Executes(t, "block")
    /\ blocker' = [blocker EXCEPT ![t] = TRUE]
    /\ state' = [state EXCEPT ![t] = "Blocked"]
    /\ Goes(t, "wait")
    /\ UNCHANGED <<unblockRequested, runQueue, unblocked, running, ipi, deathVars,
                   terminateSignals, signalled, joined, idleVars, arg, job, sleepers, work,
                   panic, calls>>

BlockYields(t) ==
    /\ Executes(t, "wait")
    /\ YieldNow(t, state)
    /\ Goes(t, "woken")
    /\ UNCHANGED <<deathVars, joinVars, idleVars, arg, job, sleepers, unblockRequested,
                   unblocked,
                   ipi, panic, calls>>

DidUnblock(t) ==
    /\ Executes(t, "woken")
    /\ blocker' = [blocker EXCEPT ![t] = FALSE]
    /\ Goes(t, "unlist")
    /\ UNCHANGED <<schedVars, deathVars, terminateSignals, signalled, joined, idleVars, arg,
                   job,
                   sleepers, work, panic, calls>>

\* ... and takes the flag off the list again, masked and under the same lock.
RemoveFlag(t) ==
    /\ Executes(t, "unlist")
    /\ IF Spins(t)
       THEN panic' = "spin" /\ UNCHANGED <<terminateSignals, joined, pc, arg>>
       ELSE /\ terminateSignals' = [terminateSignals EXCEPT ![arg[t]] = @ \ {t}]
            /\ joined' = joined \cup {arg[t]}
            /\ Goes(t, "user") /\ Aims(t, None) /\ UNCHANGED panic
    /\ UNCHANGED <<schedVars, deathVars, blocker, signalled, idleVars, job, sleepers, work,
                   calls>>
----------------------------------------------------------------------------
IdleAt(at) == panic = None /\ running = Idle /\ idle.at = at

\* checkWork(): the next item.  The one for a task only gives up a reference.
IdlePop ==
    /\ IdleAt("pop") /\ work # <<>>
    /\ work' = Tail(work)
    /\ idle' = IF Head(work) \in Threads THEN [idle EXCEPT !.at = "detach", !.thread = Head(work)]
                                         ELSE idle
    /\ UNCHANGED <<schedVars, deathVars, joinVars, threadLock, reaped, ended, pc, arg, job,
                   sleepers,
                   panic, calls>>

\* detachThread(): nothing to do, or the state is tested ...
DetachTest ==
    LET u == idle.thread IN
    /\ IdleAt("detach")
    /\ CASE ~attachedToTask[u] -> idle' = [idle EXCEPT !.at = "signal"] /\ UNCHANGED panic
         [] attachedToTask[u] /\ state[u] \in {"Paused", "Zombie"} ->
                idle' = [idle EXCEPT !.at = "unlink"] /\ UNCHANGED panic
         [] OTHER -> panic' = "detach" /\ UNCHANGED idle
    /\ UNCHANGED <<schedVars, deathVars, joinVars, threadLock, reaped, ended, pc, arg, job,
                   sleepers,
                   work, calls>>

\* ... and the thread taken off its task's list, once the task's lock is free.
DetachUnlink ==
    LET u == idle.thread IN
    /\ IdleAt("unlink") /\ taskLock[taskOf[u]] = None
    /\ threads' = [threads EXCEPT ![taskOf[u]] = @ \ {u}]
    /\ attachedToTask' = [attachedToTask EXCEPT ![u] = attachedToTask[u] /\ u \notin threads[taskOf[u]]]
    /\ idle' = [idle EXCEPT !.at = "signal"]
    /\ UNCHANGED <<schedVars, needsToDie, taskLock, joinVars, threadLock, reaped, ended, pc,
                   arg, job,
                   sleepers, work, panic, calls>>

\* callTerminators(): under the lock of the dead thread ...
LockThread ==
    /\ IdleAt("signal")
    /\ threadLock' = threadLock \cup {idle.thread}
    /\ idle' = [idle EXCEPT !.at = "flags", !.flags = terminateSignals[idle.thread]]
    /\ UNCHANGED <<schedVars, deathVars, joinVars, reaped, ended, pc, arg, job, sleepers, work,
                   panic, calls>>

\* ... every flag is signalled, once: SignalFlag::signal() sets it and calls unblock()
\* of its blocker.  A flag without a blocker is a null pointer.
SignalForgotten(j) ==
    /\ IdleAt("flags") /\ j \in idle.flags
    /\ idle' = [idle EXCEPT !.flags = @ \ {j}]
    /\ UNCHANGED <<schedVars, deathVars, joinVars, threadLock, reaped, ended, pc, arg, job,
                   sleepers, work, panic, calls>>
Signal(j) ==
    /\ IdleAt("flags") /\ j \in idle.flags
    /\ signalled' = [signalled EXCEPT ![j] = TRUE]
    /\ idle' = IF signalled[j] THEN [idle EXCEPT !.flags = @ \ {j}]
               ELSE [idle EXCEPT !.flags = @ \ {j}, !.at = "unblock", !.flag = j]
    /\ panic' = IF ~signalled[j] /\ ~blocker[j] THEN "null blocker" ELSE panic
    /\ UNCHANGED <<schedVars, deathVars, terminateSignals, blocker, joined, threadLock, reaped,
                   ended, pc, arg, job, sleepers, work, calls>>

\* Thread::unblock() takes the blocker's lock before it enters its critical section ...
UnblockLock ==
    /\ IdleAt("unblock")
    /\ threadLock' = threadLock \cup {idle.flag}
    /\ idle' = [idle EXCEPT !.at = "unlock"]
    /\ UNCHANGED <<schedVars, deathVars, joinVars, reaped, ended, pc, arg, job, sleepers, work,
                   panic, calls>>

UnblockUnlock ==
    /\ IdleAt("unlock")
    /\ threadLock' = threadLock \ ({idle.flag} \ {idle.thread})
    /\ idle' = [idle EXCEPT !.at = "request"]
    /\ UNCHANGED <<schedVars, deathVars, joinVars, reaped, ended, pc, arg, job, sleepers, work,
                   panic, calls>>

\* ... and threadUnblocked() looks at the state of a thread nobody has asked for yet ...
ThreadUnblocked ==
    LET j == idle.flag IN
    /\ IdleAt("request")
    /\ unblockRequested' = [unblockRequested EXCEPT ![j] = TRUE]
    /\ idle' = IF unblockRequested[j] \/ state[j] = "Zombie"
               THEN [idle EXCEPT !.at = "flags", !.flag = None] ELSE [idle EXCEPT !.at = "insert"]
    /\ panic' = IF unblockRequested[j] \/ state[j] \in {"Zombie", "Blocked", "Sleeping"} THEN panic
                ELSE "unblocked in invalid state"
    /\ UNCHANGED <<state, runQueue, unblocked, running, ipi, deathVars, joinVars, threadLock,
                   reaped, ended, pc, arg, job, sleepers, work, calls>>

\* ... and has the scheduler make it runnable.
InsertUnblocked ==
    /\ IdleAt("insert")
    /\ unblocked' = Append(unblocked, idle.flag) /\ ipi' = TRUE
    /\ idle' = [idle EXCEPT !.at = "flags", !.flag = None]
    /\ UNCHANGED <<state, unblockRequested, runQueue, running, deathVars, joinVars, threadLock,
                   reaped, ended, pc, arg, job, sleepers, work, panic, calls>>

SignalledAll ==
    /\ IdleAt("flags") /\ idle.flags = {}
    /\ threadLock' = threadLock \ {idle.thread}
    /\ reaped' = reaped \cup {idle.thread}
    /\ idle' = [idle EXCEPT !.at = "pop", !.thread = None]
    /\ UNCHANGED <<schedVars, deathVars, joinVars, ended, pc, arg, job, sleepers, work,
                   panic, calls>>
----------------------------------------------------------------------------
\* handleIpi() once the threads S have been made runnable and queued: the unblocked
\* threads and the running one are queued, and the next thread is switched to.
Reschedule(S) ==
    LET awake == SelectSeq(unblocked, LAMBDA t : state[t] # "Zombie")
        st == [t \in Threads |-> IF t \in S \cup Range(awake) THEN "Runnable" ELSE state[t]]
        back == IF running \in Threads /\ st[running] = "Runnable" THEN <<running>> ELSE <<>>
    IN  /\ unblocked' = <<>>
        /\ unblockRequested' = [t \in Threads |-> unblockRequested[t] /\ t \notin Range(awake)]
        /\ Switch(runQueue \o SetToSeq(S) \o awake \o back, st)
        /\ ipi' = FALSE

Preempted == UNCHANGED <<deathVars, joinVars, idleVars, pc, arg, job, calls>>

HandleIpi == panic = None /\ ipi /\ Reschedule({}) /\ UNCHANGED <<sleepers, panic>> /\ Preempted

\* The timer: the deadlines of the threads S have expired, or a quantum has.  The IPI
\* timerFired() sends is taken when its handler returns.  An expired SleepDeadline
\* makes its thread runnable, whatever has become of it.
TimerFired(S) ==
    /\ panic = None /\ S \subseteq sleepers
    /\ sleepers' = sleepers \ S
    /\ panic' = IF \E t \in S : state[t] = "Blocked" THEN "runnable while blocking" ELSE panic
    /\ Reschedule(S) /\ Preempted

Call(t) ==
    \/ Sleep(t) \/ Fault(t)
    \/ \E u \in Threads :
           Create(t, u) \/ Resume(t, u) \/ Destroy(t, u) \/ JoinDead(t, u) \/ Join(t, u)
    \/ \E k \in Tasks : TerminateTask(t, k)

Step(t) ==
    \/ AddThread(t) \/ StartPaused(t) \/ SetRunnable(t) \/ MarkThreadAsRunnable(t)
    \/ TakeNeedsToDie(t) \/ BecomeZombie(t) \/ QueueDestroyThread(t) \/ Die(t)
    \/ (\E u \in Threads : TerminateEach(t, u)) \/ TerminatedAll(t)
    \/ QueueDestroyTask(t) \/ TerminateOwn(t)
    \/ AppendFlag(t) \/ BlockOn(t) \/ BlockYields(t) \/ DidUnblock(t) \/ RemoveFlag(t)

IdleStep ==
    \/ IdlePop \/ DetachTest \/ DetachUnlink \/ LockThread
    \/ (\E j \in Threads : Signal(j)) \/ SignalledAll
    \/ UnblockLock \/ UnblockUnlock \/ ThreadUnblocked \/ InsertUnblocked

\* A kernel that panicked, or waits for ever, has stopped.
Stopped == panic # None /\ UNCHANGED vars

Next ==
    \/ \E t \in Threads : Call(t)
    \/ \E t \in Threads : Step(t)
    \/ IdleStep \/ HandleIpi \/ Stopped
    \/ \E S \in SUBSET sleepers : TimerFired(S)

Spec == Init /\ [][Next]_vars
----------------------------------------------------------------------------
\* Where every thread, task and item of work is.
TypeOK ==
    /\ state \in [Threads -> States]
    /\ {needsToDie, attachedToTask, unblockRequested, blocker, signalled} \subseteq [Threads -> BOOLEAN]
    /\ pc \in [Threads -> Places] /\ arg \in [Threads -> Threads \cup {None}]
    /\ job \in [Threads -> [task : Tasks \cup {None}, left : SUBSET Threads]]
    /\ \A t \in Threads : calls[t] \in 0..MaxCalls[t]
    /\ sleepers \subseteq Threads /\ reaped \subseteq Threads /\ ended \subseteq Tasks
    /\ terminateSignals \in [Threads -> SUBSET Threads]
    /\ threads \in [Tasks -> SUBSET Threads]
    /\ taskLock \in [Tasks -> Threads \cup {None}] /\ threadLock \subseteq Threads
    /\ {runQueue, unblocked} \subseteq Seq(Threads) /\ work \in Seq(Threads \cup Tasks)
    /\ running \in Threads \cup {Idle} /\ ipi \in BOOLEAN
    /\ idle \in [at : {"pop", "detach", "unlink", "signal", "flags", "unblock", "unlock",
                        "request", "insert"},
                 thread : Threads \cup {None}, flags : SUBSET Threads, flag : Threads \cup {None}]
    /\ joined \subseteq Threads
    /\ panic \in {None, "spin", "detach", "null blocker", "unblocked in invalid state",
                 "runnable while blocking"}

\* Who sees to the end of a thread that is to die: the processor, the run queue, the
\* work queue or the idle worker has it ...
InHand(t) ==
    \/ running = t \/ t \in Range(runQueue) \cup Range(work) \cup reaped
    \/ idle.thread = t

\* ... or k has set its needsToDie and is about to queue it.
KilledBy(t, k) == arg[k] = t /\ pc[k] \in {"kill", "queue"}

\* A thread is over for good: once its terminators have been called, or a join has
\* reported it terminated, it does not get the processor again, whatever queue
\* it was in, whoever resumes it and whichever deadline of its expires.  Until then
\* a thread that is to die is in somebody's hand or one thread has taken its end upon
\* itself; that one may be terminated before it gets there, see NotForgotten.
DeathIsFinal ==
    /\ TypeOK
    /\ running \notin reaped \cup joined
    /\ panic = None =>
        \A t \in Threads :
            LET killers == {k \in Threads \ {t} : KilledBy(t, k)} IN
            needsToDie[t] => (InHand(t) \/ killers # {}) /\ Cardinality(killers) <= 1

\* "If not active, we'll set it as a zombie and deal with it accordingly": somebody
\* who can still do it sees to the end of every thread that is to die.
NotForgotten ==
    panic = None =>
        \A t \in Threads :
            needsToDie[t] => InHand(t) \/ \E k \in Threads : KilledBy(t, k) /\ ~needsToDie[k]

\* No thread survives its task: when Task::terminate() is through, every thread ever
\* added to the task is to die, or is at the end of a Task::terminate() of its own.
NoSurvivor ==
    \A t \in Threads :
        taskOf[t] \in ended /\ state[t] # "New" =>
            \/ needsToDie[t]
            \/ pc[t] = "terminate" /\ arg[t] = t
            \/ pc[t] \in {"last", "own"} /\ job[t].task = taskOf[t]

\* A join is not missed: a thread that still waits for one whose terminators have
\* been called has been signalled.
JoinNotMissed ==
    \A t \in Threads :
        pc[t] \in {"block", "wait", "woken"} /\ ~needsToDie[t] /\ arg[t] \in reaped => signalled[t]

\* The assertions on the way out hold.  detachThread() finds a thread paused or dead,
\* unless ThreadResume was itself terminated between making the thread runnable and
\* queueing it; and a flag is signalled while its blocker is set, unless the thread
\* that joined was terminated between listing its flag and blocking on it.
DiesInOrder ==
    /\ panic = "detach" => \E r \in Threads : needsToDie[r] /\ pc[r] = "schedule"
    /\ panic = "null blocker" => \E t \in Threads : needsToDie[t] /\ pc[t] = "block"

\* "@return 0 if the thread terminated": a join gets its answer; the core does not
\* wait, with interrupts masked, for a lock whose holder it keeps from running.
JoinAnswers == panic # "spin"
============================================================================
