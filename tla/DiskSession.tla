---------------------------- MODULE DiskSession -----------------------------
(***************************************************************************)
(* Reading from a disk, from the client's call to the data: threads of a   *)
(* client (ipc/disk/src/Client.cpp) with a session open, the RPC server of *)
(* the driver (drivers/ahci/src/device/AtaDiskRpcServer.cpp, AtaDisk.cpp), *)
(* the commands in shared memory the two communicate by, the buffer pool   *)
(* of the session (BufferPool) and the port of the disk (AhciPort).        *)
(*                                                                         *)
(* Messages to the server arrive in order (Port).  The client's RPC stub   *)
(* has one transmit buffer, so its threads are taken to send one at a time.*)
(***************************************************************************)
EXTENDS AhciPort

CONSTANTS Threads,      \* of the client
          Requests,     \* what they read: <<sector, numSectors>>
          MaxReads,     \* bound: reads of all threads, in each world
          numCommands,  \* commands of the session
          PoolSize,     \* of its read buffer
          MaxSectors,   \* that AtaDisk::read() takes, 65536 in the code
          Worlds        \* do the reads of different threads overlap?

SharedSlots == 0..(numCommands - 1)
Pages == 0..(PoolSize - 1)

ASSUME SessionAssumption ==
    /\ numCommands \in Nat \ {0} /\ PoolSize \in Nat \ {0} /\ MaxSectors \in Nat
    /\ Worlds \subseteq {"turns", "overlap"} /\ MaxReads \in [Worlds -> Nat]

VARIABLES disk,       \* the disk is registered
          command,    \* the command list, in shared memory
          messages,   \* to the RPC server
          failing,    \* the command the server reports as failed, and where it is
          readCommandBuffers, freeList, memory,   \* of the session's pool
          thread, notified,   \* where each thread is; its notification bit
          world,
          reads       \* so far

poolVars == <<readCommandBuffers, freeList, memory>>
sessionVars == <<disk, command, messages, failing, poolVars, thread, notified, world, reads>>
vars == <<portVars, sessionVars>>

FreeCommand == [allocated |-> FALSE, busy |-> FALSE, completed |-> FALSE, success |-> TRUE,
                notifyThread |-> None, sector |-> 0, numSectors |-> 0, bufferOffset |-> 0,
                bytes |-> 0]
Quiet == [at |-> "idle", slot |-> 0]

Init ==
    /\ InitPort
    /\ disk = FALSE
    /\ command = [i \in SharedSlots |-> FreeCommand]
    /\ messages = <<>> /\ failing = Quiet
    /\ readCommandBuffers = [i \in SharedSlots |-> None]
    /\ freeList = <<Block(0, PoolSize)>>
    /\ memory = [p \in Pages |-> 0]
    /\ thread = [t \in Threads |-> [at |-> "idle", slot |-> 0, asks |-> None]]
    /\ notified = [t \in Threads |-> FALSE]
    /\ world \in Worlds /\ reads = 0

Goes(t, from, to) == thread[t].at = from /\ thread' = [thread EXCEPT ![t].at = to]
----------------------------------------------------------------------------
\* Disk::Read(): the thread wants a command ...
Read(t) ==
    /\ disk /\ thread[t].at = "idle"
    /\ reads < MaxReads[world]   \* bound
    /\ reads' = reads + 1
    /\ world = "turns" => \A u \in Threads : thread[u].at = "idle"
    /\ \E r \in Requests : thread' = [thread EXCEPT ![t] = [at |-> "alloc", slot |-> 0, asks |-> r]]
    /\ UNCHANGED <<portVars, disk, command, messages, failing, poolVars, notified, world>>

\* ... allocCommandSlot() tests and sets one after the other, and fails past the last ...
AllocSlot(t) ==
    LET i == thread[t].slot IN
    /\ thread[t].at = "alloc"
    /\ IF i = numCommands
       THEN /\ thread' = [thread EXCEPT ![t].at = "idle", ![t].slot = 0, ![t].asks = None]
            /\ UNCHANGED command
       ELSE IF command[i].allocated
       THEN thread' = [thread EXCEPT ![t].slot = @ + 1] /\ UNCHANGED command
       ELSE /\ thread' = [thread EXCEPT ![t].at = "submit"]
            /\ command' = [command EXCEPT ![i].allocated = TRUE]
    /\ UNCHANGED <<portVars, disk, messages, failing, poolVars, notified, world, reads>>

\* ... fills it in and submits it ...
Submit(t) ==
    LET i == thread[t].slot IN
    /\ Goes(t, "submit", "wait")
    /\ command' = [command EXCEPT ![i] = [@ EXCEPT
                      !.success = TRUE, !.notifyThread = t, !.sector = thread[t].asks[1],
                      !.numSectors = thread[t].asks[2], !.bufferOffset = 0, !.bytes = 0]]
    /\ messages' = Append(messages, [type |-> "execute", slot |-> i])
    /\ UNCHANGED <<portVars, disk, failing, poolVars, notified, world, reads>>

\* ... waits for a notification until it finds the command completed ...
Await(t) ==
    /\ thread[t].at = "wait" /\ notified[t]
    /\ notified' = [notified EXCEPT ![t] = FALSE]
    /\ thread' = [thread EXCEPT ![t].at = IF command[thread[t].slot].completed THEN "copy" ELSE @]
    /\ UNCHANGED <<portVars, disk, command, messages, failing, poolVars, world, reads>>

\* ... copies the data (see DataRight), and gives the command back.
CopyAndRelease(t) ==
    /\ thread[t].at = "copy"
    /\ thread' = [thread EXCEPT ![t].at = "idle", ![t].slot = 0, ![t].asks = None]
    /\ messages' = Append(messages, [type |-> "release", slot |-> thread[t].slot])
    /\ UNCHANGED <<portVars, disk, command, failing, poolVars, notified, world, reads>>
----------------------------------------------------------------------------
\* The RPC server takes the next message when it is done with the one before.
NextMessage(type) ==
    /\ SubmitAt("idle") /\ failing.at = "idle"
    /\ messages # <<>> /\ Head(messages).type = type
    /\ messages' = Tail(messages)

\* implExecuteCommand(), processCommand() and doCmdRead(): the command is marked busy and
\* gets a buffer, which is cleared, and AtaDisk::read() submits it to the port, unless it is
\* too long.  A command in the wrong state, or with nothing to read, is dropped.
ExecuteCommand ==
    LET i == Head(messages).slot
        c == command[i]
        n == c.numSectors
    IN  /\ NextMessage("execute")
        /\ IF ~c.allocated \/ c.completed \/ c.busy
           THEN UNCHANGED <<command, failing, poolVars, submit>>
           ELSE IF n = 0
           THEN /\ command' = [command EXCEPT ![i].busy = TRUE]
                /\ UNCHANGED <<failing, poolVars, submit>>
           ELSE IF LargeEnough(freeList, n) = {}
           THEN /\ command' = [command EXCEPT ![i].busy = TRUE]
                /\ failing' = [at |-> "complete", slot |-> i]
                /\ UNCHANGED <<poolVars, submit>>
           ELSE LET b == Block(Offset(freeList, n), n) IN
                /\ command' = [command EXCEPT ![i].busy = TRUE, ![i].bufferOffset = b.offset]
                /\ freeList' = Cut(freeList, n)
                /\ memory' = [p \in Pages |-> IF p - b.offset \in 0..(n - 1) THEN 0 ELSE memory[p]]
                /\ readCommandBuffers' = [readCommandBuffers EXCEPT ![i] = b]
                /\ IF n > MaxSectors
                   THEN failing' = [at |-> "complete", slot |-> i] /\ UNCHANGED submit
                   ELSE /\ submit' = Submitting([kind |-> "dma", slot |-> i, sector |-> c.sector,
                                                 buffer |-> b])
                        /\ UNCHANGED failing
        /\ UNCHANGED <<setVars, inFlightCommands, hbaVars, bits, workItems, loop, aborted,
                       disk, thread, notified, world, reads>>

\* The port could not take it.
SubmitFailed ==
    /\ SubmitAt("failed")
    /\ failing' = [at |-> "complete", slot |-> submit.cmd.slot]
    /\ submit' = Resting
    /\ UNCHANGED <<setVars, inFlightCommands, hbaVars, bits, workItems, loop, aborted,
                   disk, command, messages, poolVars, thread, notified, world, reads>>

\* implReleaseReadCommand(): the buffer goes back to the pool, then the command is free.
ReleaseReadCommand ==
    LET i == Head(messages).slot
        b == readCommandBuffers[i]
    IN  /\ NextMessage("release")
        /\ freeList' = IF b = None THEN freeList ELSE FreeRange(freeList, b)
        /\ readCommandBuffers' = [readCommandBuffers EXCEPT ![i] = None]
        /\ command' = [command EXCEPT ![i] = FreeCommand]
        /\ UNCHANGED <<portVars, disk, failing, memory, thread, notified, world, reads>>
----------------------------------------------------------------------------
\* notifyCmdCompletion(), on the server or the work loop: status and completed first ...
Completed(i, success, bytes) ==
    command' = [command EXCEPT ![i].success = success, ![i].completed = TRUE, ![i].bytes = bytes]
\* ... then busy ...
NotBusy(i) == command' = [command EXCEPT ![i].busy = FALSE]
\* ... then the thread the command names by then is notified; none is the work loop itself,
\* which knows no such bit.
Notify(i) ==
    LET t == command[i].notifyThread IN
    notified' = IF t = None THEN notified ELSE [notified EXCEPT ![t] = TRUE]

Step(from, to) == failing.at = from /\ failing' = [failing EXCEPT !.at = to]
FailureCompleted ==
    /\ ~aborted /\ Step("complete", "clear") /\ Completed(failing.slot, FALSE, 0)
    /\ UNCHANGED <<portVars, disk, messages, poolVars, thread, notified, world, reads>>
FailureNotBusy ==
    /\ ~aborted /\ Step("clear", "notify") /\ NotBusy(failing.slot)
    /\ UNCHANGED <<portVars, disk, messages, poolVars, thread, notified, world, reads>>
FailureNotified ==
    /\ ~aborted /\ failing.at = "notify" /\ failing' = Quiet /\ Notify(failing.slot)
    /\ UNCHANGED <<portVars, disk, command, messages, poolVars, thread, world, reads>>

LoopGoes(from, to) ==
    /\ LoopAt(from)
    /\ loop' = [loop EXCEPT !.at = to]
    /\ UNCHANGED <<setVars, inFlightCommands, hbaVars, bits, workItems, submit, aborted>>

\* The callback of IDENTIFY registers the disk, if it worked ...
HandleIdentifyResponse ==
    /\ loop.item # None /\ loop.item.cmd = Identify
    /\ LoopGoes("callback", "free")
    /\ disk' = loop.item.success
    /\ UNCHANGED <<command, messages, failing, poolVars, thread, notified, world, reads>>

\* ... and that of a read completes its command.
ReadCompleted ==
    /\ loop.item # None /\ loop.item.cmd # Identify
    /\ LoopGoes("callback", "clear")
    /\ LET cmd == loop.item.cmd IN
       Completed(cmd.slot, loop.item.success, IF loop.item.success THEN cmd.buffer.length ELSE 0)
    /\ UNCHANGED <<disk, messages, failing, poolVars, thread, notified, world, reads>>
ReadNotBusy ==
    /\ LoopGoes("clear", "notify")
    /\ NotBusy(loop.item.cmd.slot)
    /\ UNCHANGED <<disk, messages, failing, poolVars, thread, notified, world, reads>>
ReadNotified ==
    /\ LoopGoes("notify", "free")
    /\ Notify(loop.item.cmd.slot)
    /\ UNCHANGED <<disk, command, messages, failing, poolVars, thread, world, reads>>

\* The adapter puts the sectors of a command that works into its buffer.
Transfer(s, outcome) ==
    LET c == cmdTables[s] IN
    /\ Execute(s, outcome)
    /\ memory' = IF outcome # "success" \/ c = Identify THEN memory
                 ELSE [p \in Pages |-> IF p - c.buffer.offset \in 0..(c.buffer.length - 1)
                                       THEN c.sector + p - c.buffer.offset ELSE memory[p]]
    /\ UNCHANGED <<disk, command, messages, failing, readCommandBuffers, freeList, thread, notified,
                   world, reads>>
----------------------------------------------------------------------------
ClientStep(t) == AllocSlot(t) \/ Submit(t) \/ Await(t) \/ CopyAndRelease(t)
PortSubmits ==
    /\ \/ AllocCommandSlot \/ LoadBusy \/ StoreBusy \/ BuildCommand
       \/ RecordCommand \/ LoadMark \/ MarkCommand \/ IssueCommand
    /\ UNCHANGED sessionVars
ServerStep ==
    \/ PortSubmits \/ ExecuteCommand \/ SubmitFailed \/ ReleaseReadCommand
    \/ FailureCompleted \/ FailureNotBusy \/ FailureNotified
PortCompletes ==
    /\ \/ Receive \/ AcknowledgeIrq \/ ReadCmdIssue \/ FindCompleted \/ SelectCompleted
       \/ CompleteCommand \/ LoadUnmark \/ UnmarkCommand
       \/ NextWorkItem \/ LoadFree \/ FreeCommandSlot
    /\ UNCHANGED sessionVars
LoopStep == PortCompletes \/ HandleIdentifyResponse \/ ReadCompleted \/ ReadNotBusy \/ ReadNotified
AdapterStep(s) == \E outcome \in Outcomes : Transfer(s, outcome)

Next ==
    \/ \E t \in Threads : Read(t) \/ ClientStep(t)
    \/ ServerStep \/ LoopStep
    \/ \E s \in CmdSlots : AdapterStep(s)

\* Every thread is scheduled, and the adapter, unless it stops, gets every command done; but
\* no thread has to read.
Fairness ==
    /\ \A t \in Threads : WF_vars(ClientStep(t))
    /\ WF_vars(ServerStep) /\ WF_vars(LoopStep)
    /\ \A s \in CmdSlots : WF_vars(AdapterStep(s))
Spec == Init /\ [][Next]_vars /\ Fairness
----------------------------------------------------------------------------
TypeOK ==
    /\ {busyCommands, outstandingCommands, dmaCommands, pioCommands, cmdIssue, loop.todo}
          \subseteq SUBSET CmdSlots
    /\ irqStatus \subseteq {"dma", "pio"} /\ bits \subseteq {"irq", "work"}
    /\ submit.at \in {"idle", "test", "load", "store", "build", "record", "mark", "marked",
                      "issue", "failed"}
    /\ loop.at \in {"receive", "irq", "issued", "outstanding", "select", "complete", "unmark",
                    "unmarked", "work", "callback", "clear", "notify", "free", "freed"}
    /\ failing.at \in {"idle", "complete", "clear", "notify"} /\ failing.slot \in SharedSlots
    /\ command \in [SharedSlots -> [allocated : BOOLEAN, busy : BOOLEAN, completed : BOOLEAN,
                        success : BOOLEAN, notifyThread : Threads \cup {None}, sector : Nat,
                        numSectors : Nat, bufferOffset : Pages, bytes : 0..PoolSize]]
    /\ memory \in [Pages -> Nat] /\ notified \in [Threads -> BOOLEAN]
    /\ \A t \in Threads : /\ thread[t].at \in {"idle", "alloc", "submit", "wait", "copy"}
                           /\ thread[t].slot \in 0..numCommands
    /\ \A k \in DOMAIN messages :
          messages[k] \in [type : {"execute", "release"}, slot : SharedSlots]

\* A read that reports success has the data: when the thread copies it, its buffer holds the
\* sectors it asked for, which the adapter has put there.
DataRight == \A t \in Threads :
    LET c == command[thread[t].slot] IN
    thread[t].at = "copy" /\ c.success =>
        /\ c.bytes = thread[t].asks[2]
        /\ \A j \in 0..(c.bytes - 1) : memory[c.bufferOffset + j] = thread[t].asks[1] + j

\* This is so as long as the reads of different threads do not overlap.
SoleReadRight == world = "turns" => DataRight

\* Every read returns, with its data or with an error, unless the driver aborts or the adapter
\* has stopped.
Returns(t) == thread[t].at # "idle" ~> (thread[t].at = "idle" \/ aborted \/ halted)
ReadsReturn == \A t \in Threads : Returns(t)

\* This, too, is so as long as the reads of different threads do not overlap.
SoleReadReturns == world = "turns" => ReadsReturn

\* Whatever the races do to the sets of commands, the interrupt handler completes only commands
\* in flight: the driver aborts for want of a slot, never for a completion nobody waits for.
CompletionsExpected == aborted => submit.at = "test" /\ submit.slot = QueueDepth

\* A slot is handed out, marked as allocated, and not free again before the callback of its
\* command returns.
SlotHeld == \A s \in CmdSlots :
    \/ inFlightCommands[s] # None
    \/ \E k \in DOMAIN workItems : workItems[k].slot = s
    \/ loop.at \in {"callback", "clear", "notify"} /\ loop.item.slot = s
    => s \in busyCommands

\* Every page of the pool is in one place: in a buffer of one command, or in the free list,
\* whose blocks are in order and have no neighbours.  A command in flight has its buffer.
\* (And all variables have their types.)
PagesOf(b) == b.offset .. (b.offset + b.length - 1)
Buffers == {i \in SharedSlots : readCommandBuffers[i] # None}
PoolExact ==
    /\ TypeOK
    /\ \A i, j \in Buffers : i # j =>
          PagesOf(readCommandBuffers[i]) \cap PagesOf(readCommandBuffers[j]) = {}
    /\ UNION {PagesOf(freeList[k]) : k \in DOMAIN freeList}
          = Pages \ UNION {PagesOf(readCommandBuffers[i]) : i \in Buffers}
    /\ \A k \in 1..(Len(freeList) - 1) :
          freeList[k].offset + freeList[k].length < freeList[k + 1].offset
    /\ \A s \in CmdSlots : LET c == inFlightCommands[s] IN
          c # None /\ c # Identify => readCommandBuffers[c.slot] = c.buffer
=============================================================================
