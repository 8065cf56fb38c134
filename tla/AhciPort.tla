------------------------------ MODULE AhciPort ------------------------------
(***************************************************************************)
(* A port of the AHCI driver (user/drivers/ahci: Port.cpp, Controller.cpp).*)
(* One thread submits commands: main(), which probes the port, and then    *)
(* the RPC server, which main()'s command starts.  The work loop handles   *)
(* the interrupts and calls back.  The host bus adapter, which executes    *)
(* what is issued, is external.                                            *)
(*                                                                         *)
(* The sets of commands are plain words both threads change, each with a   *)
(* load and a store, between which the other may run: the driver is built  *)
(* without optimisation.  Only what is done under inFlightCommandsLock is  *)
(* one step.                                                               *)
(*                                                                         *)
(* The adapter clears the issue bit of a command it is done with, as       *)
(* handleIrq() takes for granted; a command that fails may stop it instead,*)
(* its bit still set, and nothing in the driver starts it again.           *)
(***************************************************************************)
EXTENDS Integers, Sequences, FiniteSets, BufferPool

CONSTANTS QueueDepth,             \* command slots of the adapter
          kCommandTableNumPrds,   \* extents a command may have
          Outcomes,               \* how commands may end
          None

CmdSlots == 0..(QueueDepth - 1)

ASSUME PortAssumption ==
    QueueDepth \in Nat \ {0} /\ Outcomes \subseteq {"success", "failure", "halt"}

VARIABLES busyCommands, outstandingCommands, dmaCommands, pioCommands,
          inFlightCommands,    \* the command in each slot
          cmdTables,           \* what the adapter is to execute there
          cmdIssue, irqStatus, \* registers of the port
          received,            \* whether the last FIS of each kind reports success
          bits, workItems,     \* notifications to the work loop, and its queue
          submit,              \* the submitter: where it is, and its command
          loop,                \* the work loop, likewise
          halted,              \* the adapter has stopped
          aborted              \* the driver has given up

setVars == <<busyCommands, outstandingCommands, dmaCommands, pioCommands>>
hbaVars == <<cmdTables, cmdIssue, irqStatus, received, halted>>
portVars == <<setVars, inFlightCommands, hbaVars, bits, workItems, submit, loop, aborted>>

\* IDENTIFY, whose result comes by PIO; the other commands are reads, by DMA.
Identify == [kind |-> "pio", slot |-> None, sector |-> 0, buffer |-> Block(0, 1)]

Resting == [at |-> "idle", cmd |-> None, copy |-> {}, slot |-> 0]
Submitting(cmd) == [at |-> "test", cmd |-> cmd, copy |-> {}, slot |-> 0]
Waiting == [at |-> "receive", bits |-> {}, is |-> {}, ci |-> {}, kind |-> "dma", todo |-> {},
            item |-> None, copy |-> {}]

InitPort ==
    /\ busyCommands = {} /\ outstandingCommands = {} /\ dmaCommands = {} /\ pioCommands = {}
    /\ inFlightCommands = [s \in CmdSlots |-> None]
    /\ cmdTables = [s \in CmdSlots |-> None]
    /\ cmdIssue = {} /\ irqStatus = {}
    /\ received = [k \in {"dma", "pio"} |-> TRUE]
    /\ bits = {} /\ workItems = <<>>
    /\ submit = Submitting(Identify)
    /\ loop = Waiting
    /\ halted = FALSE /\ aborted = FALSE

SubmitAt(at) == ~aborted /\ submit.at = at
LoopAt(at) == ~aborted /\ loop.at = at
----------------------------------------------------------------------------
\* submitAtaCommand(): allocCommandSlot() looks at one slot after the other for one that is
\* not busy, and aborts if there is none ...
IsFree(s) == s \notin busyCommands
AllocCommandSlot ==
    LET s == submit.slot IN
    /\ SubmitAt("test")
    /\ aborted' = (s = QueueDepth)
    /\ submit' = CASE s = QueueDepth -> submit
                   [] s # QueueDepth /\ IsFree(s) -> [submit EXCEPT !.at = "load"]
                   [] OTHER -> [submit EXCEPT !.slot = s + 1]
    /\ UNCHANGED <<setVars, inFlightCommands, hbaVars, bits, workItems, loop>>

\* ... which it then marks busy ...
LoadBusy ==
    /\ SubmitAt("load")
    /\ submit' = [submit EXCEPT !.at = "store", !.copy = busyCommands]
    /\ UNCHANGED <<setVars, inFlightCommands, hbaVars, bits, workItems, loop, aborted>>
StoreBusy ==
    /\ SubmitAt("store")
    /\ busyCommands' = submit.copy \cup {submit.slot}
    /\ submit' = [submit EXCEPT !.at = "build", !.copy = {}]
    /\ UNCHANGED <<outstandingCommands, dmaCommands, pioCommands, inFlightCommands, hbaVars, bits,
                   workItems, loop, aborted>>

\* ... and the command is built there, if it has few enough extents.
BuildCommand ==
    /\ SubmitAt("build")
    /\ cmdTables' = [cmdTables EXCEPT ![submit.slot] = submit.cmd]
    /\ submit' = [submit EXCEPT !.at = IF submit.cmd.buffer.length > kCommandTableNumPrds
                                       THEN "failed" ELSE "record"]
    /\ UNCHANGED <<setVars, inFlightCommands, cmdIssue, irqStatus, received, halted, bits,
                   workItems, loop, aborted>>

\* submitCommand(): the records under the lock ...
RecordCommand ==
    /\ SubmitAt("record")
    /\ outstandingCommands' = outstandingCommands \cup {submit.slot}
    /\ inFlightCommands' = [inFlightCommands EXCEPT ![submit.slot] = submit.cmd]
    /\ submit' = [submit EXCEPT !.at = "mark"]
    /\ UNCHANGED <<busyCommands, dmaCommands, pioCommands, hbaVars, bits, workItems, loop, aborted>>

\* ... how it transfers ...
Commands(kind) == IF kind = "dma" THEN dmaCommands ELSE pioCommands
StoreCommands(kind, words) ==
    /\ dmaCommands' = IF kind = "dma" THEN words ELSE dmaCommands
    /\ pioCommands' = IF kind = "pio" THEN words ELSE pioCommands

TransfersByPio(cmd) == "pio"
TransfersBy(cmd) == cmd.kind
LoadMark ==
    /\ SubmitAt("mark")
    /\ submit' = [submit EXCEPT !.at = "marked", !.copy = Commands(TransfersBy(submit.cmd))]
    /\ UNCHANGED <<setVars, inFlightCommands, hbaVars, bits, workItems, loop, aborted>>
MarkCommand ==
    /\ SubmitAt("marked")
    /\ StoreCommands(TransfersBy(submit.cmd), submit.copy \cup {submit.slot})
    /\ submit' = [submit EXCEPT !.at = "issue", !.copy = {}]
    /\ UNCHANGED <<busyCommands, outstandingCommands, inFlightCommands, hbaVars, bits, workItems,
                   loop, aborted>>

\* ... and the register that starts it.
IssueCommand ==
    /\ SubmitAt("issue")
    /\ cmdIssue' = cmdIssue \cup {submit.slot}
    /\ submit' = Resting
    /\ UNCHANGED <<setVars, inFlightCommands, cmdTables, irqStatus, received, halted, bits,
                   workItems, loop, aborted>>
----------------------------------------------------------------------------
\* The adapter has executed a command, well or not, and interrupts.
Execute(s, outcome) ==
    /\ ~aborted /\ ~halted /\ s \in cmdIssue
    /\ halted' = (outcome = "halt")
    /\ cmdIssue' = IF outcome = "halt" THEN cmdIssue ELSE cmdIssue \ {s}
    /\ irqStatus' = irqStatus \cup {cmdTables[s].kind}
    /\ received' = [received EXCEPT ![cmdTables[s].kind] = (outcome = "success")]
    /\ bits' = bits \cup {"irq"}
    /\ UNCHANGED <<setVars, inFlightCommands, cmdTables, workItems, submit, loop, aborted>>
----------------------------------------------------------------------------
\* workLoopMain(): wait for an interrupt or for work.
Receive ==
    /\ LoopAt("receive") /\ bits # {}
    /\ bits' = {}
    /\ loop' = [loop EXCEPT !.at = IF "irq" \in bits THEN "irq" ELSE "work", !.bits = bits]
    /\ UNCHANGED <<setVars, inFlightCommands, hbaVars, workItems, submit, aborted>>

\* handleIrq() acknowledges the interrupt ...
AcknowledgeIrq ==
    /\ LoopAt("irq")
    /\ loop' = [loop EXCEPT !.at = "issued", !.is = irqStatus]
    /\ irqStatus' = {}
    /\ UNCHANGED <<setVars, inFlightCommands, cmdTables, cmdIssue, received, halted, bits,
                   workItems, submit, aborted>>

\* ... reads which commands the adapter still has ...
ReadCmdIssue ==
    /\ LoopAt("issued")
    /\ loop' = [loop EXCEPT !.at = "outstanding", !.ci = cmdIssue]
    /\ UNCHANGED <<setVars, inFlightCommands, hbaVars, bits, workItems, submit, aborted>>

\* ... and takes the outstanding ones it does not have for completed.
NotIssued(ci) == CmdSlots \ ci
CompletedCmds(ci) == outstandingCommands \ ci
FindCompleted ==
    /\ LoopAt("outstanding")
    /\ loop' = [loop EXCEPT !.at = "select", !.ci = CompletedCmds(loop.ci)]
    /\ UNCHANGED <<setVars, inFlightCommands, hbaVars, bits, workItems, submit, aborted>>

\* Those that transfer by DMA if a register FIS came, then those by PIO if a setup FIS did.
AfterSelect == [loop EXCEPT !.kind = "pio",
                            !.at = IF loop.kind = "dma" THEN "select" ELSE "work"]
SelectCompleted ==
    LET todo == loop.ci \cap Commands(loop.kind) IN
    /\ LoopAt("select")
    /\ loop' = IF loop.kind \notin loop.is \/ todo = {} THEN AfterSelect
               ELSE [loop EXCEPT !.at = "complete", !.todo = todo]
    /\ UNCHANGED <<setVars, inFlightCommands, hbaVars, bits, workItems, submit, aborted>>

\* completeCommand(): under the lock, the callback becomes a work item.
SucceedsAlways(kind) == TRUE
Succeeds(kind) == received[kind]
CompleteCommand ==
    LET s == Min(loop.todo)
        cmd == inFlightCommands[s]
    IN  /\ LoopAt("complete")
        /\ IF cmd = None
           THEN aborted' = TRUE
                /\ UNCHANGED <<workItems, bits, inFlightCommands, outstandingCommands, loop>>
           ELSE /\ workItems' = Append(workItems, [cmd |-> cmd, slot |-> s,
                                                   success |-> Succeeds(loop.kind)])
                /\ bits' = bits \cup {"work"}
                /\ inFlightCommands' = [inFlightCommands EXCEPT ![s] = None]
                /\ outstandingCommands' = outstandingCommands \ {s}
                /\ loop' = [loop EXCEPT !.at = "unmark"]
                /\ UNCHANGED aborted
        /\ UNCHANGED <<busyCommands, dmaCommands, pioCommands, hbaVars, submit>>

\* The mark goes, too, after the lock is released.
LoadUnmark ==
    /\ LoopAt("unmark")
    /\ loop' = [loop EXCEPT !.at = "unmarked", !.copy = Commands(loop.kind)]
    /\ UNCHANGED <<setVars, inFlightCommands, hbaVars, bits, workItems, submit, aborted>>
UnmarkCommand ==
    LET s == Min(loop.todo)
        left == [loop EXCEPT !.todo = @ \ {s}]
    IN  /\ LoopAt("unmarked")
        /\ StoreCommands(loop.kind, loop.copy \ {s})
        /\ loop' = IF left.todo # {} THEN [left EXCEPT !.at = "complete", !.copy = {}]
                   ELSE [AfterSelect EXCEPT !.todo = {}, !.copy = {}]
        /\ UNCHANGED <<busyCommands, outstandingCommands, inFlightCommands, hbaVars, bits,
                       workItems, submit, aborted>>

\* handleWorkQueue(), if there was work in the notification: the next item, or none ...
NextWorkItem ==
    /\ LoopAt("work")
    /\ IF "work" \in loop.bits /\ workItems # <<>>
       THEN /\ loop' = [Waiting EXCEPT !.at = "callback", !.bits = loop.bits,
                                       !.item = Head(workItems)]
            /\ workItems' = Tail(workItems)
       ELSE loop' = Waiting /\ UNCHANGED workItems
    /\ UNCHANGED <<setVars, inFlightCommands, hbaVars, bits, submit, aborted>>

\* ... whose callback done, the slot may be used again.
LoadFree ==
    /\ LoopAt("free")
    /\ loop' = [loop EXCEPT !.at = "freed", !.copy = busyCommands]
    /\ UNCHANGED <<setVars, inFlightCommands, hbaVars, bits, workItems, submit, aborted>>
FreeCommandSlot ==
    /\ LoopAt("freed")
    /\ busyCommands' = loop.copy \ {loop.item.slot}
    /\ loop' = [loop EXCEPT !.at = "work", !.item = None, !.copy = {}]
    /\ UNCHANGED <<outstandingCommands, dmaCommands, pioCommands, inFlightCommands, hbaVars, bits,
                   workItems, submit, aborted>>
=============================================================================
