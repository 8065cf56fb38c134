----------------------------- MODULE PortProofs -----------------------------
(***************************************************************************)
(* Proofs about Port for any set of senders and any queue depth: types,    *)
(* in-order delivery, at most one outstanding wake-up, and the wake-up a   *)
(* sleeping receiver can count on.                                         *)
(***************************************************************************)
EXTENDS Port, TLAPS, FiniteSetTheorems, SequenceTheorems

USE DEF SenderGoes, ReceiverGoes, PanicIf, PopsUnblocked

\* Every variable keeps its type, whatever the interleaving of send() and receive().
THEOREM TypeCorrect == Spec => []TypeOK
<1>1. Init => TypeOK
  <2> SUFFICES ASSUME Init PROVE TypeOK
    OBVIOUS
  <2>1. spc \in [Senders -> SenderSteps] /\ sends \in [Senders -> 0..MaxSends]
    BY PortAssumption DEF Init, SenderSteps
  <2>2. messages \in Seq(Messages) /\ sent \in Seq(Messages) /\ received \in Seq(Messages)
    BY EmptySeq DEF Init
  <2>3. unblocked \in Nat
    BY DEF Init
  <2> QED BY <2>1, <2>2, <2>3 DEF Init, TypeOK, ReceiverSteps, Panics
<1>2. TypeOK /\ [Next]_vars => TypeOK'
  <2> SUFFICES ASSUME TypeOK, [Next]_vars PROVE TypeOK'
    OBVIOUS
  <2> USE PortAssumption DEF SenderSteps, ReceiverSteps, Panics, blockerVars,
          threadVars, queueVars
  <2>0. unblocked \in Nat /\ sends \in [Senders -> 0..MaxSends]
    BY DEF TypeOK
  <2>1. ASSUME NEW s \in Senders, SendRejected(s) PROVE TypeOK'
    <3>1. sends' \in [Senders -> 0..MaxSends]
      BY <2>0, <2>1 DEF SendRejected
    <3> QED BY <3>1, <2>1 DEF SendRejected, TypeOK
  <2>2. ASSUME NEW s \in Senders, SendQueued(s) PROVE TypeOK'
    <3>1. <<s, sends[s] + 1>> \in Messages
      BY <2>0, <2>2 DEF SendQueued, Messages
    <3>2. messages' \in Seq(Messages) /\ sent' \in Seq(Messages)
      BY <3>1, <2>2 DEF SendQueued, TypeOK
    <3>3. sends' \in [Senders -> 0..MaxSends]
      BY <2>0, <2>2 DEF SendQueued
    <3> QED BY <3>1, <3>2, <3>3, <2>2 DEF SendQueued, TypeOK
  <2>3. ASSUME NEW s \in Senders, SenderStep(s) PROVE TypeOK'
    <3>1. CASE TestBlocker(s) BY <3>1 DEF TestBlocker, TypeOK
    <3>2. CASE SetUnblockedSignalled(s) BY <3>2 DEF SetUnblockedSignalled, TypeOK
    <3>3. CASE TestBlocking(s) BY <3>3 DEF TestBlocking, TypeOK
    <3>4. CASE TestAndSetSignalled(s) BY <3>4 DEF TestAndSetSignalled, TypeOK
    <3>5. CASE UnblockLock(s) BY <3>5 DEF UnblockLock, TypeOK
    <3>6. CASE UnblockSet(s) BY <3>6 DEF UnblockSet, TypeOK
    <3>7. CASE RequestUnblock(s) BY <3>7 DEF RequestUnblock, TypeOK
    <3>8. CASE EnqueueUnblocked(s)
      <4>1. unblocked' = unblocked + 1 BY <3>8 DEF EnqueueUnblocked
      <4>2. unblocked' \in Nat BY <4>1, <2>0
      <4> QED BY <4>2, <3>8 DEF EnqueueUnblocked, TypeOK
    <3> QED BY <2>3, <3>1, <3>2, <3>3, <3>4, <3>5, <3>6, <3>7, <3>8 DEF SenderStep
  <2>4. ASSUME messages # <<>>, PopMessage
        PROVE messages' \in Seq(Messages) /\ received' \in Seq(Messages) /\ sent' = sent
    <3>1. messages \in Seq(Messages) /\ received \in Seq(Messages)
      BY DEF TypeOK
    <3>2. Head(messages) \in Messages /\ Tail(messages) \in Seq(Messages)
      BY <3>1, <2>4, HeadTailProperties
    <3> QED BY <3>1, <3>2, <2>4 DEF PopMessage
  <2>5. ASSUME NEW w \in Waits, ReceiveFirst(w) PROVE TypeOK'
    <3>1. /\ messages' \in Seq(Messages) /\ received' \in Seq(Messages)
          /\ sent' = sent /\ buffers' \subseteq buffers
      BY <2>5, <2>4 DEF ReceiveFirst, TypeOK
    <3> QED BY <3>1, <2>5 DEF ReceiveFirst, TypeOK
  <2>6. CASE BlockOn BY <2>6 DEF BlockOn, TypeOK
  <2>7. CASE Woken BY <2>7 DEF Woken, TypeOK
  <2>8. CASE ReceiveSecond
    <3>1. /\ messages' \in Seq(Messages) /\ received' \in Seq(Messages)
          /\ sent' = sent /\ buffers' = buffers
      BY <2>8, <2>4 DEF ReceiveSecond, TypeOK
    <3> QED BY <3>1, <2>8 DEF ReceiveSecond, TypeOK
  <2>9. CASE ProcessUnblocked
    <3>0. unblocked > 0 /\ unblocked' = unblocked - 1
      BY <2>9 DEF ProcessUnblocked
    <3>1. unblocked' \in Nat
      BY <3>0, <2>0
    <3>2. CASE blockState = "Blocking" BY <3>1, <3>2, <2>9 DEF ProcessUnblocked, TypeOK
    <3>3. CASE blockState # "Blocking" BY <3>1, <3>3, <2>9 DEF ProcessUnblocked, TypeOK
    <3> QED BY <3>2, <3>3
  <2>10. CASE UNCHANGED vars BY <2>10 DEF vars, TypeOK
  <2> QED
    BY <2>1, <2>2, <2>3, <2>5, <2>6, <2>7, <2>8, <2>9, <2>10 DEF Next, ReceiverStep
<1> QED BY <1>1, <1>2, PTL DEF Spec
----------------------------------------------------------------------------
\* One wake-up at most: the caller that set the flag, or the list, holds it.
At(s, where) == spc[s] = where
WakeupInv ==
    panic = "none" =>
        /\ \A s, u \in Senders : At(s, "enqueue") /\ At(u, "enqueue") => s = u
        /\ \A s \in Senders : At(s, "enqueue") => unblockRequested /\ unblocked = 0
        /\ unblocked \in {0, 1}
        /\ unblocked = 1 => unblockRequested
        /\ unblockRequested => unblocked = 1 \/ \E s \in Senders : At(s, "enqueue")

\* What a sleeping receiver looks like, and who brings the wake-up once signalled
\* is set: a sender that has yet to store "Unblocked", or, after that, the list or
\* a sender on its way to it.
Asleep == state = "Blocked"
SignalCarried ==
    \/ \E s \in Senders : At(s, "unblock") \/ At(s, "locked")
    \/ /\ blockState = "Unblocked"
       /\ unblocked = 1 \/ \E s \in Senders : At(s, "request") \/ At(s, "enqueue")
SleepInv ==
    panic = "none" =>
        /\ Asleep => blocker /\ isBlocking /\ rpc = "yield"
        /\ Asleep => blockState \in {"Blocking", "Unblocked"}
        /\ ~Asleep => ~wakeDue
        /\ Asleep /\ signalled => SignalCarried
        /\ Asleep /\ wakeDue =>
              signalled \/ \E s \in Senders : spc[s] \in {"queued", "check", "signal"}

\* No step of send(), receive() or the scheduler breaks WakeupInv.
LEMMA WakeupInduction == TypeOK /\ WakeupInv /\ [Next]_vars => WakeupInv'
<1> SUFFICES ASSUME TypeOK, WakeupInv, [Next]_vars, panic' = "none" PROVE WakeupInv'
  BY DEF WakeupInv
<1>0. /\ spc \in [Senders -> SenderSteps] /\ unblocked \in Nat
      /\ unblockRequested \in BOOLEAN
  BY DEF TypeOK
<1>a. CASE UNCHANGED <<spc, unblocked, unblockRequested, panic>>
  BY <1>a DEF WakeupInv, At
<1>b. ASSUME NEW s \in Senders, NEW from, NEW to, SenderGoes(s, from, to),
             from # "enqueue", to # "enqueue",
             UNCHANGED <<unblocked, unblockRequested>>
      PROVE WakeupInv'
  BY <1>0, <1>b DEF WakeupInv, At
<1>1. ASSUME NEW s \in Senders, SendRejected(s) \/ SendQueued(s) PROVE WakeupInv'
  BY <1>1, <1>b DEF SendRejected, SendQueued, threadVars
<1>2. ASSUME NEW s \in Senders, SenderStep(s) PROVE WakeupInv'
  <2>1. CASE TestBlocker(s) \/ SetUnblockedSignalled(s) \/ TestBlocking(s)
             \/ TestAndSetSignalled(s)
    BY <2>1, <1>b DEF TestBlocker, SetUnblockedSignalled, TestBlocking,
       TestAndSetSignalled, threadVars
  <2>2. CASE UnblockLock(s) \/ UnblockSet(s)
    BY <2>2, <1>b DEF UnblockLock, UnblockSet
  <2>3. CASE RequestUnblock(s)
    BY <2>3, <1>0 DEF RequestUnblock, WakeupInv, At
  <2>4. CASE EnqueueUnblocked(s)
    BY <2>4, <1>0 DEF EnqueueUnblocked, WakeupInv, At
  <2> QED BY <1>2, <2>1, <2>2, <2>3, <2>4 DEF SenderStep
<1>3. CASE ProcessUnblocked
  BY <1>3, <1>0 DEF ProcessUnblocked, WakeupInv, At
<1>4. CASE ReceiverStep \/ (\E w \in Waits : ReceiveFirst(w))
  BY <1>4, <1>0 DEF ReceiverStep, BlockOn, Woken, ReceiveSecond, ReceiveFirst, threadVars,
     WakeupInv, At
<1>5. CASE UNCHANGED vars
  BY <1>5, <1>a DEF vars, threadVars
<1> QED BY <1>1, <1>2, <1>3, <1>4, <1>5 DEF Next

\* threadUnblocked() and processUnblockedThreads() never have two wake-ups of a
\* thread outstanding, whatever the number of senders.
THEOREM OneWakeupAlways == Spec => []OneWakeup
<1>1. Init => WakeupInv
  BY DEF Init, WakeupInv, At
<1>2. TypeOK /\ WakeupInv => OneWakeup
  <2> SUFFICES ASSUME TypeOK, WakeupInv, panic = "none" PROVE OneWakeup
    BY DEF OneWakeup
  <2> DEFINE E == {s \in Senders : spc[s] = "enqueue"}
  <2>1. CASE E = {}
    <3>1. Cardinality(E) = 0 BY <2>1, FS_EmptySet
    <3>2. unblocked = IF unblockRequested THEN 1 ELSE 0
      BY <2>1 DEF WakeupInv, At, TypeOK
    <3> QED BY <3>1, <3>2 DEF OneWakeup
  <2>2. CASE E # {}
    <3>1. PICK s \in Senders : E = {s}
      BY <2>2 DEF WakeupInv, At
    <3>2. Cardinality(E) = 1 BY <3>1, FS_Singleton
    <3>3. unblockRequested /\ unblocked = 0
      BY <3>1 DEF WakeupInv, At
    <3> QED BY <3>2, <3>3 DEF OneWakeup
  <2> QED BY <2>1, <2>2
<1> QED BY <1>1, <1>2, TypeCorrect, WakeupInduction, PTL DEF Spec

\* No step breaks SleepInv, given that at most one wake-up is outstanding.
LEMMA SleepInduction == TypeOK /\ WakeupInv /\ SleepInv /\ [Next]_vars => SleepInv'
<1> SUFFICES ASSUME TypeOK, WakeupInv, SleepInv, [Next]_vars, panic' = "none"
             PROVE SleepInv'
  BY DEF SleepInv
<1>0. /\ spc \in [Senders -> SenderSteps] /\ unblocked \in Nat
      /\ state \in {"Runnable", "Blocked"}
      /\ {signalled, blocker, isBlocking, wakeDue, unblockRequested} \subseteq BOOLEAN
  BY DEF TypeOK
<1> USE DEF At, Asleep, SenderSteps
<1>1. ASSUME NEW s \in Senders, SendRejected(s) PROVE SleepInv'
  BY <1>1, <1>0 DEF SendRejected, SleepInv, SignalCarried, blockerVars, threadVars
<1>2. ASSUME NEW s \in Senders, SendQueued(s) PROVE SleepInv'
  BY <1>2, <1>0 DEF SendQueued, SleepInv, SignalCarried, blockerVars, threadVars
<1>3. ASSUME NEW s \in Senders, SenderStep(s) PROVE SleepInv'
  <2>1. CASE TestBlocker(s)
    BY <2>1, <1>0 DEF TestBlocker, SleepInv, SignalCarried, blockerVars, threadVars
  <2>2. CASE SetUnblockedSignalled(s)
    BY <2>2, <1>0 DEF SetUnblockedSignalled, SleepInv, SignalCarried, threadVars
  <2>3. CASE TestBlocking(s)
    BY <2>3, <1>0 DEF TestBlocking, SleepInv, SignalCarried, blockerVars, threadVars
  <2>4. CASE TestAndSetSignalled(s)
    BY <2>4, <1>0 DEF TestAndSetSignalled, SleepInv, SignalCarried, threadVars
  <2>5. CASE UnblockLock(s)
    BY <2>5, <1>0 DEF UnblockLock, SleepInv, SignalCarried, blockerVars
  <2>6. CASE UnblockSet(s)
    BY <2>6, <1>0 DEF UnblockSet, SleepInv, SignalCarried, blockerVars
  <2>7. CASE RequestUnblock(s)
    BY <2>7, <1>0 DEF RequestUnblock, SleepInv, SignalCarried, WakeupInv, blockerVars
  <2>8. CASE EnqueueUnblocked(s)
    BY <2>8, <1>0 DEF EnqueueUnblocked, SleepInv, SignalCarried, WakeupInv, blockerVars
  <2> QED BY <1>3, <2>1, <2>2, <2>3, <2>4, <2>5, <2>6, <2>7, <2>8 DEF SenderStep
<1>4. CASE ProcessUnblocked
  BY <1>4, <1>0 DEF ProcessUnblocked, SleepInv, SignalCarried, WakeupInv, blockerVars
<1>5. ASSUME NEW w \in Waits, ReceiveFirst(w) PROVE SleepInv'
  BY <1>5, <1>0 DEF ReceiveFirst, SleepInv, threadVars
<1>6. CASE BlockOn
  BY <1>6, <1>0 DEF BlockOn, WillBlockOn, SleepInv
<1>7. CASE Woken
  BY <1>7, <1>0 DEF Woken, SleepInv
<1>8. CASE ReceiveSecond
  BY <1>8, <1>0 DEF ReceiveSecond, SleepInv, threadVars, blockerVars
<1>9. CASE UNCHANGED vars
  BY <1>9 DEF vars, SleepInv, SignalCarried, threadVars, blockerVars
<1> QED
  BY <1>1, <1>2, <1>3, <1>4, <1>5, <1>6, <1>7, <1>8, <1>9 DEF Next, ReceiverStep

\* A receiver that was asleep when a message was queued always has a wake-up on
\* the way: on the unblocked list, or in the hands of a sender.
THEOREM SleeperAlwaysWakes == Spec => []SleeperWakes
<1>1. Init => WakeupInv /\ SleepInv
  BY DEF Init, WakeupInv, SleepInv, At, Asleep
<1>2. TypeOK /\ SleepInv => SleeperWakes
  BY DEF SleepInv, SleeperWakes, SignalCarried, Asleep, At, Waking, SenderSteps
<1> QED
  BY <1>1, <1>2, TypeCorrect, WakeupInduction, SleepInduction, PTL DEF Spec
----------------------------------------------------------------------------
\* Moving the head of a queue to the end of what was received changes nothing.
LEMMA MoveHead ==
  ASSUME NEW S, NEW r \in Seq(S), NEW m \in Seq(S), m # <<>>
  PROVE  /\ Append(r, Head(m)) \o Tail(m) = r \o m
         /\ Len(Tail(m)) = Len(m) - 1
BY HeadTailProperties

\* Queueing at the back is appending to what was sent.
LEMMA AppendConcat ==
  ASSUME NEW S, NEW r \in Seq(S), NEW m \in Seq(S), NEW e \in S
  PROVE  r \o Append(m, e) = Append(r \o m, e)
OBVIOUS

\* Every queued message is delivered once, in order, and the queue keeps its depth.
THEOREM AlwaysInOrder == Spec => []DeliveredInOrder
<1>1. Init => DeliveredInOrder
  BY PortAssumption DEF Init, DeliveredInOrder
<1>2. TypeOK /\ DeliveredInOrder /\ [Next]_vars => DeliveredInOrder'
  <2> SUFFICES ASSUME TypeOK, DeliveredInOrder, [Next]_vars PROVE DeliveredInOrder'
    OBVIOUS
  <2>0. /\ messages \in Seq(Messages) /\ sent \in Seq(Messages)
        /\ received \in Seq(Messages) /\ sends \in [Senders -> 0..MaxSends]
    BY DEF TypeOK
  <2>1. ASSUME UNCHANGED queueVars PROVE DeliveredInOrder'
    BY <2>1 DEF queueVars, DeliveredInOrder
  <2>2. ASSUME messages # <<>>, PopMessage PROVE DeliveredInOrder'
    <3>1. /\ received' = Append(received, Head(messages)) /\ messages' = Tail(messages)
          /\ sent' = sent
      BY <2>2 DEF PopMessage
    <3>2. received' \o messages' = received \o messages /\ Len(messages') = Len(messages) - 1
      BY <2>0, <2>2, <3>1, MoveHead
    <3>3. maxMessages # 0 => Len(messages') <= maxMessages
      <4>1. Len(messages) \in Nat /\ maxMessages \in Nat
        BY <2>0, LenProperties, PortAssumption
      <4>2. maxMessages # 0 => Len(messages) <= maxMessages
        BY DEF DeliveredInOrder
      <4>3. Len(messages') = Len(messages) - 1
        BY <3>2
      <4> QED BY <4>1, <4>2, <4>3
    <3> QED BY <3>1, <3>2, <3>3 DEF DeliveredInOrder
  <2>3. ASSUME NEW s \in Senders, SendQueued(s) PROVE DeliveredInOrder'
    <3> DEFINE m == <<s, sends[s] + 1>>
    <3>1. /\ messages' = Append(messages, m) /\ sent' = Append(sent, m)
          /\ received' = received /\ ~QueueFull /\ sends[s] < MaxSends
      BY <2>3 DEF SendQueued
    <3>2. m \in Messages
      BY <2>0, <3>1, PortAssumption DEF Messages
    <3> HIDE DEF m
    <3>3. received' \o messages' = sent'
      BY <2>0, <3>1, <3>2, AppendConcat DEF DeliveredInOrder
    <3>4. maxMessages # 0 => Len(messages') <= maxMessages
      BY <2>0, <3>1, <3>2, PortAssumption DEF QueueFull
    <3> QED BY <3>3, <3>4 DEF DeliveredInOrder
  <2>4. ASSUME NEW s \in Senders, SendRejected(s) \/ SenderStep(s) PROVE DeliveredInOrder'
    BY <2>4, <2>1 DEF SendRejected, SenderStep, TestBlocker, SetUnblockedSignalled,
       TestBlocking, TestAndSetSignalled, UnblockLock, UnblockSet, RequestUnblock,
       EnqueueUnblocked
  <2>5. ASSUME NEW w \in Waits, ReceiveFirst(w) PROVE DeliveredInOrder'
    BY <2>5, <2>1, <2>2 DEF ReceiveFirst
  <2>6. CASE ReceiverStep
    BY <2>6, <2>1, <2>2 DEF ReceiverStep, BlockOn, Woken, ReceiveSecond
  <2>7. CASE ProcessUnblocked
    BY <2>7, <2>1 DEF ProcessUnblocked
  <2>8. CASE UNCHANGED vars
    BY <2>8, <2>1 DEF vars
  <2> QED BY <2>3, <2>4, <2>5, <2>6, <2>7, <2>8 DEF Next
<1> QED BY <1>1, <1>2, TypeCorrect, PTL DEF Spec
============================================================================
