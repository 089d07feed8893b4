-------------------------- MODULE TaskQueueProofs --------------------------
(***************************************************************************)
(* Proofs about one routing queue, for every set of tasks and producers.   *)
(***************************************************************************)
EXTENDS TaskQueue, TLAPS

\* The lock has at most one holder: a thread is between acquire and release
\* exactly when QueueLock names it.
LockInv ==
  /\ \A p \in Producers : queueLock = p <=> pc[p] # "idle"
  /\ queueLock = Router <=> pc[Router] \in {"test", "count", "release"}
  /\ queueLock # Stopper

\* A producer links a task, never NULL or a list head.
ItemInv ==
  /\ \A p \in Producers : item[p] # ListHead
  /\ \A p \in Producers : pc[p] = "link" => item[p] \in Tasks
  /\ item[Router] # ListHead
  /\ pc[Router] = "count" => item[Router] \in Tasks
  /\ item[Stopper] # ListHead

\* The counter lags behind the list only inside a critical section.
CountInv ==
  pc[Stopper] # "done" =>
    /\ pc[Router] = "count" => itemCounts = Len(queueLink) + 1
    /\ \A p \in Producers : pc[p] = "count" => itemCounts + 1 = Len(queueLink)
    /\ pc[Router] # "count" /\ (\A p \in Producers : pc[p] # "count")
         => itemCounts = Len(queueLink)

\* The event follows the counter but for the statement that sets it.
EventInv ==
  pc[Stopper] # "done" =>
    /\ \A p \in Producers : pc[p] = "signal" => itemCounts > 0
    /\ (\A p \in Producers : pc[p] # "signal") => (dataEnqueueEvent <=> itemCounts > 0)

\* A routing thread woken up without a stop signal finds a task, because it
\* is the only thread that dequeues.
WakeInv ==
  pc[Router] \in {"acquire", "test"} /\ ~stopSignal => itemCounts > 0

\* Once drained, nothing runs any more.
StopInv ==
  /\ pc[Stopper] \in {"join", "done"} => stopSignal
  /\ pc[Stopper] = "done" => pc[Router] = "exit" /\ \A p \in Producers : pc[p] = "idle"

IInv ==
  /\ TypeOK /\ LockInv /\ ItemInv /\ CountInv /\ EventInv /\ WakeInv /\ StopInv
  /\ NullOnlyOnStop

-----------------------------------------------------------------------------
\* The initial state satisfies the inductive invariant.
LEMMA InitIInv == Init => IInv
<1> SUFFICES ASSUME Init PROVE IInv
  OBVIOUS
<1> USE ThreadsAssumption, TasksAssumption
    DEF Init, Threads, ProducerLabels, RouterLabels, StopperLabels
<1>1. TypeOK
  <2>1. pc \in [Threads -> ProducerLabels \cup RouterLabels \cup StopperLabels]
    OBVIOUS
  <2>2. /\ \A p \in Producers : pc[p] \in ProducerLabels
        /\ pc[Router] \in RouterLabels /\ pc[Stopper] \in StopperLabels
    OBVIOUS
  <2>3. item \in [Threads -> Tasks \cup {NULL, ListHead}]
    OBVIOUS
  <2>4. queueLink \in Seq(Tasks) /\ taken \in Seq(Tasks \cup {ListHead})
    OBVIOUS
  <2>5. QED
    BY <2>1, <2>2, <2>3, <2>4 DEF TypeOK
<1>2. LockInv /\ ItemInv
  BY DEF LockInv, ItemInv
<1>3. CountInv /\ EventInv /\ WakeInv /\ StopInv /\ NullOnlyOnStop
  BY DEF CountInv, EventInv, WakeInv, StopInv, NullOnlyOnStop
<1>4. QED
  BY <1>1, <1>2, <1>3 DEF IInv

\* Enqueue preserves the inductive invariant.
LEMMA ProducerIInv ==
  ASSUME IInv, NEW p \in Producers, Producer(p)
  PROVE  IInv'
<1> USE ThreadsAssumption, TasksAssumption
    DEF IInv, TypeOK, Threads, ProducerLabels, RouterLabels, StopperLabels,
            queueVars, stopVars, Goto, Acquire, Release
<1>1. CASE EnqueueAcquire(p)
  BY <1>1 DEF EnqueueAcquire, LockInv, ItemInv, CountInv, EventInv, WakeInv, StopInv,
      NullOnlyOnStop
<1>2. CASE EnqueueLink(p)
  <2> USE <1>2 DEF EnqueueLink
  <2>1. item[p] \in Tasks
    BY DEF ItemInv
  <2>2. queueLink' \in Seq(Tasks) /\ Len(queueLink') = Len(queueLink) + 1
    BY <2>1
  <2>3. TypeOK'
    BY <2>2
  <2>4. LockInv' /\ ItemInv'
    BY DEF LockInv, ItemInv
  <2>5. CountInv'
    BY <2>2 DEF CountInv, LockInv
  <2>6. EventInv' /\ WakeInv' /\ StopInv' /\ NullOnlyOnStop'
    BY DEF EventInv, WakeInv, StopInv, NullOnlyOnStop
  <2>7. QED
    BY <2>3, <2>4, <2>5, <2>6
<1>3. CASE EnqueueCount(p)
  BY <1>3 DEF EnqueueCount, LockInv, ItemInv, CountInv, EventInv, WakeInv, StopInv,
      NullOnlyOnStop
<1>4. CASE EnqueueSignal(p)
  BY <1>4 DEF EnqueueSignal, LockInv, ItemInv, CountInv, EventInv, WakeInv, StopInv,
      NullOnlyOnStop
<1>5. CASE EnqueueRelease(p)
  BY <1>5 DEF EnqueueRelease, LockInv, ItemInv, CountInv, EventInv, WakeInv, StopInv,
      NullOnlyOnStop
<1>6. QED
  BY <1>1, <1>2, <1>3, <1>4, <1>5 DEF Producer

\* The loop of the routing thread and Dequeue preserve it.
LEMMA RouterIInv ==
  ASSUME IInv, Routing
  PROVE  IInv'
<1> USE ThreadsAssumption, TasksAssumption
    DEF IInv, TypeOK, Threads, ProducerLabels, RouterLabels, StopperLabels,
        queueVars, stopVars, Goto, Acquire, Release
<1>1. CASE TestThreadFlag
  BY <1>1 DEF TestThreadFlag, LockInv, ItemInv, CountInv, EventInv, WakeInv, StopInv,
      NullOnlyOnStop
<1>2. CASE Wake
  BY <1>2 DEF Wake, LockInv, ItemInv, CountInv, EventInv, WakeInv, StopInv, NullOnlyOnStop
<1>3. CASE DequeueAcquire
  BY <1>3 DEF DequeueAcquire, LockInv, ItemInv, CountInv, EventInv, WakeInv, StopInv,
      NullOnlyOnStop
<1>4. CASE DequeueEmpty
  <2> USE <1>4 DEF DequeueEmpty
  <2>1. TypeOK'
    OBVIOUS
  <2>2. LockInv' /\ ItemInv' /\ CountInv'
    BY DEF LockInv, ItemInv, CountInv
  <2>3. \A p \in Producers : pc[p] = "idle"
    BY DEF LockInv
  <2>4. EventInv' /\ WakeInv' /\ StopInv' /\ NullOnlyOnStop'
    BY <2>3 DEF EventInv, WakeInv, StopInv, NullOnlyOnStop
  <2>5. QED
    BY <2>1, <2>2, <2>4
<1>5. CASE DequeueUnlink
  <2> USE <1>5 DEF DequeueUnlink
  <2>1. pc[Stopper] # "done" /\ \A p \in Producers : pc[p] = "idle"
    BY DEF StopInv, LockInv
  <2>2. queueLink # <<>>
    BY <2>1 DEF CountInv
  <2>3. /\ item' = [item EXCEPT ![Router] = Head(queueLink)]
        /\ Head(queueLink) \in Tasks
        /\ queueLink' = Tail(queueLink) /\ queueLink' \in Seq(Tasks)
        /\ Len(queueLink) = Len(queueLink') + 1
    BY <2>2
  <2>4. TypeOK'
    BY <2>3
  <2>5. LockInv' /\ ItemInv'
    BY <2>3 DEF LockInv, ItemInv
  <2>6. CountInv' /\ EventInv'
    BY <2>1, <2>3 DEF CountInv, EventInv
  <2>7. WakeInv' /\ StopInv' /\ NullOnlyOnStop'
    BY DEF WakeInv, StopInv, NullOnlyOnStop
  <2>8. QED
    BY <2>4, <2>5, <2>6, <2>7
<1>6. CASE DequeueCount
  <2> USE <1>6 DEF DequeueCount
  <2>1. /\ pc[Stopper] # "done" /\ \A p \in Producers : pc[p] = "idle"
        /\ itemCounts = Len(queueLink) + 1 /\ itemCounts > 0
    BY DEF StopInv, LockInv, CountInv
  <2>2. itemCounts' \in Nat /\ itemCounts' = Len(queueLink)
    BY <2>1
  <2>3. TypeOK'
    BY <2>2
  <2>4. LockInv' /\ ItemInv' /\ CountInv'
    BY <2>1, <2>2 DEF LockInv, ItemInv, CountInv
  <2>5. dataEnqueueEvent' <=> itemCounts' > 0
    BY <2>1, <2>2 DEF EventInv
  <2>6. EventInv' /\ WakeInv' /\ StopInv'
    BY <2>1, <2>5 DEF EventInv, WakeInv, StopInv
  <2>7. NullOnlyOnStop'
    BY <2>1 DEF NullOnlyOnStop, ItemInv
  <2>8. QED
    BY <2>3, <2>4, <2>6, <2>7
<1>7. CASE DequeueRelease
  BY <1>7 DEF DequeueRelease, LockInv, ItemInv, CountInv, EventInv, WakeInv, StopInv,
      NullOnlyOnStop
<1>8. CASE Handle
  BY <1>8 DEF Handle, LockInv, ItemInv, CountInv, EventInv, WakeInv, StopInv,
      NullOnlyOnStop
<1>9. QED
  BY <1>1, <1>2, <1>3, <1>4, <1>5, <1>6, <1>7, <1>8 DEF Routing

\* StopRoutingEngine preserves it.
LEMMA StopperIInv ==
  ASSUME IInv, Stopping
  PROVE  IInv'
<1> USE ThreadsAssumption, TasksAssumption
    DEF IInv, TypeOK, Threads, ProducerLabels, RouterLabels, StopperLabels,
        queueVars, stopVars, Goto
<1>1. CASE StopClearFlag
  BY <1>1 DEF StopClearFlag, LockInv, ItemInv, CountInv, EventInv, WakeInv, StopInv,
      NullOnlyOnStop
<1>2. CASE StopSetSignal
  BY <1>2 DEF StopSetSignal, LockInv, ItemInv, CountInv, EventInv, WakeInv, StopInv,
      NullOnlyOnStop
<1>3. CASE StopDrain
  BY <1>3 DEF StopDrain, LockInv, ItemInv, CountInv, EventInv, WakeInv, StopInv,
      NullOnlyOnStop
<1>4. QED
  BY <1>1, <1>2, <1>3 DEF Stopping

\* Every step preserves the inductive invariant.
LEMMA NextIInv == IInv /\ [Next]_vars => IInv'
<1> SUFFICES ASSUME IInv, [Next]_vars PROVE IInv'
  OBVIOUS
<1>1. CASE UNCHANGED vars
  BY <1>1 DEF vars, IInv, TypeOK, LockInv, ItemInv, CountInv, EventInv, WakeInv, StopInv,
      NullOnlyOnStop
<1>2. CASE Next
  BY <1>1, <1>2, ProducerIInv, RouterIInv, StopperIInv DEF Next, Terminated
<1>3. QED
  BY <1>1, <1>2

\* The inductive invariant holds in every reachable state.
THEOREM InductiveInvariant == Spec => []IInv
  BY InitIInv, NextIInv, PTL DEF Spec

-----------------------------------------------------------------------------
\* Type correctness, for every set of tasks and of producers.
THEOREM TypeCorrect == Spec => []TypeOK
<1>1. IInv => TypeOK
  BY DEF IInv
<1>2. QED
  BY <1>1, InductiveInvariant, PTL

\* The counter, the event and the list agree whenever the lock is free.
THEOREM CountAndEventCorrect == Spec => []CountAndEventMatchList
<1>1. IInv => CountAndEventMatchList
  <2> SUFFICES ASSUME IInv, queueLock = Nobody, pc[Stopper] # "done"
               PROVE  /\ itemCounts = Len(queueLink)
                      /\ dataEnqueueEvent <=> queueLink # <<>>
    BY DEF CountAndEventMatchList
  <2>1. pc[Router] # "count" /\ \A p \in Producers : pc[p] = "idle"
    BY ThreadsAssumption DEF IInv, LockInv, Threads
  <2>2. itemCounts = Len(queueLink) /\ (dataEnqueueEvent <=> itemCounts > 0)
    BY <2>1 DEF IInv, CountInv, EventInv
  <2>3. queueLink # <<>> <=> Len(queueLink) > 0
    BY DEF IInv, TypeOK
  <2>4. QED
    BY <2>2, <2>3
<1>2. QED
  BY <1>1, InductiveInvariant, PTL

\* RemoveHeadList never returns the list head to a routing thread.
THEOREM ListHeadSafe == Spec => []ListHeadNeverTaken
<1>1. IInv => ListHeadNeverTaken
  BY DEF IInv, ItemInv, ListHeadNeverTaken, Threads
<1>2. QED
  BY <1>1, InductiveInvariant, PTL

\* A NULL from Dequeue is a stop signal.
THEOREM NullMeansStop == Spec => []NullOnlyOnStop
<1>1. IInv => NullOnlyOnStop
  BY DEF IInv
<1>2. QED
  BY <1>1, InductiveInvariant, PTL

\* Tasks that Enqueue has been called for and that are not linked yet.
Entering == {item[p] : p \in {p \in Producers : pc[p] = "link"}}

\* The queue with its lock, counter and event implements a FIFO into which every
\* task handed to Enqueue goes exactly once.
THEOREM Refinement == Spec => FifoSpec
<1>1. Init => Fifo!Init
  BY ThreadsAssumption DEF Init, Fifo!Init, Threads
<1>2. IInv /\ [Next]_vars => [Fifo!Next]_Fifo!vars
  <2> SUFFICES ASSUME IInv, [Next]_vars
               PROVE  [Fifo!Next]_Fifo!vars
    OBVIOUS
  <2> USE ThreadsAssumption
      DEF IInv, TypeOK, Threads, Goto, queueVars, stopVars
  <2>1. ASSUME \A p \in Producers : (pc'[p] = "link" <=> pc[p] = "link"),
               \A p \in Producers : pc[p] = "link" => item'[p] = item[p]
        PROVE  Entering' = Entering
    BY <2>1 DEF Entering
  <2>2. ASSUME \A p \in Producers : pc[p] = "idle" PROVE Entering = {}
    BY <2>2 DEF Entering
  <2>3. CASE UNCHANGED vars
    BY <2>3 DEF vars, Fifo!vars
  <2>4. ASSUME NEW p \in Producers, Producer(p)
        PROVE  [Fifo!Next]_Fifo!vars
    <3>1. CASE EnqueueAcquire(p)
      <4>1. PICK t \in fresh : /\ item' = [item EXCEPT ![p] = t]
                               /\ fresh' = fresh \ {t}
        BY <3>1 DEF EnqueueAcquire
      <4>2. \A q \in Producers : pc[q] = "idle"
        BY <3>1 DEF EnqueueAcquire, Acquire, LockInv
      <4>3. Entering = {} /\ Entering' = {t}
        BY <2>2, <3>1, <4>1, <4>2 DEF EnqueueAcquire, Entering
      <4>4. Fifo!HandIn(t)
        BY <3>1, <4>1, <4>3 DEF EnqueueAcquire, Entering, Fifo!HandIn
      <4>5. t \in Tasks
        OBVIOUS
      <4>6. QED
        BY <4>4, <4>5 DEF Fifo!Next
    <3>2. CASE EnqueueLink(p)
      <4>1. pc[Stopper] # "done"
        BY <3>2 DEF EnqueueLink, StopInv
      <4>2. PICK t \in Tasks : t = item[p]
        BY <3>2 DEF EnqueueLink, ItemInv
      <4>3. \A q \in Producers : q # p => pc[q] = "idle"
        BY <3>2 DEF EnqueueLink, LockInv
      <4>4. Entering = {t} /\ Entering' = {}
        BY <3>2, <4>2, <4>3 DEF EnqueueLink, Entering
      <4>5. Fifo!Put(t)
        BY <3>2, <4>1, <4>2, <4>4 DEF EnqueueLink, Entering, Fifo!Put
      <4>6. QED
        BY <4>5 DEF Fifo!Next
    <3>3. CASE EnqueueCount(p) \/ EnqueueSignal(p) \/ EnqueueRelease(p)
      <4>1. Entering' = Entering
        BY <2>1, <3>3 DEF EnqueueCount, EnqueueSignal, EnqueueRelease
      <4>2. QED
        BY <3>3, <4>1 DEF EnqueueCount, EnqueueSignal, EnqueueRelease, Entering, Fifo!vars
    <3>4. QED
      BY <2>4, <3>1, <3>2, <3>3 DEF Producer
  <2>5. CASE Routing
    <3>1. Entering' = Entering
      BY <2>1, <2>5 DEF Routing, TestThreadFlag, Wake, DequeueAcquire, DequeueEmpty,
                        DequeueUnlink, DequeueCount, DequeueRelease, Handle
    <3>2. CASE DequeueUnlink
      <4>1. pc[Stopper] # "done" /\ \A p \in Producers : pc[p] = "idle"
        BY <3>2 DEF DequeueUnlink, StopInv, LockInv
      <4>2. queueLink # <<>>
        BY <3>2, <4>1 DEF DequeueUnlink, CountInv
      <4>3. Fifo!Take
        BY <3>1, <3>2, <4>1, <4>2 DEF DequeueUnlink, Entering, Fifo!Take
      <4>4. QED
        BY <4>3 DEF Fifo!Next
    <3>3. QED
      BY <2>5, <3>1, <3>2 DEF Routing, TestThreadFlag, Wake, DequeueAcquire, DequeueEmpty,
                        DequeueCount, DequeueRelease, Handle, Entering, Fifo!vars
  <2>6. CASE Stopping
    <3>1. Entering' = Entering
      BY <2>1, <2>6 DEF Stopping, StopClearFlag, StopSetSignal, StopDrain
    <3>2. CASE StopDrain
      <4>1. Entering = {}
        BY <2>2, <3>2 DEF StopDrain
      <4>2. Fifo!Flush
        BY <3>1, <3>2, <4>1 DEF StopDrain, Entering, Fifo!Flush
      <4>3. QED
        BY <4>2 DEF Fifo!Next
    <3>3. QED
      BY <2>6, <3>1, <3>2 DEF Stopping, StopClearFlag, StopSetSignal, Entering, Fifo!vars
  <2>7. QED
    BY <2>3, <2>4, <2>5, <2>6 DEF Next, Terminated
<1>3. QED
  BY <1>1, <1>2, InductiveInvariant, PTL DEF Spec, FifoSpec, Fifo!Spec
=============================================================================
