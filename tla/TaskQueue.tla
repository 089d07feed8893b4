----------------------------- MODULE TaskQueue -----------------------------
(***************************************************************************)
(* One routing queue of the driver (queue.c), the threads that enqueue on  *)
(* it, the routing thread that waits on it and dequeues (the loop every    *)
(* thread of route_engine.c runs) and the thread in StopRoutingEngine.     *)
(*                                                                         *)
(* Every access to the QUEUE fields is a step of its own, so that the      *)
(* spin lock and the order of the statements are what the properties rest  *)
(* on.  The model starts when InitializeQueue has returned.                *)
(***************************************************************************)
EXTENDS Naturals, Sequences

CONSTANTS
  Tasks,      \* ROUTING_TASKs that may be enqueued, each once
  Producers,  \* threads that call ProcessRoutingTask for this queue
  Router,     \* the routing thread that owns the queue
  Stopper,    \* the thread that runs StopRoutingEngine
  Nobody,     \* value of QueueLock when it is free
  NULL,       \* no LIST_ENTRY
  ListHead    \* the queue's own LIST_ENTRY, what RemoveHeadList returns
              \* when the list is empty

Threads == Producers \cup {Router, Stopper}

ASSUME ThreadsAssumption ==
  /\ Router \notin Producers /\ Stopper \notin Producers /\ Router # Stopper
  /\ Nobody \notin Threads

ASSUME TasksAssumption ==
  NULL \notin Tasks /\ ListHead \notin Tasks /\ NULL # ListHead

VARIABLES
  queueLink,         \* QUEUE.QueueLink, the tasks in list order
  itemCounts,        \* QUEUE.ItemCounts
  dataEnqueueEvent,  \* QUEUE.DataEnqueueEvent, a notification event
  queueLock,         \* QUEUE.QueueLock
  threadFlag,        \* ThreadFlag
  stopSignal,        \* StopSignal
  pc,                \* what each thread executes next
  item,              \* the LIST_ENTRY each thread works on
  fresh,             \* tasks nobody has enqueued yet
  taken              \* history: list entries unlinked by Dequeue, in order

queueVars == <<queueLink, itemCounts, dataEnqueueEvent>>
stopVars == <<threadFlag, stopSignal>>
vars == <<queueLink, itemCounts, dataEnqueueEvent, queueLock,
          threadFlag, stopSignal, pc, item, fresh, taken>>

Goto(t, label) == pc' = [pc EXCEPT ![t] = label]

\* Faulty variant: the lock is taken without waiting.
AcquireAtOnce(t) == queueLock' = t

Acquire(t) == queueLock = Nobody /\ queueLock' = t
Release == queueLock' = Nobody

Init ==
  /\ queueLink = <<>>
  /\ itemCounts = 0
  /\ dataEnqueueEvent = FALSE
  /\ queueLock = Nobody
  /\ threadFlag = TRUE
  /\ stopSignal = FALSE
  /\ pc = [t \in Threads |-> IF t = Router THEN "loop" ELSE "idle"]
  /\ item = [t \in Threads |-> NULL]
  /\ fresh = Tasks
  /\ taken = <<>>

-----------------------------------------------------------------------------
(* Enqueue, called by ProcessRoutingTask.  StopRoutingEngine only drains   *)
(* once every routing thread has exited and NDIS has deregistered the      *)
(* filter, so no call begins after that.                                   *)

EnqueueAcquire(p) ==
  /\ pc[p] = "idle"
  /\ pc[Stopper] # "done"
  /\ Acquire(p)
  /\ \E t \in fresh :
       /\ item' = [item EXCEPT ![p] = t]
       /\ fresh' = fresh \ {t}
  /\ Goto(p, "link")
  /\ UNCHANGED <<queueVars, stopVars, taken>>

\* Faulty variant: InsertHeadList for InsertTailList.
EnqueueLinkAtHead(p) ==
  /\ pc[p] = "link"
  /\ queueLink' = <<item[p]>> \o queueLink
  /\ Goto(p, "count")
  /\ UNCHANGED <<itemCounts, dataEnqueueEvent, queueLock, stopVars, item, fresh, taken>>

EnqueueLink(p) ==
  /\ pc[p] = "link"
  /\ queueLink' = Append(queueLink, item[p])
  /\ Goto(p, "count")
  /\ UNCHANGED <<itemCounts, dataEnqueueEvent, queueLock, stopVars, item, fresh, taken>>

EnqueueCount(p) ==
  /\ pc[p] = "count"
  /\ itemCounts' = itemCounts + 1
  /\ Goto(p, "signal")
  /\ UNCHANGED <<queueLink, dataEnqueueEvent, queueLock, stopVars, item, fresh, taken>>

EnqueueSignal(p) ==
  /\ pc[p] = "signal"
  /\ dataEnqueueEvent' = TRUE
  /\ Goto(p, "release")
  /\ UNCHANGED <<queueLink, itemCounts, queueLock, stopVars, item, fresh, taken>>

EnqueueRelease(p) ==
  /\ pc[p] = "release"
  /\ Release
  /\ item' = [item EXCEPT ![p] = NULL]
  /\ Goto(p, "idle")
  /\ UNCHANGED <<queueVars, stopVars, fresh, taken>>

Producer(p) ==
  \/ EnqueueAcquire(p) \/ EnqueueLink(p) \/ EnqueueCount(p)
  \/ EnqueueSignal(p) \/ EnqueueRelease(p)

-----------------------------------------------------------------------------
(* The loop of a routing thread and Dequeue.                               *)

TestThreadFlag ==
  /\ pc[Router] = "loop"
  /\ Goto(Router, IF threadFlag THEN "wait" ELSE "exit")
  /\ UNCHANGED <<queueVars, queueLock, stopVars, item, fresh, taken>>

\* Faulty variant: the wait is for DataEnqueueEvent alone.
WakeForDataOnly ==
  /\ pc[Router] = "wait"
  /\ dataEnqueueEvent
  /\ Goto(Router, "acquire")
  /\ UNCHANGED <<queueVars, queueLock, stopVars, item, fresh, taken>>

\* KeWaitForMultipleObjects(WaitAny) on StopSignal and DataEnqueueEvent.
\* Both are notification events: waking up does not reset them.
Wake ==
  /\ pc[Router] = "wait"
  /\ stopSignal \/ dataEnqueueEvent
  /\ Goto(Router, "acquire")
  /\ UNCHANGED <<queueVars, queueLock, stopVars, item, fresh, taken>>

DequeueAcquire ==
  /\ pc[Router] = "acquire"
  /\ Acquire(Router)
  /\ Goto(Router, "test")
  /\ UNCHANGED <<queueVars, stopVars, item, fresh, taken>>

DequeueEmpty ==
  /\ pc[Router] = "test"
  /\ itemCounts = 0
  /\ dataEnqueueEvent' = FALSE
  /\ Goto(Router, "release")
  /\ UNCHANGED <<queueLink, itemCounts, queueLock, stopVars, item, fresh, taken>>

\* RemoveHeadList: on an empty list it returns the list head itself.
DequeueUnlink ==
  /\ pc[Router] = "test"
  /\ itemCounts > 0
  /\ LET first == IF queueLink = <<>> THEN ListHead ELSE Head(queueLink)
     IN  /\ item' = [item EXCEPT ![Router] = first]
         /\ taken' = Append(taken, first)
  /\ queueLink' = IF queueLink = <<>> THEN <<>> ELSE Tail(queueLink)
  /\ Goto(Router, "count")
  /\ UNCHANGED <<itemCounts, dataEnqueueEvent, queueLock, stopVars, fresh>>

\* Faulty variants: ItemCounts is not decremented; the event is never reset;
\* the event is reset although tasks are left.
DequeueUncounted ==
  /\ pc[Router] = "count"
  /\ Goto(Router, "release")
  /\ UNCHANGED <<queueVars, queueLock, stopVars, item, fresh, taken>>

DequeueEventLeft ==
  /\ pc[Router] = "count"
  /\ itemCounts' = itemCounts - 1
  /\ Goto(Router, "release")
  /\ UNCHANGED <<queueLink, dataEnqueueEvent, queueLock, stopVars, item, fresh, taken>>

DequeueEventLost ==
  /\ pc[Router] = "count"
  /\ itemCounts' = itemCounts - 1
  /\ dataEnqueueEvent' = FALSE
  /\ Goto(Router, "release")
  /\ UNCHANGED <<queueLink, queueLock, stopVars, item, fresh, taken>>

DequeueCount ==
  /\ pc[Router] = "count"
  /\ itemCounts' = itemCounts - 1
  /\ dataEnqueueEvent' = IF itemCounts = 1 THEN FALSE ELSE dataEnqueueEvent
  /\ Goto(Router, "release")
  /\ UNCHANGED <<queueLink, queueLock, stopVars, item, fresh, taken>>

DequeueRelease ==
  /\ pc[Router] = "release"
  /\ Release
  /\ Goto(Router, IF item[Router] = NULL THEN "loop" ELSE "handle")
  /\ UNCHANGED <<queueVars, stopVars, item, fresh, taken>>

\* The body of the loop, which hands the task on or frees it.
Handle ==
  /\ pc[Router] = "handle"
  /\ item' = [item EXCEPT ![Router] = NULL]
  /\ Goto(Router, "loop")
  /\ UNCHANGED <<queueVars, queueLock, stopVars, fresh, taken>>

Routing ==
  \/ TestThreadFlag \/ Wake \/ DequeueAcquire \/ DequeueEmpty
  \/ DequeueUnlink \/ DequeueCount \/ DequeueRelease \/ Handle

-----------------------------------------------------------------------------
(* StopRoutingEngine.                                                      *)

StopClearFlag ==
  /\ pc[Stopper] = "idle"
  /\ threadFlag' = FALSE
  /\ Goto(Stopper, "flagged")
  /\ UNCHANGED <<queueVars, queueLock, stopSignal, item, fresh, taken>>

StopSetSignal ==
  /\ pc[Stopper] = "flagged"
  /\ stopSignal' = TRUE
  /\ Goto(Stopper, "join")
  /\ UNCHANGED <<queueVars, queueLock, threadFlag, item, fresh, taken>>

\* KeWaitForMultipleObjects(WaitAll) on the routing threads, the other ones
\* being among the producers, then the loop that frees what is left.  It
\* unlinks until RemoveHeadList returns the head and never looks at ItemCounts.
StopDrain ==
  /\ pc[Stopper] = "join"
  /\ pc[Router] = "exit"
  /\ \A p \in Producers : pc[p] = "idle"
  /\ queueLock = Nobody
  /\ queueLink' = <<>>
  /\ Goto(Stopper, "done")
  /\ UNCHANGED <<itemCounts, dataEnqueueEvent, queueLock, stopVars, item, fresh, taken>>

Stopping == StopClearFlag \/ StopSetSignal \/ StopDrain

-----------------------------------------------------------------------------

Terminated == pc[Stopper] = "done" /\ UNCHANGED vars

Next == (\E p \in Producers : Producer(p)) \/ Routing \/ Stopping \/ Terminated

\* Threads the scheduler keeps running.  An enqueue that has begun goes on,
\* nobody has to begin one; the driver need not be stopped, but a stop that
\* has begun goes on.  Weak fairness is enough for the spin lock, since a
\* task is enqueued once and contention for the lock is finite.
Fairness ==
  /\ WF_vars(Routing)
  /\ \A p \in Producers : WF_vars(Producer(p) /\ pc[p] # "idle")
  /\ WF_vars(StopSetSignal \/ StopDrain)

Spec == Init /\ [][Next]_vars
FairSpec == Spec /\ Fairness

-----------------------------------------------------------------------------

ProducerLabels == {"idle", "link", "count", "signal", "release"}
RouterLabels == {"loop", "wait", "acquire", "test", "count", "release", "handle", "exit"}
StopperLabels == {"idle", "flagged", "join", "done"}

TypeOK ==
  /\ queueLink \in Seq(Tasks)
  /\ itemCounts \in Nat
  /\ dataEnqueueEvent \in BOOLEAN
  /\ queueLock \in Threads \cup {Nobody}
  /\ threadFlag \in BOOLEAN
  /\ stopSignal \in BOOLEAN
  /\ pc \in [Threads -> ProducerLabels \cup RouterLabels \cup StopperLabels]
  /\ \A p \in Producers : pc[p] \in ProducerLabels
  /\ pc[Router] \in RouterLabels /\ pc[Stopper] \in StopperLabels
  /\ item \in [Threads -> Tasks \cup {NULL, ListHead}]
  /\ fresh \in SUBSET Tasks
  /\ taken \in Seq(Tasks \cup {ListHead})

\* Whenever nobody holds the lock and the engine has not been drained, the
\* counter is the length of the list and the event is signalled exactly when
\* there is something to dequeue: no wake-up is lost and none is left over.
CountAndEventMatchList ==
  queueLock = Nobody /\ pc[Stopper] # "done" =>
    /\ itemCounts = Len(queueLink)
    /\ dataEnqueueEvent <=> queueLink # <<>>

\* Dequeue never passes the list head off as a task: ItemCounts is the only
\* guard RemoveHeadList has.
ListHeadNeverTaken == \A t \in Threads : item[t] # ListHead

\* Dequeue returns NULL only after a stop signal, as the comment "Error or
\* stop signal" in every routing thread has it: the event is reset under the
\* lock, so the thread never wakes up for a task that is already gone.
NullOnlyOnStop ==
  pc[Router] = "release" /\ item[Router] = NULL => stopSignal

\* The queue is a FIFO: concurrent producers lose, duplicate and reorder
\* nothing, every task Enqueue is called for is linked exactly once, and it
\* leaves the list at the front or in the final drain.
Fifo == INSTANCE TaskFifo WITH
          entering <- {item[p] : p \in {p \in Producers : pc[p] = "link"}},
          waiting <- queueLink,
          flushed <- pc[Stopper] = "done"
FifoSpec == Fifo!Spec

\* A task that has been linked is dequeued or freed by the drain, however
\* enqueues, wake-ups and a stop interleave.
EveryTaskLeaves ==
  \A t \in Tasks :
    (\E i \in DOMAIN queueLink : queueLink[i] = t) ~>
    (pc[Stopper] = "done" \/ \E i \in DOMAIN taken : taken[i] = t)

\* StopRoutingEngine returns: the routing thread notices the stop wherever it
\* is, asleep on an empty queue included, and exits.
StopReturns == pc[Stopper] # "idle" ~> pc[Stopper] = "done"
=============================================================================
