--------------------------- MODULE RoutingEngine ---------------------------
(***************************************************************************)
(* The routing engine (route_engine.c) and the driver entry points that    *)
(* feed it (filter_subroutines.c): a copy of every packet becomes a        *)
(* ROUTING_TASK that goes from queue to queue, one thread to a queue, until *)
(* it is freed, forgotten, or handed to NDIS in a NET_BUFFER_LIST whose    *)
(* completion frees the packet buffer.                                     *)
(*                                                                         *)
(* A queue is atomic here: TaskQueue shows that queue.c makes it a FIFO.   *)
(* What the hooks of a filter point decide and what the address caches     *)
(* answer is a free choice.  Filter modules stay attached: FilterModules   *)
(* adds their attachment and detachment.                                   *)
(***************************************************************************)
EXTENDS Naturals, Sequences

CONSTANTS
  Tasks,          \* the ROUTING_TASKs, each with its packet buffer
  NULL,           \* no task
  MaxModeChanges  \* bound on the number of changes of IPForwardingMode

ASSUME NullAssumption == NULL \notin Tasks
ASSUME BoundAssumption == MaxModeChanges \in Nat

Procs == {"PREROUTING", "INPUT", "FORWARDING", "OUTPUT", "POSTROUTING", "RTDECISION"}
FilterPoints == Procs \ {"RTDECISION"}
Entries == {"PREROUTING", "OUTPUT"}   \* where a packet from the NIC, from above, enters
Exits == {"INPUT", "POSTROUTING"}     \* the threads that hand packets to NDIS
Modes == {"SYSTEM", "WINPFILTER", "DISABLE"}

VARIABLES
  fresh,             \* tasks not created yet
  packet,            \* PacketBuffers of the handlers at an entry, no task yet
  queue,             \* TaskQueues
  thread,            \* what each routing thread executes next
  task,              \* local variable Task of each routing thread
  isModified,        \* Task->DataBuffer.IsModified
  taskMem,           \* allocated ROUTING_TASKs
  bufferMem,         \* tasks whose packet buffer is allocated
  nbl,               \* how far the MDL and the NBL around the buffer have got
  ipForwardingMode,  \* IPForwardingMode
  modeChanges,       \* number of times it changed
  engine,            \* progress of StopRoutingEngine
  path,              \* history: filter points that accepted the task
  handed             \* history: tasks each exit handed to NDIS, in order

memVars == <<taskMem, bufferMem, nbl>>
modeVars == <<ipForwardingMode, modeChanges>>
histVars == <<path, handed>>
vars == <<fresh, packet, queue, thread, task, isModified, memVars, modeVars,
          engine, histVars>>

threadFlag == engine = "running"
stopSignal == engine \in {"signalled", "done"}

Init ==
  /\ fresh = Tasks
  /\ packet = [e \in Entries |-> {}]
  /\ queue = [p \in Procs |-> <<>>]
  /\ thread = [p \in Procs |-> "wait"]
  /\ task = [p \in Procs |-> NULL]
  /\ isModified = [t \in Tasks |-> FALSE]
  /\ taskMem = {} /\ bufferMem = {}
  /\ nbl = [t \in Tasks |-> "none"]
  /\ ipForwardingMode = "SYSTEM" /\ modeChanges = 0
  /\ engine = "running"
  /\ path = [t \in Tasks |-> <<>>]
  /\ handed = [p \in Exits |-> <<>>]

-----------------------------------------------------------------------------
(* WPFilterReceiveFromNIC and WPFilterReceiveFromUpper: for every packet   *)
(* of the chain, on any number of processors.  A failed allocation skips   *)
(* the packet.  NDIS lets no handler run once the driver is deregistered,  *)
(* which happens before StopRoutingEngine.                                 *)

AllocatePacketBuffer(e, t) ==
  /\ threadFlag
  /\ t \in fresh
  /\ fresh' = fresh \ {t}
  /\ packet' = [packet EXCEPT ![e] = @ \cup {t}]
  /\ bufferMem' = bufferMem \cup {t}
  /\ UNCHANGED <<queue, thread, task, isModified, taskMem, nbl, modeVars, engine, histVars>>

\* CreateAndProcessRoutingTaskWithoutDataBufferCopy
CreateTask(e, t) ==
  /\ t \in packet[e]
  /\ packet' = [packet EXCEPT ![e] = @ \ {t}]
  /\ taskMem' = taskMem \cup {t}
  /\ queue' = [queue EXCEPT ![e] = Append(@, t)]
  /\ UNCHANGED <<fresh, thread, task, isModified, bufferMem, nbl, modeVars, engine, histVars>>

CreateTaskFails(e, t) ==
  /\ t \in packet[e]
  /\ packet' = [packet EXCEPT ![e] = @ \ {t}]
  /\ fresh' = fresh \cup {t}
  /\ bufferMem' = bufferMem \ {t}
  /\ UNCHANGED <<queue, thread, task, isModified, taskMem, nbl, modeVars, engine, histVars>>

Handlers ==
  \E e \in Entries, t \in Tasks :
    AllocatePacketBuffer(e, t) \/ CreateTask(e, t) \/ CreateTaskFails(e, t)

-----------------------------------------------------------------------------
(* What the routing threads have in common: the loop, and the verdict of   *)
(* FilterEthernetPacket at the filter point of the same name.              *)
(*                                                                         *)
(* A thread at "wait" waits, or is about to test ThreadFlag and wait: the  *)
(* difference only shows when the flag is cleared, see StopClearFlag.      *)

\* Faulty variant: the loop does not test ThreadFlag.
NextTaskForever(p) ==
  /\ thread' = [thread EXCEPT ![p] = "wait"]
  /\ task' = [task EXCEPT ![p] = NULL]

\* The end of the body: test ThreadFlag, wait for the next task.
NextTask(p) ==
  /\ thread' = [thread EXCEPT ![p] = IF threadFlag THEN "wait" ELSE "exit"]
  /\ task' = [task EXCEPT ![p] = NULL]

Goto(p, label) == thread' = [thread EXCEPT ![p] = label] /\ UNCHANGED task

\* Faulty variant: the queue is a stack.
ProcessRoutingTaskAtHead(t, p) == queue' = [queue EXCEPT ![p] = <<t>> \o @]

ProcessRoutingTask(t, p) == queue' = [queue EXCEPT ![p] = Append(@, t)]

FreeRoutingTask(t) == bufferMem' = bufferMem \ {t} /\ taskMem' = taskMem \ {t}

DequeueTask(p) ==
  /\ p \in FilterPoints
  /\ thread[p] = "wait"
  /\ queue[p] # <<>>
  /\ queue' = [queue EXCEPT ![p] = Tail(@)]
  /\ task' = [task EXCEPT ![p] = Head(queue[p])]
  /\ thread' = [thread EXCEPT ![p] = "filter"]
  /\ UNCHANGED <<fresh, packet, isModified, memVars, modeVars, engine, histVars>>

\* "Error or stop signal"
DequeueNull(p) ==
  /\ thread[p] = "wait"
  /\ queue[p] = <<>> /\ stopSignal
  /\ NextTask(p)
  /\ UNCHANGED <<fresh, packet, queue, isModified, memVars, modeVars, engine, histVars>>

\* Faulty variant: a dropped task is not freed.
FilterDropsForgets(p) ==
  /\ thread[p] = "filter"
  /\ NextTask(p)
  /\ UNCHANGED <<fresh, packet, queue, isModified, memVars, modeVars, engine, histVars>>

FilterDrops(p) ==
  /\ thread[p] = "filter"
  /\ FreeRoutingTask(task[p])
  /\ NextTask(p)
  /\ UNCHANGED <<fresh, packet, queue, isModified, nbl, modeVars, engine, histVars>>

FilterAccepts(p) ==
  /\ thread[p] = "filter"
  /\ \E modified \in BOOLEAN :
       isModified' = [isModified EXCEPT ![task[p]] = @ \/ modified]
  /\ path' = [path EXCEPT ![task[p]] = Append(@, p)]
  /\ Goto(p, "accepted")
  /\ UNCHANGED <<fresh, packet, queue, memVars, modeVars, engine, handed>>

-----------------------------------------------------------------------------
(* PreroutingThread reads IPForwardingMode three times, under no lock.     *)

\* Faulty variant: the continue after the hand-over is missing.
PassToInputGoesOn ==
  /\ ProcessRoutingTask(task["PREROUTING"], "INPUT")
  /\ Goto("PREROUTING", "lookup")

PassToInput ==
  /\ ProcessRoutingTask(task["PREROUTING"], "INPUT")
  /\ NextTask("PREROUTING")

TestForwardingMode ==
  /\ thread["PREROUTING"] = "accepted"
  /\ IF ipForwardingMode # "SYSTEM"
     THEN Goto("PREROUTING", "lookup") /\ UNCHANGED queue
     ELSE PassToInput
  /\ UNCHANGED <<fresh, packet, isModified, memVars, modeVars, engine, histVars>>

\* IsValidForwardAddress; FALSE for what is not IP.
LookUpAddress ==
  /\ thread["PREROUTING"] = "lookup"
  /\ \E forwardingFlag \in BOOLEAN :
       IF forwardingFlag
       THEN Goto("PREROUTING", "forward") /\ UNCHANGED queue
       ELSE PassToInput
  /\ UNCHANGED <<fresh, packet, isModified, memVars, modeVars, engine, histVars>>

\* Faulty variant: forwarded packets skip the FORWARDING filter point.
TestWinpfilterModeSkips ==
  /\ thread["PREROUTING"] = "forward"
  /\ IF ipForwardingMode = "WINPFILTER"
     THEN ProcessRoutingTask(task["PREROUTING"], "POSTROUTING") /\ NextTask("PREROUTING")
     ELSE Goto("PREROUTING", "disable") /\ UNCHANGED queue
  /\ UNCHANGED <<fresh, packet, isModified, memVars, modeVars, engine, histVars>>

TestWinpfilterMode ==
  /\ thread["PREROUTING"] = "forward"
  /\ IF ipForwardingMode = "WINPFILTER"
     THEN ProcessRoutingTask(task["PREROUTING"], "FORWARDING") /\ NextTask("PREROUTING")
     ELSE Goto("PREROUTING", "disable") /\ UNCHANGED queue
  /\ UNCHANGED <<fresh, packet, isModified, memVars, modeVars, engine, histVars>>

\* Neither WINPFILTER before nor DISABLE now: the task is forgotten.
TestDisableMode ==
  /\ thread["PREROUTING"] = "disable"
  /\ IF ipForwardingMode = "DISABLE"
     THEN FreeRoutingTask(task["PREROUTING"])
     ELSE UNCHANGED <<taskMem, bufferMem>>
  /\ NextTask("PREROUTING")
  /\ UNCHANGED <<fresh, packet, queue, isModified, nbl, modeVars, engine, histVars>>

Prerouting ==
  TestForwardingMode \/ LookUpAddress \/ TestWinpfilterMode \/ TestDisableMode

-----------------------------------------------------------------------------
(* ForwardingThread, OutputThread and RoutingDecisionThread.               *)

PassToDecision ==
  /\ thread["FORWARDING"] = "accepted"
  /\ ProcessRoutingTask(task["FORWARDING"], "RTDECISION")
  /\ NextTask("FORWARDING")
  /\ UNCHANGED <<fresh, packet, isModified, memVars, modeVars, engine, histVars>>

PassOutput ==
  /\ thread["OUTPUT"] = "accepted"
  /\ LET t == task["OUTPUT"]
     IN  ProcessRoutingTask(t, IF isModified[t] THEN "RTDECISION" ELSE "POSTROUTING")
  /\ NextTask("OUTPUT")
  /\ UNCHANGED <<fresh, packet, isModified, memVars, modeVars, engine, histVars>>

\* The body after Dequeue is a TODO: the task is forgotten.
RoutingDecision ==
  /\ thread["RTDECISION"] = "wait"
  /\ queue["RTDECISION"] # <<>>
  /\ queue' = [queue EXCEPT !["RTDECISION"] = Tail(@)]
  /\ NextTask("RTDECISION")
  /\ UNCHANGED <<fresh, packet, isModified, memVars, modeVars, engine, histVars>>

-----------------------------------------------------------------------------
(* InputThread and PostroutingThread: wrap the buffer and hand it to NDIS. *)

AllocateMdl(p) ==
  /\ thread[p] = "accepted"
  /\ nbl' = [nbl EXCEPT ![task[p]] = "mdl"]
  /\ Goto(p, "mdl")
  /\ UNCHANGED <<fresh, packet, queue, isModified, taskMem, bufferMem, modeVars, engine, histVars>>

AllocateMdlFails(p) ==
  /\ thread[p] = "accepted"
  /\ FreeRoutingTask(task[p])
  /\ NextTask(p)
  /\ UNCHANGED <<fresh, packet, queue, isModified, nbl, modeVars, engine, histVars>>

AllocateNbl(p) ==
  /\ thread[p] = "mdl"
  /\ nbl' = [nbl EXCEPT ![task[p]] = "nbl"]
  /\ Goto(p, "hand over")
  /\ UNCHANGED <<fresh, packet, queue, isModified, taskMem, bufferMem, modeVars, engine, histVars>>

AllocateNblFails(p) ==
  /\ thread[p] = "mdl"
  /\ nbl' = [nbl EXCEPT ![task[p]] = "none"]
  /\ FreeRoutingTask(task[p])
  /\ NextTask(p)
  /\ UNCHANGED <<fresh, packet, queue, isModified, modeVars, engine, histVars>>

\* NdisFIndicateReceiveNetBufferLists, NdisFSendNetBufferLists: NDIS may
\* complete the NBL before the call returns.
HandToNdis(p) ==
  /\ thread[p] = "hand over"
  /\ nbl' = [nbl EXCEPT ![task[p]] = "ndis"]
  /\ handed' = [handed EXCEPT ![p] = Append(@, task[p])]
  /\ Goto(p, "release")
  /\ UNCHANGED <<fresh, packet, queue, isModified, taskMem, bufferMem, modeVars, engine, path>>

\* Faulty variant: the thread frees the buffer it has handed over.
FreeRoutingTaskWithDataBuffer(p) ==
  /\ thread[p] = "release"
  /\ FreeRoutingTask(task[p])
  /\ NextTask(p)
  /\ UNCHANGED <<fresh, packet, queue, isModified, nbl, modeVars, engine, histVars>>

FreeRoutingTaskWithoutDataBuffer(p) ==
  /\ thread[p] = "release"
  /\ taskMem' = taskMem \ {task[p]}
  /\ NextTask(p)
  /\ UNCHANGED <<fresh, packet, queue, isModified, bufferMem, nbl, modeVars, engine, histVars>>

Deliver(p) ==
  \/ AllocateMdl(p) \/ AllocateMdlFails(p) \/ AllocateNbl(p) \/ AllocateNblFails(p)
  \/ HandToNdis(p) \/ FreeRoutingTaskWithoutDataBuffer(p)

\* One step of routing thread p.
Thread(p) ==
  \/ DequeueTask(p) \/ DequeueNull(p)
  \/ FilterDrops(p) \/ FilterAccepts(p)
  \/ p = "PREROUTING" /\ Prerouting
  \/ p = "FORWARDING" /\ PassToDecision
  \/ p = "OUTPUT" /\ PassOutput
  \/ p = "RTDECISION" /\ RoutingDecision
  \/ p \in Exits /\ Deliver(p)

-----------------------------------------------------------------------------
(* NDIS returns an NBL of ours: WPFilterSendToUpperFinished and            *)
(* WPFilterSendToNICFinished free it with its MDL and packet buffer.       *)

\* Faulty variant: the NBL is freed, the packet buffer is not.
NblFinishedKeepsBuffer(t) ==
  /\ nbl[t] = "ndis"
  /\ nbl' = [nbl EXCEPT ![t] = "none"]
  /\ UNCHANGED <<fresh, packet, queue, thread, task, isModified, taskMem, bufferMem, modeVars,
                 engine, histVars>>

NblFinished(t) ==
  /\ nbl[t] = "ndis"
  /\ nbl' = [nbl EXCEPT ![t] = "none"]
  /\ bufferMem' = bufferMem \ {t}
  /\ UNCHANGED <<fresh, packet, queue, thread, task, isModified, taskMem, modeVars, engine, histVars>>

\* The forwarding mode IOCTL.
SetForwardingMode(mode) ==
  /\ modeChanges < MaxModeChanges
  /\ mode # ipForwardingMode
  /\ ipForwardingMode' = mode
  /\ modeChanges' = modeChanges + 1
  /\ UNCHANGED <<fresh, packet, queue, thread, task, isModified, memVars, engine, histVars>>

-----------------------------------------------------------------------------
(* StopRoutingEngine.                                                      *)

\* Some idle threads have tested ThreadFlag before, the others exit.
StopClearFlag ==
  /\ engine = "running"
  /\ \A e \in Entries : packet[e] = {}
  /\ engine' = "flagged"
  /\ \E late \in SUBSET {p \in Procs : thread[p] = "wait"} :
       thread' = [p \in Procs |-> IF p \in late THEN "exit" ELSE thread[p]]
  /\ UNCHANGED <<fresh, packet, queue, task, isModified, memVars, modeVars, histVars>>

StopSetSignal ==
  /\ engine = "flagged"
  /\ engine' = "signalled"
  /\ UNCHANGED <<fresh, packet, queue, thread, task, isModified, memVars, modeVars, histVars>>

Queued == UNION {{queue[p][i] : i \in DOMAIN queue[p]} : p \in Procs}

\* Faulty variant: the loop ends one queue too early.
StopDrainAllButLast ==
  LET drained == UNION {{queue[p][i] : i \in DOMAIN queue[p]} : p \in FilterPoints}
  IN  /\ engine = "signalled"
      /\ \A p \in Procs : thread[p] = "exit"
      /\ queue' = [p \in Procs |-> IF p \in FilterPoints THEN <<>> ELSE queue[p]]
      /\ taskMem' = taskMem \ drained
      /\ bufferMem' = bufferMem \ drained
      /\ engine' = "done"
      /\ UNCHANGED <<fresh, packet, thread, task, isModified, nbl, modeVars, histVars>>

\* Wait for all the threads, then free what is left in every queue.
StopDrain ==
  /\ engine = "signalled"
  /\ \A p \in Procs : thread[p] = "exit"
  /\ queue' = [p \in Procs |-> <<>>]
  /\ taskMem' = taskMem \ Queued
  /\ bufferMem' = bufferMem \ Queued
  /\ engine' = "done"
  /\ UNCHANGED <<fresh, packet, thread, task, isModified, nbl, modeVars, histVars>>

Stopping == StopClearFlag \/ StopSetSignal \/ StopDrain

Terminated == engine = "done" /\ UNCHANGED vars

Next ==
  \/ Handlers
  \/ \E p \in Procs : Thread(p)
  \/ \E t \in Tasks : NblFinished(t)
  \/ \E mode \in Modes : SetForwardingMode(mode)
  \/ Stopping
  \/ Terminated

\* The scheduler runs every routing thread, a handler that has allocated a
\* buffer goes on, NDIS completes every NBL it was given, and a stop that has
\* begun goes on.  Nobody has to send a packet, change the mode or stop.
Fairness ==
  /\ \A p \in Procs : WF_vars(Thread(p))
  /\ \A e \in Entries, t \in Tasks : WF_vars(CreateTask(e, t) \/ CreateTaskFails(e, t))
  /\ \A t \in Tasks : WF_vars(NblFinished(t))
  /\ WF_vars(StopSetSignal \/ StopDrain)

Spec == Init /\ [][Next]_vars
FairSpec == Spec /\ Fairness

-----------------------------------------------------------------------------

Idle == {"wait", "exit"}
Busy == {"filter", "accepted", "lookup", "forward", "disable", "mdl", "hand over",
         "release"}

TypeOK ==
  /\ fresh \in SUBSET Tasks
  /\ packet \in [Entries -> SUBSET Tasks]
  /\ queue \in [Procs -> Seq(Tasks)]
  /\ thread \in [Procs -> Idle \cup Busy]
  /\ task \in [Procs -> Tasks \cup {NULL}]
  /\ \A p \in Procs : task[p] = NULL <=> thread[p] \in Idle
  /\ isModified \in [Tasks -> BOOLEAN]
  /\ taskMem \in SUBSET Tasks /\ bufferMem \in SUBSET Tasks
  /\ nbl \in [Tasks -> {"none", "mdl", "nbl", "ndis"}]
  /\ ipForwardingMode \in Modes
  /\ modeChanges \in 0..MaxModeChanges
  /\ engine \in {"running", "flagged", "signalled", "done"}
  /\ path \in [Tasks -> Seq(FilterPoints)]
  /\ handed \in [Exits -> Seq(Tasks)]

Held == {task[p] : p \in Procs} \ {NULL}

\* Whoever has a pointer to memory has one to live memory: the tasks that are
\* queued or in a thread's hands are allocated, and the packet buffer of a
\* task, of a handler and of an NBL NDIS has is, although the completion of
\* the NBL races the thread that handed it over.  After the hand-over the
\* thread still has the task but no longer the buffer.
PointersLive ==
  /\ Queued \cup Held \subseteq taskMem
  /\ Queued \subseteq bufferMem
  /\ \A e \in Entries : packet[e] \subseteq bufferMem
  /\ \A p \in Procs :
       task[p] # NULL /\ thread[p] # "release" => task[p] \in bufferMem
  /\ \A t \in Tasks : nbl[t] # "none" => t \in bufferMem

\* Nothing has two owners: no task is in two queues, twice in one, in two
\* threads' hands, or queued while a thread works on it, and a buffer NDIS has
\* is in no queue.  Each of these would end in a second free.
SingleOwner ==
  /\ \A p, q \in Procs : \A i \in DOMAIN queue[p], j \in DOMAIN queue[q] :
       queue[p][i] = queue[q][j] => p = q /\ i = j
  /\ \A p, q \in Procs : task[p] = task[q] /\ task[p] # NULL => p = q
  /\ Queued \cap Held = {}
  /\ \A t \in Queued : nbl[t] = "none"

\* NDIS only gets packets every filter point of their way has accepted: those
\* indicated to the upper layers passed PREROUTING and INPUT, those sent to
\* the NIC passed OUTPUT and POSTROUTING, each once and in this order.
FilteredOnTheWay ==
  /\ \A i \in DOMAIN handed["INPUT"] :
       path[handed["INPUT"][i]] = <<"PREROUTING", "INPUT">>
  /\ \A i \in DOMAIN handed["POSTROUTING"] :
       path[handed["POSTROUTING"][i]] = <<"OUTPUT", "POSTROUTING">>

\* Tasks still allocated that nobody has a pointer to.
Forgotten == taskMem \ (Queued \cup Held)

\* A task is forgotten in two ways only: by RoutingDecisionThread, which gets
\* what FORWARDING accepted and what OUTPUT modified, and by changes of the
\* forwarding mode between PreroutingThread's reads of it.  Every other way
\* out, the failed allocations included, frees the task.
ForgottenOnlyByDesign ==
  \A t \in Forgotten :
    \/ path[t] = <<"PREROUTING", "FORWARDING">>
    \/ path[t] = <<"OUTPUT">> /\ isModified[t]
    \/ path[t] = <<"PREROUTING">> /\ modeChanges > 1

\* When StopRoutingEngine returns nothing is left but forgotten tasks and the
\* buffers NDIS has: what the threads passed on to queues whose thread had
\* already exited is freed too.
StopReclaims ==
  engine = "done" =>
    /\ taskMem \subseteq Forgotten
    /\ \A t \in bufferMem : t \in Forgotten \/ nbl[t] = "ndis"

\* Packets that are not lost reach NDIS in the order they entered: with one
\* thread to a queue none overtakes another on the same way.  A lane holds the
\* packets on the way from an entry to its exit; one that leaves for FORWARDING
\* or RTDECISION counts as lost.
Exit(e) == IF e = "PREROUTING" THEN "INPUT" ELSE "POSTROUTING"
Working(p) == IF p \in Entries THEN Busy ELSE {"filter", "accepted", "mdl", "hand over"}
OnTheWay(p) == (IF thread[p] \in Working(p) THEN <<task[p]>> ELSE <<>>) \o queue[p]
Outside == fresh \cup packet["PREROUTING"] \cup packet["OUTPUT"]
Lane == [e \in Entries |-> OnTheWay(Exit(e)) \o OnTheWay(e)]
Delivered == [e \in Entries |-> handed[Exit(e)]]
Lanes == INSTANCE PacketLanes WITH
  Packets <- Tasks, outside <- Outside, lane <- Lane, delivered <- Delivered
LaneSpec == Lanes!Spec

\* Every packet buffer is freed in the end, or belongs to a forgotten task.
BufferReclaimed ==
  \A t \in Tasks : t \in bufferMem ~> t \notin bufferMem \/ t \in Forgotten

\* StopRoutingEngine returns, whatever the threads are doing and whatever is
\* in the queues.
EngineStops == engine = "flagged" ~> engine = "done"
=============================================================================
