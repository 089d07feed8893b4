-------------------------- MODULE DriverLifecycle --------------------------
(***************************************************************************)
(* The driver from DriverEntry to the end of DriverUnload (winpfilter.c),  *)
(* with everybody who may be at work meanwhile: routing threads, receive   *)
(* handlers, the two callbacks of the IP helper and the IOCTLs.  Of each   *)
(* component the model keeps whether it is initialised and whether it      *)
(* holds anything; what it holds is the matter of the other modules.       *)
(*                                                                         *)
(* Whoever uses something that is not initialised, or no longer there,     *)
(* crashes the machine or gets away with it.                               *)
(***************************************************************************)
EXTENDS Naturals, Sequences

CONSTANTS
  Count,     \* filter points, each with a hook list, a queue and a thread
  MaxTasks   \* bound: tasks in one queue

ASSUME BoundsAssumption == Count \in Nat \ {0} /\ MaxTasks \in Nat

Points == 1..Count
Monitors == {"routes", "addresses"}
Devices == {"R0Device", "R0Link", "R3Device", "R3Link"}

\* Faulty variant: the route table is initialised after the first callback can come.
LoadStepsTableLate ==
  <<"version", "engine", "cache", "register", "monitorRoutes", "routeTables",
    "monitorAddresses", "hooks", "R0Device", "R0Link", "R3Device", "R3Link", "loaded">>

\* The order of DriverEntry.
LoadSteps ==
  <<"version", "engine", "cache", "register", "routeTables", "monitorRoutes",
    "monitorAddresses", "hooks", "R0Device", "R0Link", "R3Device", "R3Link", "loaded">>

\* Faulty variant: the cache is emptied before its monitor is stopped.
ReleaseStepsCacheEarly ==
  <<"deleteDevices", "freeHooks", "freeCache", "stopAddresses", "stopRoutes",
    "cleanRouteTables", "deregister", "stopEngine", "end">>

\* The order of DriverUnload, and of DriverEntry when something has failed.
ReleaseSteps ==
  <<"deleteDevices", "freeHooks", "stopAddresses", "stopRoutes",
    "cleanRouteTables", "deregister", "freeCache", "stopEngine", "end">>

VARIABLES
  pc,         \* next step of DriverEntry or DriverUnload
  index,      \* i of the loops over queues and hook lists
  failedAt,   \* the step of DriverEntry that failed, or "none"
  queue,      \* TaskQueues: none, ready or freed
  tasks,      \* number of tasks in each queue
  thread,     \* routing threads
  threadFlag, \* ThreadFlag
  ready,      \* of "cache" and "routeTables" those initialised
  filled,     \* of these, those that may hold entries
  registered, \* NDIS calls the handlers of the driver
  monitors,   \* notifications requested
  callbacks,  \* callbacks that are running
  hookLock,   \* HookListsLock: null, ready, emptied (all hooks are gone) or freed
  unallocated, \* history: filter points whose lock could not be allocated
  hooks,      \* filter points with hooks
  devices,    \* devices and links that exist
  crash       \* empty, or who found what missing and where the driver was then

threadVars == <<tasks, thread>>
engineVars == <<queue, threadFlag>>
tableVars == <<ready, filled>>
notifyVars == <<monitors, callbacks>>
hookVars == <<hookLock, unallocated, hooks>>
driverVars == <<pc, index, failedAt>>
vars == <<driverVars, engineVars, threadVars, tableVars, registered, notifyVars,
          hookVars, devices, crash>>

Init ==
  /\ pc = "version" /\ index = 1 /\ failedAt = "none"
  /\ queue = [p \in Points |-> "none"] /\ tasks = [p \in Points |-> 0]
  /\ thread = [p \in Points |-> "none"] /\ threadFlag = FALSE
  /\ ready = {} /\ filled = {}
  /\ registered = FALSE
  /\ monitors = {} /\ callbacks = {}
  /\ hookLock = [p \in Points |-> "null"] /\ unallocated = {} /\ hooks = {}
  /\ devices = {}
  /\ crash = {}

Alive == crash = {}

Uses(who, what, there) ==
  \/ UNCHANGED crash
  \/ ~there /\ crash' = {[who |-> who, what |-> what, at |-> pc]}

After(steps) ==
  LET i == CHOOSE i \in DOMAIN steps : steps[i] = pc
  IN  pc' = steps[i + 1] /\ index' = 1

\* One round of a loop over the filter points, the last one ends the step.
Round(steps) ==
  IF index < Count THEN index' = index + 1 /\ UNCHANGED pc ELSE After(steps)

Succeed == After(LoadSteps) /\ UNCHANGED failedAt

Fail ==
  /\ pc' = ReleaseSteps[1] /\ index' = 1
  /\ failedAt' = pc

-----------------------------------------------------------------------------
(* DriverEntry.                                                            *)

NdisGetVersion ==
  /\ pc = "version"
  /\ \/ Succeed /\ threadFlag' = TRUE
     \/ Fail /\ UNCHANGED threadFlag
  /\ UNCHANGED <<queue, threadVars, tableVars, registered, notifyVars, hookVars,
                 devices, crash>>

\* StartRoutingEngine: each thread is created before its queue is initialised.
PsCreateSystemThread ==
  /\ pc = "engine"
  /\ thread[index] = "none"
  /\ thread' = [thread EXCEPT ![index] = "start"]
  /\ UNCHANGED <<driverVars, engineVars, tasks, tableVars, registered, notifyVars,
                 hookVars, devices, crash>>

InitializeQueue ==
  /\ pc = "engine"
  /\ thread[index] # "none"
  /\ queue' = [queue EXCEPT ![index] = "ready"]
  /\ Round(LoadSteps)
  /\ UNCHANGED <<failedAt, threadFlag, threadVars, tableVars, registered, notifyVars,
                 hookVars, devices, crash>>

\* InitializeInterfaceIPCacheManager and InitializeAllRouteTable.
InitializeTable(t) ==
  /\ pc = t
  /\ t \in {"cache", "routeTables"}
  /\ ready' = ready \cup {t}
  /\ filled' = filled \ {t}
  /\ Succeed
  /\ UNCHANGED <<engineVars, threadVars, registered, notifyVars, hookVars, devices, crash>>

NdisFRegisterFilterDriver ==
  /\ pc = "register"
  /\ \/ Succeed /\ registered' = TRUE
     \/ Fail /\ UNCHANGED registered
  /\ UNCHANGED <<engineVars, threadVars, tableVars, notifyVars, hookVars, devices, crash>>

\* StartMonitorSystemRouteTableChange and StartMonitorUnicastIpChange.
StartMonitor(m) ==
  /\ pc = IF m = "routes" THEN "monitorRoutes" ELSE "monitorAddresses"
  /\ \/ Succeed /\ monitors' = monitors \cup {m}
     \/ Fail /\ UNCHANGED monitors
  /\ UNCHANGED <<engineVars, threadVars, tableVars, registered, callbacks, hookVars,
                 devices, crash>>

\* The test after NdisAllocateRWLock is about the array, not about the lock:
\* a failure goes unnoticed.
InitializeFilterHookManager ==
  /\ pc = "hooks"
  /\ \/ hookLock' = [hookLock EXCEPT ![index] = "ready"] /\ UNCHANGED unallocated
     \/ unallocated' = unallocated \cup {index} /\ UNCHANGED hookLock
  /\ Round(LoadSteps)
  /\ UNCHANGED <<failedAt, engineVars, threadVars, tableVars, registered, notifyVars,
                 hooks, devices, crash>>

IoCreateDevice(d) ==
  /\ pc = d
  /\ d \in Devices
  /\ \/ Succeed /\ devices' = devices \cup {d}
     \/ Fail /\ UNCHANGED devices
  /\ UNCHANGED <<engineVars, threadVars, tableVars, registered, notifyVars, hookVars, crash>>

DriverEntry ==
  \/ NdisGetVersion \/ PsCreateSystemThread \/ InitializeQueue
  \/ NdisFRegisterFilterDriver \/ InitializeFilterHookManager
  \/ \E t \in {"cache", "routeTables"} : InitializeTable(t)
  \/ \E m \in Monitors : StartMonitor(m)
  \/ \E d \in Devices : IoCreateDevice(d)

-----------------------------------------------------------------------------
(* DriverUnload.  Nobody has a device open.                                *)

DriverUnload ==
  /\ pc = "loaded"
  /\ pc' = ReleaseSteps[1]
  /\ UNCHANGED <<index, failedAt, engineVars, threadVars, tableVars, registered, notifyVars,
                 hookVars, devices, crash>>

IoDeleteDevices ==
  /\ pc = "deleteDevices"
  /\ devices' = {}
  /\ After(ReleaseSteps)
  /\ UNCHANGED <<failedAt, engineVars, threadVars, tableVars, registered, notifyVars,
                 hookVars, crash>>

LockThere(p) == hookLock[p] \in {"ready", "emptied"}

\* FreeFilterHookManager: UnregisterAllHooks waits for the thread that walks the
\* list, but another packet may come before NdisFreeRWLock.  Without a lock both
\* are one step.
UnregisterAllHooks ==
  /\ pc = "freeHooks"
  /\ hookLock[index] = "ready"
  /\ thread[index] # "walk"
  /\ hookLock' = [hookLock EXCEPT ![index] = "emptied"]
  /\ hooks' = hooks \ {index}
  /\ UNCHANGED <<driverVars, engineVars, threadVars, tableVars, registered, notifyVars,
                 unallocated, devices, crash>>

NdisFreeRWLock ==
  /\ pc = "freeHooks"
  /\ hookLock[index] # "ready"
  /\ hookLock' = [hookLock EXCEPT ![index] = "freed"]
  /\ hooks' = hooks \ {index}
  /\ IF LockThere(index)
     THEN Uses("thread", "hooks", thread[index] # "walk")
     ELSE Uses("cleanup", "hooks", FALSE)
  /\ Round(ReleaseSteps)
  /\ UNCHANGED <<failedAt, engineVars, threadVars, tableVars, registered, notifyVars,
                 unallocated, devices>>

\* CancelMibChangeNotify2 waits for a callback that is running.
StopMonitor(m) ==
  /\ pc = IF m = "routes" THEN "stopRoutes" ELSE "stopAddresses"
  /\ m \notin callbacks
  /\ monitors' = monitors \ {m}
  /\ After(ReleaseSteps)
  /\ UNCHANGED <<failedAt, engineVars, threadVars, tableVars, registered, callbacks,
                 hookVars, devices, crash>>

\* FreeInterfaceIPCacheManager and CleanupAllRouteTable.
CleanTable(t) ==
  /\ pc = IF t = "cache" THEN "freeCache" ELSE "cleanRouteTables"
  /\ filled' = filled \ {t}
  /\ Uses("cleanup", t, t \in ready)
  /\ After(ReleaseSteps)
  /\ UNCHANGED <<failedAt, engineVars, threadVars, ready, registered, notifyVars,
                 hookVars, devices>>

\* NDIS detaches all modules and no handler runs when the call returns.
NdisFDeregisterFilterDriver ==
  /\ pc = "deregister"
  /\ registered' = FALSE
  /\ Uses("cleanup", "registration", registered)
  /\ After(ReleaseSteps)
  /\ UNCHANGED <<failedAt, engineVars, threadVars, tableVars, notifyVars, hookVars, devices>>

\* Faulty variant: the threads are not told.
StopThreadsUntold ==
  /\ pc = "stopEngine"
  /\ threadFlag
  /\ UNCHANGED vars

\* StopRoutingEngine tells the threads and joins them.
StopThreads ==
  /\ pc = "stopEngine"
  /\ threadFlag
  /\ threadFlag' = FALSE
  /\ UNCHANGED <<driverVars, queue, threadVars, tableVars, registered, notifyVars,
                 hookVars, devices, crash>>

DrainQueues ==
  /\ pc = "stopEngine"
  /\ ~threadFlag
  /\ \A p \in Points : thread[p] \in {"none", "exit"}
  /\ tasks' = [p \in Points |-> 0]
  /\ queue' = [p \in Points |-> "freed"]
  /\ Uses("cleanup", "threads", \A p \in Points : thread[p] = "exit")
  /\ After(ReleaseSteps)
  /\ UNCHANGED <<failedAt, threadFlag, thread, tableVars, registered, notifyVars,
                 hookVars, devices>>

Release ==
  \/ IoDeleteDevices \/ UnregisterAllHooks \/ NdisFreeRWLock
  \/ \E m \in Monitors : StopMonitor(m)
  \/ \E t \in {"cache", "routeTables"} : CleanTable(t)
  \/ NdisFDeregisterFilterDriver \/ StopThreads \/ DrainQueues

-----------------------------------------------------------------------------
(* The routing threads.                                                    *)

Go(p, label) == thread' = [thread EXCEPT ![p] = label]

\* A thread tests ThreadFlag before its first wait; the wait finds the event of
\* its queue initialised, or not yet.
ThreadStart(p) ==
  /\ thread[p] = "start"
  /\ IF threadFlag
     THEN Go(p, "loop") /\ Uses("thread", "event", queue[p] = "ready")
     ELSE Go(p, "exit") /\ UNCHANGED crash
  /\ UNCHANGED <<driverVars, engineVars, tasks, tableVars, registered, notifyVars,
                 hookVars, devices>>

Dequeue(p) ==
  /\ thread[p] = "loop"
  /\ tasks[p] > 0
  /\ tasks' = [tasks EXCEPT ![p] = @ - 1]
  /\ Go(p, "filter")
  /\ UNCHANGED <<driverVars, engineVars, tableVars, registered, notifyVars, hookVars,
                 devices, crash>>

\* FilterEthernetPacket from the acquisition of the lock to its release.
FilterAcquire(p) ==
  /\ thread[p] = "filter"
  /\ Go(p, IF LockThere(p) THEN "walk" ELSE "pass")
  /\ Uses("thread", "hooks", LockThere(p))
  /\ UNCHANGED <<driverVars, engineVars, tasks, tableVars, registered, notifyVars,
                 hookVars, devices>>

FilterRelease(p) ==
  /\ thread[p] = "walk"
  /\ Go(p, "pass")
  /\ UNCHANGED <<driverVars, engineVars, tasks, tableVars, registered, notifyVars,
                 hookVars, devices, crash>>

\* The task goes to another queue, or it is given to NDIS or freed.
Pass(p) ==
  /\ thread[p] = "pass"
  /\ Go(p, "loop")
  /\ \/ UNCHANGED <<tasks, crash>>
     \/ \E next \in Points :
          /\ next > p /\ tasks[next] < MaxTasks
          /\ tasks' = [tasks EXCEPT ![next] = @ + 1]
          /\ Uses("thread", "queue", queue[next] = "ready")
  /\ UNCHANGED <<driverVars, engineVars, tableVars, registered, notifyVars, hookVars, devices>>

ThreadExit(p) ==
  /\ thread[p] = "loop"
  /\ ~threadFlag
  /\ Go(p, "exit")
  /\ UNCHANGED <<driverVars, engineVars, tasks, tableVars, registered, notifyVars,
                 hookVars, devices, crash>>

Thread(p) ==
  \/ ThreadStart(p) \/ Dequeue(p) \/ FilterAcquire(p) \/ FilterRelease(p)
  \/ Pass(p) \/ ThreadExit(p)

-----------------------------------------------------------------------------
(* Receive handlers, callbacks and IOCTLs.                                 *)

Receive(p) ==
  /\ registered
  /\ tasks[p] < MaxTasks
  /\ tasks' = [tasks EXCEPT ![p] = @ + 1]
  /\ Uses("handler", "queue", queue[p] = "ready")
  /\ UNCHANGED <<driverVars, engineVars, thread, tableVars, registered, notifyVars,
                 hookVars, devices>>

Table(m) == IF m = "routes" THEN "routeTables" ELSE "cache"

CallbackBegins(m) ==
  /\ m \in monitors \ callbacks
  /\ callbacks' = callbacks \cup {m}
  /\ UNCHANGED <<driverVars, engineVars, threadVars, tableVars, registered, monitors,
                 hookVars, devices, crash>>

\* The table is emptied and filled again.
CallbackReturns(m) ==
  /\ m \in callbacks
  /\ callbacks' = callbacks \ {m}
  /\ filled' \in {filled \ {Table(m)}, filled \cup {Table(m)}}
  /\ Uses("callback", Table(m), Table(m) \in ready)
  /\ UNCHANGED <<driverVars, engineVars, threadVars, ready, registered, monitors,
                 hookVars, devices>>

\* The I/O manager lets nobody in before DriverEntry has returned.
DeviceIoControl(p) ==
  /\ pc = "loaded"
  /\ LockThere(p) => thread[p] # "walk"
  /\ hooks' \in {hooks \ {p}, hooks \cup {p}}
  /\ Uses("ioctl", "hooks", LockThere(p))
  /\ UNCHANGED <<driverVars, engineVars, threadVars, tableVars, registered, notifyVars,
                 hookLock, unallocated, devices>>

Act ==
  \/ DriverEntry \/ DriverUnload \/ Release
  \/ \E p \in Points : Thread(p) \/ Receive(p) \/ DeviceIoControl(p)
  \/ \E m \in Monitors : CallbackBegins(m) \/ CallbackReturns(m)

Next ==
  \/ Alive /\ Act
  \/ (~Alive \/ pc = "end") /\ UNCHANGED vars

\* Threads run; a writer gets the hook lock although packets come again and
\* again; notifications are not so frequent that one is always running.
Fairness ==
  /\ WF_vars(Alive /\ DriverEntry) /\ SF_vars(Alive /\ Release)
  /\ \A p \in Points : WF_vars(Alive /\ Thread(p))
  /\ \A m \in Monitors : WF_vars(Alive /\ CallbackReturns(m))

Spec == Init /\ [][Next]_vars
FairSpec == Spec /\ Fairness

-----------------------------------------------------------------------------

SetOf(steps) == {steps[i] : i \in DOMAIN steps}

TypeOK ==
  /\ pc \in SetOf(LoadSteps) \cup SetOf(ReleaseSteps) /\ index \in Points
  /\ failedAt \in SetOf(LoadSteps) \cup {"none"}
  /\ queue \in [Points -> {"none", "ready", "freed"}]
  /\ tasks \in [Points -> 0..MaxTasks]
  /\ thread \in [Points -> {"none", "start", "loop", "filter", "walk", "pass", "exit"}]
  /\ threadFlag \in BOOLEAN /\ registered \in BOOLEAN
  /\ ready \subseteq {"cache", "routeTables"} /\ filled \subseteq ready
  /\ monitors \subseteq Monitors /\ callbacks \subseteq monitors
  /\ hookLock \in [Points -> {"null", "ready", "emptied", "freed"}]
  /\ hooks \subseteq Points /\ devices \subseteq Devices
  /\ unallocated \subseteq Points
  /\ crash \subseteq
       [who : {"cleanup", "thread", "handler", "callback", "ioctl"},
        what : {"hooks", "cache", "routeTables", "registration", "threads", "event", "queue"},
        at : SetOf(LoadSteps) \cup SetOf(ReleaseSteps)]

CrashOf(who) == {c \in crash : c.who = who}

\* Packets, notifications and IOCTLs may come at any time from the moment the
\* driver asks for them until it no longer wants them.  They find what they work
\* on: queues are there for the handlers, the cache and the route tables for the
\* callbacks, the hook lists for the IOCTLs, except a lock whose allocation has
\* failed.
EntryPointsFindState ==
  /\ CrashOf("handler") = {} /\ CrashOf("callback") = {}
  /\ CrashOf("ioctl") # {} => unallocated # {}

\* Failures of DriverEntry before the hook lists are initialised.
EarlyFailures == {"version", "register", "monitorRoutes", "monitorAddresses"}

\* Routing threads find their queues and hook lists while the driver is loaded.
\* They do not where the code leaves a gap: before the queue of a thread is
\* initialised, between the registration of the filter driver and the hook lists,
\* from the release of the hook lists on, after a failure before the hook lists, and
\* without a lock that could not be allocated.
ThreadsFindState ==
  \A c \in CrashOf("thread") :
    \/ c.what = "event" /\ c.at = "engine"
    \/ c.what = "hooks" /\
         \/ c.at \in {"routeTables", "monitorRoutes", "monitorAddresses", "hooks"}
         \/ c.at \in SetOf(ReleaseSteps) \ {"deleteDevices", "end"}
         \/ failedAt \in EarlyFailures
         \/ unallocated # {}

\* What DriverUnload releases has been set up, and so has what DriverEntry
\* releases once the hook lists are there.  A load that fails earlier releases
\* hook locks, and a registration and route tables, that it never had.
CleanupFindsState ==
  \A c \in CrashOf("cleanup") :
    CASE c.what = "hooks" -> failedAt \in EarlyFailures \/ unallocated # {}
      [] c.what \in {"routeTables", "registration"} -> failedAt \in {"version", "register"}
      [] OTHER -> failedAt = "version"

\* Whoever is at work while the driver loads or goes finds what it works on, but
\* for the gaps named above.
EverybodyFindsState == EntryPointsFindState /\ ThreadsFindState /\ CleanupFindsState

\* At the end of DriverUnload, or of a load that has failed, whatever step it was,
\* nothing is left running, registered or allocated: nobody who was still at work
\* has filled again what had been emptied.
NothingLeftBehind ==
  pc = "end" =>
    /\ \A p \in Points : thread[p] \in {"none", "exit"} /\ tasks[p] = 0
    /\ \A p \in Points : queue[p] = "freed" /\ hookLock[p] = "freed"
    /\ filled = {} /\ hooks = {} /\ devices = {}
    /\ ~registered /\ monitors = {} /\ callbacks = {}

\* DriverUnload returns, whatever packets and notifications come, and so does
\* DriverEntry after a failure, unless they crash: every wait for a walker, a
\* callback or a thread ends.
ReleaseEnds == pc \in SetOf(ReleaseSteps) ~> pc = "end" \/ ~Alive
=============================================================================
