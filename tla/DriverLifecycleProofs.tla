------------------------ MODULE DriverLifecycleProofs ------------------------
(***************************************************************************)
(* Proofs about loading and unloading the driver, for any number of filter *)
(* points and any bound on the queues.                                     *)
(*                                                                         *)
(* The invariant says, for each place where DriverEntry or DriverUnload    *)
(* may be, what is set up and what is released.  Where DriverUnload cleans *)
(* up after a load that has failed, that depends on the step that failed.  *)
(***************************************************************************)
EXTENDS DriverLifecycle, TLAPS

-----------------------------------------------------------------------------
(* Where the driver is.                                                    *)

Loading ==
  {"version", "engine", "cache", "register", "routeTables", "monitorRoutes",
   "monitorAddresses", "hooks", "R0Device", "R0Link", "R3Device", "R3Link", "loaded"}

Releasing ==
  {"deleteDevices", "freeHooks", "stopAddresses", "stopRoutes", "cleanRouteTables",
   "deregister", "freeCache", "stopEngine", "end"}

\* The step that DriverEntry has come to, or came to before it failed.
Reached == IF pc \in Loading THEN pc ELSE IF failedAt = "none" THEN "loaded" ELSE failedAt

\* Steps of DriverEntry that have been executed.
CacheUp == Reached \notin {"version", "engine", "cache"}
RegisterUp == CacheUp /\ Reached # "register"
TablesUp == RegisterUp /\ Reached # "routeTables"
RoutesUp == TablesUp /\ Reached # "monitorRoutes"
AddressesUp == RoutesUp /\ Reached # "monitorAddresses"
HooksUp == AddressesUp /\ Reached # "hooks"

\* The routing threads are created and not joined.
EngineRuns == pc \notin {"version", "engine", "end"} /\ failedAt # "version"

-----------------------------------------------------------------------------
(* The invariant.                                                          *)

PhaseInv ==
  /\ pc \in Loading => failedAt = "none"
  /\ failedAt \in {"none", "version", "register", "monitorRoutes", "monitorAddresses",
                   "R0Device", "R0Link", "R3Device", "R3Link"}
  /\ pc \notin {"engine", "hooks", "freeHooks"} => index = 1

EngineInv ==
  /\ pc = "version" \/ failedAt = "version" => \A p \in Points : thread[p] = "none"
  /\ pc = "engine" => \A p \in Points : p < index => queue[p] = "ready" /\ thread[p] # "none"
  /\ EngineRuns => \A p \in Points : queue[p] = "ready" /\ thread[p] # "none"
  /\ pc = "end" => \A p \in Points :
       queue[p] = "freed" /\ tasks[p] = 0 /\ thread[p] \in {"none", "exit"}

\* Before packets come the threads wait for the first one.
StartInv ==
  pc \in {"version", "engine", "cache", "register"} => \A p \in Points :
    tasks[p] = 0 /\ thread[p] \in {"none", "start", "loop", "exit"}

TableInv ==
  /\ CacheUp => "cache" \in ready
  /\ TablesUp => "routeTables" \in ready
  /\ pc \in {"deregister", "freeCache", "stopEngine", "end"} => "routeTables" \notin filled
  /\ pc \in {"stopEngine", "end"} => "cache" \notin filled

RegisterInv ==
  registered <=> RegisterUp /\ pc \notin {"freeCache", "stopEngine", "end"}

NotifyInv ==
  /\ "routes" \in monitors =>
       RoutesUp /\ pc \notin {"cleanRouteTables", "deregister", "freeCache", "stopEngine", "end"}
  /\ "addresses" \in monitors =>
       AddressesUp /\ pc \notin {"stopRoutes", "cleanRouteTables", "deregister", "freeCache",
                                 "stopEngine", "end"}

LockUp(p) == hookLock[p] \in {"ready", "emptied"} \/ p \in unallocated

HookInv ==
  /\ pc = "hooks" => \A p \in Points : p < index => LockUp(p)
  /\ HooksUp /\ pc \in Loading \cup {"deleteDevices"} => \A p \in Points : LockUp(p)
  /\ pc = "freeHooks" => \A p \in Points :
       /\ p < index => hookLock[p] = "freed" /\ p \notin hooks
       /\ p >= index /\ HooksUp => LockUp(p)
  /\ pc \in Releasing \ {"deleteDevices", "freeHooks"} =>
       hooks = {} /\ \A p \in Points : hookLock[p] = "freed"

DeviceInv == pc \in Releasing \ {"deleteDevices"} => devices = {}

-----------------------------------------------------------------------------
(* The order of the steps.                                                 *)

LEMMA LoadOrder ==
  /\ DOMAIN LoadSteps = 1..13
  /\ LoadSteps[1] = "version"
  /\ LoadSteps[2] = "engine"
  /\ LoadSteps[3] = "cache"
  /\ LoadSteps[4] = "register"
  /\ LoadSteps[5] = "routeTables"
  /\ LoadSteps[6] = "monitorRoutes"
  /\ LoadSteps[7] = "monitorAddresses"
  /\ LoadSteps[8] = "hooks"
  /\ LoadSteps[9] = "R0Device"
  /\ LoadSteps[10] = "R0Link"
  /\ LoadSteps[11] = "R3Device"
  /\ LoadSteps[12] = "R3Link"
  /\ LoadSteps[13] = "loaded"
<1>1. LoadSteps \in Seq(Loading) /\ Len(LoadSteps) = 13
  BY DEF LoadSteps, Loading
<1>2. DOMAIN LoadSteps = 1..13
  BY <1>1
<1>3. QED
  BY <1>2 DEF LoadSteps

LEMMA ReleaseOrder ==
  /\ DOMAIN ReleaseSteps = 1..9
  /\ ReleaseSteps[1] = "deleteDevices"
  /\ ReleaseSteps[2] = "freeHooks"
  /\ ReleaseSteps[3] = "stopAddresses"
  /\ ReleaseSteps[4] = "stopRoutes"
  /\ ReleaseSteps[5] = "cleanRouteTables"
  /\ ReleaseSteps[6] = "deregister"
  /\ ReleaseSteps[7] = "freeCache"
  /\ ReleaseSteps[8] = "stopEngine"
  /\ ReleaseSteps[9] = "end"
<1>1. ReleaseSteps \in Seq(Releasing) /\ Len(ReleaseSteps) = 9
  BY DEF ReleaseSteps, Releasing
<1>2. DOMAIN ReleaseSteps = 1..9
  BY <1>1
<1>3. QED
  BY <1>2 DEF ReleaseSteps

LEMMA Labels == SetOf(LoadSteps) = Loading /\ SetOf(ReleaseSteps) = Releasing
<1>1. SetOf(LoadSteps) = Loading
  BY LoadOrder DEF SetOf, Loading
<1>2. SetOf(ReleaseSteps) = Releasing
  BY ReleaseOrder DEF SetOf, Releasing
<1>3. QED
  BY <1>1, <1>2

\* A step that is in the list once is followed by the one behind it.
LEMMA Follows ==
  ASSUME NEW steps, NEW k \in DOMAIN steps, steps[k] = pc,
         \A i \in DOMAIN steps : steps[i] = pc => i = k,
         After(steps)
  PROVE  pc' = steps[k+1] /\ index' = 1
<1>1. (CHOOSE i \in DOMAIN steps : steps[i] = pc) = k
  OBVIOUS
<1>2. QED
  BY <1>1 DEF After

\* DriverEntry goes from each step to the next one.
LEMMA AfterLoad ==
  ASSUME After(LoadSteps)
  PROVE  /\ index' = 1
         /\ pc = "version" => pc' = "engine"
         /\ pc = "engine" => pc' = "cache"
         /\ pc = "cache" => pc' = "register"
         /\ pc = "register" => pc' = "routeTables"
         /\ pc = "routeTables" => pc' = "monitorRoutes"
         /\ pc = "monitorRoutes" => pc' = "monitorAddresses"
         /\ pc = "monitorAddresses" => pc' = "hooks"
         /\ pc = "hooks" => pc' = "R0Device"
         /\ pc = "R0Device" => pc' = "R0Link"
         /\ pc = "R0Link" => pc' = "R3Device"
         /\ pc = "R3Device" => pc' = "R3Link"
         /\ pc = "R3Link" => pc' = "loaded"
<1>1. \A i, j \in 1..13 : LoadSteps[i] = LoadSteps[j] => i = j
  BY LoadOrder
<1>2. \A k \in 1..13 : LoadSteps[k] = pc => pc' = LoadSteps[k+1]
  BY <1>1, LoadOrder, Follows
<1>3. QED
  BY <1>2, LoadOrder DEF After

\* DriverUnload too.
LEMMA AfterRelease ==
  ASSUME After(ReleaseSteps)
  PROVE  /\ index' = 1
         /\ pc = "deleteDevices" => pc' = "freeHooks"
         /\ pc = "freeHooks" => pc' = "stopAddresses"
         /\ pc = "stopAddresses" => pc' = "stopRoutes"
         /\ pc = "stopRoutes" => pc' = "cleanRouteTables"
         /\ pc = "cleanRouteTables" => pc' = "deregister"
         /\ pc = "deregister" => pc' = "freeCache"
         /\ pc = "freeCache" => pc' = "stopEngine"
         /\ pc = "stopEngine" => pc' = "end"
<1>1. \A i, j \in 1..9 : ReleaseSteps[i] = ReleaseSteps[j] => i = j
  BY ReleaseOrder
<1>2. \A k \in 1..9 : ReleaseSteps[k] = pc => pc' = ReleaseSteps[k+1]
  BY <1>1, ReleaseOrder, Follows
<1>3. QED
  BY <1>2, ReleaseOrder DEF After


-----------------------------------------------------------------------------
(* DriverEntry.                                                            *)

\* The types of the variables, with the labels spelled out.
LEMMA Types ==
  TypeOK <=>
  /\ pc \in Loading \cup Releasing /\ index \in Points
  /\ failedAt \in Loading \cup {"none"}
  /\ queue \in [Points -> {"none", "ready", "freed"}]
  /\ tasks \in [Points -> 0..MaxTasks]
  /\ thread \in [Points -> {"none", "start", "loop", "filter", "walk", "pass", "exit"}]
  /\ threadFlag \in BOOLEAN /\ registered \in BOOLEAN
  /\ ready \subseteq {"cache", "routeTables"} /\ filled \subseteq ready
  /\ monitors \subseteq Monitors /\ callbacks \subseteq monitors
  /\ hookLock \in [Points -> {"null", "ready", "emptied", "freed"}]
  /\ hooks \subseteq Points /\ devices \subseteq Devices
  /\ unallocated \subseteq Points
  /\ crash \subseteq
       [who : {"cleanup", "thread", "handler", "callback", "ioctl"},
        what : {"hooks", "cache", "routeTables", "registration", "threads", "event", "queue"},
        at : Loading \cup Releasing]
BY Labels DEF TypeOK

\* What is not about types.
ProgressInv ==
  /\ PhaseInv /\ EngineInv /\ StartInv /\ TableInv
  /\ RegisterInv /\ NotifyInv /\ HookInv /\ DeviceInv

\* Only these steps can fail.
LEMMA FailingSteps ==
  ASSUME DriverEntry, Fail
  PROVE  /\ pc \in {"version", "register", "monitorRoutes", "monitorAddresses",
                    "R0Device", "R0Link", "R3Device", "R3Link"}
         /\ UNCHANGED <<queue, threadVars, tableVars, registered, notifyVars, hookVars, devices>>
<1> DEFINE Goal == /\ pc \in {"version", "register", "monitorRoutes", "monitorAddresses",
                              "R0Device", "R0Link", "R3Device", "R3Link"}
                   /\ UNCHANGED <<queue, threadVars, tableVars, registered, notifyVars, hookVars,
                                  devices>>
<1> USE DEF engineVars, threadVars, tableVars, notifyVars, hookVars, driverVars
<1>1. pc' = "deleteDevices" /\ failedAt' = pc
  BY ReleaseOrder DEF Fail
<1>2. After(LoadSteps) => pc \notin {"version", "engine", "cache", "register", "routeTables",
        "monitorRoutes", "monitorAddresses", "hooks", "R0Device", "R0Link", "R3Device", "R3Link"}
  BY <1>1, AfterLoad
<1>3. CASE NdisGetVersion
  BY <1>2, <1>3 DEF NdisGetVersion, Succeed
<1>4. CASE NdisFRegisterFilterDriver
  BY <1>2, <1>4 DEF NdisFRegisterFilterDriver, Succeed
<1>5. ASSUME NEW m \in Monitors, StartMonitor(m) PROVE Goal
  BY <1>2, <1>5 DEF StartMonitor, Succeed, Monitors
<1>6. ASSUME NEW d \in Devices, IoCreateDevice(d) PROVE Goal
  BY <1>2, <1>6 DEF IoCreateDevice, Succeed, Devices
<1>7. ~PsCreateSystemThread
  BY <1>1 DEF PsCreateSystemThread
<1>8. ~InitializeQueue
  BY <1>1, <1>2 DEF InitializeQueue, Round
<1>9. ~InitializeFilterHookManager
  BY <1>1, <1>2 DEF InitializeFilterHookManager, Round
<1>10. ~(\E t \in {"cache", "routeTables"} : InitializeTable(t))
  BY <1>2 DEF InitializeTable, Succeed
<1>11. QED
  BY <1>3, <1>4, <1>5, <1>6, <1>7, <1>8, <1>9, <1>10 DEF DriverEntry

\* A step that fails leaves everything as it is but the step to come.
LEMMA FailStep ==
  ASSUME TypeOK, ProgressInv, Fail,
         pc \in {"version", "register", "monitorRoutes", "monitorAddresses",
                 "R0Device", "R0Link", "R3Device", "R3Link"},
         UNCHANGED <<queue, threadVars, tableVars, registered, notifyVars, hookVars, devices>>
  PROVE  ProgressInv'
<1> USE DEF threadVars, tableVars, notifyVars, hookVars, ProgressInv
<1>1. pc' = "deleteDevices" /\ index' = 1 /\ failedAt' = pc /\ pc \in Loading
  BY ReleaseOrder DEF Fail, Loading
<1>2. Reached' = Reached
  BY <1>1 DEF Reached, Loading
<1>3. /\ CacheUp' <=> CacheUp
      /\ RegisterUp' <=> RegisterUp
      /\ TablesUp' <=> TablesUp
      /\ RoutesUp' <=> RoutesUp
      /\ AddressesUp' <=> AddressesUp
      /\ HooksUp' <=> HooksUp
  BY <1>2 DEF CacheUp, RegisterUp, TablesUp, RoutesUp, AddressesUp, HooksUp
<1>4. PhaseInv' /\ DeviceInv' /\ StartInv'
  BY <1>1 DEF PhaseInv, DeviceInv, StartInv, Loading
<1>5. EngineInv'
  BY <1>1 DEF EngineInv, EngineRuns, PhaseInv
<1>6. TableInv' /\ RegisterInv' /\ NotifyInv'
  <2>1. TableInv'
    BY <1>1, <1>3 DEF TableInv, Loading
  <2>2. RegisterInv'
    BY <1>1, <1>3 DEF RegisterInv, Loading
  <2>3. NotifyInv'
    BY <1>1, <1>3 DEF NotifyInv, Loading
  <2>4. QED
    BY <2>1, <2>2, <2>3
<1>7. HookInv'
  <2>1. \A p \in Points : LockUp(p)' <=> LockUp(p)
    BY DEF LockUp
  <2>2. HooksUp => \A p \in Points : LockUp(p)
    BY <1>1 DEF HookInv
  <2>3. QED
    BY <1>1, <1>3, <2>1, <2>2 DEF HookInv
<1>8. QED
  BY <1>4, <1>5, <1>6, <1>7

\* DriverEntry, where a step succeeds.
LEMMA EntryStep ==
  ASSUME TypeOK, ProgressInv, DriverEntry, ~Fail
  PROVE  ProgressInv'
<1> USE Types
    DEF engineVars, threadVars, tableVars, notifyVars, hookVars, driverVars, Loading, Releasing,
        Reached, CacheUp, RegisterUp, TablesUp, RoutesUp, AddressesUp, HooksUp, EngineRuns, LockUp
<1> USE DEF ProgressInv, PhaseInv, EngineInv, StartInv, TableInv, RegisterInv, NotifyInv, HookInv,
            DeviceInv
<1>1. CASE NdisGetVersion
  <2>1. pc = "version" /\ pc' = "engine" /\ index' = 1 /\ failedAt' = failedAt
    BY <1>1, AfterLoad DEF NdisGetVersion, Succeed
  <2>2. QED
    BY <1>1, <2>1, BoundsAssumption DEF NdisGetVersion, Points
<1>2. CASE PsCreateSystemThread
  BY <1>2 DEF PsCreateSystemThread
<1>3. CASE InitializeQueue
  <2>1. pc = "engine" /\ queue' = [queue EXCEPT ![index] = "ready"] /\ thread[index] # "none"
    BY <1>3 DEF InitializeQueue
  <2>2. CASE index < Count
    <3>1. UNCHANGED pc /\ index' = index + 1
      BY <1>3, <2>2 DEF InitializeQueue, Round
    <3>2. QED
      BY <1>3, <2>1, <3>1 DEF InitializeQueue, Points
  <2>3. CASE ~(index < Count)
    <3>1. pc' = "cache" /\ index' = 1
      BY <1>3, <2>1, <2>3, AfterLoad DEF InitializeQueue, Round
    <3>2. \A p \in Points : p < index \/ p = index
      BY <2>3, BoundsAssumption DEF Points
    <3>3. QED
      BY <1>3, <2>1, <3>1, <3>2 DEF InitializeQueue
  <2>4. QED
    BY <2>2, <2>3
<1>4. CASE InitializeTable("cache")
  <2>1. pc = "cache" /\ pc' = "register" /\ index' = 1 /\ failedAt' = failedAt
    BY <1>4, AfterLoad DEF InitializeTable, Succeed
  <2>2. QED
    BY <1>4, <2>1 DEF InitializeTable
<1>5. CASE InitializeTable("routeTables")
  <2>1. pc = "routeTables" /\ pc' = "monitorRoutes" /\ index' = 1 /\ failedAt' = failedAt
    BY <1>5, AfterLoad DEF InitializeTable, Succeed
  <2>2. QED
    BY <1>5, <2>1 DEF InitializeTable
<1>6. CASE NdisFRegisterFilterDriver
  <2>1. /\ pc = "register" /\ pc' = "routeTables" /\ index' = 1 /\ failedAt' = failedAt
        /\ registered'
    BY <1>6, AfterLoad DEF NdisFRegisterFilterDriver, Succeed
  <2>2. QED
    BY <1>6, <2>1 DEF NdisFRegisterFilterDriver
<1>7. CASE StartMonitor("routes")
  <2>1. /\ pc = "monitorRoutes" /\ pc' = "monitorAddresses" /\ index' = 1 /\ failedAt' = failedAt
        /\ monitors' = monitors \cup {"routes"}
    BY <1>7, AfterLoad DEF StartMonitor, Succeed
  <2>2. QED
    BY <1>7, <2>1 DEF StartMonitor
<1>8. CASE StartMonitor("addresses")
  <2>1. /\ pc = "monitorAddresses" /\ pc' = "hooks" /\ index' = 1 /\ failedAt' = failedAt
        /\ monitors' = monitors \cup {"addresses"}
    BY <1>8, AfterLoad DEF StartMonitor, Succeed
  <2>2. QED
    BY <1>8, <2>1, BoundsAssumption DEF StartMonitor, Points
<1>9. CASE InitializeFilterHookManager
  <2>1. /\ pc = "hooks" /\ failedAt' = failedAt
        /\ \A p \in Points : LockUp(p) \/ p = index => LockUp(p)'
    BY <1>9 DEF InitializeFilterHookManager
  <2>2. CASE index < Count
    <3>1. UNCHANGED pc /\ index' = index + 1
      BY <1>9, <2>2 DEF InitializeFilterHookManager, Round
    <3>2. QED
      BY <1>9, <2>1, <3>1 DEF InitializeFilterHookManager, Points
  <2>3. CASE ~(index < Count)
    <3>1. pc' = "R0Device" /\ index' = 1
      BY <1>9, <2>1, <2>3, AfterLoad DEF InitializeFilterHookManager, Round
    <3>2. \A p \in Points : p < index \/ p = index
      BY <2>3, BoundsAssumption DEF Points
    <3>3. QED
      BY <1>9, <2>1, <3>1, <3>2 DEF InitializeFilterHookManager
  <2>4. QED
    BY <2>2, <2>3
<1>10. ASSUME NEW d \in Devices, IoCreateDevice(d)
       PROVE  ProgressInv'
  <2>1. /\ pc \in {"R0Device", "R0Link", "R3Device", "R3Link"}
        /\ pc' \in {"R0Link", "R3Device", "R3Link", "loaded"}
        /\ index' = 1 /\ failedAt' = failedAt
    BY <1>10, AfterLoad DEF IoCreateDevice, Succeed, Devices
  <2>2. QED
    BY <1>10, <2>1 DEF IoCreateDevice
<1> HIDE DEF ProgressInv
<1>11. QED
  BY <1>1, <1>2, <1>3, <1>4, <1>5, <1>6, <1>7, <1>8, <1>9, <1>10 DEF DriverEntry, Monitors

-----------------------------------------------------------------------------
(* DriverUnload.                                                           *)

LEMMA ReleaseStep ==
  ASSUME TypeOK, ProgressInv, DriverUnload \/ Release
  PROVE  ProgressInv'
<1> USE Types
    DEF engineVars, threadVars, tableVars, notifyVars, hookVars, driverVars, Loading, Releasing,
        Reached, CacheUp, RegisterUp, TablesUp, RoutesUp, AddressesUp, HooksUp, EngineRuns, LockUp
<1> USE DEF ProgressInv, PhaseInv, EngineInv, StartInv, TableInv, RegisterInv, NotifyInv, HookInv,
            DeviceInv
<1>1. CASE DriverUnload
  <2>1. pc = "loaded" /\ pc' = "deleteDevices" /\ UNCHANGED <<index, failedAt>>
    BY <1>1, ReleaseOrder DEF DriverUnload
  <2>2. QED
    BY <1>1, <2>1 DEF DriverUnload
<1>2. CASE IoDeleteDevices
  <2>1. pc = "deleteDevices" /\ pc' = "freeHooks" /\ index' = 1 /\ UNCHANGED failedAt
    BY <1>2, AfterRelease DEF IoDeleteDevices
  <2>2. QED
    BY <1>2, <2>1, BoundsAssumption DEF IoDeleteDevices, Points
<1>3. CASE UnregisterAllHooks
  BY <1>3 DEF UnregisterAllHooks
<1>4. CASE NdisFreeRWLock
  <2>1. /\ pc = "freeHooks" /\ hookLock' = [hookLock EXCEPT ![index] = "freed"]
        /\ hooks' = hooks \ {index}
    BY <1>4 DEF NdisFreeRWLock
  <2>2. CASE index < Count
    <3>1. UNCHANGED pc /\ index' = index + 1
      BY <1>4, <2>2 DEF NdisFreeRWLock, Round
    <3>2. QED
      BY <1>4, <2>1, <3>1 DEF NdisFreeRWLock, Points
  <2>3. CASE ~(index < Count)
    <3>1. pc' = "stopAddresses" /\ index' = 1
      BY <1>4, <2>1, <2>3, AfterRelease DEF NdisFreeRWLock, Round
    <3>2. \A p \in Points : p < index \/ p = index
      BY <2>3, BoundsAssumption DEF Points
    <3>3. QED
      BY <1>4, <2>1, <3>1, <3>2 DEF NdisFreeRWLock
  <2>4. QED
    BY <2>2, <2>3
<1>5. CASE StopMonitor("addresses")
  <2>1. /\ pc = "stopAddresses" /\ pc' = "stopRoutes" /\ index' = 1 /\ UNCHANGED failedAt
    BY <1>5, AfterRelease DEF StopMonitor
  <2>2. QED
    BY <1>5, <2>1 DEF StopMonitor
<1>6. CASE StopMonitor("routes")
  <2>1. /\ pc = "stopRoutes" /\ pc' = "cleanRouteTables" /\ index' = 1 /\ UNCHANGED failedAt
    BY <1>6, AfterRelease DEF StopMonitor
  <2>2. QED
    BY <1>6, <2>1 DEF StopMonitor
<1>7. CASE CleanTable("routeTables")
  <2>1. /\ pc = "cleanRouteTables" /\ pc' = "deregister" /\ index' = 1 /\ UNCHANGED failedAt
    BY <1>7, AfterRelease DEF CleanTable
  <2>2. QED
    BY <1>7, <2>1 DEF CleanTable
<1>8. CASE CleanTable("cache")
  <2>1. /\ pc = "freeCache" /\ pc' = "stopEngine" /\ index' = 1 /\ UNCHANGED failedAt
    BY <1>8, AfterRelease DEF CleanTable
  <2>2. QED
    BY <1>8, <2>1 DEF CleanTable
<1>9. CASE NdisFDeregisterFilterDriver
  <2>1. /\ pc = "deregister" /\ pc' = "freeCache" /\ index' = 1 /\ UNCHANGED failedAt
    BY <1>9, AfterRelease DEF NdisFDeregisterFilterDriver
  <2>2. QED
    BY <1>9, <2>1 DEF NdisFDeregisterFilterDriver
<1>10. CASE StopThreads
  BY <1>10 DEF StopThreads
<1>11. CASE DrainQueues
  <2>1. /\ pc = "stopEngine" /\ pc' = "end" /\ index' = 1 /\ UNCHANGED failedAt
    BY <1>11, AfterRelease DEF DrainQueues
  <2>2. QED
    BY <1>11, <2>1 DEF DrainQueues
<1> HIDE DEF ProgressInv
<1>12. QED
  BY <1>1, <1>2, <1>3, <1>4, <1>5, <1>6, <1>7, <1>8, <1>9, <1>10, <1>11 DEF Release, Monitors

-----------------------------------------------------------------------------
(* Everybody else.                                                         *)

Others ==
  \/ \E p \in Points : Thread(p) \/ Receive(p) \/ DeviceIoControl(p)
  \/ \E m \in Monitors : CallbackBegins(m) \/ CallbackReturns(m)

\* They leave alone what does not concern them.
LEMMA OthersStep ==
  ASSUME TypeOK, ProgressInv, Others
  PROVE  ProgressInv'
<1> USE Types
    DEF engineVars, threadVars, tableVars, notifyVars, hookVars, driverVars, ProgressInv
<1>1. UNCHANGED <<driverVars, queue, threadFlag, registered, monitors, hookLock, unallocated,
                  devices>>
  BY DEF Others, Thread, ThreadStart, Dequeue, FilterAcquire, FilterRelease, Pass, ThreadExit,
         Receive, DeviceIoControl, CallbackBegins, CallbackReturns
<1>2. /\ Reached' = Reached
      /\ CacheUp' <=> CacheUp
      /\ RegisterUp' <=> RegisterUp
      /\ TablesUp' <=> TablesUp
      /\ RoutesUp' <=> RoutesUp
      /\ AddressesUp' <=> AddressesUp
      /\ HooksUp' <=> HooksUp
      /\ EngineRuns' <=> EngineRuns
  BY <1>1 DEF Reached, CacheUp, RegisterUp, TablesUp, RoutesUp, AddressesUp, HooksUp, EngineRuns
<1>3. PhaseInv' /\ DeviceInv'
  BY <1>1 DEF PhaseInv, DeviceInv
<1>4. RegisterInv'
  BY <1>1, <1>2 DEF RegisterInv
<1>5. NotifyInv'
  BY <1>1, <1>2 DEF NotifyInv
<1>6. ASSUME UNCHANGED threadVars PROVE EngineInv' /\ StartInv'
  BY <1>1, <1>2, <1>6 DEF EngineInv, StartInv
<1>7. ASSUME UNCHANGED tableVars PROVE TableInv'
  BY <1>1, <1>2, <1>7 DEF TableInv
<1>8. ASSUME UNCHANGED hooks PROVE HookInv'
  <2>1. \A p \in Points : LockUp(p)' <=> LockUp(p)
    BY <1>1 DEF LockUp
  <2>2. QED
    BY <1>1, <1>2, <1>8, <2>1 DEF HookInv
<1>9. ASSUME NEW p \in Points, Thread(p)
      PROVE  ProgressInv'
  <2>1. /\ UNCHANGED tableVars /\ UNCHANGED hooks
        /\ thread[p] \notin {"none", "exit"}
        /\ \E label \in {"loop", "filter", "walk", "pass", "exit"} :
             thread' = [thread EXCEPT ![p] = label]
    BY <1>9 DEF Thread, ThreadStart, Dequeue, FilterAcquire, FilterRelease, Pass, ThreadExit, Go
  <2>2. EngineInv'
    <3>1. pc # "end"
      BY <2>1 DEF EngineInv
    <3>2. \A q \in Points : thread'[q] = "none" <=> thread[q] = "none"
      BY <2>1
    <3>3. QED
      BY <1>1, <1>2, <3>1, <3>2 DEF EngineInv
  <2>3. StartInv'
    <3> SUFFICES ASSUME pc \in {"version", "engine", "cache", "register"}
                 PROVE  \A q \in Points :
                          tasks'[q] = 0 /\ thread'[q] \in {"none", "start", "loop", "exit"}
      BY <1>1 DEF StartInv
    <3>1. \A q \in Points : tasks[q] = 0 /\ thread[q] \in {"none", "start", "loop", "exit"}
      BY DEF StartInv
    <3>2. UNCHANGED tasks /\ thread'[p] \in {"loop", "exit"}
      BY <1>9, <3>1
      DEF Thread, ThreadStart, Dequeue, FilterAcquire, FilterRelease, Pass, ThreadExit, Go
    <3>3. QED
      BY <2>1, <3>1, <3>2
  <2>4. QED
    BY <1>3, <1>4, <1>5, <1>7, <1>8, <2>1, <2>2, <2>3
<1>10. ASSUME NEW p \in Points, Receive(p)
       PROVE  ProgressInv'
  <2>1. /\ UNCHANGED tableVars /\ UNCHANGED hooks /\ UNCHANGED thread /\ registered
    BY <1>10 DEF Receive
  <2>2. pc \notin {"version", "engine", "cache", "register", "end"}
    BY <2>1 DEF RegisterInv, RegisterUp, CacheUp, Reached, Loading
  <2>3. EngineInv' /\ StartInv'
    BY <1>1, <1>2, <2>1, <2>2 DEF EngineInv, StartInv
  <2>4. QED
    BY <1>3, <1>4, <1>5, <1>7, <1>8, <2>1, <2>3
<1>11. ASSUME NEW p \in Points, DeviceIoControl(p)
       PROVE  ProgressInv'
  <2>1. UNCHANGED threadVars /\ UNCHANGED tableVars /\ pc = "loaded"
    BY <1>11 DEF DeviceIoControl
  <2>2. \A q \in Points : LockUp(q)' <=> LockUp(q)
    BY <1>1 DEF LockUp
  <2>3. HookInv'
    BY <1>1, <1>2, <2>1, <2>2 DEF HookInv, Releasing
  <2>4. QED
    BY <1>3, <1>4, <1>5, <1>6, <1>7, <2>1, <2>3
<1>12. ASSUME NEW m \in Monitors, CallbackBegins(m)
       PROVE  ProgressInv'
  BY <1>3, <1>4, <1>5, <1>6, <1>7, <1>8, <1>12 DEF CallbackBegins
<1>13. ASSUME NEW m \in Monitors, CallbackReturns(m)
       PROVE  ProgressInv'
  <2>1. /\ UNCHANGED threadVars /\ UNCHANGED hooks /\ UNCHANGED ready /\ m \in monitors
        /\ filled' \subseteq filled \cup {Table(m)}
    BY <1>13 DEF CallbackReturns
  <2>2. TableInv'
    <3>1. CASE m = "routes"
      <4>1. filled' \subseteq filled \cup {"routeTables"}
        BY <2>1, <3>1 DEF Table
      <4>2. pc \notin {"deregister", "freeCache", "stopEngine", "end"}
        BY <2>1, <3>1 DEF NotifyInv
      <4>3. QED
        BY <1>1, <1>2, <2>1, <4>1, <4>2 DEF TableInv
    <3>2. CASE m = "addresses"
      <4>1. filled' \subseteq filled \cup {"cache"}
        BY <2>1, <3>2 DEF Table
      <4>2. pc \notin {"deregister", "freeCache", "stopEngine", "end"}
        BY <2>1, <3>2 DEF NotifyInv
      <4>3. QED
        BY <1>1, <1>2, <2>1, <4>1, <4>2 DEF TableInv
    <3>3. QED
      BY <3>1, <3>2 DEF Monitors
  <2>3. QED
    BY <1>3, <1>4, <1>5, <1>6, <1>8, <2>1, <2>2
<1>14. QED
  BY <1>9, <1>10, <1>11, <1>12, <1>13 DEF Others

\* All of them together.
LEMMA ProgressStep ==
  ASSUME TypeOK, ProgressInv, Act
  PROVE  ProgressInv'
<1>1. CASE DriverEntry
  <2>1. CASE Fail
    BY <1>1, <2>1, FailingSteps, FailStep
  <2>2. CASE ~Fail
    BY <1>1, <2>2, EntryStep
  <2>3. QED
    BY <2>1, <2>2
<1>2. CASE DriverUnload \/ Release
  BY <1>2, ReleaseStep
<1>3. CASE Others
  BY <1>3, OthersStep
<1>4. QED
  BY <1>1, <1>2, <1>3 DEF Act, Others

-----------------------------------------------------------------------------
(* Types.                                                                  *)

\* What is written down when somebody finds nothing.
LEMMA UsesType ==
  ASSUME TypeOK,
         NEW who \in {"cleanup", "thread", "handler", "callback", "ioctl"},
         NEW what \in {"hooks", "cache", "routeTables", "registration", "threads", "event", "queue"},
         NEW there, Uses(who, what, there)
  PROVE  crash' \subseteq
           [who : {"cleanup", "thread", "handler", "callback", "ioctl"},
            what : {"hooks", "cache", "routeTables", "registration", "threads", "event", "queue"},
            at : Loading \cup Releasing]
BY Types DEF Uses

\* The step of DriverEntry or DriverUnload that follows is one of them.
LEMMA PhaseType ==
  /\ pc \in Loading \ {"loaded"} /\ After(LoadSteps) => pc' \in Loading /\ index' \in Points
  /\ pc \in Releasing \ {"end"} /\ After(ReleaseSteps) => pc' \in Releasing /\ index' \in Points
  /\ Fail => pc' \in Releasing /\ index' \in Points
BY AfterLoad, AfterRelease, ReleaseOrder, BoundsAssumption DEF Loading, Releasing, Points, Fail

LEMMA RoundType ==
  ASSUME index \in Points
  PROVE  /\ pc \in Loading \ {"loaded"} /\ Round(LoadSteps) => pc' \in Loading /\ index' \in Points
         /\ pc \in Releasing \ {"end"} /\ Round(ReleaseSteps) =>
              pc' \in Releasing /\ index' \in Points
<1>1. CASE index < Count
  <2>1. index + 1 \in Points
    BY <1>1, BoundsAssumption DEF Points
  <2>2. QED
    BY <1>1, <2>1 DEF Round
<1>2. CASE ~(index < Count)
  BY <1>2, PhaseType DEF Round
<1>3. QED
  BY <1>1, <1>2

LEMMA TypeStep ==
  ASSUME TypeOK, ProgressInv, Act
  PROVE  TypeOK'
<1> DEFINE CrashType ==
      crash' \subseteq
        [who : {"cleanup", "thread", "handler", "callback", "ioctl"},
         what : {"hooks", "cache", "routeTables", "registration", "threads", "event", "queue"},
         at : Loading \cup Releasing]
<1> USE Labels
    DEF TypeOK, engineVars, threadVars, tableVars, notifyVars, hookVars, driverVars, Succeed
<1>1. CASE NdisGetVersion
  BY <1>1, PhaseType DEF NdisGetVersion, Loading, Fail
<1>2. CASE PsCreateSystemThread
  BY <1>2 DEF PsCreateSystemThread
<1>3. CASE InitializeQueue
  BY <1>3, RoundType DEF InitializeQueue, Loading
<1>4. ASSUME NEW t \in {"cache", "routeTables"}, InitializeTable(t)
      PROVE  TypeOK'
  BY <1>4, PhaseType DEF InitializeTable, Loading
<1>5. CASE NdisFRegisterFilterDriver
  BY <1>5, PhaseType DEF NdisFRegisterFilterDriver, Loading, Fail
<1>6. ASSUME NEW m \in Monitors, StartMonitor(m)
      PROVE  TypeOK'
  BY <1>6, PhaseType DEF StartMonitor, Loading, Monitors, Fail
<1>7. CASE InitializeFilterHookManager
  BY <1>7, RoundType DEF InitializeFilterHookManager, Loading
<1>8. ASSUME NEW d \in Devices, IoCreateDevice(d)
      PROVE  TypeOK'
  BY <1>8, PhaseType DEF IoCreateDevice, Loading, Devices, Fail
<1>9. CASE DriverUnload
  BY <1>9, ReleaseOrder DEF DriverUnload, Releasing
<1>10. CASE IoDeleteDevices
  BY <1>10, PhaseType DEF IoDeleteDevices, Releasing
<1>11. CASE UnregisterAllHooks
  BY <1>11 DEF UnregisterAllHooks
<1>12. CASE NdisFreeRWLock
  <2>1. CrashType
    <3>1. CASE LockThere(index)
      BY <1>12, <3>1, UsesType DEF NdisFreeRWLock
    <3>2. CASE ~LockThere(index)
      BY <1>12, <3>2, UsesType DEF NdisFreeRWLock
    <3>3. QED
      BY <3>1, <3>2
  <2>2. pc' \in Releasing /\ index' \in Points
    BY <1>12, RoundType DEF NdisFreeRWLock, Releasing
  <2>3. QED
    BY <1>12, <2>1, <2>2 DEF NdisFreeRWLock
<1>13. ASSUME NEW m \in Monitors, StopMonitor(m)
       PROVE  TypeOK'
  BY <1>13, PhaseType DEF StopMonitor, Releasing, Monitors
<1>14. ASSUME NEW t \in {"cache", "routeTables"}, CleanTable(t)
       PROVE  TypeOK'
  <2>1. CrashType
    BY <1>14, UsesType DEF CleanTable
  <2>2. QED
    BY <1>14, <2>1, PhaseType DEF CleanTable, Releasing
<1>15. CASE NdisFDeregisterFilterDriver
  <2>1. CrashType
    BY <1>15, UsesType DEF NdisFDeregisterFilterDriver
  <2>2. QED
    BY <1>15, <2>1, PhaseType DEF NdisFDeregisterFilterDriver, Releasing
<1>16. CASE StopThreads
  BY <1>16 DEF StopThreads
<1>17. CASE DrainQueues
  <2>1. CrashType
    BY <1>17, UsesType DEF DrainQueues
  <2>2. 0 \in 0..MaxTasks
    BY BoundsAssumption
  <2>3. QED
    BY <1>17, <2>1, <2>2, PhaseType DEF DrainQueues, Releasing
<1>18. ASSUME NEW p \in Points, Thread(p)
       PROVE  TypeOK'
  <2>1. CrashType
    <3>1. CASE ThreadStart(p)
      BY <3>1, UsesType DEF ThreadStart
    <3>2. CASE Dequeue(p) \/ FilterRelease(p) \/ ThreadExit(p)
      BY <3>2 DEF Dequeue, FilterRelease, ThreadExit
    <3>3. CASE FilterAcquire(p)
      BY <3>3, UsesType DEF FilterAcquire
    <3>4. CASE Pass(p)
      BY <3>4, UsesType DEF Pass
    <3>5. QED
      BY <1>18, <3>1, <3>2, <3>3, <3>4 DEF Thread
  <2>2. thread' \in [Points -> {"none", "start", "loop", "filter", "walk", "pass", "exit"}]
    BY <1>18 DEF Thread, ThreadStart, Dequeue, FilterAcquire, FilterRelease, Pass, ThreadExit, Go
  <2>3. tasks' \in [Points -> 0..MaxTasks]
    <3>1. CASE Dequeue(p)
      BY <3>1, BoundsAssumption DEF Dequeue
    <3>2. CASE Pass(p)
      BY <3>2, BoundsAssumption DEF Pass
    <3>3. QED
      BY <1>18, <3>1, <3>2 DEF Thread, ThreadStart, FilterAcquire, FilterRelease, ThreadExit
  <2>4. UNCHANGED <<driverVars, engineVars, tableVars, registered, notifyVars, hookVars, devices>>
    BY <1>18 DEF Thread, ThreadStart, Dequeue, FilterAcquire, FilterRelease, Pass, ThreadExit
  <2>5. QED
    BY <2>1, <2>2, <2>3, <2>4
<1>19. ASSUME NEW p \in Points, Receive(p)
       PROVE  TypeOK'
  <2>1. CrashType
    BY <1>19, UsesType DEF Receive
  <2>2. tasks' \in [Points -> 0..MaxTasks]
    BY <1>19, BoundsAssumption DEF Receive
  <2>3. QED
    BY <1>19, <2>1, <2>2 DEF Receive
<1>20. ASSUME NEW p \in Points, DeviceIoControl(p)
       PROVE  TypeOK'
  <2>1. CrashType
    BY <1>20, UsesType DEF DeviceIoControl
  <2>2. QED
    BY <1>20, <2>1 DEF DeviceIoControl
<1>21. ASSUME NEW m \in Monitors, CallbackBegins(m)
       PROVE  TypeOK'
  BY <1>21 DEF CallbackBegins
<1>22. ASSUME NEW m \in Monitors, CallbackReturns(m)
       PROVE  TypeOK'
  <2>1. Table(m) \in ready /\ Table(m) \in {"cache", "routeTables"}
    BY <1>22 DEF CallbackReturns, Table, Monitors, ProgressInv, NotifyInv, TableInv,
                 AddressesUp, RoutesUp, TablesUp, RegisterUp
  <2>2. CrashType
    BY <1>22, <2>1, UsesType DEF CallbackReturns
  <2>3. QED
    BY <1>22, <2>1, <2>2 DEF CallbackReturns
<1>23. QED
  BY <1>1, <1>2, <1>3, <1>4, <1>5, <1>6, <1>7, <1>8, <1>9, <1>10, <1>11, <1>12, <1>13, <1>14,
     <1>15, <1>16, <1>17, <1>18, <1>19, <1>20, <1>21, <1>22 DEF Act, DriverEntry, Release

-----------------------------------------------------------------------------
(* Who finds what missing.                                                 *)

LEMMA NobodyMisses ==
  ASSUME crash' = {}
  PROVE  EverybodyFindsState'
BY DEF EverybodyFindsState, EntryPointsFindState, ThreadsFindState, CleanupFindsState, CrashOf

LEMMA ThreadMisses ==
  ASSUME NEW what, crash' = {[who |-> "thread", what |-> what, at |-> pc]},
         \/ what = "event" /\ pc = "engine"
         \/ what = "hooks" /\
              \/ pc \in {"routeTables", "monitorRoutes", "monitorAddresses", "hooks"}
              \/ pc \in Releasing \ {"deleteDevices", "end"}
              \/ failedAt' \in EarlyFailures
              \/ unallocated' # {}
  PROVE  EverybodyFindsState'
<1> DEFINE c == [who |-> "thread", what |-> what, at |-> pc]
<1>1. c.who = "thread" /\ c.what = what /\ c.at = pc
  OBVIOUS
<1> HIDE DEF c
<1>2. \A x \in crash' : x = c
  BY DEF c
<1>3. \A x \in crash' : x.who = "thread" /\ x.what = what /\ x.at = pc
  BY <1>1, <1>2
<1>4. EntryPointsFindState' /\ CleanupFindsState'
  BY <1>3 DEF EntryPointsFindState, CleanupFindsState, CrashOf
<1>5. ThreadsFindState'
  BY <1>3, Labels DEF ThreadsFindState, CrashOf
<1>6. QED
  BY <1>4, <1>5 DEF EverybodyFindsState

LEMMA CleanupMisses ==
  ASSUME NEW what, crash' = {[who |-> "cleanup", what |-> what, at |-> pc]},
         \/ what = "hooks" /\ (failedAt' \in EarlyFailures \/ unallocated' # {})
         \/ what \in {"routeTables", "registration"} /\ failedAt' \in {"version", "register"}
         \/ failedAt' = "version"
  PROVE  EverybodyFindsState'
<1> DEFINE c == [who |-> "cleanup", what |-> what, at |-> pc]
<1>1. c.who = "cleanup" /\ c.what = what
  OBVIOUS
<1> HIDE DEF c
<1>2. \A x \in crash' : x = c
  BY DEF c
<1>3. \A x \in crash' : x.who = "cleanup" /\ x.what = what
  BY <1>1, <1>2
<1>4. EntryPointsFindState' /\ ThreadsFindState'
  BY <1>3 DEF EntryPointsFindState, ThreadsFindState, CrashOf
<1>5. CleanupFindsState'
  BY <1>3 DEF CleanupFindsState, CrashOf, EarlyFailures
<1>6. QED
  BY <1>4, <1>5 DEF EverybodyFindsState

LEMMA IoctlMisses ==
  ASSUME crash' = {[who |-> "ioctl", what |-> "hooks", at |-> pc]}, unallocated' # {}
  PROVE  EverybodyFindsState'
<1>1. \A x \in crash' : x.who = "ioctl"
  OBVIOUS
<1>2. EntryPointsFindState' /\ ThreadsFindState' /\ CleanupFindsState'
  BY <1>1 DEF EntryPointsFindState, ThreadsFindState, CleanupFindsState, CrashOf
<1>3. QED
  BY <1>2 DEF EverybodyFindsState

\* The first who finds something missing is one of those named in the property.
LEMMA FindStep ==
  ASSUME TypeOK, ProgressInv, Alive, Act
  PROVE  EverybodyFindsState'
<1> USE Types
    DEF engineVars, threadVars, tableVars, notifyVars, hookVars, driverVars, Alive
<1>1. ASSUME UNCHANGED crash PROVE EverybodyFindsState'
  BY <1>1, NobodyMisses
<1>2. CASE DriverEntry \/ DriverUnload
  BY <1>1, <1>2
  DEF DriverEntry, NdisGetVersion, PsCreateSystemThread, InitializeQueue,
      InitializeTable, NdisFRegisterFilterDriver, StartMonitor, InitializeFilterHookManager,
      IoCreateDevice, DriverUnload
<1>3. CASE IoDeleteDevices \/ UnregisterAllHooks \/ StopThreads \/ \E m \in Monitors : StopMonitor(m)
  BY <1>1, <1>3 DEF IoDeleteDevices, UnregisterAllHooks, StopThreads, StopMonitor
<1>4. CASE NdisFreeRWLock
  <2>1. /\ pc = "freeHooks" /\ UNCHANGED <<failedAt, unallocated>>
        /\ IF LockThere(index)
           THEN Uses("thread", "hooks", thread[index] # "walk")
           ELSE Uses("cleanup", "hooks", FALSE)
    BY <1>4 DEF NdisFreeRWLock
  <2>2. CASE LockThere(index)
    <3>1. crash' # crash => crash' = {[who |-> "thread", what |-> "hooks", at |-> pc]}
      BY <2>1, <2>2 DEF Uses
    <3>2. pc \in Releasing \ {"deleteDevices", "end"}
      BY <2>1 DEF Releasing
    <3>3. QED
      BY <1>1, <3>1, <3>2, ThreadMisses
  <2>3. CASE ~LockThere(index)
    <3>1. crash' # crash => crash' = {[who |-> "cleanup", what |-> "hooks", at |-> pc]}
      BY <2>1, <2>3 DEF Uses
    <3>2. ~HooksUp \/ index \in unallocated
      BY <2>1, <2>3 DEF ProgressInv, HookInv, LockUp, LockThere, Points
    <3>3. failedAt' \in EarlyFailures \/ unallocated' # {}
      BY <2>1, <3>2
      DEF HooksUp, AddressesUp, RoutesUp, TablesUp, RegisterUp, CacheUp, Reached, Loading,
          ProgressInv, PhaseInv, EarlyFailures
    <3>4. QED
      BY <1>1, <3>1, <3>3, CleanupMisses
  <2>4. QED
    BY <2>2, <2>3
<1>5. ASSUME NEW t \in {"cache", "routeTables"}, CleanTable(t)
      PROVE  EverybodyFindsState'
  <2>1. /\ pc \in {"freeCache", "cleanRouteTables"} /\ UNCHANGED failedAt
        /\ crash' # crash => t \notin ready /\ crash' = {[who |-> "cleanup", what |-> t, at |-> pc]}
    BY <1>5 DEF CleanTable, Uses
  <2>2. t \notin ready =>
          \/ t = "routeTables" /\ failedAt \in {"version", "register"}
          \/ failedAt = "version"
    BY <2>1 DEF ProgressInv, TableInv, PhaseInv, TablesUp, RegisterUp, CacheUp, Reached, Loading
  <2>3. QED
    BY <1>1, <2>1, <2>2, CleanupMisses
<1>6. CASE NdisFDeregisterFilterDriver
  <2>1. /\ pc = "deregister" /\ UNCHANGED failedAt
        /\ crash' # crash =>
             ~registered /\ crash' = {[who |-> "cleanup", what |-> "registration", at |-> pc]}
    BY <1>6 DEF NdisFDeregisterFilterDriver, Uses
  <2>2. ~registered => failedAt \in {"version", "register"}
    BY <2>1 DEF ProgressInv, RegisterInv, PhaseInv, RegisterUp, CacheUp, Reached, Loading
  <2>3. QED
    BY <1>1, <2>1, <2>2, CleanupMisses
<1>7. CASE DrainQueues
  <2>1. /\ pc = "stopEngine" /\ UNCHANGED failedAt
        /\ crash' # crash =>
             /\ ~ \A p \in Points : thread[p] = "exit"
             /\ crash' = {[who |-> "cleanup", what |-> "threads", at |-> pc]}
        /\ \A p \in Points : thread[p] \in {"none", "exit"}
    BY <1>7 DEF DrainQueues, Uses
  <2>2. failedAt # "version" => \A p \in Points : thread[p] # "none"
    BY <2>1 DEF ProgressInv, EngineInv, EngineRuns
  <2>3. crash' # crash => failedAt' = "version"
    BY <2>1, <2>2
  <2>4. QED
    BY <1>1, <2>1, <2>3, CleanupMisses
<1>8. ASSUME NEW p \in Points, Thread(p)
      PROVE  EverybodyFindsState'
  <2>1. UNCHANGED <<pc, failedAt, unallocated>> /\ thread[p] \notin {"none", "exit"}
    BY <1>8 DEF Thread, ThreadStart, Dequeue, FilterAcquire, FilterRelease, Pass, ThreadExit
  <2>2. EngineRuns \/ pc = "engine"
    BY <2>1 DEF ProgressInv, EngineInv, EngineRuns
  <2>3. CASE ThreadStart(p)
    <3>1. crash' # crash =>
            /\ queue[p] # "ready"
            /\ crash' = {[who |-> "thread", what |-> "event", at |-> pc]}
      BY <2>3 DEF ThreadStart, Uses
    <3>2. EngineRuns => queue[p] = "ready"
      BY DEF ProgressInv, EngineInv
    <3>3. QED
      BY <1>1, <2>2, <3>1, <3>2, ThreadMisses
  <2>4. CASE FilterAcquire(p)
    <3>1. /\ thread[p] = "filter"
          /\ crash' # crash =>
               /\ ~LockThere(p)
               /\ crash' = {[who |-> "thread", what |-> "hooks", at |-> pc]}
      BY <2>4 DEF FilterAcquire, Uses
    <3>2. pc \notin {"version", "engine", "cache", "register", "end"}
      BY <2>1, <3>1 DEF ProgressInv, StartInv, EngineInv
    <3>3. HooksUp /\ pc \in Loading \cup {"deleteDevices"} /\ ~LockThere(p) => unallocated # {}
      BY DEF ProgressInv, HookInv, LockUp, LockThere
    <3>4. \/ pc \in {"routeTables", "monitorRoutes", "monitorAddresses", "hooks"}
          \/ pc \in Releasing \ {"deleteDevices", "end"}
          \/ HooksUp /\ pc \in Loading \cup {"deleteDevices"}
          \/ failedAt \in EarlyFailures
      BY <3>2
      DEF HooksUp, AddressesUp, RoutesUp, TablesUp, RegisterUp, CacheUp, Reached, Loading, Releasing,
          ProgressInv, PhaseInv, EarlyFailures
    <3>5. QED
      BY <1>1, <2>1, <3>1, <3>3, <3>4, ThreadMisses
  <2>5. CASE Pass(p)
    <3>1. thread[p] = "pass"
      BY <2>5 DEF Pass
    <3>2. EngineRuns
      BY <2>2, <3>1 DEF ProgressInv, StartInv
    <3>3. \A q \in Points : queue[q] = "ready"
      BY <3>2 DEF ProgressInv, EngineInv
    <3>4. UNCHANGED crash
      BY <2>5, <3>3 DEF Pass, Uses
    <3>5. QED
      BY <1>1, <3>4
  <2>6. CASE Dequeue(p) \/ FilterRelease(p) \/ ThreadExit(p)
    BY <1>1, <2>6 DEF Dequeue, FilterRelease, ThreadExit
  <2>7. QED
    BY <1>8, <2>3, <2>4, <2>5, <2>6 DEF Thread
<1>9. ASSUME NEW p \in Points, Receive(p)
      PROVE  EverybodyFindsState'
  <2>1. EngineRuns
    BY <1>9
    DEF Receive, ProgressInv, RegisterInv, PhaseInv, RegisterUp, CacheUp, Reached, EngineRuns,
        Loading
  <2>2. UNCHANGED crash
    BY <1>9, <2>1 DEF Receive, Uses, ProgressInv, EngineInv
  <2>3. QED
    BY <1>1, <2>2
<1>10. ASSUME NEW p \in Points, DeviceIoControl(p)
       PROVE  EverybodyFindsState'
  <2>1. /\ pc = "loaded" /\ UNCHANGED unallocated
        /\ crash' # crash =>
             /\ ~LockThere(p)
             /\ crash' = {[who |-> "ioctl", what |-> "hooks", at |-> pc]}
    BY <1>10 DEF DeviceIoControl, Uses
  <2>2. HooksUp /\ pc \in Loading
    BY <2>1
    DEF HooksUp, AddressesUp, RoutesUp, TablesUp, RegisterUp, CacheUp, Reached, Loading
  <2>3. LockUp(p)
    BY <2>2 DEF ProgressInv, HookInv
  <2>4. QED
    BY <1>1, <2>1, <2>3, IoctlMisses DEF LockUp, LockThere
<1>11. ASSUME NEW m \in Monitors, CallbackBegins(m) \/ CallbackReturns(m)
       PROVE  EverybodyFindsState'
  <2>1. CallbackReturns(m) => Table(m) \in ready
    BY DEF CallbackReturns, Table, Monitors, ProgressInv, NotifyInv, TableInv,
           AddressesUp, RoutesUp, TablesUp, RegisterUp
  <2>2. UNCHANGED crash
    BY <1>11, <2>1 DEF CallbackBegins, CallbackReturns, Uses
  <2>3. QED
    BY <1>1, <2>2
<1>12. QED
  BY <1>2, <1>3, <1>4, <1>5, <1>6, <1>7, <1>8, <1>9, <1>10, <1>11 DEF Act, Release

-----------------------------------------------------------------------------
(* The theorems.                                                           *)

IInv == TypeOK /\ ProgressInv /\ EverybodyFindsState

LEMMA InitStep ==
  ASSUME Init
  PROVE  IInv
<1> USE BoundsAssumption DEF Init, Points
<1>1. TypeOK
  <2>1. 0 \in 0..MaxTasks /\ 1 \in 1..Count
    OBVIOUS
  <2>2. QED
    BY <2>1, Labels DEF TypeOK, Loading
<1>2. Reached = "version"
  BY DEF Reached, Loading
<1>3. ~CacheUp /\ ~RegisterUp /\ ~TablesUp /\ ~RoutesUp /\ ~AddressesUp /\ ~HooksUp /\ ~EngineRuns
  BY <1>2 DEF CacheUp, RegisterUp, TablesUp, RoutesUp, AddressesUp, HooksUp, EngineRuns
<1>4. PhaseInv /\ EngineInv /\ StartInv /\ TableInv /\ NotifyInv /\ DeviceInv
  BY <1>3 DEF PhaseInv, EngineInv, StartInv, TableInv, NotifyInv, DeviceInv, Releasing
<1>5. RegisterInv /\ HookInv
  BY <1>3 DEF RegisterInv, HookInv, Releasing
<1>6. EverybodyFindsState
  BY DEF EverybodyFindsState, EntryPointsFindState, ThreadsFindState, CleanupFindsState, CrashOf
<1>7. QED
  BY <1>1, <1>4, <1>5, <1>6 DEF IInv, ProgressInv

LEMMA StutterStep ==
  ASSUME IInv, UNCHANGED vars
  PROVE  IInv'
<1> USE DEF vars, engineVars, threadVars, tableVars, notifyVars, hookVars, driverVars
<1>1. TypeOK'
  BY DEF IInv, TypeOK
<1>2. PhaseInv' /\ EngineInv' /\ StartInv' /\ DeviceInv'
  BY DEF IInv, ProgressInv, PhaseInv, EngineInv, StartInv, DeviceInv, EngineRuns
<1>3. TableInv' /\ RegisterInv' /\ NotifyInv'
  BY DEF IInv, ProgressInv, TableInv, RegisterInv, NotifyInv, CacheUp, RegisterUp, TablesUp,
         RoutesUp, AddressesUp, Reached
<1>4. HookInv'
  BY DEF IInv, ProgressInv, HookInv, LockUp, HooksUp, CacheUp, RegisterUp, TablesUp, RoutesUp,
         AddressesUp, Reached
<1>5. EverybodyFindsState'
  BY DEF IInv, EverybodyFindsState, EntryPointsFindState, ThreadsFindState, CleanupFindsState,
         CrashOf
<1>6. QED
  BY <1>1, <1>2, <1>3, <1>4, <1>5 DEF IInv, ProgressInv

\* What the invariant says of each step of DriverEntry and DriverUnload holds in
\* every reachable state.
THEOREM InductiveInvariant == Spec => []IInv
<1>1. Init => IInv
  BY InitStep
<1>2. IInv /\ [Next]_vars => IInv'
  BY StutterStep, TypeStep, ProgressStep, FindStep DEF IInv, Next
<1>3. QED
  BY <1>1, <1>2, PTL DEF Spec

\* The variables of the driver's life keep their types.
THEOREM TypeCorrect == Spec => []TypeOK
<1>1. IInv => TypeOK
  BY DEF IInv
<1>2. QED
  BY <1>1, InductiveInvariant, PTL

\* However DriverEntry and DriverUnload meet routing threads, receive handlers,
\* callbacks and IOCTLs, and whatever step fails, everybody finds what it works
\* on, but for the gaps that the property names.
THEOREM EverybodyIsServed == Spec => []EverybodyFindsState
<1>1. IInv => EverybodyFindsState
  BY DEF IInv
<1>2. QED
  BY <1>1, InductiveInvariant, PTL

\* DriverUnload, and DriverEntry after a failure at any step, leave no thread, no
\* callback and no registration behind, and no memory.
THEOREM NothingIsLeft == Spec => []NothingLeftBehind
<1>1. IInv => NothingLeftBehind
  <2> SUFFICES ASSUME IInv, pc = "end"
               PROVE  /\ \A p \in Points : thread[p] \in {"none", "exit"} /\ tasks[p] = 0
                      /\ \A p \in Points : queue[p] = "freed" /\ hookLock[p] = "freed"
                      /\ filled = {} /\ hooks = {} /\ devices = {}
                      /\ ~registered /\ monitors = {} /\ callbacks = {}
    BY DEF NothingLeftBehind
  <2>1. \A p \in Points : queue[p] = "freed" /\ tasks[p] = 0 /\ thread[p] \in {"none", "exit"}
    BY DEF IInv, ProgressInv, EngineInv
  <2>2. hooks = {} /\ devices = {} /\ \A p \in Points : hookLock[p] = "freed"
    BY DEF IInv, ProgressInv, HookInv, DeviceInv, Releasing
  <2>3. ~registered /\ monitors = {} /\ callbacks = {}
    BY Types DEF IInv, ProgressInv, RegisterInv, NotifyInv, Monitors
  <2>4. filled = {}
    BY Types DEF IInv, ProgressInv, TableInv
  <2>5. QED
    BY <2>1, <2>2, <2>3, <2>4
<1>2. QED
  BY <1>1, InductiveInvariant, PTL
=============================================================================
