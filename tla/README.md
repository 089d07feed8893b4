# winpfilter in TLA+

winpfilter is an NDIS filter driver: it takes a copy of every Ethernet packet,
passes it through hook functions that other drivers register at five filter
points, and hands what is left to NDIS again. This directory holds TLA+ models
of its core, TLC configurations that check them, and TLAPS proofs about them.
Paths are relative to the repository; `route_engine.c:82` means
`src/winpfilter/route_engine.c`, line 82.

## Inventory

| Part | State it keeps | Operations | Interacts with |
|---|---|---|---|
| Routing queue, `queue.c` | list, `ItemCounts`, event, spin lock | `Enqueue`, `Dequeue`, `InitializeQueue` | every routing thread waits on the event of one queue |
| Routing engine, `route_engine.c` | six queues and threads, `ThreadFlag`, `StopSignal`, tasks | the six thread bodies, start, stop, create and free a task | hooks, address cache, NDIS, settings |
| Filter module callbacks, `filter_subroutines.c` | `FILTER_CONTEXT` per adapter, NBL pool | attach, restart, pause, detach, receive from both sides, completion from both sides | creates tasks, frees the NBLs and buffers that come back |
| Hook manager, `hook_manager.c` | five sorted lists, a reader-writer lock each | register, unregister, unregister all, list, `FilterEthernetPacket` | called by IOCTLs and by the routing threads |
| Address cache, `interface_ip_table.c` | list of the machine's addresses, spin lock | insert, delete all, `IsLocalIP` | refilled by a callback, read by the prerouting thread |
| Monitors, `route_info.c` | notification handles | start, stop, two callbacks, `IsValidForwardAddress` | IP helper, address cache, route table |
| Route table, `route_table.c` | 64 pairs of sorted lists, a spin lock each | add, find, remove, clean up | only the mirror of the system table is ever written, none is looked up |
| Command devices, `communication.c` | the settings of `global_variables.c` | one IOCTL dispatcher for two devices | hook manager, settings |
| Load and unload, `winpfilter.c` | handles and devices | `DriverEntry`, `DriverUnload` | starts and stops all of the above |
| Packet headers, `include/net/` | none | field access, the walk over IPv6 extension headers | hooks, checksum offload |
| Command line tool, `src/wpfilter/` | none | show and set an item, list hooks | IOCTLs |

What is hard in this code, and what makes each part correct:

* **Queue.** The counter is the only guard of `RemoveHeadList`, which returns
  the list head itself when the list is empty. A notification event is set and
  reset by hand. Correct means: a FIFO, no lost wake-up, no list head taken for
  a task, and a stop that always gets through.
* **Engine.** A task passes from thread to thread without any lock of its own.
  Its packet buffer passes to NDIS, which may free it before the call that
  handed it over has returned. The forwarding mode is read up to three times per
  packet while an IOCTL may change it. Correct means: one owner, no freed
  pointer, all filter points of the way passed before NDIS sees the packet, no
  overtaking, nothing left behind but by design.
* **Filter modules.** A module can be paused and detached while tasks that point
  to its `FILTER_CONTEXT` are still queued.
* **Hook manager.** Hooks run under the read lock while IOCTLs change the list.
  Correct means: a sorted list, a walk that sees one list, a verdict that is
  what all hooks called say together, a lock that is always released.
* **Address cache.** It is emptied and refilled under the eyes of a reader that
  takes no lock. Correct means: it ends up equal to the system's addresses, and a
  local address is not taken for a foreign one.
* **NBL chains.** NDIS gives NBLs back in chains, from which the handlers unlink and free the
  driver's own while they walk. Correct means: no pointer into a freed NBL, every one of the driver's NBLs
  freed with all it has, every other one passed on.
* **Route table.** The mirror is emptied and refilled by each callback. Correct means: no entry lost
  or freed twice, lists sorted whatever the order of the rows, one table at a time, and a first match
  that is the best one.
* **Commands and settings.** Tool and driver are two programs with a table each, and a setting is
  stored and read back without a lock. Correct means: a command reaches the item it names, an answer has
  a text, and a tool that is alone is told the truth.
* **Checksum offload.** The flags are read one after the other, some for every packet and some twice,
  while a tool changes them. Correct means: the adapter is asked only for what it can compute for that packet.
* **Load and unload.** The order of initialisation and release decides whether a
  thread, a hook or an IOCTL finds its lists, locks and events.

`PROJECT.json` lists every hazard at its line, with the properties that cover it
or the reason why none does.

## Modules

| Module | Models | Used by |
|---|---|---|
| `TaskFifo` | what a queue promises | `TaskQueue` |
| `TaskQueue` | one queue, producers, its thread, the stop; a step per statement | `TaskQueueProofs` |
| `PacketLanes` | what the engine promises about order and loss | `RoutingEngine` |
| `RoutingEngine` | six threads and queues, tasks, buffers, NBLs, mode, stop | `FilterModules` |
| `FilterModules` | attach, restart, pause, detach around the engine | `RoutingEngineProofs` |
| `HookChain` | what the hook manager promises at a filter point | `HookManager` |
| `HookManager` | one hook list, its lock, clients, viewers, the packet walk, unload | `MCHookManager`, `HookManagerProofs` |
| `InterfaceIpCache` | address list, refresh callback, lookup, unload | `InterfaceIpCacheProofs` |
| `DriverLifecycle` | `DriverEntry` with a failure anywhere, `DriverUnload`, everybody at work meanwhile | `DriverLifecycleProofs` |
| `NetBufferLists` | chains of NBLs in the two completion handlers | `NetBufferListsProofs` |
| `RouteTable` | the mirror of the system's routes, its callback, unload, lookup | `MCRouteTable`, `RouteTableProofs` |
| `CommandChannel` | tools, their IOCTLs, the settings | `ChecksumOffload` |
| `ChecksumOffload` | the checksum bits of modified packets, the header walk, with the tools at work | `MCChecksumOffload`, `SettingsProofs` |

The modules `MC...` hold what a configuration cannot express: symmetry, routes, packets, adapters. The modules
`...Proofs` hold theorems about the module they are named after, and nothing the runs depend on; `SettingsProofs` is about
`CommandChannel` and `ChecksumOffload`.

### TaskQueue

`queueLink`, `itemCounts`, `dataEnqueueEvent` and `queueLock` are the fields of
`QUEUE`, `threadFlag` and `stopSignal` the globals of the engine. `EnqueueLink`,
`EnqueueCount`, `EnqueueSignal` are the three statements of `Enqueue` between
acquiring and releasing the lock, `DequeueEmpty` and `DequeueUnlink`,
`DequeueCount` those of `Dequeue`. The lock is a variable, not an assumption: with
a faulty `Acquire` the properties fail. `TestThreadFlag` and `Wake` are the loop
head and the wait of a routing thread, which are the same in all six. `StopDrain`
is the join and the drain in one step, because at that point nobody else is left.

### RoutingEngine

A queue is one sequence here and its operations are atomic, which is what
`TaskQueue` shows. A task and its packet buffer share a name; `taskMem` and
`bufferMem` say which of the two is allocated, `nbl` how far the wrapping of the
buffer has got, `packet` which buffers are with a receive handler. `thread[p]` is
what thread `p` does next, `task[p]` its local variable. `path` and `handed` are
history. `OnTheWay` and `Lane` put the packets at the two ends of a way in their order; they are what the refinement of
`PacketLanes` is about. The verdict of the hooks and the answer of the address cache are free
choices, so that every behaviour of `HookManager` and `InterfaceIpCache` is
included. `TestForwardingMode`, `TestWinpfilterMode`, `TestDisableMode` are the three
reads of `IPForwardingMode` in `PreroutingThread`. `HandToNdis` and the release of the
task are two steps, and `NblFinished` may come in between. `RoutingDecision` dequeues
and forgets, as the code does (route_engine.c:400). A thread at `"wait"` is asleep
or about to test the flag and sleep; `StopClearFlag` lets any of the idle threads
have tested it already, or not.

### FilterModules

Extends `RoutingEngine` by the state of each `FILTER_CONTEXT` and the pointer from
task to context. NDIS is taken at its most careful: it detaches a module only when it is
paused, no handler of it runs, and every NBL of it has come back.

### HookManager

One of the five lists; they share nothing. `hookList` is the order of the list,
`entry` the content of each `HOOK_ENTRY` block or `Free`, `cursor` the list pointer in
a thread's hand. The NDIS lock is `readers` and `writer`: a writer announces itself, keeps new
readers out and goes on when the readers have left, which is also what the
fairness of the lock rests on. The walk of `FilterEthernetPacket` and of
`GetHookInformation` takes one step per entry; the search inside `RegisterHook` and
`UnregisterHook` is one step, because a writer is alone. Unlinking and freeing an
entry are two steps. `UnregisterAllHooks` runs at unload, when IOCTLs have ended but packets
are still filtered (winpfilter.c:31 comes before line 35).

### InterfaceIpCache

`entryList` is `EntryList`, `ipAddress` the content of each block. The callback removes
and frees entry after entry, then allocates and links one per row of the table it
fetched. `IsLocalIP` compares and advances in separate steps. An entry that has been
unlinked but not freed still leads to the first of the rest; a block that has been freed,
and perhaps allocated again, answers a comparison in any way and leads anywhere. The IP
helper delivers one notification at a time. `IfIpELock` is left out: its
holders exclude each other anyway and the reader does not take it.

### DriverLifecycle

`LoadSteps` and `ReleaseSteps` are the order of `DriverEntry` and of the releases, which `DriverUnload`
and the failure path of `DriverEntry` share; `pc` walks through them, `index` through the loops over
queues and hook lists. Of queues, tables, locks and lists the model keeps whether they are
initialised and whether they hold anything, since the other modules have the rest. Around it,
each routing thread starts when it likes, packets come as soon as NDIS has the filter driver,
callbacks as soon as their monitor is started, IOCTLs once `DriverEntry` has returned: the I/O manager opens
no device of a driver that is still loading, and unloads none that has one open. Cancelling a
notification waits for a callback that is running, deregistering for every handler. Who finds
something missing either crashes (`crash`) or gets away with it, as with a lock that has just been freed.
The sixth thread has no hook list; its start and stop are like those of the others.

### NetBufferLists

The way back of NBLs in `WPFilterSendToUpperFinished` and `WPFilterSendToNICFinished`, whose loops and
`FreeSingleNBL` are the same code twice. `next` is the link between NBLs, `header`, `current` and `previous` are the
local variables of a walk, and each turn of the loop is a step: `RemoveOwn` or `KeepOther`.
Several handlers run at once on chains without common NBLs; `memory` says of each NBL whether it, its
MDL and its data buffer are allocated. The handlers are written for chains in which NBLs of the driver
and of others are mixed ("If your filter injected any send packets, you MUST identify their NBLs here and
remove them from the chain", filter_subroutines.c:433). Today the receive handlers copy every packet, so no NBL of others is
passed on and the constants `OthersUp` and `OthersNic` stand for a driver that does. An NBL of the driver has one net buffer
with one MDL, already mapped, as `route_engine.c` makes it.

### RouteTable

`routeList` holds the two lists of the mirror, `entry` the content of each `ROUTE_ENTRY`, `lock` the table's spin lock.
A callback fetches the system's table (or fails), waits for the lock, removes and frees entry after entry, and adds the rows,
each of which may find no memory. The rows come in any order, as the IP helper promises none. An
address is a sequence of bytes, a byte a set of bits, so that `IsAddressInSubnet` can be compared with the meaning of a prefix.
`FindRouteEntry` has no caller; it is an operator that says what a lookup would answer. Metrics come before
prefix lengths in `CompareRoutes` (route_table.c:103): the first match has the smallest metric, not the longest prefix,
and `LookupFindsBest` states that order. Whether the IP helper delivers notifications one at a time is its business: the run has two `Callbacks`, so it need not. The
lists are under the lock either way; what differs is which table comes last, and `behind` remembers that.

### CommandChannel

A tool reads an item and a value from its command line and numbers the item by the rows of its table without
the headings (`CodeOf`); the driver takes that number for one of its settings (`SettingOf`). The two tables are in two
programs and nothing but their agreement makes a command change the right setting. `IoctlStore` and `IoctlAnswer` are
the two unlocked accesses to the setting; any number of tools may be between them, since
the device is created non-exclusive (winpfilter.c:179). `-dw` changes only whether a warning is printed. The number of
hooks in an answer is any: `HookManager` has the walk that counts them. `disturbed` is history.

### ChecksumOffload

Extends `CommandChannel` by the two threads that read the flags, of which one packet at a time is followed: they share only the
settings, and only read them. Each read of a flag is a step: `TakeTransmit` is the assignment of three bits with the first flag,
`AndSetting` masks TCP and UDP, `SetTcpHeaderOffset` follows; `IndicateBit` is one of three tests in `InputThread`.
`GetTransportLayerProtocolFromIPv6Header` and `GetTransportLayerHeaderFromIPv6Header` are the loops of `ipv6.h`: `ProtocolId` says which
protocol field the pointer of the loop is at, which after the first header is no next header field of the header before, but
the first byte of the one it has come to. Packets are what these functions read: ether type, length of the IPv4 header, the
chain of headers, the first byte of the transport header.

## Runs

| Run | Instance | States | Shows |
|---|---|---|---|
| `TaskQueue` | 3 tasks, 2 producers | 4,129 | `CountAndEventMatchList`, `ListHeadNeverTaken`, `NullOnlyOnStop`, refinement `FifoSpec`, liveness `EveryTaskLeaves`, `StopReturns` |
| `RoutingEngine` | 2 tasks, 2 mode changes | 1.7 million | `PointersLive`, `SingleOwner`, `FilteredOnTheWay`, `ForgottenOnlyByDesign`, `StopReclaims`, refinement `LaneSpec` |
| `RoutingEngineLive` | 1 task, 2 mode changes | 36,000 | liveness `EngineStops`, `BufferReclaimed` |
| `FilterModules` | 1 task, 1 module | violation | `ContextOutlivesTasks` fails |
| `HookManager` | 3 blocks, 2 functions, 2 priorities, 2 clients, 1 viewer | 2.8 million | `TypeOK`, `ListOrdered`, `EntriesAccounted`, `WalkersSeeOneList`, `VerdictOfAll`, refinement `ChainSpec` |
| `HookManagerLive` | 2 blocks, 1 hook, 2 clients, 1 viewer | 6,900 | liveness `CallsReturn` |
| `InterfaceIpCache` | 2 ordinary addresses, 1 special, 2 blocks, 2 changes | 60,000 | `BlocksAccounted`, `CacheFollowsSystem`, `QuietLookupsExact` |
| `AddressWindow` | 1 address, 2 changes | violation | `ForwardedNotLocal` fails |
| `DriverLifecycle` | 2 filter points, 1 task per queue | 361,000 | `EverybodyFindsState`, `NothingLeftBehind`, liveness `ReleaseEnds` |
| `RouteTable` | 5 routes, 3 entries, 1 change, 2 callbacks | 724,000 | `EntriesAccounted`, `RoutesOrdered`, `LookupFindsBest`, `MirrorOfOneTable`, `MirrorFollowsSystem`, liveness `CallbacksCatchUp` |
| `CommandChannel` | 2 tools, 2 commands, 4 values, 6 packets, 2 adapters | 5.6 million | `DisplayedInTable`, `QuietAnswersTrue`, `NamedItemOnly`, `OffloadFollowsSettings` |
| `NetBufferLists` | 2 NBLs of the driver, 2 of a miniport, 2 handlers | 486,000 | `WalkPointersLive`, `OwnFreed`, `RestReturned` |

The type invariants are proved, and only the run of `HookManager` repeats one.

Why the bounds are enough to be interesting:

* Three tasks and two producers make the queue empty, fill and empty again while
  both producers are inside `Enqueue`; the counter passes 0, 1 and more.
* Two packets can be on the same way, on different ways, and one behind the other,
  which is what ordering and double ownership need. Two mode changes are what it takes to
  lose a task between the three reads (out of SYSTEM before the first, back before the
  second); the bound is `MaxModeChanges`. One packet suffices for liveness: a routing thread that does not have it is
  idle, and each handles one task at a time.
* With three blocks and four hooks a list has a middle, equal priorities occur, a
  duplicate is refused and its block is lost. `MaxCount` 1 makes the viewer's buffer too small.
  Blocks, functions and clients are symmetric: no property tells them apart.
* Two changes of addresses suffice for a refresh that is out of date before it ends and
  for one that follows another; `MaxChanges` is the bound.
* Two filter points make the loops of start and release stop half way: one queue or lock there, the
  other not. One task per queue is enough for a thread to be at its hooks when the lists go.
* Three entries make lists with a middle, and the routes are of every kind the order tells apart: a default route that its metric
  puts first, a longer prefix among equal metrics, equal routes, prefixes that end in and between bytes of two bits.
  With fewer entries than routes memory runs out. The change and the first notification are two callbacks, which overlap or follow each other.
* Two tools are what it takes to disturb each other; the values are those that every item takes, that only the mode takes, and
  that neither it nor the choice of a filter point takes. Two commands (`MaxCalls`) let a flag be cleared and set again during one packet, or
  a setting be made by one tool and read by the other. The packets are one of each kind `PostroutingThread` tells apart, with the shortest
  and the longest IPv4 header.
* Four NBLs make chains in which the driver's come first, last, in the middle, next to each other and alone,
  and two handlers have them in hand at the same time.

Deadlock is not checked where the system really stops: in `FilterModules` when the one packet is through and the module
is gone, and in `RouteTable` after unload. In the other models the system never has to stop, or its stop is a stuttering step.

What the two violations show:

* `FilterModules`. Receive a packet, pause the module, detach it: its
  `FILTER_CONTEXT` is freed (filter_subroutines.c:244) while the task in the PREROUTING
  queue still points to it, and the thread reads `Task->FilterContext->BasePortLuid`.
  winpfilter.h:73 describes the lock that pausing takes as "filterLock for
  protection of state and outstanding sends and recvs".
* `AddressWindow`. During a refresh an address that the machine has had all along is not in
  the cache; the packet counts as one that "is not for local machine"
  (route_engine.c:81) and is forwarded, or dropped in mode DISABLE.

Known losses and faults that are part of the models and appear in the properties as exceptions:

* tasks that reach `RoutingDecisionThread`, and tasks caught between two modes (`ForgottenOnlyByDesign`);
* the entry of a refused registration (`refused` in `EntriesAccounted`, hook_manager.c:112);
* a tool is told "The operation was rejected by winpfilter." of a setting that was accepted, when another tool has changed it
  before the driver reads it back (`disturbed` in `QuietAnswersTrue`, src/wpfilter/wpfilter.c:48, communication.c:106);
* an empty value makes the tool send a variable it never assigned, because `sscanf_s` returns `EOF` and the test is for 0
  (`Empty` in `CommandChannel`, src/wpfilter/wpfilter.c:30);
* behind an IPv6 extension header the walk takes the first byte of the next header for its type, so a port decides
  which checksum the adapter is asked for (`Extended` in `TransmitFollowsSettings`, ipv6.h:119);
* `WPFilterSendToNICFinished` computes what is left of a chain but completes the old head (filter_subroutines.c:445). Today
  only NBLs of the driver come back there, nothing is left of such a chain, and the call is skipped; with a chain of several
  owners the driver's freed NBL would be completed (`Rest` in `RestReturned`);
* an older table that an overlapping callback writes last (`behind` in `MirrorFollowsSystem`, route_info.c:103). The IP helper
  delivers one notification at a time, so this does not occur; `RouteTable` lets callbacks meet at the spin lock, which is more
  than can happen and shows what the lock itself guarantees.

What `DriverLifecycle` shows of the order of `DriverEntry` and `DriverUnload`: receive handlers and
callbacks always find what they work on, IOCTLs do unless a lock could not be allocated, and whatever is
filled again while the driver goes is emptied after. The gaps the code leaves, each
reachable in the model and named in `ThreadsFindState` and `CleanupFindsState`:

* a routing thread waits on the event of its queue before `InitializeQueue` (route_engine.c:423-426);
* packets are filtered before the hook lists exist (winpfilter.c:140-160), after they have been
  freed (winpfilter.c:31-37), and between `UnregisterAllHooks` and `NdisFreeRWLock` (hook_manager.c:75-76);
* a lock that `NdisAllocateRWLock` could not allocate is not noticed, because the
  test is about the array (hook_manager.c:60);
* a load that fails before line 160 releases hook lists that were never initialised (winpfilter.c:212), and one that
  fails at line 114 or 143 also route tables and a registration.

## Fairness

* `TaskQueue`: weak fairness of the routing thread, of an `Enqueue` that has begun, and of a
  stop that has begun: Windows keeps running every ready thread. No producer has to
  start. Weak fairness is enough for the spin lock because tasks are finite.
* `RoutingEngine`: weak fairness of each routing thread, of a handler that has a
  buffer in hand, of NDIS completing each NBL it was given, which its contract with filters
  requires, and of a stop that has begun. Nobody has to send, change the mode, or stop.
* `HookManager`: hooks return, a thread inside the lock goes on, and a thread that waits
  for the lock gets it in the end (strong fairness of acquiring), since a waiting
  writer holds back new readers.
* `DriverLifecycle`: loading and every routing thread go on, a callback returns, and releasing is strongly
  fair, because its waits (for the writer's turn at a hook lock, for a moment without callback) become possible
  again and again. Packets and notifications need not come.
* `RouteTable`: each callback is weakly fair, so the IP helper delivers a notification and a callback that has begun goes on,
  and so is the cleanup of an unload that has begun. Weak fairness suffices for the spin lock because notifications are finite.
  Nobody has to change routes or unload.
* `NetBufferLists`, `CommandChannel`, `ChecksumOffload` state no liveness: their steps are those of one call from beginning to
  end, and nothing in them waits.
* `InterfaceIpCache` has no liveness property: a lookup that strays into freed
  memory has no guarantee to end.

## Proofs

`TaskQueueProofs` proves for any sets of tasks and producers that `TypeOK`,
`CountAndEventMatchList`, `ListHeadNeverTaken` and `NullOnlyOnStop` are invariants and
that `Spec` implements `TaskFifo`, in which a task passes from `fresh` through `entering` into the queue: what a producer
is about to link is `entering`, so a link that is lost or made twice is no step of it. The invariants are not inductive: between acquire and
release they do not hold. The inductive invariant says, for the thread that holds the lock and for
each of its labels, by how much list, counter and event differ: linked but
not counted, counted but not signalled, unlinked but not counted. It also says that threads inside
the lock hold it and that the router sleeps or wakes only with the flag or the
event that justifies it.

`RoutingEngineProofs` proves for any set of tasks and any number of mode changes that
`TypeOK`, `PointersLive`, `SingleOwner`, `FilteredOnTheWay`, `ForgottenOnlyByDesign` and
`StopReclaims` are invariants. The strengthening is a partition: every task is fresh,
in a handler's packet set, queued, in a thread's hands, with NDIS only, forgotten,
or gone, and for each place the invariant says which memory is allocated, how far the
NBL has got, which filter points the path holds and what was handed over. One lemma per action
carries it over a step; memory frames and sequence facts (appending to and taking
the tail of a sequence without repetition) are lemmas of their own. The refinement of `PacketLanes` rests on this partition and on
`TypeOK`: each lane is two ends, at each end the task in the thread's hands stands before its queue, and there are only five things
a step can do to an end (nothing, take the next, append, part with the task, hand it to NDIS), with a lemma for each about what that makes of the lane.

`RouteTableProofs` proves for any routes, any memory and any number of overlapping callbacks that `TypeOK`,
`EntriesAccounted`, `RoutesOrdered`, `MirrorOfOneTable`, `MirrorFollowsSystem` and `LookupFindsBest` are invariants. `RoutesOrdered` is not inductive, since a sorted list does not say
that its order is that of arrival among equals, and inserting in the middle needs `CompareRoutes` to be transitive
(`CompareRoutesOrder`); `OrderInv` says of each pair in a list that the first is better or arrived before. `SourceInv` says how much of
the table it fetched a callback has put into the mirror, `LockInv` that whoever is between acquiring and releasing is
the only one. `InsertAtProperties` states once what insertion does to each position. `FollowInv` says what becomes of the last table
while it is on its way into the mirror: as long as callbacks have not overlapped, one callback has it in hand or the mirror is of it.
For `LookupFindsBest` the bits `IsAddressInSubnet` compares, byte by byte and then in the last byte, are shown to be those of the
prefix (`SubnetIsPrefix`), and the first match of the scan to be the least position of one (`FirstOfNumbers`).

`SettingsProofs` proves of `CommandChannel` for any number of tools, values and commands that `TypeOK`, `DisplayedInTable` and `QuietAnswersTrue` are
invariants and that every step is as `NamedItemOnly` says. The tables are data; `Headings`, `ItemCodes` and `Codes` evaluate them row by row and
show that the number the tool computes is the case of the switch. The invariant `CInv` then says of every request on its way that
its code is that of the item it names (`RequestInv`), of every flag that it is 0 or 1 (`FlagsInv`), and of every
answer that it is in the range of its item (`AnswerInv`). For `QuietAnswersTrue` `TruthInv` adds what a tool that nobody has disturbed may
rely on at each of its steps: after the driver's store that the setting has the value of the command, after its answer that the answer is the value the setting has.

It proves of `ChecksumOffload` for any packets and adapters that `OffloadFollowsSettings` is an invariant. The bits are not what the settings
say now but what they said at some moment since the packet was taken, so the invariant `OInv` goes through the reads one by one
(`TransmitInv`, `ReceiveInv`): which bits have been decided, and that the walk over extension headers, at whichever header it is, ends where
the offset says (`LoopEnds`). `PacketsOnlyRead` shows that the tools behave with packets as without, which carries the theorems about `CommandChannel` over.

`HookManagerProofs` proves for any hooks, priorities, blocks, clients and viewers that `TypeOK`, `ListOrdered`, `EntriesAccounted`, `WalkersSeeOneList` and
`VerdictOfAll` are invariants and that `Spec` implements `HookChain`. The inductive invariant has a part for the lock (`LockInv`: a writer is alone, each thread
that is between acquire and release is counted), for memory (`HandInv`, `OwnInv`, `ListInv`, `RefusedInv`, `AllocInv`: a block is in one place, the list has no block
twice), for the order (`OrderInv`: priorities do not rise from head to tail and no hook comes twice, although `RegisterHook` only looks for a duplicate as far as the
place of insertion), and for those who walk (`FilterInv`, `ViewInv`, `VerdictInv`: how many entries they have seen and what they have made of them).
A writer changes the list only when nobody walks; that makes a registration a step of `HookChain` that no pass contains. `HookChain` puts a new hook behind all
of its own priority (`ChainRegister`), which `ListOrdered` leaves open.

`InterfaceIpCacheProofs` proves for any addresses, blocks and number of changes that `TypeOK`, `BlocksAccounted`, `CacheFollowsSystem` and `QuietLookupsExact` are
invariants. `BlocksAccounted`, which includes that nothing is allocated after the unload, is inductive with `BlockInv`: only who refreshes or empties the list has a block in hand. `RefreshInv` says that as long as no
further notification waits, what the refresh has put in, what it has in hand and what it has not come to are the addresses of the machine, but for those it could not store.
`LookupInv` and `QuietInv` say of a lookup that no refresh has overlapped that the entries it has passed do not hold its address.

`DriverLifecycleProofs` proves for any number of filter points and any length of the queues that `TypeOK`, `EverybodyFindsState` and `NothingLeftBehind` are
invariants. `ProgressInv` says for each position in `LoadSteps` and `ReleaseSteps`, and each turn of their loops, what has been initialised, started and
registered: the engine and its threads, tables, monitors, hook lists, devices. What everybody finds is then read off the position at which they can be at work.

`NetBufferListsProofs` proves for any NBLs, any chains and any number of handlers at once that `TypeOK`, `WalkPointersLive`, `OwnFreed` and `RestReturned` are
invariants, as long as no NBL of others is passed down (`NothingPassedDown`), as none is: what `WPFilterSendToNICFinished` gives back is the chain from
`NetBufferLists` on, whose head may have been freed, and with NBLs of others in it that would be wrong. None of the properties is inductive: they
speak of what the links lead to. The invariant `NInv` speaks of places in the chain a handler was given instead: which of them are still
linked (`Kept`: those ahead of the walk, and behind it those of others), that each links to the next of them, where the three pointers stand (`Walk`), and that
handlers have no NBL in common (`Apart`). Links never make a cycle because some distance shrinks along each of them (`Acyclic`), although those of an NBL that
was given back are stale; hence `ChainFrom` is defined and goes through the linked places in their order (`ChainUnfolds`, `RestOfChain`).
`RemoveOwnWalk` is the heart of it: unlinking at the head or behind `PreviousNBL` takes out one place and leaves the others linked.

`RoutingEngineProofs` also proves that `FilterModules` implements `RoutingEngine` (`ModulesLeaveTheEngine`), so that attaching and detaching modules takes nothing from the
theorems about the engine; what it does not keep is the context a task points to, which is the violation the run shows.

Assumptions are only those named in the modules. Names are distinct: tasks, threads, blocks and list heads
(`ThreadsAssumption`, `TasksAssumption`, `NullAssumption`, `EntriesAssumption`). An NBL is the driver's or another's, and there are finitely many (`NblsAssumption`). Bounds and priorities are numbers, and there is a filter point (`BoundAssumption`, `ChangesAssumption`,
`NumbersAssumption`, `CountAssumption`, `PrioritiesAssumption`, `BoundsAssumption`). Special addresses are addresses (`SpecialAssumption`),
addresses have a length (`LengthsAssumption`), a route has a destination and a prefix of its family and a number for a metric
(`RowsAssumption`), a packet has a header and a payload that is none (`PacketsAssumption`), adapters can do some of the offloads (`AdaptersAssumption`).
`NumbersAssumption` fixes `HOOK_LIST_COUNT` at 5, as the code does, because the tool's list of names has five.

Model-checked only: the liveness properties `EveryTaskLeaves`, `StopReturns`, `EngineStops`, `BufferReclaimed`, `CallsReturn`, `ReleaseEnds` and
`CallbacksCatchUp` (fairness and ENABLED are beyond the prover), and the violation of `FilterModules` and of
`AddressWindow`, each of which is a behaviour and not a theorem. The induction theorems of the library cannot be
instantiated; where a proof needs one, as for the loops of `FindRouteEntry` and of the extension headers and for `ChainFrom`, which is defined by recursion along the links, it takes the least
number for which the claim would fail.

## Not modelled

* A failure of `PsCreateSystemThread` or of `CancelMibChangeNotify2`, whose results the code does not test.
* A hook that registers or removes a hook at its own filter point while it runs: the lock's behaviour for its own
  holder is not in this repository.
* The accessors of `include/net/` for fields nothing in the driver reads (`tcp.h`, `udp.h`, `icmp.h` and most of `ipv4.h` and
  `ipv6.h`): functions of one packet without state, offered to hooks. Chains that go on after AH or ESP, and extension
  headers longer than the shortest: `PacketsAssumption` excludes them.
* `OffloadConfig` changing while packets are sent: an adapter's capabilities are fixed in `ChecksumOffload`.
* The spelling of the tool's options, its colours and formats, its version warning, `-dw`: no state.
  Both architectures that are built have 8-byte pointers, so the structure of a hook in an answer is the same for tool and driver.
* `PrintRouteTable` and its call in the route callback, which only builds with `DBG` contain: output. There the
  walk runs after the lock is released; no callback and no cleanup runs beside it, since the IP helper delivers one
  notification at a time and `CancelMibChangeNotify2` waits for it. The model follows the release build.
* The contents of packets, other debug output, device creation, IRP bookkeeping, the IOCTLs for route
  tables, which are empty cases: no state the properties are about.
* `CreateAndProcessRoutingTask`, `RemoveRouteEntry`, the NBL list helpers: no caller.

## Plan

The model covers every part with state, and every safety property that a passing run checks is proved. What is left are
statements nobody has asked of the model yet:

1. `FilterModules`: that a module which is detached only when no task points to it keeps its context, which is the contract the comment in
   `winpfilter.h` describes and the code does not.
2. `NetBufferLists` with NBLs of others passed down: what `WPFilterSendToNICFinished` would have to return.
