---------------------------- MODULE HookManager ----------------------------
(***************************************************************************)
(* The hooks of one filter point (hook_manager.c): the list of HOOK_ENTRYs *)
(* in order of priority, its reader-writer lock, the routing thread that   *)
(* walks the list for every packet, threads that read it out for the       *)
(* command line, kernel clients that register and unregister, and the      *)
(* unloading driver.  The five filter points share nothing.                *)
(*                                                                         *)
(* Every visit of an entry and every change of the list is a step: what    *)
(* keeps a walker on its feet is the lock and nothing else.                *)
(***************************************************************************)
EXTENDS Naturals, Sequences, SequencesExt

CONSTANTS
  Entries,     \* HOOK_ENTRYs the pool has room for
  Functions,   \* hook functions
  Priorities,  \* numbers
  Clients,     \* threads in the IOCTLs that register and unregister
  Viewers,     \* threads in GetHookInformation
  Filter,      \* the routing thread of the filter point
  Unloader,    \* the thread in DriverUnload
  MaxCount,    \* entries a caller of GetHookInformation has room for
  Nobody,      \* no thread
  Free,        \* content of an entry that is not allocated
  ListHead     \* the LIST_ENTRY of the list itself; no entry

ASSUME PrioritiesAssumption == Priorities \subseteq Nat
ASSUME CountAssumption == MaxCount \in Nat

Threads == Clients \cup Viewers \cup {Filter, Unloader}
Walkers == Viewers \cup {Filter}
Hook == [function : Functions, priority : Priorities]
Actions == {"DROP", "ACCEPT", "MODIFIED", "TRUNCATE"}

ASSUME ThreadsAssumption ==
  /\ Clients \cap Viewers = {}
  /\ Filter \notin Clients \cup Viewers /\ Unloader \notin Clients \cup Viewers
  /\ Filter # Unloader /\ Nobody \notin Threads

ASSUME EntriesAssumption == ListHead \notin Entries /\ Free \notin Hook

VARIABLES
  hookList,  \* HookLists[FilterPoint], from head to tail
  entry,     \* content of the HOOK_ENTRYs
  readers,   \* threads that hold HookListsLock[FilterPoint] for reading
  writer,    \* the thread that holds it for writing
  pc,        \* what each thread executes next
  cursor,    \* the entry each thread has in hand
  request,   \* the hook each client registers or unregisters
  result,    \* the filter's HOOK_RESULT
  called,    \* history: what the hooks called for this packet returned
  buffer,    \* what a viewer has read so far
  count,     \* Count of a viewer
  refused    \* history: entries of refused registrations

lockVars == <<readers, writer>>
passVars == <<result, called>>
viewVars == <<buffer, count>>
vars == <<hookList, entry, lockVars, pc, cursor, request, passVars, viewVars, refused>>

Accepted == [accept |-> TRUE, modified |-> FALSE]
Dropped == [accept |-> FALSE, modified |-> FALSE]

Init ==
  /\ hookList = <<>>
  /\ entry = [e \in Entries |-> Free]
  /\ readers = {} /\ writer = Nobody
  /\ pc = [t \in Threads |-> "idle"]
  /\ cursor = [t \in Threads |-> ListHead]
  /\ request = [c \in Clients |-> Free]
  /\ result = Accepted /\ called = <<>>
  /\ buffer = [v \in Viewers |-> <<>>] /\ count = [v \in Viewers |-> 0]
  /\ refused = {}

Goto(t, label) == pc' = [pc EXCEPT ![t] = label]
Hold(t, e) == cursor' = [cursor EXCEPT ![t] = e]

\* NdisAcquireRWLockRead, NdisAcquireRWLockWrite, NdisReleaseRWLock.  A writer
\* that has taken its turn keeps new readers out, and goes on when the readers
\* that are in have left.
AcquireRead(t) ==
  /\ writer = Nobody
  /\ readers' = readers \cup {t}
  /\ UNCHANGED writer

\* Faulty variant: the lock is taken for reading.
AcquireWriteShared(t) == AcquireRead(t)

AcquireWrite(t) ==
  /\ writer = Nobody
  /\ writer' = t
  /\ UNCHANGED readers

\* Faulty variant: a writer does not wait for the readers.
ReadersIgnored == TRUE

ReadersGone == readers = {}

Release(t) ==
  /\ readers' = readers \ {t}
  /\ writer' = IF writer = t THEN Nobody ELSE writer

First == IF hookList = <<>> THEN ListHead ELSE hookList[1]

\* The entry the Flink of e points to.
Following(e) ==
  LET i == CHOOSE i \in DOMAIN hookList : hookList[i] = e
  IN  IF i < Len(hookList) THEN hookList[i + 1] ELSE ListHead

-----------------------------------------------------------------------------
(* FilterEthernetPacket.                                                   *)

FilterAcquire ==
  /\ pc[Filter] = "idle"
  /\ AcquireRead(Filter)
  /\ Hold(Filter, First)
  /\ Goto(Filter, "walk")
  /\ UNCHANGED <<hookList, entry, request, passVars, viewVars, refused>>

\* Faulty variant: dropping leaves Modified as it is.
VerdictKeepsModified(action, tooLong) ==
  [accept |-> ~(action = "DROP" \/ tooLong),
   modified |-> result.modified \/ (action = "MODIFIED" /\ ~tooLong)]

\* The switch over the action of one hook and the test of DataLength after it.
Verdict(action, tooLong) ==
  IF action = "DROP" \/ tooLong
  THEN Dropped
  ELSE [accept |-> result.accept \/ action \in {"ACCEPT", "TRUNCATE"},
        modified |-> result.modified \/ action = "MODIFIED"]

\* The hook at the cursor returns action; it has set DataLength to more than
\* BufferLength when tooLong.
HookReturns(action, tooLong) ==
  /\ pc[Filter] = "walk"
  /\ cursor[Filter] # ListHead
  /\ called' = Append(called, [entry |-> cursor[Filter],
                               verdict |-> IF tooLong THEN "DROP" ELSE action])
  /\ result' = Verdict(action, tooLong)
  /\ IF tooLong \/ action \in {"DROP", "TRUNCATE"}
     THEN Hold(Filter, ListHead) /\ Goto(Filter, "release")
     ELSE Hold(Filter, Following(cursor[Filter])) /\ UNCHANGED pc
  /\ UNCHANGED <<hookList, entry, lockVars, request, viewVars, refused>>

FilterRelease ==
  /\ pc[Filter] = "release" \/ (pc[Filter] = "walk" /\ cursor[Filter] = ListHead)
  /\ Release(Filter)
  /\ result' = [result EXCEPT !.accept = @ \/ result.modified]
  /\ Goto(Filter, "return")
  /\ UNCHANGED <<hookList, entry, cursor, request, called, viewVars, refused>>

FilterReturn ==
  /\ pc[Filter] = "return"
  /\ Goto(Filter, "idle")
  /\ result' = Accepted /\ called' = <<>>
  /\ UNCHANGED <<hookList, entry, lockVars, cursor, request, viewVars, refused>>

FilterEthernetPacket ==
  \/ FilterRelease \/ FilterReturn
  \/ \E action \in Actions, tooLong \in BOOLEAN : HookReturns(action, tooLong)

-----------------------------------------------------------------------------
(* The devices the IOCTLs go through are open: DriverUnload has not begun. *)

Loaded == pc[Unloader] = "idle"

(* GetHookInformation.                                                     *)

GetHookInformation(v) ==
  /\ Loaded
  /\ pc[v] = "idle"
  /\ Goto(v, "get")
  /\ UNCHANGED <<hookList, entry, lockVars, cursor, request, passVars, viewVars, refused>>

ViewAcquire(v) ==
  /\ pc[v] = "get"
  /\ AcquireRead(v)
  /\ Hold(v, First)
  /\ Goto(v, "walk")
  /\ UNCHANGED <<hookList, entry, request, passVars, viewVars, refused>>

ViewEntry(v) ==
  /\ pc[v] = "walk"
  /\ cursor[v] # ListHead
  /\ buffer' = [buffer EXCEPT ![v] =
                  IF count[v] < MaxCount THEN Append(@, entry[cursor[v]]) ELSE @]
  /\ count' = [count EXCEPT ![v] = @ + 1]
  /\ Hold(v, Following(cursor[v]))
  /\ UNCHANGED <<hookList, entry, lockVars, pc, request, passVars, refused>>

ViewRelease(v) ==
  /\ pc[v] = "walk"
  /\ cursor[v] = ListHead
  /\ Release(v)
  /\ buffer' = [buffer EXCEPT ![v] = <<>>] /\ count' = [count EXCEPT ![v] = 0]
  /\ Goto(v, "idle")
  /\ UNCHANGED <<hookList, entry, cursor, request, passVars, refused>>

-----------------------------------------------------------------------------
(* RegisterHook.  When the allocation fails nothing happens.               *)

RegisterHook(c, h) ==
  /\ Loaded
  /\ pc[c] = "idle"
  /\ \E e \in Entries :
       /\ entry[e] = Free
       /\ entry' = [entry EXCEPT ![e] = h]
       /\ Hold(c, e)
  /\ request' = [request EXCEPT ![c] = h]
  /\ Goto(c, "register")
  /\ UNCHANGED <<hookList, lockVars, passVars, viewVars, refused>>

RegisterAcquire(c) ==
  /\ pc[c] = "register"
  /\ AcquireWrite(c)
  /\ Goto(c, "insert")
  /\ UNCHANGED <<hookList, entry, cursor, request, passVars, viewVars, refused>>

\* Where the loop over the list stops: at the same hook, or before the first
\* entry of lower priority.
Same(h, i) == entry[hookList[i]] = h
\* Faulty variant: new entries go before those of the same priority.
NotHigher(h, i) == h.priority >= entry[hookList[i]].priority

Lower(h, i) == h.priority > entry[hookList[i]].priority

StopsAt(h, pos) ==
  /\ \A i \in 1..pos-1 : ~Same(h, i) /\ ~Lower(h, i)
  /\ pos <= Len(hookList) => Same(h, pos) \/ Lower(h, pos)

\* Faulty variant: the return in the middle does not release the lock.
RegisterRefuseLocked(c) ==
  /\ pc[c] = "insert"
  /\ ReadersGone
  /\ \E pos \in 1..Len(hookList) : StopsAt(request[c], pos) /\ Same(request[c], pos)
  /\ refused' = refused \cup {cursor[c]}
  /\ Hold(c, ListHead)
  /\ request' = [request EXCEPT ![c] = Free]
  /\ Goto(c, "idle")
  /\ UNCHANGED <<hookList, entry, lockVars, passVars, viewVars>>

\* The return in the middle of RegisterHook: the entry is not freed.
RegisterRefuse(c) ==
  /\ pc[c] = "insert"
  /\ ReadersGone
  /\ \E pos \in 1..Len(hookList) : StopsAt(request[c], pos) /\ Same(request[c], pos)
  /\ Release(c)
  /\ refused' = refused \cup {cursor[c]}
  /\ Hold(c, ListHead)
  /\ request' = [request EXCEPT ![c] = Free]
  /\ Goto(c, "idle")
  /\ UNCHANGED <<hookList, entry, passVars, viewVars>>

RegisterInsert(c) ==
  /\ pc[c] = "insert"
  /\ ReadersGone
  /\ \E pos \in 1..Len(hookList)+1 :
       /\ StopsAt(request[c], pos)
       /\ pos <= Len(hookList) => ~Same(request[c], pos)
       /\ hookList' = InsertAt(hookList, pos, cursor[c])
  /\ Hold(c, ListHead)
  /\ Goto(c, "release")
  /\ UNCHANGED <<entry, lockVars, request, passVars, viewVars, refused>>

ClientRelease(c) ==
  /\ pc[c] = "release"
  /\ Release(c)
  /\ request' = [request EXCEPT ![c] = Free]
  /\ Goto(c, "idle")
  /\ UNCHANGED <<hookList, entry, cursor, passVars, viewVars, refused>>

-----------------------------------------------------------------------------
(* UnregisterHook and UnregisterAllHooks.                                  *)

UnregisterHook(c, h) ==
  /\ Loaded
  /\ pc[c] = "idle"
  /\ request' = [request EXCEPT ![c] = h]
  /\ Goto(c, "unregister")
  /\ UNCHANGED <<hookList, entry, lockVars, cursor, passVars, viewVars, refused>>

UnregisterAcquire(c) ==
  /\ pc[c] = "unregister"
  /\ AcquireWrite(c)
  /\ Goto(c, "remove")
  /\ UNCHANGED <<hookList, entry, cursor, request, passVars, viewVars, refused>>

\* RemoveEntryList.
Unlink(t, pos) ==
  /\ hookList' = RemoveAt(hookList, pos)
  /\ Hold(t, hookList[pos])
  /\ Goto(t, "free")
  /\ UNCHANGED <<entry, lockVars, request, passVars, viewVars, refused>>

UnregisterRemove(c) ==
  /\ pc[c] = "remove"
  /\ ReadersGone
  /\ \E pos \in DOMAIN hookList :
       /\ Same(request[c], pos)
       /\ \A i \in 1..pos-1 : ~Same(request[c], i)
       /\ Unlink(c, pos)

UnregisterNothing(c) ==
  /\ pc[c] = "remove"
  /\ ReadersGone
  /\ \A i \in DOMAIN hookList : ~Same(request[c], i)
  /\ Goto(c, "release")
  /\ UNCHANGED <<hookList, entry, lockVars, cursor, request, passVars, viewVars, refused>>

\* Faulty variant: the entry is unlinked and not freed.
FreeEntryLeaks(t) ==
  /\ pc[t] = "free"
  /\ Hold(t, ListHead)
  /\ Goto(t, IF t = Unloader THEN "remove" ELSE "release")
  /\ UNCHANGED <<hookList, entry, lockVars, request, passVars, viewVars, refused>>

FreeEntry(t) ==
  /\ pc[t] = "free"
  /\ entry' = [entry EXCEPT ![cursor[t]] = Free]
  /\ Hold(t, ListHead)
  /\ Goto(t, IF t = Unloader THEN "remove" ELSE "release")
  /\ UNCHANGED <<hookList, lockVars, request, passVars, viewVars, refused>>

\* The devices are deleted and nobody is in an IOCTL; packets are filtered on.
DriverUnload ==
  /\ Loaded
  /\ \A t \in Clients \cup Viewers : pc[t] = "idle"
  /\ Goto(Unloader, "unregister")
  /\ UNCHANGED <<hookList, entry, lockVars, cursor, request, passVars, viewVars, refused>>

UnregisterAllAcquire ==
  /\ pc[Unloader] = "unregister"
  /\ AcquireWrite(Unloader)
  /\ Goto(Unloader, "remove")
  /\ UNCHANGED <<hookList, entry, cursor, request, passVars, viewVars, refused>>

UnregisterAllRemove ==
  /\ pc[Unloader] = "remove"
  /\ ReadersGone
  /\ hookList # <<>>
  /\ Unlink(Unloader, 1)

UnregisterAllRelease ==
  /\ pc[Unloader] = "remove"
  /\ ReadersGone
  /\ hookList = <<>>
  /\ Release(Unloader)
  /\ Goto(Unloader, "done")
  /\ UNCHANGED <<hookList, entry, cursor, request, passVars, viewVars, refused>>

-----------------------------------------------------------------------------

Call ==
  \/ \E c \in Clients, h \in Hook : RegisterHook(c, h) \/ UnregisterHook(c, h)
  \/ \E v \in Viewers : GetHookInformation(v)
  \/ DriverUnload

View(v) == ViewEntry(v) \/ ViewRelease(v)

Register(c) == RegisterRefuse(c) \/ RegisterInsert(c) \/ ClientRelease(c)

Unregister(c) == UnregisterRemove(c) \/ UnregisterNothing(c) \/ FreeEntry(c)

UnregisterAllHooks == UnregisterAllRemove \/ FreeEntry(Unloader) \/ UnregisterAllRelease

Next ==
  \/ Call
  \/ FilterAcquire \/ FilterEthernetPacket
  \/ \E v \in Viewers : ViewAcquire(v) \/ View(v)
  \/ \E c \in Clients :
       RegisterAcquire(c) \/ UnregisterAcquire(c) \/ Register(c) \/ Unregister(c)
  \/ UnregisterAllAcquire \/ UnregisterAllHooks

\* Hooks return, threads that hold the lock go on, and whoever waits for it
\* gets it in the end: NDIS gives waiters their turn although the routing
\* thread takes the lock for packet after packet.
Fairness ==
  /\ WF_vars(FilterEthernetPacket) /\ WF_vars(UnregisterAllHooks)
  /\ \A v \in Viewers : WF_vars(View(v)) /\ SF_vars(ViewAcquire(v))
  /\ \A c \in Clients :
       /\ WF_vars(Register(c)) /\ WF_vars(Unregister(c))
       /\ SF_vars(RegisterAcquire(c)) /\ SF_vars(UnregisterAcquire(c))
  /\ SF_vars(UnregisterAllAcquire)

Spec == Init /\ [][Next]_vars
FairSpec == Spec /\ Fairness

-----------------------------------------------------------------------------

TypeOK ==
  /\ hookList \in Seq(Entries)
  /\ entry \in [Entries -> Hook \cup {Free}]
  /\ readers \in SUBSET Walkers
  /\ writer \in Clients \cup {Unloader, Nobody}
  /\ pc[Filter] \in {"idle", "walk", "release", "return"}
  /\ \A v \in Viewers : pc[v] \in {"idle", "get", "walk"}
  /\ \A c \in Clients : pc[c] \in {"idle", "register", "insert", "unregister", "remove",
                                   "free", "release"}
  /\ pc[Unloader] \in {"idle", "unregister", "remove", "free", "done"}
  /\ pc \in [Threads -> {"idle", "get", "walk", "release", "return", "register", "insert",
                         "unregister", "remove", "free", "done"}]
  /\ cursor \in [Threads -> Entries \cup {ListHead}]
  /\ request \in [Clients -> Hook \cup {Free}]
  /\ result \in [accept : BOOLEAN, modified : BOOLEAN]
  /\ called \in Seq([entry : Entries, verdict : Actions])
  /\ buffer \in [Viewers -> Seq(Hook)]
  /\ count \in [Viewers -> Nat]
  /\ refused \in SUBSET Entries

Listed == {hookList[i] : i \in DOMAIN hookList}

\* Registrations and removals in any order leave the list sorted, higher
\* priorities first, with no hook registered twice at one priority: the search
\* for a duplicate may stop at the first entry of lower priority.
ListOrdered ==
  \A i, j \in DOMAIN hookList : i < j =>
    /\ entry[hookList[i]].priority >= entry[hookList[j]].priority
    /\ entry[hookList[i]] # entry[hookList[j]]

\* Entries that can be reached are allocated: those listed, those a walker or
\* the hook it runs stands on, those a client is about to insert or to free.
\* Allocated entries can be reached, except those of refused registrations.
EntriesAccounted ==
  LET inHand == {cursor[t] : t \in Threads} \ {ListHead}
  IN  {e \in Entries : entry[e] # Free} = Listed \cup inHand \cup refused

\* A walker sees one list from the lock to the release, whoever registers or
\* unregisters meanwhile: what it has visited is the beginning of the list and
\* it stands on the next entry, so no hook runs once it is unregistered, and
\* GetHookInformation returns the hooks of one moment, as far as they fit.
WalkersSeeOneList ==
  /\ pc[Filter] = "walk" =>
       /\ \A i \in DOMAIN called : called[i].entry = hookList[i]
       /\ cursor[Filter] =
            IF Len(called) < Len(hookList) THEN hookList[Len(called) + 1] ELSE ListHead
  /\ \A v \in Viewers : pc[v] = "walk" =>
       /\ cursor[v] = IF count[v] < Len(hookList) THEN hookList[count[v] + 1] ELSE ListHead
       /\ Len(buffer[v]) = IF count[v] < MaxCount THEN count[v] ELSE MaxCount
       /\ \A i \in DOMAIN buffer[v] : buffer[v][i] = entry[hookList[i]]

\* A packet is dropped if one hook drops it or claims more data than there is
\* room for, whatever the others say, and it counts as modified if a hook
\* modified it and none dropped it.
VerdictOfAll ==
  pc[Filter] = "return" =>
    LET verdicts == {called[i].verdict : i \in DOMAIN called}
    IN  /\ result.accept <=> "DROP" \notin verdicts
        /\ result.modified <=> "MODIFIED" \in verdicts /\ "DROP" \notin verdicts

\* The list, the lock and the walk of the routing thread implement a chain of
\* hooks that changes between packets only and shows a packet to hooks of equal
\* priority in the order in which they were registered.
Chain == INSTANCE HookChain WITH
  chain <- [i \in 1..Len(hookList) |-> entry[hookList[i]]],
  inPass <- pc[Filter] \in {"walk", "release"},
  pending <- IF pc[Filter] \in {"walk", "release"}
             THEN [i \in 1..Len(hookList)-Len(called) |-> entry[hookList[Len(called) + i]]]
             ELSE <<>>,
  decided <- pc[Filter] = "release"
ChainSpec == Chain!Spec

\* Every IOCTL and the unloading driver get through, also when a registration
\* is refused: "MUST release the lock, otherwise it will lead to a deadlock".
CallsReturn ==
  /\ \A t \in Clients \cup Viewers : pc[t] # "idle" ~> pc[t] = "idle"
  /\ pc[Unloader] # "idle" ~> pc[Unloader] = "done"
=============================================================================
