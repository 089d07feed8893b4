-------------------------- MODULE InterfaceIpCache --------------------------
(***************************************************************************)
(* The cache of the machine's own addresses (interface_ip_table.c), the    *)
(* callback of the IP helper that refreshes it (route_info.c) and the      *)
(* prerouting thread, which asks it whether a packet is to be forwarded.   *)
(*                                                                         *)
(* The list has a lock, IfIpELock.  Its holders, the callback and the      *)
(* unloading driver, exclude each other anyway, and IsLocalIP does not     *)
(* take it, so the lock orders nothing and is left out.                    *)
(***************************************************************************)
EXTENDS Naturals, Sequences

CONSTANTS
  Addresses,   \* addresses packets go to
  Special,     \* those IsValidForwardAddress refuses by their first bytes
  Entries,     \* blocks of memory for INTERFACE_IP_INFOs
  Free,        \* content of a block that is not allocated
  ListHead,    \* EntryList itself
  MaxChanges   \* bound on the number of changes of the machine's addresses

ASSUME SpecialAssumption == Special \subseteq Addresses
ASSUME NullAssumption == ListHead \notin Entries /\ Free \notin Addresses
ASSUME ChangesAssumption == MaxChanges \in Nat

VARIABLES
  system,       \* the addresses of the machine
  changes,      \* number of times they changed
  pending,      \* notifications the IP helper has not delivered
  callback,     \* what the callback, later the unloading driver, does next
  unicastTable, \* rows of UnicastIPTable the callback has not come to
  block,        \* the block it is linking or removing
  entryList,    \* EntryList
  ipAddress,    \* IPAddress of every block
  failed,       \* history: what the last callback could not find out or store
  lookup,       \* what the prerouting thread executes next
  address,      \* parameter Address of IsLocalIP
  currentEntry, \* its local variable
  forwarding,   \* ForwardingFlag
  overlapped,   \* history: the list was written since the lookup began
  kept          \* history: the address was cached then and local ever since

helperVars == <<system, changes>>
cacheVars == <<pending, callback, unicastTable, block, entryList, ipAddress, failed>>
lookupVars == <<lookup, address, currentEntry, forwarding>>
vars == <<helperVars, cacheVars, lookupVars, overlapped, kept>>

Listed == {entryList[i] : i \in DOMAIN entryList}
Cached == {ipAddress[e] : e \in Listed}

First == IF entryList = <<>> THEN ListHead ELSE entryList[1]

\* The first notification is the one NotifyUnicastIpAddressChange asks for.
Init ==
  /\ system \in SUBSET (Addresses \ Special) /\ changes = 0
  /\ pending = 1
  /\ callback = "idle"
  /\ unicastTable = {} /\ block = ListHead
  /\ entryList = <<>>
  /\ ipAddress = [e \in Entries |-> Free]
  /\ failed = Addresses
  /\ lookup = "idle"
  /\ address \in Addresses /\ currentEntry = ListHead /\ forwarding = FALSE
  /\ overlapped = FALSE /\ kept = FALSE

-----------------------------------------------------------------------------
(* The IP helper: an interface gets an address or loses one.               *)

ChangeAddress(a) ==
  /\ changes < MaxChanges /\ callback # "unloaded"
  /\ a \notin Special
  /\ system' = IF a \in system THEN system \ {a} ELSE system \cup {a}
  /\ changes' = changes + 1
  /\ pending' = pending + 1
  /\ kept' = (kept /\ address \in system')
  /\ UNCHANGED <<callback, unicastTable, block, entryList, ipAddress, failed, lookupVars,
                 overlapped>>

-----------------------------------------------------------------------------
(* UnicastIpAddressChangeNotifyCallback.  The IP helper delivers one       *)
(* notification at a time.                                                 *)

\* Faulty variant: the callback does not empty the cache first.
GetTableKeepsOld ==
  /\ callback = "idle"
  /\ pending > 0
  /\ pending' = pending - 1
  /\ unicastTable' = system
  /\ failed' = {}
  /\ callback' = "insert"
  /\ overlapped' = TRUE
  /\ UNCHANGED <<helperVars, block, entryList, ipAddress, lookupVars, kept>>

GetUnicastIpAddressTable ==
  /\ callback = "idle"
  /\ pending > 0
  /\ pending' = pending - 1
  /\ unicastTable' = system
  /\ failed' = {}
  /\ callback' = "delete"
  /\ overlapped' = TRUE
  /\ UNCHANGED <<helperVars, block, entryList, ipAddress, lookupVars, kept>>

GetUnicastIpAddressTableFails ==
  /\ callback = "idle"
  /\ pending > 0
  /\ pending' = pending - 1
  /\ failed' = Addresses
  /\ UNCHANGED <<helperVars, callback, unicastTable, block, entryList, ipAddress, lookupVars,
                 overlapped, kept>>

\* DeleteAllInterfaceIPCache
RemoveEntry ==
  /\ callback \in {"delete", "unload"}
  /\ entryList # <<>>
  /\ block = ListHead
  /\ block' = Head(entryList)
  /\ entryList' = Tail(entryList)
  /\ UNCHANGED <<helperVars, pending, callback, unicastTable, ipAddress, failed, lookupVars,
                 overlapped, kept>>

\* Faulty variant: the entry is unlinked and not freed.
FreeEntryLeaks ==
  /\ callback \in {"delete", "unload"}
  /\ block # ListHead
  /\ block' = ListHead
  /\ UNCHANGED <<helperVars, pending, callback, unicastTable, entryList, ipAddress, failed,
                 lookupVars, overlapped, kept>>

FreeEntry ==
  /\ callback \in {"delete", "unload"}
  /\ block # ListHead
  /\ ipAddress' = [ipAddress EXCEPT ![block] = Free]
  /\ block' = ListHead
  /\ UNCHANGED <<helperVars, pending, callback, unicastTable, entryList, failed, lookupVars,
                 overlapped, kept>>

AllDeleted ==
  /\ callback \in {"delete", "unload"}
  /\ entryList = <<>> /\ block = ListHead
  /\ callback' = IF callback = "delete" THEN "insert" ELSE "unloaded"
  /\ UNCHANGED <<helperVars, pending, unicastTable, block, entryList, ipAddress, failed,
                 lookupVars, overlapped, kept>>

\* InsertIntoInterfaceIPCache, for every row of the table.
AllocateEntry(a, e) ==
  /\ callback = "insert"
  /\ block = ListHead
  /\ a \in unicastTable
  /\ unicastTable' = unicastTable \ {a}
  /\ ipAddress[e] = Free
  /\ ipAddress' = [ipAddress EXCEPT ![e] = a]
  /\ block' = e
  /\ UNCHANGED <<helperVars, pending, callback, entryList, failed, lookupVars, overlapped, kept>>

AllocateEntryFails(a) ==
  /\ callback = "insert"
  /\ block = ListHead
  /\ a \in unicastTable
  /\ unicastTable' = unicastTable \ {a}
  /\ failed' = failed \cup {a}
  /\ UNCHANGED <<helperVars, pending, callback, block, entryList, ipAddress, lookupVars,
                 overlapped, kept>>

InsertEntry ==
  /\ callback = "insert"
  /\ block # ListHead
  /\ entryList' = <<block>> \o entryList
  /\ block' = ListHead
  /\ UNCHANGED <<helperVars, pending, callback, unicastTable, ipAddress, failed, lookupVars,
                 overlapped, kept>>

CallbackReturns ==
  /\ callback = "insert"
  /\ unicastTable = {} /\ block = ListHead
  /\ callback' = "idle"
  /\ UNCHANGED <<helperVars, pending, unicastTable, block, entryList, ipAddress, failed,
                 lookupVars, overlapped, kept>>

\* StopMonitorUnicastIpChange waits for the callback; later
\* FreeInterfaceIPCacheManager, before StopRoutingEngine.
FreeInterfaceIPCacheManager ==
  /\ callback = "idle"
  /\ callback' = "unload"
  /\ overlapped' = TRUE
  /\ UNCHANGED <<helperVars, pending, unicastTable, block, entryList, ipAddress, failed,
                 lookupVars, kept>>

-----------------------------------------------------------------------------
(* IsValidForwardAddress and IsLocalIP.                                    *)

LookUp(a) ==
  /\ lookup = "idle"
  /\ address' = a
  /\ forwarding' = FALSE
  /\ lookup' = IF a \in Special THEN "return" ELSE "first"
  /\ overlapped' = (callback \notin {"idle", "unloaded"})
  /\ kept' = (a \in system \cap Cached)
  /\ UNCHANGED <<helperVars, cacheVars, currentEntry>>

FirstEntry ==
  /\ lookup = "first"
  /\ currentEntry' = First
  /\ lookup' = "compare"
  /\ UNCHANGED <<helperVars, cacheVars, address, forwarding, overlapped, kept>>

\* Blocks with the content of a list entry.  Reading another one, which has
\* been freed and perhaps allocated again, gives any result.
Intact == Listed \cup (IF callback = "insert" THEN {} ELSE {block})

\* Faulty variant: the family is compared, the address is not.
CompareFamily ==
  /\ lookup = "compare"
  /\ currentEntry # ListHead
  /\ lookup' = "return"
  /\ UNCHANGED <<helperVars, cacheVars, address, currentEntry, forwarding, overlapped, kept>>

CompareEntry ==
  /\ lookup = "compare"
  /\ currentEntry # ListHead
  /\ \E equal \in IF currentEntry \in Intact THEN {ipAddress[currentEntry] = address} ELSE BOOLEAN :
       lookup' = IF equal THEN "return" ELSE "next"
  /\ UNCHANGED <<helperVars, cacheVars, address, currentEntry, forwarding, overlapped, kept>>

\* What the Flink of e may be.
Following(e) ==
  IF e \in Listed
  THEN {IF i < Len(entryList) THEN entryList[i + 1] ELSE ListHead :
          i \in {j \in DOMAIN entryList : entryList[j] = e}}
  ELSE IF e \in Intact THEN {First} ELSE Entries \cup {ListHead}

NextEntry ==
  /\ lookup = "next"
  /\ currentEntry' \in Following(currentEntry)
  /\ lookup' = "compare"
  /\ UNCHANGED <<helperVars, cacheVars, address, forwarding, overlapped, kept>>

NotFound ==
  /\ lookup = "compare"
  /\ currentEntry = ListHead
  /\ forwarding' = TRUE
  /\ lookup' = "return"
  /\ UNCHANGED <<helperVars, cacheVars, address, currentEntry, overlapped, kept>>

Return ==
  /\ lookup = "return"
  /\ lookup' = "idle"
  /\ currentEntry' = ListHead
  /\ UNCHANGED <<helperVars, cacheVars, address, forwarding, overlapped, kept>>

-----------------------------------------------------------------------------

Next ==
  \/ \E a \in Addresses : ChangeAddress(a) \/ AllocateEntryFails(a) \/ LookUp(a)
  \/ \E a \in Addresses, e \in Entries : AllocateEntry(a, e)
  \/ GetUnicastIpAddressTable \/ GetUnicastIpAddressTableFails
  \/ RemoveEntry \/ FreeEntry \/ AllDeleted
  \/ InsertEntry \/ CallbackReturns \/ FreeInterfaceIPCacheManager
  \/ FirstEntry \/ CompareEntry \/ NextEntry \/ NotFound \/ Return

Spec == Init /\ [][Next]_vars

-----------------------------------------------------------------------------

TypeOK ==
  /\ system \in SUBSET (Addresses \ Special) /\ unicastTable \in SUBSET (Addresses \ Special)
  /\ changes \in 0..MaxChanges /\ pending \in 0..MaxChanges+1
  /\ callback \in {"idle", "delete", "insert", "unload", "unloaded"}
  /\ block \in Entries \cup {ListHead} /\ currentEntry \in Entries \cup {ListHead}
  /\ entryList \in Seq(Entries)
  /\ ipAddress \in [Entries -> Addresses \cup {Free}]
  /\ failed \in SUBSET Addresses
  /\ lookup \in {"idle", "first", "compare", "next", "return"}
  /\ address \in Addresses
  /\ forwarding \in BOOLEAN /\ overlapped \in BOOLEAN /\ kept \in BOOLEAN

\* Refreshes lose no memory and free nothing twice: the allocated blocks are
\* those in the list, each once, and the one at hand.  FreeInterfaceIPCacheManager
\* leaves none.
BlocksAccounted ==
  /\ \A i, j \in DOMAIN entryList : entryList[i] = entryList[j] => i = j
  /\ block \notin Listed
  /\ {e \in Entries : ipAddress[e] # Free} = Listed \cup ({block} \ {ListHead})
  /\ callback = "unloaded" => \A e \in Entries : ipAddress[e] = Free

\* When every notification has been delivered the cache holds the addresses of
\* the machine, however changes and refreshes overlap, but for what the last
\* callback failed to get or to allocate memory for.
CacheFollowsSystem ==
  callback = "idle" /\ pending = 0 => Cached \ failed = system \ failed

\* A lookup that overlaps no refresh stands on entries of the list only and
\* forwards exactly what is neither special nor cached.
QuietLookupsExact ==
  ~overlapped =>
    /\ lookup \in {"compare", "next"} => currentEntry \in Listed \cup {ListHead}
    /\ lookup = "return" => (forwarding <=> address \notin Special \cup Cached)

\* Until the driver unloads, packets to an address that was cached when the
\* lookup began, and that the machine has kept since, are not forwarded: "The
\* IP packet is not for local machine" is what PreroutingThread concludes from
\* the flag.
ForwardedNotLocal ==
  callback \notin {"unload", "unloaded"} /\ lookup = "return" /\ forwarding => ~kept
=============================================================================
