----------------------------- MODULE RouteTable -----------------------------
(***************************************************************************)
(* The mirror of the system's routing table (route_table.c), the callback  *)
(* of the IP helper that rebuilds it (route_info.c), the unloading driver  *)
(* that empties it, and what a lookup in it finds.                         *)
(*                                                                         *)
(* Of the 64 tables of the driver only the mirror is ever filled.  Whoever *)
(* works on it holds its spin lock throughout, so removing and freeing an  *)
(* entry is one step, and so is allocating and inserting one.              *)
(*                                                                         *)
(* An address is a sequence of bytes and a byte is the set of its bits     *)
(* that are one, bit 0 being the lowest.                                   *)
(***************************************************************************)
EXTENDS Naturals, Sequences, SequencesExt

CONSTANTS
  BYTE_BIT_LENGTH,
  AddressBytes, \* length of an address of each family, in bytes
  Rows,         \* rows the routing table of the system may have
  Entries,      \* ROUTE_ENTRYs the pool has room for
  Free,         \* content of an entry that is not allocated
  Callbacks,    \* threads the IP helper may call back on at the same time
  Unloader,     \* the thread in DriverUnload
  Nobody,       \* no thread
  MaxChanges    \* bound on the number of changes of the system's routes

Families == {"IPV4", "IPV6"}
Bits == 0..BYTE_BIT_LENGTH-1
Addresses(f) == [1..AddressBytes[f] -> SUBSET Bits]
Threads == Callbacks \cup {Unloader}

ASSUME LengthsAssumption ==
  BYTE_BIT_LENGTH \in Nat \ {0} /\ AddressBytes \in [Families -> Nat]
ASSUME RowsAssumption ==
  \A r \in Rows :
    /\ r.type \in Families /\ r.destination \in Addresses(r.type)
    /\ r.prefix \in 0..BYTE_BIT_LENGTH * AddressBytes[r.type]
    /\ r.metric \in Nat
ASSUME NullAssumption ==
  Free \notin Rows /\ Unloader \notin Callbacks /\ Nobody \notin Threads
ASSUME ChangesAssumption == MaxChanges \in Nat

VARIABLES
  system,    \* the rows of the system's routing table
  changes,   \* number of times it changed
  pending,   \* notifications the IP helper has not delivered
  routeList, \* IPv4ListHead and IPv6ListHead of the mirror
  entry,     \* content of the ROUTE_ENTRYs
  lock,      \* the thread that holds the table's Lock
  pc,        \* what each thread does next
  rows,      \* rows of SystemRouteTable a callback has not come to
  behind,    \* history: the last callback got no table, or was not alone
  source,    \* history: the table the mirror was last rebuilt from
  lost,      \* history: its rows there was no memory for
  arrived    \* history: the entries in the order they were added

systemVars == <<system, changes>>
historyVars == <<behind, source, lost, arrived>>
vars == <<systemVars, pending, routeList, entry, lock, pc, rows, historyVars>>

\* The first notification is the one NotifyRouteChange2 is asked for.
Init ==
  /\ system \in SUBSET Rows /\ changes = 0
  /\ pending = 1
  /\ routeList = [f \in Families |-> <<>>]
  /\ entry = [e \in Entries |-> Free]
  /\ lock = Nobody
  /\ pc = [t \in Threads |-> "idle"]
  /\ rows = [c \in Callbacks |-> {}]
  /\ behind = FALSE /\ source = {} /\ lost = {} /\ arrived = <<>>

Goto(t, label) == pc' = [pc EXCEPT ![t] = label]

Listed(f) == {routeList[f][i] : i \in DOMAIN routeList[f]}
Mirror == {entry[e] : e \in UNION {Listed(f) : f \in Families}}

-----------------------------------------------------------------------------
(* CompareRoutes, IsAddressInSubnet and FindRouteEntry.                    *)

\* Faulty variant: a new route goes before its equals.
CompareRoutesNotWorse(a, b) ==
  a.metric < b.metric \/ (a.metric = b.metric /\ a.prefix >= b.prefix)

CompareRoutes(a, b) ==
  a.metric < b.metric \/ (a.metric = b.metric /\ a.prefix > b.prefix)

\* Faulty variant: the mask has the low bits of the byte.
IsAddressInSubnetLow(address, destination, prefixLength) ==
  LET byteCount == prefixLength \div BYTE_BIT_LENGTH
      mask == 0..(prefixLength % BYTE_BIT_LENGTH)-1
  IN  /\ \A i \in 1..byteCount : address[i] = destination[i]
      /\ mask # {} => address[byteCount + 1] \cap mask = destination[byteCount + 1] \cap mask

\* mask is 0xFF00 >> bitCount, cut to a byte.
IsAddressInSubnet(address, destination, prefixLength) ==
  LET byteCount == prefixLength \div BYTE_BIT_LENGTH
      bitCount == prefixLength % BYTE_BIT_LENGTH
      mask == {b + BYTE_BIT_LENGTH - bitCount : b \in Bits} \cap Bits
  IN  /\ \A i \in 1..byteCount : address[i] = destination[i]
      /\ bitCount > 0 =>
           address[byteCount + 1] \cap mask = destination[byteCount + 1] \cap mask

\* The answer to a lookup, or Free.
FindRouteEntry(f, address) ==
  LET route(i) == entry[routeList[f][i]]
      matching == {i \in DOMAIN routeList[f] :
                     IsAddressInSubnet(address, route(i).destination, route(i).prefix)}
  IN  IF matching = {} THEN Free
      ELSE route(CHOOSE i \in matching : \A j \in matching : i <= j)

-----------------------------------------------------------------------------
(* The IP helper: a route comes or goes.                                   *)

ChangeRoute(r) ==
  /\ changes < MaxChanges
  /\ system' = IF r \in system THEN system \ {r} ELSE system \cup {r}
  /\ changes' = changes + 1
  /\ pending' = pending + 1
  /\ UNCHANGED <<routeList, entry, lock, pc, rows, historyVars>>

-----------------------------------------------------------------------------
(* RouteTableChangeNotifyCallback.                                         *)

\* Until StopMonitorSystemRouteTableChange.
Monitored == pc[Unloader] = "idle"

GetIpForwardTable2(c) ==
  /\ Monitored
  /\ pc[c] = "idle"
  /\ pending > 0
  /\ pending' = pending - 1
  /\ rows' = [rows EXCEPT ![c] = system]
  /\ behind' = \E d \in Callbacks \ {c} : pc[d] # "idle"
  /\ Goto(c, "acquire")
  /\ UNCHANGED <<systemVars, routeList, entry, lock, source, lost, arrived>>

GetIpForwardTable2Fails(c) ==
  /\ Monitored
  /\ pc[c] = "idle"
  /\ pending > 0
  /\ pending' = pending - 1
  /\ behind' = TRUE
  /\ UNCHANGED <<systemVars, routeList, entry, lock, pc, rows, source, lost, arrived>>

\* Faulty variant: the lock is not waited for.
AcquireSpinLockAtOnce(t) ==
  /\ pc[t] = "acquire"
  /\ lock' = t
  /\ source' = IF t \in Callbacks THEN rows[t] ELSE {}
  /\ lost' = {}
  /\ Goto(t, "clean")
  /\ UNCHANGED <<systemVars, pending, routeList, entry, rows, behind, arrived>>

AcquireSpinLock(t) ==
  /\ pc[t] = "acquire"
  /\ lock = Nobody
  /\ lock' = t
  /\ source' = IF t \in Callbacks THEN rows[t] ELSE {}
  /\ lost' = {}
  /\ Goto(t, "clean")
  /\ UNCHANGED <<systemVars, pending, routeList, entry, rows, behind, arrived>>

\* Faulty variant: the entry is unlinked and not freed.
RemoveEntryLeaks(t, f) ==
  /\ pc[t] = "clean"
  /\ routeList[f] # <<>>
  /\ f = "IPV6" => routeList["IPV4"] = <<>>
  /\ routeList' = [routeList EXCEPT ![f] = Tail(@)]
  /\ UNCHANGED <<systemVars, pending, entry, lock, pc, rows, historyVars>>

\* CleanupRouteTable: the IPv4 list, then the IPv6 list.
RemoveEntry(t, f) ==
  /\ pc[t] = "clean"
  /\ routeList[f] # <<>>
  /\ f = "IPV6" => routeList["IPV4"] = <<>>
  /\ routeList' = [routeList EXCEPT ![f] = Tail(@)]
  /\ entry' = [entry EXCEPT ![Head(routeList[f])] = Free]
  /\ UNCHANGED <<systemVars, pending, lock, pc, rows, historyVars>>

\* Faulty variant: only the IPv4 list is emptied.
CleanedIPv4(t) ==
  /\ pc[t] = "clean"
  /\ routeList["IPV4"] = <<>>
  /\ arrived' = <<>>
  /\ Goto(t, IF t = Unloader THEN "release" ELSE "add")
  /\ UNCHANGED <<systemVars, pending, routeList, entry, lock, rows, behind, source, lost>>

Cleaned(t) ==
  /\ pc[t] = "clean"
  /\ \A f \in Families : routeList[f] = <<>>
  /\ arrived' = <<>>
  /\ Goto(t, IF t = Unloader THEN "release" ELSE "add")
  /\ UNCHANGED <<systemVars, pending, routeList, entry, lock, rows, behind, source, lost>>

\* Where AddRouteEntry puts route r: before the first entry it is better than.
StopsAt(r, f, pos) ==
  /\ \A i \in 1..pos-1 : ~CompareRoutes(r, entry[routeList[f][i]])
  /\ pos <= Len(routeList[f]) => CompareRoutes(r, entry[routeList[f][pos]])

AddRouteEntry(c, r, e) ==
  /\ pc[c] = "add"
  /\ r \in rows[c]
  /\ rows' = [rows EXCEPT ![c] = @ \ {r}]
  /\ entry[e] = Free
  /\ entry' = [entry EXCEPT ![e] = r]
  /\ \E pos \in 1..Len(routeList[r.type])+1 :
       /\ StopsAt(r, r.type, pos)
       /\ routeList' = [routeList EXCEPT ![r.type] = InsertAt(@, pos, e)]
  /\ arrived' = Append(arrived, e)
  /\ UNCHANGED <<systemVars, pending, lock, pc, behind, source, lost>>

\* The callback does not look at the status.
AddRouteEntryFails(c, r) ==
  /\ pc[c] = "add"
  /\ r \in rows[c]
  /\ rows' = [rows EXCEPT ![c] = @ \ {r}]
  /\ lost' = lost \cup {r}
  /\ UNCHANGED <<systemVars, pending, routeList, entry, lock, pc, behind, source, arrived>>

\* Faulty variant: the callback returns with the lock.
CallbackReturnsLocked(c) ==
  /\ pc[c] = "add"
  /\ rows[c] = {}
  /\ Goto(c, "idle")
  /\ UNCHANGED <<systemVars, pending, routeList, entry, lock, rows, historyVars>>

CallbackReturns(c) ==
  /\ pc[c] = "add"
  /\ rows[c] = {}
  /\ lock' = Nobody
  /\ Goto(c, "idle")
  /\ UNCHANGED <<systemVars, pending, routeList, entry, rows, historyVars>>

-----------------------------------------------------------------------------
(* DriverUnload: StopMonitorSystemRouteTableChange waits for the callbacks *)
(* and CleanupAllRouteTable follows.                                       *)

DriverUnload ==
  /\ Monitored
  /\ \A c \in Callbacks : pc[c] = "idle"
  /\ Goto(Unloader, "acquire")
  /\ UNCHANGED <<systemVars, pending, routeList, entry, lock, rows, historyVars>>

CleanupReturns ==
  /\ pc[Unloader] = "release"
  /\ lock' = Nobody
  /\ Goto(Unloader, "done")
  /\ UNCHANGED <<systemVars, pending, routeList, entry, rows, historyVars>>

-----------------------------------------------------------------------------

CleanupRouteTable(t) == AcquireSpinLock(t) \/ Cleaned(t) \/ \E f \in Families : RemoveEntry(t, f)

Callback(c) ==
  \/ GetIpForwardTable2(c) \/ GetIpForwardTable2Fails(c)
  \/ CleanupRouteTable(c)
  \/ \E r \in Rows, e \in Entries : AddRouteEntry(c, r, e)
  \/ \E r \in Rows : AddRouteEntryFails(c, r)
  \/ CallbackReturns(c)

CleanupAllRouteTable == CleanupRouteTable(Unloader) \/ CleanupReturns

Next ==
  \/ \E r \in Rows : ChangeRoute(r)
  \/ \E c \in Callbacks : Callback(c)
  \/ DriverUnload \/ CleanupAllRouteTable

Spec == Init /\ [][Next]_vars

\* Notifications are delivered and callbacks go on; the table's lock is a spin
\* lock and nobody keeps it.
FairSpec == Spec /\ WF_vars(CleanupAllRouteTable) /\ \A c \in Callbacks : WF_vars(Callback(c))

-----------------------------------------------------------------------------

TypeOK ==
  /\ system \in SUBSET Rows /\ changes \in 0..MaxChanges /\ pending \in 0..MaxChanges+1
  /\ routeList \in [Families -> Seq(Entries)]
  /\ entry \in [Entries -> Rows \cup {Free}]
  /\ lock \in Threads \cup {Nobody}
  /\ pc \in [Threads -> {"idle", "acquire", "clean", "add", "release", "done"}]
  /\ rows \in [Callbacks -> SUBSET Rows]
  /\ behind \in BOOLEAN /\ source \in SUBSET Rows /\ lost \in SUBSET Rows
  /\ arrived \in Seq(Entries)

\* Rebuilding the mirror loses no memory and frees nothing twice: the entries
\* allocated are those in the lists, each once and in the list of its family,
\* and unloading leaves none.
EntriesAccounted ==
  /\ \A f \in Families : \A i, j \in DOMAIN routeList[f] :
       /\ entry[routeList[f][i]] # Free => entry[routeList[f][i]].type = f
       /\ routeList[f][i] = routeList[f][j] => i = j
  /\ {e \in Entries : entry[e] # Free} = UNION {Listed(f) : f \in Families}
  /\ pc[Unloader] = "done" => \A e \in Entries : entry[e] = Free

\* However rows come in, each list is sorted: smaller metrics first, longer
\* prefixes first among equal metrics, and equal routes in the order of the
\* system's table.
RoutesOrdered ==
  \A f \in Families : \A i, j \in DOMAIN routeList[f] : i < j =>
    LET a == routeList[f][i]
        b == routeList[f][j]
    IN  /\ ~CompareRoutes(entry[b], entry[a])
        /\ ~CompareRoutes(entry[a], entry[b]) =>
             \E k, l \in DOMAIN arrived : k < l /\ arrived[k] = a /\ arrived[l] = b

\* Whoever takes the lock finds one table of the system, never a mixture of two
\* that overlapping callbacks had fetched, but for the rows there was no memory
\* for.
MirrorOfOneTable ==
  lock = Nobody => Mirror = source \ lost

\* The first match in the list is what routing asks for: no other route to the
\* address has a smaller metric, or the same metric and a longer prefix.  The
\* bytes and the mask of IsAddressInSubnet compare exactly the first
\* prefix bits, from none of them to all.
LookupFindsBest ==
  lock = Nobody => \A f \in Families : \A address \in Addresses(f) :
    LET bit(a, k) == BYTE_BIT_LENGTH - 1 - (k % BYTE_BIT_LENGTH) \in a[(k \div BYTE_BIT_LENGTH) + 1]
        routes == {r \in Mirror : /\ r.type = f
                                  /\ \A k \in 0..r.prefix-1 :
                                       bit(address, k) <=> bit(r.destination, k)}
        found == FindRouteEntry(f, address)
    IN  IF routes = {} THEN found = Free
        ELSE /\ found \in routes
             /\ \A r \in routes : /\ found.metric <= r.metric
                                  /\ found.metric = r.metric => found.prefix >= r.prefix

\* As soon as every notification has been handled the mirror has the routes of
\* the system, however often they changed during the callbacks, unless the last
\* one failed to get them or began while another was still at work, which may
\* then have written its older table last.
MirrorFollowsSystem ==
  Monitored /\ pending = 0 /\ ~behind /\ (\A c \in Callbacks : pc[c] = "idle") =>
    Mirror = system \ lost

\* Every change of the routes is followed by a moment without callbacks and
\* notifications, unless the driver goes, and then the table is emptied.
CallbacksCatchUp ==
  /\ pending > 0 ~> \/ pending = 0 /\ \A c \in Callbacks : pc[c] = "idle"
                    \/ pc[Unloader] = "done"
  /\ ~Monitored ~> pc[Unloader] = "done"
=============================================================================
