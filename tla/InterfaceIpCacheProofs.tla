----------------------- MODULE InterfaceIpCacheProofs -----------------------
(***************************************************************************)
(* Proofs about the cache of the machine's own addresses, for any set of   *)
(* addresses and of blocks of memory and any number of changes.            *)
(*                                                                         *)
(* The invariant says, beside the properties, what a refresh that is under *)
(* way still has to do, and where a lookup that meets no refresh stands.   *)
(***************************************************************************)
EXTENDS InterfaceIpCache, TLAPS

-----------------------------------------------------------------------------
(* The invariant.                                                          *)

\* There is a notification for every change, beside the first one.
PendingInv == pending <= changes + 1

\* Only who refreshes or empties the list has a block at hand.
BlockInv == callback \in {"idle", "unloaded"} => block = ListHead

\* The address in the block that the callback is about to link.
AtHand == IF block = ListHead THEN {} ELSE {ipAddress[block]}

\* While nothing has changed since the callback read the table, what it has
\* cached, has at hand and has not come to are the addresses of the machine, but
\* for those it could not store.
RefreshInv ==
  pending = 0 =>
    /\ callback = "idle" => Cached \ failed = system \ failed
    /\ callback = "delete" => unicastTable = system
    /\ callback = "insert" => (Cached \cup AtHand \cup unicastTable) \ failed = system \ failed

\* Entry number n of the list, from 1; behind the last one comes the head.
EntryAt(n) == IF n <= Len(entryList) THEN entryList[n] ELSE ListHead

\* The lookup stands at an entry, and has found the address in none before.
StandsAt(n) ==
  /\ currentEntry = EntryAt(n)
  /\ \A i \in 1..Len(entryList) : i < n => ipAddress[entryList[i]] # address

\* A lookup that no refresh overlaps walks a list that stays as it is.
QuietInv ==
  ~overlapped =>
    /\ callback \in {"idle", "unloaded"}
    /\ lookup \in {"compare", "next"} => \E n \in 1..Len(entryList)+1 : StandsAt(n)
    /\ lookup = "next" => currentEntry # ListHead /\ ipAddress[currentEntry] # address
    /\ lookup = "return" => (forwarding <=> address \notin Special \cup Cached)

\* Special addresses are not looked up, and the flag is set at the end only.
LookupInv ==
  /\ lookup \in {"first", "compare", "next"} => address \notin Special /\ ~forwarding

IInv ==
  /\ TypeOK /\ PendingInv /\ BlockInv /\ BlocksAccounted
  /\ RefreshInv /\ LookupInv /\ QuietInv

-----------------------------------------------------------------------------
(* Lists that get or lose their first entry.                               *)

Elements(s) == {s[i] : i \in DOMAIN s}
Distinct(s) == \A i, j \in DOMAIN s : s[i] = s[j] => i = j

\* What has been taken from a list is not in it any more.
LEMMA TakeFirst ==
  ASSUME NEW S, NEW s \in Seq(S), s # <<>>, Distinct(s)
  PROVE  /\ Head(s) \in S /\ Tail(s) \in Seq(S) /\ Distinct(Tail(s))
         /\ Head(s) \notin Elements(Tail(s))
         /\ Elements(s) = Elements(Tail(s)) \cup {Head(s)}
<1> DEFINE n == Len(s)
<1>1. n \in Nat /\ n > 0 /\ DOMAIN s = 1..n
  OBVIOUS
<1>2. /\ Head(s) = s[1] /\ Tail(s) \in Seq(S) /\ DOMAIN Tail(s) = 1..n-1
      /\ \A i \in 1..n-1 : Tail(s)[i] = s[i+1]
  OBVIOUS
<1> DEFINE t == Tail(s)
<1> HIDE DEF n, t
<1>3. Distinct(t)
  BY <1>1, <1>2 DEF Distinct, t
<1>4. s[1] \notin Elements(t)
  BY <1>1, <1>2 DEF Distinct, Elements, t
<1>5. \A i \in 1..n : i = 1 \/ (i-1 \in 1..n-1 /\ s[i] = t[i-1])
  BY <1>1, <1>2 DEF t
<1>6. Elements(s) \subseteq Elements(t) \cup {s[1]}
  <2>1. \A i \in 1..n : s[i] \in Elements(t) \cup {s[1]}
    BY <1>2, <1>5 DEF Elements, t
  <2>2. QED
    BY <1>1, <2>1 DEF Elements
<1>7. Elements(t) \cup {s[1]} \subseteq Elements(s)
  BY <1>1, <1>2 DEF Elements, t
<1>8. QED
  BY <1>1, <1>2, <1>3, <1>4, <1>6, <1>7 DEF t

\* A list with one more entry in front.
LEMMA PutFirst ==
  ASSUME NEW S, NEW s \in Seq(S), NEW e \in S, Distinct(s), e \notin Elements(s)
  PROVE  /\ <<e>> \o s \in Seq(S) /\ Distinct(<<e>> \o s)
         /\ Elements(<<e>> \o s) = Elements(s) \cup {e}
<1> DEFINE n == Len(s)
           t == <<e>> \o s
<1>1. n \in Nat /\ DOMAIN s = 1..n
  OBVIOUS
<1>2. /\ t \in Seq(S) /\ DOMAIN t = 1..n+1 /\ t[1] = e
      /\ \A i \in 1..n : t[i+1] = s[i]
  OBVIOUS
<1>3. \A i \in 1..n+1 : i = 1 \/ (i-1 \in 1..n /\ t[i] = s[i-1])
  OBVIOUS
<1> HIDE DEF n, t
<1>4. Distinct(t)
  <2>1. \A i \in 1..n : t[i+1] # e
    BY <1>1, <1>2 DEF Elements
  <2>2. \A i \in 1..n+1 : t[i] = e => i = 1
    BY <1>1, <1>3, <2>1, <1>2
  <2>3. SUFFICES ASSUME NEW i \in 1..n+1, NEW j \in 1..n+1, t[i] = t[j]
                 PROVE  i = j
    BY <1>2 DEF Distinct
  <2>4. CASE i = 1 \/ j = 1
    BY <1>2, <2>2, <2>3, <2>4
  <2>5. CASE i # 1 /\ j # 1
    <3>1. i-1 \in 1..n /\ j-1 \in 1..n /\ s[i-1] = s[j-1]
      BY <1>1, <1>3, <2>3, <2>5
    <3>2. i-1 = j-1
      BY <1>1, <3>1 DEF Distinct
    <3>3. QED
      BY <3>2
  <2>6. QED
    BY <2>4, <2>5
<1>5. Elements(t) \subseteq Elements(s) \cup {e}
  <2>1. \A i \in 1..n+1 : t[i] \in Elements(s) \cup {e}
    BY <1>1, <1>2, <1>3 DEF Elements
  <2>2. QED
    BY <1>2, <2>1 DEF Elements
<1>6. Elements(s) \cup {e} \subseteq Elements(t)
  <2>1. 1 \in 1..n+1 /\ \A i \in 1..n : i+1 \in 1..n+1
    BY <1>1
  <2>2. \A i \in 1..n : s[i] \in Elements(t)
    BY <1>2, <2>1 DEF Elements
  <2>3. e \in Elements(t)
    BY <1>2, <2>1 DEF Elements
  <2>4. QED
    BY <1>1, <2>2, <2>3 DEF Elements
<1>7. QED
  BY <1>2, <1>4, <1>5, <1>6 DEF t

-----------------------------------------------------------------------------
(* Types, and the blocks of memory.                                        *)

\* The blocks are accounted for, with the words of the lemmas above.
LEMMA Accounted ==
  BlocksAccounted <=>
    /\ Distinct(entryList) /\ block \notin Listed
    /\ {e \in Entries : ipAddress[e] # Free} = Listed \cup ({block} \ {ListHead})
    /\ callback = "unloaded" => \A e \in Entries : ipAddress[e] = Free
BY DEF BlocksAccounted, Distinct

\* All actions but those on blocks and on the table leave the memory alone.
LEMMA TypeStep ==
  ASSUME TypeOK, PendingInv, BlockInv, BlocksAccounted, [Next]_vars
  PROVE  TypeOK' /\ PendingInv'
<1> USE ChangesAssumption, SpecialAssumption, NullAssumption
    DEF TypeOK, PendingInv, helperVars, cacheVars, lookupVars
<1>1. CASE UNCHANGED vars
  BY <1>1 DEF vars
<1>2. ASSUME NEW a \in Addresses, ChangeAddress(a)
      PROVE  TypeOK' /\ PendingInv'
  BY <1>2 DEF ChangeAddress
<1>3. ASSUME NEW a \in Addresses, AllocateEntryFails(a)
      PROVE  TypeOK' /\ PendingInv'
  BY <1>3 DEF AllocateEntryFails
<1>4. ASSUME NEW a \in Addresses, LookUp(a)
      PROVE  TypeOK' /\ PendingInv'
  <2>1. overlapped' \in BOOLEAN /\ kept' \in BOOLEAN
    <3>1. /\ overlapped' = (callback \notin {"idle", "unloaded"})
          /\ kept' = (a \in system \cap Cached)
      BY <1>4 DEF LookUp
    <3>2. (callback \notin {"idle", "unloaded"}) \in BOOLEAN /\ (a \in system \cap Cached) \in BOOLEAN
      OBVIOUS
    <3>3. QED
      BY <3>1, <3>2
  <2>2. QED
    BY <1>4, <2>1 DEF LookUp
<1>5. ASSUME NEW a \in Addresses, NEW e \in Entries, AllocateEntry(a, e)
      PROVE  TypeOK' /\ PendingInv'
  BY <1>5 DEF AllocateEntry
<1>6. CASE GetUnicastIpAddressTable \/ GetUnicastIpAddressTableFails
  <2>1. pending' \in 0..MaxChanges+1 /\ pending' <= changes' + 1
    BY <1>6 DEF GetUnicastIpAddressTable, GetUnicastIpAddressTableFails
  <2>2. CASE GetUnicastIpAddressTable
    BY <2>1, <2>2 DEF GetUnicastIpAddressTable
  <2>3. CASE GetUnicastIpAddressTableFails
    BY <2>1, <2>3 DEF GetUnicastIpAddressTableFails
  <2>4. QED
    BY <1>6, <2>2, <2>3
<1>7. CASE RemoveEntry
  <2>1. entryList' \in Seq(Entries) /\ block' \in Entries
    BY <1>7, Accounted, TakeFirst DEF RemoveEntry
  <2>2. QED
    BY <1>7, <2>1 DEF RemoveEntry
<1>8. CASE FreeEntry \/ AllDeleted
  BY <1>8 DEF FreeEntry, AllDeleted
<1>9. CASE InsertEntry
  <2>1. block \in Entries /\ entryList' \in Seq(Entries)
    BY <1>9, Accounted, PutFirst DEF InsertEntry
  <2>2. QED
    BY <1>9, <2>1 DEF InsertEntry
<1>10. CASE CallbackReturns \/ FreeInterfaceIPCacheManager
  BY <1>10 DEF CallbackReturns, FreeInterfaceIPCacheManager
<1>11. CASE FirstEntry
  <2>1. First \in Entries \cup {ListHead}
    BY DEF First
  <2>2. QED
    BY <1>11, <2>1 DEF FirstEntry
<1>12. CASE CompareEntry \/ NotFound \/ Return
  BY <1>12 DEF CompareEntry, NotFound, Return
<1>13. CASE NextEntry
  <2>1. Following(currentEntry) \subseteq Entries \cup {ListHead}
    BY DEF Following, First
  <2>2. QED
    BY <1>13, <2>1 DEF NextEntry
<1>14. QED
  BY <1>1, <1>2, <1>3, <1>4, <1>5, <1>6, <1>7, <1>8, <1>9, <1>10, <1>11, <1>12, <1>13 DEF Next

\* The entry that has been filled is linked.
LEMMA Linked ==
  ASSUME TypeOK, BlocksAccounted, block # ListHead, entryList' = <<block>> \o entryList
  PROVE  /\ block \in Entries /\ Listed \subseteq Entries
         /\ Distinct(entryList') /\ Listed' = Listed \cup {block}
<1>1. entryList \in Seq(Entries) /\ Distinct(entryList) /\ block \in Entries \ Listed
  BY Accounted DEF TypeOK
<1>2. Listed = Elements(entryList) /\ Listed' = Elements(entryList')
  BY DEF Listed, Elements
<1>3. Listed \subseteq Entries
  BY <1>1 DEF Listed
<1>4. QED
  BY <1>1, <1>2, <1>3, PutFirst

\* Most actions leave the memory alone.
LEMMA BlocksStep ==
  ASSUME TypeOK, BlockInv, BlocksAccounted, [Next]_vars
  PROVE  BlockInv' /\ BlocksAccounted'
<1> USE NullAssumption DEF TypeOK, BlockInv, helperVars, cacheVars, lookupVars
<1>1. ASSUME UNCHANGED <<entryList, ipAddress, block>>,
             callback' \in {"idle", "unloaded"} => callback' = callback \/ block = ListHead,
             callback' = "unloaded" => callback' = callback \/ entryList = <<>>
      PROVE  BlockInv' /\ BlocksAccounted'
  <2>1. BlockInv' /\ Listed' = Listed
    BY <1>1 DEF Listed
  <2>2. ASSUME callback' = "unloaded" PROVE \A e \in Entries : ipAddress[e] = Free
    <3>1. CASE callback = "unloaded"
      BY <3>1 DEF BlocksAccounted
    <3>2. CASE entryList = <<>> /\ block = ListHead
      BY <3>2 DEF BlocksAccounted, Listed
    <3>3. QED
      BY <1>1, <2>2, <3>1, <3>2
  <2>3. QED
    BY <1>1, <2>1, <2>2 DEF BlocksAccounted
<1>2. CASE UNCHANGED vars
  BY <1>1, <1>2 DEF vars
<1>3. ASSUME NEW a \in Addresses, ChangeAddress(a) \/ AllocateEntryFails(a) \/ LookUp(a)
      PROVE  BlockInv' /\ BlocksAccounted'
  BY <1>1, <1>3 DEF ChangeAddress, AllocateEntryFails, LookUp
<1>4. ASSUME NEW a \in Addresses, NEW e \in Entries, AllocateEntry(a, e)
      PROVE  BlockInv' /\ BlocksAccounted'
  <2>1. /\ callback' = "insert" /\ block = ListHead /\ block' = e /\ entryList' = entryList
        /\ ipAddress[e] = Free /\ ipAddress' = [ipAddress EXCEPT ![e] = a]
    BY <1>4 DEF AllocateEntry
  <2>2. Listed' = Listed /\ e \notin Listed /\ Listed \subseteq Entries
    BY <2>1 DEF BlocksAccounted, Listed
  <2>3. {x \in Entries : ipAddress'[x] # Free} = {x \in Entries : ipAddress[x] # Free} \cup {e}
    BY <2>1
  <2>4. QED
    BY <2>1, <2>2, <2>3 DEF BlocksAccounted
<1>5. CASE GetUnicastIpAddressTable \/ GetUnicastIpAddressTableFails
  BY <1>1, <1>5 DEF GetUnicastIpAddressTable, GetUnicastIpAddressTableFails
<1>6. CASE RemoveEntry
  <2>1. /\ callback' = callback /\ callback \in {"delete", "unload"}
        /\ block = ListHead /\ block' = Head(entryList)
        /\ entryList # <<>> /\ entryList' = Tail(entryList) /\ ipAddress' = ipAddress
    BY <1>6 DEF RemoveEntry
  <2>2. /\ Distinct(entryList') /\ block' \in Entries /\ block' \notin Listed'
        /\ Listed = Listed' \cup {block'}
    <3>1. entryList \in Seq(Entries) /\ Distinct(entryList)
      BY Accounted
    <3>2. Listed = Elements(entryList) /\ Listed' = Elements(Tail(entryList))
      BY <2>1 DEF Listed, Elements
    <3>3. QED
      BY <2>1, <3>1, <3>2, TakeFirst
  <2>3. QED
    BY <2>1, <2>2, Accounted DEF BlocksAccounted, Distinct
<1>7. CASE FreeEntry
  <2>1. /\ callback' = callback /\ callback \in {"delete", "unload"} /\ block # ListHead
        /\ block' = ListHead /\ entryList' = entryList
        /\ ipAddress' = [ipAddress EXCEPT ![block] = Free]
    BY <1>7 DEF FreeEntry
  <2>2. Listed' = Listed /\ Listed \subseteq Entries
    BY <2>1 DEF Listed
  <2>3. {x \in Entries : ipAddress'[x] # Free} = {x \in Entries : ipAddress[x] # Free} \ {block}
    BY <2>1
  <2>4. QED
    BY <2>1, <2>2, <2>3 DEF BlocksAccounted
<1>8. CASE AllDeleted \/ CallbackReturns \/ FreeInterfaceIPCacheManager
  BY <1>1, <1>8 DEF AllDeleted, CallbackReturns, FreeInterfaceIPCacheManager
<1>9. CASE InsertEntry
  <2>1. /\ callback' = "insert" /\ block # ListHead /\ block' = ListHead
        /\ entryList' = <<block>> \o entryList /\ ipAddress' = ipAddress
    BY <1>9 DEF InsertEntry
  <2>2. /\ Distinct(entryList') /\ Listed' = Listed \cup {block}
        /\ block \in Entries /\ Listed \subseteq Entries
    BY <2>1, Linked
  <2>3. QED
    BY <2>1, <2>2, Accounted DEF BlocksAccounted, Distinct
<1>10. CASE FirstEntry \/ CompareEntry \/ NextEntry \/ NotFound \/ Return
  BY <1>1, <1>10 DEF FirstEntry, CompareEntry, NextEntry, NotFound, Return
<1>11. QED
  BY <1>2, <1>3, <1>4, <1>5, <1>6, <1>7, <1>8, <1>9, <1>10 DEF Next

-----------------------------------------------------------------------------
(* The refresh.                                                            *)

\* What is cached are addresses.
LEMMA CachedAddresses ==
  ASSUME TypeOK, BlocksAccounted
  PROVE  Listed \subseteq Entries /\ Cached \subseteq Addresses
<1>1. \A e \in Listed : e \in Entries /\ ipAddress[e] # Free
  BY DEF BlocksAccounted, TypeOK, Listed
<1>2. QED
  BY <1>1 DEF Cached, TypeOK

LEMMA RefreshStep ==
  ASSUME TypeOK, BlockInv, BlocksAccounted, RefreshInv, [Next]_vars
  PROVE  RefreshInv'
<1> USE NullAssumption DEF TypeOK, helperVars, cacheVars, lookupVars
<1>1. ASSUME UNCHANGED <<system, pending, callback, unicastTable, block, entryList, ipAddress,
                         failed>>
      PROVE  RefreshInv'
  BY <1>1 DEF RefreshInv, Cached, Listed, AtHand
<1>2. CASE UNCHANGED vars
  BY <1>1, <1>2 DEF vars
<1>3. ASSUME NEW a \in Addresses, ChangeAddress(a)
      PROVE  RefreshInv'
  BY <1>3 DEF ChangeAddress, RefreshInv
<1>4. ASSUME NEW a \in Addresses, LookUp(a)
      PROVE  RefreshInv'
  BY <1>1, <1>4 DEF LookUp
<1>5. ASSUME NEW a \in Addresses, AllocateEntryFails(a)
      PROVE  RefreshInv'
  <2>1. /\ callback = "insert" /\ UNCHANGED <<callback, system, pending, Cached, AtHand>>
        /\ unicastTable' = unicastTable \ {a} /\ failed' = failed \cup {a}
    BY <1>5 DEF AllocateEntryFails, Cached, Listed, AtHand
  <2>2. QED
    BY <2>1 DEF RefreshInv
<1>6. ASSUME NEW a \in Addresses, NEW e \in Entries, AllocateEntry(a, e)
      PROVE  RefreshInv'
  <2>1. /\ callback = "insert" /\ UNCHANGED <<callback, system, pending, failed, entryList>>
        /\ a \in unicastTable /\ unicastTable' = unicastTable \ {a}
        /\ block = ListHead /\ block' = e /\ e # ListHead
        /\ ipAddress[e] = Free /\ ipAddress' = [ipAddress EXCEPT ![e] = a]
    BY <1>6 DEF AllocateEntry
  <2>2. AtHand = {} /\ AtHand' = {a}
    BY <2>1 DEF AtHand
  <2>3. Listed' = Listed /\ \A x \in Listed : ipAddress'[x] = ipAddress[x]
    BY <2>1 DEF Listed, BlocksAccounted
  <2>4. Cached' = Cached
    BY <2>3 DEF Cached
  <2>5. QED
    BY <2>1, <2>2, <2>4 DEF RefreshInv
<1>7. CASE GetUnicastIpAddressTable
  BY <1>7 DEF GetUnicastIpAddressTable, RefreshInv
<1>8. CASE GetUnicastIpAddressTableFails
  <2>1. Cached' \subseteq Addresses
    BY <1>8, CachedAddresses DEF GetUnicastIpAddressTableFails, Cached, Listed
  <2>2. QED
    BY <1>8, <2>1, SpecialAssumption DEF GetUnicastIpAddressTableFails, RefreshInv
<1>9. CASE RemoveEntry
  BY <1>9 DEF RemoveEntry, RefreshInv
<1>10. CASE FreeEntry
  BY <1>10 DEF FreeEntry, RefreshInv
<1>11. CASE AllDeleted
  <2>1. Cached' = {} /\ AtHand' = {}
    BY <1>11 DEF AllDeleted, Cached, Listed, AtHand
  <2>2. QED
    BY <1>11, <2>1 DEF AllDeleted, RefreshInv
<1>12. CASE InsertEntry
  <2>1. /\ callback = "insert" /\ UNCHANGED <<callback, system, pending, failed, unicastTable>>
        /\ block # ListHead /\ block' = ListHead
        /\ ipAddress' = ipAddress /\ entryList' = <<block>> \o entryList
    BY <1>12 DEF InsertEntry
  <2>2. AtHand = {ipAddress[block]} /\ AtHand' = {}
    BY <2>1 DEF AtHand
  <2>3. Listed' = Listed \cup {block}
    BY <2>1, Linked
  <2>4. Cached' = Cached \cup AtHand
    BY <2>1, <2>2, <2>3 DEF Cached
  <2>5. QED
    BY <2>1, <2>2, <2>4 DEF RefreshInv
<1>13. CASE CallbackReturns
  <2>1. Cached' = Cached /\ AtHand = {}
    BY <1>13 DEF CallbackReturns, Cached, Listed, AtHand
  <2>2. QED
    BY <1>13, <2>1 DEF CallbackReturns, RefreshInv
<1>14. CASE FreeInterfaceIPCacheManager
  BY <1>14 DEF FreeInterfaceIPCacheManager, RefreshInv
<1>15. CASE FirstEntry \/ CompareEntry \/ NextEntry \/ NotFound \/ Return
  BY <1>1, <1>15 DEF FirstEntry, CompareEntry, NextEntry, NotFound, Return
<1>16. QED
  BY <1>2, <1>3, <1>4, <1>5, <1>6, <1>7, <1>8, <1>9, <1>10, <1>11, <1>12, <1>13, <1>14, <1>15
  DEF Next

-----------------------------------------------------------------------------
(* The lookup.                                                             *)

\* What an entry is compared with, and where the walk goes from it.
LEMMA StandingPlace ==
  ASSUME TypeOK, BlockInv, BlocksAccounted, callback \in {"idle", "unloaded"},
         NEW n \in 1..Len(entryList)+1, currentEntry = EntryAt(n)
  PROVE  /\ currentEntry = ListHead <=> n = Len(entryList)+1
         /\ n <= Len(entryList) =>
              /\ currentEntry \in Listed /\ currentEntry \in Intact
              /\ Following(currentEntry) = {EntryAt(n+1)}
<1> DEFINE m == Len(entryList)
<1>1. m \in Nat /\ DOMAIN entryList = 1..m /\ \A i \in 1..m : entryList[i] \in Entries
  BY DEF TypeOK
<1>2. \A i, j \in 1..m : entryList[i] = entryList[j] => i = j
  BY <1>1 DEF BlocksAccounted
<1>3. ASSUME n <= m
      PROVE  /\ currentEntry \in Listed /\ currentEntry \in Intact /\ currentEntry # ListHead
             /\ Following(currentEntry) = {EntryAt(n+1)}
  <2>1. n \in 1..m /\ currentEntry = entryList[n]
    BY <1>3 DEF EntryAt
  <2>2. currentEntry \in Listed
    BY <1>1, <2>1 DEF Listed
  <2>3. {j \in DOMAIN entryList : entryList[j] = currentEntry} = {n}
    BY <1>1, <1>2, <2>1
  <2>4. EntryAt(n+1) = IF n < m THEN entryList[n+1] ELSE ListHead
    BY <1>1, <2>1 DEF EntryAt
  <2>5. QED
    BY <1>1, <2>1, <2>2, <2>3, <2>4, NullAssumption DEF Following, Intact
<1>4. CASE n = m+1
  BY <1>1, <1>4 DEF EntryAt
<1>5. QED
  BY <1>1, <1>3, <1>4

LEMMA LookupStep ==
  ASSUME TypeOK, LookupInv, [Next]_vars
  PROVE  LookupInv'
<1> USE DEF TypeOK, LookupInv, lookupVars, cacheVars
<1>1. CASE UNCHANGED vars
  BY <1>1 DEF vars
<1>2. CASE UNCHANGED lookupVars
  BY <1>2
<1>3. ASSUME NEW a \in Addresses, LookUp(a)
      PROVE  LookupInv'
  BY <1>3 DEF LookUp
<1>4. CASE FirstEntry \/ CompareEntry \/ NextEntry \/ NotFound \/ Return
  BY <1>4 DEF FirstEntry, CompareEntry, NextEntry, NotFound, Return
<1>5. QED
  BY <1>1, <1>2, <1>3, <1>4
  DEF Next, ChangeAddress, AllocateEntryFails, AllocateEntry, GetUnicastIpAddressTable,
      GetUnicastIpAddressTableFails, RemoveEntry, FreeEntry, AllDeleted, InsertEntry,
      CallbackReturns, FreeInterfaceIPCacheManager

LEMMA QuietStep ==
  ASSUME TypeOK, BlockInv, BlocksAccounted, LookupInv, QuietInv, [Next]_vars
  PROVE  QuietInv'
<1> USE NullAssumption DEF TypeOK, helperVars, cacheVars, lookupVars
<1>1. ASSUME UNCHANGED <<callback, entryList, ipAddress, lookupVars, overlapped>>
      PROVE  QuietInv'
  BY <1>1 DEF QuietInv, StandsAt, EntryAt, Cached, Listed
<1>2. CASE UNCHANGED vars
  BY <1>1, <1>2 DEF vars
<1>3. ASSUME overlapped' PROVE QuietInv'
  BY <1>3 DEF QuietInv
<1>4. ASSUME overlapped' = overlapped, callback \notin {"idle", "unloaded"}
      PROVE  QuietInv'
  BY <1>3, <1>4 DEF QuietInv
<1>5. ASSUME NEW a \in Addresses, ChangeAddress(a)
      PROVE  QuietInv'
  BY <1>1, <1>5 DEF ChangeAddress
<1>6. ASSUME NEW a \in Addresses, LookUp(a)
      PROVE  QuietInv'
  <2>1. /\ forwarding' = FALSE /\ address' = a
        /\ lookup' = IF a \in Special THEN "return" ELSE "first"
        /\ overlapped' = (callback \notin {"idle", "unloaded"}) /\ callback' = callback
    BY <1>6 DEF LookUp
  <2>2. QED
    BY <2>1 DEF QuietInv
<1>7. CASE \/ \E a \in Addresses : AllocateEntryFails(a)
           \/ \E a \in Addresses, e \in Entries : AllocateEntry(a, e)
           \/ RemoveEntry \/ FreeEntry \/ AllDeleted \/ InsertEntry \/ CallbackReturns
  BY <1>4, <1>7 DEF AllocateEntryFails, AllocateEntry, RemoveEntry, FreeEntry, AllDeleted,
                    InsertEntry, CallbackReturns
<1>8. CASE GetUnicastIpAddressTable \/ FreeInterfaceIPCacheManager
  BY <1>3, <1>8 DEF GetUnicastIpAddressTable, FreeInterfaceIPCacheManager
<1>9. CASE GetUnicastIpAddressTableFails
  BY <1>1, <1>9 DEF GetUnicastIpAddressTableFails
<1>10. SUFFICES ASSUME FirstEntry \/ CompareEntry \/ NextEntry \/ NotFound \/ Return,
                       ~overlapped
                PROVE  QuietInv'
  BY <1>2, <1>3, <1>5, <1>6, <1>7, <1>8, <1>9
  DEF Next, FirstEntry, CompareEntry, NextEntry, NotFound, Return
<1>11. /\ callback \in {"idle", "unloaded"} /\ callback' = callback
       /\ UNCHANGED <<entryList, ipAddress, address, overlapped, Cached>>
       /\ Len(entryList) \in Nat
  BY <1>10 DEF QuietInv, FirstEntry, CompareEntry, NextEntry, NotFound, Return, Cached, Listed
<1>12. CASE FirstEntry
  <2>1. First = EntryAt(1)
    BY DEF First, EntryAt
  <2>2. StandsAt(1)' /\ 1 \in 1..Len(entryList)+1
    BY <1>11, <1>12, <2>1 DEF FirstEntry, StandsAt, EntryAt
  <2>3. QED
    BY <1>11, <1>12, <2>2 DEF FirstEntry, QuietInv
<1>13. ASSUME CompareEntry \/ NextEntry \/ NotFound
       PROVE  QuietInv'
  <2>1. PICK n \in 1..Len(entryList)+1 : StandsAt(n)
    BY <1>10, <1>13 DEF QuietInv, CompareEntry, NextEntry, NotFound
  <2>2. /\ currentEntry = ListHead <=> n = Len(entryList)+1
        /\ n <= Len(entryList) =>
             /\ currentEntry \in Listed /\ currentEntry \in Intact
             /\ Following(currentEntry) = {EntryAt(n+1)}
    BY <1>11, <2>1, StandingPlace DEF StandsAt
  <2>3. CASE CompareEntry
    <3>1. /\ currentEntry' = currentEntry /\ forwarding' = forwarding /\ ~forwarding
          /\ currentEntry \in Listed /\ currentEntry # ListHead
          /\ lookup' = IF ipAddress[currentEntry] = address THEN "return" ELSE "next"
      <4>1. lookup = "compare" /\ currentEntry # ListHead /\ UNCHANGED <<currentEntry, forwarding>>
        BY <2>3 DEF CompareEntry
      <4>2. currentEntry \in Listed /\ currentEntry \in Intact
        BY <1>11, <2>2, <4>1
      <4>3. \E equal \in {ipAddress[currentEntry] = address} :
               lookup' = IF equal THEN "return" ELSE "next"
        BY <2>3, <4>2 DEF CompareEntry
      <4>4. QED
        BY <4>1, <4>2, <4>3 DEF LookupInv
    <3>2. CASE ipAddress[currentEntry] = address
      BY <1>11, <3>1, <3>2 DEF QuietInv, Cached
    <3>3. CASE ipAddress[currentEntry] # address
      <4>1. StandsAt(n)'
        BY <1>11, <2>1, <3>1 DEF StandsAt, EntryAt
      <4>2. QED
        BY <1>11, <3>1, <3>3, <4>1 DEF QuietInv
    <3>4. QED
      BY <3>2, <3>3
  <2>4. CASE NextEntry
    <3>1. currentEntry # ListHead /\ ipAddress[currentEntry] # address /\ lookup' = "compare"
      BY <1>10, <2>4 DEF NextEntry, QuietInv
    <3>2. n \in 1..Len(entryList) /\ currentEntry = entryList[n] /\ currentEntry' = EntryAt(n+1)
      BY <1>11, <2>1, <2>2, <2>4, <3>1 DEF NextEntry, StandsAt, EntryAt
    <3>3. \A i \in 1..Len(entryList) : i < n+1 => ipAddress[entryList[i]] # address
      BY <1>11, <2>1, <3>1, <3>2 DEF StandsAt
    <3>4. PICK k \in 1..Len(entryList)+1 : k = n+1
      BY <1>11, <3>2
    <3>5. StandsAt(k)'
      BY <1>11, <3>2, <3>3, <3>4 DEF StandsAt, EntryAt
    <3>6. QED
      BY <1>11, <3>1, <3>5 DEF QuietInv
  <2>5. CASE NotFound
    <3>1. lookup' = "return" /\ forwarding' /\ address \notin Special /\ n = Len(entryList)+1
      BY <2>2, <2>5 DEF NotFound, LookupInv
    <3>2. \A i \in 1..Len(entryList) : ipAddress[entryList[i]] # address
      BY <1>11, <2>1, <3>1 DEF StandsAt
    <3>3. address \notin Cached
      BY <3>2 DEF Cached, Listed
    <3>4. QED
      BY <1>11, <3>1, <3>3 DEF QuietInv
  <2>6. QED
    BY <1>13, <2>3, <2>4, <2>5
<1>14. CASE Return
  BY <1>11, <1>14 DEF Return, QuietInv
<1>15. QED
  BY <1>10, <1>12, <1>13, <1>14

-----------------------------------------------------------------------------
(* The theorems.                                                           *)

LEMMA InitStep ==
  ASSUME Init
  PROVE  IInv
<1> USE NullAssumption, ChangesAssumption, SpecialAssumption DEF Init
<1>1. TypeOK
  <2>1. entryList \in Seq(Entries) /\ ipAddress \in [Entries -> Addresses \cup {Free}]
    OBVIOUS
  <2>2. changes \in 0..MaxChanges /\ pending \in 0..MaxChanges+1
    OBVIOUS
  <2>3. QED
    BY <2>1, <2>2 DEF TypeOK
<1>2. Listed = {} /\ Cached = {}
  BY DEF Listed, Cached
<1>3. BlocksAccounted
  BY <1>2 DEF BlocksAccounted
<1>4. RefreshInv /\ LookupInv /\ QuietInv
  BY <1>2 DEF RefreshInv, LookupInv, QuietInv
<1>5. QED
  BY <1>1, <1>3, <1>4 DEF IInv, PendingInv, BlockInv

\* What the invariant says of the blocks, the refresh and the lookup holds in
\* every reachable state.
THEOREM InductiveInvariant == Spec => []IInv
<1>1. Init => IInv
  BY InitStep
<1>2. IInv /\ [Next]_vars => IInv'
  BY TypeStep, BlocksStep, RefreshStep, LookupStep, QuietStep DEF IInv
<1>3. QED
  BY <1>1, <1>2, PTL DEF Spec

\* The variables of the cache, its callback and its lookups keep their types.
THEOREM TypeCorrect == Spec => []TypeOK
<1>1. IInv => TypeOK
  BY DEF IInv
<1>2. QED
  BY <1>1, InductiveInvariant, PTL

\* However often the addresses are refreshed, and whatever cannot be allocated,
\* DeleteAllInterfaceIPCache and InsertIntoInterfaceIPCache lose no block, link
\* none twice and free none that is linked, and FreeInterfaceIPCacheManager leaves none.
THEOREM BlocksAreAccounted == Spec => []BlocksAccounted
<1>1. IInv => BlocksAccounted
  BY DEF IInv
<1>2. QED
  BY <1>1, InductiveInvariant, PTL

\* Once UnicastIpAddressChangeNotifyCallback has returned from its last
\* notification the cache holds the addresses of the machine, but for those it
\* failed to get or to store.
THEOREM CacheIsTheSystem == Spec => []CacheFollowsSystem
<1>1. IInv => CacheFollowsSystem
  BY DEF IInv, RefreshInv, CacheFollowsSystem
<1>2. QED
  BY <1>1, InductiveInvariant, PTL

\* IsLocalIP, when no refresh comes between, walks the list to the entry of the
\* address or to its end: a packet is forwarded exactly when its address is
\* neither special nor cached.
THEOREM QuietLookupsAreExact == Spec => []QuietLookupsExact
<1>1. IInv => QuietLookupsExact
  <2> SUFFICES ASSUME IInv, ~overlapped, lookup \in {"compare", "next"}
               PROVE  currentEntry \in Listed \cup {ListHead}
    BY DEF IInv, QuietInv, QuietLookupsExact
  <2>1. PICK n \in 1..Len(entryList)+1 : StandsAt(n)
    BY DEF IInv, QuietInv
  <2>2. QED
    BY <2>1 DEF StandsAt, EntryAt, Listed, IInv, TypeOK
<1>2. QED
  BY <1>1, InductiveInvariant, PTL
=============================================================================
