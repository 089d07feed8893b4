-------------------------- MODULE RouteTableProofs --------------------------
(***************************************************************************)
(* The mirror of the routing table is sorted, accounted for and taken from *)
(* one table of the system, for any routes, any memory and any number of   *)
(* overlapping callbacks.                                                  *)
(***************************************************************************)
EXTENDS RouteTable, SequenceTheorems, WellFoundedInduction, TLAPS

-----------------------------------------------------------------------------
(* The inductive invariant.                                                *)

\* Who has the table in hand holds the lock, and unloading comes last.
LockInv ==
  /\ \A t \in Threads : pc[t] \in {"clean", "add", "release"} <=> lock = t
  /\ \A c \in Callbacks : pc[c] \in {"idle", "acquire", "clean", "add"}
  /\ pc[Unloader] \in {"idle", "acquire", "clean", "release", "done"}
  /\ pc[Unloader] # "idle" => \A c \in Callbacks : pc[c] = "idle"

\* What is listed is allocated, once and for the family of the list.
ListInv ==
  \A f \in Families :
    /\ \A i \in 1..Len(routeList[f]) :
         entry[routeList[f][i]] \in Rows /\ entry[routeList[f][i]].type = f
    /\ \A i, j \in 1..Len(routeList[f]) : routeList[f][i] = routeList[f][j] => i = j

\* What is allocated is listed.
AllocInv ==
  \A e \in Entries : entry[e] # Free =>
    \E f \in Families : \E i \in 1..Len(routeList[f]) : routeList[f][i] = e

Arrived(e) == \E k \in 1..Len(arrived) : arrived[k] = e

ArrivedBefore(a, b) ==
  \E k, l \in 1..Len(arrived) : k < l /\ arrived[k] = a /\ arrived[l] = b

\* a comes before b in a list: it is the better route or came first.
Before(a, b) ==
  \/ CompareRoutes(entry[a], entry[b])
  \/ /\ entry[a].metric = entry[b].metric /\ entry[a].prefix = entry[b].prefix
     /\ ArrivedBefore(a, b)

OrderInv ==
  \A f \in Families :
    /\ \A i \in 1..Len(routeList[f]) : Arrived(routeList[f][i])
    /\ \A i, j \in 1..Len(routeList[f]) : i < j => Before(routeList[f][i], routeList[f][j])

EmptyInv ==
  pc[Unloader] \in {"release", "done"} => \A f \in Families : routeList[f] = <<>>

Stored == {entry[e] : e \in Entries} \ {Free}

\* How far a callback has got with the table it fetched.
SourceInv ==
  /\ lock = Nobody => Stored = source \ lost
  /\ \A c \in Callbacks : pc[c] = "clean" => rows[c] = source /\ lost = {}
  /\ \A c \in Callbacks : pc[c] = "add" =>
       rows[c] \subseteq source \ lost /\ Stored = (source \ rows[c]) \ lost
  /\ pc[Unloader] \in {"clean", "release"} => source = {} /\ lost = {}

\* A notification for each change and the first one.
PendingInv == pending <= changes + 1

IInv ==
  /\ TypeOK /\ PendingInv /\ LockInv /\ ListInv /\ AllocInv /\ OrderInv /\ EmptyInv /\ SourceInv

-----------------------------------------------------------------------------
(* Facts about data.                                                       *)

\* Metrics and prefix lengths are numbers, so routes can be compared.
LEMMA RowFields ==
  ASSUME NEW r \in Rows
  PROVE  r.type \in Families /\ r.prefix \in Nat /\ r.metric \in Nat
<1>1. r.type \in Families /\ r.metric \in Nat
  BY RowsAssumption
<1> DEFINE length == BYTE_BIT_LENGTH * AddressBytes[r.type]
<1>2. r.prefix \in 0..length
  BY RowsAssumption
<1>3. length \in Nat
  BY <1>1, LengthsAssumption
<1> HIDE DEF length
<1>4. QED
  BY <1>1, <1>2, <1>3

\* Inserting one element.
LEMMA InsertAtProperties ==
  ASSUME NEW S, NEW s \in Seq(S), NEW e \in S, NEW pos \in 1..Len(s)+1
  PROVE  /\ InsertAt(s, pos, e) \in Seq(S)
         /\ Len(InsertAt(s, pos, e)) = Len(s) + 1
         /\ \A i \in 1..Len(s)+1 :
              InsertAt(s, pos, e)[i] =
                IF i < pos THEN s[i] ELSE IF i = pos THEN e ELSE s[i-1]
<1> DEFINE before == SubSeq(s, 1, pos-1)
           after == SubSeq(s, pos, Len(s))
           first == before \o <<e>>
           all == first \o after
<1>1. pos \in Int /\ Len(s) \in Nat
  OBVIOUS
<1>2. before \in Seq(S) /\ Len(before) = pos - 1 /\ \A i \in 1..pos-1 : before[i] = s[i]
  OBVIOUS
<1>3. /\ after \in Seq(S) /\ Len(after) = Len(s) - pos + 1
      /\ \A i \in 1..Len(s)-pos+1 : after[i] = s[pos + i - 1]
  OBVIOUS
<1>4. /\ first \in Seq(S) /\ Len(first) = pos
      /\ \A i \in 1..pos : first[i] = IF i < pos THEN s[i] ELSE e
  <2> HIDE DEF before
  <2>1. QED
    BY <1>2
<1>5. InsertAt(s, pos, e) = all
  BY DEF InsertAt
<1> HIDE DEF before, after, first
<1>6. /\ all \in Seq(S) /\ Len(all) = Len(first) + Len(after)
      /\ \A i \in 1..Len(first)+Len(after) :
           all[i] = IF i <= Len(first) THEN first[i] ELSE after[i - Len(first)]
  BY <1>3, <1>4, ConcatProperties
<1> HIDE DEF all
<1>7. Len(all) = Len(s) + 1
  BY <1>1, <1>3, <1>4, <1>6
<1>8. ASSUME NEW i \in 1..Len(s)+1
      PROVE  all[i] = IF i < pos THEN s[i] ELSE IF i = pos THEN e ELSE s[i-1]
  <2>1. all[i] = IF i <= pos THEN first[i] ELSE after[i - pos]
    BY <1>3, <1>4, <1>6, <1>7
  <2>2. CASE i <= pos
    BY <1>1, <1>4, <2>1, <2>2
  <2>3. CASE i > pos
    <3>1. i - pos \in 1..Len(s)-pos+1 /\ pos + (i - pos) - 1 = i - 1
      BY <1>1, <2>3
    <3>2. after[i - pos] = s[i - 1]
      BY <1>3, <3>1
    <3>3. QED
      BY <1>1, <2>1, <2>3, <3>2
  <2>4. QED
    BY <1>1, <2>2, <2>3
<1>9. QED
  BY <1>5, <1>6, <1>7, <1>8

\* The order of the routes is a strict weak one.
LEMMA CompareRoutesOrder ==
  ASSUME NEW a \in Rows, NEW b \in Rows, NEW c \in Rows
  PROVE  /\ CompareRoutes(a, b) => ~CompareRoutes(b, a)
         /\ CompareRoutes(a, b) /\ CompareRoutes(b, c) => CompareRoutes(a, c)
         /\ CompareRoutes(a, b) /\ b.metric = c.metric /\ b.prefix = c.prefix =>
              CompareRoutes(a, c)
         /\ ~CompareRoutes(a, b) =>
              CompareRoutes(b, a) \/ (a.metric = b.metric /\ a.prefix = b.prefix)
BY RowFields DEF CompareRoutes

\* With every entry accounted for, the rows in the lists are those stored.
LEMMA MirrorIsStored ==
  ASSUME TypeOK, ListInv, AllocInv
  PROVE  Mirror = Stored
<1>1. \A f \in Families : routeList[f] \in Seq(Entries)
  BY DEF TypeOK
<1>2. \A f \in Families : DOMAIN routeList[f] = 1..Len(routeList[f])
  BY <1>1
<1>3. \A x : x \in Mirror <=>
        \E f \in Families : \E i \in 1..Len(routeList[f]) : x = entry[routeList[f][i]]
  BY <1>2 DEF Mirror, Listed
<1>4. ASSUME NEW x \in Mirror PROVE x \in Stored
  <2>1. PICK f \in Families : \E i \in 1..Len(routeList[f]) : x = entry[routeList[f][i]]
    BY <1>3, <1>4
  <2>2. PICK i \in 1..Len(routeList[f]) : x = entry[routeList[f][i]]
    BY <2>1
  <2>3. routeList[f][i] \in Entries /\ entry[routeList[f][i]] \in Rows
    BY <1>1 DEF ListInv
  <2>4. QED
    BY <2>2, <2>3, NullAssumption DEF Stored
<1>5. ASSUME NEW x \in Stored PROVE x \in Mirror
  <2>1. PICK e \in Entries : x = entry[e] /\ entry[e] # Free
    BY <1>5 DEF Stored
  <2>2. QED
    BY <2>1, <1>3 DEF AllocInv
<1>6. QED
  BY <1>4, <1>5

-----------------------------------------------------------------------------
(* The steps that leave the lists alone.                                   *)

\* The lists stay in order while nothing is listed, freed or forgotten.
LEMMA SameLists ==
  ASSUME ListInv, AllocInv, OrderInv, UNCHANGED <<routeList, entry, arrived>>
  PROVE  ListInv' /\ AllocInv' /\ OrderInv'
<1>1. ListInv'
  BY DEF ListInv
<1>2. AllocInv'
  BY DEF AllocInv
<1>3. \A a : Arrived(a) => Arrived(a)'
  BY DEF Arrived
<1>4. \A a, b : Before(a, b) => Before(a, b)'
  BY DEF Before, ArrivedBefore
<1>5. OrderInv'
  BY <1>3, <1>4 DEF OrderInv
<1>6. QED
  BY <1>1, <1>2, <1>5

LEMMA InitStep == Init => IInv
<1> SUFFICES ASSUME Init PROVE IInv
  OBVIOUS
<1>1. \A f \in Families : routeList[f] = <<>> /\ Len(routeList[f]) = 0
  BY DEF Init
<1>2. TypeOK /\ PendingInv
  <2>1. <<>> \in Seq(Entries) /\ 0 \in 0..MaxChanges /\ 1 \in 0..MaxChanges+1
    BY ChangesAssumption
  <2>2. routeList \in [Families -> Seq(Entries)] /\ arrived \in Seq(Entries)
    BY <2>1 DEF Init
  <2>3. entry \in [Entries -> Rows \cup {Free}] /\ rows \in [Callbacks -> SUBSET Rows]
    BY DEF Init
  <2>4. pc \in [Threads -> {"idle", "acquire", "clean", "add", "release", "done"}]
    BY DEF Init
  <2>5. changes \in 0..MaxChanges /\ pending \in 0..MaxChanges+1 /\ PendingInv
    BY <2>1 DEF Init, PendingInv
  <2>6. QED
    BY <2>2, <2>3, <2>4, <2>5 DEF Init, TypeOK
<1>3. LockInv
  BY NullAssumption DEF Init, LockInv, Threads
<1>4. ListInv /\ AllocInv /\ OrderInv /\ EmptyInv
  BY <1>1 DEF Init, ListInv, AllocInv, OrderInv, EmptyInv
<1>5. SourceInv
  BY DEF Init, SourceInv, Stored, Threads
<1>6. QED
  BY <1>2, <1>3, <1>4, <1>5 DEF IInv

LEMMA ChangeRouteStep ==
  ASSUME IInv, NEW r \in Rows, ChangeRoute(r)
  PROVE  IInv'
<1>1. TypeOK' /\ PendingInv'
  BY ChangesAssumption DEF IInv, TypeOK, PendingInv, ChangeRoute, historyVars
<1>2. LockInv' /\ EmptyInv' /\ SourceInv'
  BY DEF IInv, LockInv, EmptyInv, SourceInv, Stored, ChangeRoute, historyVars
<1>3. QED
  BY <1>1, <1>2, SameLists DEF IInv, ChangeRoute, historyVars

LEMMA GetIpForwardTable2Step ==
  ASSUME IInv, NEW c \in Callbacks, GetIpForwardTable2(c)
  PROVE  IInv'
<1> USE DEF GetIpForwardTable2
<1>1. TypeOK' /\ PendingInv'
  <2>1. pending' \in 0..MaxChanges+1 /\ PendingInv'
    BY ChangesAssumption DEF IInv, TypeOK, PendingInv, systemVars
  <2>2. rows' \in [Callbacks -> SUBSET Rows]
    BY DEF IInv, TypeOK
  <2>3. pc' \in [Threads -> {"idle", "acquire", "clean", "add", "release", "done"}]
    BY DEF IInv, TypeOK, Goto
  <2>4. QED
    BY <2>1, <2>2, <2>3 DEF IInv, TypeOK, systemVars
<1>2. LockInv'
  BY NullAssumption DEF IInv, TypeOK, LockInv, Goto, Threads, Monitored
<1>3. EmptyInv' /\ SourceInv'
  BY NullAssumption DEF IInv, TypeOK, EmptyInv, SourceInv, Stored, Goto, Threads
<1>4. QED
  BY <1>1, <1>2, <1>3, SameLists DEF IInv

LEMMA GetIpForwardTable2FailsStep ==
  ASSUME IInv, NEW c \in Callbacks, GetIpForwardTable2Fails(c)
  PROVE  IInv'
<1> USE DEF GetIpForwardTable2Fails
<1>1. TypeOK' /\ PendingInv'
  BY ChangesAssumption DEF IInv, TypeOK, PendingInv, systemVars
<1>2. LockInv' /\ EmptyInv' /\ SourceInv'
  BY DEF IInv, LockInv, EmptyInv, SourceInv, Stored
<1>3. QED
  BY <1>1, <1>2, SameLists DEF IInv

LEMMA AcquireSpinLockStep ==
  ASSUME IInv, NEW t \in Threads, AcquireSpinLock(t)
  PROVE  IInv'
<1> USE DEF AcquireSpinLock
<1>1. TypeOK' /\ PendingInv'
  BY DEF IInv, TypeOK, PendingInv, Goto, systemVars
<1>2. LockInv'
  BY NullAssumption DEF IInv, TypeOK, LockInv, Goto, Threads
<1>3. EmptyInv'
  BY NullAssumption DEF IInv, TypeOK, EmptyInv, Goto, Threads
<1>4. SourceInv'
  BY NullAssumption DEF IInv, TypeOK, LockInv, SourceInv, Stored, Goto, Threads
<1>5. QED
  BY <1>1, <1>2, <1>3, <1>4, SameLists DEF IInv

LEMMA CallbackReturnsStep ==
  ASSUME IInv, NEW c \in Callbacks, CallbackReturns(c)
  PROVE  IInv'
<1> USE DEF CallbackReturns
<1>1. TypeOK' /\ PendingInv'
  BY DEF IInv, TypeOK, PendingInv, Goto, systemVars, historyVars
<1>2. LockInv'
  BY NullAssumption DEF IInv, TypeOK, LockInv, Goto, Threads
<1>3. EmptyInv'
  BY NullAssumption DEF IInv, TypeOK, EmptyInv, Goto, Threads
<1>4. SourceInv'
  BY NullAssumption DEF IInv, TypeOK, LockInv, SourceInv, Stored, Goto, Threads, historyVars
<1>5. QED
  BY <1>1, <1>2, <1>3, <1>4, SameLists DEF IInv, historyVars

LEMMA DriverUnloadStep ==
  ASSUME IInv, DriverUnload
  PROVE  IInv'
<1> USE DEF DriverUnload
<1>1. TypeOK' /\ PendingInv'
  BY DEF IInv, TypeOK, PendingInv, Goto, systemVars, historyVars
<1>2. LockInv'
  BY NullAssumption DEF IInv, TypeOK, LockInv, Goto, Threads, Monitored
<1>3. EmptyInv' /\ SourceInv'
  BY NullAssumption DEF IInv, TypeOK, EmptyInv, SourceInv, Stored, Goto, Threads, historyVars
<1>4. QED
  BY <1>1, <1>2, <1>3, SameLists DEF IInv, historyVars

\* With empty lists no entry is allocated.
LEMMA EmptyStored ==
  ASSUME AllocInv, \A f \in Families : routeList[f] = <<>>
  PROVE  Stored = {}
<1>1. \A f \in Families : Len(routeList[f]) = 0
  OBVIOUS
<1>2. QED
  BY <1>1 DEF AllocInv, Stored

LEMMA CleanupReturnsStep ==
  ASSUME IInv, CleanupReturns
  PROVE  IInv'
<1> USE DEF CleanupReturns
<1>1. TypeOK' /\ PendingInv'
  BY DEF IInv, TypeOK, PendingInv, Goto, systemVars, historyVars
<1>2. LockInv'
  BY NullAssumption DEF IInv, TypeOK, LockInv, Goto, Threads
<1>3. EmptyInv'
  BY DEF IInv, EmptyInv
<1>4. SourceInv'
  <2>1. Stored = {} /\ source = {} /\ lost = {}
    BY EmptyStored DEF IInv, EmptyInv, SourceInv
  <2>2. \A c \in Callbacks : pc'[c] = "idle"
    BY NullAssumption DEF IInv, TypeOK, LockInv, Goto, Threads
  <2>3. pc'[Unloader] = "done"
    BY DEF IInv, TypeOK, Goto, Threads
  <2>4. QED
    BY <2>1, <2>2, <2>3 DEF SourceInv, Stored, historyVars
<1>5. QED
  BY <1>1, <1>2, <1>3, <1>4, SameLists DEF IInv, historyVars

LEMMA AddRouteEntryFailsStep ==
  ASSUME IInv, NEW c \in Callbacks, NEW r \in Rows, AddRouteEntryFails(c, r)
  PROVE  IInv'
<1> USE DEF AddRouteEntryFails
<1>1. TypeOK' /\ PendingInv'
  BY DEF IInv, TypeOK, PendingInv, systemVars
<1>2. LockInv' /\ EmptyInv'
  BY DEF IInv, LockInv, EmptyInv
<1>3. SourceInv'
  <2>1. lock = c /\ lock # Nobody /\ pc[Unloader] \notin {"clean", "release"}
    BY NullAssumption DEF IInv, LockInv, Threads
  <2>2. \A d \in Callbacks : d # c => pc[d] \notin {"clean", "add"}
    BY <2>1 DEF IInv, LockInv, Threads
  <2>3. rows'[c] = rows[c] \ {r} /\ lost' = lost \cup {r} /\ r \in source
    BY DEF IInv, TypeOK, SourceInv
  <2>4. rows'[c] \subseteq source \ lost' /\ Stored = (source \ rows'[c]) \ lost'
    BY <2>3 DEF IInv, SourceInv
  <2>5. QED
    BY <2>1, <2>2, <2>4 DEF SourceInv, Stored
<1>4. QED
  BY <1>1, <1>2, <1>3, SameLists DEF IInv

-----------------------------------------------------------------------------
(* The steps on the lists.                                                 *)

LEMMA CleanedStep ==
  ASSUME IInv, NEW t \in Threads, Cleaned(t)
  PROVE  IInv'
<1> USE DEF Cleaned
<1>1. TypeOK' /\ PendingInv'
  <2>1. <<>> \in Seq(Entries)
    OBVIOUS
  <2>2. pc' \in [Threads -> {"idle", "acquire", "clean", "add", "release", "done"}]
    BY DEF IInv, TypeOK, Goto
  <2>3. QED
    BY <2>1, <2>2 DEF IInv, TypeOK, PendingInv, systemVars
<1>2. LockInv'
  <2>1. t = Unloader \/ t \in Callbacks
    BY DEF Threads
  <2>2. QED
    BY <2>1, NullAssumption DEF IInv, TypeOK, LockInv, Goto, Threads
<1>3. \A f \in Families : routeList'[f] = <<>> /\ Len(routeList'[f]) = 0
  OBVIOUS
<1>4. ListInv' /\ OrderInv' /\ EmptyInv'
  BY <1>3 DEF ListInv, OrderInv, EmptyInv
<1>5. AllocInv'
  BY DEF IInv, AllocInv
<1>6. SourceInv'
  <2>1. Stored = {} /\ Stored' = {}
    BY EmptyStored DEF IInv, Stored
  <2>2. lock = t /\ lock # Nobody /\ \A d \in Threads : d # t => pc[d] \notin {"clean", "add", "release"}
    BY NullAssumption DEF IInv, LockInv
  <2>3. \A d \in Threads : pc'[d] = IF d = t THEN IF t = Unloader THEN "release" ELSE "add" ELSE pc[d]
    BY DEF IInv, TypeOK, Goto
  <2>4. CASE t = Unloader
    BY <2>1, <2>2, <2>3, <2>4, NullAssumption DEF IInv, SourceInv, Threads
  <2>5. CASE t \in Callbacks
    <3>1. rows[t] = source /\ lost = {}
      BY <2>5 DEF IInv, SourceInv
    <3>2. QED
      BY <2>1, <2>2, <2>3, <2>5, <3>1, NullAssumption DEF SourceInv, Threads
  <2>6. QED
    BY <2>4, <2>5 DEF Threads
<1>7. QED
  BY <1>1, <1>2, <1>4, <1>5, <1>6 DEF IInv

LEMMA RemoveEntryStep ==
  ASSUME IInv, NEW t \in Threads, NEW f \in Families, RemoveEntry(t, f)
  PROVE  IInv'
<1> DEFINE e == Head(routeList[f])
           from(g) == IF g = f THEN 1 ELSE 0
<1>1. /\ pc[t] = "clean" /\ routeList[f] # <<>>
      /\ routeList' = [routeList EXCEPT ![f] = Tail(@)]
      /\ entry' = [entry EXCEPT ![e] = Free]
      /\ UNCHANGED <<system, changes, pending, lock, pc, rows, behind, source, lost, arrived>>
  BY DEF RemoveEntry, systemVars, historyVars
<1>2. /\ routeList[f] \in Seq(Entries) /\ Len(routeList[f]) >= 1
      /\ e = routeList[f][1] /\ e \in Entries
      /\ Tail(routeList[f]) \in Seq(Entries) /\ Len(Tail(routeList[f])) = Len(routeList[f]) - 1
      /\ \A i \in 1..Len(routeList[f])-1 : Tail(routeList[f])[i] = routeList[f][i+1]
  <2>1. routeList[f] \in Seq(Entries)
    BY DEF IInv, TypeOK
  <2>2. QED
    BY <1>1, <2>1, HeadTailProperties
<1> HIDE DEF e
<1>3. routeList' \in [Families -> Seq(Entries)] /\ entry' \in [Entries -> Rows \cup {Free}]
  BY <1>1, <1>2 DEF IInv, TypeOK
\* Every place of the new lists is a place of the old ones.
<1>4. ASSUME NEW g \in Families, NEW i \in 1..Len(routeList'[g])
      PROVE  i + from(g) \in 1..Len(routeList[g]) /\ routeList'[g][i] = routeList[g][i + from(g)]
  <2>1. CASE g = f
    <3>1. routeList'[g] = Tail(routeList[f])
      BY <1>1, <2>1 DEF IInv, TypeOK
    <3>2. QED
      BY <1>2, <2>1, <3>1
  <2>2. CASE g # f
    <3>1. routeList'[g] = routeList[g] /\ routeList[g] \in Seq(Entries)
      BY <1>1, <2>2 DEF IInv, TypeOK
    <3>2. QED
      BY <2>2, <3>1
  <2>3. QED
    BY <2>1, <2>2
\* Nothing that is still listed is freed.
<1>5. ASSUME NEW g \in Families, NEW i \in 1..Len(routeList'[g])
      PROVE  routeList'[g][i] \in Entries /\ routeList'[g][i] # e
  <2> DEFINE k == i + from(g)
  <2>1. k \in 1..Len(routeList[g]) /\ routeList'[g][i] = routeList[g][k]
    BY <1>4
  <2>2. routeList[g][k] \in Entries /\ i \in Nat \ {0}
    <3>1. routeList[g] \in Seq(Entries) /\ routeList'[g] \in Seq(Entries)
      BY <1>3 DEF IInv, TypeOK
    <3>2. QED
      BY <2>1, <3>1
  <2>3. ASSUME routeList[g][k] = e PROVE FALSE
    <3>1. CASE g = f
      <4>1. k = i + 1 /\ k # 1 /\ 1 \in 1..Len(routeList[f])
        BY <1>2, <2>2, <3>1
      <4> HIDE DEF k
      <4>2. routeList[f][k] = routeList[f][1] /\ k \in 1..Len(routeList[f])
        BY <1>2, <2>1, <2>3, <3>1
      <4>3. QED
        BY <4>1, <4>2 DEF IInv, ListInv
    <3>2. CASE g # f
      <4>1. entry[routeList[g][k]].type = g
        BY <2>1 DEF IInv, ListInv
      <4>2. 1 \in 1..Len(routeList[f])
        BY <1>2
      <4>3. entry[routeList[f][1]].type = f
        BY <4>2 DEF IInv, ListInv
      <4>4. QED
        BY <1>2, <2>3, <3>2, <4>1, <4>3
    <3>3. QED
      BY <3>1, <3>2
  <2>4. QED
    BY <2>1, <2>2, <2>3
<1>6. \A d \in Entries : entry'[d] = IF d = e THEN Free ELSE entry[d]
  BY <1>1 DEF IInv, TypeOK
<1>7. TypeOK' /\ PendingInv' /\ LockInv'
  BY <1>1, <1>3 DEF IInv, TypeOK, PendingInv, LockInv
<1>8. ListInv'
  <2>1. ASSUME NEW g \in Families, NEW i \in 1..Len(routeList'[g])
        PROVE  entry'[routeList'[g][i]] \in Rows /\ entry'[routeList'[g][i]].type = g
    <3>1. entry'[routeList'[g][i]] = entry[routeList[g][i + from(g)]]
      BY <1>4, <1>5, <1>6
    <3>2. i + from(g) \in 1..Len(routeList[g])
      BY <1>4
    <3> HIDE DEF from
    <3>3. QED
      BY <3>1, <3>2 DEF IInv, ListInv
  <2>2. ASSUME NEW g \in Families, NEW i \in 1..Len(routeList'[g]), NEW j \in 1..Len(routeList'[g]),
               routeList'[g][i] = routeList'[g][j]
        PROVE  i = j
    <3>1. /\ i + from(g) \in 1..Len(routeList[g]) /\ j + from(g) \in 1..Len(routeList[g])
          /\ routeList[g][i + from(g)] = routeList[g][j + from(g)]
      BY <1>4, <2>2
    <3> DEFINE k == i + from(g)
               l == j + from(g)
    <3> HIDE DEF k, l
    <3>2. k = l
      BY <3>1 DEF k, l, IInv, ListInv
    <3>3. QED
      BY <3>2 DEF k, l
  <2>3. QED
    BY <2>1, <2>2 DEF ListInv
<1>9. AllocInv'
  <2> SUFFICES ASSUME NEW d \in Entries, entry'[d] # Free
               PROVE  \E g \in Families : \E i \in 1..Len(routeList'[g]) : routeList'[g][i] = d
    BY DEF AllocInv
  <2>1. d # e /\ entry[d] # Free
    BY <1>6
  <2>2. PICK g \in Families : \E k \in 1..Len(routeList[g]) : routeList[g][k] = d
    BY <2>1 DEF IInv, AllocInv
  <2>3. PICK k \in 1..Len(routeList[g]) : routeList[g][k] = d
    BY <2>2
  <2>4. CASE g = f
    <3>1. k # 1 /\ k - 1 \in 1..Len(routeList[f])-1
      BY <1>2, <2>1, <2>3, <2>4
    <3>2. routeList'[f] = Tail(routeList[f])
      BY <1>1 DEF IInv, TypeOK
    <3>3. k - 1 \in 1..Len(routeList'[f]) /\ routeList'[f][k - 1] = routeList[f][(k - 1) + 1]
      BY <1>2, <3>1, <3>2
    <3>4. QED
      BY <2>3, <2>4, <3>1, <3>3
  <2>5. CASE g # f
    <3>1. routeList'[g] = routeList[g]
      BY <1>1, <2>5 DEF IInv, TypeOK
    <3>2. QED
      BY <2>3, <3>1
  <2>6. QED
    BY <2>4, <2>5
<1>10. OrderInv'
  <2>1. ASSUME NEW g \in Families, NEW i \in 1..Len(routeList'[g])
        PROVE  Arrived(routeList[g][i])'
    <3>1. Arrived(routeList[g][i + from(g)])
      <4>1. i + from(g) \in 1..Len(routeList[g])
        BY <1>4
      <4> HIDE DEF from
      <4>2. QED
        BY <4>1 DEF IInv, OrderInv
    <3>2. QED
      BY <1>1, <1>4, <3>1 DEF Arrived
  <2>2. ASSUME NEW g \in Families, NEW i \in 1..Len(routeList'[g]), NEW j \in 1..Len(routeList'[g]), i < j
        PROVE  Before(routeList[g][i], routeList[g][j])'
    <3> DEFINE k == i + from(g)
               l == j + from(g)
    <3>1. k \in 1..Len(routeList[g]) /\ l \in 1..Len(routeList[g]) /\ k < l
      BY <1>4, <2>2
    <3>2. /\ routeList'[g][i] = routeList[g][k] /\ entry'[routeList'[g][i]] = entry[routeList[g][k]]
          /\ routeList'[g][j] = routeList[g][l] /\ entry'[routeList'[g][j]] = entry[routeList[g][l]]
      BY <1>4, <1>5, <1>6
    <3> HIDE DEF k, l
    <3>3. Before(routeList[g][k], routeList[g][l])
      BY <3>1 DEF IInv, OrderInv
    <3>4. QED
      BY <1>1, <3>2, <3>3 DEF Before, ArrivedBefore
  <2>3. QED
    BY <2>1, <2>2 DEF OrderInv
<1>11. EmptyInv' /\ SourceInv'
  <2>1. lock = t /\ lock # Nobody /\ \A c \in Callbacks : pc[c] # "add"
    BY <1>1, NullAssumption DEF IInv, LockInv, Threads
  <2>2. pc[Unloader] \notin {"release", "done"}
    <3>1. CASE t = Unloader
      BY <1>1, <3>1
    <3>2. CASE t # Unloader
      BY <1>1, <3>2 DEF IInv, LockInv, Threads
    <3>3. QED
      BY <3>1, <3>2
  <2>3. QED
    BY <1>1, <2>1, <2>2 DEF IInv, EmptyInv, SourceInv
<1>12. QED
  BY <1>7, <1>8, <1>9, <1>10, <1>11 DEF IInv

LEMMA AddRouteEntryStep ==
  ASSUME IInv, NEW c \in Callbacks, NEW r \in Rows, NEW e \in Entries, AddRouteEntry(c, r, e)
  PROVE  IInv'
<1> DEFINE f == r.type
<1>0. f \in Families
  BY RowFields
<1>1. PICK pos \in 1..Len(routeList[f])+1 :
        StopsAt(r, f, pos) /\ routeList' = [routeList EXCEPT ![f] = InsertAt(@, pos, e)]
  BY DEF AddRouteEntry
<1>2. /\ pc[c] = "add" /\ r \in rows[c] /\ entry[e] = Free
      /\ rows' = [rows EXCEPT ![c] = @ \ {r}]
      /\ entry' = [entry EXCEPT ![e] = r]
      /\ arrived' = Append(arrived, e)
      /\ UNCHANGED <<system, changes, pending, lock, pc, behind, source, lost>>
  BY DEF AddRouteEntry, systemVars
<1>3. \A g \in Families : routeList[g] \in Seq(Entries) /\ Len(routeList[g]) \in Nat
  BY DEF IInv, TypeOK
<1> DEFINE old == routeList[f]
           new == routeList'[f]
<1>4. /\ new \in Seq(Entries) /\ Len(new) = Len(old) + 1 /\ pos \in Nat
      /\ \A i \in 1..Len(new) : new[i] = IF i < pos THEN old[i] ELSE IF i = pos THEN e ELSE old[i-1]
  <2>1. new = InsertAt(old, pos, e)
    BY <1>0, <1>1 DEF IInv, TypeOK
  <2> HIDE DEF new, old
  <2>2. old \in Seq(Entries) /\ pos \in 1..Len(old)+1
    BY <1>0, <1>1, <1>3 DEF old
  <2>3. QED
    BY <2>1, <2>2, InsertAtProperties
<1>5. ASSUME NEW g \in Families, g # f PROVE routeList'[g] = routeList[g]
  BY <1>1, <1>5 DEF IInv, TypeOK
<1>6. routeList' \in [Families -> Seq(Entries)]
  <2>1. routeList' \in [Families -> Seq(Entries)] <=>
          routeList' = [g \in Families |-> routeList'[g]] /\ \A g \in Families : routeList'[g] \in Seq(Entries)
    OBVIOUS
  <2>2. routeList' = [g \in Families |-> routeList'[g]]
    BY <1>1 DEF IInv, TypeOK
  <2>3. QED
    BY <1>3, <1>4, <1>5, <2>1, <2>2
\* What was listed still has its row.
<1>7. \A d \in Entries : entry'[d] = IF d = e THEN r ELSE entry[d]
  BY <1>2 DEF IInv, TypeOK
<1>8. \A g \in Families : \A i \in 1..Len(routeList[g]) :
        /\ routeList[g][i] \in Entries /\ routeList[g][i] # e
        /\ entry[routeList[g][i]] \in Rows /\ entry'[routeList[g][i]] = entry[routeList[g][i]]
        /\ entry[routeList[g][i]].type = g
  <2> TAKE g \in Families
  <2> TAKE i \in 1..Len(routeList[g])
  <2>1. routeList[g][i] \in Entries
    BY <1>3
  <2>2. entry[routeList[g][i]] \in Rows /\ entry[routeList[g][i]].type = g
    BY DEF IInv, ListInv
  <2>3. QED
    BY <1>2, <1>7, <2>1, <2>2, NullAssumption
<1> HIDE DEF new, old, f
<1>9. TypeOK' /\ PendingInv' /\ LockInv'
  <2>1. entry' \in [Entries -> Rows \cup {Free}] /\ arrived' \in Seq(Entries)
    BY <1>2 DEF IInv, TypeOK
  <2>2. rows' \in [Callbacks -> SUBSET Rows]
    BY <1>2 DEF IInv, TypeOK
  <2>3. TypeOK'
    BY <1>2, <1>6, <2>1, <2>2 DEF IInv, TypeOK
  <2>4. PendingInv' /\ LockInv'
    BY <1>2 DEF IInv, PendingInv, LockInv
  <2>5. QED
    BY <2>3, <2>4
\* Places of the new list: those before the new entry, its own, those after it.
<1>10. ASSUME NEW i \in 1..Len(new)
       PROVE  \/ i < pos /\ i \in 1..Len(old) /\ new[i] = old[i]
              \/ i = pos /\ new[i] = e
              \/ i > pos /\ i-1 \in 1..Len(old) /\ i-1 >= pos /\ new[i] = old[i-1]
  <2>1. Len(old) \in Nat /\ pos \in 1..Len(old)+1
    BY <1>0, <1>1, <1>3 DEF old
  <2>2. QED
    BY <1>4, <2>1
<1>11. ListInv'
  <2>1. ASSUME NEW i \in 1..Len(new)
        PROVE  entry'[new[i]] \in Rows /\ entry'[new[i]].type = f
    <3>1. entry'[e] = r /\ r.type = f
      BY <1>7 DEF f
    <3>2. \A k \in 1..Len(old) : entry'[old[k]] \in Rows /\ entry'[old[k]].type = f
      BY <1>0, <1>8 DEF old
    <3>3. QED
      BY <1>10, <3>1, <3>2
  <2>2. ASSUME NEW i \in 1..Len(new), NEW j \in 1..Len(new), new[i] = new[j]
        PROVE  i = j
    <3>1. \A k, l \in 1..Len(old) : old[k] = old[l] => k = l
      BY <1>0 DEF old, IInv, ListInv
    <3>2. \A k \in 1..Len(old) : old[k] # e
      BY <1>0, <1>8 DEF old
    <3>3. i \in Int /\ j \in Int /\ pos \in Int
      BY <1>4
    <3>4. CASE i < pos
      BY <1>10, <2>2, <3>1, <3>2, <3>3, <3>4
    <3>5. CASE i = pos
      BY <1>10, <2>2, <3>1, <3>2, <3>3, <3>5
    <3>6. CASE i > pos
      <4>1. i-1 \in 1..Len(old) /\ i-1 >= pos /\ new[i] = old[i-1]
        BY <1>10, <3>3, <3>6
      <4>2. j > pos
        <5>1. ASSUME j = pos PROVE FALSE
          <6>1. new[j] = e
            BY <1>10, <3>3, <5>1
          <6>2. QED
            BY <2>2, <3>2, <4>1, <6>1
        <5>2. ASSUME j < pos PROVE FALSE
          <6>1. j \in 1..Len(old) /\ new[j] = old[j]
            BY <1>10, <3>3, <5>2
          <6>2. i-1 = j
            BY <2>2, <3>1, <4>1, <6>1
          <6>3. QED
            BY <3>3, <4>1, <5>2, <6>2
        <5>3. QED
          BY <3>3, <5>1, <5>2
      <4>3. j-1 \in 1..Len(old) /\ new[j] = old[j-1]
        BY <1>10, <3>3, <4>2
      <4>4. i-1 = j-1
        BY <2>2, <3>1, <4>1, <4>3
      <4>5. QED
        BY <3>3, <4>4
    <3>7. QED
      BY <3>3, <3>4, <3>5, <3>6
  <2>3. ASSUME NEW g \in Families, g # f
        PROVE  /\ \A i \in 1..Len(routeList'[g]) :
                    entry'[routeList'[g][i]] \in Rows /\ entry'[routeList'[g][i]].type = g
               /\ \A i, j \in 1..Len(routeList'[g]) : routeList'[g][i] = routeList'[g][j] => i = j
    BY <1>5, <1>8, <2>3 DEF IInv, ListInv
  <2>4. QED
    BY <2>1, <2>2, <2>3 DEF ListInv, new
<1>12. AllocInv'
  <2> SUFFICES ASSUME NEW d \in Entries, entry'[d] # Free
               PROVE  \E g \in Families : \E i \in 1..Len(routeList'[g]) : routeList'[g][i] = d
    BY DEF AllocInv
  <2>0. Len(old) \in Nat /\ pos \in 1..Len(old)+1
    BY <1>0, <1>1, <1>3 DEF old
  <2>1. CASE d = e
    <3>1. pos \in 1..Len(new) /\ new[pos] = e
      BY <1>4, <2>0
    <3>2. QED
      BY <1>0, <2>1, <3>1 DEF new
  <2>2. CASE d # e
    <3>1. PICK g \in Families : \E k \in 1..Len(routeList[g]) : routeList[g][k] = d
      BY <1>7, <2>2 DEF IInv, AllocInv
    <3>2. PICK k \in 1..Len(routeList[g]) : routeList[g][k] = d
      BY <3>1
    <3>3. CASE g = f
      <4>1. k \in 1..Len(old) /\ old[k] = d
        BY <3>2, <3>3 DEF old
      <4>2. \E i \in 1..Len(new) : new[i] = d
        <5>1. CASE k < pos
          <6>1. k \in 1..Len(new) /\ new[k] = old[k]
            BY <1>4, <2>0, <4>1, <5>1
          <6>2. QED
            BY <4>1, <6>1
        <5>2. CASE k >= pos
          <6>1. k+1 \in 1..Len(new) /\ new[k+1] = old[k]
            BY <1>4, <2>0, <4>1, <5>2
          <6>2. QED
            BY <4>1, <6>1
        <5>3. QED
          BY <2>0, <5>1, <5>2
      <4>3. QED
        BY <1>0, <4>2 DEF new
    <3>4. CASE g # f
      BY <1>5, <3>2, <3>4
    <3>5. QED
      BY <3>3, <3>4
  <2>3. QED
    BY <2>1, <2>2
\* History only grows, and its last element is the new entry.
<1>13. /\ Len(arrived') = Len(arrived) + 1 /\ Len(arrived) \in Nat
       /\ arrived'[Len(arrived) + 1] = e
       /\ \A k \in 1..Len(arrived) : arrived'[k] = arrived[k]
  <2>1. arrived \in Seq(Entries)
    BY DEF IInv, TypeOK
  <2>2. QED
    BY <1>2, <2>1
<1>14. ASSUME NEW g \in Families, NEW i \in 1..Len(routeList[g])
       PROVE  Arrived(routeList[g][i]) /\ \E k \in 1..Len(arrived') : arrived'[k] = routeList[g][i]
  <2>1. PICK k \in 1..Len(arrived) : arrived[k] = routeList[g][i]
    BY DEF IInv, OrderInv, Arrived
  <2>2. k \in 1..Len(arrived') /\ arrived'[k] = routeList[g][i]
    BY <1>13, <2>1
  <2>3. QED
    BY <2>1, <2>2 DEF Arrived
<1> DEFINE before(a, b) ==
      \/ CompareRoutes(entry'[a], entry'[b])
      \/ /\ entry'[a].metric = entry'[b].metric /\ entry'[a].prefix = entry'[b].prefix
         /\ \E k, l \in 1..Len(arrived') : k < l /\ arrived'[k] = a /\ arrived'[l] = b
<1>15. ASSUME NEW g \in Families, NEW i \in 1..Len(routeList[g]), NEW j \in 1..Len(routeList[g]), i < j
       PROVE  before(routeList[g][i], routeList[g][j])
  <2> DEFINE a == routeList[g][i]
             b == routeList[g][j]
  <2>1. entry'[a] = entry[a] /\ entry'[b] = entry[b]
    BY <1>8
  <2>2. Before(a, b)
    BY <1>15 DEF IInv, OrderInv
  <2>3. CASE CompareRoutes(entry[a], entry[b])
    BY <2>1, <2>3
  <2>4. CASE /\ entry[a].metric = entry[b].metric /\ entry[a].prefix = entry[b].prefix
             /\ ArrivedBefore(a, b)
    <3> HIDE DEF a, b
    <3>1. PICK k \in 1..Len(arrived), l \in 1..Len(arrived) : k < l /\ arrived[k] = a /\ arrived[l] = b
      BY <2>4 DEF ArrivedBefore
    <3>2. k \in 1..Len(arrived') /\ l \in 1..Len(arrived') /\ arrived'[k] = a /\ arrived'[l] = b
      BY <1>13, <3>1
    <3>3. QED
      BY <2>1, <2>4, <3>1, <3>2 DEF a, b
  <2>5. QED
    BY <2>2, <2>3, <2>4 DEF Before
\* The new entry is not better than those before it.
<1>16. ASSUME NEW i \in 1..Len(old), i < pos
       PROVE  before(old[i], e)
  <2> DEFINE a == old[i]
  <2>1. entry'[a] = entry[a] /\ entry[a] \in Rows /\ entry'[e] = r
    BY <1>0, <1>7, <1>8 DEF old
  <2>2. ~CompareRoutes(r, entry[a])
    <3>1. i \in 1..pos-1
      BY <1>4, <1>16
    <3>2. QED
      BY <1>1, <3>1 DEF StopsAt, old
  <2>3. PICK k \in 1..Len(arrived) : arrived[k] = a
    BY <1>0, <1>14 DEF old, Arrived
  <2> HIDE DEF a
  <2>4. CompareRoutes(entry[a], r) \/ (entry[a].metric = r.metric /\ entry[a].prefix = r.prefix)
    BY <2>1, <2>2, CompareRoutesOrder
  <2>5. /\ k \in 1..Len(arrived') /\ Len(arrived)+1 \in 1..Len(arrived') /\ k < Len(arrived)+1
        /\ arrived'[k] = a /\ arrived'[Len(arrived)+1] = e
    BY <1>13, <2>3
  <2>6. QED
    BY <2>1, <2>4, <2>5 DEF a
\* It is better than those after it.
<1>17. ASSUME NEW j \in 1..Len(old), j >= pos
       PROVE  before(e, old[j])
  <2>0. Len(old) \in Nat /\ pos \in 1..Len(old)+1
    BY <1>0, <1>1, <1>3 DEF old
  <2>1. pos \in 1..Len(old)
    BY <1>17, <2>0
  <2>2. CompareRoutes(r, entry[old[pos]])
    BY <1>1, <2>1 DEF StopsAt, old
  <2>3. entry'[e] = r /\ entry'[old[j]] = entry[old[j]] /\ entry[old[j]] \in Rows /\ entry[old[pos]] \in Rows
    BY <1>0, <1>7, <1>8, <2>1 DEF old
  <2>4. CASE j = pos
    BY <2>2, <2>3, <2>4
  <2>5. CASE j > pos
    <3>1. Before(old[pos], old[j])
      BY <1>0, <2>1, <2>5 DEF IInv, OrderInv, old
    <3>2. CompareRoutes(r, entry[old[j]])
      BY <2>2, <2>3, <3>1, CompareRoutesOrder DEF Before
    <3>3. QED
      BY <2>3, <3>2
  <2>6. QED
    BY <1>17, <2>0, <2>4, <2>5
<1> HIDE DEF before
<1>18. OrderInv'
  <2>1. ASSUME NEW i \in 1..Len(new) PROVE \E k \in 1..Len(arrived') : arrived'[k] = new[i]
    <3>1. CASE i = pos
      BY <1>4, <1>13, <3>1
    <3>2. CASE i # pos
      <4>1. PICK k \in 1..Len(old) : new[i] = old[k]
        BY <1>10, <3>2
      <4>2. QED
        BY <1>0, <1>14, <4>1 DEF old
    <3>3. QED
      BY <3>1, <3>2
  <2>2. ASSUME NEW i \in 1..Len(new), NEW j \in 1..Len(new), i < j
        PROVE  before(new[i], new[j])
    <3>0. i \in Int /\ j \in Int /\ pos \in Int
      BY <1>4
    <3>1. \A k, l \in 1..Len(old) : k < l => before(old[k], old[l])
      BY <1>0, <1>15 DEF old
    <3>2. CASE j < pos
      <4>1. i < pos
        BY <2>2, <3>0, <3>2
      <4>2. QED
        BY <1>10, <2>2, <3>0, <3>1, <3>2, <4>1
    <3>3. CASE j = pos
      <4>1. i < pos
        BY <2>2, <3>3
      <4>2. QED
        BY <1>10, <1>16, <3>0, <3>3, <4>1
    <3>4. CASE j > pos
      <4>1. j-1 \in 1..Len(old) /\ j-1 >= pos /\ new[j] = old[j-1]
        BY <1>10, <3>0, <3>4
      <4>2. CASE i < pos
        <5>1. i \in 1..Len(old) /\ new[i] = old[i] /\ i < j-1
          BY <1>10, <3>0, <4>1, <4>2
        <5>2. QED
          BY <3>1, <4>1, <5>1
      <4>3. CASE i = pos
        BY <1>4, <1>10, <1>17, <4>1, <4>3
      <4>4. CASE i > pos
        <5>1. i-1 \in 1..Len(old) /\ new[i] = old[i-1] /\ i-1 < j-1
          BY <1>10, <2>2, <3>0, <4>4
        <5>2. QED
          BY <3>1, <4>1, <5>1
      <4>5. QED
        BY <3>0, <4>2, <4>3, <4>4
    <3>5. QED
      BY <3>0, <3>2, <3>3, <3>4
  <2>3. ASSUME NEW g \in Families
        PROVE  /\ \A i \in 1..Len(routeList'[g]) : \E k \in 1..Len(arrived') : arrived'[k] = routeList'[g][i]
               /\ \A i, j \in 1..Len(routeList'[g]) : i < j => before(routeList'[g][i], routeList'[g][j])
    <3>1. CASE g = f
      BY <2>1, <2>2, <3>1 DEF new
    <3>2. CASE g # f
      BY <1>5, <1>14, <1>15, <3>2
    <3>3. QED
      BY <3>1, <3>2
  <2>4. QED
    BY <2>3 DEF OrderInv, Arrived, ArrivedBefore, Before, before
<1>19. EmptyInv'
  BY <1>2, NullAssumption DEF IInv, LockInv, EmptyInv, Threads
<1>20. SourceInv'
  <2>1. lock = c /\ lock # Nobody /\ pc[Unloader] \notin {"clean", "release"}
    BY <1>2, NullAssumption DEF IInv, LockInv, Threads
  <2>2. \A d \in Callbacks : d # c => pc[d] \notin {"clean", "add"}
    BY <2>1 DEF IInv, LockInv, Threads
  <2>3. rows'[c] = rows[c] \ {r} /\ r \in source \ lost /\ rows[c] \subseteq source \ lost
    BY <1>2 DEF IInv, TypeOK, SourceInv
  <2>4. Stored' = Stored \cup {r}
    BY <1>2, <1>7, NullAssumption DEF Stored
  <2>5. Stored = (source \ rows[c]) \ lost
    BY <1>2 DEF IInv, SourceInv
  <2>6. rows'[c] \subseteq source \ lost /\ Stored' = (source \ rows'[c]) \ lost
    BY <2>3, <2>4, <2>5
  <2>7. QED
    BY <1>2, <2>1, <2>2, <2>6 DEF SourceInv
<1>21. QED
  BY <1>9, <1>11, <1>12, <1>18, <1>19, <1>20 DEF IInv

-----------------------------------------------------------------------------

LEMMA NextStep == IInv /\ [Next]_vars => IInv'
<1> SUFFICES ASSUME IInv, [Next]_vars PROVE IInv'
  OBVIOUS
<1>1. ASSUME NEW r \in Rows, ChangeRoute(r) PROVE IInv'
  BY <1>1, ChangeRouteStep
<1>2. ASSUME NEW t \in Threads, CleanupRouteTable(t) PROVE IInv'
  BY <1>2, AcquireSpinLockStep, CleanedStep, RemoveEntryStep DEF CleanupRouteTable
<1>3. ASSUME NEW c \in Callbacks, Callback(c) PROVE IInv'
  <2>1. CASE GetIpForwardTable2(c) \/ GetIpForwardTable2Fails(c) \/ CallbackReturns(c)
    BY <2>1, GetIpForwardTable2Step, GetIpForwardTable2FailsStep, CallbackReturnsStep
  <2>2. CASE CleanupRouteTable(c)
    BY <1>2, <2>2 DEF Threads
  <2>3. ASSUME NEW r \in Rows, NEW e \in Entries, AddRouteEntry(c, r, e) PROVE IInv'
    BY <2>3, AddRouteEntryStep
  <2>4. ASSUME NEW r \in Rows, AddRouteEntryFails(c, r) PROVE IInv'
    BY <2>4, AddRouteEntryFailsStep
  <2>5. QED
    BY <1>3, <2>1, <2>2, <2>3, <2>4 DEF Callback
<1>4. CASE DriverUnload
  BY <1>4, DriverUnloadStep
<1>5. CASE CleanupAllRouteTable
  BY <1>2, <1>5, CleanupReturnsStep DEF CleanupAllRouteTable, Threads
<1>6. CASE UNCHANGED vars
  <2>1. TypeOK' /\ PendingInv'
    BY <1>6 DEF IInv, TypeOK, PendingInv, vars, systemVars, historyVars
  <2>2. LockInv' /\ EmptyInv' /\ SourceInv'
    BY <1>6 DEF IInv, LockInv, EmptyInv, SourceInv, Stored, vars, historyVars
  <2>3. QED
    BY <1>6, <2>1, <2>2, SameLists DEF IInv, vars, historyVars
<1>7. QED
  BY <1>1, <1>3, <1>4, <1>5, <1>6 DEF Next

\* The strengthening of the properties below that every step preserves.
THEOREM InductiveInvariant == Spec => []IInv
BY InitStep, NextStep, PTL DEF Spec

\* The state stays well-typed: lists hold entries, entries hold rows, and no more
\* notifications wait than were given (route_info.c, route_table.c).
THEOREM TypeCorrect == Spec => []TypeOK
<1>1. IInv => TypeOK
  BY DEF IInv
<1>2. QED
  BY InductiveInvariant, <1>1, PTL

\* CleanupRouteTable and AddRouteEntry keep the pool and the lists in step, and
\* CleanupAllRouteTable leaves nothing allocated.
THEOREM EntriesAreAccounted == Spec => []EntriesAccounted
<1>1. ASSUME IInv PROVE EntriesAccounted
  <2>1. \A f \in Families : DOMAIN routeList[f] = 1..Len(routeList[f]) /\ routeList[f] \in Seq(Entries)
    BY <1>1 DEF IInv, TypeOK
  <2>2. ASSUME NEW e \in Entries
        PROVE  entry[e] # Free <=> e \in UNION {Listed(f) : f \in Families}
    BY <1>1, <2>1, NullAssumption DEF IInv, AllocInv, ListInv, Listed
  <2>3. UNION {Listed(f) : f \in Families} \subseteq Entries
    BY <2>1 DEF Listed
  <2>4. ASSUME pc[Unloader] = "done", NEW e \in Entries PROVE entry[e] = Free
    <3>1. Stored = {}
      BY <1>1, <2>4, EmptyStored DEF IInv, EmptyInv
    <3>2. QED
      BY <3>1 DEF Stored
  <2>5. QED
    BY <1>1, <2>1, <2>2, <2>3, <2>4 DEF EntriesAccounted, IInv, ListInv
<1>2. QED
  BY InductiveInvariant, <1>1, PTL

\* AddRouteEntry's scan keeps each list sorted, equal routes in the order they
\* came.
THEOREM RoutesAreOrdered == Spec => []RoutesOrdered
<1>1. ASSUME IInv PROVE RoutesOrdered
  <2> SUFFICES ASSUME NEW f \in Families,
                      NEW i \in DOMAIN routeList[f], NEW j \in DOMAIN routeList[f], i < j
               PROVE  /\ ~CompareRoutes(entry[routeList[f][j]], entry[routeList[f][i]])
                      /\ ~CompareRoutes(entry[routeList[f][i]], entry[routeList[f][j]]) =>
                           \E k, l \in DOMAIN arrived :
                             k < l /\ arrived[k] = routeList[f][i] /\ arrived[l] = routeList[f][j]
    BY DEF RoutesOrdered
  <2>1. DOMAIN routeList[f] = 1..Len(routeList[f]) /\ DOMAIN arrived = 1..Len(arrived)
    BY <1>1 DEF IInv, TypeOK
  <2> DEFINE a == routeList[f][i]
             b == routeList[f][j]
  <2>2. Before(a, b) /\ entry[a] \in Rows /\ entry[b] \in Rows
    BY <1>1, <2>1 DEF IInv, OrderInv, ListInv
  <2>3. ~CompareRoutes(entry[b], entry[a])
    BY <2>2, CompareRoutesOrder, RowFields DEF Before, CompareRoutes
  <2>4. ~CompareRoutes(entry[a], entry[b]) => ArrivedBefore(a, b)
    BY <2>2 DEF Before
  <2>5. QED
    BY <2>1, <2>3, <2>4 DEF ArrivedBefore
<1>2. QED
  BY InductiveInvariant, <1>1, PTL

\* Fetched before the lock is taken, used after it: overlapping callbacks of
\* RouteTableChangeNotifyCallback still leave one table in the mirror.
THEOREM MirrorIsOfOneTable == Spec => []MirrorOfOneTable
<1>1. IInv => MirrorOfOneTable
  BY MirrorIsStored DEF IInv, SourceInv, MirrorOfOneTable
<1>2. QED
  BY InductiveInvariant, <1>1, PTL

-----------------------------------------------------------------------------
(* The mirror and the system's table.                                      *)

\* The callback that took the last notification, and took it alone, works on
\* the table the system has now.
FollowInv ==
  ~behind =>
    /\ \A c, d \in Callbacks : pc[c] # "idle" /\ pc[d] # "idle" => c = d
    /\ pending = 0 =>
         /\ \A c \in Callbacks : pc[c] = "acquire" => rows[c] = system
         /\ Monitored /\ (\A c \in Callbacks : pc[c] # "acquire") => source = system

\* Nothing that happens before the next notification is handled disturbs it.
LEMMA FollowStep ==
  ASSUME IInv, FollowInv, [Next]_vars
  PROVE  FollowInv'
<1> USE DEF Goto
<1>1. pending \in Nat
  BY ChangesAssumption DEF IInv, TypeOK
<1>2. pc \in [Threads -> {"idle", "acquire", "clean", "add", "release", "done"}]
      /\ rows \in [Callbacks -> SUBSET Rows] /\ Callbacks \subseteq Threads
      /\ Unloader \in Threads /\ Unloader \notin Callbacks
  BY NullAssumption DEF IInv, TypeOK, Threads
<1>3. ASSUME NEW r \in Rows, ChangeRoute(r) PROVE FollowInv'
  BY <1>1, <1>3 DEF FollowInv, ChangeRoute, historyVars
<1>4. ASSUME NEW c \in Callbacks, GetIpForwardTable2(c) PROVE FollowInv'
  BY <1>1, <1>2, <1>4 DEF FollowInv, GetIpForwardTable2, Monitored, systemVars
<1>5. ASSUME NEW c \in Callbacks, GetIpForwardTable2Fails(c) PROVE FollowInv'
  BY <1>5 DEF FollowInv, GetIpForwardTable2Fails
<1>6. ASSUME NEW t \in Threads, AcquireSpinLock(t) PROVE FollowInv'
  BY <1>2, <1>6 DEF FollowInv, AcquireSpinLock, Monitored, systemVars, Threads
<1>7. ASSUME NEW t \in Threads, Cleaned(t) PROVE FollowInv'
  BY <1>2, <1>7 DEF FollowInv, Cleaned, Monitored, systemVars, Threads
<1>8. ASSUME NEW t \in Threads, NEW f \in Families, RemoveEntry(t, f) PROVE FollowInv'
  BY <1>8 DEF FollowInv, RemoveEntry, Monitored, systemVars, historyVars
<1>9. ASSUME NEW c \in Callbacks, NEW r \in Rows, NEW e \in Entries, AddRouteEntry(c, r, e)
      PROVE  FollowInv'
  BY <1>2, <1>9 DEF FollowInv, AddRouteEntry, Monitored, systemVars
<1>10. ASSUME NEW c \in Callbacks, NEW r \in Rows, AddRouteEntryFails(c, r) PROVE FollowInv'
  BY <1>2, <1>10 DEF FollowInv, AddRouteEntryFails, Monitored, systemVars
<1>11. ASSUME NEW c \in Callbacks, CallbackReturns(c) PROVE FollowInv'
  BY <1>2, <1>11 DEF FollowInv, CallbackReturns, Monitored, systemVars, historyVars
<1>12. CASE DriverUnload \/ CleanupReturns
  BY <1>2, <1>12 DEF FollowInv, DriverUnload, CleanupReturns, Monitored, systemVars, historyVars
<1>13. CASE UNCHANGED vars
  BY <1>13 DEF FollowInv, Monitored, vars, systemVars, historyVars
<1> HIDE DEF Goto
<1>14. QED
  BY <1>2, <1>3, <1>4, <1>5, <1>6, <1>7, <1>8, <1>9, <1>10, <1>11, <1>12, <1>13
    DEF Next, Callback, CleanupRouteTable, CleanupAllRouteTable

\* Changes during a callback are not missed: once every notification has been
\* handled, the last one alone, the mirror is the system's table
\* (RouteTableChangeNotifyCallback).
THEOREM MirrorIsTheSystem == Spec => []MirrorFollowsSystem
<1>1. Init => FollowInv
  BY DEF Init, FollowInv, Threads
<1>2. IInv /\ FollowInv => MirrorFollowsSystem
  <2> SUFFICES ASSUME IInv, FollowInv, Monitored, pending = 0, ~behind,
                      \A c \in Callbacks : pc[c] = "idle"
               PROVE  Mirror = system \ lost
    BY DEF MirrorFollowsSystem
  <2>1. source = system
    BY DEF FollowInv
  <2>2. lock = Nobody
    BY DEF IInv, TypeOK, LockInv, Monitored, Threads
  <2>3. QED
    BY <2>1, <2>2, MirrorIsStored DEF IInv, SourceInv
<1>3. IInv /\ FollowInv /\ [Next]_vars => FollowInv'
  BY FollowStep
<1>4. QED
  BY InductiveInvariant, <1>1, <1>2, <1>3, PTL DEF Spec

-----------------------------------------------------------------------------
(* What a lookup finds.                                                    *)

\* Numbers have a first one among them.
LEMMA FirstOfNumbers ==
  ASSUME NEW T \in SUBSET Nat, T # {}
  PROVE  \E i \in T : \A j \in T : i <= j
<1> DEFINE less == {ss \in Nat \X Nat : ss[1] < ss[2]}
<1>1. IsWellFoundedOn(less, Nat)
  BY NatLessThanWellFounded, Zenon DEF OpToRel
<1>2. \A i, j \in Nat : <<j, i>> \in less <=> j < i
  OBVIOUS
<1> HIDE DEF less
<1>3. PICK i \in T : \A j \in T : <<j, i>> \notin less
  BY <1>1, WFMin, Zenon
<1>4. \A j \in T : i \in Nat /\ j \in Nat /\ ~(j < i)
  BY <1>2, <1>3
<1>5. QED
  BY <1>4

\* The larger of two numbers has room for one divisor more.
LEMMA MultiplesApart ==
  ASSUME NEW n \in Nat \ {0}, NEW x \in Int, NEW y \in Int, x < y
  PROVE  n * x + n <= n * y
<1>1. PICK d \in Nat : y = x + 1 + d
  <2>1. y - x - 1 \in Nat /\ y = x + 1 + (y - x - 1)
    OBVIOUS
  <2>2. QED
    BY <2>1
<1>2. n * y = n * x + n + n * d
  BY <1>1
<1>3. n * d \in Nat /\ n * x \in Int
  OBVIOUS
<1>4. QED
  BY <1>2, <1>3

\* Division with a remainder, and that it is the only one.
LEMMA Division ==
  ASSUME NEW n \in Nat \ {0}, NEW k \in Nat
  PROVE  k \div n \in Nat /\ k % n \in 0..n-1 /\ k = n * (k \div n) + (k % n)
<1>1. k = n * (k \div n) + (k % n)
  OBVIOUS
<1>2. k % n \in 0..n-1
  OBVIOUS
<1>3. k \div n \in Int
  OBVIOUS
<1>4. k \div n >= 0
  OBVIOUS
<1>5. QED
  BY <1>1, <1>2, <1>3, <1>4

LEMMA DivisionOf ==
  ASSUME NEW n \in Nat \ {0}, NEW q \in Nat, NEW m \in 0..n-1
  PROVE  n * q + m \in Nat /\ (n * q + m) \div n = q /\ (n * q + m) % n = m
<1> DEFINE k == n * q + m
           x == k \div n
           y == k % n
<1>1. k \in Nat /\ n * q \in Int /\ k = n * q + m
  OBVIOUS
<1> HIDE DEF k
<1>2. x \in Nat /\ y \in 0..n-1 /\ k = n * x + y
  BY <1>1, Division
<1> HIDE DEF x, y
<1>3. n * x \in Int
  BY <1>2
<1>4. ~(x < q)
  BY <1>1, <1>2, <1>3, MultiplesApart
<1>5. ~(q < x)
  BY <1>1, <1>2, <1>3, MultiplesApart
<1>6. x = q
  BY <1>2, <1>4, <1>5
<1>7. y = m
  BY <1>1, <1>2, <1>3, <1>6
<1>8. QED
  BY <1>1, <1>6, <1>7 DEF x, y, k

\* Bit k of an address, counted from its beginning.
Bit(a, k) == BYTE_BIT_LENGTH - 1 - (k % BYTE_BIT_LENGTH) \in a[(k \div BYTE_BIT_LENGTH) + 1]

\* Whole bytes and the masked byte after them are the first p bits.
LEMMA SubnetIsPrefix ==
  ASSUME NEW n \in Nat, NEW a \in [1..n -> SUBSET Bits], NEW d \in [1..n -> SUBSET Bits],
         NEW p \in 0..BYTE_BIT_LENGTH * n
  PROVE  IsAddressInSubnet(a, d, p) <=> \A k \in 0..p-1 : Bit(a, k) <=> Bit(d, k)
<1> DEFINE B == BYTE_BIT_LENGTH
           q == p \div B
           m == p % B
           mask == {b + B - m : b \in Bits} \cap Bits
<1>1. B \in Nat \ {0}
  BY LengthsAssumption
<1>2. B * n \in Nat
  BY <1>1
<1>3. p \in Nat /\ p <= B * n
  BY <1>2
<1>4. q \in Nat /\ m \in 0..B-1 /\ p = B * q + m
  BY <1>1, <1>3, Division
<1>5. Bits = 0..B-1
  BY DEF Bits
<1>6. IsAddressInSubnet(a, d, p) <=>
        /\ \A i \in 1..q : a[i] = d[i]
        /\ m > 0 => a[q + 1] \cap mask = d[q + 1] \cap mask
  BY DEF IsAddressInSubnet
<1>7. \A k : Bit(a, k) = (B - 1 - (k % B) \in a[(k \div B) + 1])
             /\ Bit(d, k) = (B - 1 - (k % B) \in d[(k \div B) + 1])
  BY DEF Bit
<1>8. \A x : x \in mask <=> x \in Bits /\ \E b \in Bits : x = b + B - m
  OBVIOUS
<1> HIDE DEF B, q, m, mask
<1>9. B * q \in Int /\ B * n \in Int
  BY <1>1, <1>4
<1>10. q <= n /\ (m > 0 => q < n)
  <2>1. ~(n < q)
    BY <1>1, <1>3, <1>4, <1>9, MultiplesApart
  <2>2. m > 0 => q # n
    BY <1>3, <1>4, <1>9
  <2>3. QED
    BY <1>4, <2>1, <2>2
<1>11. ASSUME IsAddressInSubnet(a, d, p), NEW k \in 0..p-1
       PROVE  Bit(a, k) <=> Bit(d, k)
  <2> DEFINE i == k \div B
             r == k % B
  <2>0. k \in Nat /\ k < p
    BY <1>3
  <2>1. i \in Nat /\ r \in 0..B-1 /\ k = B * i + r
    BY <1>1, <2>0, Division
  <2>2. Bit(a, k) = (B - 1 - r \in a[i + 1]) /\ Bit(d, k) = (B - 1 - r \in d[i + 1])
    BY <1>7
  <2> HIDE DEF i, r
  <2>3. k < B * q + m /\ B * i \in Int
    BY <1>1, <1>4, <2>0, <2>1
  <2>4. CASE i < q
    <3>1. i + 1 \in 1..q
      BY <1>4, <2>1, <2>4
    <3>2. QED
      BY <1>6, <1>11, <2>2, <3>1
  <2>5. CASE i >= q
    <3>1. ~(q < i)
      BY <1>1, <1>4, <1>9, <2>1, <2>3, MultiplesApart
    <3>2. i = q
      BY <1>4, <2>1, <2>5, <3>1
    <3>3. r < m
      BY <1>4, <1>9, <2>1, <2>3, <3>2
    <3>4. m - 1 - r \in Bits /\ B - 1 - r = (m - 1 - r) + B - m /\ B - 1 - r \in Bits
      BY <1>1, <1>4, <1>5, <2>1, <3>3
    <3>5. B - 1 - r \in mask
      BY <1>8, <3>4
    <3>6. m > 0
      BY <1>4, <2>1, <3>3
    <3>7. QED
      BY <1>6, <1>11, <2>2, <3>2, <3>5, <3>6
  <2>6. QED
    BY <1>4, <2>1, <2>4, <2>5
<1>12. ASSUME \A k \in 0..p-1 : Bit(a, k) <=> Bit(d, k)
       PROVE  IsAddressInSubnet(a, d, p)
  \* The bit x of byte i+1 is among them when it comes before bit p.
  <2>1. ASSUME NEW i \in Nat, NEW x \in Bits, i < q \/ (i = q /\ B - 1 - x < m)
        PROVE  x \in a[i + 1] <=> x \in d[i + 1]
    <3> DEFINE r == B - 1 - x
               k == B * i + r
    <3>1. r \in 0..B-1 /\ B - 1 - r = x
      BY <1>1, <1>5
    <3> HIDE DEF r
    <3>2. k \in Nat /\ k \div B = i /\ k % B = r
      BY <1>1, <3>1, DivisionOf
    <3>3. k < p
      <4>1. B * i \in Int
        BY <1>1
      <4>2. CASE i < q
        <5>1. B * i + B <= B * q
          BY <1>1, <1>4, <4>2, MultiplesApart
        <5>2. QED
          BY <1>1, <1>4, <1>9, <3>1, <4>1, <5>1
      <4>3. CASE i = q /\ B - 1 - x < m
        BY <1>4, <1>9, <3>1, <4>1, <4>3 DEF r
      <4>4. QED
        BY <2>1, <4>2, <4>3
    <3> HIDE DEF k
    <3>4. k \in 0..p-1
      BY <1>3, <3>2, <3>3
    <3>5. QED
      BY <1>7, <1>12, <3>1, <3>2, <3>4
  <2>2. ASSUME NEW i \in 1..q PROVE a[i] = d[i]
    <3>1. i - 1 \in Nat /\ i - 1 < q /\ (i - 1) + 1 = i
      BY <1>4
    <3>2. \A x \in Bits : x \in a[i] <=> x \in d[i]
      BY <2>1, <3>1
    <3>3. i \in 1..n
      BY <1>4, <1>10
    <3>4. a[i] \subseteq Bits /\ d[i] \subseteq Bits
      BY <3>3
    <3>5. QED
      BY <3>2, <3>4
  <2>3. ASSUME m > 0 PROVE a[q + 1] \cap mask = d[q + 1] \cap mask
    <3>1. ASSUME NEW x \in mask PROVE x \in a[q + 1] <=> x \in d[q + 1]
      <4>1. x \in Bits /\ B - 1 - x < m
        BY <1>1, <1>4, <1>5, <1>8
      <4>2. QED
        BY <1>4, <2>1, <4>1
    <3>2. QED
      BY <3>1
  <2>4. QED
    BY <1>6, <2>2, <2>3
<1>13. QED
  BY <1>11, <1>12

\* The answer is the row of the first match, if there is one.
LEMMA FindRouteEntryFirst ==
  ASSUME IInv, NEW f \in Families, NEW address,
         NEW matching,
         matching = {i \in 1..Len(routeList[f]) :
                       IsAddressInSubnet(address, entry[routeList[f][i]].destination,
                                         entry[routeList[f][i]].prefix)}
  PROVE  /\ matching = {} => FindRouteEntry(f, address) = Free
         /\ matching # {} => \E i \in matching :
              /\ \A j \in matching : i <= j
              /\ FindRouteEntry(f, address) = entry[routeList[f][i]]
<1>1. DOMAIN routeList[f] = 1..Len(routeList[f]) /\ matching \in SUBSET Nat
  BY DEF IInv, TypeOK
<1> DEFINE first == CHOOSE i \in matching : \A j \in matching : i <= j
<1>2. FindRouteEntry(f, address) =
        IF matching = {} THEN Free ELSE entry[routeList[f][first]]
  BY <1>1 DEF FindRouteEntry
<1>3. ASSUME matching # {} PROVE first \in matching /\ \A j \in matching : first <= j
  <2>1. \E i \in matching : \A j \in matching : i <= j
    BY <1>1, <1>3, FirstOfNumbers
  <2>2. QED
    BY <2>1, Zenon
<1> HIDE DEF first
<1>4. QED
  BY <1>2, <1>3

\* The first match of FindRouteEntry's scan is a best route: nothing in the
\* list that comes after it is better, and matching is having the address's
\* first bits (IsAddressInSubnet).
THEOREM LookupIsBest == Spec => []LookupFindsBest
<1>1. ASSUME IInv PROVE LookupFindsBest
  <2> SUFFICES ASSUME NEW f \in Families, NEW address \in Addresses(f)
               PROVE  LET routes == {r \in Mirror : /\ r.type = f
                                                    /\ \A k \in 0..r.prefix-1 :
                                                         Bit(address, k) <=> Bit(r.destination, k)}
                          found == FindRouteEntry(f, address)
                      IN  IF routes = {} THEN found = Free
                          ELSE /\ found \in routes
                               /\ \A r \in routes : /\ found.metric <= r.metric
                                                    /\ found.metric = r.metric => found.prefix >= r.prefix
    BY DEF LookupFindsBest, Bit
  <2> DEFINE routes == {r \in Mirror : /\ r.type = f
                                       /\ \A k \in 0..r.prefix-1 :
                                            Bit(address, k) <=> Bit(r.destination, k)}
             found == FindRouteEntry(f, address)
             route(i) == entry[routeList[f][i]]
             matching == {i \in 1..Len(routeList[f]) :
                            IsAddressInSubnet(address, route(i).destination, route(i).prefix)}
  <2>1. \A g \in Families : DOMAIN routeList[g] = 1..Len(routeList[g]) /\ Len(routeList[g]) \in Nat
    BY <1>1 DEF IInv, TypeOK
  <2>2. ASSUME NEW i \in 1..Len(routeList[f])
        PROVE  route(i) \in Rows /\ route(i).type = f /\ route(i) \in Mirror
    BY <1>1, <2>1 DEF IInv, ListInv, Mirror, Listed
  <2>3. ASSUME NEW r \in Rows, r.type = f
        PROVE  IsAddressInSubnet(address, r.destination, r.prefix) <=>
                 \A k \in 0..r.prefix-1 : Bit(address, k) <=> Bit(r.destination, k)
    <3>1. AddressBytes[f] \in Nat
      BY LengthsAssumption
    <3>2. /\ address \in [1..AddressBytes[f] -> SUBSET Bits]
          /\ r.destination \in [1..AddressBytes[f] -> SUBSET Bits]
          /\ r.prefix \in 0..BYTE_BIT_LENGTH * AddressBytes[f]
      BY <2>3, RowsAssumption DEF Addresses
    <3>3. QED
      BY <3>1, <3>2, SubnetIsPrefix
  <2>4. \A i \in matching : route(i) \in routes
    BY <2>2, <2>3
  <2>5. ASSUME NEW r \in routes PROVE \E i \in matching : r = route(i)
    <3>1. PICK g \in Families : \E i \in 1..Len(routeList[g]) : r = entry[routeList[g][i]]
      BY <2>1 DEF Mirror, Listed
    <3>2. PICK i \in 1..Len(routeList[g]) : r = entry[routeList[g][i]]
      BY <3>1
    <3>3. g = f /\ r \in Rows
      BY <1>1, <3>2 DEF IInv, ListInv
    <3>4. QED
      BY <2>3, <3>2, <3>3
  <2>6. CASE matching = {}
    <3>1. routes = {}
      BY <2>5, <2>6
    <3>2. QED
      BY <1>1, <2>6, <3>1, FindRouteEntryFirst
  <2>7. CASE matching # {}
    <3>1. PICK i \in matching : (\A j \in matching : i <= j) /\ found = route(i)
      BY <1>1, <2>7, FindRouteEntryFirst
    <3>2. found \in routes
      BY <2>4, <3>1
    <3>3. ASSUME NEW r \in routes
          PROVE  found.metric <= r.metric /\ (found.metric = r.metric => found.prefix >= r.prefix)
      <4>1. PICK j \in matching : r = route(j)
        BY <2>5
      <4>2. i = j \/ i < j
        BY <3>1
      <4>3. found \in Rows /\ r \in Rows
        BY <2>2, <3>1, <4>1
      <4>4. CASE i = j
        BY <3>1, <4>1, <4>3, <4>4, RowFields
      <4>5. CASE i < j
        <5>1. Before(routeList[f][i], routeList[f][j])
          BY <1>1, <4>5 DEF IInv, OrderInv
        <5>2. CompareRoutes(found, r) \/ (found.metric = r.metric /\ found.prefix = r.prefix)
          BY <3>1, <4>1, <5>1 DEF Before
        <5>3. QED
          BY <4>3, <5>2, RowFields DEF CompareRoutes
      <4>6. QED
        BY <4>2, <4>4, <4>5
    <3> HIDE DEF found
    <3>4. QED
      BY <3>2, <3>3 DEF found
  <2>8. QED
    BY <2>6, <2>7
<1>2. QED
  BY InductiveInvariant, <1>1, PTL
=============================================================================
