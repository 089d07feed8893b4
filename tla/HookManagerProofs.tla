------------------------- MODULE HookManagerProofs -------------------------
(***************************************************************************)
(* The hook manager keeps its list sorted, its entries accounted for and   *)
(* its walkers on one list, and implements the chain of hooks, for any     *)
(* hooks, entries, clients and viewers.                                    *)
(***************************************************************************)
EXTENDS HookManager, SequenceTheorems, TLAPS

-----------------------------------------------------------------------------
(* The inductive invariant, in layers.                                     *)

\* The labels between acquiring and releasing the lock are those of its holders.
LockInv ==
  /\ Filter \in readers <=> pc[Filter] \in {"walk", "release"}
  /\ \A v \in Viewers : v \in readers <=> pc[v] = "walk"
  /\ \A c \in Clients :
       writer = c <=> pc[c] \in {"insert", "remove", "free", "release"}
  /\ writer = Unloader <=> pc[Unloader] \in {"remove", "free"}

\* What is in a sequence, and that nothing is there twice.
Has(s, x) == \E i \in 1..Len(s) : s[i] = x
Distinct(s) == \A i, j \in 1..Len(s) : s[i] = s[j] => i = j

\* Threads that may have an entry of their own in hand.
Owners == Clients \cup {Unloader}

IsListed(e) == Has(hookList, e)

\* When a client or the unloading driver has an entry in hand.
HandInv ==
  /\ \A c \in Clients : cursor[c] # ListHead <=> pc[c] \in {"register", "insert", "free"}
  /\ cursor[Unloader] # ListHead <=> pc[Unloader] = "free"
  /\ \A c \in Clients : pc[c] \in {"register", "insert"} =>
       request[c] \in Hook /\ entry[cursor[c]] = request[c]

\* An entry in hand is allocated and nobody else's.
OwnInv ==
  \A t \in Owners : cursor[t] # ListHead =>
    /\ entry[cursor[t]] # Free
    /\ cursor[t] \notin refused
    /\ ~IsListed(cursor[t])
    /\ \A u \in Owners : cursor[u] = cursor[t] => u = t

\* A listed entry is allocated, and in one place of the list.
ListInv ==
  /\ \A i \in 1..Len(hookList) : entry[hookList[i]] # Free /\ hookList[i] \notin refused
  /\ Distinct(hookList)

\* The entry of a refused registration is allocated for good.
RefusedInv == \A e \in refused : entry[e] # Free

\* There are no other allocated entries.
AllocInv ==
  \A e \in Entries : entry[e] # Free =>
    IsListed(e) \/ e \in refused \/ \E t \in Owners : cursor[t] = e

MemInv == HandInv /\ OwnInv /\ ListInv /\ RefusedInv /\ AllocInv

\* ListOrdered with indices as numbers.
OrderInv ==
  \A i, j \in 1..Len(hookList) : i < j =>
    /\ entry[hookList[i]].priority >= entry[hookList[j]].priority
    /\ entry[hookList[i]] # entry[hookList[j]]

\* The n-th entry, or the list head behind the last one.
EntryAt(n) == IF n <= Len(hookList) THEN hookList[n] ELSE ListHead

\* What the routing thread has called is the beginning of the list.
FilterInv ==
  /\ pc[Filter] \in {"walk", "release"} =>
       /\ Len(called) <= Len(hookList)
       /\ \A i \in 1..Len(called) : called[i].entry = hookList[i]
  /\ pc[Filter] = "idle" => called = <<>>
  /\ cursor[Filter] = IF pc[Filter] = "walk" THEN EntryAt(Len(called) + 1) ELSE ListHead

\* What a viewer has read is the beginning of the list.
ViewInv ==
  \A v \in Viewers :
    /\ pc[v] = "walk" =>
         /\ count[v] <= Len(hookList)
         /\ Len(buffer[v]) = IF count[v] < MaxCount THEN count[v] ELSE MaxCount
         /\ \A i \in 1..Len(buffer[v]) : buffer[v][i] = entry[hookList[i]]
    /\ pc[v] # "walk" => count[v] = 0 /\ buffer[v] = <<>>
    /\ cursor[v] = IF pc[v] = "walk" THEN EntryAt(count[v] + 1) ELSE ListHead

Said(verdict) == \E i \in 1..Len(called) : called[i].verdict = verdict

\* The result so far is what the hooks have said so far.
VerdictInv ==
  /\ pc[Filter] = "idle" => result = Accepted
  /\ pc[Filter] = "walk" => ~Said("DROP") /\ result.accept
  /\ pc[Filter] # "idle" =>
       /\ result.accept <=> ~Said("DROP")
       /\ result.modified <=> Said("MODIFIED") /\ ~Said("DROP")

IInv == TypeOK /\ LockInv /\ MemInv /\ OrderInv /\ FilterInv /\ ViewInv /\ VerdictInv

-----------------------------------------------------------------------------
(* Facts about sequences and about the operators of the model.             *)

\* Inserting one element.
LEMMA InsertAtProperties ==
  ASSUME NEW S, NEW s \in Seq(S), NEW e \in S, NEW pos \in 1..Len(s)+1
  PROVE  /\ InsertAt(s, pos, e) \in Seq(S)
         /\ Len(InsertAt(s, pos, e)) = Len(s) + 1
         /\ \A i \in 1..Len(s)+1 :
              InsertAt(s, pos, e)[i] =
                IF i < pos THEN s[i] ELSE IF i = pos THEN e ELSE s[i-1]
<1> DEFINE before == SubSeq(s, 1, pos-1)
           after == SubSeq(s, pos, Len(s))
           first == before \o <<e>>
           all == first \o after
<1>1. pos \in Int /\ Len(s) \in Nat
  OBVIOUS
<1>2. before \in Seq(S) /\ Len(before) = pos - 1 /\ \A i \in 1..pos-1 : before[i] = s[i]
  OBVIOUS
<1>3. /\ after \in Seq(S) /\ Len(after) = Len(s) - pos + 1
      /\ \A i \in 1..Len(s)-pos+1 : after[i] = s[pos + i - 1]
  OBVIOUS
<1>4. /\ first \in Seq(S) /\ Len(first) = pos
      /\ \A i \in 1..pos : first[i] = IF i < pos THEN s[i] ELSE e
  <2> HIDE DEF before
  <2>1. QED
    BY <1>2
<1>5. InsertAt(s, pos, e) = all
  BY DEF InsertAt
<1> HIDE DEF before, after, first
<1>6. /\ all \in Seq(S) /\ Len(all) = Len(first) + Len(after)
      /\ \A i \in 1..Len(first)+Len(after) :
           all[i] = IF i <= Len(first) THEN first[i] ELSE after[i - Len(first)]
  BY <1>3, <1>4, ConcatProperties
<1> HIDE DEF all
<1>7. Len(all) = Len(s) + 1
  BY <1>1, <1>3, <1>4, <1>6
<1>8. ASSUME NEW i \in 1..Len(s)+1
      PROVE  all[i] = IF i < pos THEN s[i] ELSE IF i = pos THEN e ELSE s[i-1]
  <2>1. all[i] = IF i <= pos THEN first[i] ELSE after[i - pos]
    BY <1>3, <1>4, <1>6, <1>7
  <2>2. CASE i <= pos
    BY <1>1, <1>4, <2>1, <2>2
  <2>3. CASE i > pos
    <3>1. i - pos \in 1..Len(s)-pos+1 /\ pos + (i - pos) - 1 = i - 1
      BY <1>1, <2>3
    <3>2. after[i - pos] = s[i - 1]
      BY <1>3, <3>1
    <3>3. QED
      BY <1>1, <2>1, <2>3, <3>2
  <2>4. QED
    BY <1>1, <2>2, <2>3
<1>9. QED
  BY <1>5, <1>6, <1>7, <1>8

\* Removing one element.
LEMMA RemoveAtProperties ==
  ASSUME NEW S, NEW s \in Seq(S), NEW pos \in 1..Len(s)
  PROVE  /\ RemoveAt(s, pos) \in Seq(S)
         /\ Len(RemoveAt(s, pos)) = Len(s) - 1
         /\ \A i \in 1..Len(s)-1 :
              RemoveAt(s, pos)[i] = IF i < pos THEN s[i] ELSE s[i+1]
<1> DEFINE before == SubSeq(s, 1, pos-1)
           after == SubSeq(s, pos+1, Len(s))
           all == before \o after
<1>1. pos \in Int /\ Len(s) \in Nat
  OBVIOUS
<1>2. before \in Seq(S) /\ Len(before) = pos - 1 /\ \A i \in 1..pos-1 : before[i] = s[i]
  OBVIOUS
<1>3. /\ after \in Seq(S) /\ Len(after) = Len(s) - pos
      /\ \A i \in 1..Len(s)-pos : after[i] = s[pos + i]
  OBVIOUS
<1>4. RemoveAt(s, pos) = all
  BY DEF RemoveAt
<1> HIDE DEF before, after
<1>5. /\ all \in Seq(S) /\ Len(all) = Len(before) + Len(after)
      /\ \A i \in 1..Len(before)+Len(after) :
           all[i] = IF i <= Len(before) THEN before[i] ELSE after[i - Len(before)]
  BY <1>2, <1>3, ConcatProperties
<1> HIDE DEF all
<1>6. ASSUME NEW i \in 1..Len(s)-1
      PROVE  all[i] = IF i < pos THEN s[i] ELSE s[i+1]
  <2>1. all[i] = IF i <= pos - 1 THEN before[i] ELSE after[i - (pos - 1)]
    BY <1>1, <1>2, <1>3, <1>5
  <2>2. CASE i < pos
    BY <1>1, <1>2, <2>1, <2>2
  <2>3. CASE i >= pos
    <3>1. i - (pos - 1) \in 1..Len(s)-pos /\ pos + (i - (pos - 1)) = i + 1
      BY <1>1, <2>3
    <3>2. after[i - (pos - 1)] = s[i + 1]
      BY <1>3, <3>1
    <3>3. QED
      BY <1>1, <2>1, <2>3, <3>2
  <2>4. QED
    BY <1>1, <2>2, <2>3
<1>7. QED
  BY <1>1, <1>2, <1>3, <1>4, <1>5, <1>6

LEMMA InsertAtElements ==
  ASSUME NEW S, NEW s \in Seq(S), NEW e \in S, NEW pos \in 1..Len(s)+1
  PROVE  /\ \A x : Has(InsertAt(s, pos, e), x) <=> Has(s, x) \/ x = e
         /\ Distinct(s) /\ ~Has(s, e) => Distinct(InsertAt(s, pos, e))
<1> DEFINE t == InsertAt(s, pos, e)
<1>1. /\ Len(t) = Len(s) + 1
      /\ \A i \in 1..Len(s)+1 :
           t[i] = IF i < pos THEN s[i] ELSE IF i = pos THEN e ELSE s[i-1]
  BY InsertAtProperties
<1>2. Len(s) \in Nat /\ pos \in 1..Len(s)+1
  OBVIOUS
<1> HIDE DEF t
<1>3. ASSUME NEW x, Has(s, x) PROVE Has(t, x)
  <2>1. PICK i \in 1..Len(s) : s[i] = x
    BY <1>3 DEF Has
  <2>2. CASE i < pos
    <3>1. i \in 1..Len(t) /\ t[i] = x
      BY <1>1, <1>2, <2>1, <2>2
    <3>2. QED
      BY <3>1 DEF Has
  <2>3. CASE i >= pos
    <3>1. i + 1 \in 1..Len(t) /\ t[i + 1] = x
      BY <1>1, <1>2, <2>1, <2>3
    <3>2. QED
      BY <3>1 DEF Has
  <2>4. QED
    BY <1>2, <2>2, <2>3
<1>4. Has(t, e)
  <2>1. pos \in 1..Len(t) /\ t[pos] = e
    BY <1>1, <1>2
  <2>2. QED
    BY <2>1 DEF Has
<1>5. ASSUME NEW i \in 1..Len(t)
      PROVE  \/ i < pos /\ i \in 1..Len(s) /\ t[i] = s[i]
             \/ i = pos /\ t[i] = e
             \/ i > pos /\ i - 1 \in 1..Len(s) /\ t[i] = s[i - 1]
  BY <1>1, <1>2
<1>6. \A x : Has(t, x) => Has(s, x) \/ x = e
  BY <1>5 DEF Has
<1>7. ASSUME Distinct(s), ~Has(s, e), NEW i \in 1..Len(t), NEW j \in 1..Len(t), t[i] = t[j]
      PROVE  i = j
  <2>1. i # pos => t[i] # e
    BY <1>2, <1>5, <1>7 DEF Has
  <2>2. j # pos => t[j] # e
    BY <1>2, <1>5, <1>7 DEF Has
  <2>3. CASE i = pos \/ j = pos
    BY <1>1, <1>2, <1>7, <2>1, <2>2, <2>3
  <2>4. CASE i # pos /\ j # pos
    BY <1>2, <1>5, <1>7, <2>4 DEF Distinct
  <2>5. QED
    BY <2>3, <2>4
<1>8. QED
  BY <1>3, <1>4, <1>6, <1>7 DEF t, Distinct

LEMMA RemoveAtElements ==
  ASSUME NEW S, NEW s \in Seq(S), NEW pos \in 1..Len(s)
  PROVE  /\ \A x : Has(RemoveAt(s, pos), x) => Has(s, x)
         /\ \A x : Has(s, x) => Has(RemoveAt(s, pos), x) \/ x = s[pos]
         /\ Distinct(s) => Distinct(RemoveAt(s, pos)) /\ ~Has(RemoveAt(s, pos), s[pos])
<1> DEFINE t == RemoveAt(s, pos)
<1>1. /\ Len(t) = Len(s) - 1
      /\ \A i \in 1..Len(s)-1 : t[i] = IF i < pos THEN s[i] ELSE s[i+1]
  BY RemoveAtProperties
<1>2. Len(s) \in Nat /\ pos \in 1..Len(s)
  OBVIOUS
<1> HIDE DEF t
<1>3. ASSUME NEW i \in 1..Len(t)
      PROVE  \/ i < pos /\ i \in 1..Len(s) /\ t[i] = s[i]
             \/ i >= pos /\ i + 1 \in 1..Len(s) /\ t[i] = s[i + 1]
  BY <1>1, <1>2
<1>4. ASSUME NEW x, Has(s, x), x # s[pos] PROVE Has(t, x)
  <2>1. PICK i \in 1..Len(s) : s[i] = x
    BY <1>4 DEF Has
  <2>2. CASE i < pos
    <3>1. i \in 1..Len(t) /\ t[i] = x
      BY <1>1, <1>2, <2>1, <2>2
    <3>2. QED
      BY <3>1 DEF Has
  <2>3. CASE i > pos
    <3>1. i - 1 \in 1..Len(t) /\ t[i - 1] = x
      BY <1>1, <1>2, <2>1, <2>3
    <3>2. QED
      BY <3>1 DEF Has
  <2>4. QED
    BY <1>2, <1>4, <2>1, <2>2, <2>3
<1>5. \A x : Has(t, x) => Has(s, x)
  BY <1>3 DEF Has
<1>6. ASSUME Distinct(s), NEW i \in 1..Len(t), NEW j \in 1..Len(t), t[i] = t[j]
      PROVE  i = j
  BY <1>2, <1>3, <1>6 DEF Distinct
<1>7. ASSUME Distinct(s), NEW i \in 1..Len(t) PROVE t[i] # s[pos]
  BY <1>2, <1>3, <1>7 DEF Distinct
<1>8. QED
  BY <1>4, <1>5, <1>6, <1>7 DEF t, Distinct, Has

\* The Flink of the n-th entry.
LEMMA FollowingEntry ==
  ASSUME TypeOK, ListInv, NEW n \in 1..Len(hookList)
  PROVE  Following(hookList[n]) = EntryAt(n + 1)
<1> DEFINE i == CHOOSE i \in DOMAIN hookList : hookList[i] = hookList[n]
<1>1. DOMAIN hookList = 1..Len(hookList) /\ Len(hookList) \in Nat
  BY DEF TypeOK
<1>2. i \in 1..Len(hookList) /\ hookList[i] = hookList[n]
  BY <1>1
<1>3. i = n
  BY <1>2 DEF ListInv, Distinct
<1>4. Following(hookList[n]) = IF i < Len(hookList) THEN hookList[i + 1] ELSE ListHead
  BY DEF Following
<1> HIDE DEF i
<1>5. QED
  BY <1>1, <1>3, <1>4 DEF EntryAt

\* Where a walk starts.
LEMMA FirstEntry ==
  ASSUME TypeOK
  PROVE  First = EntryAt(1) /\ First \in Entries \cup {ListHead}
<1>1. Len(hookList) \in Nat /\ (hookList = <<>> <=> Len(hookList) = 0)
  BY DEF TypeOK
<1>2. 1 <= Len(hookList) => hookList[1] \in Entries
  BY <1>1 DEF TypeOK
<1>3. QED
  BY <1>1, <1>2 DEF First, EntryAt

\* The n-th entry is an entry, or there are fewer.
LEMMA EntryAtType ==
  ASSUME TypeOK, NEW n \in Nat, n > 0
  PROVE  /\ EntryAt(n) \in Entries \cup {ListHead}
         /\ EntryAt(n) # ListHead <=> n <= Len(hookList)
         /\ n <= Len(hookList) => EntryAt(n) = hookList[n]
<1>1. Len(hookList) \in Nat
  BY DEF TypeOK
<1>2. n <= Len(hookList) => hookList[n] \in Entries
  BY <1>1 DEF TypeOK
<1>3. QED
  BY <1>1, <1>2, EntriesAssumption DEF EntryAt

\* A walker on an entry stands on a listed one, and goes on to the one behind it.
LEMMA FilterCursor ==
  ASSUME TypeOK, ListInv, FilterInv, pc[Filter] = "walk", cursor[Filter] # ListHead
  PROVE  /\ Len(called) + 1 \in 1..Len(hookList)
         /\ cursor[Filter] = hookList[Len(called) + 1] /\ cursor[Filter] \in Entries
         /\ Following(cursor[Filter]) = EntryAt(Len(called) + 2)
         /\ Following(cursor[Filter]) \in Entries \cup {ListHead}
<1> DEFINE n == Len(called) + 1
<1>1. Len(called) \in Nat /\ n \in Nat /\ n > 0 /\ n + 1 = Len(called) + 2 /\ Len(hookList) \in Nat
  BY DEF TypeOK
<1>2. cursor[Filter] = EntryAt(n)
  BY DEF FilterInv
<1> HIDE DEF n
<1>3. n \in 1..Len(hookList) /\ cursor[Filter] = hookList[n] /\ cursor[Filter] \in Entries
  BY <1>1, <1>2, EntryAtType
<1>4. Following(cursor[Filter]) = EntryAt(n + 1)
  BY <1>3, FollowingEntry
<1>5. EntryAt(n + 1) \in Entries \cup {ListHead}
  BY <1>1, EntryAtType
<1>6. QED
  BY <1>1, <1>3, <1>4, <1>5 DEF n

LEMMA ViewCursor ==
  ASSUME TypeOK, ListInv, ViewInv, NEW v \in Viewers, pc[v] = "walk", cursor[v] # ListHead
  PROVE  /\ count[v] + 1 \in 1..Len(hookList)
         /\ cursor[v] = hookList[count[v] + 1] /\ cursor[v] \in Entries
         /\ entry[cursor[v]] \in Hook
         /\ Following(cursor[v]) = EntryAt(count[v] + 2)
         /\ Following(cursor[v]) \in Entries \cup {ListHead}
<1> DEFINE n == count[v] + 1
<1>1. count[v] \in Nat /\ n \in Nat /\ n > 0 /\ n + 1 = count[v] + 2 /\ Len(hookList) \in Nat
  BY DEF TypeOK
<1>2. cursor[v] = EntryAt(n)
  BY DEF ViewInv
<1> HIDE DEF n
<1>3. n \in 1..Len(hookList) /\ cursor[v] = hookList[n] /\ cursor[v] \in Entries
  BY <1>1, <1>2, EntryAtType
<1>4. Following(cursor[v]) = EntryAt(n + 1)
  BY <1>3, FollowingEntry
<1>5. EntryAt(n + 1) \in Entries \cup {ListHead}
  BY <1>1, EntryAtType
<1>6. entry[cursor[v]] \in Hook
  BY <1>3 DEF TypeOK, ListInv
<1>7. QED
  BY <1>1, <1>3, <1>4, <1>5, <1>6 DEF n

-----------------------------------------------------------------------------
(* Types and the lock.                                                     *)

\* Every state variable keeps its type, except that the list does so by the
\* facts about insertion and removal.
LEMMA TypeStep ==
  ASSUME IInv, [Next]_vars
  PROVE  TypeOK'
<1> USE DEF Threads, Walkers, Owners, Goto, Hold, lockVars, passVars, viewVars
<1> USE DEF IInv
<1>1. CASE UNCHANGED vars
  BY <1>1 DEF vars, TypeOK
<1>2. ASSUME NEW c \in Clients, NEW h \in Hook, RegisterHook(c, h) \/ UnregisterHook(c, h)
      PROVE  TypeOK'
  <2>1. CASE RegisterHook(c, h)
    <3>1. PICK e \in Entries : entry' = [entry EXCEPT ![e] = h] /\ Hold(c, e)
      BY <2>1 DEF RegisterHook
    <3>2. QED
      BY <2>1, <3>1, ThreadsAssumption DEF RegisterHook, TypeOK
  <2>2. CASE UnregisterHook(c, h)
    BY <2>2, ThreadsAssumption DEF UnregisterHook, TypeOK
  <2>3. QED
    BY <1>2, <2>1, <2>2
<1>3. ASSUME NEW v \in Viewers, GetHookInformation(v)
      PROVE  TypeOK'
  BY <1>3, ThreadsAssumption DEF GetHookInformation, TypeOK
<1>4. CASE DriverUnload
  BY <1>4, ThreadsAssumption DEF DriverUnload, TypeOK
<1>5. CASE FilterAcquire
  BY <1>5, ThreadsAssumption, FirstEntry DEF FilterAcquire, AcquireRead, TypeOK
<1>6. CASE FilterRelease
  BY <1>6, ThreadsAssumption DEF FilterRelease, Release, TypeOK
<1>7. CASE FilterReturn
  BY <1>7, ThreadsAssumption DEF FilterReturn, Accepted, TypeOK
<1>8. ASSUME NEW action \in Actions, NEW tooLong \in BOOLEAN, HookReturns(action, tooLong)
      PROVE  TypeOK'
  <2> DEFINE call == [entry |-> cursor[Filter], verdict |-> IF tooLong THEN "DROP" ELSE action]
  <2>1. call \in [entry : Entries, verdict : Actions] /\ called' = Append(called, call)
    BY <1>8, FilterCursor DEF HookReturns, MemInv, Actions
  <2> HIDE DEF call
  <2>2. called' \in Seq([entry : Entries, verdict : Actions])
    BY <2>1 DEF TypeOK
  <2>3. result' \in [accept : BOOLEAN, modified : BOOLEAN]
    BY <1>8 DEF HookReturns, Verdict, Dropped, TypeOK
  <2>4. Following(cursor[Filter]) \in Entries \cup {ListHead}
    BY <1>8, FilterCursor DEF HookReturns, MemInv
  <2>5. cursor' \in [Threads -> Entries \cup {ListHead}]
    BY <1>8, <2>4 DEF HookReturns, TypeOK
  <2>6. pc' = pc \/ pc' = [pc EXCEPT ![Filter] = "release"]
    BY <1>8 DEF HookReturns
  <2>7. UNCHANGED <<hookList, entry, lockVars, request, viewVars, refused>>
    BY <1>8 DEF HookReturns
  <2>8. Filter \in Threads /\ TypeOK
    OBVIOUS
  <2>9. /\ pc'[Filter] \in {"idle", "walk", "release", "return"}
        /\ \A t \in Threads \ {Filter} : pc'[t] = pc[t]
        /\ pc' \in [Threads -> {"idle", "get", "walk", "release", "return", "register",
                               "insert", "unregister", "remove", "free", "done"}]
    BY <2>6, <2>8 DEF TypeOK
  <2>10. QED
    BY <2>2, <2>3, <2>5, <2>7, <2>8, <2>9, ThreadsAssumption DEF TypeOK
<1>9. ASSUME NEW v \in Viewers, ViewAcquire(v)
      PROVE  TypeOK'
  BY <1>9, ThreadsAssumption, FirstEntry DEF ViewAcquire, AcquireRead, TypeOK
<1>10. ASSUME NEW v \in Viewers, ViewEntry(v)
      PROVE  TypeOK'
  <2>1. entry[cursor[v]] \in Hook /\ Following(cursor[v]) \in Entries \cup {ListHead}
    BY <1>10, ViewCursor DEF ViewEntry, MemInv
  <2>2. Append(buffer[v], entry[cursor[v]]) \in Seq(Hook)
    BY <2>1 DEF TypeOK
  <2>3. buffer' \in [Viewers -> Seq(Hook)]
    BY <1>10, <2>2 DEF ViewEntry, TypeOK
  <2>4. QED
    BY <1>10, <2>1, <2>3, ThreadsAssumption DEF ViewEntry, TypeOK
<1>11. ASSUME NEW v \in Viewers, ViewRelease(v)
      PROVE  TypeOK'
  BY <1>11, ThreadsAssumption DEF ViewRelease, Release, TypeOK
<1>12. ASSUME NEW c \in Clients, RegisterAcquire(c) \/ UnregisterAcquire(c)
      PROVE  TypeOK'
  <2>1. CASE RegisterAcquire(c)
    BY <2>1, ThreadsAssumption DEF RegisterAcquire, AcquireWrite, TypeOK
  <2>2. CASE UnregisterAcquire(c)
    BY <2>2, ThreadsAssumption DEF UnregisterAcquire, AcquireWrite, TypeOK
  <2>3. QED
    BY <1>12, <2>1, <2>2
<1>13. ASSUME NEW c \in Clients, RegisterRefuse(c)
      PROVE  TypeOK'
  <2>1. cursor[c] \in Entries
    BY <1>13 DEF RegisterRefuse, TypeOK, MemInv, HandInv
  <2>2. QED
    BY <1>13, <2>1, ThreadsAssumption DEF RegisterRefuse, Release, TypeOK
<1>14. ASSUME NEW c \in Clients, RegisterInsert(c)
      PROVE  TypeOK'
  <2>1. cursor[c] \in Entries
    BY <1>14 DEF RegisterInsert, TypeOK, MemInv, HandInv
  <2>2. PICK pos \in 1..Len(hookList)+1 : hookList' = InsertAt(hookList, pos, cursor[c])
    BY <1>14 DEF RegisterInsert
  <2>3. hookList' \in Seq(Entries)
    BY <2>1, <2>2, InsertAtProperties DEF TypeOK
  <2>4. QED
    BY <1>14, <2>3, ThreadsAssumption DEF RegisterInsert, TypeOK
<1>15. ASSUME NEW c \in Clients, ClientRelease(c)
      PROVE  TypeOK'
  BY <1>15, ThreadsAssumption DEF ClientRelease, Release, TypeOK
<1>16. ASSUME NEW c \in Clients, UnregisterRemove(c)
      PROVE  TypeOK'
  BY <1>16, ThreadsAssumption, RemoveAtProperties DEF UnregisterRemove, Unlink, TypeOK
<1>17. ASSUME NEW c \in Clients, UnregisterNothing(c)
      PROVE  TypeOK'
  BY <1>17, ThreadsAssumption DEF UnregisterNothing, TypeOK
<1>18. ASSUME NEW t \in Owners, FreeEntry(t)
      PROVE  TypeOK'
  BY <1>18, ThreadsAssumption DEF FreeEntry, TypeOK
<1>19. CASE UnregisterAllAcquire
  BY <1>19, ThreadsAssumption DEF UnregisterAllAcquire, AcquireWrite, TypeOK
<1>20. CASE UnregisterAllRemove
  BY <1>20, ThreadsAssumption, RemoveAtProperties DEF UnregisterAllRemove, Unlink, TypeOK
<1>21. CASE UnregisterAllRelease
  BY <1>21, ThreadsAssumption DEF UnregisterAllRelease, Release, TypeOK
<1>22. QED
  BY <1>1, <1>2, <1>3, <1>4, <1>5, <1>6, <1>7, <1>8, <1>9, <1>10, <1>11, <1>12, <1>13, <1>14,
     <1>15, <1>16, <1>17, <1>18, <1>19, <1>20, <1>21
  DEF Next, Call, FilterEthernetPacket, View, Register, Unregister, UnregisterAllHooks

\* A lock that is taken by label: who acquires, moves to a label inside, who
\* releases, to one outside.
LEMMA LockStep ==
  ASSUME TypeOK, LockInv, [Next]_vars
  PROVE  LockInv'
<1> USE ThreadsAssumption
    DEF Threads, Walkers, Owners, Goto, Hold, lockVars, passVars, viewVars, TypeOK, LockInv
<1>1. CASE UNCHANGED vars
  BY <1>1 DEF vars
<1>2. ASSUME NEW c \in Clients, NEW h \in Hook, RegisterHook(c, h) \/ UnregisterHook(c, h)
      PROVE  LockInv'
  BY <1>2 DEF RegisterHook, UnregisterHook
<1>3. ASSUME NEW v \in Viewers,
             GetHookInformation(v) \/ ViewAcquire(v) \/ ViewEntry(v) \/ ViewRelease(v)
      PROVE  LockInv'
  BY <1>3 DEF GetHookInformation, ViewAcquire, AcquireRead, ViewEntry, ViewRelease, Release
<1>4. CASE DriverUnload
  BY <1>4 DEF DriverUnload, Loaded
<1>5. CASE FilterAcquire \/ FilterRelease \/ FilterReturn
  BY <1>5 DEF FilterAcquire, AcquireRead, FilterRelease, Release, FilterReturn
<1>6. ASSUME NEW action \in Actions, NEW tooLong \in BOOLEAN, HookReturns(action, tooLong)
      PROVE  LockInv'
  <2>1. /\ UNCHANGED <<readers, writer>>
        /\ pc[Filter] = "walk"
        /\ pc' = pc \/ pc' = [pc EXCEPT ![Filter] = "release"]
    BY <1>6 DEF HookReturns
  <2>2. QED
    BY <2>1
<1>7. ASSUME NEW c \in Clients, RegisterAcquire(c) \/ UnregisterAcquire(c)
      PROVE  LockInv'
  BY <1>7 DEF RegisterAcquire, UnregisterAcquire, AcquireWrite
<1>8. ASSUME NEW c \in Clients, Register(c)
      PROVE  LockInv'
  <2>1. CASE RegisterRefuse(c)
    BY <2>1 DEF RegisterRefuse, Release
  <2>2. CASE RegisterInsert(c)
    BY <2>2 DEF RegisterInsert
  <2>3. CASE ClientRelease(c)
    BY <2>3 DEF ClientRelease, Release
  <2>4. QED
    BY <1>8, <2>1, <2>2, <2>3 DEF Register
<1>9. ASSUME NEW c \in Clients, UnregisterRemove(c) \/ UnregisterNothing(c)
      PROVE  LockInv'
  BY <1>9 DEF UnregisterRemove, Unlink, UnregisterNothing
<1>10. ASSUME NEW t \in Owners, FreeEntry(t)
      PROVE  LockInv'
  BY <1>10 DEF FreeEntry
<1>11. CASE UnregisterAllAcquire \/ UnregisterAllRemove \/ UnregisterAllRelease
  <2>1. CASE UnregisterAllAcquire
    BY <2>1 DEF UnregisterAllAcquire, AcquireWrite
  <2>2. CASE UnregisterAllRemove
    BY <2>2 DEF UnregisterAllRemove, Unlink
  <2>3. CASE UnregisterAllRelease
    BY <2>3 DEF UnregisterAllRelease, Release
  <2>4. QED
    BY <1>11, <2>1, <2>2, <2>3
<1>12. QED
  BY <1>1, <1>2, <1>3, <1>4, <1>5, <1>6, <1>7, <1>8, <1>9, <1>10, <1>11
  DEF Next, Call, FilterEthernetPacket, View, Register, Unregister, UnregisterAllHooks

-----------------------------------------------------------------------------
(* The entries.                                                            *)

\* Nothing is inserted, removed, allocated, freed or taken in hand.
LEMMA MemFrame ==
  ASSUME MemInv, HandInv', UNCHANGED <<hookList, entry, refused>>,
         \A t \in Owners : cursor'[t] = cursor[t]
  PROVE  MemInv'
<1>1. \A e : IsListed(e)' <=> IsListed(e)
  BY DEF IsListed
<1>2. OwnInv' /\ ListInv' /\ RefusedInv'
  BY <1>1 DEF MemInv, OwnInv, ListInv, RefusedInv
<1>3. AllocInv'
  BY <1>1 DEF MemInv, AllocInv
<1>4. QED
  BY <1>2, <1>3 DEF MemInv

\* The allocation in RegisterHook.
LEMMA MemRegisterHook ==
  ASSUME IInv, NEW c \in Clients, NEW h \in Hook, RegisterHook(c, h)
  PROVE  MemInv'
<1> USE ThreadsAssumption, EntriesAssumption DEF IInv, MemInv, TypeOK, Threads, Owners
<1>1. PICK e \in Entries : entry[e] = Free /\ entry' = [entry EXCEPT ![e] = h] /\ Hold(c, e)
  BY DEF RegisterHook
<1>2. /\ UNCHANGED <<hookList, refused>>
      /\ pc[c] = "idle" /\ pc' = [pc EXCEPT ![c] = "register"]
      /\ request' = [request EXCEPT ![c] = h]
  BY DEF RegisterHook, Goto
<1>3. cursor' = [cursor EXCEPT ![c] = e] /\ cursor[c] = ListHead
  BY <1>1, <1>2 DEF Hold, HandInv
<1>4. /\ e \notin refused /\ ~IsListed(e)
      /\ \A t \in Owners : cursor[t] # e
  <2>1. e \notin refused /\ ~IsListed(e)
    BY <1>1 DEF RefusedInv, ListInv, IsListed, Has
  <2>2. \A t \in Owners : cursor[t] # ListHead => entry[cursor[t]] # Free
    BY DEF OwnInv
  <2>3. QED
    BY <1>1, <2>1, <2>2
<1>5. \A x : IsListed(x)' <=> IsListed(x)
  BY <1>2 DEF IsListed
<1>6. HandInv'
  BY <1>1, <1>2, <1>3, <1>4 DEF HandInv, OwnInv
<1>7. OwnInv'
  BY <1>1, <1>2, <1>3, <1>4, <1>5 DEF OwnInv
<1>8. ListInv' /\ RefusedInv'
  <2>1. \A i \in 1..Len(hookList) : hookList[i] # e
    BY <1>4 DEF IsListed, Has
  <2>2. \A x : x # e => entry'[x] = entry[x] \/ x \notin Entries
    BY <1>1
  <2>3. \A i \in 1..Len(hookList) : hookList[i] \in Entries
    OBVIOUS
  <2>4. ListInv'
    BY <1>2, <2>1, <2>2, <2>3 DEF ListInv
  <2>5. RefusedInv'
    BY <1>2, <1>4, <2>2 DEF RefusedInv
  <2>6. QED
    BY <2>4, <2>5
<1>9. AllocInv'
  BY <1>1, <1>2, <1>3, <1>5 DEF AllocInv
<1>10. QED
  BY <1>6, <1>7, <1>8, <1>9

\* The entry of a registration that is refused.
LEMMA MemRegisterRefuse ==
  ASSUME IInv, NEW c \in Clients, RegisterRefuse(c)
  PROVE  MemInv'
<1> USE ThreadsAssumption, EntriesAssumption DEF IInv, MemInv, TypeOK, Threads, Owners
<1>1. /\ UNCHANGED <<hookList, entry>>
      /\ pc[c] = "insert" /\ pc' = [pc EXCEPT ![c] = "idle"]
      /\ request' = [request EXCEPT ![c] = Free]
      /\ cursor' = [cursor EXCEPT ![c] = ListHead]
      /\ refused' = refused \cup {cursor[c]}
  BY DEF RegisterRefuse, Goto, Hold
<1>2. cursor[c] # ListHead /\ cursor[c] \in Entries
  BY <1>1 DEF HandInv
<1>3. \A x : IsListed(x)' <=> IsListed(x)
  BY <1>1 DEF IsListed
<1>4. HandInv'
  BY <1>1 DEF HandInv
<1>5. OwnInv'
  BY <1>1, <1>2, <1>3 DEF OwnInv
<1>6. ListInv' /\ RefusedInv'
  <2>1. entry[cursor[c]] # Free /\ ~Has(hookList, cursor[c])
    BY <1>2 DEF OwnInv, IsListed
  <2>2. \A i \in 1..Len(hookList) : hookList[i] # cursor[c]
    BY <2>1 DEF Has
  <2>3. QED
    BY <1>1, <2>1, <2>2 DEF ListInv, RefusedInv
<1>7. AllocInv'
  BY <1>1, <1>3 DEF AllocInv
<1>8. QED
  BY <1>4, <1>5, <1>6, <1>7

\* The entry that is linked.
LEMMA MemRegisterInsert ==
  ASSUME IInv, NEW c \in Clients, RegisterInsert(c)
  PROVE  MemInv'
<1> USE ThreadsAssumption, EntriesAssumption DEF IInv, MemInv, TypeOK, Threads, Owners
<1>1. /\ UNCHANGED <<entry, request, refused>>
      /\ pc[c] = "insert" /\ pc' = [pc EXCEPT ![c] = "release"]
      /\ cursor' = [cursor EXCEPT ![c] = ListHead]
  BY DEF RegisterInsert, Goto, Hold
<1>2. cursor[c] # ListHead /\ cursor[c] \in Entries
  BY <1>1 DEF HandInv
<1>3. PICK pos \in 1..Len(hookList)+1 : hookList' = InsertAt(hookList, pos, cursor[c])
  BY DEF RegisterInsert
<1>4. \A x : Has(hookList', x) <=> Has(hookList, x) \/ x = cursor[c]
  BY <1>2, <1>3, InsertAtElements
<1>5. HandInv'
  BY <1>1 DEF HandInv
<1>6. OwnInv'
  BY <1>1, <1>2, <1>4 DEF OwnInv, IsListed
<1>7. ListInv'
  <2>1. entry[cursor[c]] # Free /\ cursor[c] \notin refused /\ ~Has(hookList, cursor[c])
    BY <1>2 DEF OwnInv, IsListed
  <2>2. Distinct(hookList')
    BY <1>2, <1>3, <2>1, InsertAtElements DEF ListInv
  <2>3. \A x : Has(hookList, x) => entry[x] # Free /\ x \notin refused
    BY DEF ListInv, Has
  <2>4. \A i \in 1..Len(hookList') : Has(hookList', hookList'[i])
    BY DEF Has
  <2>5. \A i \in 1..Len(hookList') : entry[hookList'[i]] # Free /\ hookList'[i] \notin refused
    BY <1>4, <2>1, <2>3, <2>4
  <2>6. QED
    BY <1>1, <2>2, <2>5 DEF ListInv
<1>8. RefusedInv'
  BY <1>1 DEF RefusedInv
<1>9. AllocInv'
  <2> SUFFICES ASSUME NEW e \in Entries, entry[e] # Free
               PROVE  IsListed(e)' \/ e \in refused \/ \E u \in Owners : cursor'[u] = e
    BY <1>1 DEF AllocInv
  <2>1. ASSUME NEW u \in Owners, cursor[u] = e PROVE IsListed(e)' \/ cursor'[u] = e
    BY <1>1, <1>4, <2>1 DEF IsListed
  <2>2. IsListed(e) => IsListed(e)'
    BY <1>4 DEF IsListed
  <2>3. QED
    BY <2>1, <2>2 DEF AllocInv
<1>10. QED
  BY <1>5, <1>6, <1>7, <1>8, <1>9

\* The entry that is unlinked.
LEMMA MemUnlink ==
  ASSUME IInv, NEW t \in Owners, pc[t] = "remove", NEW pos \in 1..Len(hookList), Unlink(t, pos)
  PROVE  MemInv'
<1> USE ThreadsAssumption, EntriesAssumption DEF IInv, MemInv, TypeOK, Threads, Owners
<1> DEFINE x == hookList[pos]
<1>1. /\ UNCHANGED <<entry, request, refused>>
      /\ pc' = [pc EXCEPT ![t] = "free"]
      /\ cursor' = [cursor EXCEPT ![t] = x]
      /\ hookList' = RemoveAt(hookList, pos)
  BY DEF Unlink, Goto, Hold
<1>2. /\ x \in Entries /\ x # ListHead /\ cursor[t] = ListHead
      /\ entry[x] # Free /\ x \notin refused /\ Has(hookList, x)
  <2>1. x \in Entries /\ x # ListHead /\ Has(hookList, x)
    BY DEF Has
  <2>2. cursor[t] = ListHead
    BY DEF HandInv
  <2>3. QED
    BY <2>1, <2>2 DEF ListInv
<1>3. /\ \A y : Has(hookList', y) => Has(hookList, y)
      /\ \A y : Has(hookList, y) => Has(hookList', y) \/ y = x
      /\ Distinct(hookList') /\ ~Has(hookList', x)
  BY <1>1, RemoveAtElements DEF ListInv
<1> HIDE DEF x
<1>4. HandInv'
  BY <1>1, <1>2 DEF HandInv
<1>5. OwnInv'
  <2>1. \A u \in Owners : cursor[u] # x
    BY <1>2 DEF OwnInv, IsListed
  <2>2. QED
    BY <1>1, <1>2, <1>3, <2>1 DEF OwnInv, IsListed
<1>6. ListInv'
  <2>1. \A y : Has(hookList, y) => entry[y] # Free /\ y \notin refused
    BY DEF ListInv, Has
  <2>2. \A i \in 1..Len(hookList') : Has(hookList', hookList'[i])
    BY DEF Has
  <2>3. \A i \in 1..Len(hookList') : entry[hookList'[i]] # Free /\ hookList'[i] \notin refused
    BY <1>3, <2>1, <2>2
  <2>4. QED
    BY <1>1, <1>3, <2>3 DEF ListInv
<1>7. RefusedInv'
  BY <1>1 DEF RefusedInv
<1>8. AllocInv'
  <2> SUFFICES ASSUME NEW e \in Entries, entry[e] # Free
               PROVE  IsListed(e)' \/ e \in refused \/ \E u \in Owners : cursor'[u] = e
    BY <1>1 DEF AllocInv
  <2>1. CASE Has(hookList, e)
    BY <1>1, <1>3, <2>1 DEF IsListed
  <2>2. ASSUME NEW u \in Owners, cursor[u] = e PROVE cursor'[u] = e
    BY <1>1, <1>2, <2>2
  <2>3. QED
    BY <2>1, <2>2 DEF AllocInv, IsListed
<1>9. QED
  BY <1>4, <1>5, <1>6, <1>7, <1>8

\* The entry that is freed.
LEMMA MemFreeEntry ==
  ASSUME IInv, NEW t \in Owners, FreeEntry(t)
  PROVE  MemInv'
<1> USE ThreadsAssumption, EntriesAssumption DEF IInv, MemInv, TypeOK, Threads, Owners
<1> DEFINE x == cursor[t]
<1>1. /\ UNCHANGED <<hookList, request, refused>>
      /\ pc[t] = "free" /\ pc' = [pc EXCEPT ![t] = IF t = Unloader THEN "remove" ELSE "release"]
      /\ cursor' = [cursor EXCEPT ![t] = ListHead]
      /\ entry' = [entry EXCEPT ![x] = Free]
  BY DEF FreeEntry, Goto, Hold
<1>2. x # ListHead /\ x \in Entries
  BY <1>1 DEF HandInv
<1>3. /\ x \notin refused /\ ~Has(hookList, x)
      /\ \A u \in Owners : cursor[u] = x => u = t
  BY <1>2 DEF OwnInv, IsListed
<1> HIDE DEF x
<1>4. HandInv'
  <2>1. \A c \in Clients : pc'[c] \in {"register", "insert"} =>
          c # t /\ pc[c] = pc'[c] /\ cursor[c] # ListHead /\ cursor'[c] = cursor[c]
    BY <1>1 DEF HandInv
  <2>2. \A c \in Clients : pc'[c] \in {"register", "insert"} =>
          request'[c] \in Hook /\ entry'[cursor'[c]] = request'[c]
    BY <1>1, <1>3, <2>1 DEF HandInv
  <2>3. QED
    BY <1>1, <2>2 DEF HandInv
<1>5. OwnInv'
  BY <1>1, <1>3 DEF OwnInv, IsListed
<1>6. ListInv'
  <2>1. \A i \in 1..Len(hookList) : hookList[i] # x
    BY <1>3 DEF Has
  <2>2. QED
    BY <1>1, <1>3, <2>1 DEF ListInv
<1>7. RefusedInv'
  BY <1>1, <1>3 DEF RefusedInv
<1>8. AllocInv'
  <2> SUFFICES ASSUME NEW e \in Entries, e # x, entry[e] # Free
               PROVE  IsListed(e) \/ e \in refused \/ \E u \in Owners : cursor'[u] = e
    <3>1. \A e \in Entries : IsListed(e)' <=> IsListed(e)
      BY <1>1 DEF IsListed
    <3>2. \A e \in Entries : entry'[e] # Free => e # x /\ entry[e] # Free
      BY <1>1, <1>2
    <3>3. refused' = refused
      BY <1>1
    <3> HIDE DEF IInv, MemInv, TypeOK
    <3>4. QED
      BY <3>1, <3>2, <3>3 DEF AllocInv
  <2>1. ASSUME NEW u \in Owners, cursor[u] = e PROVE cursor'[u] = e
    BY <1>1, <2>1 DEF x
  <2>2. QED
    BY <2>1 DEF AllocInv
<1>9. QED
  BY <1>4, <1>5, <1>6, <1>7, <1>8

LEMMA MemStep ==
  ASSUME IInv, [Next]_vars
  PROVE  MemInv'
<1> USE ThreadsAssumption
    DEF Threads, Owners, Goto, Hold, lockVars, passVars, viewVars, TypeOK, IInv, MemInv
<1>1. ASSUME UNCHANGED <<hookList, entry, refused, request>>,
             \A t \in Owners : cursor'[t] = cursor[t] /\ pc'[t] = pc[t]
      PROVE  MemInv'
  <2>1. HandInv'
    BY <1>1 DEF HandInv
  <2>2. QED
    BY <1>1, <2>1, MemFrame
<1>2. CASE UNCHANGED vars
  BY <1>1, <1>2 DEF vars
<1>3. CASE FilterAcquire \/ FilterRelease \/ FilterReturn
  BY <1>1, <1>3 DEF FilterAcquire, FilterRelease, FilterReturn
<1>4. ASSUME NEW action \in Actions, NEW tooLong \in BOOLEAN, HookReturns(action, tooLong)
      PROVE  MemInv'
  BY <1>1, <1>4 DEF HookReturns
<1>5. ASSUME NEW v \in Viewers,
             GetHookInformation(v) \/ ViewAcquire(v) \/ ViewEntry(v) \/ ViewRelease(v)
      PROVE  MemInv'
  BY <1>1, <1>5 DEF GetHookInformation, ViewAcquire, ViewEntry, ViewRelease
<1>6. ASSUME NEW c \in Clients, NEW h \in Hook, RegisterHook(c, h) \/ UnregisterHook(c, h)
      PROVE  MemInv'
  <2>1. CASE UnregisterHook(c, h)
    <3>1. HandInv'
      BY <2>1 DEF UnregisterHook, HandInv
    <3>2. QED
      BY <2>1, <3>1, MemFrame DEF UnregisterHook
  <2>2. QED
    BY <1>6, <2>1, MemRegisterHook
<1>7. CASE DriverUnload \/ UnregisterAllAcquire \/ UnregisterAllRelease
  <2>1. HandInv'
    <3>1. CASE DriverUnload
      BY <3>1 DEF DriverUnload, Loaded, HandInv
    <3>2. CASE UnregisterAllAcquire \/ UnregisterAllRelease
      BY <3>2 DEF UnregisterAllAcquire, UnregisterAllRelease, HandInv
    <3>3. QED
      BY <1>7, <3>1, <3>2
  <2>2. QED
    BY <1>7, <2>1, MemFrame DEF DriverUnload, UnregisterAllAcquire, UnregisterAllRelease
<1>8. ASSUME NEW c \in Clients, RegisterAcquire(c) \/ UnregisterAcquire(c)
      PROVE  MemInv'
  <2>1. HandInv'
    BY <1>8 DEF RegisterAcquire, UnregisterAcquire, HandInv
  <2>2. QED
    BY <1>8, <2>1, MemFrame DEF RegisterAcquire, UnregisterAcquire
<1>9. ASSUME NEW c \in Clients, ClientRelease(c) \/ UnregisterNothing(c)
      PROVE  MemInv'
  <2>1. HandInv'
    <3>1. CASE ClientRelease(c)
      BY <3>1 DEF ClientRelease, HandInv
    <3>2. CASE UnregisterNothing(c)
      BY <3>2 DEF UnregisterNothing, HandInv
    <3>3. QED
      BY <1>9, <3>1, <3>2
  <2>2. QED
    BY <1>9, <2>1, MemFrame DEF ClientRelease, UnregisterNothing
<1>10. ASSUME NEW c \in Clients, UnregisterRemove(c)
       PROVE  MemInv'
  <2>1. PICK pos \in 1..Len(hookList) : Unlink(c, pos)
    BY <1>10 DEF UnregisterRemove
  <2>2. QED
    BY <1>10, <2>1, MemUnlink DEF UnregisterRemove
<1>11. CASE UnregisterAllRemove
  <2>1. 1 \in 1..Len(hookList) /\ Unlink(Unloader, 1) /\ pc[Unloader] = "remove"
    BY <1>11 DEF UnregisterAllRemove
  <2>2. QED
    BY <2>1, MemUnlink
<1>12. QED
  BY <1>2, <1>3, <1>4, <1>5, <1>6, <1>7, <1>8, <1>9, <1>10, <1>11,
     MemRegisterRefuse, MemRegisterInsert, MemFreeEntry
  DEF Next, Call, FilterEthernetPacket, View, Register, Unregister, UnregisterAllHooks

-----------------------------------------------------------------------------
(* The order of the list.                                                  *)

\* A hook has a number for a priority.
LEMMA ListedHooks ==
  ASSUME IInv, NEW i \in 1..Len(hookList)
  PROVE  /\ hookList[i] \in Entries /\ entry[hookList[i]] \in Hook
         /\ entry[hookList[i]].priority \in Nat
<1>1. hookList[i] \in Entries /\ entry[hookList[i]] \in Hook
  BY DEF IInv, TypeOK, MemInv, ListInv
<1>2. QED
  BY <1>1, PrioritiesAssumption DEF Hook

\* No step changes the content of a listed entry.
LEMMA ListedKept ==
  ASSUME IInv, [Next]_vars, NEW i \in 1..Len(hookList)
  PROVE  entry'[hookList[i]] = entry[hookList[i]]
<1>1. hookList[i] \in Entries /\ entry[hookList[i]] # Free /\ entry \in [Entries -> Hook \cup {Free}]
  BY DEF IInv, TypeOK, MemInv, ListInv
<1>2. ASSUME NEW c \in Clients, NEW h \in Hook, RegisterHook(c, h)
      PROVE  entry'[hookList[i]] = entry[hookList[i]]
  <2>1. PICK e \in Entries : entry[e] = Free /\ entry' = [entry EXCEPT ![e] = h]
    BY <1>2 DEF RegisterHook
  <2>2. QED
    BY <1>1, <2>1
<1>3. ASSUME NEW t \in Owners, FreeEntry(t)
      PROVE  entry'[hookList[i]] = entry[hookList[i]]
  <2>1. cursor[t] # ListHead /\ entry' = [entry EXCEPT ![cursor[t]] = Free]
    BY <1>3 DEF FreeEntry, IInv, MemInv, HandInv, Owners
  <2>2. cursor[t] # hookList[i]
    BY <2>1 DEF IInv, MemInv, OwnInv, IsListed, Has
  <2>3. QED
    BY <1>1, <2>1, <2>2
<1>4. CASE entry' = entry
  BY <1>4
<1>5. QED
  BY <1>2, <1>3, <1>4
  DEF Next, vars, Call, UnregisterHook, GetHookInformation, DriverUnload, FilterAcquire,
      FilterEthernetPacket, FilterRelease, FilterReturn, HookReturns, ViewAcquire, View,
      ViewEntry, ViewRelease, RegisterAcquire, UnregisterAcquire, Register, RegisterRefuse,
      RegisterInsert, ClientRelease, Unregister, UnregisterRemove, Unlink, UnregisterNothing,
      UnregisterAllAcquire, UnregisterAllHooks, UnregisterAllRemove, UnregisterAllRelease, Owners

\* The list changes by inserting or unlinking one entry, when no walker is in.
LEMMA ListChanges ==
  ASSUME IInv, [Next]_vars
  PROVE  \/ hookList' = hookList
         \/ readers = {} /\ \E c \in Clients : RegisterInsert(c)
         \/ readers = {} /\ \E t \in Owners, pos \in 1..Len(hookList) :
              pc[t] = "remove" /\ Unlink(t, pos)
<1>1. ASSUME NEW c \in Clients, UnregisterRemove(c)
      PROVE  /\ readers = {}
             /\ \E pos \in 1..Len(hookList) : pc[c] = "remove" /\ Unlink(c, pos)
  BY <1>1 DEF UnregisterRemove, ReadersGone, IInv, TypeOK
<1>2. ASSUME UnregisterAllRemove
      PROVE  /\ readers = {}
             /\ 1 \in 1..Len(hookList) /\ pc[Unloader] = "remove" /\ Unlink(Unloader, 1)
  BY <1>2 DEF UnregisterAllRemove, ReadersGone, IInv, TypeOK
<1>3. ASSUME NEW c \in Clients, RegisterInsert(c) PROVE readers = {}
  BY <1>3 DEF RegisterInsert, ReadersGone
<1>4. \/ hookList' = hookList
      \/ \E c \in Clients : RegisterInsert(c) \/ UnregisterRemove(c)
      \/ UnregisterAllRemove
  BY DEF Next, vars, Call, RegisterHook, UnregisterHook, GetHookInformation, DriverUnload,
      FilterAcquire, FilterEthernetPacket, FilterRelease, FilterReturn, HookReturns,
      ViewAcquire, View, ViewEntry, ViewRelease, RegisterAcquire, UnregisterAcquire, Register,
      RegisterRefuse, ClientRelease, Unregister, UnregisterNothing, FreeEntry,
      UnregisterAllAcquire, UnregisterAllHooks, UnregisterAllRelease
<1>5. QED
  BY <1>1, <1>2, <1>3, <1>4 DEF Owners

\* Where RegisterHook puts the new entry: behind those of no lower priority, before
\* those of lower priority.
LEMMA InsertPosition ==
  ASSUME IInv, NEW c \in Clients, RegisterInsert(c)
  PROVE  LET h == request[c]
         IN  /\ h \in Hook /\ h.priority \in Nat
             /\ cursor[c] \in Entries /\ entry[cursor[c]] = h /\ entry' = entry
             /\ \E pos \in 1..Len(hookList)+1 :
                  /\ hookList' = InsertAt(hookList, pos, cursor[c])
                  /\ \A i \in 1..pos-1 :
                       entry[hookList[i]].priority >= h.priority /\ entry[hookList[i]] # h
                  /\ \A i \in pos..Len(hookList) :
                       h.priority > entry[hookList[i]].priority
<1> DEFINE h == request[c]
<1>1. h \in Hook /\ cursor[c] \in Entries /\ entry[cursor[c]] = h /\ entry' = entry
  BY DEF RegisterInsert, IInv, MemInv, HandInv, TypeOK, Threads
<1>2. h.priority \in Nat
  BY <1>1, PrioritiesAssumption DEF Hook
<1>3. PICK pos \in 1..Len(hookList)+1 :
        /\ StopsAt(h, pos)
        /\ pos <= Len(hookList) => ~Same(h, pos)
        /\ hookList' = InsertAt(hookList, pos, cursor[c])
  BY DEF RegisterInsert
<1> HIDE DEF h
<1>4. Len(hookList) \in Nat /\ pos \in Nat
  BY DEF IInv, TypeOK
<1>5. ASSUME NEW i \in 1..pos-1
      PROVE  entry[hookList[i]].priority >= h.priority /\ entry[hookList[i]] # h
  <2>1. i \in 1..Len(hookList) /\ ~Same(h, i) /\ ~Lower(h, i)
    BY <1>3, <1>4 DEF StopsAt
  <2>2. entry[hookList[i]].priority \in Nat
    BY <2>1, ListedHooks
  <2>3. QED
    BY <1>2, <2>1, <2>2 DEF Same, Lower
<1>6. ASSUME NEW i \in pos..Len(hookList)
      PROVE  h.priority > entry[hookList[i]].priority
  <2>1. pos \in 1..Len(hookList) /\ i \in 1..Len(hookList)
    BY <1>4
  <2>2. h.priority > entry[hookList[pos]].priority
    BY <1>3, <2>1 DEF StopsAt, Lower
  <2>3. entry[hookList[i]].priority \in Nat /\ entry[hookList[pos]].priority \in Nat
    BY <2>1, ListedHooks
  <2>4. pos < i => entry[hookList[pos]].priority >= entry[hookList[i]].priority
    BY <2>1 DEF IInv, OrderInv
  <2>5. QED
    BY <1>2, <1>4, <2>2, <2>3, <2>4
<1>7. QED
  BY <1>1, <1>2, <1>3, <1>5, <1>6 DEF h

LEMMA OrderStep ==
  ASSUME IInv, [Next]_vars
  PROVE  OrderInv'
<1>1. Len(hookList) \in Nat /\ hookList \in Seq(Entries)
  BY DEF IInv, TypeOK
<1>2. CASE hookList' = hookList
  <2>1. \A i \in 1..Len(hookList) : entry'[hookList[i]] = entry[hookList[i]]
    BY ListedKept
  <2>2. QED
    BY <1>2, <2>1 DEF IInv, OrderInv
<1>3. ASSUME NEW c \in Clients, RegisterInsert(c) PROVE OrderInv'
  <2> DEFINE h == request[c]
             e == cursor[c]
             p(x) == entry[x].priority
  <2>1. h \in Hook /\ h.priority \in Nat /\ e \in Entries /\ entry[e] = h /\ entry' = entry
    BY <1>3, InsertPosition
  <2>2. PICK pos \in 1..Len(hookList)+1 :
          /\ hookList' = InsertAt(hookList, pos, e)
          /\ \A i \in 1..pos-1 : p(hookList[i]) >= h.priority /\ entry[hookList[i]] # h
          /\ \A i \in pos..Len(hookList) : h.priority > p(hookList[i])
    BY <1>3, InsertPosition
  <2> HIDE DEF h, e
  <2>3. /\ Len(hookList') = Len(hookList) + 1
        /\ \A i \in 1..Len(hookList)+1 :
             hookList'[i] = IF i < pos THEN hookList[i] ELSE IF i = pos THEN e ELSE hookList[i-1]
    BY <1>1, <2>1, <2>2, InsertAtProperties
  <2>4. pos \in Nat /\ 1 <= pos /\ pos <= Len(hookList) + 1
    BY <1>1
  <2>5. \A i \in 1..Len(hookList) : p(hookList[i]) \in Nat
    BY ListedHooks
  <2>6. \A i, j \in 1..Len(hookList) : i < j =>
          p(hookList[i]) >= p(hookList[j]) /\ entry[hookList[i]] # entry[hookList[j]]
    BY DEF IInv, OrderInv
  <2>7. ASSUME NEW i \in 1..Len(hookList)+1, NEW j \in 1..Len(hookList)+1, i < j
        PROVE  p(hookList'[i]) >= p(hookList'[j]) /\ entry[hookList'[i]] # entry[hookList'[j]]
    <3>1. CASE j < pos
      BY <1>1, <2>3, <2>4, <2>6, <2>7, <3>1
    <3>2. CASE j = pos
      <4>1. i \in 1..pos-1 /\ hookList'[i] = hookList[i] /\ hookList'[j] = e
        BY <1>1, <2>3, <2>4, <2>7, <3>2
      <4>2. QED
        BY <2>1, <2>2, <4>1
    <3>3. CASE i < pos /\ pos < j
      BY <1>1, <2>3, <2>4, <2>6, <2>7, <3>3
    <3>4. CASE i = pos
      <4>1. j - 1 \in pos..Len(hookList) /\ hookList'[i] = e /\ hookList'[j] = hookList[j-1]
        BY <1>1, <2>3, <2>4, <2>7, <3>4
      <4>2. h.priority > p(hookList[j-1]) /\ p(hookList[j-1]) \in Nat
        BY <1>1, <2>2, <2>4, <2>5, <4>1
      <4>3. QED
        BY <2>1, <4>1, <4>2
    <3>5. CASE pos < i
      BY <1>1, <2>3, <2>4, <2>6, <2>7, <3>5
    <3>6. QED
      BY <1>1, <2>4, <2>7, <3>1, <3>2, <3>3, <3>4, <3>5
  <2>8. QED
    BY <2>1, <2>3, <2>7 DEF OrderInv
<1>4. ASSUME NEW t \in Owners, NEW pos \in 1..Len(hookList), Unlink(t, pos) PROVE OrderInv'
  <2>1. entry' = entry /\ hookList' = RemoveAt(hookList, pos)
    BY <1>4 DEF Unlink
  <2> DEFINE from(i) == IF i < pos THEN i ELSE i+1
             n == Len(hookList)
  <2>2. /\ Len(hookList') = n - 1
        /\ \A i \in 1..n-1 : hookList'[i] = hookList[from(i)]
    BY <1>1, <2>1, RemoveAtProperties
  <2>3. n \in Nat /\ pos \in 1..n /\ OrderInv
    BY <1>1 DEF IInv
  <2>4. \A i, j \in 1..n-1 :
          i < j => from(i) \in 1..n /\ from(j) \in 1..n /\ from(i) < from(j)
    <3> HIDE DEF n
    <3> QED
      BY <2>3
  <2> HIDE DEF from, n
  <2>5. \A i, j \in 1..n-1 : i < j =>
          /\ entry[hookList[from(i)]].priority >= entry[hookList[from(j)]].priority
          /\ entry[hookList[from(i)]] # entry[hookList[from(j)]]
    BY <2>3, <2>4 DEF OrderInv, n
  <2>6. QED
    BY <2>1, <2>2, <2>5 DEF OrderInv
<1>5. QED
  BY <1>2, <1>3, <1>4, ListChanges

-----------------------------------------------------------------------------
(* The walkers.                                                            *)

\* A walk belongs to its walker: others leave its label, cursor and data alone.
LEMMA FilterFrame ==
  ASSUME IInv, [Next]_vars
  PROVE  \/ FilterAcquire \/ FilterRelease \/ FilterReturn
         \/ \E action \in Actions, tooLong \in BOOLEAN : HookReturns(action, tooLong)
         \/ pc'[Filter] = pc[Filter] /\ cursor'[Filter] = cursor[Filter] /\ UNCHANGED passVars
<1> DEFINE Frame ==
      pc'[Filter] = pc[Filter] /\ cursor'[Filter] = cursor[Filter] /\ UNCHANGED passVars
<1> USE ThreadsAssumption DEF Threads, Owners, Goto, Hold, passVars, IInv, TypeOK
<1>1. CASE UNCHANGED vars
  BY <1>1 DEF vars
<1>2. ASSUME NEW c \in Clients, NEW h \in Hook, RegisterHook(c, h) \/ UnregisterHook(c, h)
      PROVE  Frame
  BY <1>2 DEF RegisterHook, UnregisterHook
<1>3. ASSUME NEW v \in Viewers,
             GetHookInformation(v) \/ ViewAcquire(v) \/ ViewEntry(v) \/ ViewRelease(v)
      PROVE  Frame
  BY <1>3 DEF GetHookInformation, ViewAcquire, ViewEntry, ViewRelease
<1>4. ASSUME NEW c \in Clients, RegisterAcquire(c) \/ UnregisterAcquire(c) \/ Register(c)
      PROVE  Frame
  BY <1>4 DEF RegisterAcquire, UnregisterAcquire, Register, RegisterRefuse, RegisterInsert,
              ClientRelease
<1>5. ASSUME NEW c \in Clients, UnregisterRemove(c) \/ UnregisterNothing(c)
      PROVE  Frame
  BY <1>5 DEF UnregisterRemove, Unlink, UnregisterNothing
<1>6. ASSUME NEW t \in Owners, FreeEntry(t)
      PROVE  Frame
  BY <1>6 DEF FreeEntry
<1>7. CASE DriverUnload \/ UnregisterAllAcquire \/ UnregisterAllRemove \/ UnregisterAllRelease
  BY <1>7 DEF DriverUnload, UnregisterAllAcquire, UnregisterAllRemove, Unlink,
              UnregisterAllRelease
<1>8. QED
  BY <1>1, <1>2, <1>3, <1>4, <1>5, <1>6, <1>7
  DEF Next, Call, FilterEthernetPacket, View, Register, Unregister, UnregisterAllHooks

LEMMA ViewFrame ==
  ASSUME IInv, [Next]_vars, NEW v \in Viewers
  PROVE  \/ GetHookInformation(v) \/ ViewAcquire(v) \/ ViewEntry(v) \/ ViewRelease(v)
         \/ /\ pc'[v] = pc[v] /\ cursor'[v] = cursor[v]
            /\ buffer'[v] = buffer[v] /\ count'[v] = count[v]
<1> DEFINE Frame == /\ pc'[v] = pc[v] /\ cursor'[v] = cursor[v]
                    /\ buffer'[v] = buffer[v] /\ count'[v] = count[v]
<1> USE ThreadsAssumption DEF Threads, Owners, Goto, Hold, viewVars, IInv, TypeOK
<1>1. CASE UNCHANGED vars
  BY <1>1 DEF vars
<1>2. ASSUME NEW c \in Clients, NEW h \in Hook, RegisterHook(c, h) \/ UnregisterHook(c, h)
      PROVE  Frame
  BY <1>2 DEF RegisterHook, UnregisterHook
<1>3. ASSUME NEW w \in Viewers, w # v,
             GetHookInformation(w) \/ ViewAcquire(w) \/ ViewEntry(w) \/ ViewRelease(w)
      PROVE  Frame
  BY <1>3 DEF GetHookInformation, ViewAcquire, ViewEntry, ViewRelease
<1>4. ASSUME NEW c \in Clients, RegisterAcquire(c) \/ UnregisterAcquire(c) \/ Register(c)
      PROVE  Frame
  BY <1>4 DEF RegisterAcquire, UnregisterAcquire, Register, RegisterRefuse, RegisterInsert,
              ClientRelease
<1>5. ASSUME NEW c \in Clients, UnregisterRemove(c) \/ UnregisterNothing(c)
      PROVE  Frame
  BY <1>5 DEF UnregisterRemove, Unlink, UnregisterNothing
<1>6. ASSUME NEW t \in Owners, FreeEntry(t)
      PROVE  Frame
  BY <1>6 DEF FreeEntry
<1>7. CASE DriverUnload \/ UnregisterAllAcquire \/ UnregisterAllRemove \/ UnregisterAllRelease
  BY <1>7 DEF DriverUnload, UnregisterAllAcquire, UnregisterAllRemove, Unlink,
              UnregisterAllRelease
<1>8. CASE FilterAcquire \/ FilterRelease \/ FilterReturn
  BY <1>8 DEF FilterAcquire, FilterRelease, FilterReturn
<1>9. ASSUME NEW action \in Actions, NEW tooLong \in BOOLEAN, HookReturns(action, tooLong)
      PROVE  Frame
  BY <1>9 DEF HookReturns
<1>10. QED
  BY <1>1, <1>2, <1>3, <1>4, <1>5, <1>6, <1>7, <1>8, <1>9
  DEF Next, Call, FilterEthernetPacket, View, Register, Unregister, UnregisterAllHooks

\* The list stays as it is while the routing thread or a viewer walks it.
LEMMA ListStays ==
  ASSUME IInv, [Next]_vars
  PROVE  /\ pc[Filter] \in {"walk", "release"} => hookList' = hookList
         /\ \A v \in Viewers : pc[v] = "walk" => hookList' = hookList
BY ListChanges DEF IInv, LockInv

\* What one more call adds to the history.
LEMMA CalledGrows ==
  ASSUME IInv, NEW action \in Actions, NEW tooLong \in BOOLEAN, HookReturns(action, tooLong)
  PROVE  LET said == IF tooLong THEN "DROP" ELSE action
         IN  /\ Len(called) \in Nat /\ Len(called') = Len(called) + 1
             /\ \A i \in 1..Len(called) : called'[i] = called[i]
             /\ called'[Len(called) + 1].entry = cursor[Filter]
             /\ called'[Len(called) + 1].verdict = said
             /\ \A x : Said(x)' <=> Said(x) \/ x = said
<1> DEFINE said == IF tooLong THEN "DROP" ELSE action
           call == [entry |-> cursor[Filter], verdict |-> said]
           S == [entry : Entries, verdict : Actions]
<1>1. call \in S /\ called \in Seq(S) /\ called' = Append(called, call)
  BY FilterCursor DEF HookReturns, IInv, MemInv, TypeOK, Actions
<1>2. call.entry = cursor[Filter] /\ call.verdict = said
  OBVIOUS
<1> HIDE DEF call, said, S
<1>3. /\ Len(called) \in Nat /\ Len(called') = Len(called) + 1
      /\ \A i \in 1..Len(called) : called'[i] = called[i]
      /\ called'[Len(called) + 1] = call
  BY <1>1, AppendProperties
<1>4. ASSUME NEW x PROVE Said(x)' <=> Said(x) \/ x = said
  <2>1. ASSUME NEW i \in 1..Len(called), called[i].verdict = x PROVE Said(x)'
    <3>1. i \in 1..Len(called') /\ called'[i].verdict = x
      BY <1>3, <2>1
    <3>2. QED
      BY <3>1 DEF Said
  <2>2. ASSUME x = said PROVE Said(x)'
    <3>1. Len(called) + 1 \in 1..Len(called') /\ called'[Len(called) + 1].verdict = x
      BY <1>2, <1>3, <2>2
    <3>2. QED
      BY <3>1 DEF Said
  <2>3. ASSUME NEW i \in 1..Len(called'), called'[i].verdict = x PROVE Said(x) \/ x = said
    <3>1. i \in 1..Len(called) \/ i = Len(called) + 1
      BY <1>3
    <3>2. QED
      BY <1>2, <1>3, <2>3, <3>1 DEF Said
  <2>4. QED
    BY <2>1, <2>2, <2>3 DEF Said
<1>5. QED
  BY <1>2, <1>3, <1>4 DEF said

LEMMA FilterStep ==
  ASSUME IInv, [Next]_vars
  PROVE  FilterInv'
<1> USE ThreadsAssumption DEF Threads, Goto, Hold
<1>1. /\ pc \in [Threads -> {"idle", "get", "walk", "release", "return", "register", "insert",
                         "unregister", "remove", "free", "done"}]
      /\ cursor \in [Threads -> Entries \cup {ListHead}]
      /\ Len(hookList) \in Nat /\ Len(called) \in Nat /\ Filter \in Threads
      /\ pc[Filter] \in {"idle", "walk", "release", "return"}
  BY DEF IInv, TypeOK
<1>2. CASE FilterAcquire
  <2>1. called' = <<>> /\ hookList' = hookList /\ Len(called') = 0
    BY <1>2 DEF FilterAcquire, passVars, IInv, FilterInv
  <2>2. pc'[Filter] = "walk" /\ cursor'[Filter] = EntryAt(1)
    BY <1>1, <1>2, FirstEntry DEF FilterAcquire, IInv
  <2>3. QED
    BY <1>1, <2>1, <2>2 DEF FilterInv, EntryAt
<1>3. CASE FilterRelease
  <2>1. pc'[Filter] = "return" /\ cursor'[Filter] = ListHead
    BY <1>1, <1>3 DEF FilterRelease, IInv, FilterInv
  <2>2. QED
    BY <2>1 DEF FilterInv
<1>4. CASE FilterReturn
  <2>1. pc'[Filter] = "idle" /\ cursor'[Filter] = ListHead /\ called' = <<>>
    BY <1>1, <1>4 DEF FilterReturn, IInv, FilterInv
  <2>2. QED
    BY <2>1 DEF FilterInv
<1>5. ASSUME NEW action \in Actions, NEW tooLong \in BOOLEAN, HookReturns(action, tooLong)
      PROVE  FilterInv'
  <2>1. /\ hookList' = hookList /\ pc[Filter] = "walk"
        /\ \/ pc'[Filter] = "release" /\ cursor'[Filter] = ListHead
           \/ pc'[Filter] = "walk" /\ cursor'[Filter] = Following(cursor[Filter])
    BY <1>1, <1>5 DEF HookReturns
  <2>2. /\ Len(called) + 1 \in 1..Len(hookList)
        /\ cursor[Filter] = hookList[Len(called) + 1]
        /\ Following(cursor[Filter]) = EntryAt(Len(called) + 2)
    BY <1>5, FilterCursor DEF HookReturns, IInv, MemInv
  <2>3. /\ Len(called') = Len(called) + 1
        /\ \A i \in 1..Len(called) : called'[i] = called[i]
        /\ called'[Len(called) + 1].entry = cursor[Filter]
    BY <1>5, CalledGrows
  <2>4. Len(called') <= Len(hookList)
    BY <1>1, <2>2, <2>3
  <2>5. \A i \in 1..Len(called') : called'[i].entry = hookList[i]
    BY <1>1, <2>1, <2>2, <2>3 DEF IInv, FilterInv
  <2>6. EntryAt(Len(called) + 2) = EntryAt(Len(called) + 1 + 1)
    BY <1>1
  <2>7. QED
    BY <2>1, <2>2, <2>3, <2>4, <2>5, <2>6 DEF FilterInv, EntryAt
<1>6. CASE pc'[Filter] = pc[Filter] /\ cursor'[Filter] = cursor[Filter] /\ UNCHANGED passVars
  <2>1. pc[Filter] \in {"walk", "release"} => hookList' = hookList
    BY ListStays
  <2>2. QED
    BY <1>6, <2>1 DEF IInv, FilterInv, passVars, EntryAt
<1>7. QED
  BY <1>2, <1>3, <1>4, <1>5, <1>6, FilterFrame

LEMMA VerdictStep ==
  ASSUME IInv, [Next]_vars
  PROVE  VerdictInv'
<1> USE ThreadsAssumption DEF Threads, Goto, Hold
<1>1. /\ pc \in [Threads -> {"idle", "get", "walk", "release", "return", "register", "insert",
                         "unregister", "remove", "free", "done"}]
      /\ result \in [accept : BOOLEAN, modified : BOOLEAN]
      /\ Filter \in Threads
      /\ pc[Filter] \in {"idle", "walk", "release", "return"}
  BY DEF IInv, TypeOK
<1>2. CASE FilterAcquire
  <2>1. called' = <<>> /\ result' = Accepted /\ pc'[Filter] = "walk"
    BY <1>1, <1>2 DEF FilterAcquire, passVars, IInv, FilterInv, VerdictInv
  <2>2. \A x : ~Said(x)'
    BY <2>1 DEF Said
  <2>3. QED
    BY <2>1, <2>2 DEF VerdictInv, Accepted
<1>3. CASE FilterRelease
  <2>1. /\ pc'[Filter] = "return" /\ called' = called /\ pc[Filter] \in {"walk", "release"}
        /\ result' = [result EXCEPT !.accept = @ \/ result.modified]
    BY <1>1, <1>3 DEF FilterRelease
  <2>2. result'.accept = (result.accept \/ result.modified) /\ result'.modified = result.modified
    BY <1>1, <2>1
  <2>3. \A x : Said(x)' <=> Said(x)
    BY <2>1 DEF Said
  <2>4. QED
    BY <2>1, <2>2, <2>3 DEF IInv, VerdictInv
<1>4. CASE FilterReturn
  BY <1>1, <1>4 DEF FilterReturn, VerdictInv
<1>5. ASSUME NEW action \in Actions, NEW tooLong \in BOOLEAN, HookReturns(action, tooLong)
      PROVE  VerdictInv'
  <2>1. /\ pc[Filter] = "walk" /\ result' = Verdict(action, tooLong)
        /\ \/ pc'[Filter] = "release"
           \/ pc'[Filter] = "walk" /\ ~tooLong /\ action # "DROP"
    BY <1>1, <1>5 DEF HookReturns
  <2>2. \A x : Said(x)' <=> Said(x) \/ x = IF tooLong THEN "DROP" ELSE action
    BY <1>5, CalledGrows
  <2>3. ~Said("DROP") /\ result.accept /\ (result.modified <=> Said("MODIFIED"))
    BY <2>1 DEF IInv, VerdictInv
  <2>4. CASE tooLong \/ action = "DROP"
    <3>1. result'.accept = FALSE /\ result'.modified = FALSE
      BY <2>1, <2>4 DEF Verdict, Dropped
    <3>2. QED
      BY <2>1, <2>2, <2>4, <3>1 DEF VerdictInv
  <2>5. CASE ~tooLong /\ action # "DROP"
    <3>1. /\ result'.accept = (result.accept \/ action \in {"ACCEPT", "TRUNCATE"})
          /\ result'.modified = (result.modified \/ action = "MODIFIED")
      BY <2>1, <2>5 DEF Verdict
    <3>2. QED
      BY <2>1, <2>2, <2>3, <2>5, <3>1 DEF VerdictInv
  <2>6. QED
    BY <2>4, <2>5
<1>6. CASE pc'[Filter] = pc[Filter] /\ cursor'[Filter] = cursor[Filter] /\ UNCHANGED passVars
  BY <1>6 DEF IInv, VerdictInv, Said, passVars
<1>7. QED
  BY <1>2, <1>3, <1>4, <1>5, <1>6, FilterFrame

LEMMA ViewStep ==
  ASSUME IInv, [Next]_vars
  PROVE  ViewInv'
<1> DEFINE Inv(w) ==
      /\ pc[w] = "walk" =>
           /\ count[w] <= Len(hookList)
           /\ Len(buffer[w]) = IF count[w] < MaxCount THEN count[w] ELSE MaxCount
           /\ \A i \in 1..Len(buffer[w]) : buffer[w][i] = entry[hookList[i]]
      /\ pc[w] # "walk" => count[w] = 0 /\ buffer[w] = <<>>
      /\ cursor[w] = IF pc[w] = "walk" THEN EntryAt(count[w] + 1) ELSE ListHead
<1> SUFFICES ASSUME NEW v \in Viewers PROVE Inv(v)'
  BY DEF ViewInv
<1> USE ThreadsAssumption, CountAssumption DEF Threads, Goto, Hold
<1>1. /\ pc \in [Threads -> {"idle", "get", "walk", "release", "return", "register", "insert",
                         "unregister", "remove", "free", "done"}]
      /\ cursor \in [Threads -> Entries \cup {ListHead}]
      /\ buffer \in [Viewers -> Seq(Hook)] /\ count \in [Viewers -> Nat]
      /\ Len(hookList) \in Nat /\ v \in Threads /\ pc[v] \in {"idle", "get", "walk"}
  BY DEF IInv, TypeOK
<1>2. Inv(v)
  BY DEF IInv, ViewInv
<1>3. CASE GetHookInformation(v)
  BY <1>1, <1>2, <1>3 DEF GetHookInformation, viewVars
<1>4. CASE ViewAcquire(v)
  <2>1. /\ count'[v] = 0 /\ buffer'[v] = <<>> /\ hookList' = hookList
        /\ pc'[v] = "walk" /\ cursor'[v] = EntryAt(1)
    BY <1>1, <1>2, <1>4, FirstEntry DEF ViewAcquire, viewVars, IInv
  <2>2. QED
    BY <1>1, <2>1 DEF EntryAt
<1>5. CASE ViewEntry(v)
  <2>1. /\ hookList' = hookList /\ entry' = entry /\ pc[v] = "walk" /\ pc'[v] = "walk"
        /\ cursor'[v] = Following(cursor[v])
        /\ count'[v] = count[v] + 1
        /\ buffer'[v] = IF count[v] < MaxCount THEN Append(buffer[v], entry[cursor[v]])
                                               ELSE buffer[v]
    BY <1>1, <1>5 DEF ViewEntry
  <2>2. /\ count[v] + 1 \in 1..Len(hookList)
        /\ cursor[v] = hookList[count[v] + 1] /\ entry[cursor[v]] \in Hook
        /\ Following(cursor[v]) = EntryAt(count[v] + 2)
    BY <1>5, ViewCursor DEF ViewEntry, IInv, MemInv
  <2>3. buffer[v] \in Seq(Hook) /\ count[v] \in Nat
    BY <1>1
  <2>4. count'[v] + 1 = count[v] + 2 /\ count'[v] <= Len(hookList')
    BY <2>1, <2>2, <2>3
  <2>5. cursor'[v] = EntryAt(count[v] + 1)'
    BY <2>1, <2>2, <2>4 DEF EntryAt
  <2>6. CASE count[v] < MaxCount
    <3>1. /\ buffer'[v] = Append(buffer[v], entry[cursor[v]])
          /\ Len(buffer[v]) = count[v]
      BY <1>2, <2>1, <2>6
    <3>2. /\ Len(buffer'[v]) = count[v] + 1
          /\ \A i \in 1..count[v] : buffer'[v][i] = buffer[v][i]
          /\ buffer'[v][count[v] + 1] = entry[cursor[v]]
      BY <2>2, <2>3, <3>1, AppendProperties
    <3>3. ASSUME NEW i \in 1..Len(buffer'[v]) PROVE buffer'[v][i] = entry'[hookList'[i]]
      <4>1. i \in 1..count[v] \/ i = count[v] + 1
        BY <2>3, <3>2
      <4>2. QED
        BY <1>2, <2>1, <2>2, <3>1, <3>2, <4>1
    <3>4. Len(buffer'[v]) = IF count'[v] < MaxCount THEN count'[v] ELSE MaxCount
      BY <2>1, <2>3, <2>6, <3>2
    <3>5. QED
      BY <2>1, <2>4, <2>5, <3>3, <3>4
  <2>7. CASE count[v] >= MaxCount
    <3>1. buffer'[v] = buffer[v] /\ Len(buffer[v]) = MaxCount /\ ~(count'[v] < MaxCount)
      BY <1>2, <2>1, <2>3, <2>7
    <3>2. \A i \in 1..Len(buffer'[v]) : buffer'[v][i] = entry'[hookList'[i]]
      BY <1>2, <2>1, <3>1
    <3>3. QED
      BY <2>1, <2>4, <2>5, <3>1, <3>2
  <2>8. QED
    BY <2>3, <2>6, <2>7
<1>6. CASE ViewRelease(v)
  <2>1. pc'[v] = "idle" /\ cursor'[v] = ListHead /\ count'[v] = 0 /\ buffer'[v] = <<>>
    BY <1>1, <1>6 DEF ViewRelease
  <2>2. QED
    BY <2>1
<1>7. CASE /\ pc'[v] = pc[v] /\ cursor'[v] = cursor[v]
           /\ buffer'[v] = buffer[v] /\ count'[v] = count[v]
  <2>1. CASE pc[v] = "walk"
    <3>1. hookList' = hookList
      BY <2>1, ListStays
    <3>2. Len(buffer[v]) <= Len(hookList) /\ Len(buffer[v]) \in Nat
      BY <1>1, <1>2, <2>1
    <3>3. \A i \in 1..Len(buffer[v]) : entry'[hookList[i]] = entry[hookList[i]]
      BY <1>1, <3>2, ListedKept
    <3>4. QED
      BY <1>2, <1>7, <2>1, <3>1, <3>3 DEF EntryAt
  <2>2. CASE pc[v] # "walk"
    BY <1>2, <1>7, <2>2
  <2>3. QED
    BY <2>1, <2>2
<1>8. QED
  BY <1>3, <1>4, <1>5, <1>6, <1>7, ViewFrame

-----------------------------------------------------------------------------
(* The invariant.                                                          *)

LEMMA InitStep == Init => IInv
<1> SUFFICES ASSUME Init PROVE IInv
  OBVIOUS
<1> USE ThreadsAssumption, EntriesAssumption DEF Init, Threads, Owners, Walkers
<1>1. Len(hookList) = 0 /\ Len(called) = 0
  OBVIOUS
<1>2. TypeOK
  BY DEF TypeOK, Accepted
<1>3. LockInv
  BY DEF LockInv
<1>4. HandInv /\ OwnInv /\ RefusedInv /\ AllocInv
  BY DEF HandInv, OwnInv, RefusedInv, AllocInv
<1>5. ListInv /\ OrderInv
  BY <1>1 DEF ListInv, Distinct, OrderInv
<1>6. FilterInv /\ ViewInv
  BY DEF FilterInv, ViewInv
<1>7. VerdictInv
  BY <1>1 DEF VerdictInv
<1>8. QED
  BY <1>2, <1>3, <1>4, <1>5, <1>6, <1>7 DEF IInv, MemInv

\* What the invariant says of the lock, the blocks, the order of the list and the
\* packet holds in every reachable state.
THEOREM InductiveInvariant == Spec => []IInv
<1>1. IInv /\ [Next]_vars => IInv'
  <2> SUFFICES ASSUME IInv, [Next]_vars PROVE IInv'
    OBVIOUS
  <2>1. LockInv'
    BY LockStep DEF IInv
  <2>2. QED
    BY <2>1, TypeStep, MemStep, OrderStep, FilterStep, ViewStep, VerdictStep DEF IInv
<1>2. QED
  BY InitStep, <1>1, PTL DEF Spec

-----------------------------------------------------------------------------
\* Type correctness, for any hooks, entries and threads.
THEOREM TypeCorrect == Spec => []TypeOK
<1>1. IInv => TypeOK
  BY DEF IInv
<1>2. QED
  BY InductiveInvariant, <1>1, PTL

\* RegisterHook may stop its search for a duplicate at the first entry of lower
\* priority: the list is sorted and has no hook twice, whatever was registered
\* and unregistered before.
THEOREM ListIsOrdered == Spec => []ListOrdered
<1>1. ASSUME IInv PROVE ListOrdered
  <2>1. DOMAIN hookList = 1..Len(hookList)
    BY <1>1 DEF IInv, TypeOK
  <2>2. QED
    BY <1>1, <2>1 DEF IInv, OrderInv, ListOrdered
<1>2. QED
  BY InductiveInvariant, <1>1, PTL

\* No entry is used after it is freed, and none is lost but that of a refused
\* registration (hook_manager.c:112).
THEOREM EntriesAreAccounted == Spec => []EntriesAccounted
<1>1. ASSUME IInv PROVE EntriesAccounted
  <2> DEFINE inHand == {cursor[t] : t \in Threads} \ {ListHead}
  <2>1. DOMAIN hookList = 1..Len(hookList) /\ hookList \in Seq(Entries)
    BY <1>1 DEF IInv, TypeOK
  <2>2. \A x : x \in Listed <=> IsListed(x)
    BY <2>1 DEF Listed, IsListed, Has
  <2>3. ASSUME NEW e \in Entries, entry[e] # Free PROVE e \in Listed \cup inHand \cup refused
    <3>1. \A t \in Owners : t \in Threads
      BY DEF Owners, Threads
    <3>2. e # ListHead
      BY EntriesAssumption
    <3>3. QED
      BY <1>1, <2>2, <2>3, <3>1, <3>2 DEF IInv, MemInv, AllocInv
  <2>4. ASSUME NEW e \in Listed PROVE e \in Entries /\ entry[e] # Free
    BY <1>1, <2>1, <2>2, <2>4 DEF IInv, MemInv, ListInv, IsListed, Has
  <2>5. ASSUME NEW t \in Threads, cursor[t] # ListHead
        PROVE  cursor[t] \in Entries /\ entry[cursor[t]] # Free
    <3>1. cursor[t] \in Entries
      BY <1>1, <2>5 DEF IInv, TypeOK
    <3>2. CASE t \in Owners
      BY <1>1, <2>5, <3>1, <3>2 DEF IInv, MemInv, OwnInv
    <3>3. CASE t = Filter
      <4>1. pc[Filter] = "walk"
        BY <1>1, <2>5, <3>3 DEF IInv, FilterInv
      <4>2. \E i \in 1..Len(hookList) : cursor[Filter] = hookList[i]
        BY <1>1, <2>5, <3>3, <4>1, FilterCursor DEF IInv, MemInv
      <4>3. QED
        BY <1>1, <3>1, <3>3, <4>2 DEF IInv, MemInv, ListInv
    <3>4. CASE t \in Viewers
      <4>1. pc[t] = "walk"
        BY <1>1, <2>5, <3>4 DEF IInv, ViewInv
      <4>2. \E i \in 1..Len(hookList) : cursor[t] = hookList[i]
        BY <1>1, <2>5, <3>4, <4>1, ViewCursor DEF IInv, MemInv
      <4>3. QED
        BY <1>1, <3>1, <4>2 DEF IInv, MemInv, ListInv
    <3>5. QED
      BY <3>2, <3>3, <3>4 DEF Threads, Owners
  <2>6. ASSUME NEW e \in refused PROVE e \in Entries /\ entry[e] # Free
    BY <1>1, <2>6 DEF IInv, TypeOK, MemInv, RefusedInv
  <2>7. QED
    BY <2>3, <2>4, <2>5, <2>6 DEF EntriesAccounted
<1>2. QED
  BY InductiveInvariant, <1>1, PTL

\* FilterEthernetPacket and GetHookInformation walk one list from the lock to
\* the release, whoever waits to change it.
THEOREM WalkersAreSafe == Spec => []WalkersSeeOneList
<1>1. ASSUME IInv PROVE WalkersSeeOneList
  <2>1. /\ DOMAIN called = 1..Len(called) /\ Len(called) \in Nat
        /\ Len(hookList) \in Nat
        /\ \A v \in Viewers : DOMAIN buffer[v] = 1..Len(buffer[v]) /\ count[v] \in Nat
    BY <1>1 DEF IInv, TypeOK
  <2>2. ASSUME NEW n \in Nat
        PROVE  EntryAt(n + 1) = IF n < Len(hookList) THEN hookList[n + 1] ELSE ListHead
    BY <2>1 DEF EntryAt
  <2>3. ASSUME pc[Filter] = "walk"
        PROVE  /\ \A i \in DOMAIN called : called[i].entry = hookList[i]
               /\ cursor[Filter] =
                    IF Len(called) < Len(hookList) THEN hookList[Len(called) + 1] ELSE ListHead
    BY <1>1, <2>1, <2>2, <2>3 DEF IInv, FilterInv
  <2>4. ASSUME NEW v \in Viewers, pc[v] = "walk"
        PROVE  /\ cursor[v] = IF count[v] < Len(hookList) THEN hookList[count[v] + 1] ELSE ListHead
               /\ Len(buffer[v]) = IF count[v] < MaxCount THEN count[v] ELSE MaxCount
               /\ \A i \in DOMAIN buffer[v] : buffer[v][i] = entry[hookList[i]]
    BY <1>1, <2>1, <2>2, <2>4 DEF IInv, ViewInv
  <2>5. QED
    BY <2>3, <2>4 DEF WalkersSeeOneList
<1>2. QED
  BY InductiveInvariant, <1>1, PTL

\* The verdict FilterEthernetPacket returns is what all hooks called say together.
THEOREM VerdictIsOfAll == Spec => []VerdictOfAll
<1>1. ASSUME IInv PROVE VerdictOfAll
  <2> DEFINE verdicts == {called[i].verdict : i \in DOMAIN called}
  <2>1. DOMAIN called = 1..Len(called)
    BY <1>1 DEF IInv, TypeOK
  <2>2. \A x : x \in verdicts <=> Said(x)
    BY <2>1 DEF Said
  <2>3. QED
    BY <1>1, <2>2 DEF IInv, VerdictInv, VerdictOfAll
<1>2. QED
  BY InductiveInvariant, <1>1, PTL

-----------------------------------------------------------------------------
(* The refinement of the chain.                                            *)

\* The variables of the chain.
Hooks == [i \in 1..Len(hookList) |-> entry[hookList[i]]]
InPass == pc[Filter] \in {"walk", "release"}
Pending == IF InPass
           THEN [i \in 1..Len(hookList)-Len(called) |-> entry[hookList[Len(called) + i]]]
           ELSE <<>>
Decided == pc[Filter] = "release"

\* Sequences of the same elements in the same places are equal.
LEMMA SameSequence ==
  ASSUME NEW S, NEW s \in Seq(S), NEW t \in Seq(S), Len(s) = Len(t),
         \A i \in 1..Len(s) : s[i] = t[i]
  PROVE  s = t
OBVIOUS

\* The chain is a sequence of hooks, also after a step.
LEMMA HooksInOrder ==
  ASSUME IInv
  PROVE  /\ Hooks \in Seq(Hook) /\ Len(Hooks) = Len(hookList) /\ Len(hookList) \in Nat
         /\ \A i \in 1..Len(hookList) : Hooks[i] = entry[hookList[i]] /\ Hooks[i] \in Hook
<1>1. Len(hookList) \in Nat
  BY DEF IInv, TypeOK
<1>2. \A i \in 1..Len(hookList) : entry[hookList[i]] \in Hook
  BY ListedHooks
<1>3. QED
  BY <1>1, <1>2 DEF Hooks

LEMMA HooksInOrderAfter ==
  ASSUME IInv'
  PROVE  /\ Hooks' \in Seq(Hook) /\ Len(Hooks') = Len(hookList') /\ Len(hookList') \in Nat
         /\ \A i \in 1..Len(hookList') : Hooks'[i] = entry'[hookList'[i]] /\ Hooks'[i] \in Hook
<1>1. Len(hookList') \in Nat
  BY DEF IInv, TypeOK
<1>2. \A i \in 1..Len(hookList') : entry'[hookList'[i]] \in Hook
  BY DEF IInv, TypeOK, MemInv, ListInv
<1>3. QED
  BY <1>1, <1>2 DEF Hooks

\* The chain stays when the list and what it lists do.
LEMMA HooksKept ==
  ASSUME IInv, [Next]_vars, hookList' = hookList
  PROVE  Hooks' = Hooks
<1>1. \A i \in 1..Len(hookList) : entry'[hookList[i]] = entry[hookList[i]]
  BY ListedKept
<1>2. QED
  BY <1>1 DEF Hooks

\* A hook goes behind those of no lower priority, and was not in the chain.
LEMMA ChainRegister ==
  ASSUME IInv, IInv', [Next]_vars, NEW c \in Clients, RegisterInsert(c)
  PROVE  \E h \in Hook :
           /\ \A i \in 1..Len(Hooks) : Hooks[i] # h
           /\ \E n \in 1..Len(Hooks)+1 :
                /\ \A i \in 1..n-1 : Hooks[i].priority >= h.priority
                /\ \A i \in n..Len(Hooks) : Hooks[i].priority < h.priority
                /\ Hooks' = SubSeq(Hooks, 1, n-1) \o <<h>> \o SubSeq(Hooks, n, Len(Hooks))
<1> DEFINE h == request[c]
           e == cursor[c]
<1>1. h \in Hook /\ e \in Entries /\ entry[e] = h /\ entry' = entry
  BY InsertPosition
<1>2. h.priority \in Nat
  BY InsertPosition
<1>3. PICK pos \in 1..Len(hookList)+1 :
        /\ hookList' = InsertAt(hookList, pos, e)
        /\ \A i \in 1..pos-1 : entry[hookList[i]].priority >= h.priority /\ entry[hookList[i]] # h
        /\ \A i \in pos..Len(hookList) : h.priority > entry[hookList[i]].priority
  BY InsertPosition
<1> HIDE DEF h, e
<1>4. hookList \in Seq(Entries) /\ Len(hookList) \in Nat /\ pos \in Nat
  BY DEF IInv, TypeOK
<1>5. /\ Hooks \in Seq(Hook) /\ Len(Hooks) = Len(hookList)
      /\ \A i \in 1..Len(hookList) : Hooks[i] = entry[hookList[i]]
  BY HooksInOrder
<1>6. /\ Hooks' \in Seq(Hook) /\ Len(Hooks') = Len(hookList')
      /\ \A i \in 1..Len(hookList') : Hooks'[i] = entry[hookList'[i]]
  BY <1>1, HooksInOrderAfter
<1>7. ASSUME NEW i \in 1..Len(Hooks) PROVE Hooks[i] # h
  <2>1. i \in 1..pos-1 \/ i \in pos..Len(hookList)
    BY <1>4, <1>5
  <2>2. Hooks[i] = entry[hookList[i]] /\ entry[hookList[i]].priority \in Nat
    BY <1>5, ListedHooks
  <2>3. QED
    BY <1>2, <1>3, <2>1, <2>2
<1>8. \A i \in 1..pos-1 : Hooks[i].priority >= h.priority
  BY <1>3, <1>4, <1>5
<1>9. \A i \in pos..Len(Hooks) : Hooks[i].priority < h.priority
  <2>1. ASSUME NEW i \in pos..Len(Hooks) PROVE Hooks[i].priority < h.priority
    <3>1. i \in 1..Len(hookList) /\ Hooks[i] = entry[hookList[i]]
      BY <1>4, <1>5
    <3>2. entry[hookList[i]].priority \in Nat
      BY <3>1, ListedHooks
    <3>3. QED
      BY <1>2, <1>3, <1>5, <3>1, <3>2
  <2>2. QED
    BY <2>1
<1> DEFINE longer == InsertAt(Hooks, pos, h)
<1>10. Hooks' = longer
  <2>1. /\ longer \in Seq(Hook) /\ Len(longer) = Len(hookList) + 1
        /\ \A i \in 1..Len(hookList)+1 :
             longer[i] = IF i < pos THEN Hooks[i] ELSE IF i = pos THEN h ELSE Hooks[i-1]
    BY <1>1, <1>5, InsertAtProperties
  <2>2. /\ Len(hookList') = Len(hookList) + 1
        /\ \A i \in 1..Len(hookList)+1 :
             hookList'[i] = IF i < pos THEN hookList[i] ELSE IF i = pos THEN e ELSE hookList[i-1]
    BY <1>1, <1>3, <1>4, InsertAtProperties
  <2> HIDE DEF longer
  <2>3. ASSUME NEW i \in 1..Len(hookList)+1 PROVE Hooks'[i] = longer[i]
    <3>1. Hooks'[i] = entry[hookList'[i]]
      BY <1>6, <2>2
    <3>2. CASE i < pos
      <4>1. i \in 1..Len(hookList) /\ hookList'[i] = hookList[i] /\ longer[i] = Hooks[i]
        BY <1>4, <2>1, <2>2, <3>2
      <4>2. QED
        BY <1>5, <3>1, <4>1
    <3>3. CASE i = pos
      BY <1>1, <1>4, <2>1, <2>2, <3>1, <3>3
    <3>4. CASE i > pos
      <4>1. /\ i-1 \in 1..Len(hookList)
            /\ hookList'[i] = hookList[i-1] /\ longer[i] = Hooks[i-1]
        BY <1>4, <2>1, <2>2, <3>4
      <4>2. QED
        BY <1>5, <3>1, <4>1
    <3>5. QED
      BY <1>4, <3>2, <3>3, <3>4
  <2>4. Len(Hooks') = Len(longer) /\ Hooks' \in Seq(Hook) /\ longer \in Seq(Hook)
        /\ Len(Hooks') = Len(hookList) + 1
    BY <1>6, <2>1, <2>2
  <2>5. QED
    BY <2>3, <2>4, SameSequence
<1>11. longer = SubSeq(Hooks, 1, pos-1) \o <<h>> \o SubSeq(Hooks, pos, Len(Hooks))
  BY DEF InsertAt
<1>12. pos \in 1..Len(Hooks)+1
  BY <1>5
<1> HIDE DEF longer
<1>13. QED
  BY <1>1, <1>7, <1>8, <1>9, <1>10, <1>11, <1>12

\* The other hooks keep their places when one is removed.
LEMMA ChainUnregister ==
  ASSUME IInv, IInv', NEW t \in Owners, NEW pos \in 1..Len(hookList), Unlink(t, pos)
  PROVE  \E h \in Hook : \E n \in 1..Len(Hooks) :
           /\ Hooks[n] = h
           /\ Hooks' = SubSeq(Hooks, 1, n-1) \o SubSeq(Hooks, n+1, Len(Hooks))
<1>1. hookList' = RemoveAt(hookList, pos) /\ entry' = entry
  BY DEF Unlink
<1>2. hookList \in Seq(Entries) /\ Len(hookList) \in Nat /\ pos \in Nat
  BY DEF IInv, TypeOK
<1>3. /\ Hooks \in Seq(Hook) /\ Len(Hooks) = Len(hookList)
      /\ \A i \in 1..Len(hookList) : Hooks[i] = entry[hookList[i]] /\ Hooks[i] \in Hook
  BY HooksInOrder
<1>4. /\ Hooks' \in Seq(Hook) /\ Len(Hooks') = Len(hookList')
      /\ \A i \in 1..Len(hookList') : Hooks'[i] = entry[hookList'[i]]
  BY <1>1, HooksInOrderAfter
<1> DEFINE shorter == RemoveAt(Hooks, pos)
<1>5. Hooks' = shorter
  <2>1. Hooks \in Seq(Hook) /\ pos \in 1..Len(Hooks)
    BY <1>3
  <2>2. /\ shorter \in Seq(Hook) /\ Len(shorter) = Len(Hooks) - 1
        /\ \A i \in 1..Len(Hooks)-1 :
             shorter[i] = IF i < pos THEN Hooks[i] ELSE Hooks[i+1]
    BY <2>1, RemoveAtProperties
  <2> HIDE DEF shorter
  <2>3. /\ Len(hookList') = Len(hookList) - 1
        /\ \A i \in 1..Len(hookList)-1 :
             hookList'[i] = IF i < pos THEN hookList[i] ELSE hookList[i+1]
    BY <1>1, <1>2, RemoveAtProperties
  <2>4. ASSUME NEW i \in 1..Len(hookList)-1 PROVE Hooks'[i] = shorter[i]
    <3>1. Hooks'[i] = entry[hookList'[i]]
      BY <1>4, <2>3
    <3>2. shorter[i] = IF i < pos THEN Hooks[i] ELSE Hooks[i+1]
      BY <1>3, <2>2
    <3>3. i \in 1..Len(hookList) /\ i + 1 \in 1..Len(hookList)
      BY <1>2
    <3>4. Hooks[i] = entry[hookList[i]] /\ Hooks[i+1] = entry[hookList[i+1]]
      BY <1>3, <3>3
    <3>5. QED
      BY <2>3, <3>1, <3>2, <3>4
  <2>5. Len(Hooks') = Len(shorter) /\ Hooks' \in Seq(Hook) /\ shorter \in Seq(Hook)
        /\ Len(Hooks') = Len(hookList) - 1
    BY <1>3, <1>4, <2>2, <2>3
  <2>6. QED
    BY <2>4, <2>5, SameSequence
<1>6. shorter = SubSeq(Hooks, 1, pos-1) \o SubSeq(Hooks, pos+1, Len(Hooks))
  BY DEF RemoveAt
<1> HIDE DEF shorter
<1>7. QED
  BY <1>3, <1>5, <1>6

\* A packet is shown to the first hook that is left.
LEMMA ChainConsult ==
  ASSUME IInv, IInv', [Next]_vars,
         NEW action \in Actions, NEW tooLong \in BOOLEAN, HookReturns(action, tooLong)
  PROVE  /\ UNCHANGED <<Hooks, InPass>> /\ InPass /\ ~Decided
         /\ Pending # <<>> /\ Pending' = Tail(Pending)
<1> DEFINE k == Len(called)
           n == Len(hookList)
<1>1. /\ pc[Filter] = "walk" /\ pc'[Filter] \in {"walk", "release"}
      /\ hookList' = hookList /\ entry' = entry
  BY DEF HookReturns, Goto, IInv, TypeOK, Threads
<1>2. k + 1 \in 1..n /\ k \in Nat /\ n \in Nat /\ Len(called') = k + 1
  BY CalledGrows, FilterCursor DEF HookReturns, IInv, TypeOK, MemInv
<1>3. InPass /\ InPass' /\ ~Decided /\ Hooks' = Hooks
  BY <1>1, HooksKept DEF InPass, Decided
<1>4. Pending = [i \in 1..n-k |-> entry[hookList[k + i]]]
  BY <1>3 DEF Pending
<1>5. Pending' = [i \in 1..n-(k+1) |-> entry[hookList[k + 1 + i]]]
  BY <1>1, <1>2, <1>3 DEF Pending
<1> HIDE DEF k, n
<1>6. ASSUME NEW i \in 1..n-k PROVE entry[hookList[k + i]] \in Hook
  <2>1. k + i \in 1..n
    BY <1>2
  <2>2. QED
    BY <2>1, ListedHooks DEF n
<1>7. Pending \in Seq(Hook) /\ Len(Pending) = n - k /\ n - k \in Nat /\ n - k > 0
  BY <1>2, <1>4, <1>6
<1>8. /\ Tail(Pending) \in Seq(Hook) /\ Len(Tail(Pending)) = n - k - 1
      /\ \A i \in 1..n-k-1 : Tail(Pending)[i] = Pending[i+1]
  BY <1>7
<1>9. ASSUME NEW i \in 1..n-(k+1)
      PROVE  /\ Pending'[i] = entry[hookList[k + 1 + i]] /\ Pending[i+1] = Pending'[i]
             /\ Pending'[i] \in Hook
  <2>1. i + 1 \in 1..n-k /\ k + (i + 1) = k + 1 + i
    BY <1>2
  <2>2. QED
    BY <1>4, <1>5, <1>6, <2>1
<1>10. n - (k+1) = n - k - 1 /\ n - (k+1) \in Nat
  BY <1>2
<1>11. Pending' \in Seq(Hook) /\ Len(Pending') = n - (k+1)
  BY <1>5, <1>9, <1>10
<1>12. Pending' = Tail(Pending)
  BY <1>8, <1>9, <1>10, <1>11, SameSequence
<1>13. QED
  BY <1>3, <1>7, <1>12

\* HookManager, with its list, its lock and its walk, implements a chain of
\* hooks that changes between packets only and shows each packet to all hooks in
\* order of priority and, among equals, of registration, until one decides.
THEOREM Refinement == Spec => ChainSpec
<1>1. Init => Chain!Init
  BY ThreadsAssumption DEF Init, Chain!Init, Threads
<1>2. IInv /\ IInv' /\ [Next]_vars => [Chain!Next]_Chain!vars
  <2> SUFFICES ASSUME IInv, IInv', [Next]_vars
               PROVE  [Chain!Next]_Chain!vars
    OBVIOUS
  <2>1. /\ pc \in [Threads -> {"idle", "get", "walk", "release", "return", "register", "insert",
                         "unregister", "remove", "free", "done"}]
        /\ Filter \in Threads /\ Len(called) \in Nat /\ Len(hookList) \in Nat
    BY DEF IInv, TypeOK, Threads
  <2>2. CASE pc'[Filter] = pc[Filter] /\ cursor'[Filter] = cursor[Filter] /\ UNCHANGED passVars
    <3>1. UNCHANGED <<InPass, Decided>>
      BY <2>2 DEF InPass, Decided
    <3>2. readers = {} => ~InPass
      BY DEF InPass, IInv, LockInv
    <3>3. CASE hookList' = hookList
      <4>1. Hooks' = Hooks
        BY <3>3, HooksKept
      <4>2. Pending' = Pending
        <5>1. \A i \in 1..Len(hookList)-Len(called) : Len(called) + i \in 1..Len(hookList)
          BY <2>1
        <5>2. \A i \in 1..Len(hookList)-Len(called) :
                entry'[hookList[Len(called) + i]] = entry[hookList[Len(called) + i]]
          BY <5>1, ListedKept
        <5>3. called' = called
          BY <2>2 DEF passVars
        <5>4. QED
          BY <3>1, <3>3, <5>2, <5>3 DEF Pending
      <4>3. QED
        BY <3>1, <4>1, <4>2 DEF Chain!vars, Hooks, InPass, Pending, Decided
    <3>4. ASSUME readers = {}, NEW c \in Clients, RegisterInsert(c)
          PROVE  Chain!Next
      <4>1. PICK h \in Hook :
              /\ \A i \in 1..Len(Hooks) : Hooks[i] # h
              /\ \E n \in 1..Len(Hooks)+1 :
                   /\ \A i \in 1..n-1 : Hooks[i].priority >= h.priority
                   /\ \A i \in n..Len(Hooks) : Hooks[i].priority < h.priority
                   /\ Hooks' = SubSeq(Hooks, 1, n-1) \o <<h>> \o SubSeq(Hooks, n, Len(Hooks))
        BY <3>4, ChainRegister
      <4>2. ~InPass /\ Pending' = Pending
        BY <3>1, <3>2, <3>4 DEF Pending
      <4>3. Chain!Register(h)
        BY <3>1, <4>1, <4>2
        DEF Chain!Register, Chain!Belongs, Chain!passVars, Hooks, InPass, Pending, Decided
      <4>4. QED
        BY <4>3 DEF Chain!Next
    <3>5. ASSUME readers = {}, NEW t \in Owners, NEW pos \in 1..Len(hookList), Unlink(t, pos)
          PROVE  Chain!Next
      <4>1. PICK h \in Hook : \E n \in 1..Len(Hooks) :
              /\ Hooks[n] = h
              /\ Hooks' = SubSeq(Hooks, 1, n-1) \o SubSeq(Hooks, n+1, Len(Hooks))
        BY <3>5, ChainUnregister
      <4>2. ~InPass /\ Pending' = Pending
        BY <3>1, <3>2, <3>5 DEF Pending
      <4>3. Chain!Unregister(h)
        BY <3>1, <4>1, <4>2
        DEF Chain!Unregister, Chain!passVars, Hooks, InPass, Pending, Decided
      <4>4. QED
        BY <4>3 DEF Chain!Next
    <3>6. QED
      BY <3>3, <3>4, <3>5, ListChanges
  <2>3. CASE FilterAcquire
    <3>1. /\ pc[Filter] = "idle" /\ pc'[Filter] = "walk"
          /\ hookList' = hookList /\ entry' = entry /\ called' = called /\ called = <<>>
      BY <2>1, <2>3 DEF FilterAcquire, Goto, passVars, IInv, FilterInv
    <3>2. Hooks' = Hooks
      BY <3>1, HooksKept
    <3>3. ~InPass /\ InPass' /\ ~Decided /\ ~Decided'
      BY <3>1 DEF InPass, Decided
    <3>4. Pending' = Hooks
      <4>1. Pending' = [i \in 1..Len(hookList)-0 |-> entry[hookList[0 + i]]]
        BY <3>1, <3>3 DEF Pending
      <4>2. Len(hookList)-0 = Len(hookList) /\ \A i \in 1..Len(hookList) : 0 + i = i
        BY <2>1
      <4>3. QED
        BY <4>1, <4>2 DEF Hooks
    <3>5. Chain!BeginPass
      BY <3>2, <3>3, <3>4 DEF Chain!BeginPass, Hooks, InPass, Pending, Decided
    <3>6. QED
      BY <3>5 DEF Chain!Next
  <2>4. CASE FilterRelease
    <3>1. /\ pc[Filter] \in {"walk", "release"} /\ pc'[Filter] = "return"
          /\ hookList' = hookList
          /\ pc[Filter] = "release" \/ cursor[Filter] = ListHead
      BY <2>1, <2>4 DEF FilterRelease, Goto
    <3>2. Hooks' = Hooks
      BY <3>1, HooksKept
    <3>3. InPass /\ ~InPass' /\ ~Decided' /\ Pending' = <<>>
      BY <3>1 DEF InPass, Decided, Pending
    <3>4. ASSUME ~Decided PROVE Pending = <<>>
      <4>1. pc[Filter] = "walk" /\ cursor[Filter] = EntryAt(Len(called) + 1)
            /\ cursor[Filter] = ListHead
        BY <3>1, <3>4 DEF Decided, IInv, FilterInv
      <4>2. ~(Len(called) + 1 <= Len(hookList))
        BY <2>1, <4>1, EntryAtType DEF IInv
      <4>3. Len(hookList)-Len(called) = 0
        BY <2>1, <3>1, <4>2 DEF IInv, FilterInv
      <4>4. Pending = [i \in 1..0 |-> entry[hookList[Len(called) + i]]]
        BY <3>3, <4>3 DEF Pending
      <4>5. \A i \in 1..0 : entry[hookList[Len(called) + i]] \in Hook
        OBVIOUS
      <4>6. Pending \in Seq(Hook) /\ Len(Pending) = 0
        BY <4>4, <4>5
      <4>7. QED
        BY <4>6
    <3>5. Chain!EndPass
      BY <3>2, <3>3, <3>4 DEF Chain!EndPass, Hooks, InPass, Pending, Decided
    <3>6. QED
      BY <3>5 DEF Chain!Next
  <2>5. CASE FilterReturn
    <3>1. pc[Filter] = "return" /\ pc'[Filter] = "idle" /\ hookList' = hookList
      BY <2>1, <2>5 DEF FilterReturn, Goto
    <3>2. Hooks' = Hooks
      BY <3>1, HooksKept
    <3>3. UNCHANGED <<InPass, Decided, Pending>>
      BY <3>1 DEF InPass, Decided, Pending
    <3>4. QED
      BY <3>2, <3>3 DEF Chain!vars, Hooks, InPass, Pending, Decided
  <2>6. ASSUME NEW action \in Actions, NEW tooLong \in BOOLEAN, HookReturns(action, tooLong)
        PROVE  Chain!Next
    <3>1. UNCHANGED <<Hooks, InPass>> /\ InPass /\ ~Decided
      BY <2>6, ChainConsult
    <3>2. Pending # <<>> /\ Pending' = Tail(Pending)
      BY <2>6, ChainConsult
    <3>3. Decided' \in BOOLEAN
      BY DEF Decided
    <3>4. Chain!Consult
      BY <3>1, <3>2, <3>3 DEF Chain!Consult, Hooks, InPass, Pending, Decided
    <3>5. QED
      BY <3>4 DEF Chain!Next
  <2>7. QED
    BY <2>2, <2>3, <2>4, <2>5, <2>6, FilterFrame
<1>3. QED
  BY <1>1, <1>2, InductiveInvariant, PTL DEF Spec, ChainSpec, Chain!Spec
=============================================================================
