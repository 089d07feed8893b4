------------------------ MODULE RoutingEngineProofs ------------------------
(***************************************************************************)
(* Memory safety, filtering and reclamation of the routing engine, and its *)
(* refinement of PacketLanes, for any set of tasks and any number of       *)
(* changes of the forwarding mode, with filter modules around it or not.   *)
(***************************************************************************)
EXTENDS FilterModules, SequenceTheorems, TLAPS

-----------------------------------------------------------------------------
(* The inductive invariant.  It says of every place a task can be at what  *)
(* is known of the task there; a task at one place is at no other.         *)

NotHanded(t) == \A p \in Exits : \A i \in 1..Len(handed[p]) : handed[p][i] # t

\* Not created yet: nothing points to it.
FreshInv ==
  \A t \in fresh :
    /\ t \notin taskMem /\ t \notin bufferMem /\ nbl[t] = "none"
    /\ path[t] = <<>> /\ NotHanded(t)
    /\ \A e \in Entries : t \notin packet[e]

\* Only the handler has the buffer.
PacketInv ==
  \A e \in Entries : \A t \in packet[e] :
    /\ t \notin taskMem /\ t \in bufferMem /\ nbl[t] = "none"
    /\ path[t] = <<>> /\ NotHanded(t)
    /\ \A d \in Entries : t \in packet[d] => d = e
    /\ engine = "running"

\* The path of a task FORWARDING or OUTPUT leaves to RoutingDecisionThread.
Undecided(t) ==
  \/ path[t] = <<"PREROUTING", "FORWARDING">>
  \/ path[t] = <<"OUTPUT">> /\ isModified[t]

\* The path of a task that is queued for p or filtered at p.
Reaches(t, p) ==
  /\ p \in Entries => path[t] = <<>>
  /\ p \in {"INPUT", "FORWARDING"} => path[t] = <<"PREROUTING">>
  /\ p = "POSTROUTING" => path[t] = <<"OUTPUT">>
  /\ p = "RTDECISION" => Undecided(t)

\* The path of a task that p has accepted.
Passed(t, p) ==
  /\ p \in Entries => path[t] = <<p>>
  /\ p \in {"INPUT", "FORWARDING"} => path[t] = <<"PREROUTING", p>>
  /\ p = "POSTROUTING" => path[t] = <<"OUTPUT", p>>

\* What holds of a task queued for p.
WellQueued(p, t) ==
  /\ t \in taskMem /\ t \in bufferMem /\ nbl[t] = "none"
  /\ Reaches(t, p) /\ NotHanded(t)

QueueInv ==
  \A p \in Procs : \A i \in 1..Len(queue[p]) : \A t \in Tasks :
    queue[p][i] = t => WellQueued(p, t)

\* What holds of the task thread p works on.
WellHeld(p, t) ==
  /\ p # "RTDECISION" /\ t \in taskMem
  /\ thread[p] = "filter" => Reaches(t, p)
  /\ thread[p] # "filter" => Passed(t, p)
  /\ thread[p] # "release" => t \in bufferMem /\ NotHanded(t)
  /\ thread[p] \in {"filter", "accepted", "lookup", "forward", "disable"} => nbl[t] = "none"
  /\ thread[p] \in {"mdl", "hand over"} => nbl[t] # "ndis"
  /\ thread[p] = "release" /\ t \in bufferMem => nbl[t] = "ndis"
  /\ thread[p] \in {"mdl", "hand over", "release"} => p \in Exits
  /\ thread[p] \in {"lookup", "forward", "disable"} => p = "PREROUTING"

HeldInv == \A p \in Procs : \A t \in Tasks : task[p] = t => WellHeld(p, t)

\* No task is at two of these places.
AloneInv ==
  /\ \A p, q \in Procs : task[p] = task[q] /\ task[p] # NULL => p = q
  /\ \A p, q \in Procs : \A i \in 1..Len(queue[p]) : task[q] # queue[p][i]
  /\ \A p, q \in Procs : \A i \in 1..Len(queue[p]) : \A j \in 1..Len(queue[q]) :
       queue[p][i] = queue[q][j] => p = q /\ i = j

NblInv == \A t \in Tasks : nbl[t] # "none" => t \in bufferMem

\* With at most one change of the mode PreroutingThread reads the same mode
\* twice once it is not SYSTEM.
ModeInv ==
  /\ modeChanges = 0 => ipForwardingMode = "SYSTEM"
  /\ thread["PREROUTING"] \in {"lookup", "forward", "disable"} => modeChanges > 0
  /\ modeChanges = 1 /\ thread["PREROUTING"] \in {"lookup", "forward"}
       => ipForwardingMode # "SYSTEM"
  /\ modeChanges = 1 /\ thread["PREROUTING"] = "disable" => ipForwardingMode = "DISABLE"

HandedInv ==
  \A p \in Exits : \A i \in 1..Len(handed[p]) : \A t \in Tasks :
    handed[p][i] = t =>
      path[t] = IF p = "INPUT" THEN <<"PREROUTING", "INPUT">> ELSE <<"OUTPUT", "POSTROUTING">>

Owned(t) ==
  \/ \E p \in Procs : task[p] = t
  \/ \E p \in Procs : \E i \in 1..Len(queue[p]) : queue[p][i] = t

\* A task that nobody has a pointer to was forgotten.
MayForget(t) ==
  Undecided(t) \/ (path[t] = <<"PREROUTING">> /\ modeChanges > 1)

ForgottenInv == \A t \in Tasks : t \in taskMem => Owned(t) \/ MayForget(t)

\* Somebody is going to free a packet buffer, or its task was forgotten.
BufferOwned(t) == t \in taskMem \/ nbl[t] = "ndis" \/ \E e \in Entries : t \in packet[e]

BufferInv == \A t \in Tasks : t \in bufferMem => BufferOwned(t)

StopInv ==
  engine = "done" => \A p \in Procs : thread[p] = "exit" /\ queue[p] = <<>>

IInv ==
  /\ TypeOK
  /\ FreshInv /\ PacketInv /\ QueueInv /\ HeldInv /\ AloneInv /\ NblInv
  /\ HandedInv /\ ModeInv /\ ForgottenInv /\ BufferInv /\ StopInv

-----------------------------------------------------------------------------
(* Facts about sequences, item by item.                                    *)

\* What Append adds and what it keeps.
LEMMA AppendItems ==
  ASSUME NEW S, NEW s \in Seq(S), NEW x \in S
  PROVE  /\ Append(s, x) \in Seq(S)
         /\ Len(Append(s, x)) = Len(s) + 1
         /\ \A i \in 1..Len(s) : Append(s, x)[i] = s[i]
         /\ Append(s, x)[Len(s) + 1] = x
  BY AppendProperties

\* Append on the paths, which are tuples.
LEMMA AppendTuple ==
  ASSUME NEW a, NEW b
  PROVE  Append(<<>>, a) = <<a>> /\ Append(<<a>>, b) = <<a, b>>
<1> DEFINE s == Append(<<a>>, b)
<1> DEFINE u == <<a, b>>
<1>1. <<a>> \in Seq({a, b}) /\ Len(<<a>>) = 1 /\ <<a>>[1] = a
  OBVIOUS
<1>2. s \in Seq({a, b}) /\ Len(s) = 2 /\ s[1] = a /\ s[2] = b
  BY <1>1, AppendItems
<1>3. u \in Seq({a, b}) /\ Len(u) = 2 /\ u[1] = a /\ u[2] = b
  OBVIOUS
<1> HIDE DEF s, u
<1>4. \A i \in 1..Len(s) : s[i] = u[i]
  BY <1>2, <1>3
<1>5. s = u
  BY <1>2, <1>3, <1>4, SeqEqual
<1>6. Append(<<>>, a) = <<a>>
  OBVIOUS
<1>7. QED
  BY <1>5, <1>6 DEF s, u

\* What Tail leaves: the items one place further on.
LEMMA TailItems ==
  ASSUME NEW S, NEW s \in Seq(S), s # <<>>
  PROVE  /\ Tail(s) \in Seq(S) /\ Len(s) \in Nat /\ Len(s) > 0
         /\ Head(s) = s[1] /\ Head(s) \in S
         /\ Len(Tail(s)) = Len(s) - 1
         /\ \A i \in 1..Len(Tail(s)) : Tail(s)[i] = s[i + 1]
  BY EmptySeq, HeadTailProperties

\* The initial state satisfies the inductive invariant.
LEMMA InitIInv == Init => IInv
<1> SUFFICES ASSUME Init PROVE IInv
  OBVIOUS
<1> USE NullAssumption, BoundAssumption
    DEF Init, Procs, Entries, Exits, FilterPoints, Modes, Idle, Busy
<1>1. TypeOK
  <2>1. <<>> \in Seq(Tasks) /\ <<>> \in Seq(FilterPoints)
    OBVIOUS
  <2>2. QED
    BY <2>1 DEF TypeOK
<1>2. FreshInv /\ PacketInv
  BY DEF FreshInv, PacketInv, NotHanded
<1>3. QueueInv /\ HeldInv /\ AloneInv /\ NblInv
  BY DEF QueueInv, HeldInv, AloneInv, NblInv
<1>4. HandedInv /\ ModeInv /\ ForgottenInv /\ BufferInv /\ StopInv
  BY DEF HandedInv, ModeInv, ForgottenInv, BufferInv, StopInv
<1>5. QED
  BY <1>1, <1>2, <1>3, <1>4 DEF IInv

\* The step leaves alone what the invariant says of task u itself.
Same(u) ==
  /\ u \in taskMem' <=> u \in taskMem
  /\ u \in bufferMem' <=> u \in bufferMem
  /\ nbl'[u] = nbl[u] /\ path'[u] = path[u] /\ isModified'[u] = isModified[u]
  /\ NotHanded(u) => NotHanded(u)'

\* What holds of a task goes on holding while the step leaves it alone.
LEMMA SameTask ==
  ASSUME NEW u \in Tasks, NEW p \in Procs, Same(u)
  PROVE  /\ WellQueued(p, u) => WellQueued(p, u)'
         /\ WellHeld(p, u) /\ thread'[p] = thread[p] => WellHeld(p, u)'
         /\ Undecided(u) <=> Undecided(u)'
  BY DEF Same, WellQueued, WellHeld, Reaches, Passed, Undecided

\* What the inductive invariant says of the task thread p works on.
LEMMA HeldTask ==
  ASSUME IInv, NEW p \in Procs, NEW t \in Tasks, task[p] = t
  PROVE  /\ WellHeld(p, t)
         /\ t \notin fresh /\ \A e \in Entries : t \notin packet[e]
         /\ \A r \in Procs : task[r] = t => r = p
         /\ \A r \in Procs : \A i \in 1..Len(queue[r]) : queue[r][i] # t
<1>1. FreshInv /\ PacketInv /\ HeldInv /\ AloneInv
  BY DEF IInv
<1>2. WellHeld(p, t)
  BY <1>1 DEF HeldInv
<1>3. \A r \in Procs : task[r] = t => r = p
  BY <1>1, NullAssumption DEF AloneInv
<1>4. \A r \in Procs : \A i \in 1..Len(queue[r]) : queue[r][i] # t
  BY <1>1 DEF AloneInv
<1>5. t \notin fresh /\ \A e \in Entries : t \notin packet[e]
  BY <1>1, <1>2 DEF FreshInv, PacketInv, WellHeld
<1>6. QED
  BY <1>2, <1>3, <1>4, <1>5

\* The end of the loop's body.
LEMMA NextTaskEffect ==
  ASSUME TypeOK, NEW p \in Procs, NextTask(p)
  PROVE  /\ task' \in [Procs -> Tasks \cup {NULL}] /\ thread' \in [Procs -> Idle \cup Busy]
         /\ task'[p] = NULL /\ thread'[p] \in Idle
         /\ engine # "running" => thread'[p] = "exit"
         /\ \A r \in Procs : r # p => task'[r] = task[r] /\ thread'[r] = thread[r]
  BY DEF TypeOK, NextTask, Idle, threadFlag

\* A step in which thread p works on its task, frees it or forgets it, while
\* the queues, the handlers and the other threads stand still.
LEMMA WorkOnTask ==
  ASSUME IInv, TypeOK', NEW p \in Procs, NEW t \in Tasks, task[p] = t,
         \A u \in Tasks : u # t => Same(u),
         \A r \in Procs : r # p => task'[r] = task[r] /\ thread'[r] = thread[r],
         \/ task'[p] = t /\ WellHeld(p, t)'
         \/ task'[p] = NULL /\ (t \in taskMem' => MayForget(t)'),
         t \in bufferMem' => BufferOwned(t)',
         nbl'[t] # "none" => t \in bufferMem',
         HandedInv', ModeInv',
         UNCHANGED <<fresh, packet, queue, modeVars, engine>>
  PROVE  IInv'
<1>1. /\ TypeOK /\ FreshInv /\ PacketInv /\ QueueInv /\ HeldInv /\ AloneInv /\ NblInv
      /\ ForgottenInv /\ BufferInv /\ StopInv
  BY DEF IInv
<1>2. /\ WellHeld(p, t)
      /\ t \notin fresh /\ \A e \in Entries : t \notin packet[e]
      /\ \A r \in Procs : task[r] = t => r = p
      /\ \A r \in Procs : \A i \in 1..Len(queue[r]) : queue[r][i] # t
  BY HeldTask
<1>3. /\ \A e \in Entries : packet'[e] = packet[e] /\ packet[e] \in SUBSET Tasks
      /\ fresh \in SUBSET Tasks
      /\ modeChanges' = modeChanges
  BY <1>1 DEF TypeOK, modeVars
<1>4. FreshInv'
  BY <1>1, <1>2, <1>3 DEF FreshInv, Same
<1>5. PacketInv'
  BY <1>1, <1>2, <1>3 DEF PacketInv, Same
<1>6. QueueInv'
  BY <1>1, <1>2, SameTask DEF QueueInv
<1>7. HeldInv'
  <2> SUFFICES ASSUME NEW r \in Procs, NEW u \in Tasks, task'[r] = u
               PROVE  WellHeld(r, u)'
    BY DEF HeldInv
  <2>1. CASE r = p
    BY <2>1, NullAssumption
  <2>2. CASE r # p
    <3>1. u # t /\ WellHeld(r, u)
      BY <1>1, <1>2, <2>2 DEF HeldInv
    <3>2. QED
      BY <2>2, <3>1, SameTask
  <2>3. QED
    BY <2>1, <2>2
<1>8. AloneInv'
  <2>1. \A r \in Procs : task'[r] = task[r] \/ task'[r] = NULL
    OBVIOUS
  <2>2. \A q, r \in Procs : \A i \in 1..Len(queue[q]) : task'[r] # queue[q][i]
    BY <1>1, <2>1, NullAssumption DEF AloneInv, TypeOK
  <2>3. \A q, r \in Procs : task'[q] = task'[r] /\ task'[q] # NULL => q = r
    BY <1>1, <2>1 DEF AloneInv
  <2>4. QED
    BY <1>1, <2>2, <2>3 DEF AloneInv
<1>9. NblInv'
  BY <1>1 DEF NblInv, Same
<1>10. ForgottenInv'
  <2> SUFFICES ASSUME NEW u \in Tasks, u \in taskMem'
               PROVE  Owned(u)' \/ MayForget(u)'
    BY DEF ForgottenInv
  <2>1. CASE u = t
    BY <2>1 DEF Owned
  <2>2. CASE u # t
    <3>1. u \in taskMem /\ (Owned(u) \/ MayForget(u))
      BY <1>1, <2>2 DEF ForgottenInv, Same
    <3>2. Owned(u) => Owned(u)'
      BY <2>2 DEF Owned
    <3>3. MayForget(u) => MayForget(u)'
      BY <1>3, <2>2 DEF MayForget, Undecided, Same
    <3>4. QED
      BY <3>1, <3>2, <3>3
  <2>3. QED
    BY <2>1, <2>2
<1>11. BufferInv'
  BY <1>1, <1>3 DEF BufferInv, BufferOwned, Same
<1>12. StopInv'
  BY <1>1, NullAssumption DEF StopInv, TypeOK, Idle
<1>13. QED
  BY <1>4, <1>5, <1>6, <1>7, <1>8, <1>9, <1>10, <1>11, <1>12 DEF IInv

\* A step in which thread p passes its task on to queue q.
LEMMA PassTask ==
  ASSUME IInv, TypeOK', NEW p \in Procs, NEW q \in Procs, NEW t \in Tasks, task[p] = t,
         thread[p] \in {"filter", "accepted", "lookup", "forward"},
         Reaches(t, q), ProcessRoutingTask(t, q), NextTask(p),
         UNCHANGED <<fresh, packet, isModified, memVars, modeVars, engine, histVars>>
  PROVE  IInv'
<1>1. /\ TypeOK /\ FreshInv /\ PacketInv /\ QueueInv /\ HeldInv /\ AloneInv /\ NblInv
      /\ HandedInv /\ ModeInv /\ ForgottenInv /\ BufferInv /\ StopInv
  BY DEF IInv
<1>2. /\ WellHeld(p, t)
      /\ \A r \in Procs : task[r] = t => r = p
      /\ \A r \in Procs : \A i \in 1..Len(queue[r]) : queue[r][i] # t
  BY HeldTask
<1>3. /\ task'[p] = NULL /\ thread'[p] \in Idle
      /\ \A r \in Procs : r # p => task'[r] = task[r] /\ thread'[r] = thread[r]
  BY <1>1, NextTaskEffect
<1>4. /\ Len(queue'[q]) = Len(queue[q]) + 1 /\ Len(queue[q]) \in Nat
      /\ \A i \in 1..Len(queue[q]) : queue'[q][i] = queue[q][i]
      /\ queue'[q][Len(queue[q]) + 1] = t
      /\ \A r \in Procs : r # q => queue'[r] = queue[r]
  BY <1>1, AppendItems DEF TypeOK, ProcessRoutingTask
<1>5. ASSUME NEW r \in Procs, NEW i \in 1..Len(queue'[r])
      PROVE  \/ r = q /\ i = Len(queue[q]) + 1 /\ queue'[r][i] = t
             \/ i \in 1..Len(queue[r]) /\ queue'[r][i] = queue[r][i]
  BY <1>4
<1>6. /\ \A u \in Tasks : Same(u)
      /\ UNCHANGED <<fresh, packet, taskMem, bufferMem, nbl, ipForwardingMode,
                     modeChanges, engine, path, handed>>
  BY DEF Same, NotHanded, memVars, modeVars, histVars
<1>7. FreshInv' /\ PacketInv' /\ NblInv' /\ HandedInv' /\ BufferInv'
  BY <1>1, <1>6 DEF FreshInv, PacketInv, NblInv, HandedInv, BufferInv, BufferOwned, NotHanded
<1>8. QueueInv'
  <2>1. WellQueued(q, t)'
    BY <1>2, <1>6, SameTask DEF WellHeld, WellQueued
  <2>2. QED
    BY <1>1, <1>5, <1>6, <2>1, SameTask DEF QueueInv
<1>9. HeldInv'
  BY <1>1, <1>3, <1>6, SameTask, NullAssumption DEF HeldInv
<1>10. AloneInv'
  <2>1. \A r \in Procs : task'[r] # t /\ (task'[r] = task[r] \/ task'[r] = NULL)
    BY <1>2, <1>3, NullAssumption
  <2>2. \A r \in Procs : \A i \in 1..Len(queue[r]) : queue[r][i] # NULL
    BY <1>1, NullAssumption DEF TypeOK
  <2>3. \A o, r \in Procs : \A i \in 1..Len(queue'[o]) : task'[r] # queue'[o][i]
    BY <1>1, <1>5, <2>1, <2>2 DEF AloneInv
  <2>4. \A o, r \in Procs : task'[o] = task'[r] /\ task'[o] # NULL => o = r
    BY <1>1, <2>1 DEF AloneInv
  <2>5. \A o, r \in Procs : \A i \in 1..Len(queue'[o]) : \A j \in 1..Len(queue'[r]) :
          queue'[o][i] = queue'[r][j] => o = r /\ i = j
    BY <1>1, <1>2, <1>4, <1>5 DEF AloneInv
  <2>6. QED
    BY <2>3, <2>4, <2>5 DEF AloneInv
<1>11. ModeInv'
  BY <1>1, <1>3, <1>6 DEF ModeInv, Idle, Procs
<1>12. ForgottenInv'
  <2> SUFFICES ASSUME NEW u \in Tasks, u \in taskMem'
               PROVE  Owned(u)' \/ MayForget(u)'
    BY DEF ForgottenInv
  <2>1. CASE u = t
    <3>1. Len(queue[q]) + 1 \in 1..Len(queue'[q])
      BY <1>4
    <3>2. QED
      BY <1>4, <2>1, <3>1 DEF Owned
  <2>2. ASSUME NEW r \in Procs, task[r] = u, u # t PROVE Owned(u)'
    BY <1>3, <2>2 DEF Owned
  <2>3. ASSUME NEW r \in Procs, NEW i \in 1..Len(queue[r]), queue[r][i] = u
        PROVE  Owned(u)'
    <3>1. i \in 1..Len(queue'[r]) /\ queue'[r][i] = u
      BY <1>4, <2>3
    <3>2. QED
      BY <3>1 DEF Owned
  <2>4. MayForget(u) => MayForget(u)'
    BY <1>6, SameTask DEF MayForget
  <2>5. Owned(u) \/ MayForget(u)
    BY <1>1, <1>6 DEF ForgottenInv
  <2>6. QED
    BY <2>1, <2>2, <2>3, <2>4, <2>5 DEF Owned
<1>13. StopInv'
  BY <1>1, <1>6, NullAssumption DEF TypeOK, StopInv, Idle
<1>14. QED
  BY <1>7, <1>8, <1>9, <1>10, <1>11, <1>12, <1>13 DEF IInv

\* The first task leaves queue p: a filter point's thread has it then, and
\* RoutingDecisionThread has not.
LEMMA TakeTask ==
  ASSUME IInv, TypeOK', NEW p \in Procs, queue[p] # <<>>, thread[p] = "wait",
         queue' = [queue EXCEPT ![p] = Tail(@)],
         \A r \in Procs : r # p => task'[r] = task[r] /\ thread'[r] = thread[r],
         \/ p # "RTDECISION" /\ task'[p] = Head(queue[p]) /\ thread'[p] = "filter"
         \/ p = "RTDECISION" /\ task'[p] = NULL /\ thread'[p] \in Idle,
         UNCHANGED <<fresh, packet, isModified, memVars, modeVars, engine, histVars>>
  PROVE  IInv'
<1>1. /\ TypeOK /\ FreshInv /\ PacketInv /\ QueueInv /\ HeldInv /\ AloneInv /\ NblInv
      /\ HandedInv /\ ModeInv /\ ForgottenInv /\ BufferInv /\ StopInv
  BY DEF IInv
<1> DEFINE n == Len(queue[p])
<1>2. /\ n \in Nat /\ n > 0 /\ Len(queue'[p]) = n - 1 /\ Head(queue[p]) = queue[p][1]
      /\ \A i \in 1..n-1 : queue'[p][i] = queue[p][i + 1]
      /\ \A r \in Procs : r # p => queue'[r] = queue[r]
  BY <1>1, TailItems DEF TypeOK
<1> HIDE DEF n
<1>3. PICK t \in Tasks : queue[p][1] = t
  BY <1>1, <1>2 DEF TypeOK, n
<1>4. /\ \A u \in Tasks : Same(u)
      /\ UNCHANGED <<fresh, packet, taskMem, bufferMem, nbl, ipForwardingMode,
                     modeChanges, engine, path, handed>>
  BY DEF Same, NotHanded, memVars, modeVars, histVars
<1>5. /\ WellQueued(p, t) /\ 1 \in 1..n
      /\ \A r \in Procs : task[r] # t
      /\ \A r \in Procs : \A i \in 1..Len(queue[r]) : queue[r][i] = t => r = p /\ i = 1
  BY <1>1, <1>2, <1>3 DEF QueueInv, AloneInv, n
<1>6. \A r \in Procs : \A i \in 1..Len(queue'[r]) : \E k \in 1..Len(queue[r]) :
        /\ queue'[r][i] = queue[r][k]
        /\ r = p => k = i + 1 /\ k # 1
        /\ r # p => k = i
  BY <1>2 DEF n
<1>7. task[p] = NULL /\ (task'[p] = t \/ task'[p] = NULL)
  BY <1>1, <1>2, <1>3 DEF TypeOK, Idle
<1>8. FreshInv' /\ PacketInv' /\ NblInv' /\ HandedInv' /\ BufferInv'
  BY <1>1, <1>4 DEF FreshInv, PacketInv, NblInv, HandedInv, BufferInv, BufferOwned, NotHanded
<1>9. QueueInv'
  <2> SUFFICES ASSUME NEW r \in Procs, NEW i \in 1..Len(queue'[r]), NEW u \in Tasks,
                      queue'[r][i] = u
               PROVE  WellQueued(r, u)'
    BY DEF QueueInv
  <2>1. PICK k \in 1..Len(queue[r]) : queue[r][k] = u
    BY <1>6
  <2>2. QED
    BY <1>1, <1>4, <2>1, SameTask DEF QueueInv
<1>10. HeldInv'
  <2> SUFFICES ASSUME NEW r \in Procs, NEW u \in Tasks, task'[r] = u
               PROVE  WellHeld(r, u)'
    BY DEF HeldInv
  <2>1. CASE r = p
    <3>1. u = t /\ p # "RTDECISION" /\ thread'[p] = "filter"
      BY <1>2, <1>3, <2>1, NullAssumption
    <3>2. WellQueued(p, t)'
      BY <1>4, <1>5, SameTask
    <3>3. QED
      BY <2>1, <3>1, <3>2 DEF WellQueued, WellHeld
  <2>2. CASE r # p
    BY <1>1, <1>4, <2>2, SameTask DEF HeldInv
  <2>3. QED
    BY <2>1, <2>2
<1>11. AloneInv'
  <2>1. \A r \in Procs : task'[r] # t => task'[r] = task[r] \/ task'[r] = NULL
    BY <1>7
  <2>2. \A r \in Procs : task'[r] = t => r = p
    BY <1>5
  <2>3. \A o, r \in Procs : task'[o] = task'[r] /\ task'[o] # NULL => o = r
    BY <1>1, <2>1, <2>2 DEF AloneInv
  <2>4. \A r \in Procs : \A i \in 1..Len(queue[r]) : queue[r][i] # NULL
    <3>1. \A r \in Procs : queue[r] \in Seq(Tasks)
      BY <1>1 DEF TypeOK
    <3>2. QED
      BY <3>1, NullAssumption
  <2>5. \A o \in Procs : \A i \in 1..Len(queue'[o]) : queue'[o][i] # t /\ queue'[o][i] # NULL
    BY <1>5, <1>6, <2>4
  <2>6. ASSUME NEW o \in Procs, NEW r \in Procs, NEW i \in 1..Len(queue'[o])
        PROVE  task'[r] # queue'[o][i]
    <3>1. PICK k \in 1..Len(queue[o]) : queue'[o][i] = queue[o][k]
      BY <1>6
    <3>2. task[r] # queue[o][k]
      BY <1>1 DEF AloneInv
    <3>3. QED
      BY <2>1, <2>5, <3>1, <3>2
  <2>7. ASSUME NEW o \in Procs, NEW r \in Procs, NEW i \in 1..Len(queue'[o]),
               NEW j \in 1..Len(queue'[r]), queue'[o][i] = queue'[r][j]
        PROVE  o = r /\ i = j
    <3>1. PICK k \in 1..Len(queue[o]) :
            queue'[o][i] = queue[o][k] /\ (o = p => k = i + 1) /\ (o # p => k = i)
      BY <1>6
    <3>2. PICK l \in 1..Len(queue[r]) :
            queue'[r][j] = queue[r][l] /\ (r = p => l = j + 1) /\ (r # p => l = j)
      BY <1>6
    <3>3. o = r /\ k = l
      BY <1>1, <2>7, <3>1, <3>2 DEF AloneInv
    <3>4. QED
      BY <3>1, <3>2, <3>3
  <2>8. QED
    BY <2>3, <2>6, <2>7 DEF AloneInv
<1>12. ModeInv'
  BY <1>1, <1>4 DEF ModeInv, Idle, Procs
<1>13. ForgottenInv'
  <2> SUFFICES ASSUME NEW u \in Tasks, u \in taskMem'
               PROVE  Owned(u)' \/ MayForget(u)'
    BY DEF ForgottenInv
  <2>1. CASE u = t
    <3>1. CASE p = "RTDECISION"
      BY <1>4, <1>5, <2>1, <3>1, SameTask DEF WellQueued, Reaches, MayForget
    <3>2. CASE p # "RTDECISION"
      BY <1>2, <1>3, <2>1, <3>2 DEF Owned
    <3>3. QED
      BY <3>1, <3>2
  <2>2. ASSUME NEW r \in Procs, task[r] = u PROVE Owned(u)'
    BY <1>7, <2>2, NullAssumption DEF Owned
  <2>3. ASSUME NEW r \in Procs, NEW i \in 1..Len(queue[r]), queue[r][i] = u, u # t
        PROVE  Owned(u)'
    <3>1. CASE r = p
      <4>1. i - 1 \in 1..Len(queue'[r]) /\ queue'[r][i - 1] = u
        BY <1>2, <1>3, <2>3, <3>1 DEF n
      <4>2. QED
        BY <4>1 DEF Owned
    <3>2. CASE r # p
      BY <1>2, <2>3, <3>2 DEF Owned
    <3>3. QED
      BY <3>1, <3>2
  <2>4. MayForget(u) => MayForget(u)'
    BY <1>4, SameTask DEF MayForget
  <2>5. Owned(u) \/ MayForget(u)
    BY <1>1, <1>4 DEF ForgottenInv
  <2>6. QED
    BY <2>1, <2>2, <2>3, <2>4, <2>5 DEF Owned
<1>14. StopInv'
  BY <1>1, <1>4 DEF StopInv
<1>15. QED
  BY <1>8, <1>9, <1>10, <1>11, <1>12, <1>13, <1>14 DEF IInv

-----------------------------------------------------------------------------
(* Type correctness, step by step.                                         *)

\* A queue that gets or loses a task, a path that gets a filter point.
LEMMA QueueTypes ==
  ASSUME TypeOK, NEW p \in Procs
  PROVE  /\ \A t \in Tasks : [queue EXCEPT ![p] = Append(@, t)] \in [Procs -> Seq(Tasks)]
         /\ queue[p] # <<>> => /\ Head(queue[p]) \in Tasks
                               /\ [queue EXCEPT ![p] = Tail(@)] \in [Procs -> Seq(Tasks)]
  BY AppendItems, TailItems DEF TypeOK

\* The handlers at the two entries.
LEMMA HandlersType ==
  ASSUME TypeOK, NEW e \in Entries, NEW t \in Tasks,
         AllocatePacketBuffer(e, t) \/ CreateTask(e, t) \/ CreateTaskFails(e, t)
  PROVE  TypeOK'
<1>1. CASE AllocatePacketBuffer(e, t)
  BY <1>1 DEF AllocatePacketBuffer, TypeOK, memVars, modeVars, histVars
<1>2. CASE CreateTask(e, t)
  <2>1. e \in Procs
    BY DEF Entries, Procs
  <2>2. queue' \in [Procs -> Seq(Tasks)]
    BY <1>2, <2>1, QueueTypes DEF CreateTask
  <2>3. QED
    BY <1>2, <2>2 DEF CreateTask, TypeOK, modeVars, histVars
<1>3. CASE CreateTaskFails(e, t)
  BY <1>3 DEF CreateTaskFails, TypeOK, modeVars, histVars
<1>4. QED
  BY <1>1, <1>2, <1>3

\* The routing threads; the invariant says which of them has a task where.
LEMMA ThreadType ==
  ASSUME IInv, NEW p \in Procs, Thread(p)
  PROVE  TypeOK'
<1> USE NullAssumption DEF memVars, modeVars, histVars, Goto, Idle, Busy
<1>1. TypeOK /\ HeldInv
  BY DEF IInv
<1>2. NextTask(p) =>
        /\ task' \in [Procs -> Tasks \cup {NULL}] /\ thread' \in [Procs -> Idle \cup Busy]
        /\ \A r \in Procs : task'[r] = NULL <=> thread'[r] \in Idle
  BY <1>1, NextTaskEffect DEF TypeOK
<1>3. thread[p] \in Busy => task[p] \in Tasks /\ p \in FilterPoints
  <2>1. thread[p] \in Busy => task[p] \in Tasks
    BY <1>1 DEF TypeOK
  <2>2. task[p] \in Tasks => p # "RTDECISION"
    BY <1>1 DEF HeldInv, WellHeld
  <2>3. QED
    BY <2>1, <2>2 DEF FilterPoints
<1>4. ASSUME NextTask(p), NEW q \in Procs, ProcessRoutingTask(task[p], q),
             thread[p] \in Busy,
             UNCHANGED <<fresh, packet, isModified, memVars, modeVars, engine, histVars>>
      PROVE  TypeOK'
  <2>1. queue' \in [Procs -> Seq(Tasks)]
    BY <1>1, <1>3, <1>4, QueueTypes DEF ProcessRoutingTask
  <2>2. QED
    BY <1>1, <1>2, <1>4, <2>1 DEF TypeOK
<1>5. CASE DequeueTask(p)
  BY <1>1, <1>5, QueueTypes DEF DequeueTask, TypeOK
<1>6. CASE DequeueNull(p)
  BY <1>1, <1>2, <1>6 DEF DequeueNull, TypeOK
<1>7. CASE FilterDrops(p)
  BY <1>1, <1>2, <1>7 DEF FilterDrops, FreeRoutingTask, TypeOK
<1>8. CASE FilterAccepts(p)
  <2>1. isModified' \in [Tasks -> BOOLEAN]
    BY <1>1, <1>8 DEF FilterAccepts, TypeOK
  <2>2. path' \in [Tasks -> Seq(FilterPoints)]
    BY <1>1, <1>3, <1>8, AppendItems DEF FilterAccepts, TypeOK
  <2>3. QED
    BY <1>1, <1>8, <2>1, <2>2 DEF FilterAccepts, TypeOK
<1>9. CASE p = "PREROUTING" /\ TestForwardingMode
  <2>1. "INPUT" \in Procs
    BY DEF Procs
  <2>2. CASE ipForwardingMode # "SYSTEM"
    BY <1>1, <1>9, <2>2 DEF TestForwardingMode, TypeOK
  <2>3. CASE ipForwardingMode = "SYSTEM"
    BY <1>4, <1>9, <2>1, <2>3 DEF TestForwardingMode, PassToInput
  <2>4. QED
    BY <2>2, <2>3
<1>10. CASE p = "PREROUTING" /\ LookUpAddress
  <2>1. "INPUT" \in Procs
    BY DEF Procs
  <2>2. CASE thread' = [thread EXCEPT !["PREROUTING"] = "forward"] /\ UNCHANGED <<task, queue>>
    BY <1>1, <1>10, <2>2 DEF LookUpAddress, TypeOK
  <2>3. CASE PassToInput
    BY <1>4, <1>10, <2>1, <2>3 DEF LookUpAddress, PassToInput
  <2>4. QED
    BY <1>10, <2>2, <2>3 DEF LookUpAddress
<1>11. CASE p = "PREROUTING" /\ TestWinpfilterMode
  <2>1. "FORWARDING" \in Procs
    BY DEF Procs
  <2>2. CASE ipForwardingMode # "WINPFILTER"
    BY <1>1, <1>11, <2>2 DEF TestWinpfilterMode, TypeOK
  <2>3. CASE ipForwardingMode = "WINPFILTER"
    BY <1>4, <1>11, <2>1, <2>3 DEF TestWinpfilterMode
  <2>4. QED
    BY <2>2, <2>3
<1>12. CASE p = "PREROUTING" /\ TestDisableMode
  BY <1>1, <1>2, <1>12 DEF TestDisableMode, FreeRoutingTask, TypeOK
<1>13. CASE p = "FORWARDING" /\ PassToDecision
  BY <1>4, <1>13 DEF PassToDecision, Procs
<1>14. CASE p = "OUTPUT" /\ PassOutput
  BY <1>4, <1>14 DEF PassOutput, Procs
<1>15. CASE p = "RTDECISION" /\ RoutingDecision
  BY <1>1, <1>2, <1>15, QueueTypes DEF RoutingDecision, TypeOK
<1>16. CASE p \in Exits /\ Deliver(p)
  <2>1. CASE AllocateMdl(p)
    BY <1>1, <2>1 DEF AllocateMdl, TypeOK
  <2>2. CASE AllocateMdlFails(p)
    BY <1>1, <1>2, <2>2 DEF AllocateMdlFails, FreeRoutingTask, TypeOK
  <2>3. CASE AllocateNbl(p)
    BY <1>1, <2>3 DEF AllocateNbl, TypeOK
  <2>4. CASE AllocateNblFails(p)
    BY <1>1, <1>2, <2>4 DEF AllocateNblFails, FreeRoutingTask, TypeOK
  <2>5. CASE HandToNdis(p)
    <3>1. handed' \in [Exits -> Seq(Tasks)]
      BY <1>1, <1>3, <1>16, <2>5, AppendItems DEF HandToNdis, TypeOK
    <3>2. QED
      BY <1>1, <2>5, <3>1 DEF HandToNdis, TypeOK
  <2>6. CASE FreeRoutingTaskWithoutDataBuffer(p)
    BY <1>1, <1>2, <2>6 DEF FreeRoutingTaskWithoutDataBuffer, TypeOK
  <2>7. QED
    BY <1>16, <2>1, <2>2, <2>3, <2>4, <2>5, <2>6 DEF Deliver
<1>17. QED
  BY <1>5, <1>6, <1>7, <1>8, <1>9, <1>10, <1>11, <1>12, <1>13, <1>14, <1>15, <1>16
     DEF Thread, Prerouting

\* NDIS, the forwarding mode IOCTL and StopRoutingEngine.
LEMMA OthersType ==
  ASSUME TypeOK,
         \/ \E t \in Tasks : NblFinished(t)
         \/ \E mode \in Modes : SetForwardingMode(mode)
         \/ Stopping
  PROVE  TypeOK'
<1> USE NullAssumption, BoundAssumption DEF memVars, modeVars, histVars, Idle, Busy
<1>1. ASSUME NEW t \in Tasks, NblFinished(t) PROVE TypeOK'
  BY <1>1 DEF NblFinished, TypeOK
<1>2. ASSUME NEW mode \in Modes, SetForwardingMode(mode) PROVE TypeOK'
  <2>1. modeChanges' \in 0..MaxModeChanges
    <3>1. modeChanges \in 0..MaxModeChanges /\ modeChanges < MaxModeChanges
      BY <1>2 DEF SetForwardingMode, TypeOK
    <3>2. modeChanges' = modeChanges + 1
      BY <1>2 DEF SetForwardingMode
    <3>3. QED
      BY <3>1, <3>2
  <2>2. ipForwardingMode' \in Modes
    BY <1>2 DEF SetForwardingMode
  <2>3. UNCHANGED <<fresh, packet, queue, thread, task, isModified, taskMem, bufferMem,
                    nbl, engine, path, handed>>
    BY <1>2 DEF SetForwardingMode
  <2>4. QED
    BY <2>1, <2>2, <2>3 DEF TypeOK
<1>3. CASE StopClearFlag
  <2>1. /\ thread' \in [Procs -> Idle \cup Busy]
        /\ \A p \in Procs : thread'[p] \in Idle <=> thread[p] \in Idle
    BY <1>3 DEF StopClearFlag, TypeOK
  <2>2. QED
    BY <1>3, <2>1 DEF StopClearFlag, TypeOK
<1>4. CASE StopSetSignal
  BY <1>4 DEF StopSetSignal, TypeOK
<1>5. CASE StopDrain
  <2>1. queue' \in [Procs -> Seq(Tasks)]
    BY <1>5 DEF StopDrain
  <2>2. /\ taskMem' \in SUBSET Tasks /\ bufferMem' \in SUBSET Tasks
        /\ engine' = "done"
    BY <1>5 DEF StopDrain, TypeOK
  <2>3. UNCHANGED <<fresh, packet, thread, task, isModified, nbl, ipForwardingMode,
                    modeChanges, path, handed>>
    BY <1>5 DEF StopDrain
  <2>4. QED
    BY <2>1, <2>2, <2>3 DEF TypeOK
<1>6. QED
  BY <1>1, <1>2, <1>3, <1>4, <1>5 DEF Stopping

-----------------------------------------------------------------------------
(* Every step of a routing thread preserves the inductive invariant.       *)

\* The last steps of a thread that works on its task t: it frees the task with
\* the buffer, and the MDL if there is one.
LEMMA DropTask ==
  ASSUME IInv, TypeOK', NEW p \in Procs, NEW t \in Tasks, task[p] = t,
         FreeRoutingTask(t), NextTask(p),
         nbl' = [nbl EXCEPT ![t] = "none"] \/ (nbl' = nbl /\ nbl[t] = "none"),
         UNCHANGED <<fresh, packet, queue, isModified, modeVars, engine, histVars>>
  PROVE  IInv'
<1>1. TypeOK /\ HandedInv /\ ModeInv
  BY DEF IInv
<1>2. /\ task'[p] = NULL /\ thread'[p] \in Idle
      /\ \A r \in Procs : r # p => task'[r] = task[r] /\ thread'[r] = thread[r]
  BY <1>1, NextTaskEffect
<1>3. t \notin taskMem' /\ t \notin bufferMem' /\ nbl'[t] = "none"
  BY <1>1 DEF FreeRoutingTask, TypeOK
<1>4. \A u \in Tasks : u # t => Same(u)
  BY <1>1 DEF FreeRoutingTask, TypeOK, Same, NotHanded, histVars
<1>5. HandedInv'
  BY <1>1 DEF HandedInv, histVars
<1>6. ModeInv'
  BY <1>1, <1>2 DEF ModeInv, modeVars, Idle, Procs
<1>7. QED
  BY <1>2, <1>3, <1>4, <1>5, <1>6, WorkOnTask

\* A thread that goes on with its task and changes none of the variables that
\* are about tasks, except perhaps the NBL it is building.
LEMMA GoOn ==
  ASSUME IInv, TypeOK', NEW p \in Procs, NEW t \in Tasks, task[p] = t,
         NEW label \in Busy, Goto(p, label), WellHeld(p, t)', ModeInv',
         nbl' = nbl \/ nbl' = [nbl EXCEPT ![t] = "mdl"] \/ nbl' = [nbl EXCEPT ![t] = "nbl"],
         thread[p] # "release",
         UNCHANGED <<fresh, packet, queue, isModified, taskMem, bufferMem, modeVars,
                     engine, histVars>>
  PROVE  IInv'
<1>1. TypeOK /\ HandedInv /\ NblInv
  BY DEF IInv
<1>2. /\ task' = task
      /\ \A r \in Procs : r # p => task'[r] = task[r] /\ thread'[r] = thread[r]
  BY <1>1 DEF Goto, TypeOK
<1>3. \A u \in Tasks : u # t => Same(u)
  BY <1>1 DEF TypeOK, Same, NotHanded, histVars
<1>4. t \in taskMem' /\ t \in bufferMem'
  BY HeldTask DEF WellHeld
<1>5. HandedInv'
  BY <1>1 DEF HandedInv, histVars
<1>6. QED
  BY <1>2, <1>3, <1>4, <1>5, WorkOnTask DEF BufferOwned

\* Idle threads exit, StopRoutingEngine gets on.
LEMMA StandStill ==
  ASSUME IInv, TypeOK',
         \A r \in Procs : thread'[r] = thread[r] \/ (thread[r] \in Idle /\ thread'[r] \in Idle),
         engine' # "done",
         engine' = engine \/ \A e \in Entries : packet[e] = {},
         UNCHANGED <<fresh, packet, queue, task, isModified, memVars, modeVars, histVars>>
  PROVE  IInv'
<1>1. /\ TypeOK /\ FreshInv /\ PacketInv /\ QueueInv /\ HeldInv /\ AloneInv /\ NblInv
      /\ HandedInv /\ ModeInv /\ ForgottenInv /\ BufferInv
  BY DEF IInv
<1>2. \A u \in Tasks : Same(u)
  BY DEF Same, NotHanded, memVars, histVars
<1>3. FreshInv' /\ PacketInv' /\ NblInv' /\ HandedInv' /\ AloneInv' /\ BufferInv'
  BY <1>1 DEF FreshInv, PacketInv, NblInv, HandedInv, AloneInv, BufferInv, BufferOwned,
              NotHanded, memVars, histVars
<1>4. QueueInv'
  BY <1>1, <1>2, SameTask DEF QueueInv
<1>5. HeldInv'
  <2> SUFFICES ASSUME NEW r \in Procs, NEW u \in Tasks, task[r] = u
               PROVE  WellHeld(r, u)'
    BY DEF HeldInv
  <2>1. thread'[r] = thread[r]
    BY <1>1, NullAssumption DEF TypeOK
  <2>2. QED
    BY <1>1, <1>2, <2>1, SameTask DEF HeldInv
<1>6. ModeInv'
  BY <1>1 DEF ModeInv, modeVars, Idle, Procs
<1>7. ForgottenInv'
  <2>1. \A u \in Tasks : (Owned(u) => Owned(u)') /\ (MayForget(u) => MayForget(u)')
    BY DEF Owned, MayForget, Undecided, histVars, modeVars
  <2>2. QED
    BY <1>1, <2>1 DEF ForgottenInv, memVars
<1>8. StopInv'
  BY DEF StopInv
<1>9. QED
  BY <1>3, <1>4, <1>5, <1>6, <1>7, <1>8 DEF IInv

\* FilterEthernetPacket accepts the packet.
LEMMA FilterAcceptsIInv ==
  ASSUME IInv, TypeOK', NEW p \in Procs, FilterAccepts(p)
  PROVE  IInv'
<1>1. TypeOK /\ HandedInv /\ ModeInv /\ NblInv
  BY DEF IInv
<1>2. PICK t \in Tasks : task[p] = t
  BY <1>1 DEF FilterAccepts, TypeOK, Idle
<1>3. /\ thread[p] = "filter" /\ thread'[p] = "accepted" /\ task' = task
      /\ \A r \in Procs : r # p => thread'[r] = thread[r]
      /\ path'[t] = Append(path[t], p)
      /\ \A u \in Tasks : u # t => path'[u] = path[u] /\ isModified'[u] = isModified[u]
      /\ UNCHANGED <<fresh, packet, queue, taskMem, bufferMem, nbl, ipForwardingMode,
                     modeChanges, engine, handed>>
  BY <1>1, <1>2 DEF FilterAccepts, Goto, TypeOK, memVars, modeVars
<1>4. /\ p # "RTDECISION" /\ t \in taskMem /\ t \in bufferMem /\ NotHanded(t)
      /\ Reaches(t, p) /\ nbl[t] = "none"
  BY <1>2, <1>3, HeldTask DEF WellHeld
<1>5. Passed(t, p)'
  <2>1. p \in Entries => path'[t] = <<p>>
    BY <1>3, <1>4, AppendTuple DEF Reaches
  <2>2. p \in {"INPUT", "FORWARDING"} => path'[t] = <<"PREROUTING", p>>
    BY <1>3, <1>4, AppendTuple DEF Reaches
  <2>3. p = "POSTROUTING" => path'[t] = <<"OUTPUT", p>>
    BY <1>3, <1>4, AppendTuple DEF Reaches
  <2>4. QED
    BY <2>1, <2>2, <2>3 DEF Passed
<1>6. WellHeld(p, t)'
  BY <1>3, <1>4, <1>5 DEF WellHeld, NotHanded
<1>7. \A u \in Tasks : u # t => Same(u)
  BY <1>3 DEF Same, NotHanded
<1>8. HandedInv'
  BY <1>1, <1>3, <1>4 DEF HandedInv, NotHanded
<1>9. ModeInv'
  BY <1>1, <1>3 DEF ModeInv, Procs
<1>10. QED
  BY <1>1, <1>2, <1>3, <1>4, <1>6, <1>7, <1>8, <1>9, WorkOnTask DEF BufferOwned, modeVars

\* PreroutingThread after its filter point.
LEMMA PreroutingIInv ==
  ASSUME IInv, TypeOK', Prerouting
  PROVE  IInv'
<1> DEFINE p == "PREROUTING"
<1>1. TypeOK /\ HandedInv /\ ModeInv /\ p \in Procs /\ "INPUT" \in Procs /\ "FORWARDING" \in Procs
  BY DEF IInv, Procs
<1>2. PICK t \in Tasks : task[p] = t
  BY <1>1 DEF Prerouting, TestForwardingMode, LookUpAddress, TestWinpfilterMode,
              TestDisableMode, TypeOK, Idle
<1>3. /\ thread[p] \in {"accepted", "lookup", "forward", "disable"}
      /\ WellHeld(p, t) /\ path[t] = <<"PREROUTING">> /\ nbl[t] = "none"
      /\ t \in taskMem /\ t \in bufferMem
  <2>1. thread[p] \in {"accepted", "lookup", "forward", "disable"}
    BY DEF Prerouting, TestForwardingMode, LookUpAddress, TestWinpfilterMode, TestDisableMode
  <2>2. WellHeld(p, t)
    BY <1>1, <1>2, HeldTask
  <2>3. QED
    BY <2>1, <2>2 DEF WellHeld, Passed, Entries
<1>4. Reaches(t, "INPUT") /\ Reaches(t, "FORWARDING")
  BY <1>3 DEF Reaches, Entries
<1>5. ASSUME PassToInput,
             UNCHANGED <<fresh, packet, isModified, memVars, modeVars, engine, histVars>>,
             thread[p] \in {"accepted", "lookup"}
      PROVE  IInv'
  BY <1>1, <1>2, <1>4, <1>5, PassTask DEF PassToInput
<1>6. ASSUME NEW label \in {"lookup", "forward", "disable"}, Goto(p, label), ModeInv',
             UNCHANGED <<fresh, packet, queue, isModified, memVars, modeVars, engine, histVars>>
      PROVE  IInv'
  <2>1. thread'[p] = label /\ task' = task
    BY <1>1, <1>6 DEF Goto, TypeOK
  <2>2. WellHeld(p, t)'
    BY <1>3, <1>6, <2>1 DEF WellHeld, Passed, NotHanded, Reaches, memVars, histVars
  <2>3. label \in Busy
    BY DEF Busy
  <2>4. nbl' = nbl /\ UNCHANGED <<taskMem, bufferMem>>
    BY <1>6 DEF memVars
  <2>5. QED
    BY <1>1, <1>2, <1>3, <1>6, <2>2, <2>3, <2>4, GoOn
<1>7. ASSUME TestForwardingMode PROVE IInv'
  <2>1. CASE ipForwardingMode = "SYSTEM"
    BY <1>5, <1>7, <2>1 DEF TestForwardingMode
  <2>2. CASE ipForwardingMode # "SYSTEM"
    <3>1. modeChanges > 0
      BY <1>1, <2>2 DEF ModeInv, TypeOK
    <3>2. ModeInv'
      BY <1>1, <1>7, <2>2, <3>1 DEF TestForwardingMode, Goto, ModeInv, modeVars, TypeOK
    <3>3. QED
      BY <1>6, <1>7, <2>2, <3>2 DEF TestForwardingMode
  <2>3. QED
    BY <2>1, <2>2
<1>8. ASSUME LookUpAddress PROVE IInv'
  <2>1. CASE PassToInput
    BY <1>5, <1>8, <2>1 DEF LookUpAddress
  <2>2. CASE Goto(p, "forward") /\ UNCHANGED queue
    <3>1. ModeInv'
      BY <1>1, <1>8, <2>2 DEF LookUpAddress, Goto, ModeInv, modeVars, TypeOK
    <3>2. QED
      BY <1>6, <1>8, <2>2, <3>1 DEF LookUpAddress
  <2>3. QED
    BY <1>8, <2>1, <2>2 DEF LookUpAddress
<1>9. ASSUME TestWinpfilterMode PROVE IInv'
  <2>1. CASE ipForwardingMode = "WINPFILTER"
    BY <1>1, <1>2, <1>4, <1>9, <2>1, PassTask DEF TestWinpfilterMode
  <2>2. CASE ipForwardingMode # "WINPFILTER"
    <3>1. modeChanges = 1 => ipForwardingMode = "DISABLE"
      BY <1>1, <1>9, <2>2 DEF TestWinpfilterMode, ModeInv, TypeOK, Modes
    <3>2. ModeInv'
      BY <1>1, <1>9, <2>2, <3>1 DEF TestWinpfilterMode, Goto, ModeInv, modeVars, TypeOK
    <3>3. QED
      BY <1>6, <1>9, <2>2, <3>2 DEF TestWinpfilterMode
  <2>3. QED
    BY <2>1, <2>2
<1>10. ASSUME TestDisableMode PROVE IInv'
  <2>1. CASE ipForwardingMode = "DISABLE"
    BY <1>1, <1>2, <1>3, <1>10, <2>1, DropTask DEF TestDisableMode
  <2>2. CASE ipForwardingMode # "DISABLE"
    <3>1. modeChanges > 1
      BY <1>1, <1>10, <2>2 DEF TestDisableMode, ModeInv, TypeOK
    <3>2. /\ task'[p] = NULL /\ thread'[p] \in Idle
          /\ \A r \in Procs : r # p => task'[r] = task[r] /\ thread'[r] = thread[r]
      BY <1>1, <1>10, NextTaskEffect DEF TestDisableMode
    <3>3. \A u \in Tasks : Same(u)
      BY <1>10, <2>2 DEF TestDisableMode, Same, NotHanded, histVars
    <3>4. MayForget(t)' /\ t \in taskMem'
      BY <1>3, <1>10, <2>2, <3>1 DEF TestDisableMode, MayForget, modeVars, histVars
    <3>5. HandedInv'
      BY <1>1, <1>10 DEF HandedInv, TestDisableMode, histVars
    <3>6. ModeInv'
      BY <1>1, <1>10, <3>2 DEF ModeInv, TestDisableMode, modeVars, Idle
    <3>7. nbl'[t] = "none"
      BY <1>3, <1>10 DEF TestDisableMode
    <3>8. QED
      BY <1>1, <1>2, <1>10, <3>2, <3>3, <3>4, <3>5, <3>6, <3>7, WorkOnTask
         DEF TestDisableMode, BufferOwned
  <2>3. QED
    BY <2>1, <2>2
<1>11. QED
  BY <1>7, <1>8, <1>9, <1>10 DEF Prerouting

\* InputThread and PostroutingThread after their filter points.
LEMMA DeliverIInv ==
  ASSUME IInv, TypeOK', NEW p \in Exits, Deliver(p)
  PROVE  IInv'
<1>1. /\ TypeOK /\ NblInv /\ BufferInv /\ HandedInv /\ ModeInv
      /\ p \in Procs /\ p \notin Entries /\ p # "PREROUTING"
      /\ p \in {"INPUT", "POSTROUTING"}
  BY DEF IInv, Exits, Entries, Procs
<1>2. PICK t \in Tasks : task[p] = t
  BY <1>1 DEF Deliver, AllocateMdl, AllocateMdlFails, AllocateNbl, AllocateNblFails,
              HandToNdis, FreeRoutingTaskWithoutDataBuffer, TypeOK, Idle
<1>3. /\ WellHeld(p, t)
      /\ \A e \in Entries : t \notin packet[e]
      /\ \A r \in Procs : task[r] = t => r = p
  BY <1>1, <1>2, HeldTask
<1>4. ASSUME NEW label \in {"mdl", "hand over"}, thread[p] \in {"accepted", "mdl"},
             Goto(p, label),
             nbl' = [nbl EXCEPT ![t] = "mdl"] \/ nbl' = [nbl EXCEPT ![t] = "nbl"],
             UNCHANGED <<fresh, packet, queue, isModified, taskMem, bufferMem, modeVars,
                         engine, histVars>>
      PROVE  IInv'
  <2>1. thread'[p] = label /\ nbl'[t] # "ndis"
    BY <1>1, <1>4 DEF Goto, TypeOK
  <2>2. WellHeld(p, t)'
    BY <1>1, <1>3, <1>4, <2>1 DEF WellHeld, Passed, NotHanded, histVars
  <2>3. ModeInv'
    BY <1>1, <1>4 DEF ModeInv, Goto, modeVars, TypeOK, Procs
  <2>4. label \in Busy
    BY DEF Busy
  <2>5. QED
    BY <1>1, <1>2, <1>4, <2>2, <2>3, <2>4, GoOn
<1>5. CASE AllocateMdl(p)
  BY <1>2, <1>4, <1>5 DEF AllocateMdl
<1>6. CASE AllocateMdlFails(p)
  <2>1. nbl[t] = "none"
    BY <1>3, <1>6 DEF AllocateMdlFails, WellHeld
  <2>2. QED
    BY <1>1, <1>2, <1>6, <2>1, DropTask DEF AllocateMdlFails
<1>7. CASE AllocateNbl(p)
  BY <1>2, <1>4, <1>7 DEF AllocateNbl
<1>8. CASE AllocateNblFails(p)
  BY <1>1, <1>2, <1>8, DropTask DEF AllocateNblFails
<1>9. CASE HandToNdis(p)
  <2>1. /\ thread[p] = "hand over" /\ thread'[p] = "release" /\ task' = task
        /\ \A r \in Procs : r # p => thread'[r] = thread[r]
        /\ nbl'[t] = "ndis" /\ \A u \in Tasks : u # t => nbl'[u] = nbl[u]
        /\ UNCHANGED <<fresh, packet, queue, isModified, taskMem, bufferMem, engine, path,
                       ipForwardingMode, modeChanges>>
    BY <1>1, <1>2, <1>9 DEF HandToNdis, Goto, TypeOK, modeVars
  <2>2. t \in taskMem /\ t \in bufferMem /\ Passed(t, p)
    BY <1>3, <2>1 DEF WellHeld
  <2>3. handed' = [handed EXCEPT ![p] = Append(@, t)] /\ handed[p] \in Seq(Tasks)
    BY <1>1, <1>2, <1>9 DEF HandToNdis, TypeOK
  <2>4. /\ Len(handed'[p]) = Len(handed[p]) + 1 /\ Len(handed[p]) \in Nat
        /\ \A i \in 1..Len(handed[p]) : handed'[p][i] = handed[p][i]
        /\ handed'[p][Len(handed[p]) + 1] = t
        /\ \A q \in Exits : q # p => handed'[q] = handed[q]
    BY <1>1, <2>3, AppendItems DEF TypeOK
  <2>5. \A q \in Exits : \A i \in 1..Len(handed'[q]) :
          \/ q = p /\ handed'[q][i] = t
          \/ i \in 1..Len(handed[q]) /\ handed'[q][i] = handed[q][i]
    <3>1. \A i \in 1..Len(handed[p]) + 1 :
            handed'[p][i] = t \/ (i \in 1..Len(handed[p]) /\ handed'[p][i] = handed[p][i])
      BY <2>4
    <3>2. QED
      BY <2>4, <3>1
  <2>6. \A u \in Tasks : u # t => Same(u)
    BY <2>1, <2>5 DEF Same, NotHanded
  <2>7. HandedInv'
    <3>1. path[t] = IF p = "INPUT" THEN <<"PREROUTING", "INPUT">> ELSE <<"OUTPUT", "POSTROUTING">>
      BY <1>1, <2>2 DEF Passed
    <3>2. ASSUME NEW q \in Exits, NEW i \in 1..Len(handed'[q]), NEW u \in Tasks,
                 handed'[q][i] = u
          PROVE  path'[u] =
                   IF q = "INPUT" THEN <<"PREROUTING", "INPUT">> ELSE <<"OUTPUT", "POSTROUTING">>
      <4>1. CASE q = p /\ u = t
        BY <2>1, <3>1, <4>1
      <4>2. CASE i \in 1..Len(handed[q]) /\ handed[q][i] = u
        BY <1>1, <2>1, <4>2 DEF HandedInv
      <4>3. QED
        BY <2>5, <3>2, <4>1, <4>2
    <3>3. QED
      BY <3>2 DEF HandedInv
  <2>8. WellHeld(p, t)'
    BY <1>1, <2>1, <2>2 DEF WellHeld, Passed
  <2>9. ModeInv'
    BY <1>1, <2>1 DEF ModeInv, Procs
  <2>10. QED
    BY <1>1, <1>2, <2>1, <2>2, <2>6, <2>7, <2>8, <2>9, WorkOnTask DEF BufferOwned, modeVars
<1>10. CASE FreeRoutingTaskWithoutDataBuffer(p)
  <2>1. /\ task'[p] = NULL /\ thread'[p] \in Idle
        /\ \A r \in Procs : r # p => task'[r] = task[r] /\ thread'[r] = thread[r]
    BY <1>1, <1>10, NextTaskEffect DEF FreeRoutingTaskWithoutDataBuffer
  <2>2. /\ thread[p] = "release" /\ taskMem' = taskMem \ {t}
        /\ UNCHANGED <<fresh, packet, queue, isModified, bufferMem, nbl, engine, path, handed,
                       ipForwardingMode, modeChanges>>
    BY <1>2, <1>10 DEF FreeRoutingTaskWithoutDataBuffer, modeVars, histVars
  <2>3. \A u \in Tasks : u # t => Same(u)
    BY <2>2 DEF Same, NotHanded
  <2>4. HandedInv'
    BY <1>1, <2>2 DEF HandedInv
  <2>5. ModeInv'
    BY <1>1, <2>1, <2>2 DEF ModeInv, Procs
  <2>6. t \in bufferMem => nbl[t] = "ndis"
    BY <1>3, <2>2 DEF WellHeld
  <2>7. nbl[t] # "none" => t \in bufferMem
    BY <1>1 DEF NblInv
  <2>8. QED
    BY <1>1, <1>2, <2>1, <2>2, <2>3, <2>4, <2>5, <2>6, <2>7, WorkOnTask
       DEF BufferOwned, modeVars
<1>11. QED
  BY <1>5, <1>6, <1>7, <1>8, <1>9, <1>10 DEF Deliver

\* Any step of a routing thread.
LEMMA ThreadIInv ==
  ASSUME IInv, NEW p \in Procs, Thread(p)
  PROVE  IInv'
<1>1. TypeOK' /\ TypeOK /\ HeldInv
  BY ThreadType DEF IInv
<1>2. CASE DequeueTask(p)
  <2>1. p # "RTDECISION"
    BY <1>2 DEF DequeueTask, FilterPoints
  <2>2. /\ task'[p] = Head(queue[p]) /\ thread'[p] = "filter"
        /\ \A r \in Procs : r # p => task'[r] = task[r] /\ thread'[r] = thread[r]
    BY <1>1, <1>2 DEF DequeueTask, TypeOK
  <2>3. QED
    BY <1>1, <1>2, <2>1, <2>2, TakeTask DEF DequeueTask
<1>3. CASE DequeueNull(p)
  <2>1. /\ \A r \in Procs : thread'[r] = thread[r] \/ (thread[r] \in Idle /\ thread'[r] \in Idle)
        /\ task' = task
    BY <1>1, <1>3, NextTaskEffect DEF DequeueNull, TypeOK, Idle, NextTask
  <2>2. engine # "done"
    <3>1. CASE engine = "done"
      BY <1>3, <3>1 DEF IInv, StopInv, DequeueNull
    <3>2. QED
      BY <3>1
  <2>3. QED
    BY <1>1, <1>3, <2>1, <2>2, StandStill DEF DequeueNull
<1>4. CASE FilterDrops(p)
  <2>1. PICK t \in Tasks : task[p] = t
    BY <1>1, <1>4 DEF FilterDrops, TypeOK, Idle
  <2>2. nbl[t] = "none"
    BY <1>1, <1>4, <2>1 DEF FilterDrops, HeldInv, WellHeld
  <2>3. QED
    BY <1>1, <1>4, <2>1, <2>2, DropTask DEF FilterDrops
<1>5. CASE FilterAccepts(p)
  BY <1>1, <1>5, FilterAcceptsIInv
<1>6. CASE p = "PREROUTING" /\ Prerouting
  BY <1>1, <1>6, PreroutingIInv
<1>7. CASE p = "FORWARDING" /\ PassToDecision
  <2>1. PICK t \in Tasks : task[p] = t
    BY <1>1, <1>7 DEF PassToDecision, TypeOK, Idle
  <2>2. Reaches(t, "RTDECISION") /\ "RTDECISION" \in Procs
    BY <1>1, <1>7, <2>1 DEF PassToDecision, HeldInv, WellHeld, Passed, Reaches, Undecided,
                            Entries, Procs
  <2>3. QED
    BY <1>1, <1>7, <2>1, <2>2, PassTask DEF PassToDecision
<1>8. CASE p = "OUTPUT" /\ PassOutput
  <2>1. PICK t \in Tasks : task[p] = t
    BY <1>1, <1>8 DEF PassOutput, TypeOK, Idle
  <2>2. path[t] = <<"OUTPUT">>
    BY <1>1, <1>8, <2>1 DEF PassOutput, HeldInv, WellHeld, Passed, Entries
  <2>3. CASE isModified[t]
    <3>1. Reaches(t, "RTDECISION") /\ "RTDECISION" \in Procs
      BY <2>2, <2>3 DEF Reaches, Undecided, Entries, Procs
    <3>2. QED
      BY <1>1, <1>8, <2>1, <2>3, <3>1, PassTask DEF PassOutput
  <2>4. CASE ~isModified[t]
    <3>1. Reaches(t, "POSTROUTING") /\ "POSTROUTING" \in Procs
      BY <2>2 DEF Reaches, Entries, Procs
    <3>2. QED
      BY <1>1, <1>8, <2>1, <2>4, <3>1, PassTask DEF PassOutput
  <2>5. QED
    BY <2>3, <2>4
<1>9. CASE p = "RTDECISION" /\ RoutingDecision
  <2>1. /\ task'[p] = NULL /\ thread'[p] \in Idle
        /\ \A r \in Procs : r # p => task'[r] = task[r] /\ thread'[r] = thread[r]
    BY <1>1, <1>9, NextTaskEffect DEF RoutingDecision
  <2>2. QED
    BY <1>1, <1>9, <2>1, TakeTask DEF RoutingDecision
<1>10. CASE p \in Exits /\ Deliver(p)
  BY <1>1, <1>10, DeliverIInv
<1>11. QED
  BY <1>2, <1>3, <1>4, <1>5, <1>6, <1>7, <1>8, <1>9, <1>10 DEF Thread

-----------------------------------------------------------------------------
(* The handlers, NDIS, the IOCTL and StopRoutingEngine.                    *)

\* A handler at an entry allocates a buffer, creates its task, or fails to.
LEMMA HandlersIInv ==
  ASSUME IInv, NEW e \in Entries, NEW t \in Tasks,
         AllocatePacketBuffer(e, t) \/ CreateTask(e, t) \/ CreateTaskFails(e, t)
  PROVE  IInv'
<1>1. TypeOK' /\ e \in Procs
  BY HandlersType DEF IInv, Entries, Procs
<1>2. /\ TypeOK /\ FreshInv /\ PacketInv /\ QueueInv /\ HeldInv /\ AloneInv /\ NblInv
      /\ HandedInv /\ ModeInv /\ ForgottenInv /\ BufferInv /\ StopInv
  BY DEF IInv
<1>3. /\ UNCHANGED <<thread, task, isModified, nbl, ipForwardingMode, modeChanges, engine,
                     path, handed>>
      /\ \A u \in Tasks : NotHanded(u) => NotHanded(u)'
  BY DEF AllocatePacketBuffer, CreateTask, CreateTaskFails, NotHanded, modeVars, histVars
<1>4. t \notin taskMem /\ nbl[t] = "none" /\ NotHanded(t) /\ path[t] = <<>>
  BY <1>2 DEF AllocatePacketBuffer, CreateTask, CreateTaskFails, FreshInv, PacketInv
<1>5. /\ \A r \in Procs : task[r] # t
      /\ \A r \in Procs : \A i \in 1..Len(queue[r]) : queue[r][i] # t
  BY <1>2, <1>4 DEF HeldInv, WellHeld, QueueInv, WellQueued
<1>6. \A u \in Tasks : u # t => Same(u)
  BY <1>2, <1>3 DEF AllocatePacketBuffer, CreateTask, CreateTaskFails, Same, TypeOK
<1>7. HandedInv' /\ ModeInv'
  BY <1>2, <1>3 DEF HandedInv, ModeInv
<1>8. HeldInv'
  BY <1>2, <1>3, <1>5, <1>6, SameTask DEF HeldInv
<1>9. PacketInv'
  <2>1. CASE AllocatePacketBuffer(e, t)
    <3>1. \A d \in Entries : t \notin packet[d]
      BY <1>2, <2>1 DEF AllocatePacketBuffer, FreshInv
    <3>2. QED
      BY <1>2, <1>3, <1>4, <2>1, <3>1
         DEF AllocatePacketBuffer, PacketInv, TypeOK, threadFlag, NotHanded
  <2>2. CASE CreateTask(e, t)
    BY <1>2, <1>3, <2>2 DEF CreateTask, PacketInv, TypeOK
  <2>3. CASE CreateTaskFails(e, t)
    BY <1>2, <1>3, <2>3 DEF CreateTaskFails, PacketInv, TypeOK
  <2>4. QED
    BY <2>1, <2>2, <2>3
<1>10. FreshInv'
  <2>1. CASE AllocatePacketBuffer(e, t)
    BY <1>2, <1>3, <2>1 DEF AllocatePacketBuffer, FreshInv, TypeOK
  <2>2. CASE CreateTask(e, t)
    BY <1>2, <1>3, <2>2 DEF CreateTask, FreshInv, PacketInv, TypeOK
  <2>3. CASE CreateTaskFails(e, t)
    BY <1>2, <1>3, <1>4, <2>3 DEF CreateTaskFails, FreshInv, PacketInv, TypeOK
  <2>4. QED
    BY <2>1, <2>2, <2>3
<1>11. BufferInv'
  <2>1. t \in bufferMem' => BufferOwned(t)'
    BY <1>2 DEF AllocatePacketBuffer, CreateTask, CreateTaskFails, BufferOwned, TypeOK
  <2>2. ASSUME NEW u \in Tasks, u # t, u \in bufferMem' PROVE BufferOwned(u)'
    <3>1. BufferOwned(u)
      BY <1>2, <1>6, <2>2 DEF BufferInv, Same
    <3>2. \A d \in Entries : u \in packet[d] => u \in packet'[d]
      BY <1>2, <2>2 DEF AllocatePacketBuffer, CreateTask, CreateTaskFails, TypeOK
    <3>3. QED
      BY <1>6, <2>2, <3>1, <3>2 DEF BufferOwned, Same
  <2>3. QED
    BY <2>1, <2>2 DEF BufferInv
<1>12. NblInv'
  BY <1>2, <1>4, <1>6, <1>3 DEF NblInv, Same
<1>13. CASE ~CreateTask(e, t)
  <2>1. UNCHANGED <<queue, taskMem>>
    BY <1>13 DEF AllocatePacketBuffer, CreateTaskFails
  <2>2. QueueInv'
    BY <1>2, <1>5, <1>6, <2>1, SameTask DEF QueueInv
  <2>3. AloneInv' /\ StopInv'
    BY <1>2, <1>3, <2>1 DEF AloneInv, StopInv
  <2>4. ForgottenInv'
    <3>1. \A u \in Tasks : (Owned(u) => Owned(u)') /\ (MayForget(u) => MayForget(u)')
      BY <1>3, <2>1 DEF Owned, MayForget, Undecided
    <3>2. QED
      BY <1>2, <2>1, <3>1 DEF ForgottenInv
  <2>5. QED
    BY <1>1, <1>7, <1>8, <1>9, <1>10, <1>11, <1>12, <2>2, <2>3, <2>4 DEF IInv
<1>14. CASE CreateTask(e, t)
  <2>1. /\ Len(queue'[e]) = Len(queue[e]) + 1 /\ Len(queue[e]) \in Nat
        /\ \A i \in 1..Len(queue[e]) : queue'[e][i] = queue[e][i]
        /\ queue'[e][Len(queue[e]) + 1] = t
        /\ \A r \in Procs : r # e => queue'[r] = queue[r]
    BY <1>1, <1>2, <1>14, AppendItems DEF TypeOK, CreateTask
  <2>2. ASSUME NEW r \in Procs, NEW i \in 1..Len(queue'[r])
        PROVE  \/ r = e /\ i = Len(queue[e]) + 1 /\ queue'[r][i] = t
               \/ i \in 1..Len(queue[r]) /\ queue'[r][i] = queue[r][i]
    BY <2>1
  <2>3. t \in taskMem' /\ t \in bufferMem'
    BY <1>2, <1>14 DEF CreateTask, PacketInv
  <2>4. WellQueued(e, t)'
    BY <1>3, <1>4, <2>3 DEF WellQueued, Reaches, Entries
  <2>5. QueueInv'
    <3> SUFFICES ASSUME NEW r \in Procs, NEW i \in 1..Len(queue'[r]), NEW u \in Tasks,
                        queue'[r][i] = u
                 PROVE  WellQueued(r, u)'
      BY DEF QueueInv
    <3>1. CASE r = e /\ u = t
      BY <2>4, <3>1
    <3>2. CASE i \in 1..Len(queue[r]) /\ queue[r][i] = u
      <4>1. u # t /\ WellQueued(r, u)
        BY <1>2, <1>5, <3>2 DEF QueueInv
      <4>2. QED
        BY <1>6, <4>1, SameTask
    <3>3. QED
      BY <2>2, <3>1, <3>2
  <2>6. AloneInv'
    <3>1. \A o, r \in Procs : \A i \in 1..Len(queue'[o]) : task'[r] # queue'[o][i]
      BY <1>2, <1>3, <1>5, <2>2 DEF AloneInv
    <3>2. \A o, r \in Procs : task'[o] = task'[r] /\ task'[o] # NULL => o = r
      BY <1>2, <1>3 DEF AloneInv
    <3>3. ASSUME NEW o \in Procs, NEW r \in Procs, NEW i \in 1..Len(queue'[o]),
                 NEW j \in 1..Len(queue'[r]), queue'[o][i] = queue'[r][j]
          PROVE  o = r /\ i = j
      <4>1. CASE queue'[o][i] = t
        <5>1. o = e /\ i = Len(queue[e]) + 1
          BY <1>5, <2>2, <4>1
        <5>2. r = e /\ j = Len(queue[e]) + 1
          BY <1>5, <2>2, <3>3, <4>1
        <5>3. QED
          BY <5>1, <5>2
      <4>2. CASE queue'[o][i] # t
        <5>1. /\ i \in 1..Len(queue[o]) /\ queue'[o][i] = queue[o][i]
              /\ j \in 1..Len(queue[r]) /\ queue'[r][j] = queue[r][j]
          BY <2>2, <3>3, <4>2
        <5>2. AloneInv /\ queue[o][i] = queue[r][j]
          BY <1>2, <3>3, <5>1
        <5>3. QED
          BY <5>1, <5>2 DEF AloneInv
      <4>3. QED
        BY <4>1, <4>2
    <3>4. QED
      BY <3>1, <3>2, <3>3 DEF AloneInv
  <2>7. ForgottenInv'
    <3> SUFFICES ASSUME NEW u \in Tasks, u \in taskMem'
                 PROVE  Owned(u)' \/ MayForget(u)'
      BY DEF ForgottenInv
    <3>1. CASE u = t
      <4>1. Len(queue[e]) + 1 \in 1..Len(queue'[e])
        BY <2>1
      <4>2. QED
        BY <1>1, <2>1, <3>1, <4>1 DEF Owned
    <3>2. ASSUME NEW r \in Procs, task[r] = u PROVE Owned(u)'
      BY <1>3, <3>2 DEF Owned
    <3>3. ASSUME NEW r \in Procs, NEW i \in 1..Len(queue[r]), queue[r][i] = u
          PROVE  Owned(u)'
      <4>1. i \in 1..Len(queue'[r]) /\ queue'[r][i] = u
        BY <2>1, <3>3
      <4>2. QED
        BY <4>1 DEF Owned
    <3>4. MayForget(u) => MayForget(u)'
      BY <1>3 DEF MayForget, Undecided
    <3>5. u # t => Owned(u) \/ MayForget(u)
      BY <1>2, <1>6 DEF ForgottenInv, Same
    <3>6. QED
      BY <3>1, <3>2, <3>3, <3>4, <3>5 DEF Owned
  <2>8. StopInv'
    BY <1>2, <1>3, <1>14 DEF StopInv, CreateTask, PacketInv
  <2>9. QED
    BY <1>1, <1>7, <1>8, <1>9, <1>10, <1>11, <1>12, <2>5, <2>6, <2>7, <2>8 DEF IInv
<1>15. QED
  BY <1>13, <1>14

\* NDIS returns an NBL, which frees the packet buffer.
LEMMA NblFinishedIInv ==
  ASSUME IInv, NEW t \in Tasks, NblFinished(t)
  PROVE  IInv'
<1>1. TypeOK'
  BY OthersType DEF IInv
<1>2. /\ TypeOK /\ FreshInv /\ PacketInv /\ QueueInv /\ HeldInv /\ AloneInv /\ NblInv
      /\ HandedInv /\ ModeInv /\ ForgottenInv /\ BufferInv /\ StopInv
  BY DEF IInv
<1>3. /\ UNCHANGED <<fresh, packet, queue, thread, task, isModified, taskMem,
                     ipForwardingMode, modeChanges, engine, path, handed>>
      /\ nbl[t] = "ndis" /\ nbl'[t] = "none" /\ bufferMem' = bufferMem \ {t}
      /\ \A u \in Tasks : u # t => nbl'[u] = nbl[u]
  BY <1>2 DEF NblFinished, TypeOK, modeVars, histVars
<1>4. /\ t \notin fresh /\ \A e \in Entries : t \notin packet[e]
      /\ \A r \in Procs : \A i \in 1..Len(queue[r]) : queue[r][i] # t
      /\ \A r \in Procs : task[r] = t => thread[r] = "release"
  <2>1. t \notin fresh /\ \A e \in Entries : t \notin packet[e]
    BY <1>2, <1>3 DEF FreshInv, PacketInv
  <2>2. \A r \in Procs : \A i \in 1..Len(queue[r]) : queue[r][i] # t
    BY <1>2, <1>3 DEF QueueInv, WellQueued
  <2>3. ASSUME NEW r \in Procs, task[r] = t PROVE thread[r] = "release"
    <3>1. WellHeld(r, t) /\ thread[r] \in Busy
      BY <1>2, <2>3, NullAssumption DEF HeldInv, TypeOK
    <3>2. QED
      BY <1>3, <3>1 DEF WellHeld, Busy
  <2>4. QED
    BY <2>1, <2>2, <2>3
<1>5. \A u \in Tasks : u # t => Same(u)
  BY <1>3 DEF Same, NotHanded
<1>6. FreshInv' /\ PacketInv' /\ HandedInv' /\ AloneInv' /\ ModeInv' /\ StopInv'
  BY <1>2, <1>3, <1>4
     DEF FreshInv, PacketInv, HandedInv, AloneInv, ModeInv, StopInv, NotHanded, TypeOK
<1>7. QueueInv'
  BY <1>2, <1>3, <1>4, <1>5, SameTask DEF QueueInv
<1>8. HeldInv'
  <2> SUFFICES ASSUME NEW r \in Procs, NEW u \in Tasks, task[r] = u
               PROVE  WellHeld(r, u)'
    BY <1>3 DEF HeldInv
  <2>1. WellHeld(r, u)
    BY <1>2 DEF HeldInv
  <2>2. CASE u = t
    BY <1>3, <1>4, <2>1, <2>2 DEF WellHeld, Passed
  <2>3. CASE u # t
    BY <1>3, <1>5, <2>1, <2>3, SameTask
  <2>4. QED
    BY <2>2, <2>3
<1>9. NblInv' /\ BufferInv'
  BY <1>2, <1>3 DEF NblInv, BufferInv, BufferOwned
<1>10. ForgottenInv'
  BY <1>2, <1>3 DEF ForgottenInv, Owned, MayForget, Undecided
<1>11. QED
  BY <1>1, <1>6, <1>7, <1>8, <1>9, <1>10 DEF IInv

\* A change of the forwarding mode; a second one lets PreroutingThread see two
\* modes in one decision.
LEMMA SetForwardingModeIInv ==
  ASSUME IInv, NEW mode \in Modes, SetForwardingMode(mode)
  PROVE  IInv'
<1>1. TypeOK'
  BY OthersType DEF IInv
<1>2. /\ TypeOK /\ FreshInv /\ PacketInv /\ QueueInv /\ HeldInv /\ AloneInv /\ NblInv
      /\ HandedInv /\ ModeInv /\ ForgottenInv /\ BufferInv /\ StopInv
  BY DEF IInv
<1>3. /\ UNCHANGED <<fresh, packet, queue, thread, task, isModified, taskMem, bufferMem, nbl,
                     engine, path, handed>>
      /\ modeChanges \in Nat /\ modeChanges' = modeChanges + 1
      /\ ipForwardingMode' = mode /\ mode # ipForwardingMode
  BY <1>2, BoundAssumption DEF SetForwardingMode, TypeOK, memVars, histVars
<1>4. \A u \in Tasks : Same(u)
  BY <1>3 DEF Same, NotHanded
<1>5. /\ FreshInv' /\ PacketInv' /\ HandedInv' /\ AloneInv' /\ NblInv' /\ StopInv'
      /\ BufferInv'
  BY <1>2, <1>3 DEF FreshInv, PacketInv, HandedInv, AloneInv, NblInv, StopInv, BufferInv,
                    BufferOwned, NotHanded
<1>6. QueueInv' /\ HeldInv'
  BY <1>2, <1>3, <1>4, SameTask DEF QueueInv, HeldInv
<1>7. ModeInv'
  <2>1. modeChanges' > 0
    BY <1>3
  <2>2. modeChanges' = 1 => ipForwardingMode = "SYSTEM" /\ modeChanges = 0
    BY <1>2, <1>3 DEF ModeInv
  <2>3. modeChanges = 0 => thread["PREROUTING"] \notin {"lookup", "forward", "disable"}
    BY <1>2 DEF ModeInv
  <2>4. QED
    BY <1>3, <2>1, <2>2, <2>3 DEF ModeInv
<1>8. ForgottenInv'
  <2>1. \A u \in Tasks : (Owned(u) => Owned(u)') /\ (Undecided(u) => Undecided(u)')
    BY <1>3 DEF Owned, Undecided
  <2>2. modeChanges > 1 => modeChanges' > 1
    BY <1>3
  <2>3. \A u \in Tasks : MayForget(u) => MayForget(u)'
    BY <1>3, <2>1, <2>2 DEF MayForget
  <2>4. QED
    BY <1>2, <1>3, <2>1, <2>3 DEF ForgottenInv
<1>9. QED
  BY <1>1, <1>5, <1>6, <1>7, <1>8 DEF IInv

\* StopRoutingEngine clears the flag, sets the signal, and drains the queues.
LEMMA StoppingIInv ==
  ASSUME IInv, Stopping
  PROVE  IInv'
<1>1. TypeOK'
  BY OthersType DEF IInv
<1>2. /\ TypeOK /\ FreshInv /\ PacketInv /\ QueueInv /\ HeldInv /\ AloneInv /\ NblInv
      /\ HandedInv /\ ModeInv /\ ForgottenInv /\ BufferInv /\ StopInv
  BY DEF IInv
<1>3. CASE StopClearFlag
  <2>1. \A r \in Procs : thread'[r] = thread[r] \/ (thread[r] \in Idle /\ thread'[r] \in Idle)
    BY <1>3 DEF StopClearFlag, Idle
  <2>2. QED
    BY <1>1, <1>3, <2>1, StandStill DEF StopClearFlag
<1>4. CASE StopSetSignal
  <2>1. \A e \in Entries : packet[e] = {}
    BY <1>2, <1>4 DEF StopSetSignal, PacketInv, TypeOK
  <2>2. QED
    BY <1>1, <1>4, <2>1, StandStill DEF StopSetSignal
<1>5. CASE StopDrain
  <2>1. /\ UNCHANGED <<fresh, packet, thread, task, isModified, nbl, ipForwardingMode,
                       modeChanges, path, handed>>
        /\ engine = "signalled" /\ engine' = "done"
        /\ \A p \in Procs : thread[p] = "exit" /\ queue'[p] = <<>> /\ Len(queue'[p]) = 0
        /\ taskMem' = taskMem \ Queued /\ bufferMem' = bufferMem \ Queued
    BY <1>5 DEF StopDrain, modeVars, histVars
  <2>2. \A u \in Tasks : u \in Queued <=> \E p \in Procs : \E i \in 1..Len(queue[p]) : queue[p][i] = u
    BY <1>2 DEF Queued, TypeOK
  <2>3. \A p \in Procs : task[p] = NULL
    BY <1>2, <2>1 DEF TypeOK, Idle
  <2>4. PacketInv'
    BY <1>2, <2>1 DEF PacketInv
  <2>5. FreshInv'
    BY <1>2, <2>1 DEF FreshInv, NotHanded
  <2>6. QueueInv'
    BY <2>1 DEF QueueInv
  <2>7. HeldInv'
    BY <2>1, <2>3, NullAssumption DEF HeldInv
  <2>8. AloneInv'
    <3>1. \A p \in Procs : \A i \in 1..Len(queue'[p]) : FALSE
      BY <2>1
    <3>2. QED
      BY <2>1, <2>3, <3>1 DEF AloneInv
  <2>9. \A u \in Tasks : u \in Queued => nbl[u] = "none"
    BY <1>2, <2>2 DEF QueueInv, WellQueued
  <2>10. NblInv' /\ HandedInv' /\ ModeInv' /\ StopInv'
    BY <1>2, <2>1, <2>9 DEF NblInv, HandedInv, ModeInv, StopInv
  <2>11. ForgottenInv'
    <3> SUFFICES ASSUME NEW u \in Tasks, u \in taskMem \ Queued
                 PROVE  MayForget(u)'
      BY <2>1 DEF ForgottenInv
    <3>1. ~Owned(u)
      BY <2>2, <2>3, NullAssumption DEF Owned
    <3>2. MayForget(u)
      BY <1>2, <3>1 DEF ForgottenInv
    <3>3. QED
      BY <2>1, <3>2 DEF MayForget, Undecided
  <2>12. BufferInv'
    BY <1>2, <2>1 DEF BufferInv, BufferOwned
  <2>13. QED
    BY <1>1, <2>4, <2>5, <2>6, <2>7, <2>8, <2>10, <2>11, <2>12 DEF IInv
<1>6. QED
  BY <1>3, <1>4, <1>5 DEF Stopping

-----------------------------------------------------------------------------

\* The invariant is inductive.
LEMMA NextIInv == IInv /\ [Next]_vars => IInv'
<1> SUFFICES ASSUME IInv, [Next]_vars PROVE IInv'
  OBVIOUS
<1>1. CASE Handlers
  BY <1>1, HandlersIInv DEF Handlers
<1>2. ASSUME NEW p \in Procs, Thread(p) PROVE IInv'
  BY <1>2, ThreadIInv
<1>3. ASSUME NEW t \in Tasks, NblFinished(t) PROVE IInv'
  BY <1>3, NblFinishedIInv
<1>4. ASSUME NEW mode \in Modes, SetForwardingMode(mode) PROVE IInv'
  BY <1>4, SetForwardingModeIInv
<1>5. CASE Stopping
  BY <1>5, StoppingIInv
<1>6. CASE UNCHANGED vars
  <2>1. UNCHANGED <<fresh, packet, queue, thread, task, isModified, taskMem, bufferMem, nbl,
                    ipForwardingMode, modeChanges, engine, path, handed>>
    BY <1>6 DEF vars, memVars, modeVars, histVars
  <2>2. TypeOK'
    BY <2>1 DEF IInv, TypeOK
  <2>3. \A u \in Tasks : Same(u)
    BY <2>1 DEF Same, NotHanded
  <2>4. CASE engine = "done"
    <3>1. FreshInv' /\ PacketInv' /\ AloneInv' /\ NblInv'
      BY <2>1 DEF IInv, FreshInv, PacketInv, AloneInv, NblInv, NotHanded
    <3>2. QueueInv' /\ HeldInv'
      BY <2>1, <2>3, SameTask DEF IInv, QueueInv, HeldInv
    <3>3. HandedInv' /\ ModeInv' /\ ForgottenInv' /\ BufferInv' /\ StopInv'
      BY <2>1 DEF IInv, HandedInv, ModeInv, ForgottenInv, BufferInv, StopInv, Owned,
                  MayForget, Undecided, BufferOwned
    <3>4. QED
      BY <2>2, <3>1, <3>2, <3>3 DEF IInv
  <2>5. CASE engine # "done"
    BY <2>1, <2>2, <2>5, StandStill DEF memVars, modeVars, histVars
  <2>6. QED
    BY <2>4, <2>5
<1>7. QED
  BY <1>1, <1>2, <1>3, <1>4, <1>5, <1>6 DEF Next, Terminated

\* Everything the invariant says holds in every reachable state.
THEOREM InductiveInvariant == Spec => []IInv
<1>1. QED
  BY InitIInv, NextIInv, PTL DEF Spec

\* The variables keep their types.
THEOREM TypeCorrect == Spec => []TypeOK
<1>1. IInv => TypeOK
  BY DEF IInv
<1>2. QED
  BY <1>1, InductiveInvariant, PTL

\* What is queued or in a thread's hands: the operators the properties use.
LEMMA Whereabouts ==
  ASSUME TypeOK, NEW t \in Tasks
  PROVE  /\ t \in Queued <=> \E p \in Procs : \E i \in 1..Len(queue[p]) : queue[p][i] = t
         /\ t \in Held <=> \E p \in Procs : task[p] = t
<1>1. \A p \in Procs : DOMAIN queue[p] = 1..Len(queue[p])
  BY DEF TypeOK
<1>2. QED
  BY <1>1, NullAssumption DEF Queued, Held

\* Every pointer the engine holds is to live memory.
THEOREM PointersAreLive == Spec => []PointersLive
<1>1. IInv => PointersLive
  <2> SUFFICES ASSUME IInv PROVE PointersLive
    OBVIOUS
  <2>1. TypeOK /\ PacketInv /\ QueueInv /\ HeldInv /\ NblInv
    BY DEF IInv
  <2>2. Queued \subseteq Tasks /\ Held \subseteq Tasks
    BY <2>1 DEF TypeOK, Queued, Held
  <2>3. \A t \in Queued : t \in taskMem /\ t \in bufferMem
    BY <2>1, <2>2, Whereabouts DEF QueueInv, WellQueued
  <2>4. \A t \in Held : t \in taskMem
    BY <2>1, <2>2, Whereabouts DEF HeldInv, WellHeld
  <2>5. \A p \in Procs :
          task[p] # NULL /\ thread[p] # "release" => task[p] \in bufferMem
    BY <2>1 DEF TypeOK, HeldInv, WellHeld
  <2>6. \A e \in Entries : packet[e] \subseteq bufferMem
    BY <2>1 DEF PacketInv
  <2>7. QED
    BY <2>1, <2>3, <2>4, <2>5, <2>6 DEF PointersLive, NblInv
<1>2. QED
  BY <1>1, InductiveInvariant, PTL

\* No task or buffer has two owners, hence nothing is freed twice.
THEOREM OneOwner == Spec => []SingleOwner
<1>1. IInv => SingleOwner
  <2> SUFFICES ASSUME IInv PROVE SingleOwner
    OBVIOUS
  <2>1. TypeOK /\ QueueInv /\ AloneInv
    BY DEF IInv
  <2>2. Queued \subseteq Tasks /\ \A p \in Procs : DOMAIN queue[p] = 1..Len(queue[p])
    BY <2>1 DEF TypeOK, Queued
  <2>3. Queued \cap Held = {}
    BY <2>1, <2>2, Whereabouts DEF AloneInv
  <2>4. \A t \in Queued : nbl[t] = "none"
    BY <2>1, <2>2, Whereabouts DEF QueueInv, WellQueued
  <2>5. QED
    BY <2>1, <2>2, <2>3, <2>4 DEF SingleOwner, AloneInv
<1>2. QED
  BY <1>1, InductiveInvariant, PTL

\* No packet reaches NDIS past a filter point of its way.
THEOREM FilteredBeforeNdis == Spec => []FilteredOnTheWay
<1>1. IInv => FilteredOnTheWay
  <2> SUFFICES ASSUME IInv PROVE FilteredOnTheWay
    OBVIOUS
  <2>1. HandedInv /\ \A p \in Exits : handed[p] \in Seq(Tasks)
    BY DEF IInv, TypeOK
  <2>2. \A p \in Exits : DOMAIN handed[p] = 1..Len(handed[p])
    BY <2>1
  <2>3. \A p \in Exits : \A i \in DOMAIN handed[p] :
          path[handed[p][i]] =
            IF p = "INPUT" THEN <<"PREROUTING", "INPUT">> ELSE <<"OUTPUT", "POSTROUTING">>
    BY <2>1, <2>2 DEF HandedInv
  <2>4. QED
    BY <2>3 DEF FilteredOnTheWay, Exits
<1>2. QED
  BY <1>1, InductiveInvariant, PTL

\* Tasks are leaked by RoutingDecisionThread and by mode changes only.
THEOREM LeaksAreKnown == Spec => []ForgottenOnlyByDesign
<1>1. IInv => ForgottenOnlyByDesign
  <2> SUFFICES ASSUME IInv PROVE ForgottenOnlyByDesign
    OBVIOUS
  <2>1. TypeOK /\ ForgottenInv
    BY DEF IInv
  <2>2. ASSUME NEW t \in Forgotten PROVE MayForget(t)
    <3>1. t \in Tasks /\ ~Owned(t)
      BY <2>1, Whereabouts DEF Forgotten, Owned, TypeOK
    <3>2. QED
      BY <2>1, <3>1 DEF ForgottenInv, Forgotten
  <2>3. QED
    BY <2>2 DEF ForgottenOnlyByDesign, MayForget, Undecided
<1>2. QED
  BY <1>1, InductiveInvariant, PTL

\* StopRoutingEngine leaves nothing behind but forgotten tasks and what NDIS has.
THEOREM StopFreesTheRest == Spec => []StopReclaims
<1>1. IInv => StopReclaims
  <2> SUFFICES ASSUME IInv, engine = "done" PROVE taskMem \subseteq Forgotten
                 /\ \A t \in bufferMem : t \in Forgotten \/ nbl[t] = "ndis"
    BY DEF StopReclaims
  <2>1. TypeOK /\ PacketInv /\ BufferInv /\ StopInv
    BY DEF IInv
  <2>2. Queued = {}
    BY <2>1 DEF Queued, StopInv
  <2>3. Held = {}
    BY <2>1 DEF Held, StopInv, TypeOK, Idle
  <2>4. \A e \in Entries : packet[e] = {}
    BY <2>1 DEF PacketInv, TypeOK
  <2>5. \A t \in bufferMem : t \in taskMem \/ nbl[t] = "ndis"
    BY <2>1, <2>4 DEF BufferInv, BufferOwned, TypeOK
  <2>6. QED
    BY <2>2, <2>3, <2>5 DEF Forgotten
<1>2. QED
  BY <1>1, InductiveInvariant, PTL

-----------------------------------------------------------------------------
(* Sequences with an item in front, or one taken out.                      *)

\* One element, as a sequence.
LEMMA One ==
  ASSUME NEW S, NEW t \in S
  PROVE  <<t>> \in Seq(S) /\ Len(<<t>>) = 1 /\ <<t>>[1] = t
OBVIOUS

\* What concatenation keeps: the items of the one, then those of the other.
LEMMA ConcatItems ==
  ASSUME NEW S, NEW s \in Seq(S), NEW u \in Seq(S)
  PROVE  /\ s \o u \in Seq(S) /\ Len(s \o u) = Len(s) + Len(u)
         /\ Len(s) \in Nat /\ Len(u) \in Nat
         /\ \A i \in 1..Len(s) : (s \o u)[i] = s[i]
         /\ \A i \in 1..Len(u) : (s \o u)[Len(s) + i] = u[i]
<1> DEFINE all == s \o u
           n == Len(s)
           m == Len(u)
<1>1. /\ all \in Seq(S) /\ Len(all) = n + m
      /\ \A i \in 1..n+m : all[i] = IF i <= n THEN s[i] ELSE u[i - n]
  BY ConcatProperties
<1>2. n \in Nat /\ m \in Nat
  OBVIOUS
<1> HIDE DEF all, n, m
<1>3. \A i \in 1..n : all[i] = s[i]
  BY <1>1, <1>2
<1>4. ASSUME NEW i \in 1..m PROVE all[n + i] = u[i]
  <2>1. n + i \in 1..n+m /\ ~(n + i <= n) /\ (n + i) - n = i
    BY <1>2
  <2>2. QED
    BY <1>1, <2>1
<1>5. QED
  BY <1>1, <1>2, <1>3, <1>4 DEF all, n, m

\* A sequence is its head, and then its tail.
LEMMA HeadAndTail ==
  ASSUME NEW S, NEW s \in Seq(S), s # <<>>
  PROVE  Head(s) \in S /\ Tail(s) \in Seq(S) /\ s = <<Head(s)>> \o Tail(s)
<1>1. Head(s) \in S /\ Tail(s) \in Seq(S) /\ Len(Tail(s)) = Len(s) - 1 /\ Head(s) = s[1]
      /\ Len(s) \in Nat /\ \A i \in 1..Len(Tail(s)) : Tail(s)[i] = s[i + 1]
  BY HeadTailProperties
<1> DEFINE h == <<Head(s)>>
           r == Tail(s)
           u == h \o r
<1>2. h \in Seq(S) /\ Len(h) = 1 /\ h[1] = s[1]
  BY <1>1, One
<1>3. r \in Seq(S) /\ Len(r) = Len(s) - 1 /\ \A i \in 1..Len(r) : r[i] = s[i + 1]
  BY <1>1
<1> HIDE DEF h, r
<1>4. /\ u \in Seq(S) /\ Len(u) = Len(h) + Len(r)
      /\ \A i \in 1..Len(h) : u[i] = h[i]
      /\ \A i \in 1..Len(r) : u[Len(h) + i] = r[i]
  <2>1. h \in Seq(S) /\ r \in Seq(S)
    BY <1>2, <1>3
  <2>2. QED
    BY <2>1, ConcatItems
<1> HIDE DEF u
<1>5. ASSUME NEW i \in 1..Len(s) PROVE u[i] = s[i]
  <2>1. CASE i = 1
    BY <1>2, <1>4, <2>1
  <2>2. CASE i # 1
    <3>1. i - 1 \in 1..Len(r) /\ (i - 1) + 1 = i /\ Len(h) + (i - 1) = i
      BY <1>1, <1>2, <1>3, <2>2
    <3>2. u[i] = r[i - 1] /\ r[i - 1] = s[i]
      BY <1>3, <1>4, <3>1
    <3>3. QED
      BY <3>2
  <2>3. QED
    BY <2>1, <2>2
<1>6. Len(u) = Len(s)
  BY <1>1, <1>2, <1>3, <1>4
<1>7. u = s
  BY <1>4, <1>5, <1>6, SeqEqual
<1>8. QED
  BY <1>1, <1>7 DEF u, h, r

\* The head and the tail of a sequence with an item in front.
LEMMA HeadOfConcat ==
  ASSUME NEW S, NEW t \in S, NEW s \in Seq(S)
  PROVE  <<t>> \o s # <<>> /\ Head(<<t>> \o s) = t /\ Tail(<<t>> \o s) = s
<1> DEFINE h == <<t>>
           u == h \o s
<1>1. h \in Seq(S) /\ Len(h) = 1 /\ h[1] = t
  BY One
<1> HIDE DEF h
<1>2. /\ u \in Seq(S) /\ Len(u) = Len(h) + Len(s) /\ Len(s) \in Nat
      /\ \A i \in 1..Len(h) : u[i] = h[i]
      /\ \A i \in 1..Len(s) : u[Len(h) + i] = s[i]
  <2>1. h \in Seq(S) /\ s \in Seq(S)
    BY <1>1
  <2>2. QED
    BY <2>1, ConcatItems
<1> HIDE DEF u
<1>3. u # <<>> /\ Head(u) = t
  BY <1>1, <1>2
<1>4. /\ Tail(u) \in Seq(S) /\ Len(Tail(u)) = Len(u) - 1
      /\ \A i \in 1..Len(Tail(u)) : Tail(u)[i] = u[i + 1]
  BY <1>2, <1>3, HeadTailProperties
<1>5. Len(Tail(u)) = Len(s)
  BY <1>1, <1>2, <1>4
<1>6. ASSUME NEW i \in 1..Len(s) PROVE Tail(u)[i] = s[i]
  <2>1. Tail(u)[i] = u[i + 1] /\ i + 1 = Len(h) + i
    BY <1>1, <1>4, <1>5
  <2>2. QED
    BY <1>2, <2>1
<1>7. Tail(u) = s
  BY <1>4, <1>5, <1>6, SeqEqual
<1>8. QED
  BY <1>3, <1>7 DEF u, h

\* A sequence with one item put in front.
Before(t, s) == <<t>> \o s

\* Taking an item out of the middle of a sequence.
LEMMA WithoutOne ==
  ASSUME NEW s \in Seq(Tasks), NEW t \in Tasks, NEW u \in Seq(Tasks)
  PROVE  \E i \in DOMAIN (s \o Before(t, u)) :
           SubSeq(s \o Before(t, u), 1, i-1)
             \o SubSeq(s \o Before(t, u), i+1, Len(s \o Before(t, u))) = s \o u
<1> DEFINE h == <<t>>
           sh == s \o h
           all == sh \o u
           n == Len(s)
           m == Len(u)
           front == SubSeq(all, 1, n)
           back == SubSeq(all, n+2, Len(all))
<1>1. h \in Seq(Tasks) /\ Len(h) = 1
  BY One
<1> HIDE DEF h
<1>2. sh \in Seq(Tasks) /\ Len(sh) = n + Len(h) /\ n \in Nat /\ \A i \in 1..n : sh[i] = s[i]
  <2>1. h \in Seq(Tasks) /\ s \in Seq(Tasks)
    BY <1>1
  <2>2. QED
    BY <2>1, ConcatItems
<1> HIDE DEF sh
<1>3. /\ all \in Seq(Tasks) /\ Len(all) = Len(sh) + m /\ m \in Nat
      /\ \A i \in 1..Len(sh) : all[i] = sh[i]
      /\ \A i \in 1..m : all[Len(sh) + i] = u[i]
  <2>1. sh \in Seq(Tasks) /\ u \in Seq(Tasks)
    BY <1>2
  <2>2. QED
    BY <2>1, ConcatItems
<1>4. s \in Seq(Tasks) /\ Len(s) = n /\ u \in Seq(Tasks) /\ Len(u) = m
  OBVIOUS
<1> HIDE DEF all, n, m
<1>5. Len(sh) = n + 1 /\ Len(all) = n + 1 + m /\ n + 1 \in DOMAIN all
  BY <1>1, <1>2, <1>3
<1>6. \A i \in 1..n : all[i] = s[i] /\ all[i] \in Tasks
  BY <1>2, <1>3, <1>5
<1>7. front \in Seq(Tasks) /\ Len(front) = n /\ \A i \in 1..n : front[i] = all[i]
  BY <1>2, <1>6, SubSeqProperties
<1>8. front = s
  <2> HIDE DEF front
  <2>1. QED
    BY <1>4, <1>6, <1>7, SeqEqual
<1>9. \A i \in n+2..Len(all) : all[i] \in Tasks
  <2>1. all \in Seq(Tasks) /\ n \in Nat
    BY <1>2, <1>3
  <2>2. QED
    BY <2>1
<1>10. /\ back \in Seq(Tasks) /\ Len(back) = m
       /\ \A i \in 1..m : back[i] = all[(n + 1) + i]
  <2> DEFINE k == Len(all)
  <2>a. k = n + 1 + m /\ n \in Nat /\ m \in Nat
    BY <1>2, <1>3, <1>5
  <2> HIDE DEF k
  <2>1. k \in Int /\ n + 2 \in Int /\ k - (n + 2) + 1 = m /\ (n + 2 <= k \/ m = 0)
    BY <2>a
  <2>2. \A i \in n+2..k : all[i] \in Tasks
    BY <1>9 DEF k
  <2>3. /\ SubSeq(all, n+2, k) \in Seq(Tasks)
        /\ Len(SubSeq(all, n+2, k)) = IF n + 2 <= k THEN k - (n + 2) + 1 ELSE 0
        /\ \A i \in 1..k-(n+2)+1 : SubSeq(all, n+2, k)[i] = all[(n + 2) + i - 1]
    BY <2>1, <2>2, SubSeqProperties
  <2>4. back = SubSeq(all, n+2, k)
    BY DEF k
  <2> HIDE DEF back
  <2>5. Len(back) = m
    BY <2>1, <2>3, <2>4
  <2>6. ASSUME NEW i \in 1..m PROVE back[i] = all[(n + 1) + i]
    <3>1. (n + 2) + i - 1 = (n + 1) + i
      BY <1>2
    <3>2. QED
      BY <2>1, <2>3, <2>4, <3>1
  <2>7. QED
    BY <2>3, <2>4, <2>5, <2>6
<1>11. back = u
  <2> HIDE DEF back
  <2>1. \A i \in 1..m : back[i] = u[i]
    BY <1>3, <1>5, <1>10
  <2>2. QED
    BY <1>4, <1>10, <2>1, SeqEqual
<1>12. n = (n + 1) - 1 /\ n + 2 = (n + 1) + 1
  BY <1>2
<1>13. SubSeq(all, 1, (n + 1) - 1) \o SubSeq(all, (n + 1) + 1, Len(all)) = s \o u
  BY <1>8, <1>11, <1>12
<1> HIDE DEF front, back
<1>14. all = s \o Before(t, u)
  <2>1. s \in Seq(Tasks) /\ h \in Seq(Tasks) /\ u \in Seq(Tasks) /\ Before(t, u) = h \o u
    BY <1>1 DEF Before, h
  <2>2. (s \o h) \o u = s \o (h \o u)
    BY <2>1, ConcatAssociative
  <2>3. QED
    BY <2>1, <2>2 DEF all, sh
<1>15. QED
  BY <1>5, <1>13, <1>14

\* What the steps do to a lane, the packets at its exit and then those at its
\* entry.
LEMMA LaneSequences ==
  ASSUME NEW x \in Seq(Tasks), NEW y \in Seq(Tasks), NEW t \in Tasks, NEW u \in Tasks
  PROVE  /\ x \o y \in Seq(Tasks) /\ Before(t, y) \in Seq(Tasks) /\ Append(y, t) \in Seq(Tasks)
         /\ Append(x \o y, t) = x \o Append(y, t)
         /\ Append(x, t) \o y = x \o Before(t, y)
         /\ Before(t, x) \o y = Before(t, x \o y)
         /\ Before(t, Append(y, u)) = Append(Before(t, y), u)
<1> DEFINE h == <<t>>
           v == <<u>>
<1>1. h \in Seq(Tasks) /\ v \in Seq(Tasks)
  BY One
<1>2. Append(x, t) = x \o h /\ Append(y, t) = y \o h /\ Append(y, u) = y \o v
  BY AppendIsConcat
<1>3. /\ x \o y \in Seq(Tasks) => Append(x \o y, t) = (x \o y) \o h
      /\ h \o y \in Seq(Tasks) => Append(h \o y, u) = (h \o y) \o v
  BY AppendIsConcat
<1> HIDE DEF h, v
<1>4. x \o y \in Seq(Tasks) /\ h \o y \in Seq(Tasks) /\ y \o h \in Seq(Tasks)
  BY <1>1, ConcatProperties
<1>5. /\ (x \o y) \o h = x \o (y \o h)
      /\ (x \o h) \o y = x \o (h \o y)
      /\ (h \o x) \o y = h \o (x \o y)
      /\ (h \o y) \o v = h \o (y \o v)
  <2>1. \A p, q, r \in Seq(Tasks) : (p \o q) \o r = p \o (q \o r)
    BY ConcatAssociative
  <2>2. (x \o y) \o h = x \o (y \o h) /\ (x \o h) \o y = x \o (h \o y)
    BY <1>1, <2>1, Zenon
  <2>3. (h \o x) \o y = h \o (x \o y) /\ (h \o y) \o v = h \o (y \o v)
    BY <1>1, <2>1, Zenon
  <2>4. QED
    BY <2>2, <2>3
<1>6. \A s : Before(t, s) = h \o s
  BY DEF Before, h
<1>7. QED
  BY <1>2, <1>3, <1>4, <1>5, <1>6

\* An item in front does not matter to one behind.
LEMMA BeforeAppend ==
  \A t, u \in Tasks : \A y \in Seq(Tasks) : Before(t, Append(y, u)) = Append(Before(t, y), u)
BY LaneSequences

-----------------------------------------------------------------------------
(* The lanes of PacketLanes: the threads at the two ends of each, and what *)
(* a step does to an end and with it to the lane.                          *)

Ends == Entries \cup Exits

\* The packets at an end of a lane, by the state of its thread.
LEMMA EndOfLane ==
  ASSUME TypeOK, NEW p \in Procs
  PROVE  /\ queue[p] \in Seq(Tasks) /\ OnTheWay(p) \in Seq(Tasks)
         /\ thread[p] \notin Working(p) => OnTheWay(p) = queue[p]
         /\ thread[p] \in Working(p) =>
              task[p] \in Tasks /\ OnTheWay(p) = Before(task[p], queue[p])
<1>1. queue[p] \in Seq(Tasks)
  BY DEF TypeOK
<1>2. CASE thread[p] \notin Working(p)
  <2>1. OnTheWay(p) = <<>> \o queue[p]
    BY <1>2 DEF OnTheWay
  <2>2. QED
    BY <1>1, <1>2, <2>1, ConcatEmptySeq
<1>3. CASE thread[p] \in Working(p)
  <2>1. thread[p] \notin Idle
    BY <1>3 DEF Working, Busy, Idle
  <2>2. task[p] \in Tasks
    BY <2>1 DEF TypeOK
  <2>3. OnTheWay(p) = Before(task[p], queue[p])
    BY <1>3 DEF OnTheWay, Before
  <2>4. QED
    BY <1>1, <1>3, <2>2, <2>3, LaneSequences
<1>4. QED
  BY <1>2, <1>3

\* A thread that goes on with its task leaves its end as it was.
LEMMA EndKept ==
  ASSUME NEW p \in Procs, queue'[p] = queue[p],
         thread'[p] \in Working(p) <=> thread[p] \in Working(p),
         thread[p] \in Working(p) => task'[p] = task[p]
  PROVE  OnTheWay(p)' = OnTheWay(p)
<1>1. Working(p)' = Working(p)
  BY DEF Working
<1>2. QED
  BY <1>1 DEF OnTheWay

\* The two ends of each lane.
LEMMA TwoEnds ==
  /\ Ends \subseteq Procs
  /\ \A e \in Entries : e \in Ends /\ Exit(e) \in Exits /\ Exit(e) \in Ends
  /\ \A e, d \in Entries : Exit(e) # d /\ (Exit(e) = Exit(d) => e = d)
  /\ \A p \in Ends : p \in Entries \/ \E e \in Entries : p = Exit(e)
  BY DEF Ends, Entries, Exits, Procs, Exit

\* A lane, before and after a step, by its two ends.
LEMMA LaneOf ==
  ASSUME NEW e \in Entries
  PROVE  /\ Lane[e] = OnTheWay(Exit(e)) \o OnTheWay(e)
         /\ Lane'[e] = OnTheWay(Exit(e))' \o OnTheWay(e)'
         /\ Exit(e)' = Exit(e)
         /\ Lane = [d \in Entries |-> Lane[d]] /\ Lane' = [d \in Entries |-> Lane'[d]]
  BY DEF Lane, Exit

\* A step that changes no lane.
LEMMA LanesStandStill ==
  ASSUME Outside' = Outside, handed' = handed, \A e \in Entries : Lane'[e] = Lane[e]
  PROVE  [Lanes!Next]_Lanes!vars
<1>1. Lane' = Lane
  <2>1. Lane = [d \in Entries |-> Lane[d]] /\ Lane' = [d \in Entries |-> Lane'[d]]
    BY DEF Lane
  <2>2. QED
    BY <2>1
<1>2. Delivered' = Delivered
  BY DEF Delivered, Exit
<1>3. QED
  BY <1>1, <1>2 DEF Lanes!vars

\* A step that no end of a lane sees.
LEMMA EndsStandStill ==
  ASSUME Outside' = Outside, handed' = handed,
         \A p \in Ends : OnTheWay(p)' = OnTheWay(p)
  PROVE  [Lanes!Next]_Lanes!vars
<1>1. ASSUME NEW e \in Entries PROVE Lane'[e] = Lane[e]
  <2>1. OnTheWay(Exit(e))' = OnTheWay(Exit(e)) /\ OnTheWay(e)' = OnTheWay(e)
    <3>1. e \in Ends /\ Exit(e) \in Ends
      BY TwoEnds
    <3>2. Exit(e)' = Exit(e)
      BY DEF Exit
    <3>3. QED
      BY <3>1, <3>2
  <2>2. QED
    BY <2>1, LaneOf
<1>2. QED
  BY <1>1, LanesStandStill

\* A lane without one of its packets.
LEMMA LaneWithout ==
  ASSUME NEW x \in Seq(Tasks), NEW y \in Seq(Tasks), NEW t \in Tasks
  PROVE  /\ \E i \in DOMAIN (x \o Before(t, y)) : x \o y = Lanes!RemoveAt(x \o Before(t, y), i)
         /\ \E i \in DOMAIN Before(t, y) : y = Lanes!RemoveAt(Before(t, y), i)
<1>1. ASSUME NEW s \in Seq(Tasks)
      PROVE  \E i \in DOMAIN (s \o Before(t, y)) : s \o y = Lanes!RemoveAt(s \o Before(t, y), i)
  <2> DEFINE all == s \o Before(t, y)
  <2>1. PICK i \in DOMAIN all : SubSeq(all, 1, i-1) \o SubSeq(all, i+1, Len(all)) = s \o y
    BY WithoutOne
  <2> HIDE DEF all
  <2>2. s \o y = Lanes!RemoveAt(all, i)
    BY <2>1 DEF Lanes!RemoveAt
  <2>3. QED
    BY <2>1, <2>2 DEF all
<1>2. <<>> \in Seq(Tasks) /\ <<>> \o y = y /\ Before(t, y) \in Seq(Tasks)
  BY LaneSequences, ConcatEmptySeq
<1>3. <<>> \o Before(t, y) = Before(t, y)
  BY <1>2, ConcatEmptySeq
<1>4. \E i \in DOMAIN (<<>> \o Before(t, y)) : <<>> \o y = Lanes!RemoveAt(<<>> \o Before(t, y), i)
  BY <1>1, <1>2
<1>5. QED
  BY <1>1, <1>2, <1>3, <1>4

\* A step that changes lane e only.
LEMMA OneLane ==
  ASSUME NEW e \in Entries, \A d \in Entries : d # e => Lane'[d] = Lane[d]
  PROVE  Lane' = [Lane EXCEPT ![e] = Lane'[e]]
<1>1. Lane = [d \in Entries |-> Lane[d]] /\ Lane' = [d \in Entries |-> Lane'[d]]
  BY DEF Lane
<1>2. QED
  BY <1>1

\* The lane an end belongs to, when no other end changes.
LEMMA OtherLanes ==
  ASSUME NEW e \in Entries, NEW p \in {e, Exit(e)},
         \A r \in Ends : r # p => OnTheWay(r)' = OnTheWay(r)
  PROVE  \A d \in Entries : d # e => Lane'[d] = Lane[d]
<1> SUFFICES ASSUME NEW d \in Entries, d # e PROVE Lane'[d] = Lane[d]
  OBVIOUS
<1>1. d \in Ends /\ Exit(d) \in Ends /\ d # p /\ Exit(d) # p
  BY TwoEnds
<1>2. Exit(d)' = Exit(d)
  BY DEF Exit
<1>3. OnTheWay(d)' = OnTheWay(d) /\ OnTheWay(Exit(d))' = OnTheWay(Exit(d))
  BY <1>1, <1>2
<1>4. QED
  BY <1>3, LaneOf

\* A thread at an end of a lane parts with its task: the packet is lost.
LEMMA LaneLoses ==
  ASSUME TypeOK, TypeOK', NEW p \in Ends,
         thread[p] \in Working(p), thread'[p] \notin Working(p), queue'[p] = queue[p],
         Outside' = Outside, handed' = handed,
         \A r \in Ends : r # p => OnTheWay(r)' = OnTheWay(r)
  PROVE  [Lanes!Next]_Lanes!vars
<1> DEFINE t == task[p]
           q == queue[p]
<1>1. p \in Procs /\ Working(p)' = Working(p)
  BY TwoEnds DEF Working
<1>2. t \in Tasks /\ q \in Seq(Tasks) /\ OnTheWay(p) = Before(t, q)
  BY <1>1, EndOfLane
<1>3. OnTheWay(p)' = q
  <2>1. OnTheWay(p)' = <<>> \o queue'[p]
    BY <1>1 DEF OnTheWay
  <2>2. queue[p] \in Seq(Tasks)
    BY <1>2
  <2>3. QED
    BY <2>1, <2>2, ConcatEmptySeq
<1> HIDE DEF t, q
<1>4. ASSUME NEW e \in Entries, p \in {e, Exit(e)},
             \E i \in DOMAIN Lane[e] : Lane'[e] = Lanes!RemoveAt(Lane[e], i)
      PROVE  Lanes!Next
  <2>1. \A d \in Entries : d # e => Lane'[d] = Lane[d]
    BY <1>4, OtherLanes
  <2>2. Lane' = [Lane EXCEPT ![e] = Lane'[e]] /\ Delivered' = Delivered
    BY <2>1, OneLane DEF Delivered, Exit
  <2>3. PICK i \in DOMAIN Lane[e] : Lane'[e] = Lanes!RemoveAt(Lane[e], i)
    BY <1>4
  <2>4. Lane' = [Lane EXCEPT ![e] = Lanes!RemoveAt(Lane[e], i)]
    BY <2>2, <2>3
  <2>5. Lanes!Lose(e)
    BY <2>2, <2>4 DEF Lanes!Lose
  <2>6. QED
    BY <2>5 DEF Lanes!Next
<1>5. CASE p \in Entries
  <2> DEFINE x == OnTheWay(Exit(p))
  <2>1. Exit(p) \in Ends /\ Exit(p) \in Procs /\ Exit(p) # p /\ Exit(p)' = Exit(p)
    BY <1>5, TwoEnds DEF Exit
  <2>2. x \in Seq(Tasks) /\ x' = x
    <3>1. x \in Seq(Tasks)
      BY <2>1, EndOfLane
    <3>2. x' = x
      BY <2>1
    <3>3. QED
      BY <3>1, <3>2
  <2>3. Lane[p] = x \o Before(t, q) /\ Lane'[p] = x \o q
    BY <1>2, <1>3, <1>5, <2>2, LaneOf
  <2> HIDE DEF x
  <2>4. \E i \in DOMAIN Lane[p] : Lane'[p] = Lanes!RemoveAt(Lane[p], i)
    <3>1. \E i \in DOMAIN (x \o Before(t, q)) : x \o q = Lanes!RemoveAt(x \o Before(t, q), i)
      BY <1>2, <2>2, LaneWithout
    <3>2. QED
      BY <2>3, <3>1
  <2>5. QED
    BY <1>4, <1>5, <2>4
<1>6. ASSUME NEW e \in Entries, p = Exit(e) PROVE Lanes!Next
  <2> DEFINE y == OnTheWay(e)
  <2>1. e \in Ends /\ e \in Procs /\ e # p /\ Exit(e)' = Exit(e)
    BY <1>6, TwoEnds DEF Exit
  <2>2. y \in Seq(Tasks) /\ y' = y
    <3>1. y \in Seq(Tasks)
      BY <2>1, EndOfLane
    <3>2. y' = y
      BY <2>1
    <3>3. QED
      BY <3>1, <3>2
  <2>3. Lane[e] = Before(t, q) \o y /\ Lane'[e] = q \o y
    BY <1>2, <1>3, <1>6, <2>1, <2>2, LaneOf
  <2> HIDE DEF y
  <2>4. Before(t, q) \o y = Before(t, q \o y) /\ q \o y \in Seq(Tasks)
    BY <1>2, <2>2, LaneSequences
  <2>5. \E i \in DOMAIN Lane[e] : Lane'[e] = Lanes!RemoveAt(Lane[e], i)
    <3>1. \E i \in DOMAIN Before(t, q \o y) : q \o y = Lanes!RemoveAt(Before(t, q \o y), i)
      BY <1>2, <2>4, LaneWithout
    <3>2. QED
      BY <2>3, <2>4, <3>1
  <2>6. QED
    BY <1>4, <1>6, <2>5
<1>7. QED
  BY <1>5, <1>6, TwoEnds

\* A thread at an entry passes its task on to the exit: the lane is the same.
LEMMA LanePasses ==
  ASSUME TypeOK, NEW e \in Entries, thread[e] \in Working(e), thread'[e] \notin Working(e),
         queue' = [queue EXCEPT ![Exit(e)] = Append(@, task[e])],
         \A r \in Procs : r # e => task'[r] = task[r] /\ thread'[r] = thread[r],
         Outside' = Outside, handed' = handed
  PROVE  [Lanes!Next]_Lanes!vars
<1> DEFINE t == task[e]
           q == queue[e]
           x == Exit(e)
           w == OnTheWay(x)
<1>1. e \in Procs /\ x \in Procs /\ e \in Ends /\ x # e /\ x' = x
      /\ Working(e)' = Working(e) /\ Working(x)' = Working(x)
  BY TwoEnds DEF Working, Exit
<1>2. t \in Tasks /\ q \in Seq(Tasks) /\ OnTheWay(e) = Before(t, q)
  BY <1>1, EndOfLane
<1>3. OnTheWay(e)' = q
  <2>1. OnTheWay(e)' = <<>> \o queue'[e]
    BY <1>1 DEF OnTheWay
  <2>2. queue'[e] = q
    BY <1>1 DEF TypeOK
  <2>3. QED
    BY <1>2, <2>1, <2>2, ConcatEmptySeq
<1>4. w \in Seq(Tasks) /\ OnTheWay(x)' = Append(w, t)
  <2>1. /\ queue[x] \in Seq(Tasks) /\ w \in Seq(Tasks)
        /\ thread[x] \notin Working(x) => w = queue[x]
        /\ thread[x] \in Working(x) => task[x] \in Tasks /\ w = Before(task[x], queue[x])
    BY <1>1, EndOfLane
  <2>2. queue'[x] = Append(queue[x], t) /\ task'[x] = task[x] /\ thread'[x] = thread[x]
    BY <1>1 DEF TypeOK
  <2>3. Append(queue[x], t) \in Seq(Tasks)
    BY <1>2, <2>1, LaneSequences
  <2>4. CASE thread[x] \notin Working(x)
    <3>1. OnTheWay(x)' = <<>> \o queue'[x]
      BY <1>1, <2>2, <2>4 DEF OnTheWay
    <3>2. QED
      BY <2>1, <2>2, <2>3, <2>4, <3>1, ConcatEmptySeq
  <2>5. CASE thread[x] \in Working(x)
    <3>1. OnTheWay(x)' = Before(task[x], queue'[x])
      BY <1>1, <2>2, <2>5 DEF OnTheWay, Before
    <3>2. Before(task[x], Append(queue[x], t)) = Append(Before(task[x], queue[x]), t)
      BY <1>2, <2>1, <2>5, BeforeAppend
    <3>3. QED
      BY <2>1, <2>2, <2>5, <3>1, <3>2
  <2>6. QED
    BY <2>1, <2>4, <2>5
<1>5. \A r \in Ends : r # e /\ r # x => OnTheWay(r)' = OnTheWay(r)
  <2>1. \A r \in Ends : r # e /\ r # x => queue'[r] = queue[r] /\ r \in Procs
    BY TwoEnds DEF TypeOK
  <2>2. QED
    BY <2>1, EndKept
<1>6. Lane[e] = w \o Before(t, q) /\ Lane'[e] = Append(w, t) \o q
  BY <1>1, <1>2, <1>3, <1>4, LaneOf
<1> HIDE DEF t, q, w
<1>7. Lane'[e] = Lane[e]
  BY <1>2, <1>4, <1>6, LaneSequences
<1>8. ASSUME NEW d \in Entries, d # e PROVE Lane'[d] = Lane[d]
  <2>1. d \in Ends /\ Exit(d) \in Ends /\ d # e /\ Exit(d) # e /\ d # x /\ Exit(d) # x
    BY <1>8, TwoEnds
  <2>2. Exit(d)' = Exit(d)
    BY DEF Exit
  <2>3. OnTheWay(d)' = OnTheWay(d) /\ OnTheWay(Exit(d))' = OnTheWay(Exit(d))
    BY <1>5, <2>1, <2>2
  <2>4. QED
    BY <2>3, LaneOf
<1>9. QED
  BY <1>7, <1>8, LanesStandStill

\* A thread takes the next task: the packet stays at the same place.
LEMMA EndTakes ==
  ASSUME TypeOK, NEW p \in Procs, thread[p] \notin Working(p), thread'[p] \in Working(p),
         queue[p] # <<>>, queue'[p] = Tail(queue[p]), task'[p] = Head(queue[p])
  PROVE  OnTheWay(p)' = OnTheWay(p)
<1>1. Working(p)' = Working(p)
  BY DEF Working
<1>2. queue[p] \in Seq(Tasks) /\ OnTheWay(p) = queue[p]
  BY EndOfLane
<1>3. OnTheWay(p)' = <<Head(queue[p])>> \o Tail(queue[p])
  BY <1>1 DEF OnTheWay
<1>4. QED
  BY <1>2, <1>3, HeadAndTail

\* The thread at an exit hands its task to NDIS.
LEMMA LaneDelivers ==
  ASSUME TypeOK, NEW e \in Entries, thread[Exit(e)] \in Working(Exit(e)),
         thread'[Exit(e)] \notin Working(Exit(e)), queue' = queue, Outside' = Outside,
         handed' = [handed EXCEPT ![Exit(e)] = Append(@, task[Exit(e)])],
         \A r \in Procs : r # Exit(e) => task'[r] = task[r] /\ thread'[r] = thread[r]
  PROVE  [Lanes!Next]_Lanes!vars
<1> DEFINE x == Exit(e)
           t == task[x]
           q == queue[x]
           y == OnTheWay(e)
<1>1. e \in Procs /\ x \in Procs /\ x \in Ends /\ x # e /\ x' = x /\ Working(x)' = Working(x)
  BY TwoEnds DEF Working, Exit
<1>2. t \in Tasks /\ q \in Seq(Tasks) /\ OnTheWay(x) = Before(t, q) /\ y \in Seq(Tasks)
  BY <1>1, EndOfLane
<1>3. OnTheWay(x)' = q
  <2>1. OnTheWay(x)' = <<>> \o queue[x]
    BY <1>1 DEF OnTheWay
  <2>2. QED
    BY <1>2, <2>1, ConcatEmptySeq
<1>4. \A r \in Ends : r # x => OnTheWay(r)' = OnTheWay(r)
  BY EndKept, TwoEnds
<1>5. y' = y
  BY <1>1, <1>4, TwoEnds
<1>6. Lane[e] = Before(t, q) \o y /\ Lane'[e] = q \o y
  BY <1>1, <1>2, <1>3, <1>5, LaneOf
<1> HIDE DEF q, y
<1>7. Lane[e] = Before(t, q \o y) /\ q \o y \in Seq(Tasks)
  BY <1>2, <1>6, LaneSequences
<1>8. Lane[e] # <<>> /\ Head(Lane[e]) = t /\ Tail(Lane[e]) = Lane'[e]
  <2> HIDE DEF t
  <2>1. /\ Before(t, q \o y) # <<>> /\ Head(Before(t, q \o y)) = t
        /\ Tail(Before(t, q \o y)) = q \o y
    BY <1>2, <1>7, HeadOfConcat DEF Before
  <2>2. QED
    BY <1>6, <1>7, <2>1
<1>9. \A d \in Entries : d # e => Lane'[d] = Lane[d]
  BY <1>4, OtherLanes
<1>10. Lane' = [Lane EXCEPT ![e] = Tail(@)]
  BY <1>8, <1>9, OneLane
<1>11. Delivered' = [Delivered EXCEPT ![e] = Append(@, t)]
  <2>1. \A d \in Entries : Exit(d) \in Exits /\ Exit(d)' = Exit(d) /\ (Exit(d) = x => d = e)
    BY TwoEnds DEF Exit
  <2>2. Delivered = [d \in Entries |-> handed[Exit(d)]]
        /\ Delivered' = [d \in Entries |-> handed'[Exit(d)]]
    BY DEF Delivered, Exit
  <2>3. \A d \in Exits : handed'[d] = IF d = x THEN Append(handed[x], t) ELSE handed[d]
    BY DEF TypeOK
  <2> HIDE DEF t
  <2>4. \A d \in Entries : Delivered'[d] = IF d = e THEN Append(Delivered[e], t) ELSE Delivered[d]
    BY <2>1, <2>2, <2>3
  <2>5. QED
    BY <2>2, <2>4
<1>12. Lanes!Deliver(e)
  BY <1>8, <1>10, <1>11 DEF Lanes!Deliver
<1>13. QED
  BY <1>12 DEF Lanes!Next

\* A handler puts a packet into the engine.
LEMMA LaneEnters ==
  ASSUME TypeOK, NEW e \in Entries, NEW t \in Tasks, t \in Outside, Outside' = Outside \ {t},
         queue' = [queue EXCEPT ![e] = Append(@, t)], UNCHANGED <<thread, task, handed>>
  PROVE  [Lanes!Next]_Lanes!vars
<1> DEFINE x == Exit(e)
           w == OnTheWay(x)
           y == OnTheWay(e)
<1>1. e \in Procs /\ x \in Procs /\ x \in Ends /\ x # e /\ x' = x /\ Working(e)' = Working(e)
  BY TwoEnds DEF Working, Exit
<1>2. /\ queue[e] \in Seq(Tasks) /\ y \in Seq(Tasks) /\ w \in Seq(Tasks)
      /\ thread[e] \notin Working(e) => y = queue[e]
      /\ thread[e] \in Working(e) => task[e] \in Tasks /\ y = Before(task[e], queue[e])
  BY <1>1, EndOfLane
<1>3. queue'[e] = Append(queue[e], t) /\ Append(queue[e], t) \in Seq(Tasks)
  <2>1. queue'[e] = Append(queue[e], t)
    BY <1>1 DEF TypeOK
  <2>2. Append(queue[e], t) \in Seq(Tasks)
    BY <1>2, LaneSequences
  <2>3. QED
    BY <2>1, <2>2
<1>4. OnTheWay(e)' = Append(y, t)
  <2>1. CASE thread[e] \notin Working(e)
    <3>1. OnTheWay(e)' = <<>> \o queue'[e]
      BY <1>1, <2>1 DEF OnTheWay
    <3>2. QED
      BY <1>2, <1>3, <2>1, <3>1, ConcatEmptySeq
  <2>2. CASE thread[e] \in Working(e)
    <3>1. OnTheWay(e)' = Before(task[e], queue'[e])
      BY <1>1, <2>2 DEF OnTheWay, Before
    <3>2. Before(task[e], Append(queue[e], t)) = Append(Before(task[e], queue[e]), t)
      BY <1>2, <2>2, BeforeAppend
    <3>3. QED
      BY <1>2, <1>3, <2>2, <3>1, <3>2
  <2>3. QED
    BY <2>1, <2>2
<1>5. ASSUME NEW r \in Ends, r # e PROVE OnTheWay(r)' = OnTheWay(r)
  <2>1. r \in Procs /\ queue'[r] = queue[r]
    BY <1>5, TwoEnds DEF TypeOK
  <2>2. QED
    BY <2>1, EndKept
<1>6. w' = w
  BY <1>1, <1>5
<1>7. Lane[e] = w \o y /\ Lane'[e] = w \o Append(y, t)
  BY <1>1, <1>4, <1>6, LaneOf
<1> HIDE DEF w, y
<1>8. Lane'[e] = Append(Lane[e], t)
  <2>1. w \in Seq(Tasks) /\ y \in Seq(Tasks)
    BY <1>2
  <2>2. Append(w \o y, t) = w \o Append(y, t)
    BY <2>1, LaneSequences
  <2>3. QED
    BY <1>7, <2>2
<1>9. \A d \in Entries : d # e => Lane'[d] = Lane[d]
  BY <1>5, OtherLanes
<1>10. Lane' = [Lane EXCEPT ![e] = Append(@, t)] /\ Delivered' = Delivered
  BY <1>8, <1>9, OneLane DEF Delivered, Exit
<1>11. Lanes!Enter(e, t)
  BY <1>10 DEF Lanes!Enter
<1>12. QED
  BY <1>11 DEF Lanes!Next

\* The queues are drained when every thread is gone.
LEMMA LanesFlushed ==
  ASSUME StopDrain, Outside' = Outside
  PROVE  [Lanes!Next]_Lanes!vars
<1>1. \A p \in Ends : p \in Procs /\ thread'[p] = "exit" /\ queue'[p] = <<>>
  BY TwoEnds DEF StopDrain
<1>2. \A p \in Ends : OnTheWay(p)' = <<>>
  <2>1. \A p \in Ends : OnTheWay(p)' = <<>> \o <<>>
    BY <1>1 DEF OnTheWay, Working, Busy
  <2>2. <<>> \o <<>> = <<>>
    OBVIOUS
  <2>3. QED
    BY <2>1, <2>2
<1>3. ASSUME NEW e \in Entries PROVE Lane'[e] = <<>>
  <2>1. e \in Ends /\ Exit(e) \in Ends /\ Exit(e)' = Exit(e)
    BY TwoEnds DEF Exit
  <2>2. OnTheWay(e)' = <<>> /\ OnTheWay(Exit(e))' = <<>>
    BY <1>2, <2>1
  <2>3. Lane'[e] = <<>> \o <<>>
    BY <2>2, LaneOf
  <2>4. QED
    BY <2>3
<1>4. Lane' = [e \in Entries |-> <<>>]
  <2>1. Lane' = [e \in Entries |-> Lane'[e]]
    BY DEF Lane
  <2>2. QED
    BY <1>3, <2>1
<1>5. Delivered' = Delivered
  BY DEF StopDrain, Delivered, Exit, histVars
<1>6. Lanes!Flush
  BY <1>4, <1>5 DEF Lanes!Flush
<1>7. QED
  BY <1>6 DEF Lanes!Next

\* A thread goes on without parting with a packet of its lane.
LEMMA ThreadGoesOn ==
  ASSUME NEW p \in Procs, UNCHANGED <<fresh, packet, handed>>,
         \A r \in Ends : queue'[r] = queue[r],
         \A r \in Procs : r # p => task'[r] = task[r] /\ thread'[r] = thread[r],
         p \in Ends => /\ thread'[p] \in Working(p) <=> thread[p] \in Working(p)
                       /\ thread[p] \in Working(p) => task'[p] = task[p]
  PROVE  [Lanes!Next]_Lanes!vars
<1>1. \A r \in Ends : OnTheWay(r)' = OnTheWay(r)
  BY EndKept, TwoEnds
<1>2. QED
  BY <1>1, EndsStandStill DEF Outside

\* A thread is done with a task that does not get any further on its lane.
LEMMA ThreadParts ==
  ASSUME TypeOK, TypeOK', NEW p \in Procs, UNCHANGED <<fresh, packet, handed>>,
         \A r \in Ends : queue'[r] = queue[r],
         NextTask(p), p \in Ends => thread[p] \in Working(p)
  PROVE  [Lanes!Next]_Lanes!vars
<1>1. /\ thread'[p] \in Idle /\ thread'[p] \notin Working(p)
      /\ \A r \in Procs : r # p => task'[r] = task[r] /\ thread'[r] = thread[r]
  BY NextTaskEffect DEF Idle, Working, Busy
<1>2. CASE p \in Ends
  <2>1. \A r \in Ends : r # p => OnTheWay(r)' = OnTheWay(r)
    BY <1>1, EndKept, TwoEnds
  <2>2. Outside' = Outside
    BY DEF Outside
  <2>3. QED
    BY <1>1, <1>2, <2>1, <2>2, LaneLoses
<1>3. CASE p \notin Ends
  BY <1>1, <1>3, ThreadGoesOn
<1>4. QED
  BY <1>2, <1>3

\* A thread passes its task on to queue q.
LEMMA ThreadPasses ==
  ASSUME TypeOK, TypeOK', NEW p \in Procs, NEW q \in Procs, UNCHANGED <<fresh, packet, handed>>,
         NextTask(p), ProcessRoutingTask(task[p], q), p \in Ends => thread[p] \in Working(p),
         q \notin Ends \/ (p \in Entries /\ q = Exit(p))
  PROVE  [Lanes!Next]_Lanes!vars
<1>1. /\ thread'[p] \in Idle /\ thread'[p] \notin Working(p)
      /\ \A r \in Procs : r # p => task'[r] = task[r] /\ thread'[r] = thread[r]
  BY NextTaskEffect DEF Idle, Working, Busy
<1>2. CASE q \notin Ends
  <2>1. \A r \in Ends : queue'[r] = queue[r]
    BY <1>2, TwoEnds DEF ProcessRoutingTask, TypeOK
  <2>2. QED
    BY <2>1, ThreadParts
<1>3. CASE p \in Entries /\ q = Exit(p)
  <2>1. Outside' = Outside /\ thread[p] \in Working(p)
    BY <1>3, TwoEnds DEF Outside
  <2>2. queue' = [queue EXCEPT ![Exit(p)] = Append(@, task[p])]
    BY <1>3 DEF ProcessRoutingTask
  <2>3. QED
    BY <1>1, <1>3, <2>1, <2>2, LanePasses
<1>4. QED
  BY <1>2, <1>3

\* Every step of a routing thread is a step of the lanes, or none.
LEMMA ThreadOfLanes ==
  ASSUME TypeOK, TypeOK', NEW p \in Procs, Thread(p)
  PROVE  [Lanes!Next]_Lanes!vars
<1> USE DEF Procs, FilterPoints, Entries, Exits, Ends, histVars
<1>1. CASE DequeueTask(p)
  <2>1. /\ thread' = [thread EXCEPT ![p] = "filter"] /\ thread[p] = "wait"
        /\ queue' = [queue EXCEPT ![p] = Tail(@)] /\ queue[p] # <<>>
        /\ task' = [task EXCEPT ![p] = Head(queue[p])]
        /\ UNCHANGED <<fresh, packet, handed>> /\ p # "RTDECISION"
    BY <1>1 DEF DequeueTask
  <2>2. /\ thread[p] \notin Working(p) /\ thread'[p] \in Working(p)
        /\ queue'[p] = Tail(queue[p]) /\ task'[p] = Head(queue[p])
        /\ \A r \in Procs : r # p =>
             task'[r] = task[r] /\ thread'[r] = thread[r] /\ queue'[r] = queue[r]
    BY <2>1 DEF TypeOK, Working, Busy
  <2>3. \A r \in Ends : OnTheWay(r)' = OnTheWay(r)
    <3>1. OnTheWay(p)' = OnTheWay(p)
      BY <2>1, <2>2, EndTakes
    <3>2. \A r \in Ends : r # p => OnTheWay(r)' = OnTheWay(r)
      BY <2>2, EndKept, TwoEnds
    <3>3. QED
      BY <3>1, <3>2
  <2>4. QED
    BY <2>1, <2>3, EndsStandStill DEF Outside
<1>2. CASE DequeueNull(p)
  <2>1. /\ NextTask(p) /\ thread[p] \notin Working(p) /\ UNCHANGED <<fresh, packet, queue, handed>>
    BY <1>2 DEF DequeueNull, Working, Busy
  <2>2. /\ thread'[p] \notin Working(p)
        /\ \A r \in Procs : r # p => task'[r] = task[r] /\ thread'[r] = thread[r]
    BY <2>1, NextTaskEffect DEF Idle, Working, Busy
  <2>3. QED
    BY <2>1, <2>2, ThreadGoesOn
<1>3. CASE FilterDrops(p)
  <2>1. thread[p] \in Working(p) /\ NextTask(p) /\ UNCHANGED <<fresh, packet, queue, handed>>
    BY <1>3 DEF FilterDrops, Working, Busy
  <2>2. QED
    BY <2>1, ThreadParts
<1>4. ASSUME NEW label \in Busy \ {"release"}, NEW from \in Busy \ {"release"},
             thread[p] = from, Goto(p, label), UNCHANGED <<fresh, packet, queue, handed>>,
             from \in Working(p) <=> label \in Working(p)
      PROVE  [Lanes!Next]_Lanes!vars
  <2>1. /\ UNCHANGED task /\ thread'[p] = label
        /\ \A r \in Procs : r # p => thread'[r] = thread[r]
    BY <1>4 DEF Goto, TypeOK
  <2>2. QED
    BY <1>4, <2>1, ThreadGoesOn
<1>5. CASE FilterAccepts(p)
  BY <1>4, <1>5 DEF FilterAccepts, Working, Busy
<1>6. CASE p = "PREROUTING" /\ Prerouting
  <2>1. UNCHANGED <<fresh, packet, handed>>
    BY <1>6 DEF Prerouting, TestForwardingMode, LookUpAddress, TestWinpfilterMode, TestDisableMode
  <2>2. thread[p] \in {"accepted", "lookup", "forward", "disable"}
    BY <1>6 DEF Prerouting, TestForwardingMode, LookUpAddress, TestWinpfilterMode, TestDisableMode
  <2>3. \A label \in Busy : label \in Working(p)
    BY <1>6 DEF Working
  <2>4. CASE PassToInput
    <3>1. Exit(p) = "INPUT" /\ thread[p] \in Working(p)
      BY <1>6, <2>2, <2>3 DEF Exit, Busy
    <3>2. QED
      BY <1>6, <2>1, <2>4, <3>1, ThreadPasses DEF PassToInput
  <2>5. CASE ProcessRoutingTask(task[p], "FORWARDING") /\ NextTask(p)
    <3>1. thread[p] \in Working(p)
      BY <2>2, <2>3 DEF Busy
    <3>2. QED
      BY <2>1, <2>5, <3>1, ThreadPasses
  <2>6. CASE NextTask(p) /\ UNCHANGED queue
    <3>1. thread[p] \in Working(p)
      BY <2>2, <2>3 DEF Busy
    <3>2. QED
      BY <2>1, <2>6, <3>1, ThreadParts
  <2>7. ASSUME NEW label \in {"lookup", "forward", "disable"}, Goto(p, label), UNCHANGED queue
        PROVE  [Lanes!Next]_Lanes!vars
    BY <1>4, <2>1, <2>2, <2>3, <2>7 DEF Busy
  <2>8. QED
    BY <1>6, <2>4, <2>5, <2>6, <2>7
    DEF Prerouting, TestForwardingMode, LookUpAddress, TestWinpfilterMode, TestDisableMode
<1>7. CASE p = "FORWARDING" /\ PassToDecision
  BY <1>7, ThreadPasses DEF PassToDecision
<1>8. CASE p = "OUTPUT" /\ PassOutput
  <2>1. /\ Exit(p) = "POSTROUTING" /\ thread[p] \in Working(p) /\ NextTask(p)
        /\ UNCHANGED <<fresh, packet, handed>>
        /\ \E q \in {"RTDECISION", "POSTROUTING"} : ProcessRoutingTask(task[p], q)
    BY <1>8 DEF PassOutput, Exit, Working, Busy
  <2>2. QED
    BY <1>8, <2>1, ThreadPasses
<1>9. CASE p = "RTDECISION" /\ RoutingDecision
  <2>1. /\ NextTask(p) /\ UNCHANGED <<fresh, packet, handed>>
        /\ \A r \in Ends : queue'[r] = queue[r]
    BY <1>9 DEF RoutingDecision, TypeOK
  <2>2. QED
    BY <1>9, <2>1, ThreadParts
<1>10. CASE p \in Exits /\ Deliver(p)
  <2>1. \A label \in {"filter", "accepted", "mdl", "hand over"} : label \in Working(p)
    BY <1>10 DEF Working
  <2>2. CASE AllocateMdl(p) \/ AllocateNbl(p)
    <3>1. /\ UNCHANGED <<fresh, packet, queue, handed>>
          /\ \E from, label \in {"accepted", "mdl", "hand over"} :
               thread[p] = from /\ Goto(p, label)
      BY <2>2 DEF AllocateMdl, AllocateNbl
    <3>2. QED
      BY <1>4, <2>1, <3>1 DEF Busy
  <2>3. CASE AllocateMdlFails(p) \/ AllocateNblFails(p)
    <3>1. thread[p] \in Working(p) /\ NextTask(p) /\ UNCHANGED <<fresh, packet, queue, handed>>
      BY <2>1, <2>3 DEF AllocateMdlFails, AllocateNblFails
    <3>2. QED
      BY <3>1, ThreadParts
  <2>4. CASE HandToNdis(p)
    <3>1. PICK e \in Entries : p = Exit(e)
      BY <1>10, TwoEnds DEF Exit
    <3>2. /\ thread[p] = "hand over" /\ Goto(p, "release")
          /\ handed' = [handed EXCEPT ![p] = Append(@, task[p])]
          /\ UNCHANGED <<fresh, packet, queue>>
      BY <2>4 DEF HandToNdis
    <3>3. /\ thread'[p] = "release" /\ "release" \notin Working(p)
          /\ \A r \in Procs : r # p => task'[r] = task[r] /\ thread'[r] = thread[r]
      BY <1>10, <3>2 DEF Goto, Working, TypeOK
    <3>4. Outside' = Outside
      BY <3>2 DEF Outside
    <3>5. QED
      BY <2>1, <3>1, <3>2, <3>3, <3>4, LaneDelivers
  <2>5. CASE FreeRoutingTaskWithoutDataBuffer(p)
    <3>1. /\ thread[p] = "release" /\ "release" \notin Working(p)
          /\ NextTask(p) /\ UNCHANGED <<fresh, packet, queue, handed>>
      BY <1>10, <2>5 DEF FreeRoutingTaskWithoutDataBuffer, Working
    <3>2. /\ thread'[p] \notin Working(p)
          /\ \A r \in Procs : r # p => task'[r] = task[r] /\ thread'[r] = thread[r]
      BY <3>1, NextTaskEffect DEF Idle, Working, Busy
    <3>3. QED
      BY <3>1, <3>2, ThreadGoesOn
  <2>6. QED
    BY <1>10, <2>2, <2>3, <2>4, <2>5 DEF Deliver
<1>11. QED
  BY <1>1, <1>2, <1>3, <1>5, <1>6, <1>7, <1>8, <1>9, <1>10 DEF Thread

\* The handlers: allocating and giving up leave a packet outside.
LEMMA HandlersOfLanes ==
  ASSUME IInv, NEW e \in Entries, NEW t \in Tasks,
         AllocatePacketBuffer(e, t) \/ CreateTask(e, t) \/ CreateTaskFails(e, t)
  PROVE  [Lanes!Next]_Lanes!vars
<1>1. TypeOK /\ FreshInv /\ PacketInv
  BY DEF IInv
<1>2. /\ fresh \in SUBSET Tasks
      /\ packet["PREROUTING"] \in SUBSET Tasks /\ packet["OUTPUT"] \in SUBSET Tasks
      /\ e = "PREROUTING" \/ e = "OUTPUT"
  BY <1>1 DEF TypeOK, Entries
<1>3. CASE AllocatePacketBuffer(e, t) \/ CreateTaskFails(e, t)
  <2>1. UNCHANGED <<queue, thread, task, handed>>
    BY <1>3 DEF AllocatePacketBuffer, CreateTaskFails, histVars
  <2>2. \/ t \in fresh /\ fresh' = fresh \ {t} /\ packet' = [packet EXCEPT ![e] = @ \cup {t}]
        \/ t \in packet[e] /\ fresh' = fresh \cup {t} /\ packet' = [packet EXCEPT ![e] = @ \ {t}]
    BY <1>3 DEF AllocatePacketBuffer, CreateTaskFails
  <2>3. Outside' = Outside
    BY <1>1, <1>2, <2>2 DEF Outside, TypeOK, Entries
  <2>4. \A p \in Ends : OnTheWay(p)' = OnTheWay(p)
    BY <2>1, EndKept, TwoEnds
  <2>5. QED
    BY <2>1, <2>3, <2>4, EndsStandStill
<1>4. CASE CreateTask(e, t)
  <2>1. /\ t \in packet[e] /\ packet' = [packet EXCEPT ![e] = @ \ {t}] /\ fresh' = fresh
        /\ queue' = [queue EXCEPT ![e] = Append(@, t)] /\ UNCHANGED <<thread, task, handed>>
    BY <1>4 DEF CreateTask, histVars
  <2>2. t \notin fresh /\ \A d \in Entries : t \in packet[d] => d = e
    BY <1>1, <2>1 DEF FreshInv, PacketInv
  <2>3. t \in Outside /\ Outside' = Outside \ {t}
    BY <1>1, <1>2, <2>1, <2>2 DEF Outside, TypeOK, Entries
  <2>4. QED
    BY <1>1, <2>1, <2>3, LaneEnters
<1>5. QED
  BY <1>3, <1>4

\* Every step of the engine is a step of the lanes, or none.
LEMMA StepOfLanes ==
  ASSUME IInv, TypeOK', [Next]_vars
  PROVE  [Lanes!Next]_Lanes!vars
<1>1. TypeOK
  BY DEF IInv
<1>2. ASSUME UNCHANGED <<fresh, packet, queue, task, handed>>,
             \A p \in Procs : thread'[p] = thread[p] \/ (thread[p] \in Idle /\ thread'[p] \in Idle)
      PROVE  [Lanes!Next]_Lanes!vars
  <2>1. \A p \in Ends : OnTheWay(p)' = OnTheWay(p)
    <3>1. \A p \in Ends : thread'[p] \in Working(p) <=> thread[p] \in Working(p)
      BY <1>2, TwoEnds DEF Idle, Working, Busy
    <3>2. QED
      BY <1>2, <3>1, EndKept, TwoEnds
  <2>2. QED
    BY <1>2, <2>1, EndsStandStill DEF Outside
<1>3. CASE Handlers
  BY <1>3, HandlersOfLanes DEF Handlers
<1>4. ASSUME NEW p \in Procs, Thread(p) PROVE [Lanes!Next]_Lanes!vars
  BY <1>1, <1>4, ThreadOfLanes
<1>5. CASE (\E t \in Tasks : NblFinished(t)) \/ (\E mode \in Modes : SetForwardingMode(mode))
  BY <1>2, <1>5 DEF NblFinished, SetForwardingMode, histVars
<1>6. CASE StopClearFlag \/ StopSetSignal
  <2>1. UNCHANGED <<fresh, packet, queue, task, handed>>
    BY <1>6 DEF StopClearFlag, StopSetSignal, histVars
  <2>2. \A p \in Procs : thread'[p] = thread[p] \/ (thread[p] \in Idle /\ thread'[p] \in Idle)
    BY <1>6 DEF StopClearFlag, StopSetSignal, Idle
  <2>3. QED
    BY <1>2, <2>1, <2>2
<1>7. CASE StopDrain
  BY <1>7, LanesFlushed DEF StopDrain, Outside
<1>8. CASE UNCHANGED vars
  BY <1>2, <1>8 DEF vars, histVars
<1>9. QED
  BY <1>3, <1>4, <1>5, <1>6, <1>7, <1>8 DEF Next, Stopping, Terminated

\* Packets that are not lost reach NDIS in the order they entered, each once:
\* the engine implements the lanes, whatever its threads, the mode and the stop
\* do.
THEOREM Refinement == Spec => LaneSpec
<1>1. Init => Lanes!Init
  <2> SUFFICES ASSUME Init PROVE Lanes!Init
    OBVIOUS
  <2>1. Outside = Tasks
    BY DEF Init, Outside, Entries
  <2>2. \A p \in Ends : OnTheWay(p) = <<>>
    <3>1. \A p \in Ends : thread[p] \notin Working(p) /\ queue[p] = <<>>
      BY TwoEnds DEF Init, Working, Busy
    <3>2. \A p \in Ends : OnTheWay(p) = <<>> \o <<>>
      BY <3>1 DEF OnTheWay
    <3>3. <<>> \o <<>> = <<>>
      OBVIOUS
    <3>4. QED
      BY <3>2, <3>3
  <2>3. \A e \in Entries : Lane[e] = <<>>
    BY <2>2, TwoEnds, LaneOf
  <2>4. Lane = [e \in Entries |-> <<>>] /\ Delivered = [e \in Entries |-> <<>>]
    BY <2>3, TwoEnds DEF Lane, Delivered, Init
  <2>5. QED
    BY <2>1, <2>4 DEF Lanes!Init
<1>2. IInv /\ IInv' /\ [Next]_vars => [Lanes!Next]_Lanes!vars
  BY StepOfLanes DEF IInv
<1>3. QED
  BY <1>1, <1>2, InductiveInvariant, PTL DEF Spec, LaneSpec, Lanes!Spec

-----------------------------------------------------------------------------
(* The engine among filter modules.                                        *)

\* Attaching, restarting, pausing and detaching modules does nothing to the engine, and
\* what comes through a module is what a handler may get: all that is proved of the engine
\* holds with modules that come and go.
THEOREM ModulesLeaveTheEngine == MSpec => Spec
<1>1. MInit => Init
  BY DEF MInit
<1>2. ASSUME [MNext]_allVars PROVE [Next]_vars
  <2>1. CASE UNCHANGED allVars
    BY <2>1 DEF allVars
  <2>2. ASSUME NEW c \in Contexts,
               WPFilterAttach(c) \/ WPFilterRestart(c) \/ WPFilterPause(c) \/ WPFilterDetach(c)
        PROVE  UNCHANGED vars
    BY <2>2 DEF WPFilterAttach, WPFilterRestart, WPFilterPause, WPFilterDetach
  <2>3. ASSUME NEW c \in Contexts, NEW e \in Entries, NEW t \in Tasks, Receive(e, t, c)
        PROVE  Next
    BY <2>3 DEF Receive, Next, Handlers
  <2>4. CASE Engine
    BY <2>4 DEF Engine, Next, Handlers, Stopping
  <2>5. CASE Unload
    BY <2>5 DEF Unload, Next, Stopping
  <2>6. QED
    BY <1>2, <2>1, <2>2, <2>3, <2>4, <2>5 DEF MNext
<1>3. QED
  BY <1>1, <1>2, PTL DEF MSpec, Spec
=============================================================================
