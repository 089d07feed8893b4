--------------------------- MODULE FilterModules ---------------------------
(***************************************************************************)
(* The filter modules NDIS attaches to adapters (WPFilterAttach to         *)
(* WPFilterDetach in filter_subroutines.c) around the routing engine.      *)
(* Every task points to the FILTER_CONTEXT of the module its packet came   *)
(* through, and the routing threads follow that pointer.                   *)
(*                                                                         *)
(* NDIS is taken at its most careful: it detaches a module that is paused, *)
(* when no handler of the module is running and every NBL the module       *)
(* allocated has come back.  It unloads the driver without modules only.   *)
(***************************************************************************)
EXTENDS RoutingEngine

CONSTANT Contexts   \* FILTER_CONTEXTs, each attached at most once

VARIABLES
  filterState,    \* absent, FilterPaused, FilterRunning, or freed
  filterContext   \* Task->FilterContext

moduleVars == <<filterState, filterContext>>
allVars == <<vars, moduleVars>>

MInit ==
  /\ Init
  /\ filterState = [c \in Contexts |-> "absent"]
  /\ filterContext = [t \in Tasks |-> NULL]

Become(c, state) == filterState' = [filterState EXCEPT ![c] = state]

WPFilterAttach(c) ==
  /\ threadFlag
  /\ filterState[c] = "absent"
  /\ Become(c, "paused")
  /\ UNCHANGED <<vars, filterContext>>

WPFilterRestart(c) ==
  /\ filterState[c] = "paused"
  /\ Become(c, "running")
  /\ UNCHANGED <<vars, filterContext>>

\* FilterPausing and FilterPaused in one critical section, without a look at
\* what is queued or outstanding.
WPFilterPause(c) ==
  /\ filterState[c] = "running"
  /\ Become(c, "paused")
  /\ UNCHANGED <<vars, filterContext>>

\* Frees the NBL pool and the FILTER_CONTEXT.
WPFilterDetach(c) ==
  /\ filterState[c] = "paused"
  /\ \A t \in Tasks : filterContext[t] = c =>
       nbl[t] # "ndis" /\ \A e \in Entries : t \notin packet[e]
  /\ Become(c, "freed")
  /\ UNCHANGED <<vars, filterContext>>

\* A packet arrives through a running module.
Receive(e, t, c) ==
  /\ filterState[c] = "running"
  /\ AllocatePacketBuffer(e, t)
  /\ filterContext' = [filterContext EXCEPT ![t] = c]
  /\ UNCHANGED filterState

Unload ==
  /\ \A c \in Contexts : filterState[c] \in {"absent", "freed"}
  /\ StopClearFlag
  /\ UNCHANGED moduleVars

Engine ==
  /\ \/ \E e \in Entries, t \in Tasks : CreateTask(e, t) \/ CreateTaskFails(e, t)
     \/ \E p \in Procs : Thread(p)
     \/ \E t \in Tasks : NblFinished(t)
     \/ \E mode \in Modes : SetForwardingMode(mode)
     \/ StopSetSignal \/ StopDrain
  /\ UNCHANGED moduleVars

MNext ==
  \/ \E c \in Contexts :
       \/ WPFilterAttach(c) \/ WPFilterRestart(c) \/ WPFilterPause(c) \/ WPFilterDetach(c)
       \/ \E e \in Entries, t \in Tasks : Receive(e, t, c)
  \/ Engine
  \/ Unload

MSpec == MInit /\ [][MNext]_allVars

-----------------------------------------------------------------------------

\* While a packet is under way in the engine the FILTER_CONTEXT its task points
\* to is allocated: winpfilter.h says of FilterLock, which only WPFilterPause
\* takes, "for protection of state and outstanding sends and recvs".
ContextOutlivesTasks ==
  \A t \in Queued \cup Held : filterState[filterContext[t]] # "freed"
=============================================================================
