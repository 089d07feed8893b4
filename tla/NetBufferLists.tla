--------------------------- MODULE NetBufferLists ---------------------------
(***************************************************************************)
(* Chains of NET_BUFFER_LISTs on their way back through a filter module:   *)
(* WPFilterSendToUpperFinished, WPFilterSendToNICFinished and the removal  *)
(* of the driver's own NBLs from a chain (filter_subroutines.c).           *)
(*                                                                         *)
(* The handlers are written for chains in which NBLs of the filter and of  *)
(* others are mixed in any order.  The receive handlers of this version    *)
(* copy every packet and pass no NBL of others on; the constants OthersUp  *)
(* and OthersNic say which they would, and are empty today.                *)
(***************************************************************************)
EXTENDS Naturals, FiniteSets, SequencesExt

CONSTANTS
  Own,       \* NBLs whose SourceHandle is the FilterHandle of the module
  OthersUp,  \* NBLs of the miniport that are passed on to the protocols
  OthersNic, \* NBLs of the protocols that are passed on to the miniport
  Handlers,  \* threads NDIS may be calling the two handlers on
  NULL

Others == OthersUp \cup OthersNic
Nbls == Own \cup Others
Parts == {"NBL", "MDL", "DataBuffer"}
Up == "WPFilterSendToUpperFinished"
Nic == "WPFilterSendToNICFinished"

ASSUME NblsAssumption == Own \cap Others = {} /\ NULL \notin Nbls /\ IsFiniteSet(Nbls)

VARIABLES
  memory,   \* what is allocated: NBLs with their MDL and data buffer
  holder,   \* who has an NBL: its owner, NDIS or a handler
  next,     \* NET_BUFFER_LIST_NEXT_NBL
  pc,       \* what each handler does next
  handler,  \* which of the two it is
  argument, \* NetBufferLists
  header,   \* NBLChainHeader
  current,  \* CurrentNBL
  previous, \* PreviousNBL
  chain,    \* history: the chain NDIS has given
  given     \* history: the chain it got back

locals == <<handler, argument, header, current, previous, chain>>
vars == <<memory, holder, next, pc, locals, given>>

Init ==
  /\ memory = Others \X Parts
  /\ holder = [n \in Nbls |-> "owner"]
  /\ next = [n \in Nbls |-> NULL]
  /\ pc = [h \in Handlers |-> "idle"]
  /\ handler = [h \in Handlers |-> Up]
  /\ argument = [h \in Handlers |-> NULL] /\ header = argument
  /\ current = argument /\ previous = argument
  /\ chain = [h \in Handlers |-> <<>>] /\ given = chain

Goto(h, label) == pc' = [pc EXCEPT ![h] = label]

ChainFrom[n \in Nbls \cup {NULL}] == IF n = NULL THEN <<>> ELSE <<n>> \o ChainFrom[next[n]]

-----------------------------------------------------------------------------
(* The way down or up.                                                     *)

\* A routing thread allocates an NBL and sends or indicates it.
HandToNdis(n) ==
  /\ holder[n] = "owner" /\ n \in Own
  /\ memory' = memory \cup ({n} \X Parts)
  /\ holder' = [holder EXCEPT ![n] = "NDIS"]
  /\ UNCHANGED <<next, pc, locals, given>>

\* Somebody else does.
PassOn(n) ==
  /\ holder[n] = "owner" /\ n \in Others
  /\ holder' = [holder EXCEPT ![n] = "NDIS"]
  /\ UNCHANGED <<memory, next, pc, locals, given>>

-----------------------------------------------------------------------------
(* The way back.                                                           *)

\* Chains NDIS may put together of what was passed in one direction.
Chains(f) ==
  LET passed == Own \cup (IF f = Up THEN OthersUp ELSE OthersNic)
  IN  UNION {SetToSeqs(ns) : ns \in (SUBSET {n \in passed : holder[n] = "NDIS"}) \ {{}}}

Finished(h, f, c) ==
  /\ pc[h] = "idle"
  /\ Goto(h, "walk")
  /\ holder' = [n \in Nbls |-> IF n \in ToSet(c) THEN "handler" ELSE holder[n]]
  /\ next' = [n \in Nbls |->
                IF n \notin ToSet(c) THEN next[n]
                ELSE LET i == CHOOSE i \in DOMAIN c : c[i] = n
                     IN  IF i = Len(c) THEN NULL ELSE c[i + 1]]
  /\ handler' = [handler EXCEPT ![h] = f]
  /\ argument' = [argument EXCEPT ![h] = c[1]]
  /\ header' = [header EXCEPT ![h] = c[1]]
  /\ current' = [current EXCEPT ![h] = c[1]]
  /\ previous' = [previous EXCEPT ![h] = NULL]
  /\ chain' = [chain EXCEPT ![h] = c]
  /\ UNCHANGED <<memory, given>>

\* Faulty variant: the MDL is left.
FreeSingleNBLKeepsMdl(n) ==
  /\ memory' = memory \ ({n} \X {"NBL", "DataBuffer"})
  /\ holder' = [holder EXCEPT ![n] = "owner"]

\* The NBLs of the driver have one NET_BUFFER with one MDL, of non-paged memory
\* that is mapped already.
FreeSingleNBL(n) ==
  /\ memory' = memory \ ({n} \X Parts)
  /\ holder' = [holder EXCEPT ![n] = "owner"]

\* Faulty variant: the head of the chain is no special case.
UnlinkBehindHead(h, n) ==
  /\ next' = [m \in Nbls |-> IF m = previous[h] THEN next[n] ELSE IF m = n THEN NULL ELSE next[m]]
  /\ UNCHANGED header

\* Faulty variant: the predecessor still points to the NBL.
UnlinkHeadOnly(h, n) ==
  /\ next' = [next EXCEPT ![n] = NULL]
  /\ header' = [header EXCEPT ![h] = IF n = @ THEN next[n] ELSE @]

Unlink(h, n) ==
  IF n = header[h]
  THEN /\ header' = [header EXCEPT ![h] = next[n]]
       /\ next' = [next EXCEPT ![n] = NULL]
  ELSE /\ next' = [next EXCEPT ![previous[h]] = next[n], ![n] = NULL]
       /\ UNCHANGED header

RemoveOwn(h) ==
  /\ pc[h] = "walk"
  /\ current[h] \in Own
  /\ Unlink(h, current[h])
  /\ FreeSingleNBL(current[h])
  /\ current' = [current EXCEPT ![h] = next[current[h]]]
  /\ UNCHANGED <<pc, handler, argument, previous, chain, given>>

KeepOther(h) ==
  /\ pc[h] = "walk"
  /\ current[h] \in Others
  /\ previous' = [previous EXCEPT ![h] = current[h]]
  /\ current' = [current EXCEPT ![h] = next[current[h]]]
  /\ UNCHANGED <<memory, holder, next, pc, handler, argument, header, chain, given>>

GiveBack(h, n) ==
  /\ given' = [given EXCEPT ![h] = ChainFrom[n]]
  /\ holder' = [m \in Nbls |-> IF m \in ToSet(ChainFrom[n]) THEN "owner" ELSE holder[m]]

\* WPFilterSendToUpperFinished gives back what is left of the chain;
\* WPFilterSendToNICFinished gives back NetBufferLists.
WalkEnds(h) ==
  /\ pc[h] = "walk"
  /\ current[h] = NULL
  /\ Goto(h, "return")
  /\ IF header[h] = NULL THEN UNCHANGED <<given, holder>>
     ELSE GiveBack(h, IF handler[h] = Up THEN header[h] ELSE argument[h])
  /\ UNCHANGED <<memory, next, locals>>

Return(h) ==
  /\ pc[h] = "return"
  /\ Goto(h, "idle")
  /\ argument' = [argument EXCEPT ![h] = NULL]
  /\ header' = [header EXCEPT ![h] = NULL]
  /\ previous' = [previous EXCEPT ![h] = NULL]
  /\ chain' = [chain EXCEPT ![h] = <<>>]
  /\ given' = [given EXCEPT ![h] = <<>>]
  /\ UNCHANGED <<memory, holder, next, handler, current>>

-----------------------------------------------------------------------------

Next ==
  \/ \E n \in Nbls : HandToNdis(n) \/ PassOn(n)
  \/ \E h \in Handlers :
       \/ \E f \in {Up, Nic} : \E c \in Chains(f) : Finished(h, f, c)
       \/ RemoveOwn(h) \/ KeepOther(h) \/ WalkEnds(h) \/ Return(h)

Spec == Init /\ [][Next]_vars

-----------------------------------------------------------------------------

TypeOK ==
  LET Pointers == [Handlers -> Nbls \cup {NULL}]
  IN  /\ memory \in SUBSET (Nbls \X Parts)
      /\ holder \in [Nbls -> {"owner", "NDIS", "handler"}]
      /\ next \in [Nbls -> Nbls \cup {NULL}]
      /\ pc \in [Handlers -> {"idle", "walk", "return"}]
      /\ handler \in [Handlers -> {Up, Nic}]
      /\ argument \in Pointers /\ header \in Pointers
      /\ current \in Pointers /\ previous \in Pointers
      /\ chain \in [Handlers -> Seq(Nbls)] /\ given \in [Handlers -> Seq(Nbls)]

\* The walk follows no pointer into an NBL that it has freed: nor will it, by
\* any link it is going to follow.
WalkPointersLive ==
  \A h \in Handlers : pc[h] = "walk" =>
    \A n \in ToSet(ChainFrom[header[h]]) \cup ToSet(ChainFrom[current[h]]) :
      {n} \X Parts \subseteq memory

\* Wherever they are in a chain and whichever handler has it, the driver's own
\* NBLs are freed with all they have, and no NBL of another is: those a handler
\* has are still ahead of its walk.
OwnFreed ==
  /\ Others \X Parts \subseteq memory
  /\ \A n \in Own : IF holder[n] = "owner" THEN \A part \in Parts : <<n, part>> \notin memory
                    ELSE {n} \X Parts \subseteq memory
  /\ \A n \in Own : holder[n] = "handler" =>
       \E h \in Handlers : pc[h] = "walk" /\ n \in ToSet(ChainFrom[current[h]])

\* The NBLs s are those of others in the chain c, all of them, in their order.
IsRest(s, c) ==
  /\ ToSet(s) = ToSet(c) \cap Others
  /\ \A i, j \in DOMAIN s : i < j => \E k, l \in DOMAIN c : k < l /\ c[k] = s[i] /\ c[l] = s[j]

\* What a handler gives back to NDIS are the NBLs of others in the chain, all of
\* them, in their order, and nothing else: WPFilterSendToUpperFinished from any
\* chain, WPFilterSendToNICFinished from one without, which is all it gets today.
RestReturned ==
  \A h \in Handlers : pc[h] = "return" /\ (handler[h] = Up \/ ToSet(chain[h]) \cap Others = {}) =>
    IsRest(given[h], chain[h])
=============================================================================
