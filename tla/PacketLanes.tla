---------------------------- MODULE PacketLanes ----------------------------
(***************************************************************************)
(* What the routing engine promises about the packets it is given: each is *)
(* delivered at most once, at the end of the lane it entered, in the order *)
(* of entry, or lost.  A lane is named after the filter point a packet     *)
(* enters at: PREROUTING for packets from the NIC, OUTPUT for packets from *)
(* the upper layers.                                                       *)
(***************************************************************************)
EXTENDS Naturals, Sequences, SequencesExt

CONSTANTS Packets, Entries

VARIABLES
  outside,   \* packets the engine has not got yet
  lane,      \* packets on the way, oldest first
  delivered  \* packets handed to NDIS, in order

vars == <<outside, lane, delivered>>

Init ==
  /\ outside = Packets
  /\ lane = [e \in Entries |-> <<>>]
  /\ delivered = [e \in Entries |-> <<>>]

Enter(e, t) ==
  /\ t \in outside
  /\ outside' = outside \ {t}
  /\ lane' = [lane EXCEPT ![e] = Append(@, t)]
  /\ UNCHANGED delivered

Deliver(e) ==
  /\ lane[e] # <<>>
  /\ delivered' = [delivered EXCEPT ![e] = Append(@, Head(lane[e]))]
  /\ lane' = [lane EXCEPT ![e] = Tail(@)]
  /\ UNCHANGED outside

Lose(e) ==
  /\ \E i \in DOMAIN lane[e] : lane' = [lane EXCEPT ![e] = RemoveAt(@, i)]
  /\ UNCHANGED <<outside, delivered>>

\* The driver is unloaded.
Flush ==
  /\ lane' = [e \in Entries |-> <<>>]
  /\ UNCHANGED <<outside, delivered>>

Next ==
  \/ \E e \in Entries : (\E t \in Packets : Enter(e, t)) \/ Deliver(e) \/ Lose(e)
  \/ Flush

Spec == Init /\ [][Next]_vars
=============================================================================
