------------------------- MODULE MCChecksumOffload --------------------------
(***************************************************************************)
(* ChecksumOffload for TLC: packets of every kind PostroutingThread tells  *)
(* apart, with the shortest and the longest IPv4 header, and adapters that *)
(* compute everything, or just TCP for IPv4 and UDP for IPv6.              *)
(***************************************************************************)
EXTENDS ChecksumOffload

Sent(ether, headerLength, chain, first) ==
  [ether |-> ether, headerLength |-> headerLength, chain |-> chain,
   first |-> first, payload |-> "ICMP"]

MCPackets == {
  Sent("IP", 15, <<"TCP">>, "UDP"),
  Sent("IP", 5, <<"UDP">>, "TCP"),
  Sent("IPV6", 5, <<"TCP">>, "HOPOPT"),
  Sent("IPV6", 5, <<"UDP">>, "TCP"),
  Sent("IPV6", 5, <<"ROUTE", "OPTS", "UDP">>, "TCP"),
  Sent("ARP", 5, <<"TCP">>, "TCP") }

MCAdapters == {Offloads, {<<"IP", "TCP">>, <<"IPV6", "UDP">>}}
=============================================================================
