---------------------------- MODULE MCRouteTable ----------------------------
(***************************************************************************)
(* RouteTable for TLC: addresses of four bits, in bytes of two, and routes *)
(* of every kind the order tells apart: a default route that its metric    *)
(* puts before a longer prefix, prefixes that end in and between bytes,    *)
(* equal routes through two gateways.                                      *)
(***************************************************************************)
EXTENDS RouteTable

Route(type, destination, prefix, metric, gateway) ==
  [type |-> type, destination |-> destination, prefix |-> prefix,
   metric |-> metric, gateway |-> gateway]

MCAddressBytes == [IPV4 |-> 2, IPV6 |-> 2]

MCRows == {
  Route("IPV4", <<{}, {}>>, 0, 1, "gw1"),
  Route("IPV4", <<{1}, {1}>>, 3, 2, "gw1"),
  Route("IPV4", <<{1}, {1}>>, 3, 2, "gw2"),
  Route("IPV4", <<{1}, {0}>>, 4, 2, "gw1"),
  Route("IPV6", <<{0}, {}>>, 1, 1, "gw1") }
=============================================================================
