-------------------------- MODULE ChecksumOffload ---------------------------
(***************************************************************************)
(* What the engine tells NDIS about the checksums of a packet that a hook  *)
(* has modified (InputThread and PostroutingThread in route_engine.c),     *)
(* with the header functions it asks (ether.h, ipv4.h, ipv6.h), while the  *)
(* tools of CommandChannel change the settings.                            *)
(*                                                                         *)
(* The two threads share nothing but the settings, which they only read,   *)
(* so one packet of either of them is followed at a time.                  *)
(*                                                                         *)
(* A packet is what those functions read of it.  Offsets are in bytes; the *)
(* extension headers of IPv6 are as short as they can be.                  *)
(***************************************************************************)
EXTENDS CommandChannel

CONSTANTS
  Packets,  \* packets PostroutingThread may send: see Packet
  NoPacket, \* value of packet when there is none
  Adapters  \* what OffloadConfig of their adapters may be: subsets of Offloads

ETH_HEADER == 14
IPV6_HEADER == 40
ExtensionHeader == 8

\* IPV6_EXT_... in ip.h.
Extensions == {"HOPOPT", "ROUTE", "FRAG", "ESP", "AH", "NONXT", "OPTS"}
Protocols == {"TCP", "UDP", "ICMP"} \cup Extensions
Checksums == {"IP", "TCP", "UDP"}
Offloads == ({"IP"} \X Checksums) \cup ({"IPV6"} \X {"TCP", "UDP"})

\* chain: protocols of the headers after that of IPv4 or IPv6, the last one the
\* transport protocol; first: the protocol that the first byte of its header, half
\* of a port, would be; payload: the same of the bytes after its header.
Packet == [ether : {"IP", "IPV6", "ARP"}, headerLength : 5..15, chain : Seq(Protocols),
           first : Protocols, payload : Protocols]

\* The length of AH is counted otherwise and ESP hides what follows: no chain goes
\* on after them.
ASSUME PacketsAssumption ==
  /\ Packets \subseteq Packet /\ NoPacket \notin Packets
  /\ \A p \in Packets :
       /\ p.chain # <<>> /\ p.payload \notin Extensions
       /\ p.ether # "IPV6" => Len(p.chain) = 1
       /\ \A i \in 1..Len(p.chain)-1 : p.chain[i] \in Extensions \ {"ESP", "AH", "NONXT"}
ASSUME AdaptersAssumption == Adapters \subseteq SUBSET Offloads

VARIABLES
  at,     \* what the thread with the packet does next
  packet, \* the packet PostroutingThread sends
  nic,    \* OffloadConfig of its adapter
  info,   \* bits that are set in ChecksumOffloadInfo
  offset, \* TcpHeaderOffset in it
  ever,   \* history: flags that were TRUE at some time of the packet
  always  \* history: flags that were TRUE all the time

threadVars == <<at, packet, nic, info, offset>>
historyVars == <<ever, always>>
allVars == <<vars, threadVars, historyVars>>

OffloadInit ==
  /\ Init
  /\ at = "idle"
  /\ packet = NoPacket /\ nic = {}
  /\ info = {} /\ offset = 0
  /\ ever = {} /\ always = {}

On == {s \in Flags : setting[s] = 1}

-----------------------------------------------------------------------------
(* The headers.                                                            *)

\* ProtocolId with the walk at header i: at first the next header field of the
\* IPv6 header, and then the first byte of the header it has come to.
ProtocolId(p, i) ==
  CASE i = 1 -> p.chain[1]
    [] i \in 2..Len(p.chain)-1 -> p.chain[i + 1]
    [] i = Len(p.chain) /\ i > 1 -> p.first
    [] OTHER -> p.payload

\* The header at which the loop over the extension headers stops.
LoopStop(p) ==
  CHOOSE i \in 1..Len(p.chain)+1 : /\ ProtocolId(p, i) \notin Extensions
                                   /\ \A j \in 1..i-1 : ProtocolId(p, j) \in Extensions

GetTransportLayerProtocolFromIPv6Header(p) == ProtocolId(p, LoopStop(p))

GetTransportLayerHeaderFromIPv6Header(p) ==
  ETH_HEADER + IPV6_HEADER + ExtensionHeader * (LoopStop(p) - 1)

GetTransportLayerHeaderFromIPv4Header(p) == ETH_HEADER + 4 * p.headerLength

-----------------------------------------------------------------------------
(* PostroutingThread.                                                      *)

Takes == ever' = On /\ always' = On

Gives ==
  /\ at' = "idle"
  /\ packet' = NoPacket /\ nic' = {}
  /\ info' = {} /\ offset' = 0
  /\ ever' = {} /\ always' = {}
  /\ UNCHANGED vars

\* TcpChecksum and UdpChecksum by the packet's protocol and the adapter.
TransmitProtocol(p, can) ==
  LET protocol == IF p.ether = "IPV6" THEN GetTransportLayerProtocolFromIPv6Header(p)
                  ELSE p.chain[1]
  IN  {c \in {"TCP", "UDP"} : c = protocol /\ <<p.ether, c>> \in can}

TakeTransmit(p, can) ==
  /\ at = "idle"
  /\ packet' = p /\ nic' = can
  /\ info' = TransmitProtocol(p, can) \cup
             {c \in {"IP"} : /\ p.ether = "IP" /\ <<"IP", "IP">> \in can
                             /\ setting["TryCalcModifiedTxPacketIPChecksumByNIC"] = 1}
  /\ at' = "txTCP"
  /\ Takes
  /\ UNCHANGED <<vars, offset>>

TrySetting == [TCP |-> "TryCalcModifiedTxPacketTCPChecksumByNIC",
               UDP |-> "TryCalcModifiedTxPacketUDPChecksumByNIC"]
TransmitAt == [TCP |-> "txTCP", UDP |-> "txUDP"]

\* Faulty variant: the bit is set, not masked.
AndSettingSets(c) ==
  /\ at = TransmitAt[c]
  /\ info' = IF setting[TrySetting[c]] = 1 THEN info \cup {c} ELSE info \ {c}
  /\ at' = IF c = "TCP" THEN "txUDP" ELSE "txOffset"
  /\ UNCHANGED <<vars, packet, nic, offset, historyVars>>

AndSetting(c) ==
  /\ at = TransmitAt[c]
  /\ info' = IF setting[TrySetting[c]] = 1 THEN info ELSE info \ {c}
  /\ at' = IF c = "TCP" THEN "txUDP" ELSE "txOffset"
  /\ UNCHANGED <<vars, packet, nic, offset, historyVars>>

SetTcpHeaderOffset ==
  /\ at = "txOffset"
  /\ offset' = IF "TCP" \notin info THEN 0
               ELSE IF packet.ether = "IP" THEN GetTransportLayerHeaderFromIPv4Header(packet)
               ELSE GetTransportLayerHeaderFromIPv6Header(packet)
  /\ at' = "txSend"
  /\ UNCHANGED <<vars, packet, nic, info, historyVars>>

NdisFSendNetBufferLists == at = "txSend" /\ Gives

-----------------------------------------------------------------------------
(* InputThread.                                                            *)

IndicateSetting == [IP |-> "IndicateModifiedRxPacketWithBadIPChecksumAsGood",
                    TCP |-> "IndicateModifiedRxPacketWithBadTCPChecksumAsGood",
                    UDP |-> "IndicateModifiedRxPacketWithBadUDPChecksumAsGood"]
IndicateAt == [IP |-> "rxIP", TCP |-> "rxTCP", UDP |-> "rxUDP"]
NextBit == [IP |-> "rxTCP", TCP |-> "rxUDP", UDP |-> "rxSend"]

TakeReceive ==
  /\ at = "idle"
  /\ at' = "rxIP"
  /\ Takes
  /\ UNCHANGED <<vars, packet, nic, info, offset>>

IndicateBit(c) ==
  /\ at = IndicateAt[c]
  /\ info' = IF setting[IndicateSetting[c]] = 1 THEN info \cup {c} ELSE info
  /\ at' = NextBit[c]
  /\ UNCHANGED <<vars, packet, nic, offset, historyVars>>

NdisFIndicateReceiveNetBufferLists == at = "rxSend" /\ Gives

-----------------------------------------------------------------------------

\* A step of a tool, seen by a packet on its way.
ToolStep(t) ==
  /\ Tool(t)
  /\ ever' = IF at = "idle" THEN {} ELSE ever \cup On'
  /\ always' = IF at = "idle" THEN {} ELSE always \cap On'
  /\ UNCHANGED threadVars

OffloadNext ==
  \/ \E t \in Tools : ToolStep(t)
  \/ \E p \in Packets, can \in Adapters : TakeTransmit(p, can)
  \/ \E c \in {"TCP", "UDP"} : AndSetting(c)
  \/ SetTcpHeaderOffset \/ NdisFSendNetBufferLists
  \/ TakeReceive \/ (\E c \in Checksums : IndicateBit(c)) \/ NdisFIndicateReceiveNetBufferLists

OffloadSpec == OffloadInit /\ [][OffloadNext]_allVars

-----------------------------------------------------------------------------

OffloadTypeOK ==
  /\ at \in {"idle", "txTCP", "txUDP", "txOffset", "txSend", "rxIP", "rxTCP", "rxUDP", "rxSend"}
  /\ packet \in Packets \cup {NoPacket} /\ nic \in Adapters \cup {{}}
  /\ info \in SUBSET Checksums
  /\ offset \in Nat
  /\ ever \in SUBSET Flags /\ always \in SUBSET Flags

Transport(p) == p.chain[Len(p.chain)]
Extended(p) == p.chain[1] \in Extensions
TransmitSetting(c) == IF c = "IP" THEN "TryCalcModifiedTxPacketIPChecksumByNIC" ELSE TrySetting[c]

HeaderOffset(p) ==
  IF p.ether = "IP" THEN ETH_HEADER + 4 * p.headerLength
  ELSE ETH_HEADER + IPV6_HEADER + ExtensionHeader * (Len(p.chain) - 1)

\* Whatever tools change while a packet is on its way, the adapter is asked for
\* a checksum only if it can compute it for that packet and the setting said so at
\* some time, and it is asked for each one that the setting allowed all the time;
\* with a TCP checksum it is told where the TCP header is.  Behind an extension
\* header the walk may take the protocol from the wrong header (ipv6.h:119): of
\* such packets only the rest holds.
TransmitFollowsSettings ==
  at = "txSend" =>
    /\ \A c \in Checksums :
         LET possible == /\ <<packet.ether, c>> \in nic
                         /\ c = "IP" \/ Extended(packet) \/ c = Transport(packet)
         IN  /\ c \in info => possible /\ TransmitSetting(c) \in ever
             /\ possible /\ ~Extended(packet) /\ TransmitSetting(c) \in always => c \in info
    /\ "TCP" \in info /\ ~Extended(packet) => offset = HeaderOffset(packet)

\* A received packet claims good checksums as the settings of its time tell.
ReceiveFollowsSettings ==
  at = "rxSend" =>
    \A c \in Checksums :
      /\ c \in info => IndicateSetting[c] \in ever
      /\ IndicateSetting[c] \in always => c \in info

\* What NDIS is told of the checksums of a packet follows the settings of its
\* time, whichever way it goes and whatever the tools do meanwhile.
OffloadFollowsSettings == TransmitFollowsSettings /\ ReceiveFollowsSettings
=============================================================================
