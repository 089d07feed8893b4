--------------------------- MODULE CommandChannel ---------------------------
(***************************************************************************)
(* The settings of the driver, the IOCTLs of the command device that read  *)
(* and write them (communication.c), and the command line tools that send  *)
(* the IOCTLs and judge the answers (wpfilter.c, display.c).               *)
(*                                                                         *)
(* The device is not exclusive and the handler takes no lock: any number   *)
(* of tools are in it at the same time, each in its own thread.            *)
(*                                                                         *)
(* The tool numbers its items from 0; positions in its tables start at 1.  *)
(***************************************************************************)
EXTENDS Naturals, Sequences, FiniteSets

CONSTANTS
  Tools,               \* running command line tools
  Values,              \* numbers a command line may contain
  Empty,               \* a value that is an empty string
  DriverVersion,       \* WINPFILTER_VERSION
  HOOK_LIST_COUNT,     \* filter points
  DisplayHookMaxCount, \* hooks the buffer of the tool has room for
  MaxHooks,            \* bound on the hooks registered at a filter point
  ULONG_MAX,           \* the answer to a filter point that does not exist
  MaxCalls             \* bound on the number of commands

ASSUME NumbersAssumption ==
  /\ Values \subseteq Nat /\ Empty \notin Values /\ DriverVersion \in Nat
  /\ DisplayHookMaxCount \in Nat /\ MaxHooks \in Nat /\ MaxCalls \in Nat
  /\ HOOK_LIST_COUNT = 5 /\ ULONG_MAX \in Nat /\ ULONG_MAX > MaxHooks

Flags == {"IndicateModifiedRxPacketWithBadIPChecksumAsGood",
          "IndicateModifiedRxPacketWithBadTCPChecksumAsGood",
          "IndicateModifiedRxPacketWithBadUDPChecksumAsGood",
          "TryCalcModifiedTxPacketIPChecksumByNIC",
          "TryCalcModifiedTxPacketTCPChecksumByNIC",
          "TryCalcModifiedTxPacketUDPChecksumByNIC"}
Settings == {"IPForwardingMode"} \cup Flags

\* Faulty variant: two cases of the switch are exchanged.
SettingOfExchanged == << "IPForwardingMode",
                         "IndicateModifiedRxPacketWithBadIPChecksumAsGood",
                         "IndicateModifiedRxPacketWithBadTCPChecksumAsGood",
                         "IndicateModifiedRxPacketWithBadUDPChecksumAsGood",
                         "TryCalcModifiedTxPacketIPChecksumByNIC",
                         "TryCalcModifiedTxPacketUDPChecksumByNIC",
                         "TryCalcModifiedTxPacketTCPChecksumByNIC" >>

\* What the functions from WINPFILTER_CTL_CODE_FORWARDING_MODE to
\* WINPFILTER_CTL_CODE_TX_NIC_UDP_CSUM are about.
SettingOf == << "IPForwardingMode",
                "IndicateModifiedRxPacketWithBadIPChecksumAsGood",
                "IndicateModifiedRxPacketWithBadTCPChecksumAsGood",
                "IndicateModifiedRxPacketWithBadUDPChecksumAsGood",
                "TryCalcModifiedTxPacketIPChecksumByNIC",
                "TryCalcModifiedTxPacketTCPChecksumByNIC",
                "TryCalcModifiedTxPacketUDPChecksumByNIC" >>
Version == 0
HookInfo == 8
SettingCodes == DOMAIN SettingOf

\* The tables of the tool.
CTLCodeTextShort == <<"dv", "fm", "NULL", "rxipcsum", "rxtcpcsum", "rxudpcsum",
                      "NULL", "txipcsum", "txtcpcsum", "txudpcsum">>
CTLCodeDisplayType == <<"VERSION", "FORWARDING_MODE", "NONE", "ABILITY", "ABILITY", "ABILITY",
                        "NONE", "ABILITY", "ABILITY", "ABILITY">>
AbilityText == <<"Disable", "Enable">>
ForwardingModeText == <<"MODE_SYSTEM", "MODE_WINPFILTER", "MODE_DISABLE">>
FilterPointText == <<"PREROUTING", "INPUT", "FORWARDING", "OUTPUT", "POSTROUTING">>
Positions == DOMAIN CTLCodeTextShort

VARIABLES
  setting,   \* the settings in global_variables.c
  pc,        \* what each tool does next
  call,      \* the IOCTL it has sent
  answer,    \* Data[1] of its answer
  filled,    \* hooks in the rest of the answer
  calls,     \* number of commands so far
  disturbed  \* history: another tool has written the setting during the IOCTL

vars == <<setting, pc, call, answer, filled, calls, disturbed>>

NoCall == [command |-> "none", text |-> 0, position |-> 1, code |-> Version, value |-> 0]

Init ==
  /\ setting = [s \in Settings |-> IF s = "IPForwardingMode" THEN 0 ELSE 1]
  /\ pc = [t \in Tools |-> "idle"]
  /\ call = [t \in Tools |-> NoCall]
  /\ answer = [t \in Tools |-> 0] /\ filled = [t \in Tools |-> 0]
  /\ calls = 0
  /\ disturbed = [t \in Tools |-> FALSE]

Goto(t, label) == pc' = [pc EXCEPT ![t] = label]

-----------------------------------------------------------------------------
(* main, SetSingleItem, DisplaySingleItem: from the command line to an     *)
(* IOCTL.                                                                  *)

Items == {p \in Positions : CTLCodeTextShort[p] # "NULL"}

\* Headings before an item: main skips rows without a short name,
\* DisplayAllItems rows without a display type.
NonCount(p) == Cardinality({q \in 1..p-1 : CTLCodeTextShort[q] = "NULL"})
NonCountAll(p) == Cardinality({q \in 1..p-1 : CTLCodeDisplayType[q] = "NONE"})

\* Index - NonCount.
CodeOf(p, headings) == (p - 1) - headings

\* sscanf_s of a value: it converts a number; at the end of an empty string it
\* returns EOF, which is not 0, and leaves Value as it was, uninitialised.
Scanned(text) == IF text = Empty THEN Values ELSE {text}

Send(t, request) ==
  /\ call' = [call EXCEPT ![t] = request]
  /\ disturbed' = [disturbed EXCEPT ![t] = FALSE]
  /\ Goto(t, "store")

Begin(t) ==
  /\ pc[t] = "idle"
  /\ calls < MaxCalls
  /\ calls' = calls + 1
  /\ UNCHANGED <<setting, answer, filled>>

SetSingleItem(t, p, text) ==
  /\ Begin(t)
  /\ \E value \in Scanned(text) :
       Send(t, [command |-> "set", text |-> text, position |-> p,
                code |-> CodeOf(p, NonCount(p)), value |-> value])

ShowSingleItem(t, p) ==
  /\ Begin(t)
  /\ Send(t, [NoCall EXCEPT !.command = "show", !.position = p, !.code = CodeOf(p, NonCount(p))])

\* DisplayAllItems starts with the first row, which is no heading.
DisplayAllItems(t) ==
  /\ Begin(t)
  /\ Send(t, [NoCall EXCEPT !.command = "showall", !.code = CodeOf(1, 0)])

DisplayHooks(t, value) ==
  /\ Begin(t)
  /\ Send(t, [NoCall EXCEPT !.command = "hooks", !.code = HookInfo, !.value = value])

-----------------------------------------------------------------------------
(* WPFilterCommDeviceIOCtl on the command device.                          *)

\* Faulty variant: every setting takes three values.
AcceptedAnyFlag(code, value) == code \in SettingCodes /\ value <= 2

Accepted(code, value) ==
  /\ code \in SettingCodes
  /\ value <= IF SettingOf[code] = "IPForwardingMode" THEN 2 ELSE 1

IoctlStore(t) ==
  /\ pc[t] = "store"
  /\ Goto(t, "answer")
  /\ IF call[t].command = "set" /\ Accepted(call[t].code, call[t].value)
     THEN /\ setting' = [setting EXCEPT ![SettingOf[call[t].code]] = call[t].value]
          /\ disturbed' = [u \in Tools |->
               disturbed[u] \/ (u # t /\ pc[u] # "idle" /\ call[u].code = call[t].code)]
     ELSE UNCHANGED <<setting, disturbed>>
  /\ UNCHANGED <<call, answer, filled, calls>>

Smaller(a, b) == IF a < b THEN a ELSE b

\* Faulty variant: the value is answered that was asked for.
IoctlAnswerEcho(t) ==
  /\ pc[t] = "answer"
  /\ Goto(t, "judge")
  /\ answer' = [answer EXCEPT ![t] = call[t].value]
  /\ UNCHANGED <<setting, call, filled, calls, disturbed>>

\* The hooks of a filter point come and go: their number is any. A tool sends no
\* code the switch has no case for.
IoctlAnswer(t) ==
  /\ pc[t] = "answer"
  /\ Goto(t, "judge")
  /\ \/ /\ call[t].code \in SettingCodes
        /\ answer' = [answer EXCEPT ![t] = setting[SettingOf[call[t].code]]]
        /\ UNCHANGED filled
     \/ /\ call[t].code = Version
        /\ answer' = [answer EXCEPT ![t] = DriverVersion]
        /\ UNCHANGED filled
     \/ /\ call[t].code = HookInfo /\ call[t].value < HOOK_LIST_COUNT
        /\ \E count \in 0..MaxHooks :
             /\ answer' = [answer EXCEPT ![t] = count]
             /\ filled' = [filled EXCEPT ![t] = Smaller(count, DisplayHookMaxCount)]
     \/ /\ call[t].code = HookInfo /\ ~(call[t].value < HOOK_LIST_COUNT)
        /\ answer' = [answer EXCEPT ![t] = ULONG_MAX]
        /\ filled' = [filled EXCEPT ![t] = 0]
  /\ UNCHANGED <<setting, call, calls, disturbed>>

-----------------------------------------------------------------------------
(* The answer is judged or displayed.                                      *)

Warned(t) == call[t].command = "set" /\ answer[t] # call[t].value

CallReturns(t) ==
  /\ pc[t] = "judge"
  /\ call[t].command # "showall" \/ call[t].position = Len(CTLCodeTextShort)
  /\ Goto(t, "idle")
  /\ call' = [call EXCEPT ![t] = NoCall]
  /\ UNCHANGED <<setting, answer, filled, calls, disturbed>>

DisplayNextItem(t) ==
  /\ pc[t] = "judge"
  /\ call[t].command = "showall"
  /\ \E p \in Positions :
       /\ p > call[t].position /\ CTLCodeDisplayType[p] # "NONE"
       /\ \A q \in call[t].position+1..p-1 : CTLCodeDisplayType[q] = "NONE"
       /\ Send(t, [call[t] EXCEPT !.position = p, !.code = CodeOf(p, NonCountAll(p))])
  /\ UNCHANGED <<setting, answer, filled, calls>>

\* The loop of DisplayHooks goes to the smaller of the two counts.
PrintCount(t) == Smaller(answer[t], DisplayHookMaxCount)

Tool(t) ==
  \/ \E p \in Items, text \in Values \cup {Empty} : SetSingleItem(t, p, text)
  \/ \E p \in Items : ShowSingleItem(t, p)
  \/ DisplayAllItems(t)
  \/ \E value \in Values : DisplayHooks(t, value)
  \/ IoctlStore(t) \/ IoctlAnswer(t)
  \/ CallReturns(t) \/ DisplayNextItem(t)

Next == \E t \in Tools : Tool(t)

Spec == Init /\ [][Next]_vars

-----------------------------------------------------------------------------

Calls == [command : {"none", "set", "show", "showall", "hooks"}, text : Values \cup {0, Empty},
          position : Positions, code : SettingCodes \cup {Version, HookInfo},
          value : Values \cup {0}]

TypeOK ==
  /\ setting \in [Settings -> 0..2]
  /\ pc \in [Tools -> {"idle", "store", "answer", "judge"}]
  /\ call \in [Tools -> Calls]
  /\ answer \in [Tools -> Nat] /\ filled \in [Tools -> 0..DisplayHookMaxCount]
  /\ calls \in 0..MaxCalls
  /\ disturbed \in [Tools -> BOOLEAN]

\* What CTLCodeText says the items are.
Described == [dv |-> "Version", fm |-> "IPForwardingMode",
              rxipcsum |-> "IndicateModifiedRxPacketWithBadIPChecksumAsGood",
              rxtcpcsum |-> "IndicateModifiedRxPacketWithBadTCPChecksumAsGood",
              rxudpcsum |-> "IndicateModifiedRxPacketWithBadUDPChecksumAsGood",
              txipcsum |-> "TryCalcModifiedTxPacketIPChecksumByNIC",
              txtcpcsum |-> "TryCalcModifiedTxPacketTCPChecksumByNIC",
              txudpcsum |-> "TryCalcModifiedTxPacketUDPChecksumByNIC"]
ItemOf(t) == Described[CTLCodeTextShort[call[t].position]]

\* The tables of tool and driver, kept in two programs, agree: a setting changes
\* only if a command names it, and then to the value of the command.
NamedItemOnly ==
  [][\A s \in Settings : setting'[s] # setting[s] =>
       \E t \in Tools : /\ pc[t] = "store" /\ call[t].command = "set"
                        /\ ItemOf(t) = s /\ setting'[s] = call[t].value]_vars

\* Whatever the tools write at the same time, the driver answers only what the
\* tool has a text for, and the tool prints no hook the driver has not written.
DisplayedInTable ==
  \A t \in Tools : pc[t] = "judge" =>
    CASE call[t].command \in {"show", "showall"} ->
           LET type == CTLCodeDisplayType[call[t].position]
           IN  /\ type = "ABILITY" => answer[t] + 1 \in DOMAIN AbilityText
               /\ type = "FORWARDING_MODE" => answer[t] + 1 \in DOMAIN ForwardingModeText
      [] call[t].command = "hooks" /\ answer[t] # ULONG_MAX ->
           call[t].value + 1 \in DOMAIN FilterPointText /\ PrintCount(t) <= filled[t]
      [] OTHER -> TRUE

\* A tool that is alone with its setting is told the truth: it is shown the
\* value of the item, and warned exactly if the driver refused a setting.  Two
\* that set one item may each be told of a refusal that was none (wpfilter.c:48).
QuietAnswersTrue ==
  \A t \in Tools :
    pc[t] = "judge" /\ ~disturbed[t] /\ call[t].command \in {"set", "show", "showall"} =>
      /\ answer[t] = IF ItemOf(t) = "Version" THEN DriverVersion ELSE setting[ItemOf(t)]
      /\ call[t].command = "set" /\ ItemOf(t) \in Settings =>
           (Warned(t) <=> ~Accepted(call[t].code, call[t].value))
=============================================================================
