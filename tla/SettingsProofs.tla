--------------------------- MODULE SettingsProofs ---------------------------
(***************************************************************************)
(* What the settings of the driver do.  A command changes the item it      *)
(* names and an answer has a text, for any number of tools in the command  *)
(* device and any values they send; what NDIS is told of the checksums of  *)
(* a packet follows the settings, for any packets, any adapters and any    *)
(* tools that change the settings while the packet is on its way; and the  *)
(* packets do not disturb the tools.                                       *)
(***************************************************************************)
EXTENDS ChecksumOffload, FiniteSetTheorems, WellFoundedInduction, TLAPS

-----------------------------------------------------------------------------
(* The tables of the tool and of the driver.                               *)

\* Rows without a short name are those without a display type.
LEMMA SameHeadings ==
  \A q \in 1..10 : /\ CTLCodeTextShort[q] = "NULL" <=> q \in {3, 7}
                   /\ CTLCodeDisplayType[q] = "NONE" <=> q \in {3, 7}
<1> TAKE q \in 1..10
<1>1. q \in {1, 2, 3, 4, 5, 6, 7, 8, 9, 10}
  OBVIOUS
<1>2. QED
  BY <1>1 DEF CTLCodeTextShort, CTLCodeDisplayType

LEMMA ItemPositions == Positions = 1..10 /\ Items = {1, 2, 4, 5, 6, 8, 9, 10}
<1>1. Positions = 1..10
  BY DEF Positions, CTLCodeTextShort
<1>2. QED
  BY <1>1, SameHeadings DEF Items

\* No heading before the first two items, one before the next three, two before
\* the last.
LEMMA Headings ==
  \A p \in Items : /\ NonCountAll(p) = NonCount(p)
                   /\ NonCount(p) = IF p <= 2 THEN 0 ELSE IF p <= 6 THEN 1 ELSE 2
<1> SUFFICES ASSUME NEW p \in Items
             PROVE  /\ NonCountAll(p) = NonCount(p)
                    /\ NonCount(p) = IF p <= 2 THEN 0 ELSE IF p <= 6 THEN 1 ELSE 2
  OBVIOUS
<1> DEFINE before == {q \in 1..p-1 : q \in {3, 7}}
<1>1. p \in {1, 2, 4, 5, 6, 8, 9, 10}
  BY ItemPositions
<1>2. 1..p-1 \subseteq 1..10
  BY <1>1
<1>3. /\ {q \in 1..p-1 : CTLCodeTextShort[q] = "NULL"} = before
      /\ {q \in 1..p-1 : CTLCodeDisplayType[q] = "NONE"} = before
  BY <1>2, SameHeadings
<1>4. NonCount(p) = Cardinality(before) /\ NonCountAll(p) = Cardinality(before)
  BY <1>3 DEF NonCount, NonCountAll
<1>5. CASE p <= 2
  <2>1. before = {}
    BY <1>1, <1>5
  <2>2. QED
    BY <1>4, <1>5, <2>1, FS_EmptySet
<1>6. CASE p \in {4, 5, 6}
  <2>1. before = {3}
    BY <1>6
  <2>2. QED
    BY <1>4, <1>6, <2>1, FS_Singleton
<1>7. CASE p \in {8, 9, 10}
  <2>1. before = {3} \cup {7}
    BY <1>7
  <2>2. IsFiniteSet({3}) /\ Cardinality({3}) = 1
    BY FS_Singleton, Zenon
  <2>3. Cardinality({3} \cup {7}) = 2
    <3>1. Cardinality({3} \cup {7}) = IF 7 \in {3} THEN Cardinality({3}) ELSE Cardinality({3}) + 1
      BY <2>2, FS_AddElement, Zenon
    <3>2. 7 \notin {3}
      OBVIOUS
    <3>3. QED
      BY <2>2, <3>1, <3>2
  <2> HIDE DEF before
  <2>4. NonCount(p) = 2 /\ NonCountAll(p) = 2
    BY <1>4, <2>1, <2>3
  <2>5. QED
    BY <1>7, <2>4
<1>8. QED
  BY <1>1, <1>5, <1>6, <1>7

Code(p) == CodeOf(p, NonCount(p))

\* The code of an item is that of the setting it describes.
LEMMA ItemCodes ==
  \A p \in Items :
    /\ Code(p) = CodeOf(p, NonCountAll(p))
    /\ Described[CTLCodeTextShort[p]] = "Version" => Code(p) = Version
    /\ Described[CTLCodeTextShort[p]] # "Version" =>
         Code(p) \in SettingCodes /\ SettingOf[Code(p)] = Described[CTLCodeTextShort[p]]
    /\ CTLCodeDisplayType[p] = "FORWARDING_MODE" <=> Code(p) = 1
    /\ CTLCodeDisplayType[p] = "ABILITY" <=> Code(p) \in 2..7
<1> TAKE p \in Items
<1>1. p \in {1, 2, 4, 5, 6, 8, 9, 10}
  BY ItemPositions
<1>2. Code(p) = CodeOf(p, NonCountAll(p))
  BY Headings DEF Code
<1>3. Code(p) = IF p <= 2 THEN p - 1 ELSE IF p <= 6 THEN p - 2 ELSE p - 3
  BY <1>1, Headings DEF Code, CodeOf
<1>4. CASE p = 1
  BY <1>2, <1>3, <1>4 DEF Described, CTLCodeTextShort, CTLCodeDisplayType, SettingCodes, SettingOf, Version
<1>5. CASE p = 2
  BY <1>2, <1>3, <1>5 DEF Described, CTLCodeTextShort, CTLCodeDisplayType, SettingCodes, SettingOf, Version
<1>6. CASE p = 4
  BY <1>2, <1>3, <1>6 DEF Described, CTLCodeTextShort, CTLCodeDisplayType, SettingCodes, SettingOf, Version
<1>7. CASE p = 5
  BY <1>2, <1>3, <1>7 DEF Described, CTLCodeTextShort, CTLCodeDisplayType, SettingCodes, SettingOf, Version
<1>8. CASE p = 6
  BY <1>2, <1>3, <1>8 DEF Described, CTLCodeTextShort, CTLCodeDisplayType, SettingCodes, SettingOf, Version
<1>9. CASE p = 8
  BY <1>2, <1>3, <1>9 DEF Described, CTLCodeTextShort, CTLCodeDisplayType, SettingCodes, SettingOf, Version
<1>10. CASE p = 9
  BY <1>2, <1>3, <1>10 DEF Described, CTLCodeTextShort, CTLCodeDisplayType, SettingCodes, SettingOf, Version
<1>11. CASE p = 10
  BY <1>2, <1>3, <1>11 DEF Described, CTLCodeTextShort, CTLCodeDisplayType, SettingCodes, SettingOf, Version
<1>12. QED
  BY <1>1, <1>4, <1>5, <1>6, <1>7, <1>8, <1>9, <1>10, <1>11

-----------------------------------------------------------------------------
(* The inductive invariant.                                                *)

FlagsInv == \A s \in Flags : setting[s] \in 0..1

\* What the tools send is about the items they name.
RequestInv ==
  \A t \in Tools :
    /\ call[t].command \in {"set", "show", "showall"} =>
         call[t].position \in Items /\ call[t].code = Code(call[t].position)
    /\ call[t].command = "hooks" => call[t].code = HookInfo
    /\ pc[t] # "idle" => call[t].command # "none"

\* What the driver has answered.
AnswerInv ==
  \A t \in Tools : pc[t] = "judge" =>
    /\ call[t].code = 1 => answer[t] \in 0..2
    /\ call[t].code \in 2..7 => answer[t] \in 0..1
    /\ call[t].code = HookInfo /\ answer[t] # ULONG_MAX =>
         call[t].value < HOOK_LIST_COUNT /\ filled[t] = Smaller(answer[t], DisplayHookMaxCount)

CInv == TypeOK /\ FlagsInv /\ RequestInv /\ AnswerInv

-----------------------------------------------------------------------------

LEMMA Codes == SettingCodes = 1..7 /\ SettingOf \in [1..7 -> Settings] /\ SettingOf[1] = "IPForwardingMode"
               /\ \A c \in 2..7 : SettingOf[c] \in Flags
<1>1. SettingCodes = 1..7
  BY DEF SettingCodes, SettingOf
<1>2. ASSUME NEW c \in 1..7
      PROVE  SettingOf[c] \in Settings /\ (c = 1 <=> SettingOf[c] = "IPForwardingMode")
             /\ (c # 1 => SettingOf[c] \in Flags)
  <2>1. c \in {1, 2, 3, 4, 5, 6, 7}
    BY <1>2
  <2>2. QED
    BY <2>1 DEF SettingOf, Settings, Flags
<1>3. SettingOf \in [1..7 -> Settings]
  <2>1. SettingOf = [c \in 1..7 |-> SettingOf[c]]
    BY DEF SettingOf
  <2>2. QED
    BY <1>2, <2>1
<1>4. QED
  BY <1>1, <1>2, <1>3

LEMMA CodeTyped == \A p \in Items : Code(p) \in SettingCodes \cup {Version, HookInfo}
<1> TAKE p \in Items
<1>1. p \in {1, 2, 4, 5, 6, 8, 9, 10}
  BY ItemPositions
<1>2. QED
  BY <1>1, Headings, Codes DEF Code, CodeOf, Version

LEMMA CInit == Init => CInv
<1> SUFFICES ASSUME Init PROVE CInv
  OBVIOUS
<1>1. call = [t \in Tools |-> NoCall] /\ NoCall.command = "none" /\ NoCall \in Calls
  <2>1. 1 \in Positions
    BY ItemPositions
  <2>2. QED
    BY <2>1 DEF Init, NoCall, Calls
<1>2. setting \in [Settings -> 0..2] /\ FlagsInv
  BY DEF Init, FlagsInv, Settings, Flags
<1>3. TypeOK
  BY <1>1, <1>2, NumbersAssumption DEF Init, TypeOK
<1>4. RequestInv /\ AnswerInv
  BY <1>1 DEF Init, RequestInv, AnswerInv
<1>5. QED
  BY <1>2, <1>3, <1>4 DEF CInv

\* A request is sent.
LEMMA SendStep ==
  ASSUME CInv, NEW t \in Tools, NEW request \in Calls, Send(t, request),
         calls' \in 0..MaxCalls, UNCHANGED <<setting, answer, filled>>,
         request.command # "none",
         request.command \in {"set", "show", "showall"} =>
           request.position \in Items /\ request.code = Code(request.position),
         request.command = "hooks" => request.code = HookInfo
  PROVE  CInv'
<1>1. TypeOK' /\ FlagsInv'
  BY DEF CInv, TypeOK, FlagsInv, Send, Goto
<1>2. \A u \in Tools : /\ pc'[u] = IF u = t THEN "store" ELSE pc[u]
                       /\ call'[u] = IF u = t THEN request ELSE call[u]
  BY DEF CInv, TypeOK, Send, Goto
<1>3. RequestInv' /\ AnswerInv'
  BY <1>2 DEF CInv, RequestInv, AnswerInv
<1>4. QED
  BY <1>1, <1>3 DEF CInv

LEMMA BeginStep ==
  ASSUME CInv, NEW t \in Tools, Begin(t)
  PROVE  calls' \in 0..MaxCalls /\ UNCHANGED <<setting, answer, filled>>
BY NumbersAssumption DEF Begin, CInv, TypeOK

LEMMA ItemIsPosition == \A p \in Items : p \in Positions
BY DEF Items

LEMMA CommandStep ==
  ASSUME CInv, NEW t \in Tools,
         \/ \E p \in Items, text \in Values \cup {Empty} : SetSingleItem(t, p, text)
         \/ \E p \in Items : ShowSingleItem(t, p)
         \/ DisplayAllItems(t)
         \/ \E value \in Values : DisplayHooks(t, value)
  PROVE  CInv'
<1>1. ASSUME NEW p \in Items, NEW text \in Values \cup {Empty}, SetSingleItem(t, p, text)
      PROVE  CInv'
  <2>1. PICK value \in Scanned(text) :
          Send(t, [command |-> "set", text |-> text, position |-> p,
                   code |-> CodeOf(p, NonCount(p)), value |-> value])
    BY <1>1 DEF SetSingleItem
  <2>2. value \in Values
    BY <2>1 DEF Scanned
  <2> DEFINE request == [command |-> "set", text |-> text, position |-> p,
                         code |-> CodeOf(p, NonCount(p)), value |-> value]
  <2>3. /\ request \in Calls /\ request.command = "set"
        /\ request.position = p /\ request.code = Code(p)
    BY <2>2, CodeTyped, ItemIsPosition DEF Calls, Code
  <2> HIDE DEF request
  <2>4. Send(t, request)
    BY <2>1 DEF request
  <2>5. QED
    BY <1>1, <2>3, <2>4, BeginStep, SendStep DEF SetSingleItem
<1>2. ASSUME NEW p \in Items, ShowSingleItem(t, p)
      PROVE  CInv'
  <2> DEFINE request == [NoCall EXCEPT !.command = "show", !.position = p,
                                       !.code = CodeOf(p, NonCount(p))]
  <2>1. /\ request \in Calls /\ request.command = "show"
        /\ request.position = p /\ request.code = Code(p)
    BY CodeTyped, ItemIsPosition DEF Calls, Code, NoCall
  <2>2. Send(t, request)
    BY <1>2 DEF ShowSingleItem
  <2> HIDE DEF request
  <2>3. QED
    BY <1>2, <2>1, <2>2, BeginStep, SendStep DEF ShowSingleItem
<1>3. CASE DisplayAllItems(t)
  <2> DEFINE request == [NoCall EXCEPT !.command = "showall", !.code = CodeOf(1, 0)]
  <2>1. 1 \in Items /\ Code(1) = CodeOf(1, 0)
    BY ItemPositions, Headings DEF Code
  <2>2. /\ request \in Calls /\ request.command = "showall"
        /\ request.position = 1 /\ request.code = Code(1)
    BY <2>1, CodeTyped, ItemIsPosition DEF Calls, NoCall
  <2>3. Send(t, request)
    BY <1>3 DEF DisplayAllItems
  <2> HIDE DEF request
  <2>4. QED
    BY <1>3, <2>1, <2>2, <2>3, BeginStep, SendStep DEF DisplayAllItems
<1>4. ASSUME NEW value \in Values, DisplayHooks(t, value)
      PROVE  CInv'
  <2> DEFINE request == [NoCall EXCEPT !.command = "hooks", !.code = HookInfo, !.value = value]
  <2>1. 1 \in Positions
    BY ItemPositions
  <2>2. request \in Calls /\ request.command = "hooks" /\ request.code = HookInfo
    BY <2>1 DEF Calls, NoCall
  <2>3. Send(t, request)
    BY <1>4 DEF DisplayHooks
  <2> HIDE DEF request
  <2>4. QED
    BY <1>4, <2>2, <2>3, BeginStep, SendStep DEF DisplayHooks
<1>5. QED
  BY <1>1, <1>2, <1>3, <1>4

LEMMA CallTyped ==
  ASSUME CInv, NEW t \in Tools
  PROVE  call[t] \in Calls /\ call[t].value \in Nat
<1>1. call[t] \in Calls
  BY DEF CInv, TypeOK
<1>2. call[t].value \in Values \cup {0}
  BY <1>1 DEF Calls
<1>3. Values \subseteq Nat /\ 0 \in Nat
  BY NumbersAssumption
<1>4. call[t].value \in Nat
  BY <1>2, <1>3
<1>5. QED
  BY <1>1, <1>4

\* DisplayAllItems goes on to the next row that is no heading.
LEMMA NextItemStep ==
  ASSUME CInv, NEW t \in Tools, DisplayNextItem(t)
  PROVE  CInv'
<1>1. PICK p \in Positions :
        /\ CTLCodeDisplayType[p] # "NONE"
        /\ Send(t, [call[t] EXCEPT !.position = p, !.code = CodeOf(p, NonCountAll(p))])
  BY DEF DisplayNextItem
<1>2. p \in Items
  BY <1>1, ItemPositions, SameHeadings DEF Items
<1> DEFINE request == [call[t] EXCEPT !.position = p, !.code = CodeOf(p, NonCountAll(p))]
<1>3. Code(p) = CodeOf(p, NonCountAll(p))
  BY <1>2, ItemCodes
<1>4. call[t] \in Calls /\ call[t].command = "showall"
  BY DEF CInv, TypeOK, DisplayNextItem
<1>5. /\ request \in Calls /\ request.command = "showall"
      /\ request.position = p /\ request.code = Code(p)
  BY <1>2, <1>3, <1>4, CodeTyped, ItemIsPosition DEF Calls
<1>6. Send(t, request)
  BY <1>1
<1> HIDE DEF request
<1>7. calls' \in 0..MaxCalls /\ UNCHANGED <<setting, answer, filled>>
  BY DEF CInv, TypeOK, DisplayNextItem
<1>8. QED
  BY <1>2, <1>5, <1>6, <1>7, SendStep

\* The driver stores a value in its range.
LEMMA StoreStep ==
  ASSUME CInv, NEW t \in Tools, IoctlStore(t)
  PROVE  CInv'
<1>1. CASE call[t].command = "set" /\ Accepted(call[t].code, call[t].value)
  <2> DEFINE s == SettingOf[call[t].code]
             v == call[t].value
  <2>1. setting' = [setting EXCEPT ![s] = v] /\ disturbed' \in [Tools -> BOOLEAN]
    BY <1>1 DEF IoctlStore
  <2>2. v \in Nat /\ call[t].code \in 1..7
    <3>1. v \in Nat
      BY CallTyped
    <3>2. call[t].code \in 1..7
      BY <1>1, Codes DEF Accepted
    <3>3. QED
      BY <3>1, <3>2
  <2>3. s \in Settings /\ v \in 0..2 /\ (s \in Flags => v \in 0..1)
    <3>1. "IPForwardingMode" \notin Flags
      BY DEF Flags
    <3>2. QED
      BY <1>1, <2>2, <3>1, Codes DEF Accepted
  <2> HIDE DEF s, v
  <2>4. setting' \in [Settings -> 0..2] /\ FlagsInv'
    BY <2>1, <2>3 DEF CInv, TypeOK, FlagsInv, Settings
  <2>5. TypeOK'
    BY <2>1, <2>4 DEF CInv, TypeOK, IoctlStore, Goto
  <2>6. RequestInv' /\ AnswerInv'
    BY DEF CInv, TypeOK, RequestInv, AnswerInv, IoctlStore, Goto
  <2>7. QED
    BY <2>4, <2>5, <2>6 DEF CInv
<1>2. CASE ~(call[t].command = "set" /\ Accepted(call[t].code, call[t].value))
  <2>1. UNCHANGED <<setting, disturbed>>
    BY <1>2 DEF IoctlStore
  <2>2. TypeOK' /\ FlagsInv'
    BY <2>1 DEF CInv, TypeOK, FlagsInv, IoctlStore, Goto
  <2>3. RequestInv' /\ AnswerInv'
    BY DEF CInv, TypeOK, RequestInv, AnswerInv, IoctlStore, Goto
  <2>4. QED
    BY <2>2, <2>3 DEF CInv
<1>3. QED
  BY <1>1, <1>2

\* The driver answers a value in its range, and no more hooks than it has found.
LEMMA AnswerStep ==
  ASSUME CInv, NEW t \in Tools, IoctlAnswer(t)
  PROVE  CInv'
<1>1. call[t] \in Calls /\ pc[t] = "answer"
  BY DEF CInv, TypeOK, IoctlAnswer
<1>2. /\ \A u \in Tools \ {t} : /\ answer'[u] = answer[u] /\ filled'[u] = filled[u]
                               /\ pc'[u] = pc[u]
      /\ UNCHANGED <<setting, call, calls, disturbed>>
      /\ pc' \in [Tools -> {"idle", "store", "answer", "judge"}]
  BY <1>1 DEF CInv, TypeOK, IoctlAnswer, Goto
<1>3. call[t].code \in (1..7) \cup {Version, HookInfo} /\ Version = 0 /\ HookInfo = 8
  BY <1>1, Codes DEF Calls, Version, HookInfo
<1> DEFINE Answered(a, f) ==
        /\ answer' = [answer EXCEPT ![t] = a] /\ filled' = [filled EXCEPT ![t] = f]
        /\ call[t].code = 1 => a \in 0..2
        /\ call[t].code \in 2..7 => a \in 0..1
        /\ call[t].code = HookInfo /\ a # ULONG_MAX =>
             call[t].value < HOOK_LIST_COUNT /\ f = Smaller(a, DisplayHookMaxCount)
<1>4. \E a \in Nat, f \in 0..DisplayHookMaxCount : Answered(a, f)
  <2>1. filled = [filled EXCEPT ![t] = filled[t]] /\ filled[t] \in 0..DisplayHookMaxCount
    BY DEF CInv, TypeOK
  <2>2. CASE /\ call[t].code \in SettingCodes
             /\ answer' = [answer EXCEPT ![t] = setting[SettingOf[call[t].code]]]
             /\ UNCHANGED filled
    <3> DEFINE a == setting[SettingOf[call[t].code]]
    <3>1. call[t].code \in 1..7 /\ call[t].code # HookInfo
      BY <1>3, <2>2, Codes
    <3>2. SettingOf[call[t].code] \in Settings /\ (call[t].code \in 2..7 => SettingOf[call[t].code] \in Flags)
      BY <3>1, Codes
    <3>3. a \in 0..2 /\ (call[t].code \in 2..7 => a \in 0..1)
      BY <3>2 DEF CInv, TypeOK, FlagsInv
    <3>4. Answered(a, filled[t])
      BY <2>1, <2>2, <3>1, <3>3
    <3>5. a \in Nat
      BY <3>3
    <3> HIDE DEF a, Answered
    <3>6. QED
      BY <2>1, <3>4, <3>5
  <2>3. CASE /\ call[t].code = Version
             /\ answer' = [answer EXCEPT ![t] = DriverVersion]
             /\ UNCHANGED filled
    <3>1. Answered(DriverVersion, filled[t])
      BY <1>3, <2>1, <2>3
    <3> HIDE DEF Answered
    <3>2. QED
      BY <2>1, <3>1, NumbersAssumption
  <2>4. CASE /\ call[t].code = HookInfo /\ call[t].value < HOOK_LIST_COUNT
             /\ \E count \in 0..MaxHooks :
                  /\ answer' = [answer EXCEPT ![t] = count]
                  /\ filled' = [filled EXCEPT ![t] = Smaller(count, DisplayHookMaxCount)]
    <3>1. PICK count \in 0..MaxHooks :
            /\ answer' = [answer EXCEPT ![t] = count]
            /\ filled' = [filled EXCEPT ![t] = Smaller(count, DisplayHookMaxCount)]
      BY <2>4
    <3>2. count \in Nat
      BY NumbersAssumption
    <3>3. Smaller(count, DisplayHookMaxCount) \in 0..DisplayHookMaxCount
      BY <3>2, NumbersAssumption DEF Smaller
    <3>4. /\ call[t].code # 1 /\ call[t].code \notin 2..7
          /\ call[t].value < HOOK_LIST_COUNT
      BY <1>3, <2>4
    <3>5. Answered(count, Smaller(count, DisplayHookMaxCount))
      BY <3>1, <3>4
    <3> HIDE DEF Answered
    <3>6. QED
      BY <3>2, <3>3, <3>5
  <2>5. CASE /\ call[t].code = HookInfo
             /\ answer' = [answer EXCEPT ![t] = ULONG_MAX]
             /\ filled' = [filled EXCEPT ![t] = 0]
    <3>1. Answered(ULONG_MAX, 0)
      BY <1>3, <2>5
    <3>2. ULONG_MAX \in Nat
      BY NumbersAssumption
    <3>3. 0 \in 0..DisplayHookMaxCount
      BY NumbersAssumption
    <3> HIDE DEF Answered
    <3>4. QED
      BY <3>1, <3>2, <3>3
  <2> HIDE DEF Answered
  <2>6. QED
    BY <2>2, <2>3, <2>4, <2>5 DEF IoctlAnswer
<1>5. PICK a \in Nat : \E f \in 0..DisplayHookMaxCount : Answered(a, f)
  BY <1>4
<1>6. PICK f \in 0..DisplayHookMaxCount : Answered(a, f)
  BY <1>5
<1>7. /\ answer' \in [Tools -> Nat] /\ filled' \in [Tools -> 0..DisplayHookMaxCount]
      /\ answer'[t] = a /\ filled'[t] = f
  BY <1>6 DEF CInv, TypeOK
<1>8. TypeOK' /\ FlagsInv' /\ RequestInv'
  <2>1. TypeOK'
    BY <1>2, <1>7 DEF CInv, TypeOK
  <2>2. pc'[t] = "judge"
    BY <1>1 DEF CInv, TypeOK, IoctlAnswer, Goto
  <2>3. FlagsInv' /\ RequestInv'
    BY <1>1, <1>2, <2>2 DEF CInv, FlagsInv, RequestInv
  <2>4. QED
    BY <2>1, <2>3
<1>9. AnswerInv'
  <2>1. SUFFICES ASSUME NEW u \in Tools, pc'[u] = "judge"
                 PROVE  /\ call'[u].code = 1 => answer'[u] \in 0..2
                        /\ call'[u].code \in 2..7 => answer'[u] \in 0..1
                        /\ call'[u].code = HookInfo /\ answer'[u] # ULONG_MAX =>
                             /\ call'[u].value < HOOK_LIST_COUNT
                             /\ filled'[u] = Smaller(answer'[u], DisplayHookMaxCount)
    BY DEF AnswerInv, Smaller
  <2>2. CASE u = t
    BY <1>2, <1>6, <1>7, <2>2
  <2>3. CASE u # t
    BY <1>2, <2>1, <2>3 DEF CInv, AnswerInv
  <2>4. QED
    BY <2>2, <2>3
<1>10. QED
  BY <1>8, <1>9 DEF CInv

LEMMA ReturnStep ==
  ASSUME CInv, NEW t \in Tools, CallReturns(t)
  PROVE  CInv'
<1>1. NoCall \in Calls /\ NoCall.command = "none"
  <2>1. 1 \in Positions
    BY ItemPositions
  <2>2. QED
    BY <2>1 DEF NoCall, Calls
<1>2. \A u \in Tools : /\ pc'[u] = IF u = t THEN "idle" ELSE pc[u]
                       /\ call'[u] = IF u = t THEN NoCall ELSE call[u]
  BY DEF CInv, TypeOK, CallReturns, Goto
<1>3. TypeOK' /\ FlagsInv'
  BY <1>1 DEF CInv, TypeOK, FlagsInv, CallReturns, Goto
<1>4. RequestInv' /\ AnswerInv'
  BY <1>1, <1>2 DEF CInv, RequestInv, AnswerInv, CallReturns
<1>5. QED
  BY <1>3, <1>4 DEF CInv

LEMMA CNext == CInv /\ [Next]_vars => CInv'
<1> SUFFICES ASSUME CInv, [Next]_vars PROVE CInv'
  OBVIOUS
<1>1. CASE UNCHANGED vars
  BY <1>1 DEF vars, CInv, TypeOK, FlagsInv, RequestInv, AnswerInv
<1>2. ASSUME NEW t \in Tools, Tool(t)
      PROVE  CInv'
  BY <1>2, CommandStep, NextItemStep, StoreStep, AnswerStep, ReturnStep DEF Tool
<1>3. QED
  BY <1>1, <1>2 DEF Next

-----------------------------------------------------------------------------

\* The conjunction is an invariant: tools name items of their tables, the codes
\* they send are those of the items, settings and answers are in their ranges.
THEOREM InductiveInvariant == Spec => []CInv
<1>1. QED
  BY CInit, CNext, PTL DEF Spec

\* The variables have their types.
THEOREM TypeCorrect == Spec => []TypeOK
<1>1. CInv => TypeOK
  BY DEF CInv
<1>2. QED
  BY <1>1, InductiveInvariant, PTL

\* A setting changes only if a command names it, and then to the value of the
\* command.
THEOREM OnlyNamedItems == Spec => NamedItemOnly
<1> DEFINE Named == \A s \in Settings : setting'[s] # setting[s] =>
                      \E t \in Tools : /\ pc[t] = "store" /\ call[t].command = "set"
                                       /\ ItemOf(t) = s /\ setting'[s] = call[t].value
<1>1. ASSUME CInv, NEW t \in Tools, Tool(t)
      PROVE  Named
  <2>1. CASE IoctlStore(t) /\ call[t].command = "set" /\ Accepted(call[t].code, call[t].value)
    <3>1. call[t].position \in Items /\ call[t].code = Code(call[t].position)
      BY <1>1, <2>1 DEF CInv, RequestInv
    <3>2. call[t].code \in SettingCodes /\ Version \notin SettingCodes
      BY <2>1, Codes DEF Accepted, Version
    <3>3. SettingOf[call[t].code] = ItemOf(t)
      BY <3>1, <3>2, ItemCodes DEF ItemOf
    <3>4. setting' = [setting EXCEPT ![ItemOf(t)] = call[t].value]
      BY <2>1, <3>3 DEF IoctlStore
    <3>5. pc[t] = "store"
      BY <2>1 DEF IoctlStore
    <3> HIDE DEF ItemOf
    <3>6. QED
      BY <1>1, <2>1, <3>4, <3>5 DEF CInv, TypeOK
  <2>2. CASE IoctlStore(t) /\ ~(call[t].command = "set" /\ Accepted(call[t].code, call[t].value))
    BY <2>2 DEF IoctlStore
  <2>3. CASE ~IoctlStore(t)
    <3>1. UNCHANGED setting
      BY <1>1, <2>3 DEF Tool, SetSingleItem, ShowSingleItem, DisplayAllItems, DisplayHooks, Begin,
                        IoctlAnswer, CallReturns, DisplayNextItem
    <3>2. QED
      BY <3>1
  <2>4. QED
    BY <2>1, <2>2, <2>3
<1>2. CInv /\ [Next]_vars => [Named]_vars
  BY <1>1 DEF Next
<1>3. QED
  BY <1>2, InductiveInvariant, PTL DEF Spec, NamedItemOnly

\* The driver answers only what the tool has a text for.
THEOREM AnswersInTable == Spec => []DisplayedInTable
<1>1. ASSUME CInv, NEW t \in Tools, pc[t] = "judge"
      PROVE  CASE call[t].command \in {"show", "showall"} ->
                    LET type == CTLCodeDisplayType[call[t].position]
                    IN  /\ type = "ABILITY" => answer[t] + 1 \in DOMAIN AbilityText
                        /\ type = "FORWARDING_MODE" => answer[t] + 1 \in DOMAIN ForwardingModeText
               [] call[t].command = "hooks" /\ answer[t] # ULONG_MAX ->
                    call[t].value + 1 \in DOMAIN FilterPointText /\ PrintCount(t) <= filled[t]
               [] OTHER -> TRUE
  <2>1. /\ DOMAIN AbilityText = 1..2 /\ DOMAIN ForwardingModeText = 1..3
        /\ DOMAIN FilterPointText = 1..5
    BY DEF AbilityText, ForwardingModeText, FilterPointText
  <2>2. CASE call[t].command \in {"show", "showall"}
    <3>1. call[t].position \in Items /\ call[t].code = Code(call[t].position)
      BY <1>1, <2>2 DEF CInv, RequestInv
    <3>2. /\ CTLCodeDisplayType[call[t].position] = "FORWARDING_MODE" => answer[t] \in 0..2
          /\ CTLCodeDisplayType[call[t].position] = "ABILITY" => answer[t] \in 0..1
      BY <1>1, <3>1, ItemCodes DEF CInv, AnswerInv
    <3>3. QED
      BY <2>1, <2>2, <3>2
  <2>3. CASE call[t].command = "hooks" /\ answer[t] # ULONG_MAX
    <3>1. call[t].code = HookInfo
      BY <1>1, <2>3 DEF CInv, RequestInv
    <3>2. /\ call[t].value < HOOK_LIST_COUNT
          /\ filled[t] = Smaller(answer[t], DisplayHookMaxCount)
      BY <1>1, <2>3, <3>1 DEF CInv, AnswerInv
    <3>3. call[t].value \in Nat /\ filled[t] \in 0..DisplayHookMaxCount
      BY <1>1, CallTyped, NumbersAssumption DEF CInv, TypeOK
    <3>4. call[t].value + 1 \in DOMAIN FilterPointText /\ PrintCount(t) <= filled[t]
      BY <2>1, <3>2, <3>3, NumbersAssumption DEF PrintCount
    <3>5. QED
      BY <2>3, <3>4
  <2>4. QED
    BY <2>2, <2>3
<1>2. CInv => DisplayedInTable
  BY <1>1 DEF DisplayedInTable
<1>3. QED
  BY <1>2, InductiveInvariant, PTL

-----------------------------------------------------------------------------
(* A tool that is alone with its setting.                                  *)

\* What is true of the item tool t asks for.
Truth(t) == IF call[t].code = Version THEN DriverVersion ELSE setting[SettingOf[call[t].code]]

\* From the store to the answer the setting has the value that was accepted, and
\* from the answer on what was answered.
TruthInv ==
  \A t \in Tools : ~disturbed[t] /\ call[t].command \in {"set", "show", "showall"} =>
    /\ pc[t] = "judge" => answer[t] = Truth(t)
    /\ pc[t] \in {"answer", "judge"} /\ call[t].command = "set"
         /\ Accepted(call[t].code, call[t].value) => Truth(t) = call[t].value

\* No two codes are about one setting.
LEMMA CodesApart == \A c, d \in 1..7 : SettingOf[c] = SettingOf[d] => c = d
<1> TAKE c, d \in 1..7
<1>1. c \in {1, 2, 3, 4, 5, 6, 7} /\ d \in {1, 2, 3, 4, 5, 6, 7}
  OBVIOUS
<1>2. QED
  BY <1>1 DEF SettingOf

\* Codes a tool with an item can send.
LEMMA ItemCodeKinds ==
  ASSUME CInv, NEW t \in Tools, call[t].command \in {"set", "show", "showall"}
  PROVE  /\ call[t].position \in Items /\ call[t].code = Code(call[t].position)
         /\ call[t].code \in 0..7 /\ call[t].code # HookInfo
         /\ ItemOf(t) = "Version" <=> call[t].code = Version
         /\ call[t].code # Version => SettingOf[call[t].code] = ItemOf(t)
<1> DEFINE p == call[t].position
<1>1. p \in Items /\ call[t].code = Code(p)
  BY DEF CInv, RequestInv
<1>2. \A c \in SettingCodes : SettingOf[c] # "Version"
  <2>1. "Version" \notin Settings
    BY DEF Settings, Flags
  <2>2. QED
    BY <2>1, Codes
<1>3. Version = 0 /\ HookInfo = 8 /\ SettingCodes = 1..7
  BY Codes DEF Version, HookInfo
<1>4. QED
  BY <1>1, <1>2, <1>3, ItemCodes DEF ItemOf

\* The step of a tool that is not in the driver's switch.
LEMMA TruthKept ==
  ASSUME CInv, TruthInv, NEW t \in Tools, UNCHANGED <<setting, answer>>,
         pc'[t] \notin {"answer", "judge"},
         \A u \in Tools \ {t} : /\ pc'[u] = pc[u] /\ call'[u] = call[u]
                                /\ disturbed'[u] = disturbed[u]
  PROVE  TruthInv'
BY DEF TruthInv, Truth

\* A store disturbs the other tools with its item and serves its own.
LEMMA TruthStore ==
  ASSUME CInv, TruthInv, NEW t \in Tools, IoctlStore(t)
  PROVE  TruthInv'
<1>1. /\ UNCHANGED <<call, answer>> /\ pc[t] = "store"
      /\ \A u \in Tools : pc'[u] = IF u = t THEN "answer" ELSE pc[u]
  BY DEF CInv, TypeOK, IoctlStore, Goto
<1>2. CASE ~(call[t].command = "set" /\ Accepted(call[t].code, call[t].value))
  <2>1. UNCHANGED <<setting, disturbed>>
    BY <1>2 DEF IoctlStore
  <2>2. QED
    BY <1>1, <1>2, <2>1 DEF TruthInv, Truth
<1>3. CASE call[t].command = "set" /\ Accepted(call[t].code, call[t].value)
  <2> DEFINE c == call[t].code
             v == call[t].value
  <2>1. c \in 1..7 /\ c # Version
    BY <1>3, Codes DEF Accepted, Version
  <2>2. /\ setting' = [setting EXCEPT ![SettingOf[c]] = v]
        /\ \A u \in Tools : disturbed'[u] <=>
             (disturbed[u] \/ (u # t /\ pc[u] # "idle" /\ call[u].code = c))
    BY <1>3 DEF IoctlStore
  <2>3. SettingOf[c] \in Settings /\ setting \in [Settings -> 0..2]
    BY <2>1, Codes DEF CInv, TypeOK
  <2>4. setting'[SettingOf[c]] = v
    BY <2>2, <2>3
  <2> SUFFICES ASSUME NEW u \in Tools, ~disturbed'[u],
                      call[u].command \in {"set", "show", "showall"}
               PROVE  /\ pc'[u] = "judge" => answer[u] = Truth(u)'
                      /\ pc'[u] \in {"answer", "judge"} /\ call[u].command = "set"
                           /\ Accepted(call[u].code, call[u].value) => Truth(u)' = call[u].value
    BY <1>1 DEF TruthInv
  <2>5. CASE u = t
    <3>1. Truth(t)' = v
      BY <1>1, <2>1, <2>4 DEF Truth
    <3>2. QED
      BY <1>1, <2>5, <3>1
  <2>6. CASE u # t /\ pc[u] # "idle"
    <3>1. call[u].code # c /\ ~disturbed[u] /\ pc'[u] = pc[u]
      BY <1>1, <2>2, <2>6
    <3>2. call[u].code \in 0..7
      BY ItemCodeKinds
    <3>3. Truth(u)' = Truth(u)
      <4>1. CASE call[u].code = Version
        BY <1>1, <4>1 DEF Truth
      <4>2. CASE call[u].code # Version
        <5>1. call[u].code \in 1..7
          BY <3>2, <4>2 DEF Version
        <5>2. SettingOf[call[u].code] # SettingOf[c] /\ SettingOf[call[u].code] \in Settings
          BY <2>1, <3>1, <5>1, CodesApart, Codes
        <5>3. setting'[SettingOf[call[u].code]] = setting[SettingOf[call[u].code]]
          BY <2>2, <2>3, <5>2
        <5>4. QED
          BY <1>1, <5>3 DEF Truth
      <4>3. QED
        BY <4>1, <4>2
    <3>4. QED
      BY <3>1, <3>3 DEF TruthInv
  <2>7. CASE u # t /\ pc[u] = "idle"
    BY <1>1, <2>7
  <2>8. QED
    BY <2>5, <2>6, <2>7
<1>4. QED
  BY <1>2, <1>3

\* The answer is what the setting has now.
LEMMA TruthAnswer ==
  ASSUME CInv, TruthInv, NEW t \in Tools, IoctlAnswer(t)
  PROVE  TruthInv'
<1>1. /\ UNCHANGED <<setting, call, disturbed>> /\ pc[t] = "answer"
      /\ \A u \in Tools : pc'[u] = IF u = t THEN "judge" ELSE pc[u]
      /\ \A u \in Tools \ {t} : answer'[u] = answer[u]
  BY DEF CInv, TypeOK, IoctlAnswer, Goto
<1>2. ASSUME call[t].command \in {"set", "show", "showall"} PROVE answer'[t] = Truth(t)
  <2>1. call[t].code \in 0..7 /\ call[t].code # HookInfo
    BY <1>2, ItemCodeKinds
  <2>2. CASE call[t].code = Version
    <3>1. call[t].code \notin SettingCodes
      BY <2>2, Codes DEF Version
    <3>2. QED
      BY <2>1, <2>2, <3>1 DEF CInv, TypeOK, IoctlAnswer, Truth
  <2>3. CASE call[t].code # Version
    BY <2>1, <2>3 DEF CInv, TypeOK, IoctlAnswer, Truth
  <2>4. QED
    BY <2>2, <2>3
<1>3. \A u \in Tools : Truth(u)' = Truth(u)
  BY <1>1 DEF Truth
<1>4. QED
  BY <1>1, <1>2, <1>3 DEF TruthInv

LEMMA TruthStep ==
  ASSUME CInv, TruthInv, [Next]_vars
  PROVE  TruthInv'
<1>1. CASE UNCHANGED vars
  BY <1>1 DEF vars, TruthInv, Truth
<1>2. ASSUME NEW t \in Tools, NEW request, Send(t, request), UNCHANGED <<setting, answer>>
      PROVE  TruthInv'
  <2>1. /\ pc'[t] = "store"
        /\ \A u \in Tools \ {t} : /\ pc'[u] = pc[u] /\ call'[u] = call[u]
                                  /\ disturbed'[u] = disturbed[u]
    BY <1>2 DEF CInv, TypeOK, Send, Goto
  <2>2. QED
    BY <1>2, <2>1, TruthKept
<1>3. ASSUME NEW t \in Tools, CallReturns(t) PROVE TruthInv'
  <2>1. /\ pc'[t] = "idle" /\ UNCHANGED <<setting, answer>>
        /\ \A u \in Tools \ {t} : /\ pc'[u] = pc[u] /\ call'[u] = call[u]
                                  /\ disturbed'[u] = disturbed[u]
    BY <1>3 DEF CInv, TypeOK, CallReturns, Goto
  <2>2. QED
    BY <2>1, TruthKept
<1>4. ASSUME NEW t \in Tools, Tool(t) PROVE TruthInv'
  <2>1. CASE IoctlStore(t)
    BY <2>1, TruthStore
  <2>2. CASE IoctlAnswer(t)
    BY <2>2, TruthAnswer
  <2>3. CASE CallReturns(t)
    BY <1>3, <2>3
  <2>4. CASE \E p \in Items, text \in Values \cup {Empty} : SetSingleItem(t, p, text)
    BY <1>2, <2>4 DEF SetSingleItem, Begin
  <2>5. CASE \E p \in Items : ShowSingleItem(t, p)
    BY <1>2, <2>5 DEF ShowSingleItem, Begin
  <2>6. CASE DisplayAllItems(t)
    BY <1>2, <2>6 DEF DisplayAllItems, Begin
  <2>7. CASE \E value \in Values : DisplayHooks(t, value)
    BY <1>2, <2>7 DEF DisplayHooks, Begin
  <2>8. CASE DisplayNextItem(t)
    BY <1>2, <2>8 DEF DisplayNextItem
  <2>9. QED
    BY <1>4, <2>1, <2>2, <2>3, <2>4, <2>5, <2>6, <2>7, <2>8 DEF Tool
<1>5. QED
  BY <1>1, <1>4 DEF Next

\* The driver answers the value it has after its own store, so a tool that no
\* other one disturbs sees the value of its item, and warns exactly when
\* WPFilterCommDeviceIOCtl refused the value.
THEOREM QuietAnswersAreTrue == Spec => []QuietAnswersTrue
<1>1. Init => TruthInv
  BY DEF Init, TruthInv
<1>2. ASSUME CInv, TruthInv PROVE QuietAnswersTrue
  <2> SUFFICES ASSUME NEW t \in Tools, pc[t] = "judge", ~disturbed[t],
                      call[t].command \in {"set", "show", "showall"}
               PROVE  /\ answer[t] = IF ItemOf(t) = "Version" THEN DriverVersion ELSE setting[ItemOf(t)]
                      /\ call[t].command = "set" /\ ItemOf(t) \in Settings =>
                           (Warned(t) <=> ~Accepted(call[t].code, call[t].value))
    BY DEF QuietAnswersTrue
  <2>1. answer[t] = Truth(t)
    BY <1>2 DEF TruthInv
  <2>2. answer[t] = IF ItemOf(t) = "Version" THEN DriverVersion ELSE setting[ItemOf(t)]
    BY <1>2, <2>1, ItemCodeKinds DEF Truth
  <2>3. ASSUME call[t].command = "set", ItemOf(t) \in Settings
        PROVE  Warned(t) <=> ~Accepted(call[t].code, call[t].value)
    <3> DEFINE c == call[t].code
               v == call[t].value
    <3>1. ItemOf(t) # "Version"
      BY <2>3 DEF Settings, Flags
    <3>2. c \in 1..7 /\ SettingOf[c] = ItemOf(t) /\ answer[t] = setting[ItemOf(t)]
      BY <1>2, <2>2, <3>1, ItemCodeKinds DEF Version
    <3>3. v \in Nat
      BY <1>2, CallTyped
    <3>4. CASE Accepted(c, v)
      <4>1. answer[t] = v
        BY <1>2, <2>1, <2>3, <3>4 DEF TruthInv
      <4>2. QED
        BY <3>4, <4>1 DEF Warned
    <3>5. CASE ~Accepted(c, v)
      <4>1. CASE c = 1
        <5>1. ~(v <= 2) /\ setting[SettingOf[c]] \in 0..2
          BY <1>2, <3>2, <3>5, <4>1, Codes DEF Accepted, CInv, TypeOK
        <5>2. QED
          BY <2>3, <3>2, <3>3, <3>5, <5>1 DEF Warned
      <4>2. CASE c # 1
        <5>1. c \in 2..7
          BY <3>2, <4>2
        <5>2. SettingOf[c] \in Flags /\ SettingOf[c] # "IPForwardingMode"
          BY <5>1, Codes DEF Flags
        <5>3. ~(v <= 1) /\ setting[SettingOf[c]] \in 0..1
          BY <1>2, <3>2, <3>5, <5>2, Codes DEF Accepted, CInv, FlagsInv
        <5>4. QED
          BY <2>3, <3>2, <3>3, <3>5, <5>3 DEF Warned
      <4>3. QED
        BY <4>1, <4>2
    <3>6. QED
      BY <3>4, <3>5
  <2>4. QED
    BY <2>2, <2>3
<1>3. CInv /\ TruthInv /\ [Next]_vars => TruthInv'
  BY TruthStep
<1>4. QED
  BY InductiveInvariant, <1>1, <1>2, <1>3, PTL DEF Spec

-----------------------------------------------------------------------------
(* The walk over the extension headers.                                    *)

\* Numbers have a first one among them.
LEMMA FirstOfNumbers ==
  ASSUME NEW T \in SUBSET Nat, T # {}
  PROVE  \E i \in T : \A j \in T : i <= j
<1> DEFINE less == {ss \in Nat \X Nat : ss[1] < ss[2]}
<1>1. IsWellFoundedOn(less, Nat)
  BY NatLessThanWellFounded, Zenon DEF OpToRel
<1>2. \A i, j \in Nat : <<j, i>> \in less <=> j < i
  OBVIOUS
<1> HIDE DEF less
<1>3. PICK i \in T : \A j \in T : <<j, i>> \notin less
  BY <1>1, WFMin, Zenon
<1>4. \A j \in T : i \in Nat /\ j \in Nat /\ ~(j < i)
  BY <1>2, <1>3
<1>5. QED
  BY <1>4

LEMMA PacketFields ==
  ASSUME NEW p \in Packets
  PROVE  /\ p.ether \in {"IP", "IPV6", "ARP"} /\ p.headerLength \in 5..15
         /\ p.chain \in Seq(Protocols) /\ Len(p.chain) \in Nat \ {0}
         /\ p.payload \notin Extensions
         /\ ~Extended(p) => Len(p.chain) = 1
<1>1. p \in Packet /\ p.chain # <<>>
  BY PacketsAssumption
<1>2. p.chain \in Seq(Protocols) /\ p.ether \in {"IP", "IPV6", "ARP"} /\ p.headerLength \in 5..15
  BY <1>1 DEF Packet
<1>3. Len(p.chain) \in Nat \ {0}
  BY <1>1, <1>2
<1>4. ASSUME ~Extended(p), Len(p.chain) # 1 PROVE FALSE
  <2> DEFINE n == Len(p.chain)
  <2>1. 1 \in 1..n-1
    <3>1. n \in Nat \ {0} /\ n # 1
      BY <1>3, <1>4
    <3> HIDE DEF n
    <3>2. QED
      BY <3>1
  <2>2. \A i \in 1..Len(p.chain)-1 : p.chain[i] \in Extensions
    BY PacketsAssumption
  <2>3. p.chain[1] \in Extensions
    BY <2>1, <2>2
  <2>4. QED
    BY <1>4, <2>3 DEF Extended
<1>5. QED
  BY <1>2, <1>3, <1>4, PacketsAssumption

\* The walk ends, at the header after the last one if not before, and at once
\* when there is no extension header.
LEMMA LoopEnds ==
  ASSUME NEW p \in Packets
  PROVE  /\ LoopStop(p) \in 1..Len(p.chain)+1
         /\ ~Extended(p) => LoopStop(p) = 1
<1> DEFINE stops == {i \in 1..Len(p.chain)+1 : ProtocolId(p, i) \notin Extensions}
           good(i) == /\ ProtocolId(p, i) \notin Extensions
                      /\ \A j \in 1..i-1 : ProtocolId(p, j) \in Extensions
<1>1. Len(p.chain) \in Nat \ {0}
  BY PacketFields
<1>2. stops \in SUBSET Nat
  BY <1>1
<1>3. Len(p.chain) + 1 \in stops
  <2>1. ProtocolId(p, Len(p.chain) + 1) = p.payload
    BY <1>1 DEF ProtocolId
  <2>2. QED
    BY <1>1, <2>1, PacketFields
<1>4. \E i \in 1..Len(p.chain)+1 : good(i)
  <2>1. PICK i \in stops : \A j \in stops : i <= j
    BY <1>2, <1>3, FirstOfNumbers
  <2>2. \A j \in 1..i-1 : j \in 1..Len(p.chain)+1 /\ ~(i <= j)
    BY <1>1
  <2>3. good(i)
    BY <2>1, <2>2
  <2>4. QED
    BY <2>3
<1>5. LoopStop(p) = CHOOSE i \in 1..Len(p.chain)+1 : good(i)
  BY DEF LoopStop
<1> HIDE DEF good
<1>6. LoopStop(p) \in 1..Len(p.chain)+1 /\ good(LoopStop(p))
  BY <1>4, <1>5, Zenon
<1>7. ASSUME ~Extended(p) PROVE LoopStop(p) = 1
  <2>1. ProtocolId(p, 1) \notin Extensions
    BY <1>7 DEF ProtocolId, Extended
  <2>2. 1 \notin 1..LoopStop(p)-1
    BY <1>6, <2>1 DEF good
  <2>3. QED
    BY <1>1, <1>6, <2>2
<1>8. QED
  BY <1>6, <1>7

-----------------------------------------------------------------------------
(* The inductive invariant.                                                *)

TransmitSteps == {"txTCP", "txUDP", "txOffset", "txSend"}
ReceiveSteps == {"rxIP", "rxTCP", "rxUDP", "rxSend"}

\* Between packets nothing is left of the last one.
IdleInv == at = "idle" => packet = NoPacket /\ info = {} /\ offset = 0 /\ ever = {} /\ always = {}

\* The settings of now are among those of the packet's time.
TimeInv == at # "idle" => always \subseteq On /\ On \subseteq ever

\* The adapter can compute checksum c of the packet, as far as the walk tells.
Possible(c) ==
  /\ <<packet.ether, c>> \in nic
  /\ c = "IP" \/ Extended(packet) \/ c = Transport(packet)

\* PostroutingThread has looked at the setting for c.
Masked(c) == at \in CASE c = "IP" -> TransmitSteps
                      [] c = "TCP" -> {"txUDP", "txOffset", "txSend"}
                      [] OTHER -> {"txOffset", "txSend"}

TransmitInv ==
  at \in TransmitSteps =>
    /\ packet \in Packets /\ nic \subseteq Offloads
    /\ \A c \in Checksums :
         /\ c \in info => Possible(c)
         /\ Masked(c) /\ c \in info => TransmitSetting(c) \in ever
         /\ Possible(c) /\ ~Extended(packet) /\ (Masked(c) => TransmitSetting(c) \in always) =>
              c \in info
    /\ at = "txSend" /\ "TCP" \in info /\ ~Extended(packet) => offset = HeaderOffset(packet)

\* InputThread has looked at the setting for c.
Indicated(c) == at \in CASE c = "IP" -> {"rxTCP", "rxUDP", "rxSend"}
                         [] c = "TCP" -> {"rxUDP", "rxSend"}
                         [] OTHER -> {"rxSend"}

ReceiveInv ==
  at \in ReceiveSteps =>
    \A c \in Checksums :
      /\ c \in info => IndicateSetting[c] \in ever
      /\ Indicated(c) /\ IndicateSetting[c] \in always => c \in info

OInv == OffloadTypeOK /\ IdleInv /\ TimeInv /\ TransmitInv /\ ReceiveInv

-----------------------------------------------------------------------------
(* The steps.                                                              *)

LEMMA SettingNames ==
  \A c \in Checksums : TransmitSetting(c) \in Flags /\ IndicateSetting[c] \in Flags
BY DEF Checksums, TransmitSetting, TrySetting, IndicateSetting, Flags

LEMMA FlagIsOn == \A s \in Flags : s \in On <=> setting[s] = 1
BY DEF On

LEMMA OffloadInitStep == OffloadInit => OInv
<1> SUFFICES ASSUME OffloadInit PROVE OInv
  OBVIOUS
<1>1. OffloadTypeOK
  BY DEF OffloadInit, OffloadTypeOK
<1>2. IdleInv /\ TimeInv /\ TransmitInv /\ ReceiveInv
  BY DEF OffloadInit, IdleInv, TimeInv, TransmitInv, ReceiveInv, TransmitSteps, ReceiveSteps
<1>3. QED
  BY <1>1, <1>2 DEF OInv

\* With a setting, the time of the packet only gets longer.
LEMMA ToolOffloadStep ==
  ASSUME OInv, NEW t \in Tools, ToolStep(t)
  PROVE  OInv'
<1>1. UNCHANGED <<at, packet, nic, info, offset>>
  BY DEF ToolStep, threadVars
<1>2. CASE at = "idle"
  <2>1. ever' = {} /\ always' = {}
    BY <1>2 DEF ToolStep
  <2>2. QED
    BY <1>1, <1>2, <2>1
      DEF OInv, OffloadTypeOK, IdleInv, TimeInv, TransmitInv, ReceiveInv, TransmitSteps, ReceiveSteps
<1>3. CASE at # "idle"
  <2>1. ever' = ever \cup On' /\ always' = always \cap On'
    BY <1>3 DEF ToolStep
  <2>2. On' \subseteq Flags
    BY DEF On
  <2>3. OffloadTypeOK' /\ IdleInv' /\ TimeInv'
    BY <1>1, <1>3, <2>1, <2>2 DEF OInv, OffloadTypeOK, IdleInv, TimeInv
  <2>4. ever \subseteq ever' /\ always' \subseteq always
    BY <2>1
  <2>5. TransmitInv'
    <3>1. \A c : /\ Possible(c)' <=> Possible(c)
                 /\ Masked(c)' <=> Masked(c)
      BY <1>1 DEF Possible, Masked
    <3>2. QED
      BY <1>1, <2>4, <3>1 DEF OInv, TransmitInv
  <2>6. ReceiveInv'
    <3>1. \A c : Indicated(c)' <=> Indicated(c)
      BY <1>1 DEF Indicated
    <3>2. QED
      BY <1>1, <2>4, <3>1 DEF OInv, ReceiveInv
  <2>7. QED
    BY <2>3, <2>5, <2>6 DEF OInv
<1>4. QED
  BY <1>2, <1>3

LEMMA TakeTransmitStep ==
  ASSUME OInv, NEW p \in Packets, NEW can \in Adapters, TakeTransmit(p, can)
  PROVE  OInv'
<1>1. /\ at' = "txTCP" /\ packet' = p /\ nic' = can /\ offset' = offset
      /\ ever' = On /\ always' = On /\ setting' = setting
  BY DEF TakeTransmit, Takes, vars
<1>2. On' = On /\ On \subseteq Flags
  BY <1>1 DEF On
<1> DEFINE bits == TransmitProtocol(p, can)
           ipBit == {c \in {"IP"} : /\ p.ether = "IP" /\ <<"IP", "IP">> \in can
                                    /\ setting["TryCalcModifiedTxPacketIPChecksumByNIC"] = 1}
<1>3. info' = bits \cup ipBit
  BY DEF TakeTransmit
<1>4. bits \subseteq {"TCP", "UDP"} /\ \A c \in bits : <<p.ether, c>> \in can
  BY DEF TransmitProtocol
<1>5. ~Extended(p) => \A c \in {"TCP", "UDP"} :
        c \in bits <=> c = Transport(p) /\ <<p.ether, c>> \in can
  <2> SUFFICES ASSUME ~Extended(p)
               PROVE  \A c \in {"TCP", "UDP"} :
                        c \in bits <=> c = Transport(p) /\ <<p.ether, c>> \in can
    OBVIOUS
  <2>1. GetTransportLayerProtocolFromIPv6Header(p) = p.chain[1] /\ Transport(p) = p.chain[1]
    BY LoopEnds, PacketFields DEF GetTransportLayerProtocolFromIPv6Header, ProtocolId, Transport
  <2>2. QED
    BY <2>1 DEF TransmitProtocol
<1> HIDE DEF bits
<1>6. can \subseteq Offloads
  BY AdaptersAssumption
<1>7. \A q : <<q, "IP">> \in can => q = "IP"
  BY <1>6 DEF Offloads
<1>8. /\ "TCP" \notin ipBit /\ "UDP" \notin ipBit
      /\ "IP" \in ipBit <=> /\ <<p.ether, "IP">> \in can
                            /\ setting["TryCalcModifiedTxPacketIPChecksumByNIC"] = 1
  BY <1>7
<1> HIDE DEF ipBit
<1>9. OffloadTypeOK'
  <2>1. info' \in SUBSET Checksums
    BY <1>3, <1>4 DEF ipBit, Checksums
  <2>2. QED
    BY <1>1, <1>2, <2>1 DEF OInv, OffloadTypeOK
<1>10. \A c \in Checksums : c \in {"IP", "TCP", "UDP"}
  BY DEF Checksums
<1>11. ASSUME NEW c \in Checksums
       PROVE  /\ c \in info' => Possible(c)'
              /\ Masked(c)' /\ c \in info' => TransmitSetting(c) \in ever'
              /\ Possible(c)' /\ ~Extended(p) /\ (Masked(c)' => TransmitSetting(c) \in always') =>
                   c \in info'
  <2>1. Possible(c)' <=> <<p.ether, c>> \in can /\ (c = "IP" \/ Extended(p) \/ c = Transport(p))
    BY <1>1 DEF Possible
  <2>2. Masked(c)' <=> c = "IP"
    BY <1>1, <1>10 DEF Masked, TransmitSteps
  <2>3. CASE c = "IP"
    <3>1. TransmitSetting(c) \in On <=> setting["TryCalcModifiedTxPacketIPChecksumByNIC"] = 1
      BY <2>3 DEF TransmitSetting, On, Flags
    <3>2. c \in info' <=> c \in ipBit
      BY <1>3, <1>4, <2>3
    <3>3. QED
      BY <1>1, <1>8, <2>1, <2>2, <2>3, <3>1, <3>2
  <2>4. CASE c # "IP"
    <3>1. c \in {"TCP", "UDP"} /\ (c \in info' <=> c \in bits)
      BY <1>3, <1>8, <1>10, <2>4
    <3>2. QED
      BY <1>4, <1>5, <2>1, <2>2, <2>4, <3>1
  <2>5. QED
    BY <2>3, <2>4
<1>12. TransmitInv'
  BY <1>1, <1>6, <1>11 DEF TransmitInv
<1>13. IdleInv' /\ TimeInv' /\ ReceiveInv'
  BY <1>1, <1>2 DEF IdleInv, TimeInv, ReceiveInv, ReceiveSteps
<1>14. QED
  BY <1>9, <1>12, <1>13 DEF OInv

LEMMA AndSettingStep ==
  ASSUME OInv, NEW d \in {"TCP", "UDP"}, AndSetting(d)
  PROVE  OInv'
<1>1. /\ UNCHANGED <<packet, nic, offset, ever, always, setting>>
      /\ at = IF d = "TCP" THEN "txTCP" ELSE "txUDP"
      /\ at' = IF d = "TCP" THEN "txUDP" ELSE "txOffset"
      /\ info' = IF setting[TrySetting[d]] = 1 THEN info ELSE info \ {d}
  BY DEF AndSetting, TransmitAt, vars, historyVars
<1>2. On' = On
  BY <1>1 DEF On
<1>3. always \subseteq On /\ On \subseteq ever
  BY <1>1 DEF OInv, TimeInv
<1>4. d \in Checksums /\ TransmitSetting(d) = TrySetting[d] /\ TrySetting[d] \in Flags
  BY DEF Checksums, TransmitSetting, TrySetting, Flags
<1>5. ASSUME NEW c \in Checksums
      PROVE  /\ Possible(c)' <=> Possible(c)
             /\ Masked(c)' <=> Masked(c) \/ c = d
             /\ ~Masked(d)
  <2>1. c \in {"IP", "TCP", "UDP"}
    BY DEF Checksums
  <2>2. QED
    BY <1>1, <2>1 DEF Possible, Masked, TransmitSteps
<1>6. TransmitInv'
  <2>1. at \in TransmitSteps /\ at' # "txSend"
    BY <1>1 DEF TransmitSteps
  <2>2. ASSUME NEW c \in Checksums
        PROVE  /\ c \in info' => Possible(c)
               /\ Masked(c)' /\ c \in info' => TransmitSetting(c) \in ever
               /\ Possible(c) /\ ~Extended(packet) /\ (Masked(c)' => TransmitSetting(c) \in always) =>
                    c \in info'
    <3>1. /\ c \in info => Possible(c)
          /\ Masked(c) /\ c \in info => TransmitSetting(c) \in ever
          /\ Possible(c) /\ ~Extended(packet) /\ (Masked(c) => TransmitSetting(c) \in always) => c \in info
      BY <2>1 DEF OInv, TransmitInv
    <3>2. CASE c = d
      <4>1. TransmitSetting(d) \in On <=> setting[TrySetting[d]] = 1
        BY <1>4, FlagIsOn
      <4>2. QED
        BY <1>1, <1>3, <1>5, <3>1, <3>2, <4>1
    <3>3. CASE c # d
      BY <1>1, <1>5, <3>1, <3>3
    <3>4. QED
      BY <3>2, <3>3
  <2>3. packet \in Packets /\ nic \subseteq Offloads
    BY <2>1 DEF OInv, TransmitInv
  <2>4. QED
    BY <1>1, <1>5, <2>1, <2>2, <2>3 DEF TransmitInv
<1>7. OffloadTypeOK' /\ IdleInv' /\ TimeInv' /\ ReceiveInv'
  BY <1>1, <1>2 DEF OInv, OffloadTypeOK, IdleInv, TimeInv, ReceiveInv, ReceiveSteps
<1>8. QED
  BY <1>6, <1>7 DEF OInv

LEMMA SetTcpHeaderOffsetStep ==
  ASSUME OInv, SetTcpHeaderOffset
  PROVE  OInv'
<1>1. /\ UNCHANGED <<packet, nic, info, ever, always, setting>>
      /\ at = "txOffset" /\ at' = "txSend"
  BY DEF SetTcpHeaderOffset, vars, historyVars
<1>2. On' = On
  BY <1>1 DEF On
<1>3. packet \in Packets /\ nic \subseteq Offloads
  BY <1>1 DEF OInv, TransmitInv, TransmitSteps
<1>4. packet.headerLength \in 5..15 /\ LoopStop(packet) \in Nat \ {0}
  BY <1>3, PacketFields, LoopEnds
<1>5. offset' \in Nat
  BY <1>4 DEF SetTcpHeaderOffset, GetTransportLayerHeaderFromIPv4Header,
             GetTransportLayerHeaderFromIPv6Header, ETH_HEADER, IPV6_HEADER, ExtensionHeader
<1>6. ASSUME "TCP" \in info, ~Extended(packet) PROVE offset' = HeaderOffset(packet)
  <2>1. LoopStop(packet) = 1 /\ Len(packet.chain) = 1
    BY <1>3, <1>6, PacketFields, LoopEnds
  <2>2. QED
    BY <1>6, <2>1 DEF SetTcpHeaderOffset, HeaderOffset, GetTransportLayerHeaderFromIPv4Header,
                     GetTransportLayerHeaderFromIPv6Header
<1>7. TransmitInv'
  <2>1. \A c \in Checksums : /\ Possible(c)' <=> Possible(c)
                             /\ Masked(c)' /\ Masked(c)
    BY <1>1 DEF Possible, Masked, TransmitSteps
  <2>2. HeaderOffset(packet)' = HeaderOffset(packet) /\ at \in TransmitSteps /\ at' \in TransmitSteps
    BY <1>1 DEF HeaderOffset, TransmitSteps
  <2>3. QED
    BY <1>1, <1>3, <1>6, <2>1, <2>2 DEF OInv, TransmitInv
<1>8. OffloadTypeOK' /\ IdleInv' /\ TimeInv' /\ ReceiveInv'
  BY <1>1, <1>2, <1>5 DEF OInv, OffloadTypeOK, IdleInv, TimeInv, ReceiveInv, ReceiveSteps
<1>9. QED
  BY <1>7, <1>8 DEF OInv

LEMMA GivesStep ==
  ASSUME OInv, Gives
  PROVE  OInv'
<1>1. OffloadTypeOK'
  BY DEF OInv, OffloadTypeOK, Gives
<1>2. IdleInv' /\ TimeInv' /\ TransmitInv' /\ ReceiveInv'
  BY DEF Gives, IdleInv, TimeInv, TransmitInv, ReceiveInv, TransmitSteps, ReceiveSteps
<1>3. QED
  BY <1>1, <1>2 DEF OInv

LEMMA TakeReceiveStep ==
  ASSUME OInv, TakeReceive
  PROVE  OInv'
<1>1. /\ UNCHANGED <<packet, nic, info, offset, setting>>
      /\ at = "idle" /\ at' = "rxIP" /\ ever' = On /\ always' = On /\ info = {}
  BY DEF TakeReceive, Takes, vars, OInv, IdleInv
<1>2. On' = On /\ On \subseteq Flags
  BY <1>1 DEF On
<1>3. \A c \in Checksums : ~Indicated(c)'
  BY <1>1 DEF Indicated
<1>4. OffloadTypeOK'
  BY <1>1, <1>2 DEF OInv, OffloadTypeOK
<1>5. IdleInv' /\ TimeInv' /\ TransmitInv' /\ ReceiveInv'
  BY <1>1, <1>2, <1>3 DEF IdleInv, TimeInv, TransmitInv, ReceiveInv, TransmitSteps
<1>6. QED
  BY <1>4, <1>5 DEF OInv

LEMMA IndicateBitStep ==
  ASSUME OInv, NEW d \in Checksums, IndicateBit(d)
  PROVE  OInv'
<1>1. /\ UNCHANGED <<packet, nic, offset, ever, always, setting>>
      /\ at = IndicateAt[d] /\ at' = NextBit[d]
      /\ info' = IF setting[IndicateSetting[d]] = 1 THEN info \cup {d} ELSE info
  BY DEF IndicateBit, vars, historyVars
<1>2. On' = On
  BY <1>1 DEF On
<1>3. d \in {"IP", "TCP", "UDP"}
  BY DEF Checksums
<1>4. at \in ReceiveSteps /\ at' \in ReceiveSteps /\ at' \notin TransmitSteps
      /\ at # "idle" /\ at' # "idle"
  BY <1>1, <1>3 DEF IndicateAt, NextBit, ReceiveSteps, TransmitSteps
<1>5. always \subseteq On /\ On \subseteq ever
  BY <1>4 DEF OInv, TimeInv
<1>6. \A c \in Checksums : Indicated(c)' <=> Indicated(c) \/ c = d
  <2> TAKE c \in Checksums
  <2>1. c \in {"IP", "TCP", "UDP"}
    BY DEF Checksums
  <2>2. QED
    BY <1>1, <1>3, <2>1 DEF Indicated, IndicateAt, NextBit
<1>7. IndicateSetting[d] \in On <=> setting[IndicateSetting[d]] = 1
  BY SettingNames, FlagIsOn
<1>8. ReceiveInv'
  BY <1>1, <1>4, <1>5, <1>6, <1>7 DEF OInv, ReceiveInv
<1>9. OffloadTypeOK' /\ IdleInv' /\ TimeInv' /\ TransmitInv'
  <2>1. at' \in {"rxIP", "rxTCP", "rxUDP", "rxSend"}
    BY <1>4 DEF ReceiveSteps
  <2>2. QED
    BY <1>1, <1>2, <1>4, <2>1 DEF OInv, OffloadTypeOK, IdleInv, TimeInv, TransmitInv
<1>10. QED
  BY <1>8, <1>9 DEF OInv

LEMMA OffloadNextStep ==
  ASSUME OInv, [OffloadNext]_allVars
  PROVE  OInv'
<1>1. CASE UNCHANGED allVars
  <2>1. UNCHANGED <<at, packet, nic, info, offset, ever, always, setting>>
    BY <1>1 DEF allVars, threadVars, historyVars, vars
  <2>2. OffloadTypeOK' /\ IdleInv' /\ TimeInv'
    BY <2>1 DEF OInv, OffloadTypeOK, IdleInv, TimeInv, On
  <2>3. TransmitInv' /\ ReceiveInv'
    BY <2>1 DEF OInv, TransmitInv, ReceiveInv, Possible, Masked, Indicated
  <2>4. QED
    BY <2>2, <2>3 DEF OInv
<1>2. CASE OffloadNext
  BY <1>2, ToolOffloadStep, TakeTransmitStep, AndSettingStep, SetTcpHeaderOffsetStep, GivesStep,
     TakeReceiveStep, IndicateBitStep
    DEF OffloadNext, NdisFSendNetBufferLists, NdisFIndicateReceiveNetBufferLists
<1>3. QED
  BY <1>1, <1>2

-----------------------------------------------------------------------------

\* The conjunction is an invariant: what is in ChecksumOffloadInfo follows the
\* packet, its adapter and the settings that have been looked at so far.
THEOREM OffloadInvariant == OffloadSpec => []OInv
<1>1. OInv /\ [OffloadNext]_allVars => OInv'
  BY OffloadNextStep
<1>2. QED
  BY OffloadInitStep, <1>1, PTL DEF OffloadSpec

\* InputThread and PostroutingThread only read the settings: with the packets on
\* their way the tools behave as without them, so that all that is proved of the
\* command channel holds beside the packets too.
THEOREM PacketsOnlyRead == OffloadSpec => Spec
<1>1. OffloadInit => Init
  BY DEF OffloadInit
<1>2. ASSUME [OffloadNext]_allVars PROVE [Next]_vars
  <2>1. CASE \E t \in Tools : ToolStep(t)
    BY <2>1 DEF ToolStep, Next
  <2>2. CASE ~\E t \in Tools : ToolStep(t)
    BY <1>2, <2>2 DEF OffloadNext, allVars, TakeTransmit, AndSetting, SetTcpHeaderOffset, Gives,
                      NdisFSendNetBufferLists, TakeReceive, IndicateBit,
                      NdisFIndicateReceiveNetBufferLists
  <2>3. QED
    BY <2>1, <2>2
<1>3. QED
  BY <1>1, <1>2, PTL DEF OffloadSpec, Spec

\* The bits of ChecksumOffloadInfo follow the settings of the packet's time, and
\* the offset the header, whichever way the packet goes (InputThread,
\* PostroutingThread).
THEOREM OffloadIsAsSet == OffloadSpec => []OffloadFollowsSettings
<1>1. ASSUME OInv PROVE OffloadFollowsSettings
  <2>1. TransmitFollowsSettings
    <3>1. at = "txSend" => \A c \in Checksums : Masked(c)
      BY DEF Masked, TransmitSteps
    <3>2. QED
      BY <1>1, <3>1 DEF OInv, TransmitInv, TransmitSteps, TransmitFollowsSettings, Possible
  <2>2. ReceiveFollowsSettings
    <3>1. at = "rxSend" => \A c \in Checksums : Indicated(c)
      BY DEF Indicated
    <3>2. QED
      BY <1>1, <3>1 DEF OInv, ReceiveInv, ReceiveSteps, ReceiveFollowsSettings
  <2>3. QED
    BY <2>1, <2>2 DEF OffloadFollowsSettings
<1>2. QED
  BY OffloadInvariant, <1>1, PTL
=============================================================================
