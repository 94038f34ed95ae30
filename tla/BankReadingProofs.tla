-------------------------- MODULE BankReadingProofs --------------------------
(***************************************************************************)
(* What holds of a bank for any batteries and any payloads: its alarm      *)
(* fields are decoded without loss, what is stored is what was heard, and  *)
(* the reading shows what the batteries disagree about.                    *)
(***************************************************************************)
EXTENDS BankReading, FoldFacts

\* The slot of each place in the field, by byte and by pair; 0 where the app
\* reads nothing.
SlotAt ==
    << <<1, 2, 0, 3>>, <<4, 5, 6, 7>>, <<9, 10, 11, 20>>, <<21, 12, 13, 14>>,
       <<15, 19, 22, 8>>, <<23, 24, 0, 0>>, <<25, 26, 27, 28>>, <<16, 17, 18, 29>> >>

LEMMA SlotsDomain == DOMAIN Slots = 1..29
  BY DEF Slots

LEMMA SlotFacts ==
    \A i \in 1..29 :
        /\ Slots[i][1] \in 0..7 /\ Slots[i][2] \in Shifts
        /\ SlotAt[Slots[i][1] + 1][Slots[i][2] \div 2 + 1] = i
  <1> TAKE i \in 1..29
  <1>1. CASE i \in 1..3
    BY <1>1 DEF Slots, SlotAt, Shifts
  <1>2. CASE i \in 4..6
    BY <1>2 DEF Slots, SlotAt, Shifts
  <1>3. CASE i \in 7..9
    BY <1>3 DEF Slots, SlotAt, Shifts
  <1>4. CASE i \in 10..12
    BY <1>4 DEF Slots, SlotAt, Shifts
  <1>5. CASE i \in 13..15
    BY <1>5 DEF Slots, SlotAt, Shifts
  <1>6. CASE i \in 16..18
    BY <1>6 DEF Slots, SlotAt, Shifts
  <1>7. CASE i \in 19..21
    BY <1>7 DEF Slots, SlotAt, Shifts
  <1>8. CASE i \in 22..24
    BY <1>8 DEF Slots, SlotAt, Shifts
  <1>9. CASE i \in 25..27
    BY <1>9 DEF Slots, SlotAt, Shifts
  <1>10. CASE i \in 28..29
    BY <1>10 DEF Slots, SlotAt, Shifts
  <1> QED BY <1>1, <1>2, <1>3, <1>4, <1>5, <1>6, <1>7, <1>8, <1>9, <1>10

LEMMA SlotsInverse == \A i \in 1..29 : SlotAt[Slots[i][1] + 1][Slots[i][2] \div 2 + 1] = i
  BY SlotFacts

LEMMA SlotsInField == \A k \in DOMAIN Slots : Slots[k][1] \in 0..7 /\ Slots[k][2] \in Shifts
  BY SlotsDomain, SlotFacts

\* No two alarms share a place in the field.
LEMMA SlotsDistinct ==
    \A i, j \in DOMAIN Slots : Slots[i] = Slots[j] => i = j
  BY SlotsDomain, SlotsInverse

\* The alarms are stored as they came.
FieldsStored == \A b \in Batteries : alarm[b] # None => alarm[b] \in Seq(0..255) /\ Len(alarm[b]) = FieldLength

LEMMA FieldsStoredInductive == Spec => [](FieldsStored /\ DOMAIN alarm = Batteries)
  <1> DEFINE I == FieldsStored /\ DOMAIN alarm = Batteries
  <1>1. Init => I
    BY DEF Init, FieldsStored
  <1>2. I /\ [Next]_vars => I'
    <2> SUFFICES ASSUME I, [Next]_vars PROVE I'
      OBVIOUS
    <2>1. CASE alarm' = alarm
      BY <2>1 DEF FieldsStored
    <2>2. ASSUME NEW b \in Batteries, NEW p \in AlarmFields, HearAlarm(b, p) PROVE I'
      BY <2>2, BankAssumption DEF FieldsStored, HearAlarm, FieldLength
    <2> QED BY <2>1, <2>2 DEF Next, vars, battery, HearCells, HearSummary, HearRelays, HearRoster
  <1> QED BY <1>1, <1>2, PTL DEF Spec

\* Each pair of a field is told once: by the slot at its place, or as unmapped.
LEMMA PairsToldOnce ==
    ASSUME NEW bits \in Seq(0..255), Len(bits) = FieldLength,
           NEW i \in 1..FieldLength, NEW s \in Shifts
    PROVE  TellsPairOnce(bits, i, s)
  <1> DEFINE at == <<i - 1, s>>
             level == Pair(bits[i], s)
  <1>1. \A k \in DOMAIN Slots : Slots[k] = at => DecodeAlarms(bits)[k] = level
    <2> SUFFICES ASSUME NEW k \in DOMAIN Slots, Slots[k] = at
                 PROVE  DecodeAlarms(bits)[k] = level
      OBVIOUS
    <2>1. Slots[k][1] = i - 1 /\ Slots[k][2] = s
      OBVIOUS
    <2> QED BY <2>1 DEF DecodeAlarms, FieldLength
  <1>2. at \in UnmappedBits(bits) <=> level # 0 /\ at \notin ToSet(Slots)
    <2>1. at \in (0..(Len(bits) - 1)) \X Shifts /\ at[1] + 1 = i /\ at[2] = s
      BY DEF FieldLength
    <2> HIDE DEF at
    <2> QED BY <2>1 DEF UnmappedBits
  <1>3. CASE level = 0
    BY <1>1, <1>2, <1>3 DEF TellsPairOnce, ActiveAlarms
  <1>4. CASE level # 0 /\ at \notin ToSet(Slots)
    BY <1>2, <1>4 DEF TellsPairOnce, ActiveAlarms, ToSet
  <1>5. CASE level # 0 /\ at \in ToSet(Slots)
    <2>1. PICK k \in DOMAIN Slots : Slots[k] = at
      BY <1>5 DEF ToSet
    <2>2. k \in ActiveAlarms(bits)
      BY <1>1, <1>5, <2>1 DEF ActiveAlarms
    <2>3. {j \in ActiveAlarms(bits) : Slots[j] = at} = {k}
      BY <2>1, <2>2, SlotsDistinct DEF ActiveAlarms
    <2> QED BY <1>1, <1>2, <1>5, <2>1, <2>2, <2>3 DEF TellsPairOnce
  <1> QED BY <1>3, <1>4, <1>5

\* Whatever bytes a battery sends, every pair of the field that is set shows up
\* exactly once, as the severity of an alarm or as unmapped bits: FieldAccountedFor.
THEOREM AlarmsAccountedFor == Spec => []FieldAccountedFor
  <1>1. FieldsStored => FieldAccountedFor
    BY PairsToldOnce DEF FieldsStored, FieldAccountedFor
  <1> QED BY <1>1, FieldsStoredInductive, PTL

-----------------------------------------------------------------------------
\* The places no slot covers.
LEMMA UncoveredPlaces ==
    ASSUME NEW byte \in 0..7, NEW s \in Shifts, <<byte, s>> \notin ToSet(Slots)
    PROVE  <<byte, s>> \in {<<0, 4>>, <<5, 4>>, <<5, 6>>}
  <1>1. \A k \in 1..29 : Slots[k] # <<byte, s>>
    BY SlotsDomain DEF ToSet
  <1>2. CASE byte \in 0..1
    BY <1>1, <1>2 DEF Slots, Shifts
  <1>3. CASE byte \in 2..3
    BY <1>1, <1>3 DEF Slots, Shifts
  <1>4. CASE byte \in 4..5
    BY <1>1, <1>4 DEF Slots, Shifts
  <1>5. CASE byte \in 6..7
    BY <1>1, <1>5 DEF Slots, Shifts
  <1> QED BY <1>2, <1>3, <1>4, <1>5

LEMMA SetByteHasSetPair ==
    ASSUME NEW byte \in 0..255, byte # 0
    PROVE  \E s \in Shifts : Pair(byte, s) # 0
  BY DEF Shifts, Pair

LEMMA PairRange == \A byte \in 0..255, s \in Shifts : Pair(byte, s) \in 0..3
  BY DEF Pair, Shifts


LEMMA ZeroByteHasNoPair == \A s \in Shifts : Pair(0, s) = 0
  <1>1. Pair(0, 0) = 0 /\ Pair(0, 2) = 0 /\ Pair(0, 4) = 0 /\ Pair(0, 6) = 0
    BY DEF Pair
  <1> QED BY <1>1 DEF Shifts

\* A set of severities has a highest one.
LEMMA HighestLevel ==
    ASSUME NEW S \in SUBSET (0..3)
    PROVE  Max({0} \cup S) > 0 <=> \E x \in S : x > 0
  <1>1. \E x \in {0} \cup S : \A y \in {0} \cup S : x >= y
    <2>1. CASE 3 \in S
      BY <2>1
    <2>2. CASE 3 \notin S /\ 2 \in S
      BY <2>2
    <2>3. CASE 3 \notin S /\ 2 \notin S
      BY <2>3
    <2> QED BY <2>1, <2>2, <2>3
  <1>2. Max({0} \cup S) \in {0} \cup S /\ \A y \in {0} \cup S : Max({0} \cup S) >= y
    BY <1>1 DEF Max
  <1> DEFINE m == Max({0} \cup S)
  <1>3. m \in {0} \cup S /\ \A y \in {0} \cup S : m >= y
    BY <1>2
  <1> HIDE DEF m
  <1>4. m > 0 <=> \E x \in S : x > 0
    BY <1>3
  <1> QED BY <1>4 DEF m

LEMMA ElementsOf ==
    ASSUME NEW S, NEW q \in Seq(S)
    PROVE  \A i \in 1..Len(q) : q[i] \in S
  OBVIOUS

\* What is stored of a field are its eight bytes.
LEMMA FieldBytes ==
    ASSUME NEW bits \in Seq(0..255), Len(bits) = FieldLength
    PROVE  DOMAIN bits = 1..FieldLength /\ \A i \in 1..FieldLength : bits[i] \in 0..255
  <1>1. DOMAIN bits = 1..FieldLength
    BY DEF FieldLength
  <1>2. \A i \in 1..Len(bits) : bits[i] \in 0..255
    BY ElementsOf
  <1> QED BY <1>1, <1>2 DEF FieldLength

LEMMA UnreadPairs ==
    ASSUME NEW bits \in Seq(0..255), Len(bits) = FieldLength
    PROVE  /\ UnmappedBits(bits) \subseteq {<<0, 4>>, <<5, 4>>, <<5, 6>>}
           /\ (\E i \in DOMAIN bits : bits[i] # 0) <=>
                ActiveAlarms(bits) # {} \/ UnmappedBits(bits) # {}
  <1>1. UnmappedBits(bits) \subseteq {<<0, 4>>, <<5, 4>>, <<5, 6>>}
    BY UncoveredPlaces DEF UnmappedBits, FieldLength
  <1>2. ASSUME NEW i \in DOMAIN bits, bits[i] # 0
        PROVE  ActiveAlarms(bits) # {} \/ UnmappedBits(bits) # {}
    <2>1. i \in 1..FieldLength /\ bits[i] \in 0..255
      BY ZenonT(30), FieldBytes
    <2>2. PICK s \in Shifts : Pair(bits[i], s) # 0
      BY <1>2, <2>1, SetByteHasSetPair
    <2>3. TellsPairOnce(bits, i, s)
      BY <2>1, PairsToldOnce
    <2> QED BY <2>2, <2>3 DEF TellsPairOnce
  <1>3. ASSUME ActiveAlarms(bits) # {} PROVE \E i \in DOMAIN bits : bits[i] # 0
    <2>1. PICK k \in DOMAIN Slots : DecodeAlarms(bits)[k] # 0
      BY <1>3 DEF ActiveAlarms
    <2>2. Pair(bits[Slots[k][1] + 1], Slots[k][2]) # 0
      BY <2>1, SlotsInField DEF DecodeAlarms, FieldLength
    <2>3. bits[Slots[k][1] + 1] # 0
      BY <2>2, SlotsInField, ZeroByteHasNoPair
    <2>4. Slots[k][1] + 1 \in DOMAIN bits
      BY SlotsInField DEF FieldLength
    <2> QED BY <2>3, <2>4
  <1>4. ASSUME UnmappedBits(bits) # {} PROVE \E i \in DOMAIN bits : bits[i] # 0
    <2>1. PICK byte \in 0..7, s \in Shifts : Pair(bits[byte + 1], s) # 0
      BY <1>4 DEF UnmappedBits, FieldLength
    <2>2. bits[byte + 1] # 0
      BY <2>1, ZeroByteHasNoPair
    <2>3. byte + 1 \in DOMAIN bits
      BY DEF FieldLength
    <2> QED BY <2>2, <2>3
  <1> QED BY <1>1, <1>2, <1>3, <1>4

LEMMA LevelOfActive ==
    ASSUME NEW bits \in Seq(0..255), Len(bits) = FieldLength
    PROVE  Max({0} \cup {DecodeAlarms(bits)[k] : k \in ActiveAlarms(bits)}) > 0
             <=> ActiveAlarms(bits) # {}
  <1> DEFINE levels == {DecodeAlarms(bits)[k] : k \in ActiveAlarms(bits)}
  <1>1. ASSUME NEW k \in DOMAIN Slots PROVE DecodeAlarms(bits)[k] \in 0..3
    <2>1. bits[Slots[k][1] + 1] \in 0..255
      <3>1. Slots[k][1] + 1 \in 1..FieldLength
        BY SlotsInField DEF FieldLength
      <3> QED BY <3>1, FieldBytes
    <2>2. Pair(bits[Slots[k][1] + 1], Slots[k][2]) \in 0..3
      BY <2>1, SlotsInField, PairRange
    <2> QED BY <2>2, SlotsInField DEF DecodeAlarms, FieldLength
  <1>2. levels \in SUBSET (0..3) /\ 0 \notin levels
    BY <1>1 DEF ActiveAlarms
  <1>3. (\E x \in levels : x > 0) <=> ActiveAlarms(bits) # {}
    <2>1. levels # {} <=> ActiveAlarms(bits) # {}
      OBVIOUS
    <2> HIDE DEF levels
    <2>2. \A x \in levels : x > 0
      BY <1>2
    <2> QED BY <2>1, <2>2
  <1> HIDE DEF levels
  <1>4. Max({0} \cup levels) > 0 <=> \E x \in levels : x > 0
    BY <1>2, HighestLevel
  <1> QED BY <1>3, <1>4 DEF levels

\* Only the bits the vendor app never reads are unmapped, and a battery that has
\* a fault has an alarm or one of those: UnreadPairsOnly.
THEOREM UnmappedIsUnread == Spec => []UnreadPairsOnly
  <1>1. FieldsStored => UnreadPairsOnly
    BY UnreadPairs, LevelOfActive DEF FieldsStored, UnreadPairsOnly, HasFault, AlarmLevel
  <1> QED BY <1>1, FieldsStoredInductive, PTL

-----------------------------------------------------------------------------
(* What is stored of each frame.                                           *)

\* A battery's routes are those of a payload it sent.
RelaysStored ==
    \A b \in Batteries : relays[b] # <<>> =>
        \E payload \in RelayBytes : relays[b] = Routes(payload)

\* The bank's roster is a payload with at least one entry.
RosterStored == roster # None => roster \in Rosters /\ Len(roster.entries) > 0

StoredInv ==
    /\ TypeOK /\ RelaysStored /\ RosterStored
    /\ DOMAIN summary = Batteries /\ DOMAIN relays = Batteries

LEMMA BytePairs ==
    ASSUME NEW byte \in 0..255
    PROVE  byte = Pair(byte, 0) + 4 * Pair(byte, 2) + 16 * Pair(byte, 4) + 64 * Pair(byte, 6)
BY DEF Pair

\* The routes of a payload, by the byte they come from.
LEMMA RoutesOf ==
    ASSUME NEW payload \in Seq(0..255)
    PROVE  LET bytes == IF Len(payload) < 4 THEN Len(payload) ELSE 4
           IN  /\ DOMAIN Routes(payload) = 1..(4 * bytes)
               /\ Len(Routes(payload)) = 4 * bytes
               /\ \A r \in 1..(4 * bytes) : Routes(payload)[r] \in 0..3
               /\ \A i \in 1..bytes : \A j \in 1..4 :
                    Routes(payload)[4 * i - 4 + j] = Pair(payload[i], 2 * (j - 1))
<1> DEFINE size == Len(payload)
           bytes == IF size < 4 THEN size ELSE 4
           route(r) == Pair(payload[(r - 1) \div 4 + 1], 2 * ((r - 1) % 4))
<1>1. size \in Nat
  OBVIOUS
<1>2. Routes(payload) = [r \in 1..(4 * bytes) |-> route(r)]
  BY DEF Routes, MaxRoutes, RoutesPerByte
<1> HIDE DEF size
<1>3. bytes \in 0..4 /\ bytes =< size
  BY <1>1
<1> HIDE DEF bytes, route
<1>4. DOMAIN Routes(payload) = 1..(4 * bytes) /\ Len(Routes(payload)) = 4 * bytes
  BY <1>2, <1>3
<1>5. ASSUME NEW r \in 1..(4 * bytes) PROVE route(r) \in 0..3
  <2>1. (r - 1) \div 4 + 1 \in 1..size
    BY <1>1, <1>3
  <2>2. payload[(r - 1) \div 4 + 1] \in 0..255
    BY <2>1, ElementsOf DEF size
  <2>3. 2 * ((r - 1) % 4) \in Shifts
    BY <1>3 DEF Shifts
  <2> QED BY <2>2, <2>3, PairRange DEF route
<1>6. ASSUME NEW i \in 1..bytes, NEW j \in 1..4
      PROVE  4 * i - 4 + j \in 1..(4 * bytes) /\ route(4 * i - 4 + j) = Pair(payload[i], 2 * (j - 1))
  <2>1. (4 * i - 4 + j - 1) \div 4 + 1 = i /\ (4 * i - 4 + j - 1) % 4 = j - 1
    BY <1>3
  <2>2. 4 * i - 4 + j \in 1..(4 * bytes)
    BY <1>3
  <2> QED BY SMTT(30), <2>1, <2>2 DEF route
<1> QED BY SMTT(30), <1>2, <1>4, <1>5, <1>6 DEF bytes, size

LEMMA StoredInductive == Spec => []StoredInv
<1>1. Init => StoredInv
  BY BankAssumption DEF Init, StoredInv, TypeOK, RelaysStored, RosterStored, ToSet
<1>2. StoredInv /\ [Next]_vars => StoredInv'
  <2> SUFFICES ASSUME StoredInv, [Next]_vars PROVE StoredInv'
    OBVIOUS
  <2> USE DEF StoredInv, TypeOK, RelaysStored, RosterStored
  <2>1. CASE UNCHANGED vars
    BY <2>1 DEF vars, battery
  <2>2. ASSUME Hear PROVE heard' \in 0..MaxHeard
    BY <2>2, BankAssumption DEF Hear
  <2>3. ASSUME Hear, NEW b \in Batteries, NEW p \in CellLists, HearCells(b, p) PROVE StoredInv'
    BY <2>2, <2>3 DEF HearCells
  <2>4. ASSUME Hear, NEW b \in Batteries, NEW p \in Summaries, HearSummary(b, p) PROVE StoredInv'
    <3>1. Signed(p.amps) \in Int /\ [p EXCEPT !.amps = Signed(@)].amps = Signed(p.amps)
      <4>1. p \in [amps : Nat, low : Nat, high : Nat]
        BY <2>4, SummaryAssumption DEF HearSummary
      <4>2. p.amps \in Nat /\ DOMAIN p = {"amps", "low", "high"}
        BY <4>1
      <4> QED BY <4>1, <4>2 DEF Signed, CurrentZero
    <3> QED BY <2>2, <2>4, <3>1 DEF HearSummary
  <2>5. ASSUME Hear, NEW b \in Batteries, NEW p \in AlarmFields, HearAlarm(b, p) PROVE StoredInv'
    BY <2>2, <2>5 DEF HearAlarm
  <2>6. ASSUME Hear, NEW b \in Batteries, NEW p \in RelayBytes, HearRelays(b, p) PROVE StoredInv'
    <3>1. ToSet(Routes(p)) \subseteq 0..3
      <4>1. p \in Seq(0..255)
        BY RelayAssumption
      <4>2. \A i \in DOMAIN Routes(p) : Routes(p)[i] \in 0..3
        BY <4>1, RoutesOf
      <4> QED BY <4>2, Zenon DEF ToSet
    <3> QED BY <2>2, <2>6, <3>1 DEF HearRelays
  <2>7. ASSUME Hear, NEW p \in Rosters, HearRoster(p) PROVE StoredInv'
    BY <2>2, <2>7 DEF HearRoster, battery
  <2> QED BY <2>1, <2>3, <2>4, <2>5, <2>6, <2>7 DEF Next
<1> QED BY <1>1, <1>2, PTL DEF Spec

\* What is stored are values the decoders can return: TypeOK.
THEOREM BankTypeOK == Spec => []TypeOK
<1>1. StoredInv => TypeOK
  BY DEF StoredInv
<1> QED BY <1>1, StoredInductive, PTL

\* Routes are read back from the payload they came from, whatever its bytes and
\* length: RelaysReadBack.
THEOREM RelaysAreRead == Spec => []RelaysReadBack
<1>1. StoredInv => RelaysReadBack
  <2> SUFFICES ASSUME StoredInv, NEW b \in Batteries, relays[b] # <<>>
               PROVE  \E payload \in RelayBytes :
                        /\ Len(relays[b]) = 4 * (IF Len(payload) < 4 THEN Len(payload) ELSE 4)
                        /\ \A i \in DOMAIN payload : i <= 4 =>
                             payload[i] = relays[b][4 * i - 4 + 1] + 4 * relays[b][4 * i - 4 + 2]
                                          + 16 * relays[b][4 * i - 4 + 3]
                                          + 64 * relays[b][4 * i - 4 + 4]
                        /\ payload = <<1>> => ActiveRelays(b) = {1}
    BY DEF RelaysReadBack
  <2>1. PICK payload \in RelayBytes : relays[b] = Routes(payload)
    BY DEF StoredInv, RelaysStored
  <2>2. payload \in Seq(0..255) /\ DOMAIN payload = 1..Len(payload)
    BY RelayAssumption
  <2> DEFINE bytes == IF Len(payload) < 4 THEN Len(payload) ELSE 4
  <2>3. /\ DOMAIN relays[b] = 1..(4 * bytes) /\ Len(relays[b]) = 4 * bytes
        /\ \A i \in 1..bytes : \A j \in 1..4 :
             relays[b][4 * i - 4 + j] = Pair(payload[i], 2 * (j - 1))
    BY ZenonT(30), <2>1, <2>2, RoutesOf
  <2>4. ASSUME NEW i \in DOMAIN payload, i <= 4
        PROVE  payload[i] = relays[b][4 * i - 4 + 1] + 4 * relays[b][4 * i - 4 + 2]
                            + 16 * relays[b][4 * i - 4 + 3] + 64 * relays[b][4 * i - 4 + 4]
    <3>1. i \in 1..Len(payload) /\ Len(payload) \in Nat /\ payload[i] \in 0..255
      BY <2>2, ElementsOf
    <3>2. i \in 1..bytes
      BY <2>4, <3>1
    <3>3. /\ relays[b][4 * i - 4 + 1] = Pair(payload[i], 0)
          /\ relays[b][4 * i - 4 + 2] = Pair(payload[i], 2)
          /\ relays[b][4 * i - 4 + 3] = Pair(payload[i], 4)
          /\ relays[b][4 * i - 4 + 4] = Pair(payload[i], 6)
      <4> HIDE DEF bytes
      <4>1. \A j \in 1..4 : relays[b][4 * i - 4 + j] = Pair(payload[i], 2 * (j - 1))
        BY <2>3, <3>2
      <4> QED BY <4>1
    <3> QED BY <3>1, <3>3, BytePairs
  <2>5. payload = <<1>> => ActiveRelays(b) = {1}
    <3>1. SUFFICES ASSUME Len(payload) = 1, payload[1] = 1
                   PROVE  ActiveRelays(b) = {1}
      OBVIOUS
    <3>2. DOMAIN relays[b] = 1..4 /\ \A j \in 1..4 : relays[b][j] = Pair(1, 2 * (j - 1))
      <4>1. bytes = 1 /\ payload[1] = 1
        BY <3>1
      <4>2. \A j \in 1..4 : relays[b][4 * 1 - 4 + j] = Pair(payload[1], 2 * (j - 1))
        BY <2>3, <4>1
      <4> QED BY SMTT(30), <2>3, <4>1, <4>2
    <3>3. Pair(1, 0) = 1 /\ Pair(1, 2) = 0 /\ Pair(1, 4) = 0 /\ Pair(1, 6) = 0
      BY DEF Pair
    <3> QED BY <3>2, <3>3 DEF ActiveRelays
  <2> QED BY <2>3, <2>4, <2>5
<1> QED BY <1>1, StoredInductive, PTL

-----------------------------------------------------------------------------
(* The roster.                                                             *)

\* decode_topology stops at the first entry it cannot read, and at the count.
LEMMA ListedStops ==
    ASSUME NEW S, NEW r, r.entries \in Seq(S), r.count \in Nat
    PROVE  LET last == Len(Listed(r))
           IN  /\ Listed(r) \in Seq(S) /\ last \in 0..Len(r.entries) /\ last =< r.count
               /\ \A i \in 1..last : Listed(r)[i] = r.entries[i] /\ r.entries[i] # Garbled
               /\ last < r.count /\ last < Len(r.entries) => r.entries[last + 1] = Garbled
<1> DEFINE q == r.entries
           n == Len(q)
           m == IF r.count < n THEN r.count ELSE n
           present == SubSeq(q, 1, m)
           bad == {i \in DOMAIN present : present[i] = Garbled}
           stop == Min(bad \cup {Len(present) + 1})
<1>1. n \in Nat /\ \A i \in 1..n : q[i] \in S
  OBVIOUS
<1>2. Listed(r) = SubSeq(present, 1, stop - 1)
  BY DEF Listed
<1>3. m \in 0..n /\ m =< r.count /\ (m = n \/ m = r.count)
  <2> HIDE DEF n
  <2> QED BY <1>1
<1>4. present \in Seq(S) /\ Len(present) = m /\ DOMAIN present = 1..m
      /\ \A i \in 1..m : present[i] = q[i]
  <2> HIDE DEF m
  <2> QED BY <1>1, <1>3
<1> HIDE DEF present, m, n
<1>5. bad \cup {m + 1} \in SUBSET Nat /\ bad \subseteq 1..m
  BY <1>1, <1>3, <1>4
<1>6. stop \in bad \cup {m + 1} /\ \A i \in bad \cup {m + 1} : stop =< i
  <2> HIDE DEF bad
  <2>1. bad \cup {m + 1} # {}
    OBVIOUS
  <2> QED BY <1>4, <1>5, <2>1, LeastIsMin
<1> HIDE DEF stop
<1>7. stop \in 1..(m + 1)
  BY <1>1, <1>3, <1>5, <1>6
<1>8. /\ Listed(r) \in Seq(S) /\ Len(Listed(r)) = stop - 1
      /\ \A i \in 1..(stop - 1) : Listed(r)[i] = present[i]
  BY SMTT(30), <1>1, <1>2, <1>3, <1>4, <1>7
<1>9. \A i \in 1..(stop - 1) : i \in 1..m /\ q[i] # Garbled
  <2> TAKE i \in 1..(stop - 1)
  <2>1. i \in 1..m /\ ~(stop =< i)
    BY <1>3, <1>7
  <2>2. present[i] # Garbled
    BY <1>4, <1>6, <2>1, Zenon
  <2> QED BY <1>4, <2>1, <2>2
<1>10. stop - 1 < r.count /\ stop - 1 < n => q[stop] = Garbled
  BY <1>1, <1>3, <1>4, <1>6, <1>7
<1>11. \A i \in 1..(stop - 1) : Listed(r)[i] = q[i]
  BY <1>4, <1>8, <1>9
<1> QED BY <1>1, <1>3, <1>7, <1>8, <1>9, <1>10, <1>11 DEF n

\* The serials listed are the frame's own, up to the first that is garbled or
\* the end of the frame or of the count, whichever is first: RosterIsPrefix.
THEOREM RosterIsRead == Spec => []RosterIsPrefix
<1>1. StoredInv => RosterIsPrefix
  <2> SUFFICES ASSUME StoredInv, roster # None
               PROVE  /\ IsPrefix(Listed(roster), roster.entries)
                      /\ Garbled \notin ToSet(Listed(roster))
                      /\ Len(Listed(roster)) <= roster.count
                      /\ ~IsComplete(roster) =>
                           \/ Listed(roster) = roster.entries
                           \/ roster.entries[Len(Listed(roster)) + 1] = Garbled
    BY DEF RosterIsPrefix
  <2> DEFINE S == ToSet(roster.entries)
             q == roster.entries
             listed == Listed(roster)
             last == Len(listed)
  <2>1. q \in Seq(S) /\ roster.count \in Nat
    <3>1. roster \in Rosters
      BY DEF StoredInv, RosterStored
    <3>2. roster.entries \in Seq(ToSet(roster.entries))
      BY <3>1, RosterAssumption, Zenon
    <3>3. roster.count \in 0..255
      BY <3>1, RosterAssumption, Zenon
    <3>4. roster.count \in Nat
      BY <3>3
    <3> QED BY <3>2, <3>4, Zenon
  <2>2. /\ listed \in Seq(S) /\ last \in 0..Len(q) /\ last =< roster.count
        /\ \A i \in 1..last : listed[i] = q[i] /\ q[i] # Garbled
        /\ last < roster.count /\ last < Len(q) => q[last + 1] = Garbled
    BY <2>1, ListedStops
  <2>3. IsComplete(roster) <=> last = roster.count
    BY DEF IsComplete
  <2> HIDE DEF q, listed, S
  <2>4. SubSeq(listed, 1, last) = SubSeq(q, 1, last)
    BY <2>1, <2>2
  <2>5. Garbled \notin ToSet(listed)
    BY <2>2 DEF ToSet
  <2>6. last = Len(q) => listed = q
    BY <2>1, <2>2
  <2>7. Len(q) \in Nat
    BY <2>1
  <2> QED BY <2>1, <2>2, <2>3, <2>4, <2>5, <2>6, <2>7 DEF IsPrefix, q, listed
<1> QED BY <1>1, StoredInductive, PTL

-----------------------------------------------------------------------------
(* The bank.                                                               *)

\* A bank whose extremes are not those of its summaries has a battery without a
\* summary, or one that disagrees with its cells: DisagreementIsSeen.
THEOREM DisagreementShows == Spec => []DisagreementIsSeen
<1>1. DisagreementIsSeen
  <2> SUFFICES ASSUME Shown = Summarised, \A b \in Shown : ~Disagree(b)
               PROVE  /\ {MinCell(b) : b \in Shown} = {summary[b].low : b \in Shown}
                      /\ {MaxCell(b) : b \in Shown} = {summary[b].high : b \in Shown}
    BY DEF DisagreementIsSeen, BankMinCell, BankMaxCell
  <2>1. \A b \in Shown : summary[b] # None
    BY DEF Summarised
  <2>2. \A b \in Shown : MinCell(b) = summary[b].low /\ MaxCell(b) = summary[b].high
    BY <2>1 DEF Disagree, MinCell, MaxCell
  <2> QED BY <2>2
<1> QED BY <1>1, PTL

\* The sum over a set of batteries that report a current: one is added to the
\* sum over the others.
LEMMA CurrentAdds ==
    ASSUME NEW S, IsFiniteSet(S), \A b \in S : summary[b].amps \in Int
    PROVE  \E g \in [SUBSET S -> Int] :
             /\ g[S] = MapThenSumSet(LAMBDA b : summary[b].amps, S)
             /\ g[{}] = 0
             /\ \A s \in SUBSET S : s # {} =>
                  \E b \in s : g[s] = summary[b].amps + g[s \ {b}]
<1> DEFINE amps(b) == summary[b].amps
           some(s) == CHOOSE x \in s : TRUE
           Folds(g) == g = [s \in SUBSET S |->
                          IF s = {} THEN 0 ELSE amps(some(s)) + g[s \ {some(s)}]]
           iter == CHOOSE iter : Folds(iter)
           step == [p \in Int \X S |-> amps(p[2]) + p[1]]
           pick == [s \in (SUBSET S) \ {{}} |-> some(s)]
<1>1. MapThenSumSet(LAMBDA b : summary[b].amps, S) = iter[S]
  BY DEF MapThenSumSet, MapThenFoldSet
<1>2. \A s \in (SUBSET S) \ {{}} : some(s) \in s
  OBVIOUS
<1>3. \A b \in S : amps(b) \in Int
  OBVIOUS
<1> HIDE DEF amps, some
<1>4. Picks(pick, S)
  BY <1>2 DEF Picks
<1>5. step \in [Int \X S -> Int] /\ 0 \in Int
  BY <1>3
<1>6. PICK g \in [SUBSET S -> Int] : FoldsBy(g, S, 0, step, pick)
  <2> HIDE DEF step, pick
  <2> QED BY <1>4, <1>5, FoldExists
<1>7. \A s \in SUBSET S : g[s] = IF s = {} THEN 0 ELSE amps(some(s)) + g[s \ {some(s)}]
  <2> SUFFICES ASSUME NEW s \in SUBSET S, s # {}
               PROVE  g[s] = amps(some(s)) + g[s \ {some(s)}]
    BY <1>6 DEF FoldsBy
  <2>1. some(s) \in s /\ pick[s] = some(s) /\ g[s \ {some(s)}] \in Int
    BY <1>2
  <2>2. step[<<g[s \ {some(s)}], some(s)>>] = amps(some(s)) + g[s \ {some(s)}]
    BY <2>1
  <2> HIDE DEF step, pick
  <2> QED BY <1>6, <2>1, <2>2 DEF FoldsBy
<1>8. Folds(g)
  BY <1>7
<1>9. Folds(iter)
  <2> HIDE DEF Folds
  <2> QED BY <1>8
<1> HIDE DEF iter
<1>10. \A s \in SUBSET S : iter[s] = IF s = {} THEN 0 ELSE amps(some(s)) + iter[s \ {some(s)}]
  BY <1>9
<1>11. \A s \in SUBSET S : iter[s] \in Int
  <2> DEFINE I == {s \in SUBSET S : iter[s] \in Int}
  <2>1. ASSUME NEW s \in SUBSET S, \A x \in s : s \ {x} \in I PROVE s \in I
    <3>1. CASE s = {}
      <4>1. iter[s] = 0
        BY <1>10, <3>1
      <4> QED BY <4>1
    <3>2. CASE s # {}
      <4>1. some(s) \in s /\ iter[s \ {some(s)}] \in Int /\ amps(some(s)) \in Int
        BY <1>2, <1>3, <2>1, <3>2
      <4>2. iter[s] = amps(some(s)) + iter[s \ {some(s)}]
        BY <1>10, <3>2
      <4> QED BY <4>1, <4>2
    <3> QED BY <3>1, <3>2
  <2> HIDE DEF I
  <2>2. GrowsBy(I, S)
    BY <2>1 DEF GrowsBy
  <2>3. SUBSET S \subseteq I
    BY <2>2, AddingUp
  <2> QED BY <2>3 DEF I
<1> DEFINE sum == [s \in SUBSET S |-> iter[s]]
<1>12. sum \in [SUBSET S -> Int] /\ sum[{}] = 0
  BY <1>10, <1>11
<1>13. sum[S] = MapThenSumSet(LAMBDA b : summary[b].amps, S)
  BY <1>1
<1>14. ASSUME NEW s \in SUBSET S, s # {}
       PROVE  \E b \in s : sum[s] = summary[b].amps + sum[s \ {b}]
  <2>1. some(s) \in s /\ iter[s] = amps(some(s)) + iter[s \ {some(s)}]
    BY <1>2, <1>10, <1>14
  <2> QED BY <2>1 DEF amps
<1> HIDE DEF sum
<1> QED BY <1>12, <1>13, <1>14

\* What a sum of currents says of them.
LEMMA CurrentMeans ==
    ASSUME NEW S, IsFiniteSet(S), \A b \in S : summary[b].amps \in Int
    PROVE  LET total == MapThenSumSet(LAMBDA b : summary[b].amps, S)
           IN  /\ total \in Int
               /\ total > 0 => \E b \in S : summary[b].amps > 0
               /\ total < 0 => \E b \in S : summary[b].amps < 0
               /\ S # {} /\ (\A b \in S : summary[b].amps > Idle) => total > Idle
<1>1. PICK g \in [SUBSET S -> Int] :
             /\ g[S] = MapThenSumSet(LAMBDA b : summary[b].amps, S)
             /\ g[{}] = 0
             /\ \A s \in SUBSET S : s # {} =>
                  \E b \in s : g[s] = summary[b].amps + g[s \ {b}]
  BY CurrentAdds
<1> DEFINE Means(s) == /\ g[s] > 0 => \E b \in s : summary[b].amps > 0
                       /\ g[s] < 0 => \E b \in s : summary[b].amps < 0
                       /\ s # {} /\ (\A b \in s : summary[b].amps > Idle) => g[s] > Idle
           I == {s \in SUBSET S : Means(s)}
<1>2. ASSUME NEW s \in SUBSET S, \A x \in s : s \ {x} \in I PROVE s \in I
  <2>1. CASE s = {}
    BY <1>1, <2>1
  <2>2. CASE s # {}
    <3>1. PICK b \in s : g[s] = summary[b].amps + g[s \ {b}]
      BY <1>1, <2>2
    <3> DEFINE rest == s \ {b}
    <3>2. Means(rest) /\ rest \subseteq s /\ g[rest] \in Int
      BY <1>1, <1>2
    <3>3. summary[b].amps \in Int /\ g[s] = summary[b].amps + g[rest]
      BY <3>1
    <3>4. rest = {} => g[rest] = 0
      BY <1>1
    <3> HIDE DEF rest
    <3>5. g[s] > 0 => \E c \in s : summary[c].amps > 0
      BY <3>2, <3>3
    <3>6. g[s] < 0 => \E c \in s : summary[c].amps < 0
      BY <3>2, <3>3
    <3>7. (\A c \in s : summary[c].amps > Idle) => g[s] > Idle
      BY <3>2, <3>3, <3>4 DEF Idle
    <3> QED BY <3>5, <3>6, <3>7
  <2> QED BY <2>1, <2>2
<1> HIDE DEF I
<1>3. SUBSET S \subseteq I
  <2>1. GrowsBy(I, S)
    BY <1>2 DEF GrowsBy
  <2> QED BY <2>1, AddingUp
<1>4. Means(S) /\ g[S] \in Int
  BY <1>1, <1>3 DEF I
<1> QED BY <1>1, <1>4

\* Whatever the number of batteries, a bank called discharging has one that
\* discharges, one called charging has one that charges, and one whose batteries
\* all discharge is called discharging: StatusHasACause.
THEOREM StatusIsCaused == Spec => []StatusHasACause
<1>1. StoredInv => StatusHasACause
  <2> SUFFICES ASSUME StoredInv, Summarised # {} PROVE StatusHasACause
    BY DEF StatusHasACause
  <2> DEFINE S == Summarised
  <2>1. IsFiniteSet(S) /\ \A b \in S : summary[b].amps \in Int
    <3>1. S \in SUBSET Batteries
      BY DEF Summarised, Shown
    <3>2. IsFiniteSet(S)
      BY <3>1, BatteriesFinite, FS_Subset
    <3> QED BY <3>2 DEF StoredInv, TypeOK, Summarised, Shown
  <2>2. /\ BankCurrent \in Int
        /\ BankCurrent > 0 => \E b \in S : summary[b].amps > 0
        /\ BankCurrent < 0 => \E b \in S : summary[b].amps < 0
        /\ S # {} /\ (\A b \in S : summary[b].amps > Idle) => BankCurrent > Idle
    <3> HIDE DEF S
    <3>1. BankCurrent = MapThenSumSet(LAMBDA b : summary[b].amps, S)
      BY DEF BankCurrent, S
    <3> QED BY <2>1, <3>1, CurrentMeans
  <2> QED BY <2>2 DEF StatusHasACause, BankStatus, Idle
<1> QED BY <1>1, StoredInductive, PTL
=============================================================================
