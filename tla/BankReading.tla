----------------------------- MODULE BankReading -----------------------------
(***************************************************************************)
(* What a ClusterReading says of the bank: the values models.py derives    *)
(* from the payloads last heard of each battery.                           *)
(*                                                                         *)
(* Frames come in any order and any of them may be missing, so every       *)
(* derived value meets batteries without cells, without a summary, or of   *)
(* which only the alarms are known.  Currents are in tenths of an ampere.  *)
(***************************************************************************)
EXTENDS Payloads

CONSTANTS
    Batteries,   \* the serials of the bank
    None,        \* Python's None
    CellCount,   \* CELL_COUNT
    CellLists,   \* payloads of cell frames, as millivolts
    Summaries,   \* payloads of summary frames: [amps, low, high], raw, or
                 \* None for one that is too short
    AlarmFields, \* payloads of alarm frames
    RelayBytes,  \* payloads of relay frames
    Rosters,     \* payloads of topology frames
    MaxHeard     \* bound: frames heard

ASSUME BankAssumption ==
    /\ CellCount \in Nat \ {0} /\ MaxHeard \in Nat
    /\ AlarmFields \subseteq Seq(0..255) /\ None \notin AlarmFields
ASSUME RelayAssumption == RelayBytes \subseteq Seq(0..255)
ASSUME SummaryAssumption ==
    \A p \in Summaries : p # None => p \in [amps : Nat, low : Nat, high : Nat]
ASSUME RosterAssumption ==
    \A p \in Rosters : p.count \in 0..255 /\ p.entries \in Seq(ToSet(p.entries))
ASSUME BatteriesFinite == IsFiniteSet(Batteries)

VARIABLES cells, summary, alarm, relays, roster, heard

battery == <<cells, summary, alarm, relays>>
vars == <<battery, roster, heard>>

CurrentZero == 32768
Idle == 3

TypeOK ==
    /\ cells \in [Batteries -> {c \in CellLists : Len(c) = CellCount} \cup {<<>>}]
    /\ \A b \in Batteries : summary[b] # None => summary[b].amps \in Int
    /\ alarm \in [Batteries -> AlarmFields \cup {None}]
    /\ \A b \in Batteries : ToSet(relays[b]) \subseteq 0..3
    /\ roster \in Rosters \cup {None}
    /\ heard \in 0..MaxHeard

-----------------------------------------------------------------------------
(* Frames, as feed stores what their decoders return.                      *)

Init ==
    /\ cells = [b \in Batteries |-> <<>>]
    /\ summary = [b \in Batteries |-> None]
    /\ alarm = [b \in Batteries |-> None]
    /\ relays = [b \in Batteries |-> <<>>]
    /\ roster = None /\ heard = 0

Hear == heard < MaxHeard /\ heard' = heard + 1

\* decode_cells: a payload of another length is refused.
HearCells(b, payload) ==
    /\ Len(payload) = CellCount
    /\ cells' = [cells EXCEPT ![b] = payload]
    /\ UNCHANGED <<summary, alarm, relays, roster>>

\* Offset binary: discharge is positive.
Signed(word) == word - CurrentZero

\* decode_summary: a current around CurrentZero.
HearSummary(b, payload) ==
    /\ payload # None
    /\ summary' = [summary EXCEPT ![b] = [payload EXCEPT !.amps = Signed(@)]]
    /\ UNCHANGED <<cells, alarm, relays, roster>>

\* decode_alarm_bits, for payloads of the one length feed accepts.
HearAlarm(b, payload) ==
    /\ Len(payload) = FieldLength
    /\ alarm' = [alarm EXCEPT ![b] = payload]
    /\ UNCHANGED <<cells, summary, relays, roster>>

HearRelays(b, payload) ==
    /\ relays' = [relays EXCEPT ![b] = Routes(payload)]
    /\ UNCHANGED <<cells, summary, alarm, roster>>

\* decode_topology: at least the count and one entry.
HearRoster(payload) ==
    /\ Len(payload.entries) > 0
    /\ roster' = payload
    /\ UNCHANGED battery

Next ==
    /\ Hear
    /\ \/ \E b \in Batteries :
            \/ \E p \in CellLists : HearCells(b, p)
            \/ \E p \in Summaries : HearSummary(b, p)
            \/ \E p \in AlarmFields : HearAlarm(b, p)
            \/ \E p \in RelayBytes : HearRelays(b, p)
       \/ \E p \in Rosters : HearRoster(p)

Spec == Init /\ [][Next]_vars

-----------------------------------------------------------------------------
(* BatteryReading.                                                         *)

\* The batteries a reading holds.
Shown == {b \in Batteries : summary[b] # None \/ cells[b] # <<>>}

Summarised == {b \in Shown : summary[b] # None}

\* min_cell_mv, max_cell_mv: the cell list before the BMS's own figure.
MinCell(b) == IF cells[b] # <<>> THEN Min(ToSet(cells[b])) ELSE summary[b].low
MaxCell(b) == IF cells[b] # <<>> THEN Max(ToSet(cells[b])) ELSE summary[b].high

BugDisagree(b) ==
    summary[b] # None /\ cells[b] # <<>> /\ summary[b].low # Min(ToSet(cells[b]))

\* cell_extremes_disagree
Disagree(b) ==
    /\ summary[b] # None /\ cells[b] # <<>>
    /\ \/ summary[b].low # Min(ToSet(cells[b]))
       \/ summary[b].high # Max(ToSet(cells[b]))

\* has_fault: None until an alarm frame was heard.
HasFault(b) == alarm[b] # None /\ \E i \in DOMAIN alarm[b] : alarm[b][i] # 0

\* alarm_level, of a battery whose alarms are known.
AlarmLevel(b) == Max({0} \cup {DecodeAlarms(alarm[b])[i] : i \in ActiveAlarms(alarm[b])})

\* active_relays, by number.
ActiveRelays(b) == {r \in DOMAIN relays[b] : relays[b][r] = 1}

-----------------------------------------------------------------------------
(* ClusterReading.                                                         *)

\* min_cell_mv and max_cell_mv, of a reading that has batteries.
BankMinCell == Min({MinCell(b) : b \in Shown})
BankMaxCell == Max({MaxCell(b) : b \in Shown})

\* current: the sum over those that report one; None if none does.
BankCurrent == MapThenSumSet(LAMBDA b : summary[b].amps, Summarised)

BugBankStatus ==
    IF BankCurrent < -Idle THEN "discharging"
    ELSE IF BankCurrent > Idle THEN "charging" ELSE "idle"

\* status, of a bank that reports a current.
BankStatus ==
    IF BankCurrent > Idle THEN "discharging"
    ELSE IF BankCurrent < -Idle THEN "charging" ELSE "idle"

\* has_fault, over the batteries whose alarms are known.
BankFault ==
    IF \A b \in Shown : alarm[b] = None THEN None ELSE \E b \in Shown : HasFault(b)

-----------------------------------------------------------------------------
(* Properties.                                                             *)

\* The pair at shift s of byte i is told exactly once.
TellsPairOnce(bits, i, s) ==
    LET level == Pair(bits[i], s)
        firing == {k \in ActiveAlarms(bits) : Slots[k] = <<i - 1, s>>}
        unmapped == <<i - 1, s>> \in UnmappedBits(bits)
    IN  IF level = 0 THEN firing = {} /\ ~unmapped
        ELSE \/ firing = {} /\ unmapped
             \/ /\ ~unmapped
                /\ \E k \in firing : firing = {k} /\ DecodeAlarms(bits)[k] = level

\* Nothing of the alarm field is lost or told twice: every pair that is set is
\* the severity of exactly one alarm, or one of the unmapped bits.
FieldAccountedFor ==
    \A b \in Batteries : alarm[b] # None =>
        \A i \in 1..FieldLength, s \in Shifts : TellsPairOnce(alarm[b], i, s)

\* "Byte 0 bits 4-5 and byte 5 bits 4-7 are never read by the app": no other
\* bit of the field is reported as unmapped, and a battery that has a fault
\* without any alarm has one of those.
UnreadPairsOnly ==
    \A b \in Batteries : alarm[b] # None =>
        /\ UnmappedBits(alarm[b]) \subseteq {<<0, 4>>, <<5, 4>>, <<5, 6>>}
        /\ HasFault(b) <=> AlarmLevel(b) > 0 \/ UnmappedBits(alarm[b]) # {}

\* Where the bank's extremes are not the ones the batteries' own summaries
\* give, some battery has no summary, or is seen to disagree with its cells.
DisagreementIsSeen ==
    Shown # {} /\ Shown = Summarised /\ (\A b \in Shown : ~Disagree(b)) =>
        /\ BankMinCell = Min({summary[b].low : b \in Shown})
        /\ BankMaxCell = Max({summary[b].high : b \in Shown})

\* The bank is only called discharging if the current of some battery that
\* reports one flows out, likewise charging; and batteries that all discharge
\* make a bank that does, whatever the others have not yet said.
StatusHasACause ==
    Summarised # {} =>
        /\ BankStatus = "discharging" => \E b \in Summarised : summary[b].amps > 0
        /\ BankStatus = "charging" => \E b \in Summarised : summary[b].amps < 0
        /\ (\A b \in Summarised : summary[b].amps > Idle) => BankStatus = "discharging"

\* "1 is the active state": the master's relay frame reads 0x01 and shows route
\* 1 alone; a route is active exactly if its pair, low bits first, is 01.
RelaysReadBack ==
    \A b \in Batteries : relays[b] # <<>> =>
        \E payload \in RelayBytes :
            /\ Len(relays[b]) = 4 * (IF Len(payload) < 4 THEN Len(payload) ELSE 4)
            /\ \A i \in DOMAIN payload : i <= 4 =>
                 LET route(j) == relays[b][4 * i - 4 + j]
                 IN  payload[i] = route(1) + 4 * route(2) + 16 * route(3) + 64 * route(4)
            /\ payload = <<1>> => ActiveRelays(b) = {1}

\* The serials listed are the frame's own entries in their places, all of
\* them serials; and a plausible roster that is not complete says why: the
\* frame is shorter than its count, or the entry after the last is garbled.
RosterIsPrefix ==
    roster # None =>
        /\ IsPrefix(Listed(roster), roster.entries)
        /\ Garbled \notin ToSet(Listed(roster))
        /\ Len(Listed(roster)) <= roster.count
        /\ ~IsComplete(roster) =>
             \/ Listed(roster) = roster.entries
             \/ roster.entries[Len(Listed(roster)) + 1] = Garbled

-----------------------------------------------------------------------------
(* What a comment says that the code does not do.                          *)

\* "Non-zero means the app would be showing at least one red Fault": a battery
\* has_fault only if one of its alarms fires.
FaultIsAnAlarm == \A b \in Batteries : HasFault(b) => ActiveAlarms(alarm[b]) # {}

\* "Whether any battery in the bank is reporting a fault": also one that has
\* sent its alarms before its summary and cells.
EveryFaultCounts == (\E b \in Batteries : HasFault(b)) => BankFault = TRUE
=============================================================================
