------------------------------- MODULE Payloads -------------------------------
(***************************************************************************)
(* What the payload decoders of protocol.py and alarms.py make of an       *)
(* unmasked payload, a sequence of bytes.  Most fields are scaled integers *)
(* read at fixed offsets; kept here are the decoders that take bytes       *)
(* apart or may stop half way.                                             *)
(***************************************************************************)
EXTENDS Integers, SequencesExt

\* One two-bit value of a byte, and where in a byte there is one.
BugPair(byte, shift) == byte \div 2^shift
Pair(byte, shift) == (byte \div 2^shift) % 4
Shifts == {0, 2, 4, 6}

-----------------------------------------------------------------------------
(* The alarm field.                                                        *)

BugSlots == [i \in 1..29 |-> <<(i - 1) \div 4, 2 * ((i - 1) % 4)>>]

\* ALARM_SLOTS: byte and shift of every alarm, in the order of display.
Slots == << <<0, 0>>, <<0, 2>>, <<0, 6>>,                          \* power
            <<1, 0>>, <<1, 2>>, <<1, 4>>, <<1, 6>>, <<4, 6>>,      \* sensor and link
            <<2, 0>>, <<2, 2>>, <<2, 4>>,                          \* cell
            <<3, 2>>, <<3, 4>>, <<3, 6>>, <<4, 0>>,                \* charge
            <<7, 0>>, <<7, 2>>, <<7, 4>>, <<4, 2>>,                \* discharge
            <<2, 6>>, <<3, 0>>, <<4, 4>>, <<5, 0>>, <<5, 2>>,      \* other
            <<6, 0>>, <<6, 2>>, <<6, 4>>, <<6, 6>>, <<7, 6>> >>

\* ALARM_FIELD_LEN
FieldLength == 8

\* decode_alarms: the severity of each slot, 0 past the end of a short field.
DecodeAlarms(bits) ==
    [i \in DOMAIN Slots |->
        IF Slots[i][1] < Len(bits) THEN Pair(bits[Slots[i][1] + 1], Slots[i][2]) ELSE 0]

BugActive(bits) == {i \in DOMAIN Slots : DecodeAlarms(bits)[i] > 1}

\* active_alarms: the slots that fire.
ActiveAlarms(bits) == {i \in DOMAIN Slots : DecodeAlarms(bits)[i] # 0}

\* unmapped_bits, as the places of the non-zero pairs no slot covers.
UnmappedBits(bits) ==
    {at \in (0..(Len(bits) - 1)) \X Shifts :
        Pair(bits[at[1] + 1], at[2]) # 0 /\ at \notin ToSet(Slots)}

-----------------------------------------------------------------------------
(* Relay and switch routes.                                                *)

MaxRoutes == 16
RoutesPerByte == 4

BugRoutes(payload) ==
    LET bytes == IF Len(payload) < 4 THEN Len(payload) ELSE 4
    IN  [r \in 1..(4 * bytes) |-> Pair(payload[(r - 1) \div 4 + 1], 6 - 2 * ((r - 1) % 4))]

\* decode_routes: low bits first, and no more routes than there can be.
Routes(payload) ==
    LET known == MaxRoutes \div RoutesPerByte
        bytes == IF Len(payload) < known THEN Len(payload) ELSE known
    IN  [r \in 1..(RoutesPerByte * bytes) |->
            Pair(payload[(r - 1) \div RoutesPerByte + 1], 2 * ((r - 1) % RoutesPerByte))]

-----------------------------------------------------------------------------
(* The roster.  A payload is its count byte and the whole 19-byte entries  *)
(* that follow; Garbled is an entry without the serials' marker.           *)

CONSTANTS Garbled, MaxBatteries

BugListed(roster) == SelectSeq(roster.entries, LAMBDA e : e # Garbled)

\* decode_topology: as many entries as claimed and present, up to the first
\* that is no serial.
Listed(roster) ==
    LET present == SubSeq(roster.entries, 1,
                          IF roster.count < Len(roster.entries)
                          THEN roster.count ELSE Len(roster.entries))
        bad == {i \in DOMAIN present : present[i] = Garbled}
    IN  SubSeq(present, 1, Min(bad \cup {Len(present) + 1}) - 1)

\* Topology.is_complete and is_plausible.
IsComplete(roster) == Len(Listed(roster)) = roster.count
IsPlausible(roster) == roster.count \in 1..MaxBatteries
=============================================================================
