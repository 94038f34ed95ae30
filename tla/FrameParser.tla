----------------------------- MODULE FrameParser -----------------------------
(***************************************************************************)
(* protocol.py: parse_frames on the buffer ReadingAssembler.feed extends.  *)
(*                                                                         *)
(* The device sends frames; the link delivers their bytes in notifications *)
(* that cut them anywhere, and may lose or damage some of them.  A frame   *)
(* on the wire is Start, the stuffed body, End.  A body is abstracted to   *)
(* what framing depends on: a length byte (the real header ends with one), *)
(* the payload, and one checksum byte that stands for CRC-16/ARC.          *)
(***************************************************************************)
EXTENDS Integers, SequencesExt

CONSTANTS
    Start, End,       \* FRAME_START and FRAME_END
    Flag, Literal,    \* ESCAPE_FLAG and ESCAPE_LITERAL
    MaxPayload,       \* MAX_PAYLOAD_LEN
    Slack,            \* the 64 parse_frames adds to it
    Alphabet,         \* the bytes payloads are made of
    Messages,         \* the payloads the device sends
    Noise,            \* the bytes a damaged byte may become
    Chunks,           \* bound: the sizes of notifications
    MaxSent,          \* bound: frames the device sends
    MaxFaults         \* bound: bytes damaged and notifications lost

Byte == 0..255

ASSUME ByteAssumption ==
    /\ {Start, End, Flag, Literal, Start - 1, End - 1} \cup Noise \cup Alphabet \subseteq Byte
    /\ {Start, End} \cap {Start - 1, End - 1, Flag, Literal} = {}
    /\ Start # End /\ Flag # Literal
ASSUME MessageAssumption ==
    /\ MaxPayload \in Byte /\ Slack \in Nat /\ Chunks \subseteq Nat \ {0}
    /\ MaxSent \in Nat /\ MaxFaults \in Nat
    /\ \A p \in Messages : p \in Seq(Alphabet) /\ Len(p) <= MaxPayload

VARIABLES
    wire,      \* bytes sent and not yet delivered
    buf,       \* ReadingAssembler._buffer
    frames,    \* the bodies parse_frames has returned
    stats,     \* ParseStats, by counter
    received,  \* every byte delivered so far
    sent, faults

vars == <<wire, buf, frames, stats, received, sent, faults>>

Rejections == {"truncated", "escape", "length", "crc"}
Counters == Rejections \cup {"frames"}

TypeOK ==
    /\ wire \in Seq(Byte) /\ buf \in Seq(Byte) /\ received \in Seq(Byte)
    /\ frames \in Seq(Seq(Byte))
    /\ stats \in [Counters -> Nat] /\ stats["frames"] = Len(frames)
    /\ IsSuffix(buf, received)
    /\ sent \in 0..MaxSent /\ faults \in 0..MaxFaults

-----------------------------------------------------------------------------
(* Byte stuffing.                                                          *)

\* The mistake const.py warns of: only one of the two escapes is known.
BugEscapePrefixes == {End - 1}

EscapePrefixes == {Start - 1, End - 1}

StuffByte(b) ==
    CASE b \in {Start, End} -> <<b - 1, Flag>>
      [] b \in EscapePrefixes     -> <<b, Literal>>
      [] OTHER              -> <<b>>

Stuff(data) == FlattenSeq([i \in DOMAIN data |-> StuffByte(data[i])])

\* A byte is escaped when the one before it is a prefix that is not.
Escaped(data, first) ==
    LET escaped[i \in first..(Len(data) + 1)] ==
            i > first /\ data[i - 1] \in EscapePrefixes /\ ~escaped[i - 1]
    IN  escaped

\* No prefix is last, or followed by anything but the two codes.
WellEscaped(data) ==
    LET escaped == Escaped(data, 1)
    IN  /\ ~escaped[Len(data) + 1]
        /\ \A i \in DOMAIN data : escaped[i] => data[i] \in {Flag, Literal}

Unstuff(data) ==
    LET escaped == Escaped(data, 1)
        Meant(i) == IF data[i] \in EscapePrefixes /\ data[i + 1] = Flag
                    THEN data[i] + 1 ELSE data[i]
    IN  FoldLeftDomain(LAMBDA out, i : IF escaped[i] THEN out ELSE Append(out, Meant(i)),
                       <<>>, data)

-----------------------------------------------------------------------------
(* Frame bodies.                                                           *)

Header == 1   \* HEADER_LEN without the leading Start
CrcLen == 1

Crc(bytes) == <<FoldLeft(LAMBDA sum, b : (sum + b) % 256, 0, bytes)>>

Body(payload) ==
    LET covered == <<Len(payload)>> \o payload IN covered \o Crc(covered)

Wire(payload) == <<Start>> \o Stuff(Body(payload)) \o <<End>>

\* What _decode_frame makes of the bytes between Start and End: "none" is
\* rejected without being counted.
Verdict(raw) ==
    LET body == Unstuff(raw)
        n == Len(body)
        payLen == body[Header]
    IN  IF ~WellEscaped(raw) THEN "escape"
        ELSE IF n < Header + 1 THEN "none"
        ELSE IF payLen > MaxPayload \/ n # Header + payLen + CrcLen THEN "length"
        ELSE IF Crc(SubSeq(body, 1, n - CrcLen)) # SubSeq(body, n, n) THEN "crc"
        ELSE "frames"

-----------------------------------------------------------------------------
(* parse_frames.                                                           *)

\* _find_frame_end: the first delimiter that is not escaped, 0 if none is.
FrameEnd(data, first) ==
    LET escaped == Escaped(data, first)
        Delimits(i) == data[i] \in {Start, End} /\ ~escaped[i]
        found == {i \in first..Len(data) : Delimits(i)}
    IN  IF found = {} THEN 0 ELSE Min(found)

Nothing == [frames |-> <<>>, consumed |-> 0, stats |-> [c \in Counters |-> 0]]

Counted(counter, rest) ==
    IF counter = "none" THEN rest ELSE [rest EXCEPT !.stats[counter] = @ + 1]

\* What is consumed ends with the last frame returned.
Returned(body, end, rest) ==
    [Counted("frames", rest) EXCEPT !.frames = <<body>> \o @,
                                    !.consumed = IF @ = 0 THEN end ELSE @]

BugAfterReject(index, end) == end + 1

\* A candidate given up costs its first byte only: the next may begin inside it.
AfterReject(index, end) == index + 1

\* What is found in data from index on, given what is from every later place.
FoundAt(data, from, index) ==
    LET end == FrameEnd(data, index + 1)
        raw == SubSeq(data, index + 1, end - 1)
    IN  IF index > Len(data) THEN Nothing
        ELSE IF data[index] # Start THEN from[index + 1]
        ELSE IF end = 0
        THEN IF Len(data) - (index - 1) > MaxPayload + Slack THEN from[index + 1] ELSE Nothing
        ELSE IF data[end] = Start THEN Counted("truncated", from[index + 1])
        ELSE IF Verdict(raw) # "frames" THEN Counted(Verdict(raw), from[AfterReject(index, end)])
        ELSE Returned(Unstuff(raw), end, from[end + 1])

\* What one call finds in data, from left to right.
Parse(data) ==
    LET from[index \in 1..(Len(data) + 1)] == FoundAt(data, from, index)
    IN  from[1]

BugRemaining(data, consumed) == data

\* del buf[:consumed]
Remaining(data, consumed) == SubSeq(data, consumed + 1, Len(data))

-----------------------------------------------------------------------------
(* The device and its link (external), and feed.                           *)

\* Notifications may begin in the middle of a frame.
Init ==
    /\ \E p \in Messages : \E cut \in 2..(Len(Wire(p)) + 1) :
         wire = SubSeq(Wire(p), cut, Len(Wire(p)))
    /\ buf = <<>> /\ frames = <<>> /\ received = <<>>
    /\ stats = [c \in Counters |-> 0]
    /\ sent = 0 /\ faults = 0

DeviceSends ==
    /\ sent < MaxSent
    /\ \E p \in Messages : wire' = wire \o Wire(p)
    /\ sent' = sent + 1
    /\ UNCHANGED <<buf, frames, stats, received, faults>>

\* One notification leaves the wire.
Take(n) == n <= Len(wire) /\ wire' = SubSeq(wire, n + 1, Len(wire))

BugCount(found) == stats

Count(found) == [c \in Counters |-> stats[c] + found.stats[c]]

Feed ==
    \E n \in Chunks :
        LET chunk == SubSeq(wire, 1, n)
            found == Parse(buf \o chunk)
        IN  /\ Take(n)
            /\ frames' = frames \o found.frames
            /\ stats' = Count(found)
            /\ buf' = Remaining(buf \o chunk, found.consumed)
            /\ received' = received \o chunk
            /\ UNCHANGED <<sent, faults>>

NotificationLost ==
    /\ faults < MaxFaults /\ faults' = faults + 1
    /\ \E n \in Chunks : Take(n)
    /\ UNCHANGED <<buf, frames, stats, received, sent>>

ByteDamaged ==
    /\ faults < MaxFaults /\ faults' = faults + 1
    /\ wire # <<>>
    /\ \E b \in Noise \ {Head(wire)} : wire' = <<b>> \o Tail(wire)
    /\ UNCHANGED <<buf, frames, stats, received, sent>>

Next == DeviceSends \/ Feed \/ NotificationLost \/ ByteDamaged

Spec == Init /\ [][Next]_vars

-----------------------------------------------------------------------------
(* Properties.                                                             *)

\* Every frame there can be, as it looks on the wire.
Bodies == {Body(p) : p \in BoundedSeq(Alphabet, MaxPayload)}
Whole == [b \in Bodies |-> <<Start>> \o Stuff(b) \o <<End>>]

\* The frames whose bytes appear contiguous and undamaged in data, in order.
IntactFrames(data) ==
    LET EndsAt(b, i) ==
            i >= Len(Whole[b]) /\ SubSeq(data, i - Len(Whole[b]) + 1, i) = Whole[b]
        At(i) == {b \in Bodies : EndsAt(b, i)}
    IN  FoldLeftDomain(LAMBDA out, i : out \o SetToSeq(At(i)), <<>>, data)

\* The parser returns the frames that arrived intact, those alone and in
\* order, whatever surrounds them and however notifications cut them up: no
\* escape left open, no half a frame before them can hide or corrupt one.
EveryIntactFrame == frames = IntactFrames(received)

\* With nothing lost or damaged nothing is rejected, even if notifications
\* begin in mid-frame ("A healthy stream rejects essentially nothing").
HealthyRejectsNothing == faults = 0 => \A c \in Rejections : stats[c] = 0

\* With nothing lost or damaged the buffer holds less than two frames: what
\* was cut off at the beginning, and one not yet complete.
Longest == CHOOSE n \in {Len(Whole[b]) : b \in Bodies} :
               \A b \in Bodies : Len(Whole[b]) <= n
HealthyBufferBounded == faults = 0 => Len(buf) < 2 * Longest

\* "Running tally of what the parser rejected": each candidate is counted
\* once, so the tally is that of one pass over everything received.
CandidateCountedOnce == stats = Parse(received).stats

\* "runaway: no terminator in sight, resync": a frame start that has no
\* terminator, and is farther back than a frame is long, is given up.
RunawayResyncs ==
    \A i \in DOMAIN buf :
        buf[i] = Start /\ FrameEnd(buf, i + 1) = 0 => Len(buf) - (i - 1) <= Longest

=============================================================================
