------------------------------ MODULE Assembler ------------------------------
(***************************************************************************)
(* assembler.py: ReadingAssembler, from the frames the parser returns to a *)
(* ClusterReading.                                                         *)
(*                                                                         *)
(* A decoded value is abstracted to whether there is one: the parts of a   *)
(* battery are the set of fields that hold something.  A position is       *)
(* abstracted to whether it is the bank's gateway (is_master).             *)
(***************************************************************************)
EXTENDS Integers, SequencesExt

CONSTANTS
    Serials,       \* the batteries of the bank
    NoSerial,      \* Python's None
    Given,         \* the serial the assembler was made with, or NoSerial
    Counts,        \* the battery counts topology frames claim
    MaxBatteries,  \* MAX_BATTERIES
    Kinds,         \* the kinds of frame that arrive
    Burst          \* bound: frames completed by one notification

\* The fields whose decoder refuses a payload of the wrong length, and those
\* whose decoder makes an empty tuple, which counts as none, of an empty one.
Strict == {"cells", "summary", "topology"}
Lenient == {"temperatures", "relay", "switch"}
Fields == {"cells", "summary", "alarm"} \cup Lenient

ASSUME AssemblerAssumption ==
    /\ NoSerial \notin Serials /\ Given \in Serials \cup {NoSerial}
    /\ Counts \subseteq Nat /\ MaxBatteries \in Nat /\ Burst \in Nat
    /\ Kinds \subseteq Fields \cup {"topology", "other", "foreign"}

\* "other": an id nothing decodes.  "foreign": another message class, or not a
\* battery's serial.  good: the payload is neither malformed nor empty.
Frames == {f \in [serial : Serials, master : BOOLEAN, kind : Kinds, good : BOOLEAN,
                   count : Counts \cup {0}] :
              /\ f.kind # "topology" \/ ~f.good => f.count = 0
              /\ f.kind \in {"other", "foreign"} => f.good
              /\ f.kind = "foreign" => ~f.master}

\* What one notification can complete.
Bursts == BoundedSeq(Frames, Burst)

VARIABLES
    parts,      \* _parts: the fields each battery has
    order,      \* the keys of _parts, as inserted
    masters,    \* the batteries whose position is the gateway's
    roster,     \* _roster
    unhandled,  \* the kinds counted in stats.unhandled
    touched,    \* what the last feed returned
    newest,     \* history: the batteries whose newest frame has the gateway's position
    said,       \* history: the fields whose newest decoded frame held a value
    claims      \* history: the battery counts topology frames could claim

vars == <<parts, order, masters, roster, unhandled, touched, newest, said, claims>>

TypeOK ==
    /\ parts \in [Serials -> SUBSET Fields]
    /\ order \in Seq(Serials) /\ IsInjective(order)
    /\ \A s \in Serials : parts[s] # {} => s \in ToSet(order)
    /\ masters \subseteq ToSet(order) /\ touched \subseteq ToSet(order)
    /\ roster \in 0..MaxBatteries
    /\ unhandled \subseteq Kinds /\ newest \subseteq Serials
    /\ said \in [Serials -> SUBSET Fields] /\ claims \subseteq Counts

-----------------------------------------------------------------------------
\* Whether the frame leads to a stored value, a raised error caught in feed,
\* or neither.
Refused(f) == f.kind \in Strict /\ ~f.good
Unknown(f) == f.kind = "other" \/ (f.kind = "alarm" /\ ~f.good)

BugStored(has, f) == IF f.good THEN {f.kind} \cap Fields ELSE {}

\* The fields of a battery once f is decoded.
Stored(has, f) ==
    IF f.kind \in Lenient /\ ~f.good THEN has \ {f.kind}
    ELSE has \cup ({f.kind} \cap Fields)

BugPlausible(f) == f.kind = "topology"

Plausible(f) == f.kind = "topology" /\ f.count \in 1..MaxBatteries

BugReturned(so_far, f) == IF f.kind \in Lenient THEN so_far ELSE so_far \cup {f.serial}

\* touched, with the serial of a frame that was decoded.
Returned(so_far, f) == so_far \cup {f.serial}

BugPlaced(st, f) ==
    IF Contains(st.order, f.serial) THEN st
    ELSE [st EXCEPT !.order = Append(@, f.serial),
                    !.masters = IF f.master THEN @ \cup {f.serial} ELSE @]

\* The position of a frame is stored before its payload is looked at.
Placed(st, f) ==
    [st EXCEPT !.order = IF Contains(@, f.serial) THEN @ ELSE Append(@, f.serial),
               !.masters = IF f.master THEN @ \cup {f.serial} ELSE @ \ {f.serial}]

\* The loop body of feed; st has the fields named as the variables.
Absorb(st, f) ==
    LET placed == Placed(st, f)
    IN  IF f.kind = "foreign" THEN st
        ELSE IF Unknown(f) THEN [placed EXCEPT !.unhandled = @ \cup {f.kind}]
        ELSE IF Refused(f) THEN placed
        ELSE [placed EXCEPT !.parts[f.serial] = Stored(@, f),
                            !.roster = IF Plausible(f) /\ f.count > @ THEN f.count ELSE @,
                            !.touched = Returned(@, f)]

Init ==
    /\ parts = [s \in Serials |-> {}]
    /\ order = <<>> /\ masters = {} /\ roster = 0 /\ unhandled = {} /\ touched = {}
    /\ newest = {} /\ said = [s \in Serials |-> {}] /\ claims = {}

\* The places of a battery's own frames in a notification.
Own(burst, s) == {i \in DOMAIN burst : burst[i].serial = s /\ burst[i].kind # "foreign"}

\* The places of those a field is decoded from, and of the last for its field.
Decoded(burst, s) ==
    {i \in Own(burst, s) : burst[i].kind \in Fields /\ (burst[i].good \/ burst[i].kind \in Lenient)}

LastWords(burst, s) ==
    {i \in Decoded(burst, s) : \A j \in Decoded(burst, s) : burst[j].kind = burst[i].kind => j <= i}

\* feed, given the frames the notification completes.
Feed(burst) ==
    LET before == [parts |-> parts, order |-> order, masters |-> masters,
                   roster |-> roster, unhandled |-> unhandled, touched |-> {}]
        after == FoldLeft(Absorb, before, burst)
    IN  /\ parts' = after.parts /\ order' = after.order
        /\ masters' = after.masters /\ roster' = after.roster
        /\ unhandled' = after.unhandled /\ touched' = after.touched
        /\ newest' = {s \in Serials : IF Own(burst, s) = {} THEN s \in newest
                                      ELSE burst[Max(Own(burst, s))].master}
        /\ said' = [s \in Serials |->
                     (said[s] \ {burst[i].kind : i \in Decoded(burst, s)})
                     \cup {burst[i].kind : i \in {j \in LastWords(burst, s) : burst[j].good}}]
        /\ claims' = claims \cup {burst[i].count : i \in {j \in DOMAIN burst :
                         burst[j].kind = "topology" /\ burst[j].count \in 1..MaxBatteries}}

Next == \E burst \in Bursts : Feed(burst)

Spec == Init /\ [][Next]_vars

\* reading(): the batteries that said anything usable, and the first of them
\* that is the gateway.
Usable == {s \in Serials : parts[s] \cap {"summary", "cells"} # {}}

MasterSerial ==
    LET first == SelectInSeq(order, LAMBDA s : s \in Usable \cap masters)
    IN  IF first = 0 THEN Given ELSE order[first]

Reading ==
    [batteries |-> [s \in Usable |-> [fields |-> parts[s], master |-> s \in masters]],
     master |-> IF Usable = {} THEN NoSerial ELSE MasterSerial, roster |-> roster]

-----------------------------------------------------------------------------
(* Properties.                                                             *)

\* Each field holds what the newest frame it can be decoded from said, over
\* all feeds: frames that are malformed, unknown or of other batteries take
\* nothing back and bring nothing back that was emptied.  The roster is the
\* largest plausible claim, however many claims came before or after it.
NewestIsHeld ==
    /\ parts = said
    /\ roster = Max({0} \cup claims)

\* A battery whose data changed is in the set feed returns: the stream pushes
\* an update only if that set is not empty.
DataChangesAreReturned ==
    [][\A s \in Serials : parts'[s] # parts[s] => s \in touched']_vars

\* Positions are those of the newest frames, also of frames that are malformed
\* or that nothing decodes: a reading names as its master a battery that holds
\* the gateway's position now, if any of its batteries does.
MasterIsCurrent ==
    /\ Usable \cap newest # {} => MasterSerial \in Usable \cap newest
    /\ Usable \cap newest = {} => MasterSerial = Given

\* "Nothing is discarded between calls": what a battery has said stays.
NothingDiscarded == [][\A s \in Serials : parts[s] \subseteq parts'[s]]_vars

\* "returning the serials that changed": if feed returns none, the reading is
\* what it was.
NoneReturnedNoneChanged == [][touched' = {} => Reading' = Reading]_vars

=============================================================================
