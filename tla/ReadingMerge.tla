---------------------------- MODULE ReadingMerge ----------------------------
(***************************************************************************)
(* models.py: merge_readings, folding one poll after another onto what is  *)
(* known of the bank.                                                      *)
(*                                                                         *)
(* A value is abstracted to the number of the poll that observed it, and 0 *)
(* to what Python's "or" passes over: None, an empty tuple, no position.   *)
(***************************************************************************)
EXTENDS Integers

CONSTANTS
    Serials,     \* the batteries of the bank
    Fields,      \* what a BatteryReading has of a battery, the cells apart
    BankFields,  \* master_serial and roster_count
    Nothing,     \* Python's None, also for a battery not in the dict
    MaxPolls     \* bound: polls in a behaviour

Cells == "cells"
AllFields == Fields \cup {Cells}

Batteries == [data : [AllFields -> Nat], cellsAt : Nat, updatedAt : Nat]
Readings == [batteries : [Serials -> Batteries \cup {Nothing}],
             bank : [BankFields -> Nat], updatedAt : Nat]

ASSUME MergeAssumption ==
    /\ Cells \notin Fields /\ MaxPolls \in Nat
    /\ Nothing \notin Batteries /\ Nothing \notin Readings

VARIABLES
    merged,  \* every poll merged as it came
    base,    \* the polls merged up to some point,
    batch,   \* and those since, merged with each other only
    heard,   \* the last poll that observed each field of each battery
    polls    \* the number of polls

vars == <<merged, base, batch, heard, polls>>

-----------------------------------------------------------------------------
(* The merge.  Definitions named Bug are mistakes the properties are tried *)
(* against; no behaviour of Spec uses them.                                *)

\* "new or old", field by field.
Newest(old, new) == [f \in DOMAIN new |-> IF new[f] # 0 THEN new[f] ELSE old[f]]

BugCellsAt(old, new) == new.cellsAt

\* Carried forward with the cells it belongs to.
CellsAt(old, new) == IF new.data[Cells] # 0 THEN new.cellsAt ELSE old.cellsAt

BugReplace(old, new) == IF new = Nothing THEN old ELSE new

BugDropMissing(old, new) ==
    IF new = Nothing \/ old = Nothing THEN new
    ELSE [data |-> Newest(old.data, new.data), cellsAt |-> CellsAt(old, new),
          updatedAt |-> new.updatedAt]

\* The entry of merged, a copy of previous.batteries, for one battery.
MergeBattery(old, new) ==
    IF new = Nothing THEN old
    ELSE IF old = Nothing THEN new
    ELSE [data |-> Newest(old.data, new.data), cellsAt |-> CellsAt(old, new),
          updatedAt |-> new.updatedAt]

BugMerge(previous, latest) == previous

\* merge_readings
Merge(previous, latest) ==
    IF previous = Nothing THEN latest
    ELSE [batteries |-> [s \in Serials |->
                           MergeBattery(previous.batteries[s], latest.batteries[s])],
          bank |-> Newest(previous.bank, latest.bank),
          updatedAt |-> latest.updatedAt]

\* What a poll at time t observes: of each battery nothing, or some fields.
Observed(t, fields) ==
    [data |-> [f \in AllFields |-> IF f \in fields THEN t ELSE 0],
     cellsAt |-> IF Cells \in fields THEN t ELSE 0, updatedAt |-> t]

Init ==
    /\ merged = Nothing /\ base = Nothing /\ batch = Nothing
    /\ heard = [s \in Serials |-> [f \in AllFields |-> 0]]
    /\ polls = 0

Poll(answers, fields, bank) ==
    LET t == polls + 1
        latest == [batteries |-> [s \in Serials |->
                      IF s \in answers THEN Observed(t, fields[s]) ELSE Nothing],
                   bank |-> [f \in BankFields |-> IF f \in bank THEN t ELSE 0],
                   updatedAt |-> t]
    IN  /\ polls < MaxPolls /\ polls' = t
        /\ merged' = Merge(merged, latest)
        /\ batch' = Merge(batch, latest)
        /\ heard' = [s \in Serials |-> [f \in AllFields |->
                        IF s \in answers /\ f \in fields[s] THEN t ELSE heard[s][f]]]
        /\ UNCHANGED base

\* A user who held polls back merges them in one go.
Flush ==
    /\ batch # Nothing
    /\ base' = Merge(base, batch) /\ batch' = Nothing
    /\ UNCHANGED <<merged, heard, polls>>

Next ==
    \/ \E answers \in SUBSET Serials, fields \in [Serials -> SUBSET AllFields],
          bank \in SUBSET BankFields : Poll(answers, fields, bank)
    \/ Flush

Spec == Init /\ [][Next]_vars

-----------------------------------------------------------------------------
(* Properties.                                                             *)

TypeOK ==
    /\ merged \in Readings \cup {Nothing}
    /\ base \in Readings \cup {Nothing} /\ batch \in Readings \cup {Nothing}
    /\ heard \in [Serials -> [AllFields -> 0..polls]]
    /\ polls \in 0..MaxPolls
    /\ merged = Nothing <=> polls = 0

\* "newest-wins": each field has the value of the last poll that observed it,
\* however many polls missed the field or the battery since.
FreshestWins ==
    merged # Nothing =>
        \A s \in Serials : \A f \in AllFields :
            heard[s][f] = IF merged.batteries[s] = Nothing THEN 0
                          ELSE merged.batteries[s].data[f]

\* cells_updated_at "keeps reporting how stale those particular values are":
\* it is the time of the cells shown, not of the poll merged last.
CellsAgeIsTheirOwn ==
    merged # Nothing =>
        \A s \in Serials : merged.batteries[s] # Nothing =>
            merged.batteries[s].cellsAt = heard[s][Cells]

\* Polls can be merged as they come or held back and merged together: the
\* outcome is the same (merge_readings is associative).
BatchingAgrees ==
    merged = IF batch = Nothing THEN base ELSE Merge(base, batch)

=============================================================================
