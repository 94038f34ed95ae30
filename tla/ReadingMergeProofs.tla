-------------------------- MODULE ReadingMergeProofs --------------------------
(***************************************************************************)
(* Theorems about merge_readings, for every bank and any number of polls.  *)
(***************************************************************************)
EXTENDS ReadingMerge, TLAPS

Reading == Readings \cup {Nothing}
Battery == Batteries \cup {Nothing}

LEMMA NewestType ==
    ASSUME NEW S, NEW old \in [S -> Nat], NEW new \in [S -> Nat]
    PROVE  Newest(old, new) \in [S -> Nat]
BY DEF Newest

LEMMA MergeBatteryType ==
    ASSUME NEW old \in Battery, NEW new \in Battery
    PROVE  MergeBattery(old, new) \in Battery
<1>1. CASE old = Nothing \/ new = Nothing
  BY <1>1 DEF MergeBattery
<1>2. CASE old # Nothing /\ new # Nothing
  <2>1. old \in Batteries /\ new \in Batteries
    BY <1>2 DEF Battery
  <2>2. Newest(old.data, new.data) \in [AllFields -> Nat]
    BY <2>1, NewestType DEF Batteries
  <2>3. CellsAt(old, new) \in Nat
    BY <2>1 DEF CellsAt, Batteries
  <2> QED BY <1>2, <2>1, <2>2, <2>3 DEF MergeBattery, Battery, Batteries
<1> QED BY <1>1, <1>2

LEMMA MergeType ==
    ASSUME NEW previous \in Reading, NEW latest \in Readings
    PROVE  Merge(previous, latest) \in Readings
<1>1. CASE previous = Nothing
  BY <1>1 DEF Merge
<1>2. CASE previous # Nothing
  <2>1. previous \in Readings
    BY <1>2 DEF Reading
  <2>2. \A s \in Serials :
          MergeBattery(previous.batteries[s], latest.batteries[s]) \in Battery
    BY <2>1, MergeBatteryType DEF Readings, Battery
  <2>3. Newest(previous.bank, latest.bank) \in [BankFields -> Nat]
    BY <2>1, NewestType DEF Readings
  <2> QED BY <1>2, <2>1, <2>2, <2>3 DEF Merge, Readings, Battery
<1> QED BY <1>1, <1>2

\* Merging fields is associative: the last value that is not absent wins.
LEMMA NewestAssociative ==
    ASSUME NEW S, NEW a \in [S -> Nat], NEW b \in [S -> Nat], NEW c \in [S -> Nat]
    PROVE  Newest(Newest(a, b), c) = Newest(a, Newest(b, c))
BY DEF Newest

LEMMA MergeBatteryAssociative ==
    ASSUME NEW a \in Battery, NEW b \in Battery, NEW c \in Battery
    PROVE  MergeBattery(MergeBattery(a, b), c) = MergeBattery(a, MergeBattery(b, c))
<1>1. CASE a = Nothing \/ b = Nothing \/ c = Nothing
  <2>1. MergeBattery(a, b) \in Battery /\ MergeBattery(b, c) \in Battery
    BY MergeBatteryType
  <2> QED BY <1>1 DEF MergeBattery
<1>2. CASE a # Nothing /\ b # Nothing /\ c # Nothing
  <2>1. a \in Batteries /\ b \in Batteries /\ c \in Batteries
    BY <1>2 DEF Battery
  <2> DEFINE ab == [data |-> Newest(a.data, b.data), cellsAt |-> CellsAt(a, b),
                    updatedAt |-> b.updatedAt]
             bc == [data |-> Newest(b.data, c.data), cellsAt |-> CellsAt(b, c),
                    updatedAt |-> c.updatedAt]
  <2>2. MergeBattery(a, b) = ab /\ MergeBattery(b, c) = bc
    BY <1>2 DEF MergeBattery
  <2>3. ab # Nothing /\ bc # Nothing
    <3>1. ab \in Batteries /\ bc \in Batteries
      BY <2>1, NewestType DEF Batteries, CellsAt
    <3> QED BY <3>1, MergeAssumption
  <2>4. Newest(ab.data, c.data) = Newest(a.data, bc.data)
    BY <2>1, NewestAssociative DEF Batteries
  <2>5. CellsAt(ab, c) = CellsAt(a, bc)
    <3>1. Cells \in AllFields
      BY DEF AllFields
    <3>2. bc.data[Cells] = IF c.data[Cells] # 0 THEN c.data[Cells] ELSE b.data[Cells]
      BY <2>1, <3>1 DEF Newest, Batteries
    <3> QED BY <3>2 DEF CellsAt
  <2> HIDE DEF ab, bc
  <2>6. MergeBattery(ab, c) =
          [data |-> Newest(ab.data, c.data), cellsAt |-> CellsAt(ab, c),
           updatedAt |-> c.updatedAt]
    BY <1>2, <2>3 DEF MergeBattery
  <2>7. MergeBattery(a, bc) =
          [data |-> Newest(a.data, bc.data), cellsAt |-> CellsAt(a, bc),
           updatedAt |-> bc.updatedAt]
    BY <1>2, <2>3 DEF MergeBattery
  <2>8. bc.updatedAt = c.updatedAt
    BY DEF bc
  <2> QED BY <2>2, <2>4, <2>5, <2>6, <2>7, <2>8
<1> QED BY <1>1, <1>2

\* merge_readings is associative: how polls are grouped does not matter.
THEOREM MergeAssociative ==
    ASSUME NEW a \in Reading, NEW b \in Readings, NEW c \in Readings
    PROVE  Merge(Merge(a, b), c) = Merge(a, Merge(b, c))
<1>1. b # Nothing /\ Merge(b, c) \in Readings /\ Merge(a, b) \in Readings
  BY MergeType, MergeAssumption DEF Reading
<1>2. CASE a = Nothing
  BY <1>2 DEF Merge
<1>3. CASE a # Nothing
  <2>1. a \in Readings /\ Merge(a, b) # Nothing
    BY <1>1, <1>3, MergeAssumption DEF Reading
  <2> DEFINE ab == Merge(a, b)
             bc == Merge(b, c)
  <2>2. /\ ab.batteries = [s \in Serials |-> MergeBattery(a.batteries[s], b.batteries[s])]
        /\ ab.bank = Newest(a.bank, b.bank)
    BY <1>3 DEF Merge
  <2>3. /\ bc.batteries = [s \in Serials |-> MergeBattery(b.batteries[s], c.batteries[s])]
        /\ bc.bank = Newest(b.bank, c.bank)
        /\ bc.updatedAt = c.updatedAt
    BY <1>1 DEF Merge
  <2>4. \A s \in Serials :
          MergeBattery(ab.batteries[s], c.batteries[s])
            = MergeBattery(a.batteries[s], bc.batteries[s])
    <3> TAKE s \in Serials
    <3>1. /\ a.batteries[s] \in Battery /\ b.batteries[s] \in Battery
          /\ c.batteries[s] \in Battery
      BY <2>1 DEF Readings, Battery
    <3>2. /\ ab.batteries[s] = MergeBattery(a.batteries[s], b.batteries[s])
          /\ bc.batteries[s] = MergeBattery(b.batteries[s], c.batteries[s])
      BY <2>2, <2>3
    <3> HIDE DEF ab, bc
    <3> QED BY <3>1, <3>2, MergeBatteryAssociative
  <2>5. Newest(ab.bank, c.bank) = Newest(a.bank, bc.bank)
    BY <2>1, <2>2, <2>3, NewestAssociative DEF Readings
  <2> HIDE DEF ab, bc
  <2>6. Merge(ab, c) = [batteries |-> [s \in Serials |->
                                   MergeBattery(ab.batteries[s], c.batteries[s])],
                        bank |-> Newest(ab.bank, c.bank), updatedAt |-> c.updatedAt]
    BY <2>1 DEF Merge, ab
  <2>7. Merge(a, bc) = [batteries |-> [s \in Serials |->
                                   MergeBattery(a.batteries[s], bc.batteries[s])],
                        bank |-> Newest(a.bank, bc.bank), updatedAt |-> bc.updatedAt]
    BY <1>3 DEF Merge
  <2>8. Merge(ab, c) = Merge(a, bc)
    BY <2>3, <2>4, <2>5, <2>6, <2>7
  <2> QED BY <2>8 DEF ab, bc
<1> QED BY <1>2, <1>3

-----------------------------------------------------------------------------
(* The invariant, preserved by each action.                                *)

IInv == TypeOK /\ FreshestWins /\ CellsAgeIsTheirOwn /\ BatchingAgrees

\* The reading a poll produces.
Latest(answers, fields, bank) ==
    [batteries |-> [s \in Serials |->
        IF s \in answers THEN Observed(polls + 1, fields[s]) ELSE Nothing],
     bank |-> [f \in BankFields |-> IF f \in bank THEN polls + 1 ELSE 0],
     updatedAt |-> polls + 1]

LEMMA LatestType ==
    ASSUME polls \in Nat, NEW answers \in SUBSET Serials,
           NEW fields \in [Serials -> SUBSET AllFields], NEW bank \in SUBSET BankFields
    PROVE  Latest(answers, fields, bank) \in Readings
<1>1. \A s \in Serials : Observed(polls + 1, fields[s]) \in Batteries
  BY DEF Observed, Batteries
<1> QED BY <1>1 DEF Latest, Readings

\* What one battery's entry says after a poll in which it answered or not.
LEMMA MergedEntry ==
    ASSUME NEW old \in Battery, NEW t \in Nat \ {0}, NEW fs \in SUBSET AllFields
    PROVE  LET new == MergeBattery(old, Observed(t, fs))
               was(f) == IF old = Nothing THEN 0 ELSE old.data[f]
           IN  /\ new # Nothing
               /\ \A f \in AllFields : new.data[f] = IF f \in fs THEN t ELSE was(f)
               /\ new.cellsAt = IF Cells \in fs THEN t
                                ELSE IF old = Nothing THEN 0 ELSE old.cellsAt
<1> DEFINE obs == Observed(t, fs)
<1>1. /\ obs \in Batteries /\ obs # Nothing
      /\ \A f \in AllFields : obs.data[f] = IF f \in fs THEN t ELSE 0
      /\ obs.cellsAt = IF Cells \in fs THEN t ELSE 0
  <2>1. obs \in Batteries
    BY DEF Observed, Batteries
  <2> QED BY <2>1, MergeAssumption DEF Observed
<1>2. Cells \in AllFields
  BY DEF AllFields
<1> HIDE DEF obs
<1>3. CASE old = Nothing
  <2>1. MergeBattery(old, obs) = obs
    BY <1>1, <1>3 DEF MergeBattery
  <2> QED BY <1>1, <1>3, <2>1 DEF obs
<1>4. CASE old # Nothing
  <2>1. old \in Batteries
    BY <1>4 DEF Battery
  <2>2. MergeBattery(old, obs) =
          [data |-> Newest(old.data, obs.data), cellsAt |-> CellsAt(old, obs),
           updatedAt |-> obs.updatedAt]
    BY <1>1, <1>4 DEF MergeBattery
  <2>3. MergeBattery(old, obs) # Nothing
    <3>1. MergeBattery(old, obs) \in Batteries
      BY <1>1, <2>1, <2>2, NewestType DEF Batteries, CellsAt
    <3> QED BY <3>1, MergeAssumption
  <2>4. \A f \in AllFields :
          Newest(old.data, obs.data)[f] = IF f \in fs THEN t ELSE old.data[f]
    BY <1>1, <2>1 DEF Newest, Batteries
  <2>5. CellsAt(old, obs) = IF Cells \in fs THEN t ELSE old.cellsAt
    BY <1>1, <1>2 DEF CellsAt
  <2> QED BY <1>4, <2>2, <2>3, <2>4, <2>5 DEF obs
<1> QED BY <1>3, <1>4

LEMMA InitHolds == Init => IInv
<1> SUFFICES ASSUME Init PROVE IInv
  OBVIOUS
<1>1. polls \in 0..MaxPolls
  BY MergeAssumption DEF Init
<1> QED BY <1>1 DEF Init, IInv, TypeOK, FreshestWins, CellsAgeIsTheirOwn, BatchingAgrees

LEMMA PollHolds ==
    ASSUME IInv, NEW answers \in SUBSET Serials,
           NEW fields \in [Serials -> SUBSET AllFields], NEW bank \in SUBSET BankFields,
           Poll(answers, fields, bank)
    PROVE  IInv'
<1> DEFINE latest == Latest(answers, fields, bank)
           t == polls + 1
<1>1. /\ merged' = Merge(merged, latest) /\ batch' = Merge(batch, latest)
      /\ base' = base /\ polls' = t /\ polls < MaxPolls
      /\ heard' = [s \in Serials |-> [f \in AllFields |->
                      IF s \in answers /\ f \in fields[s] THEN t ELSE heard[s][f]]]
  BY DEF Poll, Latest
<1>2. /\ polls \in Nat /\ t \in Nat \ {0} /\ t \in 0..MaxPolls
      /\ merged \in Reading /\ batch \in Reading /\ base \in Reading
  BY <1>1, MergeAssumption DEF IInv, TypeOK, Reading
<1>3. latest \in Readings
  BY <1>2, LatestType
<1>4. \A s \in Serials : latest.batteries[s] =
          IF s \in answers THEN Observed(t, fields[s]) ELSE Nothing
  BY DEF Latest
<1> HIDE DEF latest
<1>5. merged' \in Readings /\ batch' \in Readings
  BY <1>1, <1>2, <1>3, MergeType
<1>6. merged' # Nothing /\ batch' # Nothing
  BY <1>5, MergeAssumption
<1>7. TypeOK'
  <2>1. heard' \in [Serials -> [AllFields -> 0..t]]
    BY <1>1, <1>2 DEF IInv, TypeOK
  <2> QED BY <1>1, <1>2, <1>5, <1>6, <2>1 DEF TypeOK, Reading
<1>8. \A s \in Serials :
        /\ \A f \in AllFields :
             heard'[s][f] = IF merged'.batteries[s] = Nothing THEN 0
                            ELSE merged'.batteries[s].data[f]
        /\ merged'.batteries[s] # Nothing => merged'.batteries[s].cellsAt = heard'[s][Cells]
  <2> TAKE s \in Serials
  <2> DEFINE old == IF merged = Nothing THEN Nothing ELSE merged.batteries[s]
             new == merged'.batteries[s]
             obs == Observed(t, fields[s])
  <2>1. old \in Battery
    BY <1>2 DEF Reading, Readings, Battery
  <2>2. new = MergeBattery(old, latest.batteries[s])
    BY <1>1, <1>3 DEF Merge, MergeBattery, Readings
  <2>3. /\ \A f \in AllFields : heard[s][f] = IF old = Nothing THEN 0 ELSE old.data[f]
        /\ old # Nothing => old.cellsAt = heard[s][Cells]
    <3>1. CASE merged = Nothing
      BY <3>1 DEF IInv, TypeOK
    <3>2. CASE merged # Nothing
      BY <3>2 DEF IInv, FreshestWins, CellsAgeIsTheirOwn
    <3> QED BY <3>1, <3>2
  <2>4. Cells \in AllFields
    BY DEF AllFields
  <2>5. CASE s \notin answers
    <3>1. new = old
      BY <1>4, <2>2, <2>5 DEF MergeBattery
    <3> QED BY <1>1, <2>3, <2>4, <2>5, <3>1
  <2>6. CASE s \in answers
    <3>1. new = MergeBattery(old, obs)
      BY <1>4, <2>2, <2>6
    <3>2. fields[s] \in SUBSET AllFields
      OBVIOUS
    <3> HIDE DEF old, new
    <3>3. /\ new # Nothing
          /\ \A f \in AllFields : new.data[f] = IF f \in fields[s] THEN t
                                               ELSE IF old = Nothing THEN 0 ELSE old.data[f]
          /\ new.cellsAt = IF Cells \in fields[s] THEN t
                           ELSE IF old = Nothing THEN 0 ELSE old.cellsAt
      BY <1>2, <2>1, <3>1, <3>2, MergedEntry
    <3>4. \A f \in AllFields :
            heard'[s][f] = IF f \in fields[s] THEN t ELSE heard[s][f]
      BY <1>1, <2>6
    <3> QED BY <2>3, <2>4, <3>3, <3>4 DEF new
  <2> QED BY <2>5, <2>6
<1>9. FreshestWins' /\ CellsAgeIsTheirOwn'
  BY <1>8 DEF FreshestWins, CellsAgeIsTheirOwn
<1>10. BatchingAgrees'
  <2>1. CASE batch = Nothing
    BY <1>1, <1>6, <2>1 DEF IInv, BatchingAgrees, Merge
  <2>2. CASE batch # Nothing
    <3>1. batch \in Readings /\ merged = Merge(base, batch)
      BY <1>2, <2>2 DEF IInv, BatchingAgrees, Reading
    <3>2. Merge(Merge(base, batch), latest) = Merge(base, Merge(batch, latest))
      BY <1>2, <1>3, <3>1, MergeAssociative
    <3> QED BY <1>1, <1>6, <3>1, <3>2 DEF BatchingAgrees
  <2> QED BY <2>1, <2>2
<1> QED BY <1>7, <1>9, <1>10 DEF IInv

LEMMA FlushHolds == ASSUME IInv, Flush PROVE IInv'
<1>1. /\ base' = Merge(base, batch) /\ batch' = Nothing /\ batch \in Readings
      /\ base \in Reading /\ UNCHANGED <<merged, heard, polls>>
  BY DEF Flush, IInv, TypeOK, Reading
<1>2. base' \in Readings
  BY <1>1, MergeType
<1>3. merged = Merge(base, batch)
  BY <1>1, MergeAssumption DEF IInv, BatchingAgrees
<1> QED BY <1>1, <1>2, <1>3 DEF IInv, TypeOK, FreshestWins, CellsAgeIsTheirOwn, BatchingAgrees

LEMMA InvariantHolds == Spec => []IInv
<1>1. IInv /\ [Next]_vars => IInv'
  <2> SUFFICES ASSUME IInv, [Next]_vars PROVE IInv'
    OBVIOUS
  <2>1. CASE UNCHANGED vars
    BY <2>1 DEF vars, IInv, TypeOK, FreshestWins, CellsAgeIsTheirOwn, BatchingAgrees
  <2>2. CASE Next
    BY <2>2, PollHolds, FlushHolds DEF Next
  <2> QED BY <2>1, <2>2
<1> QED BY <1>1, InitHolds, PTL DEF Spec

\* What is known of a bank is well formed at every moment.
THEOREM MergeTypeCorrect == Spec => []TypeOK
<1>1. IInv => TypeOK
  BY DEF IInv
<1> QED BY <1>1, InvariantHolds, PTL

\* Each field shows the last poll that observed it, whatever was missed since.
THEOREM MergeFreshest == Spec => []FreshestWins
<1>1. IInv => FreshestWins
  BY DEF IInv
<1> QED BY <1>1, InvariantHolds, PTL

\* The time shown with the cells is theirs, however old they are.
THEOREM MergeCellsAge == Spec => []CellsAgeIsTheirOwn
<1>1. IInv => CellsAgeIsTheirOwn
  BY DEF IInv
<1> QED BY <1>1, InvariantHolds, PTL

\* Merging polls as they come, or held back and together, is the same.
THEOREM MergeBatching == Spec => []BatchingAgrees
<1>1. IInv => BatchingAgrees
  BY DEF IInv
<1> QED BY <1>1, InvariantHolds, PTL

=============================================================================
