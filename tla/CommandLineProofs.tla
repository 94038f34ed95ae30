-------------------------- MODULE CommandLineProofs --------------------------
(***************************************************************************)
(* Theorems about the program, for any bank, any number of scan attempts   *)
(* and any faults.                                                         *)
(***************************************************************************)
EXTENDS CommandLine, ClusterReadProofs, SequenceTheorems, FoldFacts

-----------------------------------------------------------------------------
(* What a scan finds, and the first match of it.                           *)

LEMMA FirstMatch ==
    ASSUME NEW list \in Seq(Clusters)
    PROVE  LET i == SelectInSeq(list, Matches)
           IN  /\ i # 0 => /\ i \in DOMAIN list /\ list[i] \in Clusters /\ Matches(list[i])
                           /\ \A j \in DOMAIN list : Matches(list[j]) => i =< j
               /\ i = 0 => \A j \in DOMAIN list : ~Matches(list[j])
<1> DEFINE I == {i \in 1..Len(list) : Matches(list[i])}
<1>1. SelectInSeq(list, Matches) = IF I # {} THEN Min(I) ELSE 0
  BY DEF SelectInSeq
<1>2. CASE I = {}
  BY <1>1, <1>2
<1>3. CASE I # {}
  <2>1. I \in SUBSET Nat
    OBVIOUS
  <2>2. Min(I) \in I /\ \A j \in I : Min(I) =< j
    <3> HIDE DEF I
    <3> QED BY <1>3, <2>1, LeastIsMin
  <2> QED BY <1>1, <1>3, <2>2
<1> QED BY <1>2, <1>3

\* The strongest first, and every battery once.
Sorted(list) ==
    \A i, j \in DOMAIN list :
        /\ i < j => Strength(list[i]) >= Strength(list[j])
        /\ list[i].of = list[j].of => i = j

\* A list made of what was received is one of clusters, and has every battery
\* that is recognised.
LEMMA CollectedHolds ==
    ASSUME NEW received \in [Serials -> Adverts \cup {Silent}], NEW list \in Collected(received)
    PROVE  /\ list \in Seq(Clusters) /\ Len(list) <= Cardinality(Serials)
           /\ \A b \in Serials : received[b] # Silent /\ IsTensite(received[b]) =>
                \E i \in DOMAIN list :
                    list[i].of = b /\ list[i].named = received[b].named
           /\ \A i \in DOMAIN list :
                LET b == list[i].of
                IN  b \in Serials /\ received[b] # Silent /\ IsTensite(received[b])
           /\ Sorted(list)
<1> DEFINE tensite == {b \in Serials : received[b] # Silent /\ IsTensite(received[b])}
           cluster == [b \in tensite |->
                        [of |-> b, named |-> received[b].named, rssi |-> received[b].rssi]]
           clusters == {cluster[b] : b \in tensite}
           D == 1..Cardinality(clusters)
<1>1. \A b \in tensite : cluster[b] \in Clusters
  BY DEF Clusters, Adverts
<1>2. /\ IsFiniteSet(clusters) /\ Cardinality(clusters) \in Nat
      /\ Cardinality(clusters) <= Cardinality(Serials)
  <2>1. IsFiniteSet(tensite) /\ Cardinality(tensite) <= Cardinality(Serials)
    BY ReadAssumption, FS_Subset, tensite \subseteq Serials
  <2>2. cluster \in Surjection(tensite, clusters)
    BY DEF Surjection
  <2> HIDE DEF tensite, clusters, cluster
  <2>3. IsFiniteSet(clusters) /\ Cardinality(clusters) <= Cardinality(tensite)
    BY <2>1, <2>2, FS_Surjection
  <2>4. /\ Cardinality(clusters) \in Nat /\ Cardinality(tensite) \in Nat
        /\ Cardinality(Serials) \in Nat
    BY <2>1, <2>3, ReadAssumption, FS_CardinalityType
  <2> QED BY <2>1, <2>3, <2>4
<1>3. list \in [D -> clusters] /\ \A i, j \in D : i # j => list[i] # list[j]
  BY DEF Collected, SetToSeqs
<1>4. \A c \in clusters : \E i \in D : list[i] = c
  <2>1. list \in Injection(D, clusters)
    BY <1>3 DEF Injection, IsInjective
  <2>2. Cardinality(D) = Cardinality(clusters)
    BY <1>2, FS_Interval
  <2>3. list \in Surjection(D, clusters)
    BY <1>2, <2>1, <2>2, FS_Injection
  <2> QED BY <2>3 DEF Surjection
<1>5. list \in Seq(Clusters) /\ Len(list) = Cardinality(clusters)
  <2> DEFINE n == Cardinality(clusters)
  <2>1. clusters \subseteq Clusters
    BY <1>1
  <2>2. n \in Nat /\ list \in [1..n -> clusters]
    BY <1>2, <1>3
  <2> HIDE DEF n, clusters
  <2>3. list \in Seq(Clusters) /\ Len(list) = n
    BY <2>1, <2>2
  <2> QED BY <2>3 DEF n
<1>6. DOMAIN list = D
  BY <1>3
<1>7. ASSUME NEW b \in tensite
      PROVE  \E i \in DOMAIN list : list[i].of = b /\ list[i].named = received[b].named
  <2>1. PICK i \in D : list[i] = cluster[b]
    BY <1>4
  <2>2. cluster[b].of = b /\ cluster[b].named = received[b].named
    OBVIOUS
  <2>3. i \in DOMAIN list
    BY <1>6
  <2> HIDE DEF cluster, D
  <2> QED BY <2>1, <2>2, <2>3
<1>8. ASSUME NEW i \in DOMAIN list PROVE list[i].of \in tensite
  <2>1. PICK b \in tensite : list[i] = cluster[b]
    BY <1>3, <1>6
  <2> QED BY <2>1
<1>9. Sorted(list)
  <2>1. \A i, j \in DOMAIN list : i < j => Strength(list[i]) >= Strength(list[j])
    BY DEF Collected
  <2>2. ASSUME NEW i \in D, NEW j \in D, list[i].of = list[j].of PROVE i = j
    <3>1. PICK b \in tensite, c \in tensite : list[i] = cluster[b] /\ list[j] = cluster[c]
      BY <1>3
    <3>2. cluster[b].of = b /\ cluster[c].of = c
      OBVIOUS
    <3> HIDE DEF cluster, tensite, D
    <3> QED BY <1>3, <2>2, <3>1, <3>2
  <2> HIDE DEF clusters, cluster, D
  <2> QED BY <1>6, <2>1, <2>2 DEF Sorted
<1> HIDE DEF clusters, cluster
<1> QED BY <1>2, <1>5, <1>7, <1>8, <1>9
-----------------------------------------------------------------------------
(* The program only makes the calls of ClusterRead.                        *)

\* The variables the search works on.
SearchTypes ==
    /\ wish \in Wishes
    /\ found \in Seq(Clusters) /\ Len(found) <= Cardinality(Serials)
    /\ attempt \in Nat /\ attempt <= Attempts

LEMMA NoneIsFew == Len(<<>>) <= Cardinality(Serials)
BY ReadAssumption, FS_CardinalityType

LEMMA SearchTypesHold == CommandSpec => []SearchTypes
<1> USE CommandAssumption
<1>1. CommandInit => SearchTypes
  BY NoneIsFew DEF CommandInit, SearchTypes
<1>2. SearchTypes /\ [CommandNext]_commandVars => SearchTypes'
  <2> SUFFICES ASSUME SearchTypes, [CommandNext]_commandVars PROVE SearchTypes'
    OBVIOUS
  <2>1. CASE Scan
    <3>1. found' \in Seq(Clusters) /\ Len(found') <= Cardinality(Serials)
      BY <2>1, CollectedHolds DEF Scan
    <3>2. attempt' \in Nat /\ attempt' <= Attempts
      BY <2>1 DEF Scan, SearchTypes, AttemptsLeft
    <3> QED BY <2>1, <3>1, <3>2 DEF Scan, SearchTypes
  <2>2. CASE Program /\ ~Scan
    <3>1. found' \in {found, <<>>} /\ UNCHANGED <<wish, attempt>>
      <4>1. CASE List \/ Choose \/ ScanAgain
        BY <4>1, ZenonT(30) DEF List, Choose, ScanAgain
      <4>2. CASE NotFound \/ ScanFails \/ Read \/ ReadEnded
        BY <4>2, ZenonT(30) DEF NotFound, ScanFails, Read, ReadEnded, search
      <4> QED BY <2>2, <4>1, <4>2 DEF Program
    <3>2. <<>> \in Seq(Clusters) /\ Len(<<>>) <= Cardinality(Serials)
      <4>1. <<>> \in Seq(Clusters)
        OBVIOUS
      <4> QED BY <4>1, NoneIsFew, ZenonT(30)
    <3>3. found' \in Seq(Clusters) /\ Len(found') <= Cardinality(Serials)
      <4>1. CASE found' = found
        BY <4>1 DEF SearchTypes
      <4>2. CASE found' = <<>>
        BY <3>2, <4>2
      <4> QED BY <3>1, <4>1, <4>2
    <3> QED BY <3>1, <3>3 DEF SearchTypes
  <2>3. CASE InterruptScan \/ InterruptRead \/ Surroundings
    BY <2>3 DEF SearchTypes, InterruptScan, InterruptRead, Surroundings, search, ending
  <2>4. CASE UNCHANGED commandVars
    BY <2>4 DEF SearchTypes, commandVars, search, ending
  <2> QED BY <2>1, <2>2, <2>3, <2>4 DEF CommandNext, Program
<1> QED BY <1>1, <1>2, PTL DEF CommandSpec

\* The program is one of the users of async_read: whatever holds of any reads
\* holds of its one.
THEOREM CommandReads == CommandSpec => ReadSpec
<1> USE CommandAssumption
<1>1. CommandInit => Init
  BY DEF CommandInit
<1>2. SearchTypes /\ [CommandNext]_commandVars => [Next]_vars
  <2> SUFFICES ASSUME SearchTypes, [CommandNext]_commandVars PROVE [Next]_vars
    OBVIOUS
  <2>1. CASE Choose
    <3> DEFINE i == SelectInSeq(found, Matches)
    <3>1. i # 0 /\ Call(Cli, found[i].of, found[i].named)
      BY <2>1 DEF Choose
    <3>2. found[i] \in Clusters
      BY ZenonT(30), <3>1, FirstMatch DEF SearchTypes
    <3>3. found[i].of \in Serials /\ found[i].named \in BOOLEAN
      BY <3>2 DEF Clusters
    <3> HIDE DEF i
    <3> QED BY <3>1, <3>3 DEF Next
  <2>2. CASE Read
    BY <2>2 DEF Read, Next, ReaderStep
  <2>3. CASE InterruptRead
    BY <2>3 DEF InterruptRead, Next, ReaderStep, AwaitEnds
  <2>4. CASE Surroundings
    BY <2>4 DEF Surroundings, Next
  <2>5. CASE UNCHANGED vars
    BY <2>5
  <2>6. CASE ScanFails
    BY <2>6 DEF ScanFails
  <2> QED BY <2>1, <2>2, <2>3, <2>4, <2>5, <2>6 DEF CommandNext, Program, Scan, List, ScanAgain,
      NotFound, ReadEnded, InterruptScan, commandVars
<1> QED BY <1>1, <1>2, SearchTypesHold, PTL DEF CommandSpec, ReadSpec, Spec
-----------------------------------------------------------------------------
(* The search is honest and its outcome is what the program reports.       *)

\* How the stages of the program and its read go together.
Stages ==
    /\ stage \in {"scanning", "choosing"} =>
         at[Cli] = NoBattery /\ pc[Cli] = "idle" /\ status = "none" /\ ~interrupted
    /\ stage = "reading" => at[Cli] # NoBattery /\ status = "none"
    /\ stage = "done" => status \in {"0", "1", "130", "traceback"}
    /\ stage \in {"scanning", "choosing", "reading", "done"}

\* What was received is what was found, until the choice is made.
Honest ==
    /\ stage = "scanning" => ~met
    /\ stage = "choosing" =>
         /\ met => \E i \in DOMAIN found : Matches(found[i])
         /\ wish.by = "list" /\ found # <<>> => met

\* A read that was interrupted is on its way to raise, or did.
Cancelled ==
    interrupted /\ stage = "reading" =>
        pc[Cli] = "raised" \/ (pc[Cli] = "disconnecting" /\ outcome[Cli] = "error")

CommandInv == Stages /\ Honest /\ Cancelled /\ GivenUpUnheard /\ RightBattery /\ StatusTells

LEMMA ScanHolds ==
    ASSUME SearchTypes, CommandInv, Scan
    PROVE  CommandInv'
<1>1. PICK received \in [Serials -> Adverts \cup {Silent}] :
         /\ found' \in Collected(received)
         /\ met' = (met \/ \E b \in Serials : received[b] # Silent /\ Meets(b, received[b]))
  BY DEF Scan
<1>2. /\ stage = "scanning" /\ stage' = "choosing"
      /\ UNCHANGED <<pc, at, asks, outcome, wish, interrupted, status>>
  BY DEF Scan, vars, given, ending
<1>3. Stages'
  BY <1>2 DEF CommandInv, Stages
<1>4. ASSUME met' PROVE \E i \in DOMAIN found' : Matches(found'[i])
  <2>1. PICK b \in Serials : received[b] # Silent /\ Meets(b, received[b])
    BY <1>1, <1>2, <1>4 DEF CommandInv, Honest
  <2>2. IsTensite(received[b])
    BY <2>1 DEF Meets, IsTensite
  <2>3. PICK i \in DOMAIN found' : found'[i].of = b /\ found'[i].named = received[b].named
    BY <1>1, <2>1, <2>2, CollectedHolds
  <2>4. Matches(found'[i])
    BY <2>1, <2>3 DEF Meets, Matches
  <2> QED BY <2>4
<1>5. ASSUME wish.by = "list", found' # <<>> PROVE met'
  <2>1. found' \in Seq(Clusters)
    BY <1>1, CollectedHolds
  <2>2. 1 \in DOMAIN found'
    BY <1>5, <2>1
  <2> DEFINE b == found'[1].of
  <2>3. b \in Serials /\ received[b] # Silent /\ IsTensite(received[b])
    BY <1>1, <2>2, CollectedHolds
  <2>4. Meets(b, received[b])
    BY <1>5, <2>3 DEF Meets
  <2> QED BY <1>1, <2>3, <2>4, Zenon
<1>6. Honest'
  BY <1>2, <1>4, <1>5 DEF Honest, Matches
<1> QED BY <1>2, <1>3, <1>6 DEF CommandInv, Stages, Cancelled, GivenUpUnheard, RightBattery, StatusTells

LEMMA ChoiceHolds ==
    ASSUME TypeOK, SearchTypes, CommandInv, List \/ Choose \/ ScanAgain
    PROVE  CommandInv'
<1> USE CommandAssumption
<1> DEFINE i == SelectInSeq(found, Matches)
<1>1. /\ i # 0 => /\ i \in DOMAIN found /\ found[i] \in Clusters /\ Matches(found[i])
                  /\ \A j \in DOMAIN found : Matches(found[j]) => i =< j
      /\ i = 0 => \A j \in DOMAIN found : ~Matches(found[j])
  BY ZenonT(30), FirstMatch DEF SearchTypes
<1>2. CASE List
  BY <1>2 DEF List, Ended, CommandInv, Stages, Honest, Cancelled, GivenUpUnheard, RightBattery,
     StatusTells, vars, given
<1>3. CASE Choose
  <2>1. /\ i # 0 /\ Call(Cli, found[i].of, found[i].named)
        /\ stage = "choosing" /\ stage' = "reading"
        /\ UNCHANGED <<wish, attempt, met, interrupted, status>>
    BY <1>3 DEF Choose, ending
  <2>2. /\ found[i].of \in Serials /\ found[i].named \in BOOLEAN /\ Matches(found[i])
    BY <1>1, <2>1 DEF Clusters
  <2>3. at'[Cli] = found[i].of /\ asks'[Cli] = found[i].named /\ at'[Cli] # NoBattery
    BY <2>1, <2>2, ReadAssumption DEF Call, TypeOK
  <2> HIDE DEF i
  <2> QED BY <2>1, <2>2, <2>3 DEF Matches, CommandInv, Stages, Honest, Cancelled, GivenUpUnheard,
      RightBattery, StatusTells
<1>4. CASE ScanAgain
  <2>1. stage = "choosing" /\ i = 0
    BY <1>4 DEF ScanAgain
  <2>2. \A j \in DOMAIN found : ~Matches(found[j])
    BY <1>1, <2>1
  <2> HIDE DEF i
  <2>3. ~met
    BY <2>1, <2>2 DEF CommandInv, Honest
  <2> QED BY <1>4, <2>3 DEF ScanAgain, CommandInv, Stages, Honest, Cancelled, GivenUpUnheard,
      RightBattery, StatusTells, vars, given, ending
<1> QED BY <1>2, <1>3, <1>4

LEMMA EndingHolds ==
    ASSUME TypeOK, SearchTypes, CommandInv,
           NotFound \/ ScanFails \/ ReadEnded \/ InterruptScan
    PROVE  CommandInv'
<1> USE CommandAssumption DEF vars, given, search, CommandInv, Stages, Honest, Cancelled,
    GivenUpUnheard, RightBattery, StatusTells, Ended
<1>1. CASE NotFound
  <2>1. attempt = Attempts
    BY <1>1 DEF NotFound, AttemptsLeft, SearchTypes
  <2> QED BY <1>1, <2>1 DEF NotFound
<1>2. CASE ScanFails
  BY <1>2 DEF ScanFails
<1>3. CASE ReadEnded
  BY <1>3 DEF ReadEnded, Exit, Finished
<1>4. CASE InterruptScan
  BY <1>4 DEF InterruptScan
<1> QED BY <1>1, <1>2, <1>3, <1>4

LEMMA ReadHolds ==
    ASSUME TypeOK, CommandInv, Read \/ InterruptRead \/ Surroundings
    PROVE  CommandInv'
<1> USE CommandAssumption DEF given, search, ending
<1>1. UNCHANGED <<at, asks, wish, stage, attempt, found, met, status>>
  BY DEF Read, InterruptRead, Surroundings, AwaitEnds, Connected, ConnectFails, Subscribed,
     Requested, OpenFails, HeardEnough, ListenTimesOut, ListenCancelled, NotifyStopped,
     Disconnected, DisconnectFails, DisconnectCancelled, LinkStep, Notify, LinkDrops, OtherApp
<1>2. Cancelled'
  <2>1. CASE Read
    <3> SUFFICES ASSUME interrupted, stage = "reading"
                 PROVE  pc'[Cli] = "raised"
      BY <1>1, <2>1 DEF Read, Cancelled
    <3>1. AwaitEnds(Cli) /\ (pc[Cli] = "raised" \/ (pc[Cli] = "disconnecting" /\ outcome[Cli] = "error"))
      BY <2>1 DEF Read, CommandInv, Cancelled
    <3>2. Conclude(Cli) /\ outcome[Cli] = "error"
      BY <3>1 DEF AwaitEnds, Connected, ConnectFails, Subscribed, Requested, OpenFails,
         HeardEnough, ListenTimesOut, TimeIsUp, NotifyStopped, Disconnected, DisconnectFails
    <3> QED BY <3>2 DEF TypeOK, Conclude, Go
  <2>2. CASE InterruptRead
    BY <2>2 DEF InterruptRead, TypeOK, Cancelled, ConnectFails, OpenFails, ListenCancelled,
       DisconnectCancelled, OnError, Go
  <2>3. CASE Surroundings
    <3>1. UNCHANGED <<pc, outcome, interrupted>>
      BY ZenonT(30), <2>3 DEF Surroundings, LinkStep, Notify, LinkDrops, OtherApp
    <3> QED BY <1>1, <3>1 DEF CommandInv, Cancelled
  <2> QED BY <2>1, <2>2, <2>3
<1>3. stage \in {"scanning", "choosing", "done"} => UNCHANGED <<pc, interrupted>>
  BY ZenonT(30) DEF Read, InterruptRead, Surroundings, LinkStep, Notify, LinkDrops, OtherApp
<1> QED BY <1>1, <1>2, <1>3 DEF CommandInv, Stages, Honest, GivenUpUnheard, RightBattery,
    StatusTells, Matches

LEMMA CommandInvHolds == CommandSpec => []CommandInv
<1>1. CommandInit => CommandInv
  BY CommandAssumption DEF CommandInit, Init, CommandInv, Stages, Honest, Cancelled,
     GivenUpUnheard, RightBattery, StatusTells
<1>2. TypeOK /\ SearchTypes /\ CommandInv /\ [CommandNext]_commandVars => CommandInv'
  <2> SUFFICES ASSUME TypeOK, SearchTypes, CommandInv, [CommandNext]_commandVars
               PROVE  CommandInv'
    OBVIOUS
  <2>1. CASE UNCHANGED commandVars
    BY <2>1 DEF commandVars, vars, given, search, ending, CommandInv, Stages, Honest, Cancelled,
       GivenUpUnheard, RightBattery, StatusTells, Matches
  <2> QED BY <2>1, ScanHolds, ChoiceHolds, EndingHolds, ReadHolds DEF CommandNext, Program
<1>3. CommandSpec => []TypeOK
  BY CommandReads, ReadTypeCorrect, PTL DEF ReadSpec
<1> QED BY <1>1, <1>2, <1>3, SearchTypesHold, PTL DEF CommandSpec

\* Every variable of the program keeps its type, the search's bounds included.
THEOREM CommandTypeCorrect == CommandSpec => []CommandTypeOK
<1> DEFINE Flags == met \in BOOLEAN /\ interrupted \in BOOLEAN
<1>1. CommandInit => Flags
  BY DEF CommandInit
<1>2. Flags /\ [CommandNext]_commandVars => Flags'
  BY DEF CommandNext, Program, Scan, List, Choose, ScanAgain, NotFound, ScanFails, Read,
     ReadEnded, InterruptScan, InterruptRead, Surroundings, commandVars, search, ending
<1>3. TypeOK /\ SearchTypes /\ CommandInv /\ Flags => CommandTypeOK
  <2> SUFFICES ASSUME TypeOK, SearchTypes, CommandInv, Flags PROVE CommandTypeOK
    OBVIOUS
  <2>1. ToSet(found) \subseteq Clusters
    BY DEF SearchTypes, ToSet
  <2>2. attempt \in 0..Attempts
    BY CommandAssumption DEF SearchTypes
  <2>3. /\ stage \in {"scanning", "choosing", "reading", "done"}
        /\ status \in {"none", "0", "1", "130", "traceback"}
        /\ (stage = "done") <=> (status # "none")
        /\ (stage = "reading") => (at[Cli] # NoBattery)
    BY DEF CommandInv, Stages
  <2> QED BY <2>1, <2>2, <2>3 DEF CommandTypeOK, SearchTypes
<1>4. CommandSpec => []TypeOK
  BY CommandReads, ReadTypeCorrect, PTL DEF ReadSpec
<1> QED BY <1>1, <1>2, <1>3, <1>4, SearchTypesHold, CommandInvHolds, PTL DEF CommandSpec

\* Nothing is said not to be found unless all scans were made in vain.
THEOREM NothingIsMissed == CommandSpec => []GivenUpUnheard
<1>1. CommandInv => GivenUpUnheard
  BY DEF CommandInv
<1> QED BY <1>1, CommandInvHolds, PTL

\* The battery read is the one asked for, and with its serial if it was asked
\* for by that.
THEOREM ReadsWhatIsAsked == CommandSpec => []RightBattery
<1>1. CommandInv => RightBattery
  BY DEF CommandInv
<1> QED BY <1>1, CommandInvHolds, PTL

\* An interrupt is what the program reports, and a 0 is never empty-handed.
THEOREM StatusIsTrue == CommandSpec => []StatusTells
<1>1. CommandInv => StatusTells
  BY DEF CommandInv
<1> QED BY <1>1, CommandInvHolds, PTL

\* The program gives the battery's slot back, as any read does.
THEOREM CommandGivesLinkBack == CommandSpec => []LinkGivenBack
BY CommandReads, ReadGivesLinkBack, PTL DEF ReadSpec

\* A reading the program gets before its timeout is as complete as --expect
\* asked for.
THEOREM CommandEarlyIsComplete == CommandSpec => []EarlyIsComplete
BY CommandReads, ReadEarlyIsComplete, PTL DEF ReadSpec

-----------------------------------------------------------------------------
(* Of batteries as good as each other the strongest is read.               *)

\* What is found is in order until the choice is made, and forgotten then.
InOrder ==
    /\ stage \notin {"choosing"} => found = <<>>
    /\ Sorted(found)

LEMMA InOrderHolds == CommandSpec => []InOrder
<1>1. CommandInit => InOrder
  BY DEF CommandInit, InOrder, Sorted
<1>2. InOrder /\ [CommandNext]_commandVars => InOrder'
  <2> SUFFICES ASSUME InOrder, [CommandNext]_commandVars PROVE InOrder'
    OBVIOUS
  <2>1. CASE Scan
    <3>1. Sorted(found')
      BY <2>1, CollectedHolds DEF Scan
    <3> QED BY <2>1, <3>1 DEF Scan, InOrder, Sorted, Strength
  <2>2. CASE List \/ Choose \/ ScanAgain
    BY <2>2 DEF List, Choose, ScanAgain, Ended, InOrder, Sorted
  <2>3. CASE UNCHANGED <<stage, found>>
    BY <2>3 DEF InOrder, Sorted, Strength
  <2>4. CASE stage # "choosing" /\ stage' # "choosing" /\ found' = found
    BY <2>4 DEF InOrder, Sorted
  <2> QED BY <2>1, <2>2, <2>3, <2>4 DEF CommandNext, Program, NotFound, ScanFails, Read, ReadEnded,
      InterruptScan, InterruptRead, Surroundings, commandVars, search, Ended
<1> QED BY <1>1, <1>2, PTL DEF CommandSpec

\* The call of the program's choice is of the first in the list, when any
\* battery will do; whichever is behind it in the list is no stronger.
THEOREM StrongestIsRead == CommandSpec => StrongestOfAll
<1> USE CommandAssumption
<1> DEFINE Prefers ==
        wish.by = "any" =>
            \A c \in ToSet(found), o \in ToSet(found) :
                at'[Cli] = c.of /\ o.rssi # Unknown => c.rssi # Unknown /\ c.rssi >= o.rssi
<1>1. SearchTypes /\ CommandInv /\ InOrder /\ TypeOK /\ [CommandNext]_commandVars => [Prefers]_commandVars
  <2> SUFFICES ASSUME SearchTypes, CommandInv, InOrder, TypeOK, CommandNext, wish.by = "any",
                      NEW k \in DOMAIN found, NEW j \in DOMAIN found,
                      at'[Cli] = found[k].of, found[j].rssi # Unknown
               PROVE  found[k].rssi # Unknown /\ found[k].rssi >= found[j].rssi
    BY DEF ToSet
  <2>1. found \in Seq(Clusters) /\ found[k] \in Clusters /\ found[j] \in Clusters
    BY DEF SearchTypes
  <2>2. stage = "choosing" /\ at[Cli] = NoBattery
    BY DEF InOrder, CommandInv, Stages
  <2>3. at'[Cli] # at[Cli]
    BY <2>1, <2>2, ReadAssumption DEF Clusters
  <2>4. Choose
    <3>1. ~(List \/ ScanAgain \/ Surroundings)
      BY ZenonT(30), <2>3 DEF List, ScanAgain, Surroundings, LinkStep, Notify, LinkDrops, OtherApp, vars, given
    <3>2. ~(Scan \/ NotFound \/ ScanFails \/ Read \/ ReadEnded \/ InterruptScan \/ InterruptRead)
      BY <2>2 DEF Scan, NotFound, ScanFails, Read, ReadEnded, InterruptScan, InterruptRead
    <3> QED BY <3>1, <3>2 DEF CommandNext, Program
  <2> DEFINE i == SelectInSeq(found, Matches)
  <2>5. i # 0 /\ Call(Cli, found[i].of, found[i].named)
    BY <2>4 DEF Choose
  <2>6. i = 1
    <3>1. Matches(found[1]) /\ 1 \in DOMAIN found
      BY <2>1 DEF Matches
    <3>2. i \in DOMAIN found /\ i =< 1
      BY ZenonT(30), <2>1, <2>5, <3>1, FirstMatch
    <3> HIDE DEF i
    <3> QED BY <2>1, <3>2
  <2> HIDE DEF i
  <2>7. k = 1
    <3>1. 1 \in DOMAIN found /\ found[1].of = at'[Cli]
      BY <2>1, <2>5, <2>6 DEF Call, TypeOK
    <3> QED BY <3>1 DEF InOrder, Sorted
  <2>8. found[j].rssi \in Strengths /\ found[j].rssi \in (-998)..0
    BY ZenonT(30), <2>1 DEF Clusters
  <2>9. CASE j = 1
    BY <2>7, <2>8, <2>9
  <2>10. CASE j # 1
    <3>1. Strength(found[1]) >= Strength(found[j])
      BY <2>1, <2>7, <2>10 DEF InOrder, Sorted
    <3>2. Strength(found[j]) = found[j].rssi
      BY DEF Strength
    <3>3. Strength(found[1]) # -999
      BY SMTT(30), <2>8, <3>1, <3>2
    <3> QED BY <2>7, <3>1, <3>2, <3>3 DEF Strength
  <2> QED BY <2>9, <2>10
<1>2. CommandSpec => []TypeOK
  BY CommandReads, ReadTypeCorrect, PTL DEF ReadSpec
<1> QED BY <1>1, <1>2, SearchTypesHold, CommandInvHolds, InOrderHolds, PTL DEF CommandSpec, StrongestOfAll
=============================================================================
