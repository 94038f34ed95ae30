----------------------------- MODULE CommandLine -----------------------------
(***************************************************************************)
(* The program tensite-bms-ble (cli.py): it scans for a battery with       *)
(* async_discover_clusters of client.py, as often as it is told to, reads  *)
(* the bank through the battery it chose, and ends with a status.  It has  *)
(* one call of async_read, by the reader Cli of ClusterRead.               *)
(*                                                                         *)
(* A scan and the choice made of it are two actions, where the code has no *)
(* await between them; the program does nothing in between in either.      *)
(***************************************************************************)
EXTENDS ClusterRead, SequencesExt

CONSTANTS
    Cli,        \* the program's reader
    Strengths,  \* the dBm an advertisement may be received at
    Unknown,    \* an rssi of None
    Silent,     \* a battery no advertisement of which is received
    Attempts    \* --scan-attempts

ASSUME CommandAssumption ==
    /\ Readers = {Cli} /\ Attempts \in Nat
    /\ Strengths \subseteq (-998)..0 /\ Unknown \notin Strengths

VARIABLES
    wish,         \* what the arguments ask for
    stage,        \* where in _run the program is
    attempt,      \* the scans _resolve has begun
    found,        \* what the scan found, empty once _resolve is done with it
    met,          \* whether some scan received what the arguments ask for
    interrupted,  \* whether Ctrl-C was pressed in time
    status        \* how the program ended

search == <<attempt, found, met>>
ending == <<interrupted, status>>
commandVars == <<vars, wish, stage, search, ending>>

\* A battery by its address or serial, the first that is found, or a list.
Wishes == [by : {"address", "serial"}, of : Serials] \cup [by : {"any", "list"}, of : {NoBattery}]

\* A DiscoveredCluster: whether its serial is known, and its rssi.
Clusters == [of : Serials, named : BOOLEAN, rssi : Strengths \cup {Unknown}]

CommandTypeOK ==
    /\ TypeOK
    /\ wish \in Wishes
    /\ stage \in {"scanning", "choosing", "reading", "done"}
    /\ attempt \in 0..Attempts
    /\ ToSet(found) \subseteq Clusters /\ Len(found) <= Cardinality(Serials)
    /\ met \in BOOLEAN /\ interrupted \in BOOLEAN
    /\ status \in {"none", "0", "1", "130", "traceback"}
    /\ (stage = "done") <=> (status # "none")
    /\ (stage = "reading") => (at[Cli] # NoBattery)

-----------------------------------------------------------------------------
(* Discovery.                                                              *)

\* An advertisement has the maker's data, or a local name that is a serial,
\* or both, or neither.
Adverts == [maker : BOOLEAN, named : BOOLEAN, rssi : Strengths \cup {Unknown}]

IsTensite(adv) == adv.maker \/ adv.named

BugStrength(cluster) == IF cluster.rssi = Unknown THEN 0 ELSE cluster.rssi

\* The sort key of _collect.
Strength(cluster) == IF cluster.rssi = Unknown THEN -999 ELSE cluster.rssi

\* _collect: the lists it may make of what was received, by battery.  Equally
\* strong ones stay in the order in which they were first received.
Collected(received) ==
    LET tensite == {b \in Serials : received[b] # Silent /\ IsTensite(received[b])}
        clusters == {[of |-> b, named |-> received[b].named, rssi |-> received[b].rssi] :
                        b \in tensite}
    IN  {list \in SetToSeqs(clusters) :
            \A i, j \in DOMAIN list : i < j => Strength(list[i]) >= Strength(list[j])}

\* What the arguments ask for is received.
Meets(b, adv) ==
    CASE wish.by = "address" -> b = wish.of /\ IsTensite(adv)
      [] wish.by = "serial"  -> b = wish.of /\ adv.named
      [] OTHER               -> IsTensite(adv)

-----------------------------------------------------------------------------
(* The program.                                                            *)

CommandInit ==
    /\ Init
    /\ wish \in Wishes
    /\ stage = "scanning"
    /\ attempt = 0 /\ found = <<>> /\ met = FALSE
    /\ interrupted = FALSE /\ status = "none"

BugOneTooFew == attempt + 1 < Attempts
BugOneTooMany == attempt <= Attempts

\* The loop of _resolve; a list takes one scan.
AttemptsLeft == attempt < Attempts

\* A scan ends; any battery can be absent from it.
Scan ==
    /\ stage = "scanning"
    /\ \/ wish.by = "list" /\ UNCHANGED attempt
       \/ wish.by # "list" /\ AttemptsLeft /\ attempt' = attempt + 1
    /\ \E received \in [Serials -> Adverts \cup {Silent}] :
         /\ found' \in Collected(received)
         /\ met' = (met \/ \E b \in Serials : received[b] # Silent /\ Meets(b, received[b]))
    /\ stage' = "choosing"
    /\ UNCHANGED <<vars, wish, ending>>

BugMatches(cluster) == wish.by = "address" => cluster.of = wish.of

\* wanted in (address, serial); anything will do if nothing is asked for.
Matches(cluster) ==
    /\ wish.by \in {"address", "serial"} => cluster.of = wish.of
    /\ wish.by = "serial" => cluster.named

Ended(how) == stage' = "done" /\ status' = how

\* --scan
List ==
    /\ stage = "choosing" /\ wish.by = "list"
    /\ Ended(IF found = <<>> THEN "1" ELSE "0")
    /\ found' = <<>>
    /\ UNCHANGED <<vars, wish, attempt, met, interrupted>>

\* The first match is read, with its serial if that was received.
Choose ==
    /\ stage = "choosing" /\ wish.by # "list"
    /\ LET i == SelectInSeq(found, Matches)
       IN  /\ i # 0
           /\ Call(Cli, found[i].of, found[i].named)
    /\ stage' = "reading" /\ found' = <<>>
    /\ UNCHANGED <<wish, attempt, met, ending>>

ScanAgain ==
    /\ stage = "choosing" /\ wish.by # "list"
    /\ SelectInSeq(found, Matches) = 0
    /\ stage' = "scanning" /\ found' = <<>>
    /\ UNCHANGED <<vars, wish, attempt, met, ending>>

\* TensiteError, reported by main.
NotFound ==
    /\ stage = "scanning" /\ wish.by # "list" /\ ~AttemptsLeft
    /\ Ended("1")
    /\ UNCHANGED <<vars, wish, search, interrupted>>

\* Errors of bleak are no TensiteError: they leave main.
ScanFails ==
    /\ stage = "scanning" /\ (wish.by = "list" \/ AttemptsLeft)
    /\ Ended("traceback")
    /\ UNCHANGED <<vars, wish, search, interrupted>>

Read ==
    /\ stage = "reading"
    /\ AwaitEnds(Cli)
    /\ UNCHANGED <<wish, stage, search, ending>>

BugExit(how) == IF how = "returned" THEN "0" ELSE IF how = "noData" THEN "1" ELSE "traceback"

\* What main makes of the end of async_read.  A cancelled call becomes
\* KeyboardInterrupt on its way out of asyncio.run.
Exit(how) ==
    CASE how = "returned" -> "0"
      [] how = "noData"   -> "1"
      [] how = "raised"   -> IF interrupted THEN "130" ELSE "traceback"

ReadEnded ==
    /\ stage = "reading" /\ pc[Cli] \in Finished
    /\ Ended(Exit(pc[Cli]))
    /\ UNCHANGED <<vars, wish, search, interrupted>>

\* Ctrl-C cancels what is awaited: the scan, or the call the read is at.
InterruptScan ==
    /\ stage = "scanning" /\ (wish.by = "list" \/ AttemptsLeft)
    /\ interrupted' = TRUE /\ Ended("130")
    /\ UNCHANGED <<vars, wish, search>>

InterruptRead ==
    /\ stage = "reading"
    /\ \/ ConnectFails(Cli) \/ OpenFails(Cli)
       \/ ListenCancelled(Cli) \/ DisconnectCancelled(Cli)
    /\ faults' = faults + 1
    /\ interrupted' = TRUE
    /\ UNCHANGED <<wish, stage, search, status>>

Surroundings ==
    /\ LinkStep(Cli) \/ \E b \in Serials : OtherApp(b)
    /\ UNCHANGED <<wish, stage, search, ending>>

Program ==
    \/ Scan \/ List \/ Choose \/ ScanAgain \/ NotFound \/ ScanFails
    \/ Read \/ ReadEnded

CommandNext == Program \/ InterruptScan \/ InterruptRead \/ Surroundings

CommandSpec == CommandInit /\ [][CommandNext]_commandVars

\* What is awaited returns or raises, and the listen timeout fires.
FairCommand == CommandSpec /\ WF_commandVars(Program)

ReadSpec == Spec

-----------------------------------------------------------------------------
(* Properties.                                                             *)

\* Nothing is said not to be found unless every scan that was asked for was
\* made, and none of them received it; and a list is not empty by mistake.
GivenUpUnheard ==
    status = "1" /\ at[Cli] = NoBattery =>
        /\ ~met
        /\ wish.by # "list" => attempt = Attempts

\* The battery read is the one asked for; one asked for by its serial is sent
\* the request frame, which needs the serial.
RightBattery ==
    at[Cli] # NoBattery /\ wish.by \in {"address", "serial"} =>
        /\ at[Cli] = wish.of
        /\ wish.by = "serial" => asks[Cli]

\* "Strongest signal first": if any will do, no battery that was received at a
\* known strength is passed over for a weaker one, or for an unknown strength.
StrongestOfAll ==
    [][wish.by = "any" =>
        \A c \in ToSet(found), o \in ToSet(found) :
            at'[Cli] = c.of /\ o.rssi # Unknown => c.rssi # Unknown /\ c.rssi >= o.rssi]_commandVars

\* Ctrl-C is what the program reports, whichever call it interrupts and
\* however the teardown goes; and 0 says that there is a reading or a list.
StatusTells ==
    stage = "done" =>
        /\ status = "130" <=> interrupted
        /\ status = "0" => pc[Cli] = "returned" \/ (wish.by = "list" /\ met)

\* The program ends, whatever it is asked for and whatever fails.
ProgramEnds == <>(stage = "done")
=============================================================================
