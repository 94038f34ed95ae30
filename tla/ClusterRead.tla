----------------------------- MODULE ClusterRead -----------------------------
(***************************************************************************)
(* The one-shot poll of client.py: TensiteClusterClient.async_read.        *)
(*                                                                         *)
(* Each reader is a call, with a client and an assembler of its own.  An   *)
(* action is what the code does from one await to the next, or what the    *)
(* link (external) does: bleak connects if the battery has its one slot    *)
(* free, delivers frames to a subscribed client, may drop the link, and    *)
(* any awaited call may raise or be cancelled, MaxFaults times.            *)
(***************************************************************************)
EXTENDS Integers, FiniteSets

CONSTANTS
    Readers,     \* calls of async_read
    Serials,     \* the batteries of the bank
    NoBattery,   \* none of them
    Expect,      \* the expect argument; 0 stands for None
    MaxFaults    \* bound: calls that raise, cancellations and drops

ASSUME ReadAssumption ==
    /\ Expect \in Nat /\ MaxFaults \in Nat
    /\ IsFiniteSet(Serials) /\ NoBattery \notin Serials

VARIABLES
    pc,        \* the await each reader is at, or how it ended
    at,        \* per reader, the battery it was given to connect to
    asks,      \* per reader, whether it was given that battery's serial
    busy,      \* the batteries whose slot some other program holds
    links,     \* the readers whose client has its link up
    notified,  \* the readers whose client delivers notifications
    seen,      \* per reader and battery, what its assembler has decoded
    enough,    \* per reader, the Event enough
    timedOut,  \* per reader, whether the listen timeout ended the wait
    outcome,   \* per reader, how the body of the try ended
    spoiled,   \* the readers whose disconnect raised or was cancelled
    faults

given == <<at, asks>>
heard == <<seen, enough>>
vars == <<pc, given, busy, links, notified, heard, timedOut, outcome, spoiled, faults>>

Labels == {"idle", "connecting", "subscribing", "writing", "listening", "stopping",
           "disconnecting", "returned", "noData", "raised"}
Finished == {"returned", "noData", "raised"}

\* What a poll waits for from each battery.
Pieces == {"summary", "cells"}

TypeOK ==
    /\ pc \in [Readers -> Labels]
    /\ at \in [Readers -> Serials \cup {NoBattery}] /\ asks \in [Readers -> BOOLEAN]
    /\ busy \subseteq Serials
    /\ links \subseteq Readers /\ notified \subseteq links
    /\ seen \in [Readers -> [Serials -> SUBSET Pieces]]
    /\ enough \in [Readers -> BOOLEAN] /\ timedOut \in [Readers -> BOOLEAN]
    /\ outcome \in [Readers -> {"none", "ok", "error"}]
    /\ spoiled \subseteq Readers
    /\ faults \in 0..MaxFaults

-----------------------------------------------------------------------------
\* _is_complete on every battery: complete_count().
BugComplete(pieces) == {s \in Serials : pieces[s] # {}}
Complete(pieces) == {s \in Serials : pieces[s] = Pieces}

\* The batteries reading() includes; it is None if there are none.
Usable(pieces) == {s \in Serials : pieces[s] # {}}

Init ==
    /\ pc = [r \in Readers |-> "idle"]
    /\ at = [r \in Readers |-> NoBattery] /\ asks = [r \in Readers |-> FALSE]
    /\ busy = {} /\ links = {} /\ notified = {} /\ spoiled = {} /\ faults = 0
    /\ seen = [r \in Readers |-> [s \in Serials |-> {}]]
    /\ enough = [r \in Readers |-> FALSE]
    /\ timedOut = [r \in Readers |-> FALSE]
    /\ outcome = [r \in Readers |-> "none"]

Fault == faults < MaxFaults /\ faults' = faults + 1

Go(r, label) == pc' = [pc EXCEPT ![r] = label]

\* A client for battery b is made, with or without its serial, and async_read
\* called on it.
Call(r, b, knows) ==
    /\ pc[r] = "idle"
    /\ at' = [at EXCEPT ![r] = b] /\ asks' = [asks EXCEPT ![r] = knows]
    /\ Go(r, "connecting")
    /\ UNCHANGED <<busy, links, notified, heard, timedOut, outcome, spoiled, faults>>

\* The gateway accepts one central at a time.
Taken(b) == b \in busy \/ \E r \in links : at[r] = b

\* Another program connects to battery b, or leaves it.
OtherApp(b) ==
    /\ \/ ~Taken(b) /\ busy' = busy \cup {b}
       \/ b \in busy /\ busy' = busy \ {b}
    /\ UNCHANGED <<pc, given, links, notified, heard, timedOut, outcome, spoiled, faults>>

\* async_connect.  A connect that fails or is cancelled leaves no link, bleak
\* sees to that.
Connected(r) ==
    /\ pc[r] = "connecting" /\ ~Taken(at[r])
    /\ links' = links \cup {r}
    /\ Go(r, "subscribing")
    /\ UNCHANGED <<given, busy, notified, heard, timedOut, outcome, spoiled, faults>>

ConnectFails(r) ==
    /\ pc[r] = "connecting"
    /\ \/ Taken(at[r]) /\ UNCHANGED faults
       \/ Fault
    /\ Go(r, "raised")
    /\ UNCHANGED <<given, busy, links, notified, heard, timedOut, outcome, spoiled>>

\* start_notify and write_gatt_char return, on a link that is still up.
Subscribed(r) ==
    /\ pc[r] = "subscribing" /\ r \in links
    /\ notified' = notified \cup {r}
    /\ Go(r, IF asks[r] THEN "writing" ELSE "listening")
    /\ UNCHANGED <<given, busy, links, heard, timedOut, outcome, spoiled, faults>>

Requested(r) ==
    /\ pc[r] = "writing" /\ r \in links
    /\ Go(r, "listening")
    /\ UNCHANGED <<given, busy, links, notified, heard, timedOut, outcome, spoiled, faults>>

BugOnError(r) == Go(r, "raised")

\* An exception leaves the try: the finally disconnects.
OnError(r) == Go(r, "disconnecting")

\* Either call raises: the link is gone, or a fault; or the read is cancelled.
OpenFails(r) ==
    /\ pc[r] \in {"subscribing", "writing"}
    /\ \/ r \notin links /\ UNCHANGED faults
       \/ Fault
    /\ outcome' = [outcome EXCEPT ![r] = "error"]
    /\ OnError(r)
    /\ UNCHANGED <<given, busy, links, notified, heard, timedOut, spoiled>>

\* _on_notify: a frame of battery s carries piece p.  It is heard as long as
\* the client delivers notifications, also while the read is being torn down.
Notify(r, s, p) ==
    /\ r \in notified
    /\ LET now == [seen[r] EXCEPT ![s] = @ \cup {p}]
       IN  /\ seen' = [seen EXCEPT ![r] = now]
           /\ enough' = [enough EXCEPT ![r] =
                 @ \/ (Expect > 0 /\ Cardinality(Complete(now)) >= Expect)]
    /\ UNCHANGED <<pc, given, busy, links, notified, timedOut, outcome, spoiled, faults>>

HeardEnough(r) ==
    /\ pc[r] = "listening" /\ enough[r]
    /\ Go(r, "stopping")
    /\ UNCHANGED <<given, busy, links, notified, heard, timedOut, outcome, spoiled, faults>>

BugTimeout(r) == pc[r] = "listening" /\ enough[r]

TimeIsUp(r) == pc[r] = "listening"

ListenTimesOut(r) ==
    /\ TimeIsUp(r)
    /\ timedOut' = [timedOut EXCEPT ![r] = TRUE]
    /\ Go(r, "stopping")
    /\ UNCHANGED <<given, busy, links, notified, heard, outcome, spoiled, faults>>

\* A cancellation of the wait or of stop_notify: not an Exception, so neither
\* except clause stops it.
ListenCancelled(r) ==
    /\ pc[r] \in {"listening", "stopping"}
    /\ Fault
    /\ outcome' = [outcome EXCEPT ![r] = "error"]
    /\ OnError(r)
    /\ UNCHANGED <<given, busy, links, notified, heard, timedOut, spoiled>>

\* stop_notify returns, or raises and is ignored.
NotifyStopped(r) ==
    /\ pc[r] = "stopping"
    /\ \/ notified' = notified \ {r} /\ UNCHANGED faults
       \/ Fault /\ UNCHANGED notified
    /\ outcome' = [outcome EXCEPT ![r] = "ok"]
    /\ Go(r, "disconnecting")
    /\ UNCHANGED <<given, busy, links, heard, timedOut, spoiled>>

\* After the finally, the exception goes on; otherwise there is a reading, or
\* TensiteNoDataError.
Conclude(r) ==
    Go(r, IF outcome[r] = "error" THEN "raised"
          ELSE IF Usable(seen[r]) = {} THEN "noData" ELSE "returned")

Disconnected(r) ==
    /\ pc[r] = "disconnecting"
    /\ links' = links \ {r} /\ notified' = notified \ {r}
    /\ Conclude(r)
    /\ UNCHANGED <<given, busy, heard, timedOut, outcome, spoiled, faults>>

\* disconnect raises, which is ignored, or is cancelled, which is not; the
\* link may have stayed up.
DisconnectFails(r) ==
    /\ pc[r] = "disconnecting" /\ Fault
    /\ spoiled' = spoiled \cup {r}
    /\ Conclude(r)
    /\ UNCHANGED <<given, busy, links, notified, heard, timedOut, outcome>>

DisconnectCancelled(r) ==
    /\ pc[r] = "disconnecting" /\ Fault
    /\ spoiled' = spoiled \cup {r}
    /\ Go(r, "raised")
    /\ UNCHANGED <<given, busy, links, notified, heard, timedOut, outcome>>

\* No disconnect callback is given: nothing but the timeout notices a drop.
LinkDrops(r) ==
    /\ r \in links /\ Fault
    /\ links' = links \ {r} /\ notified' = notified \ {r}
    /\ UNCHANGED <<pc, given, busy, heard, timedOut, outcome, spoiled>>

AwaitEnds(r) ==
    \/ Connected(r) \/ ConnectFails(r) \/ Subscribed(r) \/ Requested(r)
    \/ OpenFails(r) \/ HeardEnough(r) \/ ListenTimesOut(r)
    \/ NotifyStopped(r) \/ Disconnected(r) \/ DisconnectFails(r)

ReaderStep(r) == AwaitEnds(r) \/ ListenCancelled(r) \/ DisconnectCancelled(r)

LinkStep(r) ==
    \/ \E s \in Serials, p \in Pieces : Notify(r, s, p)
    \/ LinkDrops(r)

Next ==
    \/ \E r \in Readers :
         \/ \E b \in Serials, knows \in BOOLEAN : Call(r, b, knows)
         \/ ReaderStep(r) \/ LinkStep(r)
    \/ \E b \in Serials : OtherApp(b)

Spec == Init /\ [][Next]_vars

-----------------------------------------------------------------------------
(* Properties.                                                             *)

\* However a read ends, the gateway's slot is given back ("a failed read must
\* not leak the connection slot"), unless disconnect itself did not finish.
LinkGivenBack == \A r \in links : pc[r] \in Finished => r \in spoiled

\* A read that did not wait out its timeout has a summary and the cells of as
\* many batteries as it was asked for, though frames keep coming meanwhile.
EarlyIsComplete ==
    \A r \in Readers :
        pc[r] \in {"returned", "noData"} /\ ~timedOut[r] =>
            /\ pc[r] = "returned"
            /\ Expect > 0
            /\ Cardinality({s \in Serials : seen[r][s] = Pieces}) >= Expect

\* "Connected successfully but no cell frames arrived before the timeout" is
\* an error: a reading that is returned has somebody's cells.
NoCellsIsAnError ==
    \A r \in Readers :
        pc[r] = "returned" => \E s \in Serials : "cells" \in seen[r][s]

=============================================================================
