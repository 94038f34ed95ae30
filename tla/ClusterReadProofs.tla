-------------------------- MODULE ClusterReadProofs --------------------------
(***************************************************************************)
(* Theorems about async_read, for any number of concurrent reads, any bank *)
(* and any number of faults.                                               *)
(***************************************************************************)
EXTENDS ClusterRead, FiniteSetTheorems, TLAPS

\* A read past its try has an outcome; one before its client is connected, or
\* that failed to connect, has no link.
Outcomes ==
    \A r \in Readers :
        /\ pc[r] = "disconnecting" => outcome[r] \in {"ok", "error"}
        /\ pc[r] \in {"returned", "noData"} => outcome[r] = "ok"
        /\ pc[r] \in {"idle", "connecting"} => r \notin links

\* What the Event enough stands for.
Full(r) ==
    /\ Expect > 0
    /\ Cardinality({s \in Serials : seen[r][s] = Pieces}) >= Expect

EnoughIsFull == \A r \in Readers : enough[r] => Full(r)

\* A wait that was neither cut short by a fault nor by the timeout ended
\* because enough was set.
StoppedFull ==
    \A r \in Readers :
        ~timedOut[r] /\ (pc[r] = "stopping" \/ outcome[r] = "ok") => enough[r]

USE DEF given, heard

IInv == TypeOK /\ Outcomes /\ EnoughIsFull /\ StoppedFull /\ EarlyIsComplete /\ LinkGivenBack

-----------------------------------------------------------------------------
(* Hearing more never makes a battery less complete.                       *)

LEMMA FullGrows ==
    ASSUME NEW before \in [Serials -> SUBSET Pieces],
           NEW after \in [Serials -> SUBSET Pieces],
           \A s \in Serials : before[s] \subseteq after[s]
    PROVE  Cardinality({s \in Serials : before[s] = Pieces})
             <= Cardinality({s \in Serials : after[s] = Pieces})
<1>1. {s \in Serials : before[s] = Pieces} \subseteq {s \in Serials : after[s] = Pieces}
  OBVIOUS
<1>2. IsFiniteSet({s \in Serials : after[s] = Pieces})
  BY ReadAssumption, FS_Subset, {s \in Serials : after[s] = Pieces} \subseteq Serials
<1> QED BY <1>1, <1>2, FS_Subset

LEMMA CompleteType ==
    ASSUME NEW pieces \in [Serials -> SUBSET Pieces]
    PROVE  Cardinality({s \in Serials : pieces[s] = Pieces}) \in Nat
<1>1. IsFiniteSet({s \in Serials : pieces[s] = Pieces})
  BY ReadAssumption, FS_Subset, {s \in Serials : pieces[s] = Pieces} \subseteq Serials
<1> QED BY <1>1, FS_CardinalityType

LEMMA FullIsUsable ==
    ASSUME TypeOK, NEW r \in Readers, Full(r)
    PROVE  Usable(seen[r]) # {}
<1>1. {s \in Serials : seen[r][s] = Pieces} # {}
  BY FS_EmptySet, ReadAssumption DEF Full
<1> QED BY <1>1 DEF Usable, Pieces

-----------------------------------------------------------------------------
(* The invariant holds at first and is preserved by each action.           *)

LEMMA InitHolds == Init => IInv
BY ReadAssumption DEF Init, IInv, TypeOK, Outcomes, EnoughIsFull, StoppedFull,
   EarlyIsComplete, LinkGivenBack, Labels, Finished

\* Steps that add to no assembler and set no event: enough stays justified.
LEMMA Unheard ==
    ASSUME IInv, UNCHANGED <<seen, enough>>
    PROVE  EnoughIsFull'
BY DEF IInv, EnoughIsFull, Full

LEMMA CallHolds ==
    ASSUME IInv, NEW r \in Readers, NEW b \in Serials, NEW knows \in BOOLEAN, Call(r, b, knows)
    PROVE  IInv'
<1>1. TypeOK'
  BY ReadAssumption DEF IInv, TypeOK, Outcomes, Labels, Call, Go
<1>2. Outcomes'
  BY DEF IInv, TypeOK, Outcomes, Labels, Call, Go
<1>3. EnoughIsFull'
  BY Unheard DEF Call
<1>4. StoppedFull'
  BY DEF IInv, TypeOK, Outcomes, StoppedFull, Labels, Call, Go
<1>5. EarlyIsComplete'
  BY DEF IInv, TypeOK, EarlyIsComplete, Labels, Call, Go
<1>6. LinkGivenBack'
  BY DEF IInv, TypeOK, Outcomes, LinkGivenBack, Labels, Finished, Call, Go
<1> QED BY <1>1, <1>2, <1>3, <1>4, <1>5, <1>6 DEF IInv

LEMMA OtherAppHolds ==
    ASSUME IInv, NEW b \in Serials, OtherApp(b)
    PROVE  IInv'
<1>1. TypeOK'
  BY ReadAssumption DEF IInv, TypeOK, Outcomes, Labels, OtherApp
<1>2. Outcomes'
  BY DEF IInv, TypeOK, Outcomes, Labels, OtherApp
<1>3. EnoughIsFull'
  BY Unheard DEF OtherApp
<1>4. StoppedFull'
  BY DEF IInv, TypeOK, Outcomes, StoppedFull, Labels, OtherApp
<1>5. EarlyIsComplete'
  BY DEF IInv, TypeOK, EarlyIsComplete, Labels, OtherApp
<1>6. LinkGivenBack'
  BY DEF IInv, TypeOK, Outcomes, LinkGivenBack, Labels, Finished, OtherApp
<1> QED BY <1>1, <1>2, <1>3, <1>4, <1>5, <1>6 DEF IInv

LEMMA ConnectedHolds ==
    ASSUME IInv, NEW r \in Readers, Connected(r)
    PROVE  IInv'
<1>1. TypeOK'
  BY ReadAssumption DEF IInv, TypeOK, Outcomes, Labels, Connected, Go
<1>2. Outcomes'
  BY DEF IInv, TypeOK, Outcomes, Labels, Connected, Go
<1>3. EnoughIsFull'
  BY Unheard DEF Connected
<1>4. StoppedFull'
  BY DEF IInv, TypeOK, Outcomes, StoppedFull, Labels, Connected, Go
<1>5. EarlyIsComplete'
  BY DEF IInv, TypeOK, EarlyIsComplete, Labels, Connected, Go
<1>6. LinkGivenBack'
  BY DEF IInv, TypeOK, Outcomes, LinkGivenBack, Labels, Finished, Connected, Go
<1> QED BY <1>1, <1>2, <1>3, <1>4, <1>5, <1>6 DEF IInv

LEMMA ConnectFailsHolds ==
    ASSUME IInv, NEW r \in Readers, ConnectFails(r)
    PROVE  IInv'
<1>1. TypeOK'
  BY ReadAssumption DEF IInv, TypeOK, Outcomes, Labels, ConnectFails, Go, Fault
<1>2. Outcomes'
  BY DEF IInv, TypeOK, Outcomes, Labels, ConnectFails, Go, Fault
<1>3. EnoughIsFull'
  BY Unheard DEF ConnectFails
<1>4. StoppedFull'
  BY DEF IInv, TypeOK, Outcomes, StoppedFull, Labels, ConnectFails, Go, Fault
<1>5. EarlyIsComplete'
  BY DEF IInv, TypeOK, EarlyIsComplete, Labels, ConnectFails, Go, Fault
<1>6. LinkGivenBack'
  BY DEF IInv, TypeOK, Outcomes, LinkGivenBack, Labels, Finished, ConnectFails, Go, Fault
<1> QED BY <1>1, <1>2, <1>3, <1>4, <1>5, <1>6 DEF IInv

LEMMA SubscribedHolds ==
    ASSUME IInv, NEW r \in Readers, Subscribed(r)
    PROVE  IInv'
<1>1. TypeOK'
  BY ReadAssumption DEF IInv, TypeOK, Outcomes, Labels, Subscribed, Go
<1>2. Outcomes'
  BY DEF IInv, TypeOK, Outcomes, Labels, Subscribed, Go
<1>3. EnoughIsFull'
  BY Unheard DEF Subscribed
<1>4. StoppedFull'
  BY DEF IInv, TypeOK, Outcomes, StoppedFull, Labels, Subscribed, Go
<1>5. EarlyIsComplete'
  BY DEF IInv, TypeOK, EarlyIsComplete, Labels, Subscribed, Go
<1>6. LinkGivenBack'
  BY DEF IInv, TypeOK, Outcomes, LinkGivenBack, Labels, Finished, Subscribed, Go
<1> QED BY <1>1, <1>2, <1>3, <1>4, <1>5, <1>6 DEF IInv

LEMMA RequestedHolds ==
    ASSUME IInv, NEW r \in Readers, Requested(r)
    PROVE  IInv'
<1>1. TypeOK'
  BY ReadAssumption DEF IInv, TypeOK, Outcomes, Labels, Requested, Go
<1>2. Outcomes'
  BY DEF IInv, TypeOK, Outcomes, Labels, Requested, Go
<1>3. EnoughIsFull'
  BY Unheard DEF Requested
<1>4. StoppedFull'
  BY DEF IInv, TypeOK, Outcomes, StoppedFull, Labels, Requested, Go
<1>5. EarlyIsComplete'
  BY DEF IInv, TypeOK, EarlyIsComplete, Labels, Requested, Go
<1>6. LinkGivenBack'
  BY DEF IInv, TypeOK, Outcomes, LinkGivenBack, Labels, Finished, Requested, Go
<1> QED BY <1>1, <1>2, <1>3, <1>4, <1>5, <1>6 DEF IInv

LEMMA OpenFailsHolds ==
    ASSUME IInv, NEW r \in Readers, OpenFails(r)
    PROVE  IInv'
<1>1. TypeOK'
  BY ReadAssumption DEF IInv, TypeOK, Outcomes, Labels, OpenFails, OnError, Go, Fault
<1>2. Outcomes'
  BY DEF IInv, TypeOK, Outcomes, Labels, OpenFails, OnError, Go, Fault
<1>3. EnoughIsFull'
  BY Unheard DEF OpenFails
<1>4. StoppedFull'
  BY DEF IInv, TypeOK, Outcomes, StoppedFull, Labels, OpenFails, OnError, Go, Fault
<1>5. EarlyIsComplete'
  BY DEF IInv, TypeOK, EarlyIsComplete, Labels, OpenFails, OnError, Go, Fault
<1>6. LinkGivenBack'
  BY DEF IInv, TypeOK, Outcomes, LinkGivenBack, Labels, Finished, OpenFails, OnError, Go, Fault
<1> QED BY <1>1, <1>2, <1>3, <1>4, <1>5, <1>6 DEF IInv

LEMMA HeardEnoughHolds ==
    ASSUME IInv, NEW r \in Readers, HeardEnough(r)
    PROVE  IInv'
<1>1. TypeOK'
  BY ReadAssumption DEF IInv, TypeOK, Outcomes, Labels, HeardEnough, Go
<1>2. Outcomes'
  BY DEF IInv, TypeOK, Outcomes, Labels, HeardEnough, Go
<1>3. EnoughIsFull'
  BY Unheard DEF HeardEnough
<1>4. StoppedFull'
  BY DEF IInv, TypeOK, Outcomes, StoppedFull, Labels, HeardEnough, Go
<1>5. EarlyIsComplete'
  BY DEF IInv, TypeOK, EarlyIsComplete, Labels, HeardEnough, Go
<1>6. LinkGivenBack'
  BY DEF IInv, TypeOK, Outcomes, LinkGivenBack, Labels, Finished, HeardEnough, Go
<1> QED BY <1>1, <1>2, <1>3, <1>4, <1>5, <1>6 DEF IInv

LEMMA ListenTimesOutHolds ==
    ASSUME IInv, NEW r \in Readers, ListenTimesOut(r)
    PROVE  IInv'
<1>1. TypeOK'
  BY ReadAssumption DEF IInv, TypeOK, Outcomes, Labels, ListenTimesOut, TimeIsUp, Go
<1>2. Outcomes'
  BY DEF IInv, TypeOK, Outcomes, Labels, ListenTimesOut, TimeIsUp, Go
<1>3. EnoughIsFull'
  BY Unheard DEF ListenTimesOut
<1>4. StoppedFull'
  BY DEF IInv, TypeOK, Outcomes, StoppedFull, Labels, ListenTimesOut, TimeIsUp, Go
<1>5. EarlyIsComplete'
  BY DEF IInv, TypeOK, EarlyIsComplete, Labels, ListenTimesOut, TimeIsUp, Go
<1>6. LinkGivenBack'
  BY DEF IInv, TypeOK, Outcomes, LinkGivenBack, Labels, Finished, ListenTimesOut, TimeIsUp, Go
<1> QED BY <1>1, <1>2, <1>3, <1>4, <1>5, <1>6 DEF IInv

LEMMA ListenCancelledHolds ==
    ASSUME IInv, NEW r \in Readers, ListenCancelled(r)
    PROVE  IInv'
<1>1. TypeOK'
  BY ReadAssumption DEF IInv, TypeOK, Outcomes, Labels, ListenCancelled, OnError, Go, Fault
<1>2. Outcomes'
  BY DEF IInv, TypeOK, Outcomes, Labels, ListenCancelled, OnError, Go, Fault
<1>3. EnoughIsFull'
  BY Unheard DEF ListenCancelled
<1>4. StoppedFull'
  BY DEF IInv, TypeOK, Outcomes, StoppedFull, Labels, ListenCancelled, OnError, Go, Fault
<1>5. EarlyIsComplete'
  BY DEF IInv, TypeOK, EarlyIsComplete, Labels, ListenCancelled, OnError, Go, Fault
<1>6. LinkGivenBack'
  BY DEF IInv, TypeOK, Outcomes, LinkGivenBack, Labels, Finished, ListenCancelled, OnError, Go, Fault
<1> QED BY <1>1, <1>2, <1>3, <1>4, <1>5, <1>6 DEF IInv

LEMMA NotifyStoppedHolds ==
    ASSUME IInv, NEW r \in Readers, NotifyStopped(r)
    PROVE  IInv'
<1>1. TypeOK'
  BY ReadAssumption DEF IInv, TypeOK, Outcomes, Labels, NotifyStopped, Go, Fault
<1>2. Outcomes'
  BY DEF IInv, TypeOK, Outcomes, Labels, NotifyStopped, Go, Fault
<1>3. EnoughIsFull'
  BY Unheard DEF NotifyStopped
<1>4. StoppedFull'
  BY DEF IInv, TypeOK, Outcomes, StoppedFull, Labels, NotifyStopped, Go, Fault
<1>5. EarlyIsComplete'
  BY DEF IInv, TypeOK, EarlyIsComplete, Labels, NotifyStopped, Go, Fault
<1>6. LinkGivenBack'
  BY DEF IInv, TypeOK, Outcomes, LinkGivenBack, Labels, Finished, NotifyStopped, Go, Fault
<1> QED BY <1>1, <1>2, <1>3, <1>4, <1>5, <1>6 DEF IInv

LEMMA LinkDropsHolds ==
    ASSUME IInv, NEW r \in Readers, LinkDrops(r)
    PROVE  IInv'
<1>1. TypeOK'
  BY ReadAssumption DEF IInv, TypeOK, Outcomes, Labels, LinkDrops, Fault
<1>2. Outcomes'
  BY DEF IInv, TypeOK, Outcomes, Labels, LinkDrops, Fault
<1>3. EnoughIsFull'
  BY Unheard DEF LinkDrops
<1>4. StoppedFull'
  BY DEF IInv, TypeOK, Outcomes, StoppedFull, Labels, LinkDrops, Fault
<1>5. EarlyIsComplete'
  BY DEF IInv, TypeOK, EarlyIsComplete, Labels, LinkDrops, Fault
<1>6. LinkGivenBack'
  BY DEF IInv, TypeOK, Outcomes, LinkGivenBack, Labels, Finished, LinkDrops, Fault
<1> QED BY <1>1, <1>2, <1>3, <1>4, <1>5, <1>6 DEF IInv

\* A read that ends without an error or a timeout heard enough, so it returns.
LEMMA ConcludeComplete ==
    ASSUME IInv, NEW r \in Readers, pc[r] = "disconnecting", Conclude(r) \/ Go(r, "raised"),
           UNCHANGED <<seen, timedOut, outcome>>
    PROVE  EarlyIsComplete'
<1> SUFFICES ASSUME NEW q \in Readers, pc'[q] \in {"returned", "noData"}, ~timedOut[q]
             PROVE  pc'[q] = "returned" /\ Full(q)
  BY DEF EarlyIsComplete, Full
<1>1. CASE q # r
  BY <1>1 DEF IInv, TypeOK, EarlyIsComplete, Full, Conclude, Go
<1>2. CASE q = r
  <2>1. outcome[r] = "ok"
    BY <1>2 DEF IInv, TypeOK, Outcomes, Conclude, Go
  <2>2. Full(r)
    BY <1>2, <2>1 DEF IInv, StoppedFull, EnoughIsFull
  <2>3. Usable(seen[r]) # {}
    BY <2>2, FullIsUsable DEF IInv
  <2> QED BY <1>2, <2>1, <2>2, <2>3 DEF IInv, TypeOK, Conclude, Go
<1> QED BY <1>1, <1>2

LEMMA DisconnectedHolds ==
    ASSUME IInv, NEW r \in Readers, Disconnected(r)
    PROVE  IInv'
<1>1. TypeOK'
  BY ReadAssumption DEF IInv, TypeOK, Labels, Disconnected, Conclude, Go
<1>2. Outcomes'
  BY DEF IInv, TypeOK, Outcomes, Labels, Disconnected, Conclude, Go
<1>3. EnoughIsFull'
  BY Unheard DEF Disconnected
<1>4. StoppedFull'
  BY DEF IInv, TypeOK, StoppedFull, Labels, Disconnected, Conclude, Go
<1>5. EarlyIsComplete'
  BY ConcludeComplete DEF Disconnected
<1>6. LinkGivenBack'
  BY DEF IInv, TypeOK, LinkGivenBack, Labels, Finished, Disconnected, Conclude, Go
<1> QED BY <1>1, <1>2, <1>3, <1>4, <1>5, <1>6 DEF IInv

LEMMA DisconnectFailsHolds ==
    ASSUME IInv, NEW r \in Readers, DisconnectFails(r)
    PROVE  IInv'
<1>1. TypeOK'
  BY ReadAssumption DEF IInv, TypeOK, Labels, DisconnectFails, Conclude, Go, Fault
<1>2. Outcomes'
  BY DEF IInv, TypeOK, Outcomes, Labels, DisconnectFails, Conclude, Go, Fault
<1>3. EnoughIsFull'
  BY Unheard DEF DisconnectFails
<1>4. StoppedFull'
  BY DEF IInv, TypeOK, StoppedFull, Labels, DisconnectFails, Conclude, Go, Fault
<1>5. EarlyIsComplete'
  BY ConcludeComplete DEF DisconnectFails
<1>6. LinkGivenBack'
  BY DEF IInv, TypeOK, LinkGivenBack, Labels, Finished, DisconnectFails, Conclude, Go, Fault
<1> QED BY <1>1, <1>2, <1>3, <1>4, <1>5, <1>6 DEF IInv

LEMMA DisconnectCancelledHolds ==
    ASSUME IInv, NEW r \in Readers, DisconnectCancelled(r)
    PROVE  IInv'
<1>1. TypeOK'
  BY ReadAssumption DEF IInv, TypeOK, Labels, DisconnectCancelled, Go, Fault
<1>2. Outcomes'
  BY DEF IInv, TypeOK, Outcomes, Labels, DisconnectCancelled, Go, Fault
<1>3. EnoughIsFull'
  BY Unheard DEF DisconnectCancelled
<1>4. StoppedFull'
  BY DEF IInv, TypeOK, StoppedFull, Labels, DisconnectCancelled, Go, Fault
<1>5. EarlyIsComplete'
  BY ConcludeComplete DEF DisconnectCancelled
<1>6. LinkGivenBack'
  BY DEF IInv, TypeOK, LinkGivenBack, Labels, Finished, DisconnectCancelled, Go, Fault
<1> QED BY <1>1, <1>2, <1>3, <1>4, <1>5, <1>6 DEF IInv

LEMMA NotifyHolds ==
    ASSUME IInv, NEW r \in Readers, NEW s \in Serials, NEW p \in Pieces, Notify(r, s, p)
    PROVE  IInv'
<1> DEFINE now == [seen[r] EXCEPT ![s] = @ \cup {p}]
<1>1. /\ now \in [Serials -> SUBSET Pieces]
      /\ seen' = [seen EXCEPT ![r] = now]
      /\ enough' = [enough EXCEPT ![r] =
             @ \/ (Expect > 0 /\ Cardinality(Complete(now)) >= Expect)]
      /\ UNCHANGED <<pc, given, busy, links, notified, timedOut, outcome, spoiled, faults>>
  BY DEF Notify, IInv, TypeOK
<1>2. \A q \in Readers : Full(q) => Full(q)'
  <2> SUFFICES ASSUME NEW q \in Readers, Full(q) PROVE Full(q)'
    OBVIOUS
  <2>1. /\ seen[q] \in [Serials -> SUBSET Pieces] /\ seen'[q] \in [Serials -> SUBSET Pieces]
        /\ \A x \in Serials : seen[q][x] \subseteq seen'[q][x]
    BY <1>1 DEF IInv, TypeOK
  <2>2. Cardinality({x \in Serials : seen[q][x] = Pieces})
          <= Cardinality({x \in Serials : seen'[q][x] = Pieces})
    BY <2>1, FullGrows
  <2>3. /\ Cardinality({x \in Serials : seen[q][x] = Pieces}) \in Nat
        /\ Cardinality({x \in Serials : seen'[q][x] = Pieces}) \in Nat
    BY <2>1, CompleteType
  <2> QED BY <2>2, <2>3, ReadAssumption DEF Full
<1>3. TypeOK'
  BY <1>1 DEF IInv, TypeOK
<1>4. EnoughIsFull'
  <2> SUFFICES ASSUME NEW q \in Readers, enough'[q] PROVE Full(q)'
    BY DEF EnoughIsFull
  <2>1. CASE enough[q]
    BY <1>2, <2>1 DEF IInv, EnoughIsFull
  <2>2. CASE ~enough[q]
    <3>1. q = r /\ Expect > 0 /\ Cardinality(Complete(now)) >= Expect
      BY <1>1, <2>2 DEF IInv, TypeOK
    <3>2. seen'[q] = now
      BY <1>1, <3>1 DEF IInv, TypeOK
    <3> QED BY <3>1, <3>2 DEF Full, Complete
  <2> QED BY <2>1, <2>2
<1>5. Outcomes' /\ LinkGivenBack'
  BY <1>1 DEF IInv, Outcomes, LinkGivenBack
<1>6. StoppedFull'
  BY <1>1 DEF IInv, TypeOK, StoppedFull
<1>7. EarlyIsComplete'
  BY <1>1, <1>2 DEF IInv, EarlyIsComplete, Full
<1> QED BY <1>3, <1>4, <1>5, <1>6, <1>7 DEF IInv

LEMMA InvariantHolds == Spec => []IInv
<1>1. IInv /\ [Next]_vars => IInv'
  <2> SUFFICES ASSUME IInv, [Next]_vars PROVE IInv'
    OBVIOUS
  <2>1. CASE UNCHANGED vars
    BY ZenonT(30), <2>1 DEF vars, IInv, TypeOK, Outcomes, EnoughIsFull, Full, StoppedFull,
       EarlyIsComplete, LinkGivenBack
  <2>2. ASSUME NEW r \in Readers, ReaderStep(r) PROVE IInv'
    BY <2>2, ConnectedHolds, ConnectFailsHolds, SubscribedHolds, RequestedHolds,
       OpenFailsHolds, HeardEnoughHolds, ListenTimesOutHolds, ListenCancelledHolds,
       NotifyStoppedHolds, DisconnectedHolds, DisconnectFailsHolds,
       DisconnectCancelledHolds DEF ReaderStep, AwaitEnds
  <2>3. ASSUME NEW r \in Readers, LinkStep(r) PROVE IInv'
    BY <2>3, NotifyHolds, LinkDropsHolds DEF LinkStep
  <2>4. ASSUME NEW r \in Readers, NEW b \in Serials, NEW knows \in BOOLEAN, Call(r, b, knows)
        PROVE  IInv'
    BY <2>4, CallHolds
  <2>5. ASSUME NEW b \in Serials, OtherApp(b) PROVE IInv'
    BY <2>5, OtherAppHolds
  <2> QED BY <2>1, <2>2, <2>3, <2>4, <2>5 DEF Next
<1> QED BY <1>1, InitHolds, PTL DEF Spec

\* The variables of every read keep their types.
THEOREM ReadTypeCorrect == Spec => []TypeOK
<1>1. IInv => TypeOK
  BY DEF IInv
<1> QED BY <1>1, InvariantHolds, PTL

\* However a read ends, the gateway's slot is given back.
THEOREM ReadGivesLinkBack == Spec => []LinkGivenBack
<1>1. IInv => LinkGivenBack
  BY DEF IInv
<1> QED BY <1>1, InvariantHolds, PTL

\* A read that ends before its timeout has all it was asked for.
THEOREM ReadEarlyIsComplete == Spec => []EarlyIsComplete
<1>1. IInv => EarlyIsComplete
  BY DEF IInv
<1> QED BY <1>1, InvariantHolds, PTL

=============================================================================
