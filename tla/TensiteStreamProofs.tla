------------------------- MODULE TensiteStreamProofs -------------------------
(***************************************************************************)
(* What holds of TensiteStream for every value of its constants: first of  *)
(* any number of users whose calls overlap, then of one user.              *)
(***************************************************************************)
EXTENDS TensiteStream, TLAPS

(***************************************************************************)
(* Type correctness.  The pieces the handlers share come first.            *)
(***************************************************************************)
LEMMA NewAssemblerType ==
    ASSUME NEW c \in Clients \cup {NoClient}
    PROVE  NewAssembler(c) \in Assemblers
BY DEF NewAssembler, Assemblers

LEMMA WokenType ==
    ASSUME TypeOK
    PROVE  Woken(pc) \in [Tasks -> RunLabels]
BY DEF TypeOK, Woken, RunLabels

LEMMA LoopType ==
    ASSUME TypeOK, NEW t \in Tasks, NEW asm \in Assemblers, Loop(t, asm)
    PROVE  /\ pc' \in [Tasks -> RunLabels]
           /\ local' \in [Tasks -> Clients \cup {NoClient}]
           /\ Dialling'
           /\ assembler' \in Assemblers
           /\ dropped' \in BOOLEAN
<1>1. CASE stopping /\ MoveTo(t, "done", NoClient) /\ assembler' = asm /\ UNCHANGED dropped
  BY <1>1 DEF TypeOK, Dialling, MoveTo, RunLabels
<1>2. CASE /\ \E c \in Clients :
                Unused(t, c) /\ MoveTo(t, "connecting", c) /\ assembler' = NewAssembler(c)
           /\ dropped' = FALSE
  <2>1. PICK c \in Clients : MoveTo(t, "connecting", c) /\ assembler' = NewAssembler(c)
    BY <1>2
  <2>2. assembler' \in Assemblers BY <2>1, NewAssemblerType
  <2> QED BY <1>2, <2>1, <2>2 DEF TypeOK, Dialling, MoveTo, RunLabels
<1> QED BY <1>1, <1>2 DEF Loop

LEMMA AfterTeardownType ==
    ASSUME TypeOK, NEW t \in Tasks, NEW asm \in Assemblers, NEW how,
           AfterTeardown(t, how, asm)
    PROVE  /\ pc' \in [Tasks -> RunLabels]
           /\ local' \in [Tasks -> Clients \cup {NoClient}]
           /\ Dialling'
           /\ assembler' \in Assemblers
           /\ dropped' \in BOOLEAN
           /\ reconnects' \in 0..MaxReconnects
<1>1. CASE how = "unwinding" /\ ~(how = "closing")
  BY <1>1 DEF AfterTeardown, TypeOK, Dialling, MoveTo, RunLabels
<1>2. CASE how = "closing"
  <2>1. Loop(t, asm) BY <1>2 DEF AfterTeardown
  <2>2. reconnects' \in 0..MaxReconnects
    BY <1>2, BoundAssumption DEF AfterTeardown, TypeOK
  <2> QED BY <2>1, <2>2, LoopType
<1> QED BY <1>1, <1>2 DEF AfterTeardown

LEMMA HoldEndsType ==
    ASSUME TypeOK, NEW t \in Tasks, NEW how \in {"closing", "unwinding"},
           HoldEnds(t, how)
    PROVE  /\ pc' \in [Tasks -> RunLabels]
           /\ local' \in [Tasks -> Clients \cup {NoClient}]
           /\ Dialling'
           /\ client' \in Clients \cup {NoClient}
           /\ assembler' \in Assemblers
           /\ dropped' \in BOOLEAN /\ connected' \in BOOLEAN
           /\ reconnects' \in 0..MaxReconnects
           /\ up' = up
<1>1. NoAssembler \in Assemblers BY NewAssemblerType DEF NoAssembler
<1>2. client' \in Clients \cup {NoClient} /\ connected' \in BOOLEAN /\ up' = up
  BY DEF HoldEnds
<1>3. CASE client # NoClient
  BY <1>1, <1>2, <1>3 DEF HoldEnds, TypeOK, Dialling, MoveTo, RunLabels
<1>4. CASE client = NoClient
  BY <1>1, <1>2, <1>4, AfterTeardownType DEF HoldEnds
<1> QED BY <1>3, <1>4

LEMMA FaultType ==
    ASSUME TypeOK, NEW kind, FaultHappens(kind)
    PROVE  faults' \in 0..MaxFaults
BY BoundAssumption DEF FaultHappens, TypeOK

LEMMA DisconnectType ==
    ASSUME TypeOK, NEW c, DisconnectReturns(c)
    PROVE  up' \subseteq Clients /\ faults' \in 0..MaxFaults
BY FaultType DEF DisconnectReturns, TypeOK

LEMMA OpenedType ==
    ASSUME TypeOK, NEW t \in Tasks, Opened(t)
    PROVE  TypeOK'
<1>1. /\ cpc' \in [Callers -> CallerLabels] /\ seen' \in {"none", "up", "down"}
      /\ UNCHANGED <<task, stopping, flush, cancelled, join, closing, calls>>
  BY DEF Opened, TypeOK, CallerLabels
<1>2. CASE /\ FaultHappens("consumer") /\ connected' = TRUE
           /\ MoveTo(t, "backoff", NoClient)
           /\ UNCHANGED <<client, dropped, assembler, backoff, reconnects, up>>
  BY <1>1, <1>2, FaultType DEF TypeOK, Dialling, MoveTo, RunLabels, flush
<1>3. CASE /\ backoff' = [backoff EXCEPT ![t] = BackoffInitial]
           /\ UNCHANGED faults
           /\ \/ /\ connected' = TRUE
                 /\ MoveTo(t, "holding", NoClient)
                 /\ UNCHANGED <<client, dropped, assembler, reconnects, up>>
              \/ HoldEnds(t, "closing")
  <2>1. backoff' \in [Tasks -> BackoffInitial..BackoffMax]
    BY <1>3, BackoffAssumption DEF TypeOK
  <2>2. CASE /\ connected' = TRUE
             /\ MoveTo(t, "holding", NoClient)
             /\ UNCHANGED <<client, dropped, assembler, reconnects, up>>
    BY <1>1, <1>3, <2>1, <2>2 DEF TypeOK, Dialling, MoveTo, RunLabels, flush
  <2>3. CASE HoldEnds(t, "closing")
    BY <1>1, <1>3, <2>1, <2>3, HoldEndsType DEF TypeOK, Dialling, flush
  <2> QED BY <1>3, <2>2, <2>3
<1> QED BY <1>2, <1>3 DEF Opened

LEMMA StopTeardownType ==
    ASSUME TypeOK, NEW k \in Callers, StopTeardown(k)
    PROVE  /\ client' \in Clients \cup {NoClient} /\ assembler' \in Assemblers
           /\ connected' \in BOOLEAN /\ timer' \in BOOLEAN /\ pending' \in BOOLEAN
           /\ cpc' \in [Callers -> CallerLabels]
           /\ join' \in [Callers -> Tasks \cup {NoTask}]
           /\ closing' \in [Callers -> Clients \cup {NoClient}]
<1>1. NoAssembler \in Assemblers BY NewAssemblerType DEF NoAssembler
<1> QED BY <1>1 DEF StopTeardown, CallerAt, CancelFlush, TypeOK, CallerLabels, flush

LEMMA StopBeginsType ==
    ASSUME TypeOK, NEW k \in Callers, StopBegins(k), calls' \in 0..MaxCalls
    PROVE  TypeOK'
<1>1. /\ stopping' \in BOOLEAN /\ dropped' \in BOOLEAN /\ pc' \in [Tasks -> RunLabels] /\ Dialling'
      /\ task' \in Tasks \cup {NoTask} /\ UNCHANGED <<local, backoff, reconnects, world>>
  BY WokenType DEF StopBegins, Woken, Dialling, TypeOK
<1>2. CASE /\ Running
           /\ cancelled' = [cancelled EXCEPT ![task] = TRUE]
           /\ CallerAt(k, "joining", task, NoClient)
           /\ UNCHANGED <<client, assembler, connected, flush>>
  BY <1>1, <1>2 DEF TypeOK, Dialling, CallerAt, CallerLabels, Running, flush, world
<1>3. CASE UNCHANGED cancelled /\ StopTeardown(k)
  BY <1>1, <1>3, StopTeardownType DEF TypeOK, Dialling, world
<1> QED BY <1>2, <1>3 DEF StopBegins

LEMMA RunStepType ==
    ASSUME TypeOK, NEW t \in Tasks, RunStep(t)
    PROVE  TypeOK'
<1>1. CASE RunBegins(t)
  BY <1>1, LoopType DEF RunBegins, TypeOK, Dialling, flush, caller
<1>2. CASE ConnectSucceeds(t)
  <2>1. local[t] \in Clients BY <1>2 DEF ConnectSucceeds, At, TypeOK, Dialling
  <2> QED BY <1>2, <2>1 DEF ConnectSucceeds, At, TypeOK, Dialling, MoveTo, RunLabels, flush, caller
<1>3. CASE ConnectFails(t)
  BY <1>3, FaultType
  DEF ConnectFails, TypeOK, Dialling, MoveTo, RunLabels, loop, flush, caller
<1>4. CASE Subscribed(t)
  <2>1. CASE Opened(t) BY <2>1, OpenedType
  <2>2. CASE ~Opened(t)
    BY <1>4, <2>2 DEF Subscribed, TypeOK, Dialling, MoveTo, RunLabels, loop, flush, caller, world
  <2> QED BY <2>1, <2>2
<1>5. CASE SubscribeFails(t)
  BY <1>5, FaultType
  DEF SubscribeFails, TypeOK, Dialling, MoveTo, RunLabels, loop, flush, caller
<1>6. CASE Primed(t)
  BY <1>6, OpenedType DEF Primed
<1>7. CASE BackoffEnds(t)
  <2>1. backoff[t] \in BackoffInitial..BackoffMax BY DEF TypeOK
  <2>2. Doubled(backoff[t]) \in BackoffInitial..BackoffMax
    BY <2>1, BackoffAssumption DEF Doubled
  <2>3. backoff' \in [Tasks -> BackoffInitial..BackoffMax]
    BY <1>7, <2>2 DEF BackoffEnds, TypeOK
  <2> QED BY <1>7, <2>3, LoopType DEF BackoffEnds, TypeOK, Dialling, flush, caller
<1>8. CASE KeepaliveDue(t)
  BY <1>8 DEF KeepaliveDue, TypeOK, Dialling, MoveTo, RunLabels, loop, flush, caller, world
<1>9. CASE PingSucceeds(t)
  <2>1. CASE HoldEnds(t, "closing")
    BY <1>9, <2>1, HoldEndsType DEF PingSucceeds, TypeOK, Dialling, flush, caller
  <2>2. CASE ~HoldEnds(t, "closing")
    BY <1>9, <2>2 DEF PingSucceeds, TypeOK, Dialling, MoveTo, RunLabels, flush, caller
  <2> QED BY <2>1, <2>2
<1>10. CASE PingFails(t)
  BY <1>10, FaultType, HoldEndsType DEF PingFails, TypeOK, Dialling, flush, caller
<1>11. CASE HoldReturns(t)
  <2>1. PICK how \in {"closing", "unwinding"} : HoldEnds(t, how)
    BY <1>11 DEF HoldReturns
  <2> QED BY <1>11, <2>1, HoldEndsType DEF HoldReturns, TypeOK, Dialling, flush, caller
<1>12. CASE RunDisconnected(t)
  BY <1>12, DisconnectType, AfterTeardownType
  DEF RunDisconnected, TypeOK, Dialling, flush, caller
<1>13. CASE RunCancelled(t)
  BY <1>13 DEF RunCancelled, TypeOK, Dialling, MoveTo, RunLabels, loop, flush, caller, world
<1>14. CASE PingCancelled(t)
  BY <1>14, HoldEndsType DEF PingCancelled, TypeOK, Dialling, flush, caller
<1> QED
  BY <1>1, <1>2, <1>3, <1>4, <1>5, <1>6, <1>7, <1>8, <1>9, <1>10, <1>11, <1>12,
     <1>13, <1>14 DEF RunStep

LEMMA CallerType ==
    ASSUME TypeOK, NEW k \in Callers, Start(k) \/ Stop(k) \/ CallerStep(k)
    PROVE  TypeOK'
<1>1. CASE Start(k)
  <2>1. PICK t \in Tasks : /\ task' = t
                           /\ pc' = [pc EXCEPT ![t] = "begin"]
                           /\ backoff' = [backoff EXCEPT ![t] = BackoffInitial]
    BY <1>1 DEF Start
  <2>2. backoff' \in [Tasks -> BackoffInitial..BackoffMax]
    BY <2>1, BackoffAssumption DEF TypeOK
  <2>3. calls' \in 0..MaxCalls BY <1>1, BoundAssumption DEF Start, TypeOK
  <2> QED
    BY <1>1, <2>1, <2>2, <2>3
    DEF Start, TypeOK, Dialling, RunLabels, CallerLabels, flush, world
<1>2. CASE Stop(k)
  <2>1. calls' \in 0..MaxCalls BY <1>2, BoundAssumption DEF Stop, TypeOK
  <2> QED BY <1>2, <2>1, StopBeginsType DEF Stop
<1>3. CASE StartGivesUp(k)
  BY <1>3, StopBeginsType DEF StartGivesUp, TypeOK
<1>4. CASE StopJoined(k)
  BY <1>4, StopTeardownType DEF StopJoined, TypeOK, Dialling, run, world
<1>5. CASE StopDisconnected(k)
  BY <1>5, DisconnectType
  DEF StopDisconnected, CancelFlush, CallerAt, CallerLabels, TypeOK, Dialling, run
<1>6. CASE StartReturns(k)
  BY <1>6 DEF StartReturns, TypeOK, Dialling, CallerLabels, loop, flush, run, world
<1> QED BY <1>1, <1>2, <1>3, <1>4, <1>5, <1>6 DEF CallerStep

LEMMA FlushedType ==
    ASSUME NEW asm \in Assemblers
    PROVE  Flushed(asm) \in Assemblers
<1>1. (asm.unseen /\ ~asm.readable) \in BOOLEAN OBVIOUS
<1> QED BY <1>1 DEF Flushed, Assemblers

LEMMA FedType ==
    ASSUME NEW asm \in Assemblers, NEW c \in Clients, NEW usable \in BOOLEAN
    PROVE  Fed(asm, c, usable) \in Assemblers
<1>1. (asm.readable \/ usable) \in BOOLEAN OBVIOUS
<1>2. asm.sources \cup {c} \in SUBSET Clients BY DEF Assemblers
<1> QED BY <1>1, <1>2 DEF Fed, Assemblers

LEMMA LinkType ==
    ASSUME TypeOK, NEW c \in Clients,
           FrameArrives(c) \/ LinkDrops(c) \/ LinkCloses(c)
    PROVE  TypeOK'
<1>1. CASE FrameArrives(c)
  <2>1. PICK usable \in BOOLEAN :
          assembler' = IF timer THEN Fed(assembler, c, usable)
                                ELSE Flushed(Fed(assembler, c, usable))
    BY <1>1 DEF FrameArrives
  <2>2. assembler' \in Assemblers BY <2>1, FedType, FlushedType DEF TypeOK
  <2>3. timer' \in BOOLEAN /\ pending' \in BOOLEAN BY <1>1 DEF FrameArrives, TypeOK
  <2> QED BY <1>1, <2>2, <2>3 DEF FrameArrives, TypeOK, Dialling, loop, run, caller, world
<1>2. CASE Disconnected(c) /\ faults' \in 0..MaxFaults
  <2>1. pc' \in [Tasks -> RunLabels] /\ Dialling'
    BY <1>2, WokenType DEF Disconnected, OnDisconnected, Woken, TypeOK, Dialling
  <2> QED BY <1>2, <2>1 DEF Disconnected, OnDisconnected, TypeOK, flush, caller
<1>3. LinkDrops(c) => faults' \in 0..MaxFaults BY FaultType DEF LinkDrops
<1>4. LinkCloses(c) => faults' \in 0..MaxFaults BY DEF LinkCloses, TypeOK
<1> QED BY <1>1, <1>2, <1>3, <1>4 DEF LinkDrops, LinkCloses

LEMMA ThrottleType ==
    ASSUME TypeOK, ThrottleEnds
    PROVE  TypeOK'
<1>1. assembler' \in Assemblers BY FlushedType DEF ThrottleEnds, TypeOK
<1> QED BY <1>1 DEF ThrottleEnds, TypeOK, Dialling, loop, run, caller, world

LEMMA NextType ==
    ASSUME TypeOK, [Next]_vars
    PROVE  TypeOK'
<1>1. CASE UNCHANGED vars
  BY <1>1 DEF vars, loop, flush, run, caller, world, TypeOK, Dialling
<1> QED BY <1>1, RunStepType, CallerType, LinkType, ThrottleType DEF Next

LEMMA InitType == Init => TypeOK
<1>1. NoAssembler \in Assemblers BY NewAssemblerType DEF NoAssembler
<1>2. BackoffInitial \in BackoffInitial..BackoffMax /\ 0 \in 0..MaxReconnects
      /\ 0 \in 0..MaxFaults /\ 0 \in 0..MaxCalls
  BY BackoffAssumption, BoundAssumption
<1>3. ASSUME Init PROVE Dialling BY <1>3 DEF Init, Dialling
<1>4. ASSUME Init
      PROVE  /\ pc \in [Tasks -> RunLabels] /\ cancelled \in [Tasks -> BOOLEAN]
             /\ local \in [Tasks -> Clients \cup {NoClient}]
             /\ backoff \in [Tasks -> BackoffInitial..BackoffMax]
  BY <1>2, <1>4 DEF Init, RunLabels
<1>5. ASSUME Init
      PROVE  /\ cpc \in [Callers -> CallerLabels]
             /\ join \in [Callers -> Tasks \cup {NoTask}]
             /\ closing \in [Callers -> Clients \cup {NoClient}]
  BY <1>5 DEF Init, CallerLabels
<1> QED BY <1>1, <1>2, <1>3, <1>4, <1>5 DEF Init, TypeOK

\* The fields and locals of the stream keep their types, and the backoff stays
\* between its two bounds, for every way of calling it and every fault.
THEOREM TypeCorrect == Spec => []TypeOK
BY InitType, NextType, PTL DEF Spec

(***************************************************************************)
(* A running stream is alive.  RunningIsAlive is inductive once no         *)
(* cancellation can outlive the task it was meant for, or reach one that   *)
(* is unwinding: a later run would inherit it.                             *)
(***************************************************************************)
CancelIsPending ==
    \A t \in Tasks : cancelled[t] => pc[t] \notin {"done", "unwinding"}

Alive == TypeOK /\ RunningIsAlive /\ CancelIsPending

\* What a step of t does to the labels: other tasks keep theirs.
LEMMA LoopAlive ==
    ASSUME Alive, NEW t \in Tasks, NEW asm, Loop(t, asm)
    PROVE  \E l \in {"done", "connecting"} :
             pc' = [pc EXCEPT ![t] = l] /\ (l = "done" => stopping)
BY DEF Loop, MoveTo

LEMMA HoldEndsAlive ==
    ASSUME Alive, NEW t \in Tasks, NEW how \in {"closing", "unwinding"},
           HoldEnds(t, how)
    PROVE  \E l \in {"done", "connecting", "closing", "unwinding"} :
             /\ pc' = [pc EXCEPT ![t] = l]
             /\ l = "done" => stopping \/ how = "unwinding"
             /\ l = "unwinding" => how = "unwinding"
<1>1. CASE client # NoClient
  BY <1>1 DEF HoldEnds, MoveTo
<1>2. CASE client = NoClient /\ how = "closing"
  BY <1>2, LoopAlive DEF HoldEnds, AfterTeardown
<1>3. CASE client = NoClient /\ how = "unwinding"
  BY <1>3 DEF HoldEnds, AfterTeardown, MoveTo
<1> QED BY <1>1, <1>2, <1>3

\* A step of t that leaves the others alone keeps Alive, provided it ends or
\* unwinds only a task that was cancelled or stopped.
LEMMA StepAlive ==
    ASSUME Alive, NEW t \in Tasks, NEW l, pc' = [pc EXCEPT ![t] = l],
           UNCHANGED <<task, stopping>>,
           \/ cancelled' = cancelled /\ ~cancelled[t]
           \/ cancelled' = [cancelled EXCEPT ![t] = FALSE],
           l \in {"done", "unwinding"} =>
               stopping \/ cancelled[t] \/ pc[t] = "unwinding"
    PROVE  RunningIsAlive' /\ CancelIsPending'
<1>1. /\ \A u \in Tasks : u # t => pc'[u] = pc[u] /\ cancelled'[u] = cancelled[u]
      /\ pc'[t] = l /\ ~cancelled'[t]
  BY DEF Alive, TypeOK
<1>2. RunningIsAlive'
  BY <1>1 DEF Alive, RunningIsAlive, TypeOK
<1>3. CancelIsPending'
  BY <1>1 DEF Alive, CancelIsPending
<1> QED BY <1>2, <1>3

LEMMA OpenedAlive ==
    ASSUME Alive, NEW t \in Tasks, Opened(t), ~cancelled[t]
    PROVE  RunningIsAlive' /\ CancelIsPending'
<1>1. UNCHANGED <<task, stopping, cancelled>> BY DEF Opened
<1>2. PICK l \in {"backoff", "holding", "done", "connecting", "closing", "unwinding"} :
        /\ pc' = [pc EXCEPT ![t] = l]
        /\ l \in {"done", "unwinding"} => stopping
  <2>1. CASE HoldEnds(t, "closing") BY <2>1, HoldEndsAlive
  <2>2. CASE ~HoldEnds(t, "closing") BY <2>2 DEF Opened, MoveTo
  <2> QED BY <2>1, <2>2
<1> QED BY <1>1, <1>2, StepAlive

LEMMA RunStepAlive ==
    ASSUME Alive, NEW t \in Tasks, RunStep(t)
    PROVE  RunningIsAlive' /\ CancelIsPending'
<1>1. CASE RunBegins(t) \/ BackoffEnds(t)
  <2>1. UNCHANGED <<task, stopping, cancelled>> /\ ~cancelled[t]
    BY <1>1 DEF RunBegins, BackoffEnds, At
  <2>2. Loop(t, assembler) BY <1>1 DEF RunBegins, BackoffEnds
  <2> QED BY <2>1, <2>2, LoopAlive, StepAlive
<1>2. CASE ConnectSucceeds(t)
  <2>1. pc' = [pc EXCEPT ![t] = "subscribing"] /\ UNCHANGED <<task, stopping, cancelled>>
        /\ ~cancelled[t]
    BY <1>2 DEF ConnectSucceeds, At, MoveTo
  <2> QED BY <2>1, StepAlive
<1>3. CASE ConnectFails(t) \/ SubscribeFails(t)
  <2>1. pc' = [pc EXCEPT ![t] = "backoff"] /\ UNCHANGED <<task, stopping, cancelled>>
        /\ ~cancelled[t]
    BY <1>3 DEF ConnectFails, SubscribeFails, At, MoveTo, loop
  <2> QED BY <2>1, StepAlive
<1>4. CASE Subscribed(t) \/ Primed(t)
  <2>1. ~cancelled[t] BY <1>4 DEF Subscribed, Primed, At
  <2>2. CASE Opened(t) BY <2>1, <2>2, OpenedAlive
  <2>3. CASE ~Opened(t)
    <3>1. pc' = [pc EXCEPT ![t] = "priming"] /\ UNCHANGED <<task, stopping, cancelled>>
      BY <1>4, <2>3 DEF Subscribed, Primed, MoveTo, loop
    <3> QED BY <2>1, <3>1, StepAlive
  <2> QED BY <2>2, <2>3
<1>5. CASE KeepaliveDue(t)
  <2>1. pc' = [pc EXCEPT ![t] = "pinging"] /\ UNCHANGED <<task, stopping, cancelled>>
        /\ ~cancelled[t]
    BY <1>5 DEF KeepaliveDue, At, MoveTo, loop
  <2> QED BY <2>1, StepAlive
<1>6. CASE PingSucceeds(t) \/ PingFails(t)
  <2>1. UNCHANGED <<task, stopping, cancelled>> /\ ~cancelled[t]
    BY <1>6 DEF PingSucceeds, PingFails, At
  <2>2. CASE HoldEnds(t, "closing")
    <3>1. PICK l : /\ pc' = [pc EXCEPT ![t] = l]
                   /\ l \in {"done", "unwinding"} => stopping
      BY <2>2, HoldEndsAlive
    <3> QED BY <2>1, <3>1, StepAlive
  <2>3. CASE ~HoldEnds(t, "closing")
    <3>1. pc' = [pc EXCEPT ![t] = "holding"]
      BY <1>6, <2>3 DEF PingSucceeds, PingFails, MoveTo
    <3> QED BY <2>1, <3>1, StepAlive
  <2> QED BY <2>2, <2>3
<1>7. CASE HoldReturns(t) \/ PingCancelled(t)
  <2>1. /\ UNCHANGED <<task, stopping>>
        /\ cancelled' = [cancelled EXCEPT ![t] = FALSE]
    BY <1>7 DEF HoldReturns, PingCancelled
  <2>2. PICK how \in {"closing", "unwinding"} :
          HoldEnds(t, how) /\ (how = "unwinding" => cancelled[t])
    BY <1>7 DEF HoldReturns, PingCancelled
  <2>3. PICK l : /\ pc' = [pc EXCEPT ![t] = l]
                 /\ l \in {"done", "unwinding"} => stopping \/ how = "unwinding"
    BY <2>2, HoldEndsAlive
  <2> QED BY <2>1, <2>2, <2>3, StepAlive
<1>8. CASE RunDisconnected(t)
  <2>1. UNCHANGED <<task, stopping, cancelled>> /\ ~cancelled[t]
    BY <1>8 DEF RunDisconnected, At
  <2>2. CASE pc[t] = "unwinding"
    <3>1. pc' = [pc EXCEPT ![t] = "done"]
      BY <1>8, <2>2 DEF RunDisconnected, AfterTeardown, MoveTo
    <3> QED BY <2>1, <2>2, <3>1, StepAlive
  <2>3. CASE pc[t] # "unwinding"
    <3>1. Loop(t, assembler) BY <1>8, <2>3 DEF RunDisconnected, AfterTeardown
    <3> QED BY <2>1, <3>1, LoopAlive, StepAlive
  <2> QED BY <2>2, <2>3
<1>9. CASE RunCancelled(t)
  <2>1. /\ pc' = [pc EXCEPT ![t] = "done"] /\ UNCHANGED <<task, stopping>>
        /\ cancelled[t] /\ cancelled' = [cancelled EXCEPT ![t] = FALSE]
    BY <1>9 DEF RunCancelled, MoveTo, loop
  <2> QED BY <2>1, StepAlive
<1> QED
  BY <1>1, <1>2, <1>3, <1>4, <1>5, <1>6, <1>7, <1>8, <1>9 DEF RunStep

\* Whatever wakes the waiting tasks neither ends nor revives one.
LEMMA WokenAlive ==
    ASSUME TypeOK, NEW t \in Tasks
    PROVE  Woken(pc)[t] \in {"done", "unwinding"} <=> pc[t] \in {"done", "unwinding"}
BY DEF Woken, TypeOK

LEMMA CallerAlive ==
    ASSUME Alive, NEW k \in Callers, Start(k) \/ Stop(k) \/ CallerStep(k)
    PROVE  RunningIsAlive' /\ CancelIsPending'
<1>1. CASE Start(k)
  <2>1. PICK t \in Tasks : pc[t] = "done" /\ task' = t /\ pc' = [pc EXCEPT ![t] = "begin"]
    BY <1>1 DEF Start
  <2>2. ~cancelled[t] /\ UNCHANGED cancelled /\ ~stopping'
    BY <1>1, <2>1 DEF Start, Alive, CancelIsPending
  <2>3. /\ pc'[t] = "begin"
        /\ \A u \in Tasks : u # t => pc'[u] = pc[u]
    BY <2>1 DEF Alive, TypeOK
  <2>4. RunningIsAlive'
    <3>1. pc'[task'] = "begin" /\ ~cancelled'[task'] /\ ~stopping'
      BY <2>1, <2>2, <2>3
    <3>2. "begin" \notin {"done", "unwinding"} OBVIOUS
    <3> QED BY <3>1, <3>2 DEF RunningIsAlive
  <2>5. CancelIsPending' BY <2>2, <2>3 DEF Alive, CancelIsPending
  <2> QED BY <2>4, <2>5
<1>2. CASE StopBegins(k)
  <2>1. RunningIsAlive' BY <1>2 DEF StopBegins, RunningIsAlive
  <2>2. \A t \in Tasks :
          pc'[t] \in {"done", "unwinding"} => pc[t] \in {"done", "unwinding"}
    BY <1>2, WokenAlive DEF StopBegins, Alive
  <2>4. CASE UNCHANGED cancelled
    BY <2>1, <2>2, <2>4 DEF Alive, CancelIsPending
  <2>3. CASE Running /\ cancelled' = [cancelled EXCEPT ![task] = TRUE]
    <3>1. task \in Tasks /\ pc[task] \notin {"done", "unwinding"}
      BY <2>3 DEF Running, Alive, RunningIsAlive, TypeOK
    <3>2. \A t \in Tasks : cancelled'[t] => pc[t] \notin {"done", "unwinding"}
      BY <2>3, <3>1 DEF Alive, CancelIsPending, TypeOK
    <3> QED BY <2>1, <2>2, <3>2 DEF CancelIsPending
  <2> QED BY <1>2, <2>3, <2>4 DEF StopBegins
<1>3. CASE StartReturns(k) \/ StopJoined(k) \/ StopDisconnected(k)
  <2>1. UNCHANGED <<task, stopping, pc, cancelled>>
    BY <1>3 DEF StartReturns, StopJoined, StopDisconnected, loop, run
  <2> QED BY <2>1 DEF Alive, RunningIsAlive, CancelIsPending
<1> QED BY <1>1, <1>2, <1>3 DEF Stop, CallerStep, StartGivesUp

LEMMA NextAlive ==
    ASSUME Alive, [Next]_vars
    PROVE  Alive'
<1>1. TypeOK' BY NextType DEF Alive
<1>2. CASE UNCHANGED <<task, stopping, pc, cancelled>>
  BY <1>1, <1>2 DEF Alive, RunningIsAlive, CancelIsPending
<1>3. ASSUME NEW c \in Clients, Disconnected(c) PROVE Alive'
  <2>1. UNCHANGED <<task, stopping, cancelled>> /\ pc' = Woken(pc)
    BY <1>3 DEF Disconnected, OnDisconnected
  <2> QED BY <1>1, <2>1, WokenAlive DEF Alive, RunningIsAlive, CancelIsPending, TypeOK
<1>4. CASE UNCHANGED vars BY <1>2, <1>4 DEF vars, loop, run
<1>5. ASSUME NEW c \in Clients, FrameArrives(c) \/ LinkDrops(c) \/ LinkCloses(c)
      PROVE  Alive'
  <2>1. FrameArrives(c) => UNCHANGED <<task, stopping, pc, cancelled>>
    BY DEF FrameArrives, loop, run
  <2> QED BY <1>2, <1>3, <1>5, <2>1 DEF LinkDrops, LinkCloses
<1>6. CASE ThrottleEnds BY <1>2, <1>6 DEF ThrottleEnds, loop, run
<1> QED
  BY <1>1, <1>4, <1>5, <1>6, RunStepAlive, CallerAlive DEF Next, Alive

\* For any number of users stopping and starting the stream over one another,
\* and any faults, the run loop behind a stream nobody stopped never ends.
THEOREM RunningStaysAlive == Spec => []RunningIsAlive
<1>1. Init => Alive
  BY InitType DEF Init, Alive, RunningIsAlive, CancelIsPending
<1> QED BY <1>1, NextAlive, PTL DEF Spec, Alive

(***************************************************************************)
(* What holds of TensiteStream when one user starts and stops it, as the   *)
(* README of the library does: calls do not overlap, though a call may     *)
(* come at any moment of the run loop, and any fault may happen.           *)
(***************************************************************************)
OneUser == \A j, k \in Callers : j = k

\* A pending update has an armed timer.
Armed == pending => timer

\* A run loop alive is the current one or the one a stop is waiting for.
RunsOwned ==
    \A t \in Tasks : pc[t] # "done" =>
        t = task \/ \E k \in Callers : cpc[k] = "joining" /\ join[k] = t

\* A stop has detached the task, and a start waits for one.
CallersOwn ==
    \A k \in Callers : /\ cpc[k] \in {"joining", "closing"} => task = NoTask
                       /\ cpc[k] \in {"starting", "released"} => task # NoTask

\* The last await of async_stop, disconnect(), has the stream to itself.
StopIsAlone ==
    \A k \in Callers : cpc[k] = "closing" =>
        /\ \A t \in Tasks : pc[t] = "done"
        /\ client = NoClient /\ assembler = NoAssembler

OneUserInv ==
    /\ TypeOK
    /\ Armed /\ NoLostUpdate
    /\ RunsOwned /\ CallersOwn /\ StopIsAlone
    /\ NoUpdateOnceStopped

\* A new assembler has nothing to show, so it cannot owe an update.
LEMMA NewIsBlank ==
    \A c : /\ ~NewAssembler(c).readable
           /\ NewAssembler(c).session = c
BY DEF NewAssembler

LEMMA LoopEffect ==
    ASSUME TypeOK, NEW t \in Tasks, NEW asm, Loop(t, asm)
    PROVE  /\ \A u \in Tasks : u # t => pc'[u] = pc[u]
           /\ assembler' = asm \/ ~assembler'.readable
<1>1. CASE MoveTo(t, "done", NoClient) /\ assembler' = asm
  BY <1>1 DEF MoveTo, TypeOK
<1>2. CASE \E c \in Clients :
             MoveTo(t, "connecting", c) /\ assembler' = NewAssembler(c)
  BY <1>2, NewIsBlank DEF MoveTo, TypeOK
<1> QED BY <1>1, <1>2 DEF Loop

LEMMA AfterTeardownEffect ==
    ASSUME TypeOK, NEW t \in Tasks, NEW how, NEW asm, AfterTeardown(t, how, asm)
    PROVE  /\ \A u \in Tasks : u # t => pc'[u] = pc[u]
           /\ assembler' = asm \/ ~assembler'.readable
<1>1. CASE MoveTo(t, "done", NoClient) /\ assembler' = asm
  BY <1>1 DEF MoveTo, TypeOK
<1> QED BY <1>1, LoopEffect DEF AfterTeardown

LEMMA HoldEndsEffect ==
    ASSUME TypeOK, NEW t \in Tasks, NEW how, HoldEnds(t, how)
    PROVE  /\ \A u \in Tasks : u # t => pc'[u] = pc[u]
           /\ ~assembler'.readable
<1>1. ~NoAssembler.readable BY NewIsBlank DEF NoAssembler
<1>2. CASE MoveTo(t, how, client) /\ assembler' = NoAssembler
  BY <1>1, <1>2 DEF MoveTo, TypeOK
<1>3. CASE AfterTeardown(t, how, NoAssembler)
  BY <1>1, <1>3, AfterTeardownEffect
<1> QED BY <1>2, <1>3 DEF HoldEnds

\* What a step of the run loop leaves alone.
RunEffect(t) ==
    /\ pc[t] # "done"
    /\ \A u \in Tasks : u # t => pc'[u] = pc[u]
    /\ UNCHANGED <<task, timer, pending, join>>
    /\ \A k \in Callers :
         cpc'[k] = cpc[k] \/ (cpc[k] = "starting" /\ cpc'[k] = "released")
    /\ assembler' = assembler \/ ~assembler'.readable

LEMMA OpenedEffect ==
    ASSUME TypeOK, NEW t \in Tasks, pc[t] # "done", Opened(t)
    PROVE  RunEffect(t)
<1>1. UNCHANGED <<task, timer, pending, join>> BY DEF Opened, flush
<1>2. \A k \in Callers :
        cpc'[k] = cpc[k] \/ (cpc[k] = "starting" /\ cpc'[k] = "released")
  BY DEF Opened
<1>3. /\ \A u \in Tasks : u # t => pc'[u] = pc[u]
      /\ assembler' = assembler \/ ~assembler'.readable
  <2>1. CASE HoldEnds(t, "closing") BY <2>1, HoldEndsEffect
  <2>2. CASE ~HoldEnds(t, "closing") BY <2>2 DEF Opened, MoveTo, TypeOK
  <2> QED BY <2>1, <2>2
<1> QED BY <1>1, <1>2, <1>3 DEF RunEffect

LEMMA RunStepEffect ==
    ASSUME TypeOK, NEW t \in Tasks, RunStep(t)
    PROVE  RunEffect(t)
<1>1. CASE RunBegins(t) \/ BackoffEnds(t)
  BY <1>1, LoopEffect DEF RunBegins, BackoffEnds, At, flush, caller, RunEffect
<1>2. CASE ConnectSucceeds(t) \/ ConnectFails(t) \/ SubscribeFails(t)
  BY <1>2 DEF ConnectSucceeds, ConnectFails, SubscribeFails, At, MoveTo, loop, flush,
              caller, RunEffect, TypeOK
<1>3. CASE Subscribed(t) \/ Primed(t)
  <2>1. pc[t] # "done" BY <1>3 DEF Subscribed, Primed, At
  <2>2. CASE Opened(t) BY <2>1, <2>2, OpenedEffect
  <2>3. CASE ~Opened(t)
    BY <1>3, <2>1, <2>3 DEF Subscribed, Primed, MoveTo, loop, flush, caller, RunEffect,
                            TypeOK
  <2> QED BY <2>2, <2>3
<1>4. CASE KeepaliveDue(t) \/ RunCancelled(t)
  BY <1>4 DEF KeepaliveDue, RunCancelled, At, MoveTo, loop, flush, caller, RunEffect,
              TypeOK
<1>5. CASE PingSucceeds(t) \/ PingFails(t)
  <2>1. /\ pc[t] # "done" /\ UNCHANGED <<task, timer, pending, join, cpc>>
    BY <1>5 DEF PingSucceeds, PingFails, At, flush, caller
  <2>2. CASE HoldEnds(t, "closing") BY <2>1, <2>2, HoldEndsEffect DEF RunEffect
  <2>3. CASE ~HoldEnds(t, "closing")
    BY <1>5, <2>1, <2>3 DEF PingSucceeds, PingFails, MoveTo, RunEffect, TypeOK
  <2> QED BY <2>2, <2>3
<1>6. CASE HoldReturns(t) \/ PingCancelled(t)
  <2>1. /\ pc[t] # "done" /\ UNCHANGED <<task, timer, pending, join, cpc>>
    BY <1>6 DEF HoldReturns, PingCancelled, flush, caller
  <2>2. \E how : HoldEnds(t, how) BY <1>6 DEF HoldReturns, PingCancelled
  <2> QED BY <2>1, <2>2, HoldEndsEffect DEF RunEffect
<1>7. CASE RunDisconnected(t)
  BY <1>7, AfterTeardownEffect DEF RunDisconnected, At, flush, caller, RunEffect
<1> QED BY <1>1, <1>2, <1>3, <1>4, <1>5, <1>6, <1>7 DEF RunStep

LEMMA RunStepKeeps ==
    ASSUME OneUserInv, NEW t \in Tasks, RunStep(t)
    PROVE  OneUserInv'
<1>1. RunEffect(t) BY RunStepEffect DEF OneUserInv
<1>2. TypeOK' BY RunStepType DEF OneUserInv
<1>3. Armed' /\ NoLostUpdate'
  BY <1>1 DEF OneUserInv, Armed, NoLostUpdate, RunEffect
<1>4. \A k \in Callers : (cpc[k] \in {"joining", "closing"} <=> cpc'[k] \in {"joining", "closing"})
                         /\ (cpc[k] = "joining" <=> cpc'[k] = "joining")
                         /\ (cpc[k] = "closing" <=> cpc'[k] = "closing")
                         /\ (cpc'[k] \in {"starting", "released"}
                               => cpc[k] \in {"starting", "released"})
  BY <1>1 DEF RunEffect
<1>5. RunsOwned'
  BY <1>1, <1>4 DEF RunEffect, RunsOwned, OneUserInv
<1>6. CallersOwn'
  BY <1>1, <1>4 DEF RunEffect, CallersOwn, OneUserInv
<1>7. StopIsAlone'
  BY <1>1, <1>4 DEF RunEffect, StopIsAlone, OneUserInv
<1>8. t = task \/ \E k \in Callers : cpc[k] = "joining"
  BY <1>1 DEF RunEffect, RunsOwned, OneUserInv
<1>9. NoUpdateOnceStopped'
  <2>1. t # NoTask BY NoneAssumption
  <2>2. ~Stopped' BY <1>1, <1>4, <1>8, <2>1 DEF Stopped, RunEffect
  <2> QED BY <2>2 DEF NoUpdateOnceStopped
<1> QED BY <1>2, <1>3, <1>5, <1>6, <1>7, <1>9 DEF OneUserInv

LEMMA WokenDone ==
    ASSUME TypeOK, NEW t \in Tasks
    PROVE  Woken(pc)[t] = "done" <=> pc[t] = "done"
BY DEF Woken, TypeOK

\* With one user, a call that is not itself a stop finds no stop under way.
LEMMA NobodyElse ==
    ASSUME OneUser, OneUserInv, NEW k \in Callers, cpc[k] \in {"idle", "starting", "released"}
    PROVE  \A t \in Tasks : pc[t] # "done" => t = task
BY DEF OneUser, OneUserInv, RunsOwned

LEMMA StartKeeps ==
    ASSUME OneUser, OneUserInv, NEW k \in Callers, Start(k)
    PROVE  OneUserInv'
<1>1. TypeOK' BY CallerType DEF OneUserInv
<1>2. /\ UNCHANGED <<assembler, timer, pending, client, join>> /\ cpc[k] = "idle"
      /\ cpc' = [cpc EXCEPT ![k] = IF connected THEN "idle" ELSE "starting"]
  BY DEF Start, flush
<1>3. PICK t \in Tasks : task' = t /\ pc' = [pc EXCEPT ![t] = "begin"]
  BY DEF Start
<1>4. \A u \in Tasks : pc[u] = "done"
  <2>1. \A u \in Tasks : pc[u] # "done" => u = task BY <1>2, NobodyElse
  <2> QED BY <2>1, NoneAssumption DEF Start, Running
<1>5. \A j \in Callers : cpc'[j] \in {"idle", "starting"}
  BY <1>2 DEF OneUser, OneUserInv, TypeOK
<1>6. Armed' /\ NoLostUpdate' BY <1>2 DEF OneUserInv, Armed, NoLostUpdate
<1>7. RunsOwned' BY <1>3, <1>4 DEF RunsOwned, OneUserInv, TypeOK
<1>8. CallersOwn' /\ StopIsAlone'
  BY <1>3, <1>5, NoneAssumption DEF CallersOwn, StopIsAlone
<1>9. NoUpdateOnceStopped' BY <1>3, NoneAssumption DEF NoUpdateOnceStopped, Stopped
<1> QED BY <1>1, <1>6, <1>7, <1>8, <1>9 DEF OneUserInv

\* async_stop from its own teardown on, once no run loop is left.
LEMMA StopTeardownKeeps ==
    ASSUME OneUser, OneUserInv, NEW k \in Callers, StopTeardown(k),
           TypeOK', task' = NoTask,
           \A t \in Tasks : pc'[t] = "done"
    PROVE  OneUserInv'
<1>1. ~assembler'.readable /\ assembler' = NoAssembler /\ client' = NoClient
      /\ ~connected'
  BY NewIsBlank DEF StopTeardown, NoAssembler
<1>2. CASE cpc' = [cpc EXCEPT ![k] = "closing"] /\ UNCHANGED flush
  <2>1. \A j \in Callers : cpc'[j] = "closing"
    BY <1>2 DEF OneUser, OneUserInv, TypeOK
  <2>2. Armed' /\ NoLostUpdate'
    BY <1>1, <1>2 DEF OneUserInv, Armed, NoLostUpdate, flush
  <2>3. ~Stopped' BY <2>1 DEF Stopped
  <2> QED
    BY <1>1, <2>1, <2>2, <2>3
    DEF OneUserInv, RunsOwned, CallersOwn, StopIsAlone, NoUpdateOnceStopped
<1>3. CASE cpc' = [cpc EXCEPT ![k] = "idle"] /\ ~timer' /\ ~pending'
  <2>1. \A j \in Callers : cpc'[j] = "idle"
    BY <1>3 DEF OneUser, OneUserInv, TypeOK
  <2>2. Armed' /\ NoLostUpdate' BY <1>1, <1>3 DEF Armed, NoLostUpdate
  <2> QED
    BY <1>1, <1>3, <2>1, <2>2
    DEF OneUserInv, RunsOwned, CallersOwn, StopIsAlone, NoUpdateOnceStopped
<1> QED BY <1>2, <1>3 DEF StopTeardown, CallerAt, CancelFlush

LEMMA StopBeginsKeeps ==
    ASSUME OneUser, OneUserInv, NEW k \in Callers, cpc[k] \in {"idle", "starting", "released"},
           StopBegins(k), calls' \in 0..MaxCalls
    PROVE  OneUserInv'
<1>1. TypeOK' BY StopBeginsType DEF OneUserInv
<1>2. \A t \in Tasks : pc'[t] = "done" <=> pc[t] = "done"
  BY WokenDone DEF StopBegins, OneUserInv
<1>3. CASE ~Running /\ StopTeardown(k)
  <2>1. \A t \in Tasks : pc[t] = "done"
    <3>1. \A t \in Tasks : pc[t] # "done" => t = task BY NobodyElse
    <3> QED BY <1>3, <3>1, NoneAssumption DEF Running
  <2> QED BY <1>1, <1>2, <1>3, <2>1, StopTeardownKeeps DEF StopBegins
<1>4. CASE /\ Running
           /\ CallerAt(k, "joining", task, NoClient)
           /\ UNCHANGED <<client, assembler, connected, flush>>
  <2>1. \A j \in Callers : cpc'[j] = "joining" /\ join'[j] = task /\ j = k
    BY <1>4 DEF OneUser, OneUserInv, TypeOK, CallerAt
  <2>2. task' = NoTask BY DEF StopBegins
  <2>3. Armed' /\ NoLostUpdate'
    BY <1>4 DEF OneUserInv, Armed, NoLostUpdate, flush
  <2>4. RunsOwned' BY <1>2, <2>1, NobodyElse DEF RunsOwned
  <2>5. CallersOwn' /\ StopIsAlone' /\ ~Stopped'
    BY <2>1, <2>2 DEF CallersOwn, StopIsAlone, Stopped
  <2> QED BY <1>1, <2>3, <2>4, <2>5 DEF OneUserInv, NoUpdateOnceStopped
<1> QED BY <1>3, <1>4 DEF StopBegins

LEMMA CallerKeeps ==
    ASSUME OneUser, OneUserInv, NEW k \in Callers, Start(k) \/ Stop(k) \/ CallerStep(k)
    PROVE  OneUserInv'
<1>1. TypeOK' BY CallerType DEF OneUserInv
<1>2. calls' \in 0..MaxCalls BY <1>1 DEF TypeOK
<1>3. CASE Start(k) BY <1>3, StartKeeps
<1>4. CASE Stop(k) \/ StartGivesUp(k)
  BY <1>2, <1>4, StopBeginsKeeps DEF Stop, StartGivesUp
<1>5. CASE StopJoined(k)
  <2>1. \A j \in Callers : cpc[j] = "joining" /\ j = k /\ task = NoTask
    BY <1>5 DEF StopJoined, OneUser, OneUserInv, CallersOwn
  <2>2. \A t \in Tasks : pc[t] = "done"
    BY <1>5, <2>1, NoneAssumption DEF StopJoined, OneUserInv, RunsOwned
  <2> QED BY <1>1, <1>5, <2>1, <2>2, StopTeardownKeeps DEF StopJoined, run
<1>6. CASE StopDisconnected(k)
  <2>1. /\ \A t \in Tasks : pc[t] = "done"
        /\ client = NoClient /\ assembler = NoAssembler /\ task = NoTask
    BY <1>6 DEF StopDisconnected, OneUserInv, StopIsAlone, CallersOwn
  <2>2. /\ UNCHANGED <<task, client, assembler, pc>>
        /\ ~timer' /\ ~pending' /\ ~connected'
        /\ cpc' = [cpc EXCEPT ![k] = "idle"]
    BY <1>6 DEF StopDisconnected, CancelFlush, CallerAt, run
  <2>3. \A j \in Callers : cpc'[j] = "idle"
    BY <2>2 DEF OneUser, OneUserInv, TypeOK
  <2>4. ~NoAssembler.readable BY NewIsBlank DEF NoAssembler
  <2> QED
    BY <1>1, <2>1, <2>2, <2>3, <2>4
    DEF OneUserInv, Armed, NoLostUpdate, RunsOwned, CallersOwn, StopIsAlone,
        NoUpdateOnceStopped
<1>7. CASE StartReturns(k)
  <2>1. /\ cpc[k] = "released" /\ cpc' = [cpc EXCEPT ![k] = "idle"]
        /\ UNCHANGED <<task, connected, client, assembler, timer, pending, pc, join>>
    BY <1>7 DEF StartReturns, loop, flush, run
  <2>2. task # NoTask /\ \A j \in Callers : cpc[j] = "released" /\ cpc'[j] = "idle"
    BY <2>1 DEF OneUser, OneUserInv, CallersOwn, TypeOK
  <2> QED
    BY <1>1, <2>1, <2>2
    DEF OneUserInv, Armed, NoLostUpdate, RunsOwned, CallersOwn, StopIsAlone,
        NoUpdateOnceStopped, Stopped
<1> QED BY <1>3, <1>4, <1>5, <1>6, <1>7 DEF CallerStep

LEMMA DisconnectedKeeps ==
    ASSUME OneUserInv, NEW c \in Clients, Disconnected(c), TypeOK'
    PROVE  OneUserInv'
<1>1. /\ UNCHANGED <<task, client, assembler, timer, pending, cpc, join>>
      /\ ~connected' /\ pc' = Woken(pc)
  BY DEF Disconnected, OnDisconnected, flush, caller
<1>2. \A t \in Tasks : pc'[t] = "done" <=> pc[t] = "done"
  BY <1>1, WokenDone DEF OneUserInv
<1> QED
  BY <1>1, <1>2
  DEF OneUserInv, Armed, NoLostUpdate, RunsOwned, CallersOwn, StopIsAlone,
      NoUpdateOnceStopped, Stopped

\* The throttle delivers at once when it is idle, and owes the update when not.
LEMMA FrameArrivesKeeps ==
    ASSUME OneUserInv, NEW c \in Clients, FrameArrives(c), TypeOK'
    PROVE  OneUserInv'
<1>1. /\ UNCHANGED <<task, connected, client, pc, cpc, join>>
      /\ timer' = TRUE /\ pending' = (pending \/ timer)
      /\ assembler.session # NoClient
  BY DEF FrameArrives, loop, run, caller
<1>2. PICK usable \in BOOLEAN :
        assembler' = IF timer THEN Fed(assembler, c, usable)
                              ELSE Flushed(Fed(assembler, c, usable))
  BY DEF FrameArrives
<1>3. /\ Fed(assembler, c, usable).unseen = TRUE
      /\ Flushed(Fed(assembler, c, usable)).readable = Fed(assembler, c, usable).readable
      /\ Flushed(Fed(assembler, c, usable)).unseen
           = ~Fed(assembler, c, usable).readable
  BY DEF Fed, Flushed, OneUserInv, TypeOK, Assemblers
<1>4. NoLostUpdate'
  BY <1>1, <1>2, <1>3 DEF NoLostUpdate, OneUserInv, Armed
<1>5. assembler # NoAssembler BY <1>1, NewIsBlank DEF NoAssembler
<1>6. StopIsAlone' /\ NoUpdateOnceStopped'
  BY <1>1, <1>5 DEF StopIsAlone, NoUpdateOnceStopped, Stopped, OneUserInv
<1> QED
  BY <1>1, <1>4, <1>6 DEF OneUserInv, Armed, RunsOwned, CallersOwn

LEMMA ThrottleEndsKeeps ==
    ASSUME OneUserInv, ThrottleEnds, TypeOK'
    PROVE  OneUserInv'
<1>1. /\ UNCHANGED <<task, connected, client, pc, cpc, join>>
      /\ timer /\ timer' = pending /\ pending' = FALSE
      /\ assembler' = IF pending THEN Flushed(assembler) ELSE assembler
  BY DEF ThrottleEnds, loop, run, caller
<1>2. /\ Flushed(assembler).readable = assembler.readable
      /\ Flushed(assembler).readable => ~Flushed(assembler).unseen
      /\ Flushed(assembler).session = assembler.session
  BY DEF Flushed, OneUserInv, TypeOK, Assemblers
<1>3. NoLostUpdate' BY <1>1, <1>2 DEF NoLostUpdate, OneUserInv
<1>4. Flushed(NoAssembler) = NoAssembler
  <2>1. NoAssembler = [session |-> NoClient, sources |-> {}, readable |-> FALSE,
                       unseen |-> FALSE]
    BY DEF NoAssembler, NewAssembler
  <2>2. Flushed(NoAssembler) = [NoAssembler EXCEPT !.unseen = FALSE]
    BY <2>1 DEF Flushed
  <2> QED BY <2>1, <2>2
<1>5. StopIsAlone' /\ NoUpdateOnceStopped'
  BY <1>1, <1>4 DEF StopIsAlone, NoUpdateOnceStopped, Stopped, OneUserInv
<1> QED
  BY <1>1, <1>3, <1>5 DEF OneUserInv, Armed, RunsOwned, CallersOwn

LEMMA NextKeeps ==
    ASSUME OneUser, OneUserInv, [Next]_vars
    PROVE  OneUserInv'
<1>1. TypeOK' BY NextType DEF OneUserInv
<1>2. CASE UNCHANGED vars
  BY <1>1, <1>2
  DEF vars, loop, flush, run, caller, world, OneUserInv, Armed, NoLostUpdate,
      RunsOwned, CallersOwn, StopIsAlone, NoUpdateOnceStopped, Stopped
<1>3. ASSUME NEW c \in Clients, FrameArrives(c) \/ LinkDrops(c) \/ LinkCloses(c)
      PROVE  OneUserInv'
  BY <1>1, <1>3, DisconnectedKeeps, FrameArrivesKeeps DEF LinkDrops, LinkCloses
<1> QED
  BY <1>1, <1>2, <1>3, RunStepKeeps, CallerKeeps, ThrottleEndsKeeps DEF Next

LEMMA InitKeeps ==
    ASSUME Init PROVE OneUserInv
<1>1. ~NoAssembler.readable BY NewIsBlank DEF NoAssembler
<1> QED
  BY <1>1, InitType
  DEF Init, OneUserInv, Armed, NoLostUpdate, RunsOwned, CallersOwn, StopIsAlone,
      NoUpdateOnceStopped

\* For one user and any faults: no news is lost and none is made up.
THEOREM NoUpdateIsLost ==
    ASSUME OneUser PROVE Spec => []NoLostUpdate
<1>1. Init => OneUserInv BY InitKeeps
<1>2. OneUserInv /\ [Next]_vars => OneUserInv' BY NextKeeps
<1>3. OneUserInv => NoLostUpdate BY DEF OneUserInv
<1> QED BY <1>1, <1>2, <1>3, PTL DEF Spec

\* For one user and any faults: no reading can reach on_update after a stop.
THEOREM NoUpdateAfterStop ==
    ASSUME OneUser PROVE Spec => []NoUpdateOnceStopped
<1>1. Init => OneUserInv BY InitKeeps
<1>2. OneUserInv /\ [Next]_vars => OneUserInv' BY NextKeeps
<1>3. OneUserInv => NoUpdateOnceStopped BY DEF OneUserInv
<1> QED BY <1>1, <1>2, <1>3, PTL DEF Spec

\* For one user, two run loops never drive the connection at once, although a
\* swallowed cancellation leaves the first one to finish at its own pace.
THEOREM RunsAreExclusive ==
    ASSUME OneUser PROVE Spec => []OneRunLoop
<1>1. Init => OneUserInv BY InitKeeps
<1>2. OneUserInv /\ [Next]_vars => OneUserInv' BY NextKeeps
<1>3. ASSUME OneUserInv PROVE OneRunLoop
  <2>1. CASE \E k \in Callers : cpc[k] = "joining"
    BY <1>3, <2>1, NoneAssumption DEF OneUser, OneUserInv, RunsOwned, CallersOwn, OneRunLoop
  <2>2. CASE ~\E k \in Callers : cpc[k] = "joining"
    BY <1>3, <2>2 DEF OneUserInv, RunsOwned, OneRunLoop
  <2> QED BY <2>1, <2>2
<1> QED BY <1>1, <1>2, <1>3, PTL DEF Spec

-----------------------------------------------------------------------------
(* The gateway's one slot: what holds of the links when connects and links *)
(* fail but nothing else does.                                             *)


Mild == Faults \subseteq {"connect", "drop"}

Tearing == {"closing", "unwinding"}
Opening == {"begin", "connecting", "backoff"}
Open == {"subscribing", "priming", "holding", "pinging"}

\* A link that is up is the current client's, or is being disconnected.
UpIsHeld ==
    \A c \in up : \/ c = client
                  \/ \E t \in Tasks : pc[t] \in Tearing /\ local[t] = c
                  \/ \E k \in Callers : cpc[k] = "closing" /\ closing[k] = c

\* What a run loop knows at each label.  The current one goes on to close only
\* what has gone down; one that was detached has been cancelled, and closes a
\* link that is up only if it took the cancellation before.
AtItsLabel(t) ==
    /\ pc[t] \in Opening => client \notin up
    /\ pc[t] = "connecting" => assembler.session = local[t] /\ (t = task => ~dropped)
    /\ pc[t] \in {"subscribing", "priming", "pinging"} => local[t] = client
    /\ pc[t] \in Tearing => client = NoClient /\ assembler = NoAssembler
    /\ t = task /\ (pc[t] = "awoken" \/ (dropped /\ pc[t] \in Open)) => client \notin up
    /\ pc[t] = "closing" /\ local[t] \in up => t # task /\ ~cancelled[t]
    /\ t # task /\ pc[t] \notin Tearing \cup {"done"} => cancelled[t]

StopsStop == \A k \in Callers : cpc[k] = "joining" => stopping

\* The assembler is that of the connection there is, and holds its frames.
Session == (client \in up => assembler.session = client) /\ OwnFramesOnly

FreeingInv ==
    /\ Alive /\ OneUserInv
    /\ UpIsHeld /\ (\A t \in Tasks : AtItsLabel(t)) /\ StopsStop /\ Session

-----------------------------------------------------------------------------
(* A run loop that is alive is alone with its links.                       *)

RunLinks(t) ==
    /\ \A c \in up : c = client \/ (pc[t] \in Tearing /\ local[t] = c)
    /\ AtItsLabel(t)
    /\ Session

LEMMA AloneWithLinks ==
    ASSUME OneUser, FreeingInv, NEW t \in Tasks, pc[t] # "done"
    PROVE  /\ RunLinks(t)
           /\ \A u \in Tasks : u # t => pc[u] = "done"
           /\ \A k \in Callers : cpc[k] # "closing"
           /\ t # task => stopping /\ task = NoTask
           /\ t = task => ~stopping /\ ~cancelled[t]
<1>1. \A k \in Callers : cpc[k] # "closing"
  BY DEF FreeingInv, OneUserInv, StopIsAlone
<1>2. t # task => stopping /\ task = NoTask
  BY DEF FreeingInv, OneUserInv, RunsOwned, CallersOwn, StopsStop
<1>3. t = task => ~stopping /\ ~cancelled[t]
  BY NoneAssumption DEF FreeingInv, Alive, RunningIsAlive
<1>4. ASSUME NEW u \in Tasks, u # t PROVE pc[u] = "done"
  <2>1. CASE \E k \in Callers : cpc[k] = "joining"
    BY <2>1, <1>4, NoneAssumption DEF OneUser, FreeingInv, OneUserInv, RunsOwned, CallersOwn
  <2>2. CASE ~\E k \in Callers : cpc[k] = "joining"
    BY <2>2, <1>4 DEF FreeingInv, OneUserInv, RunsOwned
  <2> QED BY <2>1, <2>2
<1>5. RunLinks(t)
  <2>1. \A u \in Tasks : pc[u] \in Tearing => u = t BY <1>4 DEF Tearing
  <2>2. \A c \in up : c = client \/ (pc[t] \in Tearing /\ local[t] = c)
    BY <1>1, <2>1 DEF FreeingInv, UpIsHeld
  <2> QED BY <2>2 DEF FreeingInv, RunLinks
<1> QED BY <1>1, <1>2, <1>3, <1>4, <1>5

\* Loop is only reached with every link down.
LEMMA LoopLinks ==
    ASSUME TypeOK, NEW t \in Tasks, NEW asm, Loop(t, asm), up' = {},
           asm.sources \subseteq {asm.session}, ~stopping => t = task'
    PROVE  RunLinks(t)'
<1>1. CASE MoveTo(t, "done", NoClient) /\ assembler' = asm
  <2>1. pc'[t] = "done" BY <1>1 DEF MoveTo, TypeOK
  <2>2. AtItsLabel(t)' BY <2>1 DEF AtItsLabel, Opening, Tearing, Open
  <2> QED BY <1>1, <2>2 DEF RunLinks, Session, OwnFramesOnly
<1>2. CASE /\ ~stopping /\ dropped' = FALSE
           /\ \E c \in Clients :
                MoveTo(t, "connecting", c) /\ assembler' = NewAssembler(c)
  <2>1. PICK c \in Clients : MoveTo(t, "connecting", c) /\ assembler' = NewAssembler(c)
    BY <1>2
  <2>2. pc'[t] = "connecting" /\ local'[t] = c BY <2>1 DEF MoveTo, TypeOK
  <2>3. assembler'.session = c /\ assembler'.sources = {} BY <2>1 DEF NewAssembler
  <2>4. AtItsLabel(t)' BY <1>2, <2>2, <2>3 DEF AtItsLabel, Opening, Tearing, Open
  <2> QED BY <2>3, <2>4 DEF RunLinks, Session, OwnFramesOnly
<1> QED BY <1>1, <1>2 DEF Loop

LEMMA NothingHeard == NoAssembler.sources = {} /\ NoAssembler.session = NoClient
BY DEF NoAssembler, NewAssembler

LEMMA AfterTeardownLinks ==
    ASSUME TypeOK, NEW t \in Tasks, NEW how, AfterTeardown(t, how, NoAssembler), up' = {},
           ~stopping => t = task'
    PROVE  RunLinks(t)'
<1>1. CASE MoveTo(t, "done", NoClient) /\ assembler' = NoAssembler
  <2>1. pc'[t] = "done" BY <1>1 DEF MoveTo, TypeOK
  <2>2. AtItsLabel(t)' BY <2>1 DEF AtItsLabel, Opening, Tearing, Open
  <2> QED BY <1>1, <2>2, NothingHeard DEF RunLinks, Session, OwnFramesOnly
<1>2. CASE Loop(t, NoAssembler)
  BY <1>2, LoopLinks, NothingHeard
<1> QED BY <1>1, <1>2 DEF AfterTeardown

LEMMA HoldEndsLinks ==
    ASSUME TypeOK, NEW t \in Tasks, NEW how \in Tearing, HoldEnds(t, how),
           task' = task, ~stopping => t = task, up \subseteq {client},
           how = "closing" /\ client \in up => t # task /\ ~cancelled'[t]
    PROVE  RunLinks(t)'
<1>1. client' = NoClient /\ up' = up /\ NoClient \notin up
  BY NoneAssumption DEF HoldEnds, TypeOK
<1>2. CASE client # NoClient
  <2>1. pc'[t] = how /\ local'[t] = client /\ assembler' = NoAssembler
    BY <1>2 DEF HoldEnds, MoveTo, TypeOK
  <2>2. AtItsLabel(t)' BY <1>1, <2>1 DEF AtItsLabel, Opening, Tearing, Open
  <2> QED BY <1>1, <2>1, <2>2, NothingHeard DEF RunLinks, Session, OwnFramesOnly
<1>3. CASE client = NoClient
  <2>1. up' = {} BY <1>1, <1>3
  <2> QED BY <1>3, <2>1, AfterTeardownLinks DEF HoldEnds
<1> QED BY <1>2, <1>3

-----------------------------------------------------------------------------
(* The steps of a run loop.                                                *)

LEMMA NoOtherFault ==
    ASSUME Mild, NEW kind \in {"subscribe", "write", "disconnect", "consumer"}
    PROVE  ~FaultHappens(kind)
BY DEF Mild, FaultHappens

LEMMA LoopFromRest ==
    ASSUME OneUser, FreeingInv, NEW t \in Tasks, RunBegins(t) \/ BackoffEnds(t)
    PROVE  RunLinks(t)'
<1>1. /\ pc[t] \in {"begin", "backoff"} /\ ~cancelled[t]
      /\ UNCHANGED <<task, client, up>> /\ Loop(t, assembler)
  BY DEF RunBegins, BackoffEnds, At
<1>2. RunLinks(t) /\ (~stopping => t = task)
  BY <1>1, AloneWithLinks
<1>3. up' = {}
  BY <1>1, <1>2 DEF RunLinks, AtItsLabel, Opening, Tearing
<1>4. assembler.sources \subseteq {assembler.session}
  BY <1>2 DEF RunLinks, Session, OwnFramesOnly
<1> QED BY <1>1, <1>2, <1>3, <1>4, LoopLinks DEF FreeingInv, OneUserInv

LEMMA ConnectLinks ==
    ASSUME OneUser, FreeingInv, NEW t \in Tasks, ConnectSucceeds(t) \/ ConnectFails(t)
    PROVE  RunLinks(t)'
<1>1. /\ pc[t] = "connecting" /\ ~cancelled[t]
      /\ UNCHANGED <<task, dropped, assembler, cancelled>>
  BY DEF ConnectSucceeds, ConnectFails, At, loop
<1>2. RunLinks(t) /\ up = {} /\ (t # task => FALSE)
  BY <1>1, AloneWithLinks DEF RunLinks, AtItsLabel, Opening, Tearing
<1>3. local[t] \in Clients
  BY <1>1 DEF FreeingInv, OneUserInv, TypeOK, Dialling
<1>4. CASE ConnectSucceeds(t)
  <2>1. /\ pc'[t] = "subscribing" /\ local'[t] = local[t]
        /\ client' = local[t] /\ up' = {local[t]}
    BY <1>2, <1>4 DEF ConnectSucceeds, MoveTo, FreeingInv, OneUserInv, TypeOK
  <2>2. assembler'.session = client'
    BY <1>1, <1>2, <2>1 DEF RunLinks, AtItsLabel
  <2> QED
    BY <1>1, <1>2, <2>1, <2>2
    DEF RunLinks, AtItsLabel, Session, OwnFramesOnly, Opening, Tearing, Open
<1>5. CASE ConnectFails(t)
  <2>1. pc'[t] = "backoff" /\ UNCHANGED <<client, up>>
    BY <1>5 DEF ConnectFails, MoveTo, loop, FreeingInv, OneUserInv, TypeOK
  <2> QED
    BY <1>1, <1>2, <2>1
    DEF RunLinks, AtItsLabel, Session, OwnFramesOnly, Opening, Tearing, Open
<1> QED BY <1>4, <1>5

LEMMA CurrentUnlessCancelled ==
    ASSUME OneUser, FreeingInv, NEW t \in Tasks, ~cancelled[t],
           pc[t] \notin {"done", "closing", "unwinding"}
    PROVE  t = task /\ ~stopping /\ RunLinks(t) /\ up \subseteq {client}
BY AloneWithLinks DEF RunLinks, AtItsLabel, Tearing

LEMMA SubscribeFailsLinks ==
    ASSUME OneUser, Mild, FreeingInv, NEW t \in Tasks, SubscribeFails(t)
    PROVE  RunLinks(t)'
<1>1. /\ pc[t] = "subscribing" /\ ~cancelled[t] /\ local[t] \notin up
      /\ UNCHANGED <<task, client, dropped, assembler, cancelled, up>>
  BY NoOtherFault DEF SubscribeFails, At, loop
<1>2. pc'[t] = "backoff"
  BY DEF SubscribeFails, MoveTo, FreeingInv, OneUserInv, TypeOK
<1>3. t = task /\ RunLinks(t) /\ client \notin up
  BY <1>1, CurrentUnlessCancelled DEF RunLinks, AtItsLabel
<1> QED
  BY <1>1, <1>2, <1>3
  DEF RunLinks, AtItsLabel, Session, OwnFramesOnly, Opening, Tearing, Open

\* A connection that is up and wanted stays; one that is not is torn down.
LEMMA StaysUpLinks ==
    ASSUME OneUser, FreeingInv, NEW t \in Tasks, ~cancelled[t],
           pc[t] \in {"subscribing", "priming", "pinging"},
           UNCHANGED <<task, cancelled>>,
           \/ /\ StaysUp
              /\ MoveTo(t, "holding", NoClient)
              /\ UNCHANGED <<client, dropped, assembler, up>>
           \/ ~StaysUp /\ HoldEnds(t, "closing")
    PROVE  RunLinks(t)'
<1>1. t = task /\ ~stopping /\ RunLinks(t) /\ up \subseteq {client}
  BY CurrentUnlessCancelled
<1>2. CASE /\ StaysUp
           /\ MoveTo(t, "holding", NoClient)
           /\ UNCHANGED <<client, dropped, assembler, up>>
  <2>1. pc'[t] = "holding" /\ ~dropped'
    BY <1>2 DEF StaysUp, MoveTo, FreeingInv, OneUserInv, TypeOK
  <2>2. AtItsLabel(t)' BY <1>1, <2>1 DEF AtItsLabel, Opening, Tearing
  <2> QED BY <1>1, <1>2, <2>2 DEF RunLinks, Session, OwnFramesOnly
<1>3. CASE ~StaysUp /\ HoldEnds(t, "closing")
  <2>1. client \notin up
    BY <1>1, <1>3 DEF StaysUp, RunLinks, AtItsLabel, Open
  <2> QED BY <1>1, <1>3, <2>1, HoldEndsLinks DEF FreeingInv, OneUserInv, Tearing
<1> QED BY <1>2, <1>3

LEMMA OpenedLinks ==
    ASSUME OneUser, Mild, FreeingInv, NEW t \in Tasks, Subscribed(t) \/ Primed(t)
    PROVE  RunLinks(t)'
<1>1. pc[t] \in {"subscribing", "priming"} /\ ~cancelled[t] /\ UNCHANGED <<task, cancelled>>
  BY DEF Subscribed, Primed, Opened, At, loop
<1>2. CASE Opened(t)
  BY <1>1, <1>2, NoOtherFault, StaysUpLinks DEF Opened
<1>3. CASE ~Opened(t)
  <2>1. /\ pc'[t] = "priming" /\ local'[t] = client
        /\ UNCHANGED <<client, dropped, assembler, up>>
    BY <1>3 DEF Subscribed, Primed, MoveTo, loop, world, FreeingInv, OneUserInv, TypeOK
  <2>2. t = task /\ RunLinks(t) /\ up \subseteq {client}
    BY <1>1, CurrentUnlessCancelled
  <2>3. pc[t] \in Open /\ pc'[t] \in Open BY <1>1, <2>1 DEF Open
  <2> QED
    BY <1>1, <2>1, <2>2, <2>3 DEF RunLinks, AtItsLabel, Session, OwnFramesOnly, Opening, Tearing
<1> QED BY <1>2, <1>3

LEMMA KeepaliveLinks ==
    ASSUME OneUser, Mild, FreeingInv, NEW t \in Tasks,
           KeepaliveDue(t) \/ PingSucceeds(t) \/ PingFails(t)
    PROVE  RunLinks(t)'
<1>1. pc[t] \in {"holding", "pinging"} /\ ~cancelled[t] /\ UNCHANGED <<task, cancelled>>
  BY DEF KeepaliveDue, PingSucceeds, PingFails, At, loop
<1>2. t = task /\ ~stopping /\ RunLinks(t) /\ up \subseteq {client}
  BY <1>1, CurrentUnlessCancelled
<1>3. CASE KeepaliveDue(t)
  <2>1. /\ pc'[t] = "pinging" /\ local'[t] = client
        /\ UNCHANGED <<client, dropped, assembler, up>>
    BY <1>3 DEF KeepaliveDue, MoveTo, loop, world, FreeingInv, OneUserInv, TypeOK
  <2>2. pc[t] \in Open /\ pc'[t] \in Open BY <1>1, <2>1 DEF Open
  <2> QED
    BY <1>1, <1>2, <2>1, <2>2 DEF RunLinks, AtItsLabel, Session, OwnFramesOnly, Opening, Tearing
<1>4. CASE PingSucceeds(t)
  BY <1>1, <1>4, StaysUpLinks DEF PingSucceeds, At
<1>5. CASE PingFails(t)
  <2>1. client \notin up
    BY <1>2, <1>5, NoOtherFault DEF PingFails, At, RunLinks, AtItsLabel
  <2> QED BY <1>1, <1>2, <1>5, <2>1, HoldEndsLinks DEF PingFails, FreeingInv, OneUserInv, Tearing
<1> QED BY <1>3, <1>4, <1>5

LEMMA HoldReturnsLinks ==
    ASSUME OneUser, FreeingInv, NEW t \in Tasks, HoldReturns(t) \/ PingCancelled(t)
    PROVE  RunLinks(t)'
<1>1. /\ pc[t] \in {"awoken", "pinging"} /\ task' = task /\ ~cancelled'[t]
      /\ \E how \in Tearing : HoldEnds(t, how) /\ (how = "closing" => pc[t] = "awoken")
  BY DEF HoldReturns, PingCancelled, Tearing, FreeingInv, OneUserInv, TypeOK
<1>2. RunLinks(t) /\ (~stopping => t = task) BY <1>1, AloneWithLinks
<1>3. up \subseteq {client} /\ (pc[t] = "awoken" /\ client \in up => t # task)
  BY <1>1, <1>2 DEF RunLinks, AtItsLabel, Tearing
<1> QED BY <1>1, <1>2, <1>3, HoldEndsLinks DEF FreeingInv, OneUserInv

LEMMA RunDisconnectedLinks ==
    ASSUME OneUser, Mild, FreeingInv, NEW t \in Tasks, RunDisconnected(t)
    PROVE  RunLinks(t)'
<1>1. /\ pc[t] \in Tearing /\ DisconnectReturns(local[t])
      /\ AfterTeardown(t, pc[t], assembler) /\ task' = task
  BY DEF RunDisconnected, At, Tearing
<1>2. RunLinks(t) /\ (~stopping => t = task)
  BY <1>1, AloneWithLinks DEF Tearing
<1>3. up \subseteq {local[t]} /\ assembler = NoAssembler
  BY <1>1, <1>2, NoneAssumption DEF RunLinks, AtItsLabel, FreeingInv, OneUserInv, TypeOK
<1>4. up' = {} BY <1>1, <1>3, NoOtherFault DEF DisconnectReturns
<1> QED BY <1>1, <1>2, <1>3, <1>4, AfterTeardownLinks DEF FreeingInv, OneUserInv

\* What a cancelled loop leaves behind is the current client, or has gone down.
LEMMA RunCancelledLinks ==
    ASSUME OneUser, FreeingInv, NEW t \in Tasks, RunCancelled(t)
    PROVE  RunLinks(t)'
<1>1. /\ cancelled[t] /\ pc[t] \notin {"done", "unwinding"}
      /\ UNCHANGED <<client, assembler, up>>
  BY DEF RunCancelled, loop, world
<1>2. pc'[t] = "done" BY DEF RunCancelled, MoveTo, FreeingInv, OneUserInv, TypeOK
<1>3. RunLinks(t) BY <1>1, AloneWithLinks
<1>4. up \subseteq {client} BY <1>1, <1>3 DEF RunLinks, AtItsLabel, Tearing
<1>5. AtItsLabel(t)' BY <1>2 DEF AtItsLabel, Opening, Tearing, Open
<1> QED BY <1>1, <1>3, <1>4, <1>5 DEF RunLinks, Session, OwnFramesOnly

LEMMA RunStepFrees ==
    ASSUME OneUser, Mild, FreeingInv, NEW t \in Tasks, RunStep(t)
    PROVE  FreeingInv'
<1>1. Alive' BY NextAlive DEF FreeingInv, Next
<1>2. OneUserInv' BY RunStepKeeps DEF FreeingInv
<1>3. RunEffect(t) BY RunStepEffect DEF FreeingInv, OneUserInv
<1>4. RunLinks(t)'
  BY LoopFromRest, ConnectLinks, SubscribeFailsLinks, OpenedLinks, KeepaliveLinks,
     HoldReturnsLinks, RunDisconnectedLinks, RunCancelledLinks
  DEF RunStep
<1>5. \A u \in Tasks : u # t => pc'[u] = "done"
  BY <1>3, AloneWithLinks DEF RunEffect
<1>6. ASSUME NEW u \in Tasks PROVE AtItsLabel(u)'
  <2>1. CASE u = t BY <1>4, <2>1 DEF RunLinks
  <2>2. CASE u # t BY <1>5, <2>2 DEF AtItsLabel, Opening, Tearing, Open
  <2> QED BY <2>1, <2>2
<1>7. UpIsHeld' BY <1>4 DEF RunLinks, UpIsHeld
<1>8. stopping' = stopping
  BY DEF RunStep, RunBegins, ConnectSucceeds, ConnectFails, Subscribed, SubscribeFails, Primed,
         Opened, BackoffEnds, KeepaliveDue, PingSucceeds, PingFails, HoldReturns,
         RunDisconnected, RunCancelled, PingCancelled, loop
<1>9. StopsStop' BY <1>3, <1>8 DEF StopsStop, RunEffect, FreeingInv
<1> QED BY <1>1, <1>2, <1>4, <1>6, <1>7, <1>9 DEF FreeingInv, RunLinks

-----------------------------------------------------------------------------
(* The steps of the caller.                                                *)

\* Once a stop has returned, the gateway is free.
LEMMA FreeAtRest ==
    ASSUME FreeingInv, Stopped
    PROVE  up = {} /\ client = NoClient /\ \A t \in Tasks : pc[t] = "done"
<1>1. client = NoClient /\ \A t \in Tasks : pc[t] = "done"
  BY DEF FreeingInv, OneUserInv, NoUpdateOnceStopped
<1>2. \A c \in up : c = NoClient
  BY <1>1 DEF FreeingInv, UpIsHeld, Stopped, Tearing
<1>3. up \subseteq Clients BY DEF FreeingInv, OneUserInv, TypeOK
<1> QED BY <1>1, <1>2, <1>3, NoneAssumption

\* A stream that is not running, and that nobody is stopping, is at rest.
LEMMA NotRunningIsStopped ==
    ASSUME OneUser, FreeingInv, NEW k \in Callers, ~Running,
           cpc[k] \in {"idle", "starting", "released"}
    PROVE  Stopped
<1>1. task = NoTask BY DEF FreeingInv, Alive, RunningIsAlive, Running
<1>2. cpc[k] = "idle" BY <1>1 DEF FreeingInv, OneUserInv, CallersOwn
<1> QED BY <1>1, <1>2 DEF Stopped, OneUser

LEMMA StartFrees ==
    ASSUME OneUser, FreeingInv, NEW k \in Callers, Start(k), Alive', OneUserInv'
    PROVE  FreeingInv'
<1>1. cpc[k] = "idle" /\ ~Running /\ UNCHANGED <<client, assembler, up>>
  BY DEF Start, world
<1>2. up = {} /\ client = NoClient /\ \A t \in Tasks : pc[t] = "done"
  BY <1>1, NotRunningIsStopped, FreeAtRest
<1>3. PICK t \in Tasks : task' = t /\ pc' = [pc EXCEPT ![t] = "begin"]
  BY DEF Start
<1>4. \A u \in Tasks : AtItsLabel(u)'
  <2>1. \A u \in Tasks : pc'[u] = "done" \/ (pc'[u] = "begin" /\ u = task')
    BY <1>2, <1>3 DEF FreeingInv, OneUserInv, TypeOK
  <2> QED BY <1>1, <1>2, <2>1 DEF AtItsLabel, Opening, Tearing, Open
<1>5. \A j \in Callers : cpc'[j] # "joining"
  BY <1>1 DEF Start, OneUser, FreeingInv, OneUserInv, TypeOK
<1> QED
  BY <1>1, <1>2, <1>4, <1>5
  DEF FreeingInv, UpIsHeld, StopsStop, Session, OwnFramesOnly

LEMMA StopBeginsFrees ==
    ASSUME OneUser, FreeingInv, NEW k \in Callers, cpc[k] \in {"idle", "starting", "released"},
           StopBegins(k), Alive', OneUserInv'
    PROVE  FreeingInv'
<1>1. /\ stopping' /\ dropped' /\ pc' = Woken(pc) /\ task' = NoTask
      /\ UNCHANGED <<local, up>>
  BY DEF StopBegins, world
<1>2. StopsStop' BY <1>1 DEF StopsStop
<1>3. CASE Running
  <2>1. PICK t \in Tasks : t = task
    BY <1>3 DEF Running, FreeingInv, OneUserInv, TypeOK
  <2>2. pc[t] # "done" /\ cancelled'[t] /\ UNCHANGED <<client, assembler>>
    BY <1>3, <2>1 DEF StopBegins, Running, FreeingInv, OneUserInv, TypeOK
  <2>3. /\ RunLinks(t) /\ pc[t] # "unwinding"
        /\ \A u \in Tasks : u # t => pc[u] = "done"
    BY <2>1, <2>2, AloneWithLinks, NoneAssumption DEF FreeingInv, Alive, RunningIsAlive
  <2>4. /\ pc'[t] = IF pc[t] = "holding" THEN "awoken" ELSE pc[t]
        /\ \A u \in Tasks : u # t => pc'[u] = "done"
    BY <1>1, <2>2, <2>3 DEF Woken
  <2>5. \A u \in Tasks : AtItsLabel(u)'
    <3>1. AtItsLabel(t)'
      BY <1>1, <2>1, <2>2, <2>3, <2>4, NoneAssumption
      DEF RunLinks, AtItsLabel, Opening, Tearing, Open
    <3>2. ASSUME NEW u \in Tasks, u # t PROVE AtItsLabel(u)'
      BY <2>4, <3>2 DEF AtItsLabel, Opening, Tearing, Open
    <3> QED BY <3>1, <3>2
  <2>6. UpIsHeld'
    BY <1>1, <2>2, <2>3, <2>4 DEF RunLinks, UpIsHeld, Tearing
  <2>7. Session' BY <1>1, <2>2 DEF FreeingInv, Session, OwnFramesOnly
  <2> QED BY <1>2, <2>5, <2>6, <2>7 DEF FreeingInv
<1>4. CASE ~Running
  <2>1. up = {} /\ client = NoClient /\ \A t \in Tasks : pc[t] = "done"
    BY <1>4, NotRunningIsStopped, FreeAtRest
  <2>2. \A t \in Tasks : pc'[t] = "done" BY <1>1, <2>1 DEF Woken
  <2>3. \A t \in Tasks : AtItsLabel(t)'
    BY <2>2 DEF AtItsLabel, Opening, Tearing, Open
  <2>4. Session'
    BY <1>1, <1>4, <2>1, NothingHeard DEF StopBegins, StopTeardown, Session, OwnFramesOnly
  <2> QED BY <1>1, <1>2, <2>1, <2>3, <2>4 DEF FreeingInv, UpIsHeld
<1> QED BY <1>3, <1>4

\* A start that returns leaves the run it has begun to itself.
LEMMA StartReturnsFrees ==
    ASSUME OneUser, FreeingInv, NEW k \in Callers, StartReturns(k), Alive', OneUserInv'
    PROVE  FreeingInv'
<1>1. /\ UNCHANGED <<task, stopping, dropped, client, assembler, pc, cancelled, local, closing, up>>
      /\ \A j \in Callers : cpc[j] = "released" /\ cpc'[j] = "idle"
  BY DEF StartReturns, loop, run, world, OneUser, FreeingInv, OneUserInv, TypeOK
<1>2. \A t \in Tasks : AtItsLabel(t)'
  BY <1>1 DEF FreeingInv, AtItsLabel
<1> QED BY <1>1, <1>2 DEF FreeingInv, UpIsHeld, StopsStop, Session, OwnFramesOnly

\* The only reader of closing is the one user.
LEMMA StopEndsFrees ==
    ASSUME OneUser, Mild, FreeingInv, NEW k \in Callers,
           StopJoined(k) \/ StopDisconnected(k), Alive', OneUserInv'
    PROVE  FreeingInv' /\ (cpc'[k] = "idle" => up' = {})
<1>1. /\ UNCHANGED <<pc, local, stopping>>
      /\ cpc[k] \in {"joining", "closing"} /\ cpc'[k] \in {"idle", "closing"}
  BY DEF StopJoined, StopDisconnected, StopTeardown, CallerAt, run, FreeingInv, OneUserInv, TypeOK
<1>2. \A t \in Tasks : pc[t] = "done"
  <2>1. CASE cpc[k] = "closing" BY <2>1 DEF FreeingInv, OneUserInv, StopIsAlone
  <2>2. CASE StopJoined(k)
    BY <2>2, NoneAssumption DEF StopJoined, OneUser, FreeingInv, OneUserInv, RunsOwned, CallersOwn
  <2> QED BY <2>1, <2>2 DEF StopDisconnected
<1>3. \A t \in Tasks : AtItsLabel(t)'
  BY <1>1, <1>2 DEF AtItsLabel, Opening, Tearing, Open
<1>4. \A c \in up : c = client \/ (cpc[k] = "closing" /\ closing[k] = c)
  BY <1>2 DEF OneUser, FreeingInv, UpIsHeld, Tearing
<1>5. client' = NoClient /\ NoClient \notin up /\ assembler' = NoAssembler
  BY NoneAssumption DEF StopJoined, StopDisconnected, StopTeardown, FreeingInv, OneUserInv, TypeOK,
                        StopIsAlone
<1>6. /\ \A c \in up' : cpc'[k] = "closing" /\ closing'[k] = c
      /\ NoClient \notin up'
  <2>1. CASE StopJoined(k)
    <3>1. up' = up /\ cpc[k] = "joining" BY <2>1 DEF StopJoined, world
    <3>2. \A c \in up : c = client BY <3>1, <1>4
    <3>3. CASE client = NoClient BY <1>5, <3>1, <3>2, <3>3
    <3>4. CASE client # NoClient
      BY <1>5, <2>1, <3>1, <3>2, <3>4
      DEF StopJoined, StopTeardown, CallerAt, FreeingInv, OneUserInv, TypeOK
    <3> QED BY <3>3, <3>4
  <2>2. CASE StopDisconnected(k)
    <3>1. client = NoClient BY <2>2 DEF StopDisconnected, FreeingInv, OneUserInv, StopIsAlone
    <3>2. \A c \in up : c = closing[k] BY <1>4, <1>5, <3>1
    <3> QED BY <2>2, <3>2, NoOtherFault DEF StopDisconnected, DisconnectReturns
  <2> QED BY <2>1, <2>2
<1>7. StopsStop' BY <1>1 DEF StopsStop, OneUser
<1> QED
  BY <1>3, <1>5, <1>6, <1>7, NothingHeard
  DEF FreeingInv, UpIsHeld, Session, OwnFramesOnly

-----------------------------------------------------------------------------
(* Links, frames and the throttle.                                         *)

LEMMA DisconnectedFrees ==
    ASSUME OneUser, FreeingInv, NEW c \in Clients, Disconnected(c), Alive', OneUserInv'
    PROVE  FreeingInv'
<1>1. /\ c \in up /\ up' = up \ {c} /\ pc' = Woken(pc)
      /\ UNCHANGED <<task, stopping, client, assembler, cancelled, local, cpc, closing>>
  BY DEF Disconnected, OnDisconnected, caller
<1>2. \A t \in Tasks : pc'[t] = IF pc[t] = "holding" THEN "awoken" ELSE pc[t]
  BY <1>1 DEF Woken
<1>3. ASSUME NEW t \in Tasks PROVE AtItsLabel(t)'
  <2>1. CASE pc[t] = "done"
    BY <1>2, <2>1 DEF AtItsLabel, Opening, Tearing, Open
  <2>2. CASE pc[t] \in Tearing
    BY <1>1, <1>2, <2>2 DEF AtItsLabel, Opening, Tearing, Open, FreeingInv
  <2>3. CASE pc[t] \notin Tearing \cup {"done"}
    <3>1. RunLinks(t) /\ c = client BY <1>1, <2>3, AloneWithLinks DEF RunLinks
    <3>2. client \notin up' /\ pc[t] \notin Opening
      BY <1>1, <3>1 DEF RunLinks, AtItsLabel
    <3> QED BY <1>1, <1>2, <2>3, <3>1, <3>2 DEF RunLinks, AtItsLabel, Opening, Tearing, Open
  <2> QED BY <2>1, <2>2, <2>3
<1>4. UpIsHeld' BY <1>1, <1>2 DEF FreeingInv, UpIsHeld, Tearing
<1>5. StopsStop' /\ Session' BY <1>1 DEF FreeingInv, StopsStop, Session, OwnFramesOnly
<1> QED BY <1>3, <1>4, <1>5 DEF FreeingInv

\* A link whose connection is over finds no assembler to feed.
LEMMA FrameArrivesFrees ==
    ASSUME FreeingInv, NEW c \in Clients, FrameArrives(c), Alive', OneUserInv'
    PROVE  FreeingInv'
<1>1. /\ c \in up /\ assembler.session # NoClient
      /\ UNCHANGED <<task, stopping, dropped, client, pc, cancelled, local, cpc, closing, up>>
  BY DEF FrameArrives, loop, run, caller, world
<1>2. assembler # NoAssembler BY <1>1, NothingHeard
<1>3. c = client /\ \A t \in Tasks : pc[t] \notin Tearing
  BY <1>1, <1>2 DEF FreeingInv, UpIsHeld, AtItsLabel, OneUserInv, StopIsAlone
<1>4. assembler.session = c BY <1>1, <1>3 DEF FreeingInv, Session
<1>5. /\ assembler'.session = assembler.session
      /\ assembler'.sources = assembler.sources \cup {c}
  BY DEF FrameArrives, Fed, Flushed, FreeingInv, OneUserInv, TypeOK, Assemblers
<1>6. \A t \in Tasks : AtItsLabel(t)'
  BY <1>1, <1>3, <1>5 DEF FreeingInv, AtItsLabel
<1>7. Session' BY <1>1, <1>4, <1>5 DEF FreeingInv, Session, OwnFramesOnly
<1> QED BY <1>1, <1>6, <1>7 DEF FreeingInv, UpIsHeld, StopsStop

LEMMA ThrottleEndsFrees ==
    ASSUME FreeingInv, ThrottleEnds, Alive', OneUserInv'
    PROVE  FreeingInv'
<1>1. /\ assembler' \in {assembler, Flushed(assembler)}
      /\ UNCHANGED <<task, stopping, dropped, client, pc, cancelled, local, cpc, closing, up>>
  BY DEF ThrottleEnds, loop, run, caller, world
<1>2. /\ assembler'.session = assembler.session
      /\ assembler'.sources = assembler.sources
  BY <1>1 DEF Flushed, FreeingInv, OneUserInv, TypeOK, Assemblers
<1>3. Flushed(NoAssembler) = NoAssembler
  <2>1. NoAssembler = [session |-> NoClient, sources |-> {}, readable |-> FALSE,
                       unseen |-> FALSE]
    BY DEF NoAssembler, NewAssembler
  <2>2. Flushed(NoAssembler) = [NoAssembler EXCEPT !.unseen = FALSE]
    BY <2>1 DEF Flushed
  <2> QED BY <2>1, <2>2
<1>4. \A t \in Tasks : AtItsLabel(t)'
  BY <1>1, <1>2, <1>3 DEF FreeingInv, AtItsLabel
<1> QED
  BY <1>1, <1>2, <1>4 DEF FreeingInv, UpIsHeld, StopsStop, Session, OwnFramesOnly

LEMMA NextFrees ==
    ASSUME OneUser, Mild, FreeingInv, [Next]_vars
    PROVE  FreeingInv'
<1>1. Alive' /\ OneUserInv' BY NextAlive, NextKeeps DEF FreeingInv
<1>2. CASE UNCHANGED vars
  BY <1>1, <1>2
  DEF vars, loop, run, caller, world, FreeingInv, UpIsHeld, AtItsLabel, StopsStop, Session,
      OwnFramesOnly
<1>3. ASSUME NEW k \in Callers, Start(k) \/ Stop(k) \/ CallerStep(k)
      PROVE  FreeingInv'
  BY <1>1, <1>3, StartFrees, StartReturnsFrees, StopBeginsFrees, StopEndsFrees
  DEF Stop, CallerStep, StartGivesUp
<1>4. ASSUME NEW c \in Clients, FrameArrives(c) \/ LinkDrops(c) \/ LinkCloses(c)
      PROVE  FreeingInv'
  BY <1>1, <1>4, DisconnectedFrees, FrameArrivesFrees DEF LinkDrops, LinkCloses
<1> QED
  BY <1>1, <1>2, <1>3, <1>4, RunStepFrees, ThrottleEndsFrees DEF Next

LEMMA InitFrees == ASSUME Init PROVE FreeingInv
<1>1. OneUserInv BY InitKeeps
<1>2. Alive BY <1>1 DEF Init, Alive, RunningIsAlive, CancelIsPending, OneUserInv
<1>3. UpIsHeld /\ StopsStop /\ Session
  BY NothingHeard DEF Init, UpIsHeld, StopsStop, Session, OwnFramesOnly
<1>4. \A t \in Tasks : AtItsLabel(t)
  BY DEF Init, AtItsLabel, Opening, Tearing, Open
<1> QED BY <1>1, <1>2, <1>3, <1>4 DEF FreeingInv

\* For one user, and connects and links that fail: a stop that has returned
\* leaves no link up, whatever the run loop was at when it was cancelled.
THEOREM StopFrees ==
    ASSUME OneUser, Mild PROVE Spec => []StoppedIsFree
<1>1. Init => FreeingInv BY InitFrees
<1>2. FreeingInv /\ [Next]_vars => FreeingInv' BY NextFrees
<1>3. FreeingInv => StoppedIsFree BY FreeAtRest DEF StoppedIsFree
<1> QED BY <1>1, <1>2, <1>3, PTL DEF Spec

\* In the same setting: no connection's assembler is ever fed a frame of
\* another, also where the links of two can be up at once.
THEOREM FramesAreOwn ==
    ASSUME OneUser, Mild PROVE Spec => []OwnFramesOnly
<1>1. Init => FreeingInv BY InitFrees
<1>2. FreeingInv /\ [Next]_vars => FreeingInv' BY NextFrees
<1>3. FreeingInv => OwnFramesOnly BY DEF FreeingInv, Session
<1> QED BY <1>1, <1>2, <1>3, PTL DEF Spec

\* In the same setting: nor is on_connection_change called once a stop has
\* returned, until the next async_start.
THEOREM StopTellsNothing ==
    ASSUME OneUser, Mild PROVE Spec => ToldNothingOnceStopped
<1>1. Init => FreeingInv BY InitFrees
<1>2. FreeingInv /\ [Next]_vars => FreeingInv' BY NextFrees
<1>3. FreeingInv /\ [Next]_vars => [Stopped => UNCHANGED <<seen, up>>]_vars
  <2> SUFFICES ASSUME FreeingInv, Next, Stopped PROVE UNCHANGED <<seen, up>>
    OBVIOUS
  <2>1. up = {} /\ (\A t \in Tasks : pc[t] = "done") /\ \A k \in Callers : cpc[k] = "idle"
    BY FreeAtRest DEF Stopped
  <2>2. ASSUME NEW t \in Tasks, RunStep(t) PROVE FALSE
    BY <2>1, <2>2, RunStepEffect DEF FreeingInv, OneUserInv, RunEffect
  <2>3. ASSUME NEW k \in Callers, Start(k) \/ Stop(k) \/ CallerStep(k) PROVE UNCHANGED world
    BY <2>1, <2>3 DEF Start, Stop, StopBegins, CallerStep, StartReturns, StartGivesUp, StopJoined,
                      StopDisconnected
  <2>4. ASSUME NEW c \in Clients, FrameArrives(c) \/ LinkDrops(c) \/ LinkCloses(c)
        PROVE  UNCHANGED world
    BY <2>1, <2>4 DEF FrameArrives, LinkDrops, LinkCloses, Disconnected
  <2>5. ThrottleEnds => UNCHANGED world BY DEF ThrottleEnds
  <2> QED BY <2>2, <2>3, <2>4, <2>5 DEF Next, world
<1> QED BY <1>1, <1>2, <1>3, PTL DEF Spec, ToldNothingOnceStopped

\* In the same setting: a run loop that nobody stops gives up, or finishes
\* closing, no connection whose link is up.
THEOREM OnlyDropsEndIt ==
    ASSUME OneUser, Mild PROVE Spec => []OnlyTheDroppedGivenUp
<1>1. Init => FreeingInv BY InitFrees
<1>2. FreeingInv /\ [Next]_vars => FreeingInv' BY NextFrees
<1>3. FreeingInv => OnlyTheDroppedGivenUp
  BY DEF FreeingInv, AtItsLabel, OnlyTheDroppedGivenUp
<1> QED BY <1>1, <1>2, <1>3, PTL DEF Spec

-----------------------------------------------------------------------------
(* The stream implements the circuit breaker.                              *)

Stopping == \E k \in Callers : cpc[k] \in {"joining", "closing"}

LEMMA BreakerStutters ==
    ASSUME Stopping' <=> Stopping, task' = task, up = {} => up' = {}
    PROVE  [Breaker!Next]_(Breaker!vars)
BY DEF Stopping, Breaker!Next, Breaker!Unlink, Breaker!vars

LEMMA RunStepBreaks ==
    ASSUME OneUser, FreeingInv, NEW t \in Tasks, RunStep(t)
    PROVE  [Breaker!Next]_(Breaker!vars)
<1>1. RunEffect(t) BY RunStepEffect DEF FreeingInv, OneUserInv
<1>2. (Stopping' <=> Stopping) /\ task' = task
  BY <1>1 DEF RunEffect, Stopping
<1>3. CASE ConnectSucceeds(t)
  <2>1. t = task
    BY <1>3, CurrentUnlessCancelled DEF ConnectSucceeds, At
  <2>2. ~Stopping /\ task # NoTask
    BY <2>1, NoneAssumption DEF FreeingInv, OneUserInv, CallersOwn, Stopping
  <2>3. up' # {} BY <1>3 DEF ConnectSucceeds
  <2> QED
    BY <1>2, <2>2, <2>3 DEF Stopping, Breaker!Next, Breaker!Link, Breaker!vars
<1>4. CASE RunDisconnected(t)
  BY <1>2, <1>4, BreakerStutters DEF RunDisconnected, DisconnectReturns
<1>5. CASE ~ConnectSucceeds(t) /\ ~RunDisconnected(t)
  <2>1. up' = up
    BY <1>5
    DEF RunStep, RunBegins, ConnectFails, Subscribed, SubscribeFails, Primed, Opened, BackoffEnds,
        KeepaliveDue, PingSucceeds, PingFails, HoldReturns, HoldEnds, RunCancelled, PingCancelled,
        world
  <2> QED BY <1>2, <2>1, BreakerStutters
<1> QED BY <1>3, <1>4, <1>5

LEMMA CallerBreaks ==
    ASSUME OneUser, Mild, FreeingInv, FreeingInv', NEW k \in Callers,
           Start(k) \/ Stop(k) \/ CallerStep(k)
    PROVE  [Breaker!Next]_(Breaker!vars)
<1>1. /\ Stopping <=> cpc[k] \in {"joining", "closing"}
      /\ Stopping' <=> cpc'[k] \in {"joining", "closing"}
  BY DEF Stopping, OneUser
<1>2. Stopping => task = NoTask BY DEF FreeingInv, OneUserInv, CallersOwn, Stopping
<1>3. CASE Start(k)
  <2>1. cpc[k] = "idle" /\ cpc'[k] \in {"idle", "starting"} /\ ~Running /\ up' = up
    BY <1>3 DEF Start, world, FreeingInv, OneUserInv, TypeOK
  <2>2. task = NoTask /\ task' # NoTask
    BY <1>3, <2>1, NotRunningIsStopped, NoneAssumption DEF Start, Stopped
  <2> QED
    BY <1>1, <2>1, <2>2 DEF Stopping, Breaker!Next, Breaker!TurnOn, Breaker!vars
<1>4. CASE Stop(k) \/ StartGivesUp(k)
  <2>1. cpc[k] \in {"idle", "starting", "released"} /\ StopBegins(k) /\ task' = NoTask /\ up' = up
    BY <1>4 DEF Stop, StartGivesUp, StopBegins, world
  <2>2. CASE Running
    <3>1. cpc'[k] = "joining" /\ task # NoTask
      BY <2>1, <2>2 DEF StopBegins, CallerAt, Running, FreeingInv, OneUserInv, TypeOK
    <3> QED
      BY <1>1, <2>1, <3>1 DEF Stopping, Breaker!Next, Breaker!TurnOff, Breaker!vars
  <2>3. CASE ~Running
    <3>1. Stopped /\ client = NoClient BY <2>1, <2>3, NotRunningIsStopped, FreeAtRest
    <3>2. cpc'[k] = "idle"
      BY <2>1, <2>3, <3>1 DEF StopBegins, StopTeardown, CallerAt, FreeingInv, OneUserInv, TypeOK
    <3> QED BY <1>1, <2>1, <3>1, <3>2, BreakerStutters DEF Stopped
  <2> QED BY <2>2, <2>3
<1>5. CASE StopJoined(k) \/ StopDisconnected(k)
  <2>1. /\ cpc[k] \in {"joining", "closing"} /\ cpc'[k] \in {"idle", "closing"} /\ task' = task
        /\ cpc'[k] = "closing" => up' = up
    BY <1>5 DEF StopJoined, StopDisconnected, StopTeardown, CallerAt, world, FreeingInv, OneUserInv,
                TypeOK
  <2>2. cpc'[k] = "idle" => up' = {} BY <1>5, StopEndsFrees DEF FreeingInv
  <2>3. CASE cpc'[k] = "closing" BY <1>1, <2>1, <2>3, BreakerStutters
  <2>4. CASE cpc'[k] = "idle"
    BY <1>1, <1>2, <2>1, <2>2, <2>4 DEF Stopping, Breaker!Next, Breaker!Freed, Breaker!vars
  <2> QED BY <2>1, <2>3, <2>4
<1>6. CASE StartReturns(k)
  <2>1. cpc[k] = "released" /\ cpc'[k] = "idle" /\ task' = task /\ up' = up
    BY <1>6 DEF StartReturns, loop, world, FreeingInv, OneUserInv, TypeOK
  <2> QED BY <1>1, <2>1, BreakerStutters
<1> QED BY <1>3, <1>4, <1>5, <1>6 DEF CallerStep

LEMMA NextBreaks ==
    ASSUME OneUser, Mild, FreeingInv, FreeingInv', [Next]_vars
    PROVE  [Breaker!Next]_(Breaker!vars)
<1>1. CASE UNCHANGED vars
  BY <1>1, BreakerStutters DEF vars, loop, caller, world, Stopping
<1>2. ASSUME NEW c \in Clients, FrameArrives(c) \/ LinkDrops(c) \/ LinkCloses(c)
      PROVE  [Breaker!Next]_(Breaker!vars)
  <2>1. (Stopping' <=> Stopping) /\ task' = task
    BY <1>2 DEF FrameArrives, LinkDrops, LinkCloses, Disconnected, loop, caller, Stopping
  <2>2. up = {} => up' = {}
    BY <1>2 DEF FrameArrives, LinkDrops, LinkCloses, Disconnected, world
  <2> QED BY <2>1, <2>2, BreakerStutters
<1>3. CASE ThrottleEnds
  BY <1>3, BreakerStutters DEF ThrottleEnds, loop, caller, world, Stopping
<1> QED BY <1>1, <1>2, <1>3, RunStepBreaks, CallerBreaks DEF Next

\* In the same setting: every step of the stream is one the circuit breaker
\* allows, or none to it.  The gateway is only taken between async_start and
\* async_stop, and a stop ends with it free.
THEOREM BreakerImplemented ==
    ASSUME OneUser, Mild PROVE Spec => BreakerSpec
<1>1. Init => FreeingInv /\ Breaker!Init
  BY InitFrees DEF Init, Breaker!Init
<1>2. FreeingInv /\ [Next]_vars => FreeingInv' BY NextFrees
<1>3. FreeingInv /\ FreeingInv' /\ [Next]_vars => [Breaker!Next]_(Breaker!vars)
  BY NextBreaks
<1> QED BY <1>1, <1>2, <1>3, PTL DEF Spec, BreakerSpec, Breaker!Spec
=============================================================================
