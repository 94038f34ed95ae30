---------------------------- MODULE TensiteStream ----------------------------
(***************************************************************************)
(* The held connection of stream.py: TensiteClusterStream.                 *)
(*                                                                         *)
(* asyncio runs one callback or coroutine segment at a time, so an action  *)
(* is everything the code does from one await to the next.  The actors are *)
(* the run loop (_run, one task per async_start), the callers of           *)
(* async_start and async_stop, the throttle timer, and the environment:    *)
(* the BLE links, which come up, carry frames and go down (external, as    *)
(* bleak presents them), and the faults it injects, MaxFaults in all.      *)
(***************************************************************************)
EXTENDS Integers, FiniteSets

CONSTANTS
    Callers,          \* concurrent users of async_start and async_stop
    Tasks,            \* run-loop tasks, reused once done
    Clients,          \* BleakClient objects, reused once nobody holds them
    NoTask, NoClient, \* Python's None
    HasSerial,        \* whether a serial was given, hence keepalives are sent
    CancelSwallowed,  \* Python 3.11: wait_for whose inner wait is over drops a cancel
    OwnReports,       \* whether disconnect() fires the disconnect callback
    Slots,            \* links to the gateway that can be up at once
    Faults,           \* the kinds of fault the environment injects
    MaxFaults,        \* bound: faults injected in a behaviour
    MaxCalls,         \* bound: calls of async_start and async_stop
    MaxReconnects,    \* bound: reconnects is counted up to here
    BackoffInitial, BackoffMax

FaultKinds ==
    {"connect", "subscribe", "write", "disconnect", "drop", "consumer"}

ASSUME NoneAssumption == NoTask \notin Tasks /\ NoClient \notin Clients
ASSUME FlagAssumption ==
    /\ HasSerial \in BOOLEAN /\ CancelSwallowed \in BOOLEAN
    /\ OwnReports \subseteq BOOLEAN /\ OwnReports # {}
    /\ Faults \subseteq FaultKinds
ASSUME BoundAssumption ==
    /\ Slots \in Nat \ {0} /\ MaxFaults \in Nat /\ MaxCalls \in Nat
    /\ MaxReconnects \in Nat
ASSUME BackoffAssumption ==
    BackoffInitial \in Nat /\ BackoffMax \in Nat /\ BackoffInitial <= BackoffMax

VARIABLES
    task,        \* _task
    stopping,    \* _stopping
    connected,   \* _connected, an Event
    dropped,     \* _dropped, an Event
    client,      \* _client
    assembler,   \* _assembler, by what it has been fed
    timer,       \* _flush_handle is not None
    pending,     \* _pending_update
    reconnects,  \* _reconnects
    pc,          \* the await each run-loop task is at
    cancelled,   \* task.cancel() called and not yet delivered
    local,       \* the client each task is dialling, awaiting or closing
    backoff,     \* the local variable of _run
    cpc,         \* the await each caller is at
    join,        \* the task a stopping caller awaits
    closing,     \* the client a stopping caller is disconnecting
    up,          \* the links that are up
    seen,        \* the consumer's last on_connection_change
    faults, calls

loop == <<task, stopping, connected, dropped, client>>
flush == <<timer, pending>>
run == <<pc, cancelled, local, backoff, reconnects>>
caller == <<cpc, join, closing, calls>>
world == <<up, seen, faults>>
vars == <<loop, flush, assembler, run, caller, world>>

RunLabels == {"done", "begin", "connecting", "subscribing", "priming",
              "holding", "awoken", "pinging", "closing", "unwinding", "backoff"}
CallerLabels == {"idle", "starting", "released", "joining", "closing"}

Assemblers == [session : Clients \cup {NoClient}, sources : SUBSET Clients,
               readable : BOOLEAN, unseen : BOOLEAN]

\* A connecting task dials a client.
Dialling == \A t \in Tasks : pc[t] = "connecting" => local[t] \in Clients

TypeOK ==
    /\ Dialling
    /\ task \in Tasks \cup {NoTask}
    /\ stopping \in BOOLEAN /\ connected \in BOOLEAN /\ dropped \in BOOLEAN
    /\ client \in Clients \cup {NoClient}
    /\ assembler \in Assemblers
    /\ timer \in BOOLEAN /\ pending \in BOOLEAN
    /\ reconnects \in 0..MaxReconnects
    /\ pc \in [Tasks -> RunLabels]
    /\ cancelled \in [Tasks -> BOOLEAN]
    /\ local \in [Tasks -> Clients \cup {NoClient}]
    /\ backoff \in [Tasks -> BackoffInitial..BackoffMax]
    /\ cpc \in [Callers -> CallerLabels]
    /\ join \in [Callers -> Tasks \cup {NoTask}]
    /\ closing \in [Callers -> Clients \cup {NoClient}]
    /\ up \subseteq Clients
    /\ seen \in {"none", "up", "down"}
    /\ faults \in 0..MaxFaults /\ calls \in 0..MaxCalls

-----------------------------------------------------------------------------
(* Pieces the handlers share.  A definition whose name begins with Bug is  *)
(* a plausible mistake in the one that follows it: no behaviour of Spec    *)
(* uses it, the properties are tried against it.                           *)

NewAssembler(c) ==
    [session |-> c, sources |-> {}, readable |-> FALSE, unseen |-> FALSE]

NoAssembler == NewAssembler(NoClient)

FaultHappens(kind) ==
    kind \in Faults /\ faults < MaxFaults /\ faults' = faults + 1

\* is_running
Running == task # NoTask /\ pc[task] # "done"

\* _dropped.set() wakes every run loop waiting on it, for good.
Woken(labels) ==
    [t \in Tasks |-> IF labels[t] = "holding" THEN "awoken" ELSE labels[t]]

\* A client nobody but t refers to, standing for a BleakClient yet to be made.
Unused(t, c) ==
    /\ c \notin up' /\ c # client'
    /\ \A u \in Tasks \ {t} : local[u] # c
    /\ \A k \in Callers : closing[k] # c

MoveTo(t, label, c) ==
    pc' = [pc EXCEPT ![t] = label] /\ local' = [local EXCEPT ![t] = c]

BugLoop(t, asm) ==
    \/ stopping /\ MoveTo(t, "done", NoClient) /\ assembler' = asm /\ UNCHANGED dropped
    \/ /\ ~stopping /\ UNCHANGED dropped
       /\ \E c \in Clients :
            Unused(t, c) /\ MoveTo(t, "connecting", c) /\ assembler' = NewAssembler(c)

\* The loop test of _run, and _async_open up to its first await: asm is the
\* assembler if no new connection is begun.
Loop(t, asm) ==
    \/ /\ stopping
       /\ MoveTo(t, "done", NoClient)
       /\ assembler' = asm
       /\ UNCHANGED dropped
    \/ /\ ~stopping
       /\ \E c \in Clients :
            Unused(t, c) /\ MoveTo(t, "connecting", c) /\ assembler' = NewAssembler(c)
       /\ dropped' = FALSE

BugAfterTeardown(t, how, asm) ==
    /\ MoveTo(t, "done", NoClient)
    /\ assembler' = asm
    /\ UNCHANGED <<dropped, reconnects>>

\* What follows _async_teardown in _run: how says whether a cancellation is
\* being propagated ("unwinding") or the loop goes on ("closing").
AfterTeardown(t, how, asm) ==
    \/ /\ how = "unwinding"
       /\ MoveTo(t, "done", NoClient)
       /\ assembler' = asm
       /\ UNCHANGED <<dropped, reconnects>>
    \/ /\ how = "closing"
       /\ reconnects' = IF stopping \/ reconnects = MaxReconnects
                        THEN reconnects ELSE reconnects + 1
       /\ Loop(t, asm)

\* _async_hold is over: _async_teardown up to its await, or through it when
\* there is no client to disconnect.
HoldEnds(t, how) ==
    /\ client' = NoClient
    /\ connected' = FALSE
    /\ UNCHANGED up
    /\ \/ /\ client # NoClient
          /\ MoveTo(t, how, client)
          /\ assembler' = NoAssembler
          /\ UNCHANGED <<dropped, reconnects>>
       \/ /\ client = NoClient
          /\ AfterTeardown(t, how, NoAssembler)

\* The loop condition of _async_hold.
StaysUp == ~stopping /\ ~dropped

BugDisconnectReturns(c) == UNCHANGED <<up, faults>>

\* client.disconnect() returns, or raises and leaves the link up.
DisconnectReturns(c) ==
    \/ c \notin up /\ UNCHANGED <<up, faults>>
    \/ c \in up /\ FALSE \in OwnReports /\ up' = up \ {c} /\ UNCHANGED faults
    \/ c \in up /\ FaultHappens("disconnect") /\ UNCHANGED up

-----------------------------------------------------------------------------
(* The run loop.                                                           *)

BugAt(t, label) == pc[t] = label

\* A cancelled task takes no further step but to raise CancelledError.
At(t, label) == pc[t] = label /\ ~cancelled[t]

RunBegins(t) ==
    /\ At(t, "begin")
    /\ UNCHANGED <<client, up>>
    /\ Loop(t, assembler)
    /\ UNCHANGED <<task, stopping, connected, flush, cancelled, backoff,
                   reconnects, caller, seen, faults>>

ConnectSucceeds(t) ==
    /\ At(t, "connecting")
    /\ Cardinality(up) < Slots
    /\ up' = up \cup {local[t]}
    /\ client' = local[t]
    /\ MoveTo(t, "subscribing", local[t])
    /\ UNCHANGED <<task, stopping, connected, dropped, flush, assembler,
                   cancelled, backoff, reconnects, caller, seen, faults>>

\* The gateway has no slot left, or the attempt fails by itself.
ConnectFails(t) ==
    /\ At(t, "connecting")
    /\ \/ Cardinality(up) >= Slots /\ UNCHANGED faults
       \/ FaultHappens("connect")
    /\ MoveTo(t, "backoff", NoClient)
    /\ UNCHANGED <<loop, flush, assembler, cancelled, backoff, reconnects,
                   caller, up, seen>>

\* The end of _async_open: _connected.set() wakes every waiting async_start,
\* then on_connection_change(True), which may raise.
Opened(t) ==
    /\ cpc' = [k \in Callers |-> IF cpc[k] = "starting" THEN "released" ELSE cpc[k]]
    /\ seen' = "up"
    /\ \/ /\ FaultHappens("consumer")
          /\ connected' = TRUE
          /\ MoveTo(t, "backoff", NoClient)
          /\ UNCHANGED <<client, dropped, assembler, backoff, reconnects, up>>
       \/ /\ backoff' = [backoff EXCEPT ![t] = BackoffInitial]
          /\ UNCHANGED faults
          /\ \/ /\ StaysUp
                /\ connected' = TRUE
                /\ MoveTo(t, "holding", NoClient)
                /\ UNCHANGED <<client, dropped, assembler, reconnects, up>>
             \/ /\ ~StaysUp
                /\ HoldEnds(t, "closing")
    /\ UNCHANGED <<task, stopping, flush, cancelled, join, closing, calls>>

\* start_notify returned; the keepalive goes to whatever client is current.
Subscribed(t) ==
    /\ At(t, "subscribing")
    /\ \/ /\ HasSerial /\ client # NoClient
          /\ MoveTo(t, "priming", client)
          /\ UNCHANGED <<loop, flush, assembler, cancelled, backoff, reconnects,
                         caller, world>>
       \/ /\ ~(HasSerial /\ client # NoClient)
          /\ Opened(t)

SubscribeFails(t) ==
    /\ At(t, "subscribing")
    /\ \/ local[t] \notin up /\ UNCHANGED faults
       \/ FaultHappens("subscribe")
    /\ MoveTo(t, "backoff", NoClient)
    /\ UNCHANGED <<loop, flush, assembler, cancelled, backoff, reconnects,
                   caller, up, seen>>

\* The first keepalive returned: _async_open ignores whether it was written.
Primed(t) == At(t, "priming") /\ Opened(t)

BugDoubled(delay) == 2 * delay

Doubled(delay) == IF 2 * delay < BackoffMax THEN 2 * delay ELSE BackoffMax

BackoffEnds(t) ==
    /\ At(t, "backoff")
    /\ backoff' = [backoff EXCEPT ![t] = Doubled(@)]
    /\ UNCHANGED <<client, up>>
    /\ Loop(t, assembler)
    /\ UNCHANGED <<task, stopping, connected, flush, cancelled, reconnects,
                   caller, seen, faults>>

KeepaliveDue(t) ==
    /\ At(t, "holding")
    /\ HasSerial /\ client # NoClient
    /\ MoveTo(t, "pinging", client)
    /\ UNCHANGED <<loop, flush, assembler, cancelled, backoff, reconnects,
                   caller, world>>

PingSucceeds(t) ==
    /\ At(t, "pinging")
    /\ \/ /\ StaysUp
          /\ MoveTo(t, "holding", NoClient)
          /\ UNCHANGED <<client, connected, dropped, assembler, reconnects, up>>
       \/ ~StaysUp /\ HoldEnds(t, "closing")
    /\ UNCHANGED <<task, stopping, flush, cancelled, backoff, caller, seen, faults>>

PingFails(t) ==
    /\ At(t, "pinging")
    /\ \/ local[t] \notin up /\ UNCHANGED faults
       \/ FaultHappens("write")
    /\ HoldEnds(t, "closing")
    /\ UNCHANGED <<task, stopping, flush, cancelled, backoff, caller, seen>>

\* _dropped was set while the task waited on it.  A stop also cancels the
\* task; what becomes of that cancellation is asyncio.wait_for's doing.
HoldReturns(t) ==
    /\ pc[t] = "awoken"
    /\ cancelled' = [cancelled EXCEPT ![t] = FALSE]
    /\ HoldEnds(t, IF cancelled[t] /\ ~CancelSwallowed THEN "unwinding" ELSE "closing")
    /\ UNCHANGED <<task, stopping, flush, backoff, caller, seen, faults>>

RunDisconnected(t) ==
    /\ At(t, "closing") \/ At(t, "unwinding")
    /\ DisconnectReturns(local[t])
    /\ UNCHANGED client
    /\ AfterTeardown(t, pc[t], assembler)
    /\ UNCHANGED <<task, stopping, connected, flush, cancelled, backoff, caller, seen>>

\* CancelledError at an await that nothing protects ends the task; at
\* "closing" it cuts disconnect() short, and the link stays as it is.
RunCancelled(t) ==
    /\ cancelled[t]
    /\ pc[t] \in {"begin", "connecting", "subscribing", "priming", "backoff", "closing"}
    /\ cancelled' = [cancelled EXCEPT ![t] = FALSE]
    /\ MoveTo(t, "done", NoClient)
    /\ UNCHANGED <<loop, flush, assembler, backoff, reconnects, caller, world>>

\* The same during a keepalive, which the finally clause of _run protects.
PingCancelled(t) ==
    /\ cancelled[t] /\ pc[t] = "pinging"
    /\ cancelled' = [cancelled EXCEPT ![t] = FALSE]
    /\ HoldEnds(t, "unwinding")
    /\ UNCHANGED <<task, stopping, flush, backoff, caller, seen, faults>>

RunStep(t) ==
    \/ RunBegins(t) \/ ConnectSucceeds(t) \/ ConnectFails(t) \/ Subscribed(t)
    \/ SubscribeFails(t) \/ Primed(t) \/ BackoffEnds(t) \/ KeepaliveDue(t)
    \/ PingSucceeds(t) \/ PingFails(t) \/ HoldReturns(t) \/ RunDisconnected(t)
    \/ RunCancelled(t) \/ PingCancelled(t)

-----------------------------------------------------------------------------
(* The callers.                                                            *)

\* async_start returns at once when the stream is running: no step.
Start(k) ==
    /\ cpc[k] = "idle" /\ calls < MaxCalls /\ calls' = calls + 1
    /\ ~Running
    /\ stopping' = FALSE
    /\ \E t \in Tasks :
         /\ pc[t] = "done" /\ \A j \in Callers : join[j] # t
         /\ task' = t
         /\ pc' = [pc EXCEPT ![t] = "begin"]
         /\ backoff' = [backoff EXCEPT ![t] = BackoffInitial]
    /\ cpc' = [cpc EXCEPT ![k] = IF connected THEN "idle" ELSE "starting"]
    /\ UNCHANGED <<connected, dropped, client, assembler, flush, cancelled,
                   local, reconnects, join, closing, world>>

BugCancelFlush == UNCHANGED flush

CancelFlush == timer' = FALSE /\ pending' = FALSE

CallerAt(k, label, t, c) ==
    /\ cpc' = [cpc EXCEPT ![k] = label]
    /\ join' = [join EXCEPT ![k] = t]
    /\ closing' = [closing EXCEPT ![k] = c]

BugStopTeardown(k) ==
    /\ client' = NoClient
    /\ assembler' = NoAssembler
    /\ connected' = FALSE
    /\ CallerAt(k, "idle", NoTask, NoClient) /\ CancelFlush

\* async_stop from its own _async_teardown on.
StopTeardown(k) ==
    /\ client' = NoClient
    /\ assembler' = NoAssembler
    /\ connected' = FALSE
    /\ \/ client # NoClient /\ CallerAt(k, "closing", NoTask, client) /\ UNCHANGED flush
       \/ client = NoClient /\ CallerAt(k, "idle", NoTask, NoClient) /\ CancelFlush

\* async_stop up to its first await.
StopBegins(k) ==
    /\ stopping' = TRUE
    /\ dropped' = TRUE
    /\ pc' = Woken(pc)
    /\ task' = NoTask
    /\ \/ /\ Running
          /\ cancelled' = [cancelled EXCEPT ![task] = TRUE]
          /\ CallerAt(k, "joining", task, NoClient)
          /\ UNCHANGED <<client, assembler, connected, flush>>
       \/ /\ ~Running
          /\ UNCHANGED cancelled
          /\ StopTeardown(k)
    /\ UNCHANGED <<local, backoff, reconnects, world>>

Stop(k) ==
    /\ cpc[k] = "idle" /\ calls < MaxCalls /\ calls' = calls + 1
    /\ StopBegins(k)

\* A woken async_start resumes and returns, whatever happened meanwhile.
StartReturns(k) ==
    /\ cpc[k] = "released"
    /\ cpc' = [cpc EXCEPT ![k] = "idle"]
    /\ UNCHANGED <<loop, flush, assembler, run, join, closing, calls, world>>

\* async_start times out, or its own caller is cancelled, before it resumes:
\* it stops the stream.
StartGivesUp(k) ==
    /\ cpc[k] \in {"starting", "released"} /\ UNCHANGED calls
    /\ StopBegins(k)

BugStopJoined(k) ==
    /\ cpc[k] = "joining"
    /\ StopTeardown(k)
    /\ UNCHANGED <<task, stopping, dropped, run, calls, world>>

StopJoined(k) ==
    /\ cpc[k] = "joining" /\ pc[join[k]] = "done"
    /\ StopTeardown(k)
    /\ UNCHANGED <<task, stopping, dropped, run, calls, world>>

StopDisconnected(k) ==
    /\ cpc[k] = "closing"
    /\ DisconnectReturns(closing[k])
    /\ CancelFlush
    /\ connected' = FALSE
    /\ CallerAt(k, "idle", NoTask, NoClient)
    /\ UNCHANGED <<task, stopping, dropped, client, assembler, run, calls, seen>>

CallerStep(k) ==
    StartReturns(k) \/ StartGivesUp(k) \/ StopJoined(k) \/ StopDisconnected(k)

-----------------------------------------------------------------------------
(* Notifications and the throttle.                                         *)

\* _flush: on_update is called when the assembler has a reading to give.
Flushed(asm) == [asm EXCEPT !.unseen = @ /\ ~asm.readable]

\* feed of a frame that changes a battery; usable when it is a summary or
\* cells, without which the assembler has no reading to give.
Fed(asm, c, usable) ==
    [asm EXCEPT !.sources = @ \cup {c}, !.unseen = TRUE, !.readable = @ \/ usable]

\* _on_notify, and _schedule_flush.
FrameArrives(c) ==
    /\ c \in up
    /\ assembler.session # NoClient /\ ~stopping
    /\ \E usable \in BOOLEAN :
         LET fed == Fed(assembler, c, usable)
         IN assembler' = IF timer THEN fed ELSE Flushed(fed)
    /\ pending' = (pending \/ timer)
    /\ timer' = TRUE
    /\ UNCHANGED <<loop, run, caller, world>>

BugThrottleEnds ==
    /\ timer
    /\ timer' = FALSE /\ pending' = FALSE
    /\ UNCHANGED <<assembler, loop, run, caller, world>>

ThrottleEnds ==
    /\ timer
    /\ timer' = pending
    /\ pending' = FALSE
    /\ assembler' = IF pending THEN Flushed(assembler) ELSE assembler
    /\ UNCHANGED <<loop, run, caller, world>>

-----------------------------------------------------------------------------
(* The links.                                                              *)

BeingClosed(c) ==
    \/ \E t \in Tasks : pc[t] \in {"closing", "unwinding"} /\ local[t] = c
    \/ \E k \in Callers : cpc[k] = "closing" /\ closing[k] = c

\* _on_disconnected, which does not look at the client it is called for.
OnDisconnected ==
    dropped' = TRUE /\ pc' = Woken(pc) /\ seen' = "down" /\ connected' = FALSE

\* A link goes down, and bleak calls back.
Disconnected(c) ==
    /\ c \in up
    /\ up' = up \ {c}
    /\ OnDisconnected
    /\ UNCHANGED <<task, stopping, client, flush, assembler, cancelled, local,
                   backoff, reconnects, caller>>

LinkDrops(c) == FaultHappens("drop") /\ Disconnected(c)

LinkCloses(c) ==
    BeingClosed(c) /\ TRUE \in OwnReports /\ UNCHANGED faults /\ Disconnected(c)

-----------------------------------------------------------------------------
Init ==
    /\ task = NoTask /\ stopping = FALSE /\ connected = FALSE /\ dropped = FALSE
    /\ client = NoClient /\ assembler = NoAssembler
    /\ timer = FALSE /\ pending = FALSE /\ reconnects = 0
    /\ pc = [t \in Tasks |-> "done"]
    /\ cancelled = [t \in Tasks |-> FALSE]
    /\ local = [t \in Tasks |-> NoClient]
    /\ backoff = [t \in Tasks |-> BackoffInitial]
    /\ cpc = [k \in Callers |-> "idle"]
    /\ join = [k \in Callers |-> NoTask]
    /\ closing = [k \in Callers |-> NoClient]
    /\ up = {} /\ seen = "none" /\ faults = 0 /\ calls = 0

Next ==
    \/ \E t \in Tasks : RunStep(t)
    \/ \E k \in Callers : Start(k) \/ Stop(k) \/ CallerStep(k)
    \/ \E c \in Clients : FrameArrives(c) \/ LinkDrops(c) \/ LinkCloses(c)
    \/ ThrottleEnds

\* Library calls and sleeps end, timers fire, woken coroutines run; nobody
\* has to call the stream, no frame has to come and no fault to happen.
Fairness ==
    /\ \A t \in Tasks : WF_vars(RunStep(t))
    /\ \A k \in Callers : WF_vars(CallerStep(k))
    /\ \A c \in Clients : WF_vars(LinkCloses(c))
    /\ WF_vars(ThrottleEnds)

Spec == Init /\ [][Next]_vars
FairSpec == Spec /\ Fairness
-----------------------------------------------------------------------------
(* Properties that hold.                                                   *)

\* No run loop ever ends by itself: while the stream says it is_running and
\* nobody stopped it, the loop behind _task is alive and not being cancelled,
\* whatever fails and whoever else is still stopping an earlier run.
RunningIsAlive ==
    task # NoTask =>
        /\ ~stopping
        /\ pc[task] \notin {"done", "unwinding"} /\ ~cancelled[task]

\* Users that do not overlap never have two run loops driving the connection,
\* even when the cancellation of the first is swallowed.
OneRunLoop == \A t, u \in Tasks : pc[t] # "done" /\ pc[u] # "done" => t = u

\* "Throttle must delay, not drop": news the assembler could show is always
\* waiting for an armed timer, through every drop, reconnect and stop; and a
\* pending update never pushes a reading without news.
NoLostUpdate ==
    assembler.readable => (assembler.unseen <=> timer /\ pending)

\* Nobody is inside async_start or async_stop and the last call was a stop.
Stopped == task = NoTask /\ \A k \in Callers : cpc[k] = "idle"

\* After async_stop returned no reading can reach on_update: no run loop, no
\* armed timer, no assembler for a late notification to feed, whatever failed
\* before.  on_connection_change is another matter, see ToldNothingOnceStopped.
NoUpdateOnceStopped ==
    Stopped => /\ \A t \in Tasks : pc[t] = "done"
               /\ ~timer /\ ~pending /\ ~connected
               /\ client = NoClient /\ assembler = NoAssembler

\* "Stopping must actually free the gateway for another app": once async_stop
\* returned, no link this stream made is up.
StoppedIsFree == Stopped => up = {}

\* Where connects and links are all that fails, on_connection_change is not
\* called after async_stop returned either: _on_disconnected does not look at
\* _stopping, so this takes that no link is left to go down.
ToldNothingOnceStopped == [][Stopped => UNCHANGED <<seen, up>>]_vars

\* Where connects and links are all that fails, the run loop of a stream that
\* nobody stops gives up no connection whose link is up: _on_disconnected does
\* not say whose link went down, so neither the drop nor the teardown of an
\* earlier session may be taken for one of this.
OnlyTheDroppedGivenUp ==
    \A t \in Tasks : t = task => /\ pc[t] = "awoken" => client \notin up
                                 /\ pc[t] = "closing" => local[t] \notin up

\* The stream implements the switch it is used as: the gateway is only taken
\* between async_start and async_stop, and a stop ends with it free.
Breaker == INSTANCE CircuitBreaker WITH
    mode <- IF \E k \in Callers : cpc[k] \in {"joining", "closing"} THEN "stopping"
            ELSE IF task = NoTask THEN "off" ELSE "on",
    linked <- up # {}
BreakerSpec == Breaker!Spec

\* Every caller of async_stop, and every async_start that gives up, returns.
StopTerminates == \A k \in Callers : cpc[k] \in {"joining", "closing"} ~> cpc[k] = "idle"

\* "Frames from a session that has ended describe a bank we are no longer
\* listening to": the assembler holds only frames of its own connection.
OwnFramesOnly == assembler.sources \subseteq {assembler.session}

\* News reaches the consumer unless its session ends first.
UpdateDelivered == (assembler.readable /\ assembler.unseen) ~> ~assembler.unseen

\* "It then maintains itself: a dropped connection is retried until
\* async_stop": a running stream gets a connection, or is stopped.
MaintainsItself == Running ~> (connected \/ stopping)

-----------------------------------------------------------------------------
(* What the docs and tests say that the code does not do.                  *)

\* on_connection_change "receives True on connect, False on drop": between
\* connections, with every link down, the consumer's last word is not True.
ConsumerToldOfDrop ==
    (\E t \in Tasks : t = task /\ pc[t] \in {"backoff", "connecting"}) /\ up = {}
        => seen # "up"

\* "Reconnecting with backoff when it drops": a run loop whose connection has
\* come down does not dial again at once.
BacksOffAfterDrop ==
    [][\A t \in Tasks : pc[t] = "closing" => pc'[t] # "connecting"]_vars

\* reconnects is the number of reconnections "since start": a run loop that
\* has just been started has made none.
ReconnectsSinceStart == (\E t \in Tasks : t = task /\ pc[t] = "begin") => reconnects = 0
=============================================================================
