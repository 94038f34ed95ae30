# TLA+ models of tensite-bms-ble

Formal models of `src/src/tensite_bms_ble/` (paths below are relative to it),
checked with TLC on small instances and, where the prover reaches, proved with
TLAPS for every value of the constants.

## The system and its parts

`tensite_bms_ble` reads a bank of batteries over Bluetooth LE. One battery of
the bank is the gateway: it accepts **one** central at a time and, once
notifications are enabled, streams frames for the whole bank, round-robin.

| part | state it keeps | operations | what makes it hard | what makes it correct |
| --- | --- | --- | --- | --- |
| held connection, `stream.py` | `_task`, `_stopping`, `_connected`, `_dropped`, `_client`, `_assembler`, the throttle's `_flush_handle` and `_pending_update`, `_reconnects` | `async_start`, `async_stop`, the run loop, the disconnect, notification and timer callbacks | interleaving at every `await`, cancellation, callbacks of clients no longer current, one gateway slot | no update lost, one run loop, no reading after a stop, which frees the gateway, a drop is retried and nothing else gives a connection up |
| one-shot poll, `client.py` | local to `async_read`: an assembler, an event | `async_connect`, `async_read` | failure or cancellation at each `await`; frames during teardown; unnoticed drops; another program on the gateway | the link is given back, an early return is complete, every read ends |
| assembler, `assembler.py` | buffer, the parts per battery, roster, statistics | `feed`, `reading`, `complete_count` | malformed payloads, partial batteries, several frames at once | the newest frame of each field is what is held, changes reported |
| frame parser, `protocol.py` | the buffer it consumes in place, `ParseStats` | `parse_frames`, `build_request`, payload decoders | frames split over notifications, mid-frame starts, lost and damaged bytes, two escape prefixes | exactly the intact frames, bounded buffer, honest statistics |
| payload decoders, `protocol.py` | none | `decode_topology`, `decode_routes`, `decode_cells`, `decode_summary` | payloads that are short, long or garbled half way | a prefix of the roster, every route in its place |
| readings, `models.py` | immutable values | `merge_readings`, derived values | polls that miss part of the bank, batteries known in part | newest wins, cells keep their own age, the bank's values have a battery behind them |
| alarms, `alarms.py` | none | `decode_alarms`, `active_alarms`, `unmapped_bits` | packed two-bit slots | slots disjoint, the bits no alarm covers are exactly the unmapped ones |
| discovery, `client.py` | none | `async_discover_clusters`, `_collect` | adverts without a name or a strength, batteries absent from a scan | the strongest first, the serial only when it was received |
| command line, `cli.py` | local to `_resolve` and `_run` | `_resolve`, `_run`, `main` | retries of a scan, Ctrl-C at any `await`, a battery gone since its scan | reads what was asked for, gives up only when it should, the exit status is true, it ends |

How they interact. `TensiteClusterStream` and `async_read` both call
`async_connect`, give bleak a notification callback and feed what it delivers
to a `ReadingAssembler`, which calls `parse_frames` on its buffer. The stream
decides on an update by what `feed` returns, pushes a reading to the consumer
through a throttle (leading edge at once, then at most one per interval), and
gets a synchronous callback when a link drops. The caller merges readings with
`merge_readings`. The command line scans, picks a battery and calls
`async_read` once. Everything runs on one asyncio loop, so code between two
`await`s is atomic.

## Modules

| module | models | proofs |
| --- | --- | --- |
| `CircuitBreaker` | abstract: what `async_start` / `async_stop` promise the switch that calls them | |
| `TensiteStream` | `stream.py` with the links of bleak | `TensiteStreamProofs` |
| `ClusterRead` | `async_read` of `client.py`, with other programs that want the gateway | `ClusterReadProofs` |
| `CommandLine` | `cli.py` and the discovery of `client.py`; extends `ClusterRead`, whose one reader is the program's call | `CommandLineProofs` |
| `FrameParser` | `parse_frames` and `ParseStats` of `protocol.py`, `stuff`, the buffer of `feed` | `FrameParserProofs` |
| `Assembler` | `assembler.py` from parsed frames to `reading()` | `AssemblerProofs` |
| `ReadingMerge` | `merge_readings` of `models.py` | `ReadingMergeProofs` |
| `Payloads` | the decoders of `protocol.py` and `alarms.py` that take bytes apart or may stop half way | |
| `BankReading` | what `models.py` derives from the payloads heard of each battery; extends `Payloads` | `BankReadingProofs` |
| `FoldFacts` | nothing: lemmas about least elements, folds and functions defined by their own values, which the proofs of data rest on | itself |
| `MC*` | model values and symmetry for TLC | |

Definitions whose name begins with `Bug` are plausible mistakes in the
definition that follows them. No behaviour uses them: each property was tried
against one and is violated by it.

### TensiteStream

An action is everything the code does from one `await` to the next.

| `pc` of a run-loop task | the `await` it stands for |
| --- | --- |
| `begin` | created, not yet scheduled |
| `connecting`, `subscribing`, `priming` | `async_connect`, `start_notify`, first keepalive in `_async_open` |
| `holding`, `awoken` | `wait_for(self._dropped.wait())` in `_async_hold`, before and after the event is set |
| `pinging` | `write_gatt_char` of a later keepalive |
| `closing`, `unwinding` | `client.disconnect()` in `_async_teardown`, in the ordinary case and on the way out of a cancellation |
| `backoff` | `asyncio.sleep(backoff)` |
| `done` | ended |

A caller is `idle`, `starting` (in `wait_for` of `async_start`), `released` (the
event was set, the caller has not resumed: anything may run in between),
`joining` (awaiting the cancelled task) or `closing` (awaiting `disconnect()`).

Parameters of the environment:

* `Slots`: links of this stream that can be up at once. 1 is the gateway alone.
  2 covers a host whose stack lets a second client share a link already up.
* `OwnReports`: whether `disconnect()` itself fires the disconnect callback;
  `{TRUE, FALSE}` leaves it open, as backends differ.
* `CancelSwallowed`: on Python 3.11 (allowed by `pyproject.toml`)
  `asyncio.wait_for` returns normally and drops a cancellation that arrives when
  the inner wait is already over; 3.12 and later do not (`FALSE`).
* `Faults`: which of connect, subscribe, write, disconnect, drop and the
  consumer's callback may fail, at most `MaxFaults` times in all.

Abstractions. The assembler is what its properties need: the session it
belongs to, the clients whose frames it was fed, whether it has a reading
(`readable`) and whether the reading holds news the consumer was not given
(`unseen`). Frames may arrive from any link that is up and subscribed. A
connect that is cancelled or fails leaves no link (bleak cleans up). `async_start`
on a running stream returns at once in the code, connected or not, and takes no
step here; one that finds the event set returns in its first step. Its timeout and
its cancellation from outside are the same to the stream (`StartGivesUp`). Left out:
the text of `last_error`, `update_device` (it replaces the address used by the
next connect), a consumer that raises while being told `False`, and
cancellation of a caller of `async_stop` from outside.

Fairness: weak, on each run-loop task, each caller inside a call, the closing of
a link being disconnected, and the throttle timer. asyncio runs what is ready,
bleak's calls have timeouts and timers fire; nothing obliges anyone to call
the stream, a frame to come or a fault to happen. Deadlock is not checked where
a stopped stream with no calls left really has nothing to do.

### ClusterRead

Each reader is a call of `async_read`, on a client made for the battery
`at[r]`; `asks[r]` says whether it was given that battery's serial, without
which no request is sent. Each battery has one slot: a reader's link takes it, and
so does another program (`busy`, `OtherApp`), so a battery can be taken or freed
at any time before the connect. Any awaited call may raise or be cancelled; a
disconnect that raises or is cancelled is in `spoiled`, the one way a link can
survive the read. No disconnect callback is passed, so a drop only shows in later
calls failing or the timeout. The module has no run of its own: its properties
are checked where the program calls it, in `CommandLine`, and proved for any
number of readers.

### CommandLine

`stage` follows `_run`: `scanning` (in `async_discover_clusters`), `choosing`
(the rest of the loop body of `_resolve`), `reading` (in `async_read`), `done`. The
`status` is 0, 1, 130, or `traceback` for an exception that `main` does not
catch. A scan receives, of each battery, nothing or an advertisement that has or
lacks the maker's data, a name that is a serial, and a strength; the list is
sorted as `_collect` sorts it, with every order that equal strengths leave open.
`met` is a history variable: whether some scan received what the arguments ask
for. A scan and the choice made of it are two actions, where the code has no
`await` between them; nothing else of the program runs in between.

Fairness (`FairCommand`): weak, on the program as a whole. It has one thread of
control; what it awaits returns or raises, since bleak's calls have timeouts, and
the listen timeout fires. Ctrl-C, faults and frames are not obliged to happen.

Seen while modelling, and in the model as they are: an error of bleak, also of a
battery gone since its scan, leaves `main` as a traceback, since it only catches
`TensiteError`; a battery whose advertisements have no name is never found by
`--serial`; and with both `--address` and `--serial` the first one that is given
decides, in that order (`cli.py:32`), so the model has one wish at a time.

### FrameParser

Works on bytes with the protocol's own delimiters, escape prefixes and codes
(0x5E, 0x7E; 0x5D, 0x7D; 1, 2). The 36-byte header is reduced to one byte of
length, CRC-16/ARC to a one-byte sum: framing depends on neither's content, and
the alphabets are chosen so that payload and checksum between them need every
escape. A sum is weaker than the CRC, so a damaged body accepted by the model may
be refused in reality; `EveryIntactFrame` compares with the bytes received, not
with what the device meant to send, and is unaffected. `Slack` is the 64 of the
runaway test. Since the model's header has one byte for the length, `MaxPayload` is a
byte. `Parse` is a function of the place the search has come to (`FoundAt` is one turn
of the loop of `parse_frames`), which gives what is found from there on.

### Assembler and ReadingMerge

`Assembler` keeps, per battery, which fields hold a value, the order of
first appearance (which decides the master), the roster and the set `feed`
returned. A frame is well formed or not; an empty payload makes the lenient
decoders store an empty tuple, which counts as no value. A position is reduced to
whether it is the gateway's; `newest` is a history variable, the batteries whose
newest frame has it, whether or not `feed` could use that frame. So are `said`, what
each battery's newest decodable frame of each field said, computed from a whole
notification where the code goes frame by frame, and `claims`, the plausible counts
claimed. `ReadingMerge` abstracts
a value to the number of the poll that observed it, 0 being what Python's `or`
passes over; `alarm_bits`, the one field merged with `is not None`, behaves alike
under that abstraction. Next to the code's `merged` it keeps a second user
(`base`, `batch`) who merges polls in groups, and `heard`, a record of what was
observed last.

### Payloads and BankReading

`Payloads` has the decoders as operators, on payloads that are already unmasked:
the mask is a 32-bit generator whose products exceed the checker's integers.
`Slots` is the table of `alarms.py`, entry by entry, names and categories left
out. An entry of a topology frame is a serial or `Garbled`. `BankReading` hears
frames in any order, stores what their decoders return and derives the values of
a battery and of the bank, with `None` where the code has it. Currents are in
tenths of an ampere, so that 3 is the idle threshold.

## Runs

Every passing run is exhaustive for its constants.

| run | bounds | shows |
| --- | --- | --- |
| `stream_safety` | 1 user, 3 calls, 3 clients, 2 faults of every kind, shared links | `TypeOK`, `OneRunLoop`, `NoLostUpdate`, `NoUpdateOnceStopped` |
| `stream_upkeep` | 1 user, 4 calls, 3 failed connects or drops, one slot, fair | `StoppedIsFree`, `ToldNothingOnceStopped`, `OwnFramesOnly`, `OnlyTheDroppedGivenUp`, the stream implements `CircuitBreaker` (`BreakerSpec`), `UpdateDelivered`, `MaintainsItself` |
| `stream_overlap` | 2 users, 3 calls, 1 drop or failed subscription, no keepalives, fair, `wait_for` of Python 3.12 | `RunningIsAlive`, `StopTerminates` with overlapping starts and stops |
| `parser` | a partial frame and 2 frames of 4 payloads, notifications of 1 or 4 bytes, 1 of them lost or a byte damaged | `TypeOK`, `EveryIntactFrame`, `HealthyRejectsNothing`, `HealthyBufferBounded` |
| `command_line` | 2 batteries at two strengths or an unknown one, every wish, 2 scan attempts, `--expect 2`, 2 faults or Ctrl-C, another program, fair | `CommandTypeOK`, `LinkGivenBack`, `EarlyIsComplete`, `GivenUpUnheard`, `RightBattery`, `StatusTells`, `StrongestOfAll`, `ProgramEnds` |
| `assembler` | 2 batteries, 5 kinds of frame, good and bad, counts in and out of range, up to 2 frames per feed | `TypeOK`, `NewestIsHeld`, `MasterIsCurrent`, `DataChangesAreReturned` |
| `bank_reading` | 2 batteries, any 4 frames: 2 cell lists and a short one, 3 summaries and a short one, 6 alarm fields and one too long, 4 relay frames, 8 rosters | `TypeOK`, `FieldAccountedFor`, `UnreadPairsOnly`, `DisagreementIsSeen`, `StatusHasACause`, `RelaysReadBack`, `RosterIsPrefix` |
| `merge_polls` | 2 batteries, the cells and one other field each, one field of the bank, 3 polls | `TypeOK`, `FreshestWins`, `CellsAgeIsTheirOwn`, `BatchingAgrees` |

Why the bounds are enough to be interesting. Three calls are start, stop, start:
every leftover of a run meets the next one, and two users can overlap in a stop.
Three clients are an abandoned one, the current one and the next. Two faults
let one failure hit the handling of another. `MaxReconnects` only saturates a
counter. Two frames after a partial one put a damaged frame before an intact
one, and the payloads with their checksums need every escape. Two scan attempts
are one that misses the battery and one that does not, and two batteries are the
one asked for and another, better received; two faults let Ctrl-C meet the
handling of an error. Two frames per feed let the second undo, or be refused
after, the first. Four frames give both batteries cells and a summary, or leave
any of them out; the alarm fields put every value in every pair, and the sums of
currents lie on both sides of the threshold. Three polls include a battery that
reports, skips and returns. The merge treats the fields one by one, so the cells
and one other field stand for all.

`StoppedIsFree`, `ToldNothingOnceStopped`, `OwnFramesOnly`, `OnlyTheDroppedGivenUp`,
`BreakerSpec` and `MaintainsItself` are checked for failing connects and drops with
one user only, and `StopTerminates` for Python 3.12 only: beyond that the code
violates them, as the next section says. That `async_start` has returned promises no
connection: on a running stream that has dropped it returns at once, and a link can
drop before a woken caller resumes.
`NoUpdateOnceStopped` is about readings, under any faults; that the other callback is
silent too takes the milder faults of `ToldNothingOnceStopped`.

## Where the code and its documentation disagree

Each of these runs is expected to end in a counterexample.

| run | property | what happens |
| --- | --- | --- |
| `stream_stranded` | `MaintainsItself` | `start_notify` fails once after a connect; `_run` retries without tearing the client down, which keeps the only slot, so every retry fails (`stream.py:208`) |
| `stream_drop_while_opening` | `ConsumerToldOfDrop` | a drop during `start_notify` or the first keepalive is told as False, then True, and never again as False (`stream.py:259`) |
| `stream_reopen` | `BacksOffAfterDrop` | a connection that came up resets the backoff, and when it drops the next one is dialled at once: with a gateway that accepts and drops every connection the stream reconnects in a hot loop (`stream.py:220`) |
| `parser_recount` | `CandidateCountedOnce` | a rejected candidate stays in the buffer and is counted again by each feed until a good frame follows (`protocol.py:334`) |

That of `parser_recount` was also reproduced by running the library: one bad CRC
was counted four times.

More statements are false of the models: what the docs say, and two properties of
`stream_upkeep` (`ToldNothingOnceStopped`, `OnlyTheDroppedGivenUp`) under more faults
than that run has. They have no run of their own; the change to a run that makes TLC
find the counterexample is given.

| property | how to see it | what happens |
| --- | --- | --- |
| `StoppedIsFree` | `StreamDropWhileOpening.cfg` with `Faults = {"write"}` and this invariant | a stop cancels the run loop's own `disconnect()` after `_client` was cleared, and returns with the link up (`stream.py:188`) |
| `StoppedIsFree` | the same with `Faults = {"subscribe"}`, `Slots = 2` | the client of an open that failed after its connect is overwritten by the next one and never disconnected, not even by `async_stop` (`stream.py:248`) |
| `ToldNothingOnceStopped` | `StreamSafety.cfg` with this property | a link left by a failed subscription or by a `disconnect()` that raised drops after `async_stop` returned, and the consumer is told False: `_on_disconnected` does not look at `_stopping` (`stream.py:288`) |
| `OnlyTheDroppedGivenUp` | `StreamSafety.cfg` with `Faults = {"subscribe", "drop"}` and this invariant | the client of a failed subscription drops late, on a host that shares links: its callback ends the hold of the connection made since, whose link is up (`stream.py:288`) |
| `OwnFramesOnly` | `StreamDropWhileOpening.cfg` with `Faults = {"consumer"}` and this invariant | such an abandoned link feeds the next connection's assembler (`stream.py:308`) |
| `StopTerminates` | `StreamOverlap.cfg` with `CancelSwallowed = TRUE`, `Faults = {}` | on Python 3.11 a start during a stop revives the loop being stopped; that stop never returns (`stream.py:163`) |
| `ReconnectsSinceStart` | `StreamDropWhileOpening.cfg` with `MaxCalls = 3` and this invariant | `reconnects`, "since start", is not reset by a start (`stream.py:226`) |
| `RunawayResyncs` | `ParserRecount.cfg` with `MaxFaults = 2`, `Slack = 7` and this invariant | the runaway branch advances the search and drops nothing: the buffer grows until a good frame arrives (`protocol.py:321`) |
| `NoCellsIsAnError` | `CommandLine.cfg` with this invariant | `async_read` returns a reading without cells though it documents `TensiteNoDataError` for that (`client.py:256`); `test_partial_battery_still_returned` wants the code's behaviour |
| `NothingDiscarded` | `AssemblerFeed.cfg` with this property | "Nothing is discarded between calls" (`assembler.py:63`): an empty payload of temperatures, relays or switches replaces what was heard before with an empty tuple (`assembler.py:109`) |
| `NoneReturnedNoneChanged` | `AssemblerFeed.cfg` with this property | a malformed or unhandled frame moves a battery's position, hence the master, without being in the set `feed` returns (`assembler.py:101`) |
| `FaultIsAnAlarm` | `BankReading.cfg` with this invariant | `has_fault` is true of any non-zero byte, also where only pairs the app never reads are set, though its comment says the app would show a fault (`models.py:187`) |
| `EveryFaultCounts` | `BankReading.cfg` with this invariant | the fault of a battery whose alarms came before its summary and cells is not the bank's: `reading()` leaves that battery out (`models.py:438`, `assembler.py:157`) |

## What is proved

All theorems hold for every value of the constants that meets the named
assumptions of the module (`None` is not an element, flags are Booleans, bounds
are naturals, `BackoffInitial <= BackoffMax`).

* `TensiteStreamProofs`. `TypeCorrect`: `TypeOK`, which is inductive once it
  says that a task that is connecting dials a client (`Dialling`).
  `RunningStaysAlive`: `RunningIsAlive` for any number of overlapping users; the
  strengthening `CancelIsPending` relates a task's cancellation to the
  label it stands at, without which a cancelled loop could be taken for the
  current one.
  Under `OneUser` (calls do not overlap), for any faults and either behaviour of
  `wait_for`: `NoUpdateIsLost`, `NoUpdateAfterStop`, `RunsAreExclusive`. The inductive
  invariant `OneUserInv` adds that a live run loop is the current one or the one a
  stop awaits (`RunsOwned`), that a stop has detached the task (`CallersOwn`), that
  its last `await` has the stream to itself (`StopIsAlone`), and that a pending
  update has a timer (`Armed`).
  Under `OneUser` and `Mild` (only connects and links fail; with more the code
  violates them, see above), for any number of slots and either `wait_for`:
  `StopFrees`, `FramesAreOwn`, `StopTellsNothing` (`ToldNothingOnceStopped`),
  `OnlyDropsEndIt` (`OnlyTheDroppedGivenUp`) and the refinement `BreakerImplemented`. The inductive
  invariant `FreeingInv` says who holds each link that is up (`UpIsHeld`) and what a
  run loop knows at each label (`AtItsLabel`): it dials only with every link down, the
  current one tears down only what has gone down, and one that a stop awaits either
  is still to be cancelled, hence will not connect, or has taken the cancellation,
  hence its `disconnect()` will not be cut short. That last part is why a stop that
  cancels the loop frees the gateway all the same.
* `ClusterReadProofs`, for any number of readers: `ReadTypeCorrect`, `ReadGivesLinkBack`,
  `ReadEarlyIsComplete`. The inductive invariant adds how the outcome and the
  label of a reader go together (`Outcomes`), and that a set event means enough
  complete batteries, from then on (`EnoughIsFull`, `StoppedFull`): what was
  heard only grows, so frames during teardown cannot undo it. `Serials` is
  assumed finite.
* `CommandLineProofs`, for any bank, number of attempts and strengths.
  `CommandReads`: the command line implements `ClusterRead`'s specification, step by
  step, which carries `LinkGivenBack` and `EarlyIsComplete` over
  (`CommandGivesLinkBack`, `CommandEarlyIsComplete`). `NothingIsMissed`,
  `ReadsWhatIsAsked` and `StatusIsTrue` are the three properties of the program,
  and `CommandTypeCorrect` its type invariant. They rest on two lemmas
  about data: `FirstMatch` (the index chosen is the least match, and 0 only if there
  is none) and `CollectedHolds` (a list made of a scan has every recognised
  battery, with its name, and no other, in an order `_collect` allows).
  `StrongestIsRead`, `StrongestOfAll`, is an action property: the list stays in that
  order from the scan to the choice (`InOrder`), and the choice is its first match. The inductive invariant `CommandInv` is the three
  properties with `Stages` (how stage, wish, reader and status go together),
  `Honest` (what was received and asked for is still in `found`, or was not received at all)
  and `Cancelled` (a reader of an interrupted program is on its way to `raised`).
* `FrameParserProofs`, for any delimiters and escapes that do not clash, any
  messages, and any way notifications cut them. `StuffingIsUndone`: what `stuff` makes
  of any bytes has no delimiter in it, leaves no escape open, and is undone by
  `_unstuff`. `ParserTypeCorrect`: also, as many frames are returned as counted, and
  the buffer is the end of what was received, whatever is lost or damaged.
  `HealthyRejects` and `HealthyBuffer`: `HealthyRejectsNothing` and
  `HealthyBufferBounded`. Their inductive invariant `HealthyInv` says of a stream
  without faults that buffer and wire together are a beginning cut off and whole frames
  one after the other (`Tiled`), and that no frame in the buffer has ended
  (`Drained`). What keeps it is that where a frame ends depends on its own bytes only
  (`WindowFrames`), so that a frame is the same in the buffer, in the buffer with the
  next notification and in the whole stream; and that one call on such bytes rejects
  nothing and consumes up to the end of the last frame that has ended (`CleanParse`).
  `IntactFramesReturned`: `EveryIntactFrame`, for any loss and damage. Its invariant
  `IntactInv` adds that what was received before the buffer ends with a frame, and that
  no frame received ends in the buffer: so a call can miss or repeat none. Unstuffing
  has an inverse the other way too (`UnstuffingIsUndone`), so an accepted frame is the
  encoding of its body, and of no other; none begins inside another (`NoneInside`,
  `FramesApart`); and one call returns the frames in its bytes (`ParseFinds`), those
  of a stream being those of its parts (`GatherWindow`). The theorem's hypothesis is
  that `Alphabet` is every byte, as it is of real payloads. With fewer, noise may be a
  byte no payload is made of, and a frame damaged so that its checksum still agrees is
  accepted but is not among the frames the property counts. The run's alphabet is
  smaller, but has every byte its messages and its noise can put into a payload.
* `AssemblerProofs`, for any batteries, kinds of frame and frames per notification:
  `AssemblerTypeOK`, `NewestFramesAreHeld`, `FeedReturnsWhatChanged` and
  `ReadingNamesTheMaster`. Each is an induction over the frames of one feed: what one
  frame does (`AbsorbHolds`) relates the state before the feed to the state after
  each prefix of its frames, and the least prefix it fails for cannot exist.
* `BankReadingProofs`, for any bank and payloads. `AlarmsAccountedFor` and
  `UnmappedIsUnread`: a table of the slot at each place (`SlotAt`) is an inverse of
  the code's, so no two alarms share a place. `RelaysAreRead` and `RosterIsRead`:
  what is stored is what the decoders made of some payload, and these decode pair by
  pair and stop where they should (`RoutesOf`, `ListedStops`). `BankTypeOK`,
  `DisagreementShows` and `StatusIsCaused`: sums and extremes over any number of
  batteries, by adding one battery at a time. They assume that payloads are bytes,
  that a summary's current and cells are naturals (its fields are unsigned until
  the sign is taken out of them), that a roster's count is a byte, and that there are
  finitely many batteries: the formats `protocol.py` unpacks, and a dictionary's keys.
* `ReadingMergeProofs`: `MergeAssociative` is a fact about the operator, field by
  field and battery by battery; `MergeBatching` follows from it, and
  `MergeTypeCorrect`, `MergeFreshest` and `MergeCellsAge` from the conjunction of
  the four invariants, which is inductive as it stands.

Induction over data. The prover cannot instantiate an induction theorem, which
takes the statement as a parameter; so `FoldFacts` does the inductions it needs by a
least counterexample, for sets of naturals (`LeastOf`, `CountingUp`) and for subsets of
a finite set (`AddingUp`), and shows that the functions behind folds and recursive
functions exist (`LeftFoldExists`, `RunExists`, `RunBackExists`). With those, what a
fold or a recursive function computes is proved for every input, one definition at a
time: `Stuff`, `Unstuff`, `Crc`, `Parse`, the fold of `feed`, the sum of currents.

Only model-checked: liveness (`StopTerminates`, `UpdateDelivered`,
`MaintainsItself`, `ProgramEnds`), which is out of the prover's reach. Every safety
property of a passing run is proved.

## Not modelled

* Fields that are one scaled integer at an offset (temperatures, SOC, energy,
  voltages, the labels of model and position), and the bank's power, SOC and mean
  voltage: arithmetic without state or cases beyond those shown.
* The mask of the payloads, for the size of its products.
* The names and categories of the alarms, and what `_print_human` and `_to_dict` print.
* Parsing of arguments; a scanner supplied by the caller (`client.py:126`), which
  only changes where advertisements come from; the choice of connector in
  `async_connect`, all three of which end in a link or raise.
* `update_device` and the text of `last_error` of the stream.
* The `ParseStats` object that a reading shares with its assembler
  (`assembler.py:173`): readings are values here; aliasing needs object identity.
* Clocks: the periods of keepalive, backoff and throttle are events that may
  happen, not durations.

## Plan

Done, in this order: the stream and its abstract circuit breaker, the poll, the
parser, the assembler and the merge; then the alarm field and the decoders
(`Payloads`, `BankReading`), discovery and the program (`CommandLine`), the master's position in
`Assembler`. What is left:

1. `NoLostUpdate` for overlapping users.
2. `ReadSession`: `FrameParser`, `Assembler` and `ClusterRead` composed, an
   update per intact frame end to end.
