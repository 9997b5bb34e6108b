# Beagley cluster: verification project

TLA+ models of the Beagley instrument cluster: a Qt display in the dashboard (C++ and QML, on a
BeagleY) and the vehicle hub that feeds it (Python, on a BeagleBone). The models cover the parts
whose correctness depends on order, time, loss or failure, and the tools that judge recorded drives.
TLC checks them on small instances; TLAPS proves every one of their safety properties for every
value of their constants: of the link, the hub process, its inputs, the clock helper, navigation, the fault
recorder and the now-playing service, of the monitors and the offline tools, and of the decoder of frames.
Paths below are relative to the repository's root.

## 1. The system

    CAN bus, serial line, NMEA receiver
        |  (read by threads and asyncio tasks)
    vehicle hub (tools/bbb_hub, one asyncio process under systemd)
        |-- vehicle_state frames over a WebSocket --> VehicleStateClient --> VehicleStateSource
        |                                              (src/data)             |        |
        |-- the same frames --> gps_clock (sets the display's clock)          |        QML
        |-- faults --> FaultRecorder (event files)         NavigationService <'
        |-- baseline, transitions, CAN diagnostics          (src/navigation)
        '-- logs of frames --> diagnostic replay --> enriched log, report, verdict

    raw CAN log, ELM327 adapter --> CAN workbench (tools/can_reverse_workbench):
        capture session --> discovery, identity report --> dictionary --> decoder --> hub inputs

| part | state it keeps | what happens to it | what makes it correct |
|---|---|---|---|
| `VehicleStateSource` | link flags, live and latched telltales, GPS fix and pose | setters called by the client; a coalesced zero-length timer | `linkLost` follows from the flags; latched telltales freeze while it is set and come only from frames the hub vouched for |
| `VehicleStateClient` | socket, handshake, back-off, four timers, age of the last good frame | socket signals, batches of frames, timers, replay of a file | no old data shown as fresh, one retry always pending, recovery from every loss |
| hub process (`vehicle_hub_prod.py`) | client set, broadcast task, watchdog clock | clients come, stall and go at every `await`; systemd kills and restarts | a stall ends within the watchdog, the client set is exact, readers are served |
| hub inputs | last values and ages per source, held fix, speed selector with two clocks | lines and frames arrive, a frame is built per round | stale sources leave nothing in a frame; holds and switches keep their times |
| `gps_clock.py` | streak, cooldown, recheck | frames, failed sets, clock jumps, restart | garbage does not set the clock, tries are spaced, a wrong clock comes right |
| `NavigationService` | destination, route, alternatives, guidance, requests in flight, file on disk | user, late answers, GPS signals, timers, restart | only current answers are used, the second look off the route finds a reroute in flight, no wait without a request |
| `fault_recorder.py` | event directory, time of last write per fingerprint | a frame with faults is written, moved and pruned; disk fails; restart | no torn event, bounded directory, a lasting fault is recorded |
| `NowPlayingService` | track, one request, a pending save, tokens | timers, network answers, the driver | a save is confirmed for the track it was made for; nothing is pending for ever |
| Spotify pairing, with its broker | code, timers, request, local server; sessions of the broker | the driver begins and cancels; phones scan, late answers and callbacks arrive, answers are lost | a code on the screen is watched for and its scan is answered |
| `WiFiSetupService`, `setup_wifi.sh` | reconcile timer, jobs, profiles | jobs end while the user acts | the last choice of the user wins |
| `RadarImageService` | timeline, tiles in flight, composites | answers come out of order | no image of an old timeline |
| `WebSocketFrameDecoder` | buffer, fragments | bytes cut anywhere | events do not depend on the cuts |
| `vehicle_baseline.py` | buckets of comparable driving, trust in each, a file | a frame judges or teaches a bucket; periodic save; kill, full disk, restart | a restart costs no more than since the last save, the file is never traded for less |
| `transition_monitor.py` | history, segmenter, windows, template, a file written in place | a window is measured after its event, judged, learned, saved | a healthy engine is accused only with a cause, and only for a start; what is learned is saved when it can be |
| `can_diagnostics.py` | intervals and values per identifier | frames come, change, stop and go on | an outage is noticed, a new rhythm is accepted |
| signal health, status, verdict | history per signal; scores over a capture | a frame's faults become findings, a status, a verdict | "healthy" means nothing was found in the capture, and less evidence never helps |
| `diagnostic_replay.py` | position in a log, coverage, an enriched copy, a report | replays run, fail to write, are killed | under its final name the enriched log is whole |
| capture sessions | database of sessions, export directories | commands create, import and export at the same time, and are killed | a session holds its logs once or not at all; no file of an export tells less than those before it |
| `elm327.py` | command in flight, bytes read, rows | the adapter answers, is late, silent or unplugged | no answer under a wrong PID, none twice; a capture ends |
| `bbb_decoder.py`, `bitfield.py` | position in a log, last values, the pass | snapshots at any times; the log starts again | a field is the piece of payload it names; a pass shows nothing of the one before |
| discovery and identity report | candidates, decisions, suggestions of an AI command, exports | fields are ranked, named, promoted, exported | a name is earned; the AI can rename but not promote |
| the rest | configuration, drawing, offline analysis, build and deployment | | see section 8 |

How they interact: the hub's tasks share one event loop and switch only at an `await`; the client
is one Qt thread running one handler at a time; the two meet only through frames on the socket.
`NavigationService` listens to `VehicleStateSource`'s signals. The clock helper is another client of
the hub and moves the wall clock that the fault recorder's files are dated by.

What is hard: a peer that vanishes without closing; several events in one `readyRead`; a setter that
changes telltales before the same frame's stale flag is applied; a coalesced timer; a client set
changed across an `await`; clocks that stand still while nobody calls them; answers that come after
the question has changed; files written while the process may stop; statistics that contain the faults
they should reveal; commands racing over one database. `PROJECT.json` lists 39 such
hazards at their lines with the properties that watch them.

## 2. Modules

| module | models | composed with |
|---|---|---|
| `VehicleStateSource` | link policy and latch, as operators from a record to a record | extended by the client |
| `TelltaleLatch` | abstract: what the latch promises, without frames or timers | implemented by the client |
| `VehicleStateClient` | socket, upgrade, timers, batches, watchdog, replay; the hub and the network as environment | `MCVehicleStateClient` |
| `VehicleHub` | broadcast loop, handlers, clients, watchdog task, systemd | `MCVehicleHub` |
| `HubInputs` | sources, ages, held fix, overlay, speed selector, the frame of a round | `MCNavigation` |
| `GpsClock` | tracker, setter, recheck, cooldown, clock errors | `MCVehicleHub` |
| `NavigationService` | searches, routes, guidance, reroute, refresh, cache | `MCNavigation` |
| `FaultRecorder` | write, replace, prune, suppression, medium | `MCVehicleHub` |
| `NowPlayingService` | the Spotify back end: playback, tokens, saves and their checks; Spotify as environment | `MCNowPlaying` |
| `SpotifyPairing` | both ways to pair; the broker's handlers between their awaits; phones and the network as environment | `MCNowPlaying` |
| `OptionalValues`, `RunningStats`, `FrameValues` | a number that may be missing, mean and deviation, the operating state of a frame | extended by the diagnostics |
| `VehicleBaseline` | buckets, judgement, promotion, the save beside the file and the load | `MCMonitors` |
| `TransitionMonitor` | segmenter, window, reasons, template, the file in place | `MCTransitions`, `MCMonitors` |
| `CanDiagnostics` | one identifier with a dynamic signal, and the bus | `MCVehicleHub` |
| `SignalHealth`, `DiagnosticStatus`, `HealthVerdict` | pure: faults of a frame, its status, the verdict on a capture | each extends the one before |
| `DiagnosticReplay` | the loop over a log, its enriched copy, the report | extends the three; `MCOfflineTools` |
| `CanLog`, `ObdAnchors` | pure: what a raw CAN log and an anchor log come to | extended by `CaptureSession` |
| `CaptureSession` | commands, transactions, the four files of an export | `MCOfflineTools` |
| `ElmCapture` | initialisation, polling cycle, timeouts, late answers | `MCOfflineTools` |
| `SignalDecoder` | bit fields, conditions, replay of a log as live values | `MCOfflineTools` |
| `SortedSets` | a finite set in the order of a relation, and what a filter chooses from a list | extended by the modules that sort |
| `CandidateFields`, `SignalDiscovery`, `SignalIdentity` | which field is which signal, and what is exported | `MCOfflineTools` |
| `WebSocketFrameDecoder` | a buffer fed in pieces, frames, fragments, limits | `MCOfflineTools` |
| `VehicleStateClient_proofs`, `NavigationService_proofs`, `FaultRecorder_proofs` | theorems about the module of the same name; the first holds what the setters of `VehicleStateSource` preserve, and at its end the theorems about `WebSocketFrameDecoder`, the client's other half | |
| `VehicleHub_proofs` | theorems about the hub process and the monitors that run in it | |
| `HubInputs_proofs` | theorems about the inputs, the clock helper and the signal decoder | |
| `NowPlayingService_proofs` | theorems about the player and the pairing | |
| `OfflineTools_proofs` | theorems about sessions, ELM327, replay, discovery and identity report | |
| `FoldFacts` | lemmas on folds, sums, extremes, sequences, sorted sets, recursion and division that these rest on | |

`MCVehicleHub`, `MCNavigation`, `MCMonitors` and `MCOfflineTools` put several modules into one run without
composing them: none of the parts shares state with another. The variable `part`, `monitor` or `tool`
is chosen at the start and picks the one a behaviour follows; the variables of the others keep their
first values, so the states are the sum of the parts and not their product, and fairness is that of the part
that moves. `MCNowPlaying` does the same with
the two halves of `NowPlayingService`, which share the tokens only: what a pairing brings is an action of the
player (`PairingReady`), and what makes a pairing begin is always possible in the model of the pairing.

State and code. One record per object holds its fields under their own names (`nav.guiding`
is `m_guidanceStarted`, `conn.backoffMs` is `m_reconnectBackoffMs`); `map` in `PROJECT.json` gives
the lines of every definition. A C++ handler is one action, and the private methods it calls are
operators from record to record composed in the code's order. In Python an action is what runs
between two suspending `await`s, and in the fault recorder what happens between two places where the
process may stop. Variables marked "history" record what really happened and no guard reads them.

Abstractions worth knowing:

* *Time.* A tick is the watchdog's period in the client, much longer than a frame in the hub
  process, one broadcast round in the inputs. Ages are counted in ticks and saturate where nothing
  distinguishes them any more. Timers that only race each other may fire whenever they are armed.
* *Batches.* `inbox` holds what the running `readyRead` has still to apply; no other handler runs
  until it is empty, as in Qt.
* *Values.* Telltales are a set. A speed is where it comes from and how old its fix is. A clock is
  its error against true time. What plays is a track or something without a track id. A pose is on the route, off it, or driven back along it. A search
  answer is good, weak or nothing. An event file is its date, its fingerprint, what tells it from others of both, whether it has its final name, and whether it is whole.
* *Statistics.* Mean and deviation are kept as count, sum and sum of squares, and a comparison is multiplied
  out. Scores of the verdict are whole thousandths. What `discovery.py` and `identity.py` measure on a field
  (fit, smoothness, entropy, correlation) is given, in hundredths; what is decided from it is modelled.
* *Environment.* `hub` and `dead` in the client, stalls and closes in the hub, answers in
  navigation, the medium in the recorder: nondeterministic and not bounded, except
  the misbehaviour in `GpsClock`, which `Faults` counts so that "once it behaves" has a meaning.

## 3. Runs

| run | instance | question and answer |
|---|---|---|
| `link` | one telltale, five kinds of frame, batches of at most two, `StaleTicks` 2, back-off 2..3 | Is old data ever trusted, does the latch implement `TelltaleLatch`, does a noticed loss always heal? Holds. |
| `silent_peer` | the same | Does a loss nobody notices heal? No: finding 1. |
| `hub` | one part per behaviour. Process: two clients, lag limit 1, `WatchdogSec` 3, pets every 1. CAN: two payloads, two lengths, periods 1 and 3, four changes of the sender. Recorder: three fingerprints, one with a name too long, a budget of one file, interval 1, two dates. Clock: three frames, recheck 3, cooldown 2, errors -3..3, six faults | Are stalls bounded, the registry exact, readers served? Is an outage missed or reported for ever? An overfull directory, a lasting fault that is not kept? Can garbage set the clock, does the clock come right? The good answer in each. |
| `hub_churn` | the process of that run | May clients come and go freely? No: finding 2. |
| `navigation` | two destinations, one query, two alternatives; or the inputs, with every timeout 1 round and all three modes | Are only current answers used, does guidance have a route, is a reroute ever missed, does a new route lead elsewhere? Are holds bounded and the way back sustained? The good answer in each. |
| `nav_destination` | two destinations, one alternative | Does a destination saved without a fix get its route? No: finding 3. |
| `nav_reroute_flag` | two destinations, one query, two alternatives | Is a reroute under way whenever the display says so? No: finding 4. |
| `now_playing` | two tracks, one episode, two attempts at a check, presses while fewer than two saves are unfinished; or the pairing, with two codes | Is the heart true, does every chain of requests end, do checks and the display come right, is a code on the screen watched for and its scan answered? Holds. |
| `monitors` | one monitor per behaviour. Baseline: three targets, three conditions, a bucket of two samples, save every 2 samples or rounds. Transitions: windows of two rounds before the event, its own and one after; three samples at least; one window to learn, two starts | Does a kill or a full disk cost more than it must? Is a healthy engine accused because frames of a start were stale or missing, does what is learned reach the file? The good answer in each. |
| `phantom_start` | the transitions of that run, without a full disk | Is only a start judged as a start? No: finding 5. |
| `offline_tools` | one tool per behaviour. Replay: seven frames, three per log, two replays. Sessions: two commands at once, three in all, one session, one directory, three CAN logs, two anchor logs. ELM327: two PIDs, five commands. Decoder: every field of two bytes in either order. Discovery and identity: two fields, on one identifier or on two, a handful of measurements and suggestions. Frames: eleven kinds, up to three in a stream, payloads of at most 3 bytes, a buffer of 17 | Is no verdict improved by less evidence, are exports and enriched logs whole, is an answer told under its own PID, are fields exact, can an AI command promote, and do the events of a stream depend on where its bytes are cut? The good answer in each. |
| `replay_verdict` | a drive of three frames, of which baseline and transitions report what they may | Does "healthy" mean that nothing was found? No: finding 6. |

Why the bounds are enough. Telltales are handled alike and independently, so one shows every order of
change, sync and freeze; the five frames are those the client's decisions distinguish (good or not,
stale or not, lit or not, with and without a pose); batches of two reach "something applied, then
the drop in the same turn", and longer ones add no pair of neighbours. `StaleTicks` 2 separates
fresh, just stale and long stale. `InitialBackoffMs` 2 with the maximum 3 makes the doubling hit the
cap. In the hub two clients let one stall or leave while the other is served; the constants keep the
order lag limit < watchdog, pet interval < watchdog, of 5, 7.5 and 15 s. In the inputs a timeout of
one round distinguishes before, at and after. In the clock three frames distinguish the first, the
middle and the last of a streak, recheck and cooldown differ, and six faults are enough for two runs
of wrong frames that set the clock, or one and a failed set. In navigation two destinations make a
request for the wrong one, and requests in flight are a set with no limit on their number. In the recorder
a budget of one file is the tightest: every event and every leftover pushes something out, two files meet
before a prune, and by date the older one need not be the one written first. A fault whose name the disk refuses runs
beside two that can be written; the bound on the directory is proved for every budget. In the
now-playing service two tracks and an episode make every change of what plays; two attempts make a
check that tries again, one that gives up and one in between; two unfinished saves make confirmations
of one track meet a save of the other, and a save that waits meet one under way. In the pairing the two codes are
that of the pairing on the screen and that of an earlier one, whose polls, claims and phones are still about; polls,
claims and callbacks under way are sets of codes, without a limit on how often each comes.

In the baseline the targets are the usual value, one far off and none; the conditions are two that fall in
different buckets and one that may not be learned; `MaxSamples` 4 is one more than a model needs to be ready,
so it judges and still learns. In the transitions a window of four rounds keeps its minimum of three samples when one of them
is stale or missing, on either side of the event and in either of two rounds before it; a start that stalls and one
that runs fill windows in every order, and two starts are one that is learned and one judged by it. Rounds of half
a second or so make the tolerance of 0.75 s one round and the least time between two events of a kind, 0.75 s too, two; the code's windows, of 1.2 s and 2.5 s, are
more rounds at the hub's rate, and for any number of them the theorem holds. On the bus
period 3 is longer than the least limit and period 1 shorter, and four changes are two outages with a change
of rhythm between. A replay of three frames has a first, a middle and a last one, a second replay meets what the
first left behind. Two commands over one database race in pairs; every step of one is a transaction, so three
commands add a third writer between two reads. Five commands of the adapter are the initial one, the question
of what is supported and three polls: one late answer, the poll it spoils and the one after. The decoder's
dictionaries have every start and lengths of less than, exactly and more than a byte, and one that never fits.
The frames of a peer have every form of length and mask, every kind of opcode the decoder distinguishes, and payloads
below, at and beyond the limit, one of them only in the upper half of its 64 bits; every two of them follow each other,
and a third one follows where the first is part of a message. Their bytes are cut at every place and in every number.

Deadlock is checked in every run but `offline_tools` and `replay_verdict`. In the hub, its inputs and monitors, the
clock helper, navigation, the player and the client something can always happen; that also holds of a played-out replay
because the watchdog goes on. Those two end at the bounds of their
commands and frames, so there the end of a behaviour is not an error.

Every property of a passing run has been seen to fail for a mutant of the code: a dropped guard, a
missing reset, a swapped order or an off-by-one. The mutants stand beside the operators they change and are
referred to by nothing else.

## 4. Fairness

* Client: the event loop runs pending handlers and expired timers. Timers that a stream of `readyRead`
  handlers can disable for a moment (in the model, while `inbox` is not empty) have strong
  fairness, since Qt serves timers between socket notifications. A serving hub answers attempts that
  keep being made. Recovery assumes that the hub serves for good after some moment; nothing is assumed of it before.
* Hub: the event loop runs what is ready, a close handshake ends (the library limits its time),
  systemd acts. Clients owe nothing: a stalled one may stay stalled.
* Clock: time passes and frames with a right UTC keep coming (`run_forever` reconnects for ever).
* Navigation, for `nav_destination` only: vehicle signals, the refresh timer and a good answer to a
  request repeated for ever; with all of that granted the promise still fails.
* Recorder: a write does not hang, frames with the fault keep coming, time passes; the property
  itself supposes that the medium is well and restarts end at some time.
* Now playing: every request is answered or fails. The code sets no transfer timeout, so it is the
  operating system that ends them. The confirmation timer fires. The refresh timer, every four seconds,
  does not always fall on a request in flight (strong fairness). Spotify owes nothing; the properties
  suppose that it works after some moment, and that the login can be renewed.
* Pairing: the poll timer fires, and the broker answers a poll unless the request or its answer is lost; the property
  supposes that nothing is lost after some moment. Neither the driver nor a phone owes anything, and the
  15-minute timer is not needed.

* CAN diagnostics: rounds pass, and a sender that is on sends. Nothing makes a sender stay on: the property
  supposes it.
* ELM327: the program goes on (a read returns at its timeout at the latest) and the time of the capture passes.
  The adapter owes nothing, not even to be plugged in.

The other modules have no liveness property and no fairness.

## 5. Proofs

TLAPS proves, for every value of the constants that meets the assumptions named beside them:

* `VehicleStateClient_proofs`: `Spec => []ClientInv`, and from it `TypeOK`, `NoOldDataAsFresh`,
  `TrustIsRecent` (together `DataIsFresh`), `AttemptGuarded`, `GpsNeedsLink`, `LatchWillFollow`; and `LatchSafety`, that the
  initial states and every step map to `TelltaleLatch`'s. Any set of telltales, any frames
  and batches, any stale timeout and back-off. Of the frame decoder: `FrameSpec => []FrameInv`, and from it
  `EventsIgnoreCuts` and `LeftoverHasRoom`, for any streams of frames, any cuts of their bytes, any limit of a payload up to
  65536 and any limit of the buffer that is large enough for one frame.
* `VehicleHub_proofs`: `Spec => []HubInv`, and from it `TypeOK`, `StallIsBounded` and
  `RegistryMatchesConnections`, for any finite set of clients. Of the monitors: `LossIsBounded` and the action
  property `FileKeepsLearning`, for any conditions, values, batch and interval; `SilenceIsNoticed`, for
  any periods, limits and numbers of samples; `AlarmsHaveACause` and the action property `SavedWhenItCan`, for
  any airflow and engine speed, tolerance and intervals, and windows of any number of rounds.
* `HubInputs_proofs`: `InputsSpec => []InputsInv`, and from it `InputsTypeOK`, `StaleFramesAreZeroed`, `FixHoldBounded`,
  `SpeedHoldBounded` (together `HoldsAreBounded`), and the action property `RegainIsSustained`, for any timeouts and delays.
  `ClockSpec => []ClockInv`, and from it `ClockTypeOK` and the action properties `WrongTimeNeedsAWrongRun` and
  `TriesAreSpaced`, for any recheck, cooldown, streak and errors. `DecoderSpec => []ShowsThisPass`, for any
  sorted log, dictionary and times; and `DecoderSpec => []FieldsAreExact`, for any payload and any field of 1 to 32 bits.
* `NavigationService_proofs`: `Spec => []ServiceInv`, and from it `TypeOK`, `ResultsMatchQuery`,
  `GuidanceHasARoute`, and the action properties `NoMissedReroute` and `NewRoutesLeadToTheDestination`, for any
  destinations, queries and alternatives.
* `FaultRecorder_proofs`: `RecorderSpec => []RecorderInv`, and from it `RecorderTypeOK`, `JsonIsWhole`,
  `DirectoryBounded` and `StatusNamesAnEvent`, for any faults, names and limits.
* `NowPlayingService_proofs`: `Spec => []PlayerInv`, and from it `TypeOK`, `HeartIsTrue` and
  `PendingActionIsCarried`, for any tracks, attempts and number of saves; and
  `PairingSpec => []ScanIsWatched`, for any codes.
* `OfflineTools_proofs`: `RowsAreTheLogs` and `ExportsAgree`, for any logs, directories and number of commands;
  `RowsTellNewAnswers`, for any catalog and any lateness; `PraiseNeedsASoundEnd`, `LessNeverHelps` and the action property
  `EnrichedIsWhole`, for any log, context weights and reports of the monitors; `NamesAreEarned`, for any measurements
  and number of fields; `AiCannotPromote`, for any measurements, answers of the AI command, report sizes and number of fields.
* `FoldFacts`: that `MapThenFoldSet` and `FoldLeft` compute what their recursion says, sums over functions, extremes
  of finite sets, places in a sorted set, sequences put together, functions given by recursion, quotients and remainders.

The assumptions are named in the module that declares the constants. `ClientAssumption`, `HubAssumption`,
`InputsAssumption`, `ClockAssumption`, `NavigationAssumption`, `FaultRecorderAssumption`, `PlayerAssumption`,
`PairingAssumption`, `BaselineAssumption`, `CanAssumption`, `TransitionAssumption`, `ReplayAssumption`,
`VerdictAssumption`, `StatusAssumption`, `CanLogAssumption`, `ObdAssumption`, `SessionAssumption`, `ElmAssumption` and
`FieldsAssumption` say what the code's own constants are: natural numbers, which of them are not zero and how
they are ordered. `FrameDecoderAssumption` says that a payload may have up to 65536 bytes and no more (kMaxPayloadBytes), and that
the buffer holds the longest frame with its header. `FrameAssumption`, `DecoderAssumption`, `StreamsAssumption`,
`DiscoveryAssumption` and
`IdentityAssumption` say what data is: a frame tells of a source true, false or nothing; a parsed log is in the order of its
times and its payloads are bytes; a frame on the wire has the form the protocol gives it, and the length it
declares is that of its payload unless it is to be refused for it; what was measured on a field are whole hundredths; a name that an AI command suggests is a name.
`NullAssumption` keeps the missing number apart from the numbers.

The arguments. Hardly any of the properties is inductive alone. `TrustIsRecent` speaks of how long
nothing good has really been heard (history); the code knows only `rx.age`. `AgeInv` ties the two
together while there is a good frame, and says how far the age may be past the timeout: by one tick,
and only while the watchdog's timeout is due. `AttemptGuarded` needs `ConnInv`, which excludes a
reconnect timer over a socket in use and a batch in hand without an open connection; that is what
lets `handleLinkDown` run from four handlers. The refinement needs `VouchedInv`: unless
the hub is marked stale, the live telltales are those of the last frame not marked stale. It is true
between the steps only because the warnings are set before the stale flag in one handler and the
latch follows in another; the mutant that lets the latch follow at once breaks it.

`StallIsBounded` follows from `lag <= MaxLag + pet.age` and `pet.age <= WatchdogSec + 1`: a pet is
given only within the lag limit, and from then on both clocks advance together. The registry needs
that a failed send's connection is lost or gone, otherwise the broadcast loop's own removal could
take out an open client. The bound in `TypeOK` on the counters is a consequence, not a cap:
no guard limits them.

`TriesAreSpaced` rests on `SpacedInv`: the time since the last try, or that time with what is left of
the recheck or of the cooldown, reaches the smaller of the two. `WrongTimeNeedsAWrongRun` rests on
`RunInv`: consecutive frames of a streak differ by at most 1 s, so an error of n has taken n wrong
frames in a row, or the whole streak. `FixHoldBounded` needs `SampleIsRecent`: the sample a frame is built from is as old as the receiver's age
says, plus the hold, while the receiver is not stale. `SpeedHoldBounded` and `RegainIsSustained` need
`ClocksAreTrue`, which says what the good and the bad clock tell of the rounds the selector has run in a
row: a running bad clock started within the stale time of a fix, and a good clock is no longer than the run
of good rounds.

`ServiceInv` ties what `NavigationService` holds together: a route and its alternatives lead to the
destination or are none, guidance has a route (also in the file, or a restart would guide along nothing), a
selected alternative exists, and the second look off the route has a request in flight or finds the flag left up
(`Looked`). `FlagKept` says which handler leaves it up: a destination chosen without a fix, and no other. The delicate handler is
`maybeRefreshRoute`, which takes the reroute flag down: it returns early unless the flag is down already, so
it never hides a reroute that was owed. The lemmas follow the handlers' own helpers, and each action of
`Next` is a composition of them.

In the recorder `JobInv` says what a write rests on at each
of its stages: room for the leftover it may become, then its `.tmp` file, then the event in place.
`DirectoryBounded` needs the first of these, and that an unused id always exists is a fact about cardinality.

`PlayerInv` has two parts because handlers call each other. `Sound` holds at every point inside a handler: the types,
that a verdict which says saved is about a liked track, that the notice is about the track on
the screen, and that a check or a save names a track. `Carried`, an action waits only for a token
under way, does not: a handler sets the action before it sends the request. So the lemmas about the small steps
preserve `Sound` and the lemmas about whole handlers establish `Carried` again.

`ScanIsWatched` needs to know which replies can still come: `PairingInv` says that a cluster with a broker never has
a server, a phone or an exchange, and one without it never a request to the broker. So a late reply
finds a state in which its handler, which does not look whether the pairing it answers is still on, cannot part the code
from what watches for it: every end goes through `stopPairingServer`, and a late "pending" shows the code the
cluster has, which is none.

`BaselineInv` balances memory against the file: unless the file could not be read, the samples in the buckets are
those in the file and those not yet saved, and these are fewer than a batch or than the rounds since the last save. That a
bucket gains one sample when it learns one is a fact about a sum over a function (`FoldFacts`).

For `SilenceIsNoticed` the intervals are sorted: if fewer than half of them exceed a number, the middle one, or the two of them,
do not, since what stands after the middle is at least half. So the limit that the code takes from the median is one the silence
has passed. `AlarmsHaveACause` is inductive with what a template is: `TransitionInv` says that a
template that learned only starts is n times the measures of a start, in every place, so a window of
a start is at distance nought from its mean. That a stale or missing frame changes none of the measures needs a fact about the
segmenter: the frame in which the event falls is a live one of a running engine (`HoldsEvent`), so the first answer is always there.

`DecoderInv` says that what is latest is what the frames done so far show, each signal by its last carrier. It needs the
log sorted: what is due is then a run of frames after the last one done, and the fold puts each on top.
`FieldsAreExact` needs of the state only that the dictionary was accepted; the rest is arithmetic. A payload read as one
number has its bytes as the digits to the base of 256, from whichever end they are counted (`PayloadDigits`, by induction over
a sum); so a bit the code takes out of a byte is a bit of that number (`BigBitIs`, `LittleBitIs`), and a piece of a number is its upper
part on top of its lowest digit (`PieceIsTwo`), which is what the three loops of the code compute step by step.

`EventsIgnoreCuts` compares what was told of the bytes received so far with what the frames in them mean. `FrameInv` says
that the decoder is settled: there is a number of frames whose events it has told, it holds the bytes behind
them and the fragments of the message they left open, and of the next frame something is missing, or the stream was closed
or refused there. The lemmas follow the code inwards. A mask applied twice is no mask (`MaskedTwice`). A length that arrives in two or eight bytes is
the length declared, or is beyond the limit (`LengthIsDeclared`). A round of the loop over a buffer that begins
with a whole frame reads that frame and leaves what is behind it; over a part of one it waits, or refuses what the
header already tells (`FirstIsRead`, `FrameIsRead`). So the loop reads all that is there (`BufferIsDecoded`), and a slice fed
in pieces of the room in the buffer is fed whole (`SliceIsFed`, `PieceIsFed`); both are inductions over what is
still to read. That there always is room, on which `feed` relies (the comment at WebSocketFrameDecoder.cpp:33), is
`LeftoverHasRoom`: a frame that is waited for is one that would be accepted, so its part is shorter than the limit of a payload and
14 bytes of header.

The model follows the code up to one thing: a declared length is not computed beyond 65536, whatever its eight bytes say,
because what is longer is refused all the same. A length of exactly 65536 is accepted.

`SessionInv` has the two halves of the commands. `DatabaseInv`: a session is made by one command at a time, what
its transactions have committed is what the command has come to, and a session that exists holds its logs whole. `ExportInv`: a
directory is one command's at a time, files are written in their order, and those of the command's own are of the session as
it was; that the rows of a log are what the parser has left of it needs no more of the parser than that it gives a sequence.
For an export of a session that another command is still importing, `TellInv` keeps a `Chain`: what the files
rendered so far tell rises from file to file and stays within what the session holds, which only grows (`SessionsGrow`).
`ElmInv` orders the answers by the number of the command they answer: those told come before those read, these
before those on the wire, and these before those being sent. So no answer can be told twice, and one told under the PID asked
is new.

`LessNeverHelps` rests on `WeakerIsNotBetter`, which compares two evidences in every score: each share rounds monotonically,
the coverage is a weighted sum of shares, a reason is never lost when evidence is, and the verdict is decided by
thresholds on what is monotone. `PraiseNeedsASoundEnd`, which is all that a good verdict says, follows from the same thresholds over
evidence of which `ReplayInv` says that it can be scored, `EnrichedIsWhole` from what it counts: the temporary file holds
as many frames as were done.

`NamesAreEarned` needs that the sort is one: `Before` orders keys (it is irreflexive, total on different keys and
transitive, by the first place they differ in), so a ranked list holds every field once and none
stands before a better one. `DiscoveryInv` then says that analysis and export are functions of the fields. In the identity
report every hypothesis is a `Reading`: a field under some class and name with what its own measurements make of it, and
unchanged if they reject it. Choosing, sorting, selecting and merging suggestions keep a list of readings one.
What is kept of the probable ones tells the others, by induction over the list, and the names under which
they are exported are different because among one more suffixes than names in use one is free.

Proved and no longer the question of a run: the types, `StaleFramesAreZeroed`, `AttemptGuarded`,
`GpsNeedsLink`, `LatchWillFollow`, `TriesAreSpaced`, `JsonIsWhole`, `StatusNamesAnEvent`, `LeftoverHasRoom` and
`PendingActionIsCarried`. They are parts of the inductive invariants, so a change of the code that breaks one breaks a proof.

The induction theorems of the library take a predicate, which the provers cannot be given. `FoldFacts` proves
induction over finite sets and over the naturals for a *set* of good ones instead, from the well-foundedness of the
subset order, and that a fold's recursion has a solution; a fold in a model is then the solution the `CHOOSE`
in its definition takes. So modules that are proved about fold over functions, finite sets and lists, sort with `InOrder`
and filter with `Chosen`; `SelectSeq`, `SortSeq` and `@@` are nothing the provers can expand. For the same reason the transitions keep their
history as a set of frames with their ages and not as a sequence.

Left to TLC are the liveness properties (`RecoversFromNoticedLoss`, `OpenClientServed`,
  `ClockComesRight`, `LastingFaultsAreKept`, `EveryChainEnds`, `ChecksEnd`, `PlaybackIsFollowed`, `ScanIsAnswered`,
  `RhythmIsRelearned`, `CaptureEnds`) and the fairness part of the refinement, which this prover does not reach.

## 6. Findings

1. *A silent peer is never dropped* (`silent_peer`). `checkStale` (VehicleStateClient.cpp:752) marks the data
   stale but leaves the socket; the client sends nothing unprompted and sets no keepalive. After a
   pulled cable or a power loss of the hub the display stays lost although the hub serves again.
   docs/DEPLOY_AARCH64.md:246 expects that live values return. Whether they do depends on TCP: if the
   hub still has the old connection it retransmits, and all is well.
2. *A connecting client can end the hub* (`hub_churn`). `broadcast_loop` iterates the set that
   `ws_handler` changes, across an `await` that suspends (vehicle_hub_prod.py:757); Python raises "Set
   changed size during iteration" outside the `try`. systemd restarts the process, which is why
   `OpenClientServed` still holds.
3. *A saved destination is forgotten* (`nav_destination`). "Route will build when GPS becomes valid"
   (NavigationService.cpp:731), and nothing builds it.
4. *A reroute that nobody makes* (`nav_reroute_flag`). `setDestination` retires the reroute in flight
   (NavigationService.cpp:296) and, without a fix, leaves `m_rerouting` set. The driver is told "Rerouting" (161),
   and off-route looks (1092) and refreshes (1267) are swallowed until another request or `clearRoute`.
5. *A phantom start* (`phantom_start`). A stale frame carries an engine speed of 0 (vehicle_hub_prod.py:235), and the
   next live frame of a running engine is a `first_fire` (transitions.py:100). Airflow that stays as it was is then
   accused of not having answered; docs/vehicle_hub_scope.md:263-265 means the transition from crank to run.
6. *"healthy" is of the last frame* (`replay_verdict`). `run_diagnostic_replay` gives the verdict the state of the
   last frame (diagnostic_replay.py:295); what was found and has gone before the end is counted in the report and not
   judged. tools/schema/vehicle_health_verdict_v1.md:205 reserves the word for evidence without material findings.

## 7. Limits of what is modelled

* `NoMissedReroute` asks for a request whose answer will be taken, and has one exception, which it names: a
  destination chosen without a fix leaves the flag up. That this happens at all is finding 4.
* `WrongTimeNeedsAWrongRun` bounds how many wrong frames it takes. Frames whose UTC drifts by up to
  the threshold each are consistent for the code, and the model allows them: that is why the bound is
  the smaller of the error and the required number.
* `DirectoryBounded` is in files. The limit in bytes is applied by the same loop and is left out.
* The hub process and its inputs are two modules: one says when a round runs, the other what it
  sends. The client's `Deliverable` takes from a serving hub only frames it can trust;
  `StaleFramesAreZeroed` is the fact about frames that the latch depends on.
* In `NowPlayingService` songs are only ever added to Liked Songs. A save that had to wait 900 ms saves
  what is current then, not what the driver saw when pressing: the model has it, no document says
  otherwise, and the hazard list names it. A save whose token is refused after its renewal leaves
  SAVING on the screen until the track is judged again, which for a track already known not to be liked
  does not happen; `ChecksEnd` therefore speaks of CHECKING only. Pausing and skipping never reach
  Spotify in this code: with that back end the controls only refresh.
* In the pairing the model has, and no property forbids: a "pending" that comes after a cancel or a timeout shows
  "Waiting for approval" with no code and no timer until the driver cancels; a create answered that late
  takes its pairing up without the 15-minute timer; while the login is missing a cancelled pairing begins again
  by itself; a callback that meets an earlier exchange under way shows "Saving" and exchanges nothing; and when the answer that
  carries the tokens is lost the session is gone, so the next poll ends the pairing as expired.
  `beginBrokerSpotifyPairing` calls `deleteLater` on the reply that `abort()` has just cleared; `Restart` stands for
  the crash that may be. A session whose deletion fails (the broker answers an error and keeps it) is left out.
* `SpeedHoldBounded` counts rounds in which the selector runs. Its clocks advance only then
  (vehicle_hub_prod.py:506, 515, 754), so across rounds that skip it a GPS speed outlives the hold that
  speed_source.py:11 states without that condition.
* An event file's name holds every fault of its frame. Eight CAN identifiers that drop out together make it
  longer than 255 bytes, and the write fails for as long as they last (fault_recorder.py:145, against
  docs/vehicle_hub_scope.md:174). `Long` in the model are such faults; `LastingFaultsAreKept` is about the others.
* `AlarmsHaveACause` counts as a cause that the live samples of a window, of the one judged or of one that was
  learned, do not show a start: an engine that stalls, one that ran before the event (finding 5), no live sample before
  it. Stale frames and rounds without one are no cause. The template learns by the state of the frame a window ends
  in (transition_monitor.py:360), so one bad window makes later good ones look wrong; the model has that. The reasons about
  noise and correlation are left out. The three profiles of the baseline, and those of the transitions, differ in
  their signals; one stands for them.
* `LossIsBounded` holds unless a write or the read at the start failed: a process that could not read its file
  writes over it, which `FileKeepsLearning` states as its one exception.
* `RowsTellNewAnswers` says nothing of *when* an answer was given. After one late answer a cycle of two or more
  PIDs logs only errors, since each answer is refused under the next PID; a cycle of one PID goes on with
  values stamped a poll late. The code has no resynchronisation, and the model none.
* `ExportsAgree` is about whole exports. The files of an `export-session` that runs while another command imports
  differ: one may tell of rows that one before it lacks, never the other way round. An `export-session` with an id that does not exist truncates the raw
  log of the directory before it fails, and the manifest of the earlier export stays beside it; the property allows
  that, as it does files newer than their manifest.
* `ShowsThisPass` speaks of the values that `ExtractSignalValue` cuts out; that they are the piece of payload the field names
  is `FieldsAreExact`. It allows what the code does to a short log: frames at the end of a pass to which no snapshot
  came are skipped.
* What `AiCannotPromote` says of the export is up to overlap: the AI's change of a class changes which of two overlapping hypotheses
  counts as the twin of the other, and so which names are exported. An AI answer that is a list and not an object
  ends the command with an uncaught error before it writes anything; in the model the report is not made.
* Scores computed in floating point are whole numbers rounded down; where two of them meet at a threshold the last
  digit may decide otherwise than in the code.
* The contents of gauges, texts, banners and the camera are left out everywhere; the Wi-Fi hotspot gate of
  navigation is off by default and left out; the bench simulator is not modelled.

## 8. Not modelled

Still to come: `WiFiSetupService`, `RadarImageService`. Left out for good: the playerctl back end of
`NowPlayingService` (one process with one timeout), the rest of the CAN workbench (reports of one pass over a log, an HTTP viewer, a consent command), the analysis reports and the hub's
health check (no state that outlives them), the render items and QML (drawing), `OpenNavigationProvider`
(builds requests and parses answers, without state), application start-up, firmware (a sampling loop),
simulators and mock clients (test equipment), the helper that pairs from a desk, and everything
that builds, deploys and measures. `PROJECT.json` gives the reason for each.

## 9. Plan

1. `WiFiSetupService` and `RadarImageService` with requests as in `NavigationService`.
2. The transitions with noise and correlation among their reasons, and two profiles over one history.
