---------------------------- MODULE MCOfflineTools ----------------------------
(***************************************************************************)
(* The tools that work on recorded captures, and the decoder of the        *)
(* display's frames, for model checking.  Each shares no state with the    *)
(* others, so a behaviour follows one of them, chosen at the start; the    *)
(* variables of the others stay as they began.                             *)
(***************************************************************************)
EXTENDS DiagnosticReplay, CaptureSession, ElmCapture, SignalDecoder, SignalDiscovery, SignalIdentity,
        WebSocketFrameDecoder

VARIABLE tool      \* the one this behaviour follows

vars == <<tool, replayVars, sessionVars, elmVars, decoderVars, discoveryVars, identityVars, frameVars>>

-----------------------------------------------------------------------------
(* Frames of a drive for the diagnostic replay, named by what they show.   *)
Drive ==
  [t |-> Null, rpm |-> 2000, speed |-> 50, coolant |-> 90, intake |-> 30, load |-> 20,
   gps |-> [present |-> TRUE, fix |-> TRUE, stale |-> FALSE, speed |-> 50],
   can |-> [enabled |-> TRUE, stale |-> FALSE, findings |-> {}],
   serial |-> [enabled |-> TRUE, stale |-> FALSE], stale |-> FALSE,
   candidate |-> Null, trust |-> Null]

Off == [Drive EXCEPT !.rpm = 0, !.speed = 0, !.gps.speed = 0, !.candidate = 1]
ColdIdle ==
  [Off EXCEPT !.rpm = 800, !.coolant = 20, !.intake = 15, !.t = 3, !.candidate = Null,
              !.trust = [tier |-> "low", named |-> TRUE]]
Uphill == [Drive EXCEPT !.load = 80, !.t = 12]
Implausible == [Drive EXCEPT !.speed = 300, !.gps.speed = 300, !.candidate = 2]
Irregular ==
  [Drive EXCEPT !.can.findings = {Finding("canLive", "2C1", "frame_rate_jitter", "info", 5)},
                !.speed = 65, !.gps.present = FALSE, !.gps.fix = FALSE, !.serial.enabled = FALSE]
BusLost ==
  [Drive EXCEPT !.can.findings = {Finding("canLive", "2C1", "can_id_dropout", "warning", 9)},
                !.can.stale = TRUE, !.serial.stale = TRUE]
Stale == [Drive EXCEPT !.stale = TRUE, !.speed = Null]

MCFrames == {Off, ColdIdle, Uphill, Implausible, Irregular, BusLost, Stale}
\* A drive of three frames that is seen in every context.
MCDriveFrames == {Off, ColdIdle, Uphill}
MCSidecars == {NoTrust, [tier |-> "low", named |-> TRUE]}
MCContexts == {"startup", "idle_stationary", "road_speed_drive", "cold_start", "heavy_load"}

-----------------------------------------------------------------------------
(* Logs for the capture sessions, and an adapter to poll.                  *)
MCStandardPids ==
  (12 :> [signal |-> "rpm", length |-> 2]) @@ (13 :> [signal |-> "speedKph", length |-> 1])
Line(form, t, data) == [form |-> form, t |-> t, data |-> data]
\* Frames out of order, with and without a time, and lines that are none.
CandumpLog ==
  [csv |-> FALSE, headed |-> TRUE,
   lines |-> <<Line("frame", 30, "a"), Line("badData", 10, "b"), Line("frame", Null, "b"),
               Line("noise", Null, "b"), Line("comment", Null, "b")>>]
CsvLog == [csv |-> TRUE, headed |-> TRUE, lines |-> <<Line("frame", 20, "a"), Line("frame", Null, "b")>>]
CutCsvLog == [csv |-> TRUE, headed |-> TRUE, lines |-> <<Line("frame", 20, "a"), Line("short", 21, "a")>>]
MCCanLogs == {CandumpLog, CsvLog, CutCsvLog}

Response(t, bytes) == [form |-> "response", t |-> t, bytes |-> bytes]
\* Speed with a length byte before it, engine speed, a line of nothing, and what is supported.
ElmLog ==
  <<Response(25, <<3, 65, 13, 50>>), Response(5, <<65, 12, 26, 248>>), [form |-> "other"],
    Response(3, <<65, 0, 0, 24, 0, 0>>)>>
\* A plain signal, and a line that is no object.
TornLog == <<[form |-> "signals", t |-> 40, values |-> {<<"gpsSpeedKph", 50>>}], [form |-> "scalar"]>>
MCObdLogs == {ElmLog, TornLog}

MCPids == <<12, 13>>

-----------------------------------------------------------------------------
(* Every field of a payload of two bytes, and a dictionary of two signals. *)
Field(s, l, e, g) == [id |-> 1, start |-> s, length |-> l, endian |-> e, signed |-> g, when |-> {}]
Multiplexed ==
  [rpm |-> Field(8, 8, "big", FALSE),
   pid |-> [Field(4, 12, "little", TRUE) EXCEPT !.when = {[start |-> 0, length |-> 4, value |-> 5]}]]
MCDictionaries ==
  {[rpm |-> Field(s, l, e, g)] :
     s \in 0..15, l \in {1, 3, 8, 9, 16, 33}, e \in {"big", "little"}, g \in BOOLEAN}
    \cup {Multiplexed}
At(t, id, data) == [t |-> t, id |-> id, data |-> data]
ShortLog == <<At(1, 1, <<33>>), At(2, 1, <<80, 7>>)>>
MCRecordedLogs == {<<At(1, 1, <<90, 195>>), At(2, 2, <<1, 2>>), At(4, 1, <<131, 24>>)>>, ShortLog}

-----------------------------------------------------------------------------
(* Fields that may be a signal.                                            *)
MCSpecs ==
  {[start |-> 0, length |-> 8, endian |-> "big", signed |-> FALSE],
   [start |-> 0, length |-> 16, endian |-> "big", signed |-> FALSE],
   [start |-> 4, length |-> 10, endian |-> "little", signed |-> TRUE]}
MCFieldSpecs == MCSpecs \cup {[start |-> 8, length |-> 8, endian |-> "big", signed |-> FALSE]}
Counting == <<250, 251, 252, 253, 254, 255, 256, 257>>
Moving == <<10, 30, 35, 20, 12, 10, 16, 30>>
Two == <<1, 1, 2, 2, 1, 1, 2, 2>>

\* A field for a target: none, one or three anchors, and how well they fit.
Fit(anchors, fit, resolution) ==
  [anchors |-> anchors, spread |-> TRUE, fit |-> fit, correlation |-> fit, window |-> fit,
   physical |-> fit, smoothness |-> fit, refresh |-> 100, variation |-> fit, shape |-> 80,
   resolution |-> resolution]
MCMeasurements ==
  {[series |-> series, of |-> [rpm |-> m, speedKph |-> Fit(1, 60, 90)]] :
     series \in {Counting, Moving, Two},
     m \in {Fit(0, 98, 100), Fit(1, 99, 100), Fit(3, 96, 50), Fit(3, 70, 90),
            [Fit(3, 97, 50) EXCEPT !.spread = FALSE]}}

NoSignal == [name |-> Null, class |-> Null]
Seen(series, correlation, signal, event, label) ==
  [series |-> series, unique |-> Cardinality(Range(series)), cardinality |-> 60, entropy |-> 80,
   smooth |-> 80, rate |-> 100, correlation |-> correlation, signal |-> signal,
   event |-> event, label |-> label, switch |-> 0, lamp |-> FALSE, gear |-> FALSE, range |-> 25]
\* A speed twice, a brake switch, noise, a counter, and something vague.
MCProfiles ==
  {Seen(Moving, 95, [name |-> "speedKph", class |-> "speed_like"], 0, Null),
   Seen(Moving, 88, [name |-> "gpsSpeedKph", class |-> "speed_like"], 90, "brake"),
   [Seen(Two, 0, NoSignal, 90, "brake") EXCEPT !.switch = 95, !.entropy = 10],
   [Seen(Moving, 0, NoSignal, 0, Null) EXCEPT !.entropy = 100, !.cardinality = 90, !.smooth = 5],
   Seen(Counting, 90, [name |-> "speedKph", class |-> "speed_like"], 0, Null),
   Seen(Moving, 30, [name |-> "mafGps", class |-> "airflow_like"], 85, Null)}

Suggestion(id, class, name) == [id |-> id, class |-> class, name |-> name, confidence |-> 9900]
Name(words, numbers) == [text |-> words, suffixes |-> numbers]
MCResponses ==
  {[object |-> o, suggestions |-> <<>>] : o \in BOOLEAN}
    \cup {[object |-> TRUE, suggestions |-> <<Suggestion(1, c, n), Suggestion(i, "rpm_like", Name(<<"rpm">>, <<2>>))>>] :
            c \in {"rpm_like", "counter", "bogus"}, n \in {Null, Name(<<"rpm">>, <<>>), Name(<<"rpm">>, <<2>>)},
            i \in {1, 2, 3}}

-----------------------------------------------------------------------------
(* What a peer sends: short and extended lengths, masked and plain; parts of a   *)
(* message, control frames, and lengths beyond the limit of 16 and of 32 bits.   *)
Sent(fin, opcode, ext, mask, payload) ==
  [fin |-> fin, opcode |-> opcode, ext |-> ext, mask |-> mask, payload |-> payload]
MCSentFrames ==
  {Sent(TRUE, 1, <<>>, <<>>, <<1, 2>>), Sent(TRUE, 1, <<0, 1>>, <<9, 0, 5, 255>>, <<7>>),
   Sent(FALSE, 1, <<>>, <<3, 0, 0, 1>>, <<4, 5>>), Sent(TRUE, 0, <<>>, <<>>, <<6>>),
   Sent(FALSE, 0, <<>>, <<>>, <<8>>), Sent(TRUE, 9, <<>>, <<>>, <<>>),
   Sent(TRUE, 10, <<>>, <<>>, <<1>>), Sent(TRUE, 8, <<>>, <<>>, <<3>>),
   Sent(TRUE, 1, <<0, 0, 0, 0, 0, 0, 0, 3>>, <<1, 1, 1, 1>>, <<1, 1, 2>>),
   Sent(TRUE, 1, <<0, 0, 0, 1, 0, 0, 0, 2>>, <<>>, <<1, 2>>), Sent(TRUE, 1, <<>>, <<>>, <<1, 2, 3, 4>>)}
\* One or two frames, and three where the first is part of a message.
MCStreams ==
  UNION {[1..n -> MCSentFrames] : n \in 1..2}
    \cup {s \in [1..3 -> MCSentFrames] : s[1].opcode = 1 /\ ~s[1].fin}

-----------------------------------------------------------------------------
\* Only the tool of this behaviour moves.
OnlyMoves(name) ==
  /\ tool = name /\ UNCHANGED tool
  /\ name # "replay"    => UNCHANGED replayVars
  /\ name # "session"   => UNCHANGED sessionVars
  /\ name # "elm"       => UNCHANGED elmVars
  /\ name # "decoder"   => UNCHANGED decoderVars
  /\ name # "discovery" => UNCHANGED discoveryVars
  /\ name # "identity"  => UNCHANGED identityVars
  /\ name # "frames"    => UNCHANGED frameVars

\* Those that begin with a choice of input have none when they do not move.
Init ==
  /\ tool \in {"replay", "session", "elm", "decoder", "discovery", "identity", "frames"}
  /\ ReplayInit /\ SessionInit /\ ElmInit
  /\ tool # "decoder" => dictionary = Multiplexed /\ log = ShortLog /\ repeat = TRUE
  /\ DecoderInit
  /\ IF tool = "discovery" THEN DiscoveryInit ELSE fields = <<>> /\ analysis = Null /\ exported = Null
  /\ IF tool = "identity" THEN IdentityInit ELSE found = <<>> /\ report = Null /\ candidates = Null
  /\ IF tool = "frames" THEN FrameInit ELSE stream = <<>> /\ fed = 0 /\ decoder = FreshDecoder /\ told = <<>>

Next ==
  \/ OnlyMoves("replay") /\ ReplayNext
  \/ OnlyMoves("session") /\ SessionNext
  \/ OnlyMoves("elm") /\ ElmNext
  \/ OnlyMoves("decoder") /\ DecoderNext
  \/ OnlyMoves("discovery") /\ DiscoveryNext
  \/ OnlyMoves("identity") /\ IdentityNext
  \/ OnlyMoves("frames") /\ FrameNext

\* A capture goes on, and its time passes.
Fairness ==
  /\ WF_vars(OnlyMoves("elm") /\ ElmProgress)
  /\ WF_vars(OnlyMoves("elm") /\ DurationPasses)

Spec == Init /\ [][Next]_vars /\ Fairness
===============================================================================
