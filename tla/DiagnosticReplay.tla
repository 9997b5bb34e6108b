--------------------------- MODULE DiagnosticReplay ---------------------------
(***************************************************************************)
(* The offline replay of a recorded drive through the diagnostics          *)
(* (tools/bbb_hub/diagnostic_replay.py): frame by frame through the        *)
(* monitors, with an enriched copy of the log written beside its final     *)
(* name, then coverage, verdict and report.  The baseline and the          *)
(* transitions are modules of their own; here they report what they may.   *)
(* A log is read as a sequence of Frames of a length fixed when it is      *)
(* loaded.  Times are tenths of a second.                                  *)
(***************************************************************************)
EXTENDS HealthVerdict

CONSTANTS Frames, Sidecars,   \* frames a log may hold, trust a sidecar may give
          FramePeriod, WallEpoch,
          BaselineModels, TransitionModels,
          ShapeSamples, FlapSamples, FlapTurns,
          MaxFrames, MaxRuns  \* bounds of the model: replays, frames of the first; later ones have fewer

ASSUME ReplayAssumption ==
  /\ {FramePeriod, BaselineModels, TransitionModels, MaxFrames, MaxRuns} \subseteq Nat \ {0}
  /\ WallEpoch \in Nat /\ ShapeSamples > 1 /\ FlapSamples >= ShapeSamples

\* What a frame has of a source is true or false, and Null is neither.
ASSUME FrameAssumption ==
  /\ Null \notin BOOLEAN /\ Frames # {}
  /\ \A f \in Frames :
       /\ {f.stale, f.gps.present, f.gps.fix, f.gps.stale, f.can.enabled, f.can.stale,
           f.serial.enabled, f.serial.stale} \subseteq BOOLEAN
       /\ f.t \in Int \cup {Null}
       /\ IsFiniteSet(f.can.findings)
       /\ \A g \in f.can.findings : g.severity \in {"info", "warning", "error"} /\ g.confidence \in Int

VARIABLES
  replayStage,  \* "idle", "reading", "closing", "reporting"
  length,       \* frames of the log
  done,         \* frames handled
  tally,        \* what the replay has counted of them
  lastState,    \* findings, status and quality of the last frame
  speeds,       \* the signal monitor's history of the speed
  ready,        \* models ready: [baseline, transition]
  candidate,    \* the candidate signal: its trust and its series
  files,        \* the enriched log, the file it is written as, and the report
  outcome       \* what the run told: verdict, sensors and shape, or failure, or nothing yet

replayVars == <<replayStage, length, done, tally, lastState, speeds, ready, candidate,
                files, outcome>>

NoLastState == [seen |-> FALSE, findings |-> {}, frame |-> CHOOSE f \in Frames : TRUE]
Untold(verdict) == [verdict |-> verdict, sensors |-> Null, shape |-> "none"]
NoOutcome == Untold("none")
Failure == Untold("failed")
NoTrust == [tier |-> "untold", named |-> FALSE]
NoTally ==
  [counts |-> [s \in {"anomaly_detected", "limited", "data_stale", "nominal"} |-> 0],
   severities |-> {}, first |-> Null, contexts |-> {}, rpm |-> Null,
   seen |-> [s \in {"gpsOk", "canOk", "serialOk"} |-> {}], start |-> Null, end |-> Null]

-----------------------------------------------------------------------------
(* One frame.                                                              *)
\* The time a frame carries, or else one made up from its number.
Timestamp(frame, index) == IF frame.t # Null THEN frame.t ELSE WallEpoch + index * FramePeriod

BaselineFinding == Finding("vehicleBaseline", "mapKpa", "baseline_deviation", "warning", 8)
TransitionFinding == Finding("transitionMonitor", "mafGps", "transition_anomaly", "warning", 6)

Started(before, frame) ==
  /\ before # Null /\ frame.rpm # Null /\ before < 450 /\ frame.rpm >= 450
  /\ frame.speed = Null \/ frame.speed <= 3
Warmth(frame) ==
  IF frame.coolant = Null THEN {}
  ELSE IF frame.intake # Null /\ Abs(frame.coolant - frame.intake) <= 20 THEN {"cold_start"}
  ELSE IF frame.coolant >= 70 THEN {"hot_start"} ELSE {}
ContextsOf(before, frame) ==
  {OperatingState(frame.speed, frame.rpm)}
    \cup (IF Started(before, frame) THEN {"startup"} \cup Warmth(frame) ELSE {})
    \cup (IF frame.load # Null /\ frame.load >= 70 THEN {"heavy_load"} ELSE {})

Counted(t, frame, status, now) ==
  [t EXCEPT !.counts[status.status] = @ + 1,
            !.severities = @ \cup {status.severity},
            !.first = IF status.status = "anomaly_detected" /\ @ = Null THEN done ELSE @,
            !.contexts = @ \cup ContextsOf(t.rpm, frame),
            !.rpm = IF frame.rpm # Null THEN frame.rpm ELSE @,
            !.seen = [s \in DOMAIN @ |-> @[s] \cup {status.quality[s]}],
            !.start = IF @ = Null THEN now ELSE @,
            !.end = now]

-----------------------------------------------------------------------------
(* Which sensors of the log something watches.                             *)
Sensors == {"rpm", "speedKph", "gps.speedKph", "candidate"}
TrustTier(name) ==
  IF name = "candidate"
  THEN CASE candidate.trust.tier = "low"      -> "low_trust_candidate"
         [] candidate.trust.tier = "verified" -> "verified_decoded"
         [] OTHER                             -> "unknown"
  ELSE IF name = "gps.speedKph" THEN "direct_anchor" ELSE "verified_decoded"
Surfaces(name) ==
  CASE name = "rpm"          -> {"signal_health", "learned_baseline_context",
                                 "transition_target", "transition_reference"}
    [] name = "speedKph"     -> {"signal_health", "transition_reference"}
    [] name = "gps.speedKph" -> {"source_agreement_anchor"}
    [] OTHER                 -> {}
SensorStatus(name) ==
  IF TrustTier(name) = "low_trust_candidate" THEN "low_trust"
  ELSE IF Surfaces(name) # {} THEN "covered" ELSE "unsupported"

\* What the series of a low-trust candidate looks like over the whole log: at
\* least ShapeSamples values of a candidate with an identifier.  It is flat
\* within a hundred-thousandth of its mean, and flaps by a fiftieth of it.
Shape(s) ==
  LET range == ValueRange({s[i] : i \in DOMAIN s})
      total == Abs(FoldLeft(+, 0, s))
      steps == SelectSeq([i \in 1..(Len(s) - 1) |-> s[i + 1] - s[i]],
                         LAMBDA d : 20 * Abs(d) > range)
  IN  IF TrustTier("candidate") # "low_trust_candidate" \/ Len(s) < ShapeSamples THEN "none"
      ELSE IF ~candidate.trust.named THEN "suppressed"
      ELSE IF range = 0 \/ 100000 * Len(s) * range <= total THEN "stuck_flat"
      ELSE IF Len(s) >= FlapSamples /\ 50 * Len(s) * range >= total /\ Turns(steps) >= FlapTurns
           THEN "noisy_or_flapping"
      ELSE "none"

\* The last trust told counts for the whole log.
Observed(c, frame) ==
  [c EXCEPT !.series = IF frame.candidate = Null THEN @ ELSE Append(@, frame.candidate),
            !.trust = IF frame.trust = Null THEN @ ELSE frame.trust]

-----------------------------------------------------------------------------
(* The verdict of the whole log is built from its last state.              *)
Duration == IF tally.start = Null THEN 0 ELSE Max({0, tally.end - tally.start})
Evidence ==
  LET frame  == lastState.frame
      status == Status(frame, lastState.findings)
  IN  [coverage |-> [contexts |-> tally.contexts, frames |-> done, duration |-> Duration,
                     seen |-> tally.seen],
       quality |-> VerdictQuality(frame), severity |-> status.severity, active |-> status.active,
       profileKnown |-> FALSE,
       baseline |-> [enabled |-> TRUE, ready |-> ready.baseline, models |-> BaselineModels],
       transition |-> [enabled |-> TRUE, ready |-> ready.transition, models |-> TransitionModels]]

\* A log without a frame counts as one whose receiver has no fix.
FinalVerdict == IF lastState.seen THEN Verdict(Evidence) ELSE "capture_limited"

-----------------------------------------------------------------------------
ReplayInit ==
  /\ replayStage = "idle" /\ length = 0 /\ done = 0 /\ tally = NoTally /\ lastState = NoLastState
  /\ speeds = <<>> /\ ready = [baseline |-> 0, transition |-> 0]
  /\ candidate = [trust |-> NoTrust, series |-> <<>>]
  /\ files = [enriched |-> Null, tmp |-> Null, report |-> Null, run |-> 0]
  /\ outcome = NoOutcome

\* The log is loaded as a whole and the output opened beside its final name.
Load(n, sidecar) ==
  /\ replayStage = "idle" /\ files.run < MaxRuns
  /\ replayStage' = "reading" /\ length' = n /\ done' = 0
  /\ tally' = NoTally /\ lastState' = NoLastState /\ speeds' = <<>>
  /\ ready' = [baseline |-> 0, transition |-> 0]
  /\ candidate' = [trust |-> sidecar, series |-> <<>>]
  /\ files' = [files EXCEPT !.run = @ + 1, !.tmp = [run |-> files.run + 1, frames |-> 0]]
  /\ outcome' = NoOutcome

\* A line of the log or of the sidecar cannot be read, or the output cannot be
\* opened: nothing is touched.
LoadFails ==
  /\ replayStage = "idle" /\ files.run < MaxRuns
  /\ files' = [files EXCEPT !.run = @ + 1] /\ outcome' = Failure
  /\ UNCHANGED <<replayStage, length, done, tally, lastState, speeds, ready, candidate>>

\* One frame goes through the monitors, which learn on the way.
Handle(frame, baseline, transitions, learned) ==
  LET now      == Timestamp(frame, done)
      faults   == SignalFaults(speeds, frame, baseline, now)
      findings == CollectFindings(faults, frame, baseline, transitions)
  IN  /\ replayStage = "reading" /\ done < length
      /\ learned.baseline >= ready.baseline /\ learned.transition >= ready.transition
      /\ baseline # {} => ready.baseline > 0
      /\ transitions # {} => ready.transition > 0
      /\ lastState' = [seen |-> TRUE, findings |-> findings, frame |-> frame]
      /\ tally' = Counted(tally, frame, Status(frame, findings), now)
      /\ speeds' = IF frame.speed = Null THEN speeds ELSE Remember(speeds, frame.speed, now)
      /\ candidate' = Observed(candidate, frame)
      /\ ready' = learned /\ done' = done + 1
      /\ files' = [files EXCEPT !.tmp.frames = @ + 1]
      /\ UNCHANGED <<replayStage, length, outcome>>

\* Writing a frame fails: the file is closed and removed, unless closing it
\* fails as well.
\* Mutant: the part written so far takes the final name.
WriteFails_keepsPart(closed) ==
  /\ replayStage = "reading" /\ done < length
  /\ replayStage' = "idle" /\ outcome' = Failure
  /\ files' = [files EXCEPT !.enriched = files.tmp, !.tmp = Null]
  /\ UNCHANGED <<length, done, tally, lastState, speeds, ready, candidate>>

WriteFails(closed) ==
  /\ replayStage = "reading" /\ done < length
  /\ replayStage' = "idle" /\ outcome' = Failure
  /\ files' = IF closed THEN [files EXCEPT !.tmp = Null] ELSE files
  /\ UNCHANGED <<length, done, tally, lastState, speeds, ready, candidate>>

\* After the last frame the file is closed and takes its final name; when the
\* close fails, what was buffered is lost and the file stays where it is.
Finish(closed) ==
  /\ replayStage = "reading" /\ done = length
  /\ IF closed
     THEN /\ replayStage' = "reporting" /\ UNCHANGED outcome
          /\ files' = [files EXCEPT !.enriched = files.tmp, !.tmp = Null]
     ELSE replayStage' = "idle" /\ outcome' = Failure /\ UNCHANGED files
  /\ UNCHANGED <<length, done, tally, lastState, speeds, ready, candidate>>

\* The report is written in place, and may be cut.
Report(whole) ==
  /\ replayStage = "reporting" /\ replayStage' = "idle"
  /\ files' = [files EXCEPT !.report = [run |-> files.run, whole |-> whole]]
  /\ outcome' = IF whole THEN [verdict |-> FinalVerdict,
                              sensors |-> [n \in Sensors |-> SensorStatus(n)],
                              shape |-> Shape(candidate.series)]
                ELSE Failure
  /\ UNCHANGED <<length, done, tally, lastState, speeds, ready, candidate>>

\* The process is killed: what it has written stays.
Killed ==
  /\ replayStage # "idle" /\ replayStage' = "idle" /\ outcome' = Failure
  /\ UNCHANGED <<length, done, tally, lastState, speeds, ready, candidate, files>>

ReplayNext ==
  \/ \E n \in 0..(MaxFrames - files.run), sidecar \in Sidecars : Load(n, sidecar)
  \/ LoadFails
  \/ \E frame \in Frames, baseline \in {{}, {BaselineFinding}},
        transitions \in {{}, {TransitionFinding}},
        learned \in [baseline : 0..BaselineModels, transition : 0..TransitionModels] :
       Handle(frame, baseline, transitions, learned)
  \/ \E ok \in BOOLEAN : WriteFails(ok) \/ Finish(ok) \/ Report(ok)
  \/ Killed

ReplaySpec == ReplayInit /\ [][ReplayNext]_replayVars

-----------------------------------------------------------------------------
\* Under its final name the enriched log is that of a replay that read its log
\* to the end, whatever failed or was killed in this run or a later one
\* (run_diagnostic_replay, the finally of its loop).
EnrichedIsWhole ==
  [][files'.enriched # files.enriched =>
       files'.enriched = [run |-> files.run, frames |-> length]]_replayVars

\* "healthy: only for high-confidence, broad-coverage, internally consistent
\* evidence with no material warning/error findings"
\* (tools/schema/vehicle_health_verdict_v1.md:205).  The evidence is the
\* capture: each status of each of its frames counts.
HealthyMeansNoFindings ==
  outcome.verdict = "healthy" => tally.severities \cap {"warning", "error"} = {}

\* What the last frame does decide: the report speaks well of the vehicle only
\* with nothing serious among all the findings of that frame, not only among
\* those its status lists; no source lost in it; enough seen; and a learned
\* model ready in each monitor (build_diagnostic_status, _abstain, _verdict).
PraiseNeedsASoundEnd ==
  outcome.verdict \in {"healthy", "probably_healthy"} =>
    /\ \A f \in lastState.findings : ~Serious(f)
    /\ ~lastState.frame.stale
    /\ \A s \in {lastState.frame.can, lastState.frame.serial} : s.enabled => ~s.stale
    /\ lastState.frame.gps.present => lastState.frame.gps.fix /\ ~lastState.frame.gps.stale
    /\ CoverageScore(Evidence.coverage) >= 450
    /\ ready.baseline > 0 /\ ready.transition > 0

\* Evidence that is weaker in one respect: a context not seen, a frame fewer, a
\* source that was lost for some frames, a model that is not ready.
Weaker(e) ==
  {[e EXCEPT !.coverage.contexts = @ \ {c}] : c \in e.coverage.contexts}
    \cup {[e EXCEPT !.coverage.frames = Max({0, @ - 1})]}
    \cup {[e EXCEPT !.coverage.seen[s] = @ \cup {FALSE}] : s \in {x \in DOMAIN e.coverage.seen : e.coverage.seen[x] # {Null}}}
    \cup {[e EXCEPT !.baseline.ready = Max({0, @ - 1})], [e EXCEPT !.transition.ready = Max({0, @ - 1})]}

\* Less evidence never turns a verdict into a good one: scores, penalties and
\* thresholds all point the same way (build_coverage_summary,
\* _confidence_score, _abstain).
LessNeverHelps ==
  replayStage = "reporting" /\ lastState.seen /\ ~VerdictOk(Evidence) =>
    \A e \in Weaker(Evidence) : ~VerdictOk(e)
==============================================================================
