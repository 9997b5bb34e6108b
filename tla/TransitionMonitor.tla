-------------------------- MODULE TransitionMonitor --------------------------
(***************************************************************************)
(* Learned transitions (tools/bbb_hub/transition_monitor.py with           *)
(* tools/vehicle_analysis/transitions.py).  Each frame goes into a short   *)
(* history and through the event segmenter; some time after an event the   *)
(* frames around it are measured, judged against the template of earlier   *)
(* windows and, when nothing is wrong, learned into it.  The template is   *)
(* rewritten in place in its file.  Time passes in rounds, ages stand for  *)
(* timestamps.  The profile is startup_maf_response; its noise and         *)
(* correlation measures are left out.                                      *)
(***************************************************************************)
EXTENDS FrameValues, Functions, FiniteSetsExt

CONSTANTS Maf, Rpm,                 \* the vehicle: airflow and speed of the engine
          Media,                    \* states of the medium: "well", "full", "readonly"
          BeforeRounds, AfterRounds, SlackRounds, MinEventGap, LagTolerance,
          MeanScale,                \* a multiple of the sizes a half of a window can have
          MinWindowSamples, MinBaselineWindows,
          SaveEveryWindows, TransitionSaveInterval,
          MaxStarts                 \* bound of the model: first fires

EngineStates == {"off", "crank", "run"}

ASSUME TransitionAssumption ==
  /\ {BeforeRounds, AfterRounds, SlackRounds, MinEventGap, LagTolerance, MinWindowSamples,
      MinBaselineWindows, SaveEveryWindows, TransitionSaveInterval, MaxStarts} \subseteq Nat
  /\ SaveEveryWindows > 0 /\ MinWindowSamples > 0 /\ BeforeRounds > 0 /\ AfterRounds > 0
  /\ MeanScale \in Nat \ {0}
  /\ \A n \in 1..(BeforeRounds + AfterRounds) : MeanScale % n = 0
  /\ Maf \in [EngineStates -> Int] /\ Rpm \in [EngineStates -> Int]

VARIABLES
  engine,       \* what the engine does
  history,      \* the frames not yet forgotten, each with its age
  previous,     \* the segmenter's previous frame with its age, or Null
  lastEvent,    \* rounds since an event of each kind; MinEventGap stands for more
  pending,      \* ages of the events whose window is not over
  template,     \* the statistics learned, and whether all windows were sound
  verdict,      \* reasons found in the last round, and whether they have a cause
  newWindows,   \* windows learned since the last save
  roundsSinceSave, writeFailed,
  templateFile, \* the file: absent, whole or torn, and the template it holds
  medium,       \* one of Media
  starts

transitionVars == <<engine, history, previous, lastEvent, pending, template, verdict,
                    newWindows, roundsSinceSave, writeFailed, templateFile, medium, starts>>

EventTypes == {"key_on", "crank_start", "first_fire", "idle_settle", "stall",
               "throttle_tip_in", "shift", "decel", "fan_on"}

-----------------------------------------------------------------------------
(* Frames and events.                                                      *)
\* A frame of a live source, and of one that has gone stale: the hub then
\* publishes an engine speed of 0 and no airflow.
LiveFrame(e)  == [rpm |-> Rpm[e], maf |-> Maf[e], stale |-> FALSE, speed |-> 0,
                  throttle |-> Null, gear |-> Null, fan |-> FALSE]
StaleFrame(e) == [LiveFrame(e) EXCEPT !.rpm = 0, !.maf = Null, !.stale = TRUE]

BothKnown(a, b) == a # Null /\ b # Null
SpeedIsStationary(f) == f.speed = Null \/ f.speed <= 3

FrameContext(f) == OperatingState(f.speed, f.rpm)

\* The events between two frames dt apart.
Crossings(p, f) ==
  IF ~SpeedIsStationary(f) \/ ~BothKnown(p.rpm, f.rpm) THEN {}
  ELSE {e \in {"crank_start", "first_fire", "stall"} :
          \/ e = "crank_start" /\ p.rpm < 120 /\ 120 <= f.rpm /\ f.rpm < 550
          \/ e = "first_fire"  /\ p.rpm < 450 /\ 450 <= f.rpm
          \/ e = "stall"       /\ p.rpm >= 450 /\ f.rpm < 150}
TippedIn(p, f, dt) ==
  BothKnown(p.throttle, f.throttle) /\ f.throttle - p.throttle >= 8
    /\ f.throttle - p.throttle >= 5 * dt
Slowed(p, f, dt) ==
  BothKnown(p.speed, f.speed) /\ dt > 0 /\ f.speed - p.speed <= -6 * dt /\ f.speed >= 3
EventsBetween(p, f, dt) ==
  Crossings(p, f) \cup {e \in EventTypes :
    \/ e = "idle_settle" /\ FrameContext(f) = "idle_stationary" /\ FrameContext(p) # "idle_stationary"
    \/ e = "throttle_tip_in" /\ TippedIn(p, f, dt)
    \/ e = "decel" /\ Slowed(p, f, dt)
    \/ e = "shift" /\ BothKnown(p.gear, f.gear) /\ p.gear # f.gear
    \/ e = "fan_on" /\ ~p.fan /\ f.fan}

\* The segmenter drops an event that follows one of its kind too soon.
Segmented(f) ==
  {e \in IF previous = Null THEN {k \in {"key_on"} : f.rpm # Null}
         ELSE EventsBetween(previous.frame, f, previous.age + 1) :
     lastEvent[e] + 1 >= MinEventGap}

-----------------------------------------------------------------------------
(* The window around an event and its measures; a mean is taken            *)
(* MeanScale-fold, which makes it whole.                                   *)
ScaledMean(S) ==
  (MeanScale * FoldFunction(+, 0, [h \in S |-> h.frame.maf])) \div Cardinality(S)

\* Samples from BeforeRounds before the event, which is age rounds old, to
\* AfterRounds after it, and of those the ones that have a value.
WindowOf(frames, age) == {h \in frames : age + BeforeRounds >= h.age /\ h.age >= age - AfterRounds}
\* Mutant: an airflow that is not known is read as 0.
Samples_zero(frames, age) ==
  {IF h.frame.maf = Null THEN [h EXCEPT !.frame.maf = 0] ELSE h : h \in WindowOf(frames, age)}

Samples(frames, age) == {h \in WindowOf(frames, age) : h.frame.maf # Null}

\* The answers: samples away from the mean before the event by 0.05, half the
\* range before it and a fifth of the change.
Answers(before, after, delta) ==
  {h \in after : LET d == Abs(MeanScale * h.frame.maf - ScaledMean(before))
                 IN  /\ 20 * d >= MeanScale /\ 2 * d >= MeanScale * ValueRange({b.frame.maf : b \in before})
                     /\ delta = Null \/ 5 * d >= Abs(delta)}

WindowMetrics(frames, age) ==
  LET ok      == Samples(frames, age)
      before  == {h \in ok : h.age > age}
      after   == {h \in ok : h.age <= age}
      delta   == IF before = {} \/ after = {} THEN Null ELSE ScaledMean(after) - ScaledMean(before)
      answers == IF before = {} THEN {} ELSE Answers(before, after, delta)
  IN  [total |-> Cardinality(ok), delta |-> delta,
       range |-> ValueRange({h.frame.maf : h \in ok}),
       before |-> IF before = {} THEN Null ELSE ScaledMean(before),
       lag |-> IF answers = {} THEN Null ELSE Least({age - h.age : h \in answers})]

EmptyTemplate == [count |-> 0, delta |-> NoSamples, absDelta |-> NoSamples, range |-> NoSamples,
                  before |-> NoSamples, lag |-> NoSamples, sound |-> TRUE]

AddIf(s, v) == IF v = Null THEN s ELSE WithSample(s, v)
WithWindow(t, m, sound) ==
  [count |-> t.count + 1, delta |-> AddIf(t.delta, m.delta),
   absDelta |-> AddIf(t.absDelta, IF m.delta = Null THEN Null ELSE Abs(m.delta)),
   range |-> WithSample(t.range, m.range), before |-> AddIf(t.before, m.before),
   lag |-> AddIf(t.lag, m.lag), sound |-> t.sound /\ sound]

\* What is wrong with a window, by the limits of startup_maf_response: an
\* expected change of 1 g/s, a change of at most 0.2 is none, 0.35 and 2.75
\* times the expected one are too little and too much, 0.3 of the range flat.
NoResponse(t, m) == MeanAtLeast(t.absDelta, MeanScale) /\ (m.delta = Null \/ 5 * Abs(m.delta) <= MeanScale)
TooSmall(t, m) ==
  /\ MeanAtLeast(t.absDelta, MeanScale) /\ ~NoResponse(t, m)
  /\ 20 * t.absDelta.n * Abs(m.delta) < 7 * t.absDelta.sum
TooLarge(t, m) ==
  /\ MeanAtLeast(t.absDelta, MeanScale) /\ m.delta # Null
  /\ Above(t.absDelta, Abs(m.delta)) > MeanScale * t.absDelta.n
  /\ 4 * t.absDelta.n * Abs(m.delta) > 11 * t.absDelta.sum
StuckFlat(t, m) == MeanAtLeast(t.range, 1) /\ 10 * t.range.n * m.range <= 3 * t.range.sum
WrongWay(t, m) ==
  /\ m.delta # Null /\ t.delta.n > 0 /\ Abs(t.delta.sum) >= MeanScale * t.delta.n
  /\ (t.delta.sum < 0) # (m.delta < 0) /\ 5 * Abs(m.delta) >= MeanScale
DelayedResponse(t, m) == m.lag # Null /\ t.lag.n > 0 /\ Above(t.lag, m.lag) > LagTolerance * t.lag.n
PersistentOffset(t, m) ==
  /\ m.before # Null /\ t.before.n > 0
  /\ Abs(Above(t.before, m.before)) > MeanScale * t.before.n
  /\ BeyondDeviations(t.before, Abs(Above(t.before, m.before)), 3)

AnomalyReasons(t, m) ==
  IF t.count < MinBaselineWindows THEN {}
  ELSE {r \in {"no_response", "too_small_delta", "too_large_delta", "stuck_flat",
               "wrong_sequence", "delayed_response", "persistent_offset"} :
          \/ r = "no_response" /\ NoResponse(t, m)
          \/ r = "too_small_delta" /\ TooSmall(t, m)
          \/ r = "too_large_delta" /\ TooLarge(t, m)
          \/ r = "stuck_flat" /\ StuckFlat(t, m)
          \/ r = "wrong_sequence" /\ WrongWay(t, m)
          \/ r = "delayed_response" /\ DelayedResponse(t, m)
          \/ r = "persistent_offset" /\ PersistentOffset(t, m)}

\* For the properties: the live samples of a window show an engine that is
\* cranked until the event and runs from then on.  Stale frames and missing
\* ones may lie anywhere between them.
LiveSamples(frames, age) == {h \in WindowOf(frames, age) : ~h.frame.stale}
ShowsAStart(frames, age) ==
  /\ \E h \in LiveSamples(frames, age) : h.age > age
  /\ \A h \in LiveSamples(frames, age) : h.frame = LiveFrame(IF h.age > age THEN "crank" ELSE "run")

-----------------------------------------------------------------------------
(* One frame.                                                              *)
\* Whether what is learned may come from frame f; troubled when other
\* diagnostics found faults in its signals or the baseline.
StateAllowsLearning(f, troubled) == ~f.stale /\ ~troubled

AtMost(limit, age) == IF age >= limit THEN limit ELSE age + 1
AgedHistory == {[h EXCEPT !.age = @ + 1] : h \in history}
PrunedHistory(frames) == {h \in frames : h.age <= BeforeRounds + AfterRounds + SlackRounds}

\* A window whose time is over is dropped when it has too few samples, judged
\* when the template is ready, and learned when nothing was found and the
\* frame of this round, whatever those of the window were, allows it.
Finalized(acc, frames, age, learns) ==
  LET m == WindowMetrics(frames, age)
      r == AnomalyReasons(acc.template, m)
      u == ShowsAStart(frames, age)
  IN  IF m.total < MinWindowSamples THEN acc
      ELSE [template |-> IF learns /\ r = {}
                         THEN WithWindow(acc.template, m, u) ELSE acc.template,
            learned |-> acc.learned + (IF learns /\ r = {} THEN 1 ELSE 0),
            reasons |-> acc.reasons \cup r,
            cause |-> IF r = {} THEN acc.cause ELSE acc.cause /\ ~(u /\ acc.template.sound)]

\* The windows that are over, the oldest first.
Judged(frames, due, learns) ==
  MapThenFoldSet(LAMBDA age, acc : Finalized(acc, frames, age, learns),
                 [template |-> template, learned |-> 0, reasons |-> {}, cause |-> TRUE],
                 LAMBDA age : age, LAMBDA ages : Least(ages), due)

TornFile == [state |-> "torn", template |-> EmptyTemplate]
\* Mutant: a write that failed forgets the windows it should have saved.
WriteIfDue_forgets(count, since) ==
  IF count < SaveEveryWindows \/ since < TransitionSaveInterval
  THEN /\ newWindows' = count /\ roundsSinceSave' = since
       /\ UNCHANGED <<writeFailed, templateFile>>
  ELSE IF medium = "well"
  THEN /\ newWindows' = 0 /\ roundsSinceSave' = 0 /\ writeFailed' = FALSE
       /\ templateFile' = [state |-> "whole", template |-> template']
  ELSE /\ newWindows' = 0 /\ roundsSinceSave' = since /\ writeFailed' = TRUE
       /\ templateFile' = IF medium = "full" THEN TornFile ELSE templateFile

WriteIfDue(count, since) ==
  IF count < SaveEveryWindows \/ since < TransitionSaveInterval
  THEN /\ newWindows' = count /\ roundsSinceSave' = since
       /\ UNCHANGED <<writeFailed, templateFile>>
  ELSE IF medium = "well"
  THEN /\ newWindows' = 0 /\ roundsSinceSave' = 0 /\ writeFailed' = FALSE
       /\ templateFile' = [state |-> "whole", template |-> template']
  ELSE /\ newWindows' = count /\ roundsSinceSave' = since /\ writeFailed' = TRUE
       /\ templateFile' = IF medium = "full" THEN TornFile ELSE templateFile

\* The singletons name what is evaluated once in a round.
ObserveRound(f, troubled) ==
  \E events \in {Segmented(f)}, frames \in {PrunedHistory(AgedHistory \cup {[age |-> 0, frame |-> f]})} :
    LET ages == {age + 1 : age \in pending} \cup (IF "first_fire" \in events THEN {0} ELSE {})
    IN  \E done \in {Judged(frames, {age \in ages : age >= AfterRounds}, StateAllowsLearning(f, troubled))} :
          /\ "first_fire" \in events => starts < MaxStarts
          /\ starts' = IF "first_fire" \in events THEN starts + 1 ELSE starts
          /\ history' = frames
          /\ previous' = [frame |-> f, age |-> 0]
          /\ lastEvent' = [e \in EventTypes |-> IF e \in events THEN 0 ELSE AtMost(MinEventGap, lastEvent[e])]
          /\ pending' = {age \in ages : age < AfterRounds}
          /\ template' = done.template
          /\ verdict' = [reasons |-> done.reasons, cause |-> done.cause]
          /\ WriteIfDue(newWindows + done.learned, AtMost(TransitionSaveInterval, roundsSinceSave))
          /\ UNCHANGED medium

-----------------------------------------------------------------------------
TransitionInit ==
  /\ engine = "off" /\ history = {} /\ previous = Null
  /\ lastEvent = [e \in EventTypes |-> MinEventGap] /\ pending = {}
  /\ template = EmptyTemplate /\ verdict = [reasons |-> {}, cause |-> TRUE]
  /\ newWindows = 0 /\ roundsSinceSave = TransitionSaveInterval /\ writeFailed = FALSE
  /\ templateFile = [state |-> "absent", template |-> EmptyTemplate] /\ medium = "well" /\ starts = 0

\* The engine is cranked, catches, and is switched off.
EngineTurns(e) == {e} \cup (CASE e = "off" -> {"crank"} [] e = "crank" -> {"run", "off"}
                         [] e = "run" -> {"off"})

\* A round in which the hub builds a frame, from a live or a stale source.
Round ==
  \E e \in EngineTurns(engine), stale, troubled \in BOOLEAN :
    engine' = e /\ ObserveRound(IF stale THEN StaleFrame(e) ELSE LiveFrame(e), troubled)

\* A round without a client: no frame is built.
NoClient ==
  /\ \E e \in EngineTurns(engine) : engine' = e
  /\ history' = PrunedHistory(AgedHistory)
  /\ previous' = IF previous = Null THEN Null
                 ELSE [previous EXCEPT !.age = AtMost(2, @)]
  /\ lastEvent' = [x \in EventTypes |-> AtMost(MinEventGap, lastEvent[x])]
  /\ pending' = {AtMost(BeforeRounds + 2 * AfterRounds + SlackRounds + 1, age) : age \in pending}
  /\ roundsSinceSave' = AtMost(TransitionSaveInterval, roundsSinceSave)
  /\ UNCHANGED <<template, verdict, newWindows, writeFailed, templateFile, medium, starts>>

\* The hub is killed, in a write or not, and starts again from the file; a
\* file cut short cannot be read.
FilesAfterKill ==
  {templateFile} \cup
    (IF /\ newWindows + Cardinality(pending) >= SaveEveryWindows
        /\ roundsSinceSave + 1 >= TransitionSaveInterval /\ medium # "readonly"
     THEN {TornFile} ELSE {})
HubRestarts(file) ==
  /\ templateFile' = file
  /\ template' = file.template
  /\ writeFailed' = (file.state = "torn")
  /\ history' = {} /\ previous' = Null /\ pending' = {}
  /\ lastEvent' = [e \in EventTypes |-> MinEventGap]
  /\ verdict' = [reasons |-> {}, cause |-> TRUE]
  /\ newWindows' = 0 /\ roundsSinceSave' = TransitionSaveInterval
  /\ UNCHANGED <<engine, medium, starts>>

MediumChanges ==
  /\ \E m \in Media \ {medium} : medium' = m
  /\ UNCHANGED <<engine, history, previous, lastEvent, pending, template, verdict,
                 newWindows, roundsSinceSave, writeFailed, templateFile, starts>>

TransitionNext ==
  \/ Round
  \/ NoClient
  \/ \E file \in FilesAfterKill : HubRestarts(file)
  \/ MediumChanges

TransitionSpec == TransitionInit /\ [][TransitionNext]_transitionVars

-----------------------------------------------------------------------------
\* A vehicle whose airflow always follows its engine is accused only with a
\* cause: the window that is judged, or one that was learned, does not show a
\* start in its live samples.  Stale frames and rounds without a frame within
\* a start are no cause (VehicleTransitionMonitor._finalize).
AlarmsHaveACause == verdict.reasons # {} => verdict.cause

\* What is learned reaches the file as soon as it can: after a round with a
\* writable medium fewer than SaveEveryWindows windows are missing from the
\* file, or it was written less than an interval ago; failed and cut writes
\* and the restarts after them included (_save_if_due, _load).
SavedWhenItCan ==
  [][medium = "well" /\ medium' = medium /\ (\E h \in history' : h.age = 0) =>
       \/ template'.count - templateFile'.template.count < SaveEveryWindows
       \/ roundsSinceSave' < TransitionSaveInterval]_transitionVars

\* The profile is about starts: MAF that "stays flat while the vehicle
\* transitions from crank to run" (docs/vehicle_hub_scope.md:264).  A window
\* with a frame in each round whose live samples show the engine running, the
\* one before the event too, holds no such transition and accuses nothing.
RanThroughout ==
  /\ \A age \in 0 .. AfterRounds + BeforeRounds : \E h \in history : h.age = age
  /\ \A h \in LiveSamples(history, AfterRounds) : h.frame = LiveFrame("run")
  /\ \E h \in LiveSamples(history, AfterRounds) : h.age = AfterRounds + BeforeRounds
OnlyStartsAreJudged == RanThroughout => verdict.reasons = {}
==============================================================================
