--------------------------- MODULE VehicleBaseline ---------------------------
(***************************************************************************)
(* What the hub learns about one signal of this vehicle, and the file it   *)
(* keeps the learning in (tools/bbb_hub/vehicle_baseline.py).  A frame is  *)
(* put into a bucket of comparable operating conditions; a bucket with     *)
(* enough samples judges the next ones, the others learn.  One round is    *)
(* one frame of the hub.                                                   *)
(***************************************************************************)
EXTENDS FrameValues, FiniteSetsExt, Functions

CONSTANTS Targets,          \* values of the target signal a frame may have
          Conditions,       \* operating conditions a frame may have
          MinBucketSamples, MinTotalSamples,
          MinAnomalySamples, MinAnomalyBuckets, AnomalyWindow, AnomalyLimit,
          SaveEvery, SaveInterval,
          MaxSamples        \* bound of the model: samples learned in one process

ASSUME BaselineAssumption ==
  /\ Targets \subseteq Int \cup {Null}
  /\ MinBucketSamples \in Nat \ {0, 1} /\ MinTotalSamples \in Nat
  /\ {MinAnomalySamples, MinAnomalyBuckets, AnomalyLimit, SaveEvery} \subseteq Nat \ {0}
  /\ {AnomalyWindow, SaveInterval, MaxSamples} \subseteq Nat

VARIABLES
  buckets,      \* key of a bucket -> [n, sum, sq] of what it has learned
  anomalies,    \* deviations not yet forgotten: [direction, bucket, age]
  report,       \* status and finding of the last frame
  unsaved,      \* samples learned since the last save, as the process counts
  sinceSave,    \* rounds since the last save; SaveInterval stands for more
  saveError,    \* the last attempt to read or write the file failed
  blind,        \* this process could not read the file it found
  baselineFile, \* the buckets in the file, none before the first save
  disk          \* whether the file can be written

baselineVars == <<buckets, anomalies, report, unsaved, sinceSave, saveError,
                  blind, baselineFile, disk>>

NoBuckets == [k \in {} |-> NoSamples]
SamplesIn(b) == FoldFunction(+, 0, [k \in DOMAIN b |-> b[k].n])

-----------------------------------------------------------------------------
(* The profile map_pressure: the intake manifold pressure in kPa.          *)
InRange(v, low, high) == v # Null /\ low <= v /\ v <= high

Features ==
  {[signal |-> "rpm",      size |-> 250, low |-> 800, high |-> 7000, required |-> TRUE],
   [signal |-> "throttle", size |-> 10,  low |-> 2,   high |-> 100,  required |-> TRUE],
   [signal |-> "intake",   size |-> 10,  low |-> -20, high |-> 90,   required |-> FALSE],
   [signal |-> "load",     size |-> 10,  low |-> 0,   high |-> 100,  required |-> FALSE]}

\* The bucket of a frame, the intervals its features are in; the empty set
\* when the frame has no usable sample: the target, a condition or a required
\* feature missing or out of range.  An optional feature is left out instead.
BucketOf(target, c) ==
  LET usable == {f \in Features : InRange(c[f.signal], f.low, f.high)}
  IN  IF /\ InRange(target, 5, 250)
         /\ InRange(c.coolant, 70, 115)
         /\ \A f \in Features : f.required => f \in usable
      THEN {<<f.signal, c[f.signal] \div f.size>> : f \in usable}
      ELSE {}

BucketReady(b) == b.n >= MinBucketSamples /\ SamplesIn(buckets) >= MinTotalSamples

\* n times the distance to the mean exceeds n times each of the three limits:
\* 8 kPa, a fifth of the mean, and two standard deviations.
Drifted(b, gap) ==
  /\ gap > 8 * b.n
  /\ 5 * gap > b.sum
  /\ BeyondDeviations(b, gap, 2)
DriftDirection(b, v) ==
  IF Drifted(b, -Above(b, v)) THEN "low"
  ELSE IF Drifted(b, Above(b, v)) THEN "high" ELSE "normal"

LearnedBucket(key) == IF key \in DOMAIN buckets THEN buckets[key] ELSE NoSamples
UpdatedBuckets(key, v) ==
  [k \in DOMAIN buckets \cup {key} |->
     IF k = key THEN WithSample(LearnedBucket(key), v) ELSE buckets[k]]

\* A bounded queue: the oldest deviation goes when a new one does not fit.
RecordedAnomaly(s, a) == LET t == Append(s, a)
                  IN  IF Len(t) > AnomalyLimit THEN Tail(t) ELSE t
Unforgotten(s) == SelectSeq(s, LAMBDA a : a.age <= AnomalyWindow)

\* A deviation becomes a finding when enough frames of enough buckets deviate
\* the same way within the window.
PromotedFinding(s, direction) ==
  LET recent == {i \in DOMAIN s : s[i].direction = direction /\ s[i].age <= AnomalyWindow}
  IN  /\ Cardinality(recent) >= MinAnomalySamples
      /\ Cardinality({s[i].bucket : i \in recent}) >= MinAnomalyBuckets

-----------------------------------------------------------------------------
(* Time and the file.  A save is written beside the old file and then      *)
(* takes its place, and is attempted only in a round that learned.         *)
RoundLater(age, limit) == Min({age + 1, limit})
AgedAnomalies(s) == [i \in DOMAIN s |-> [s[i] EXCEPT !.age = RoundLater(@, AnomalyWindow + 1)]]

\* Mutant: the file itself is opened for writing.
FileAfterCutSave_inPlace == NoBuckets

FileAfterCutSave == baselineFile

\* Mutant: saved one sample later.
SaveIfDue_later(count, since) ==
  IF count <= SaveEvery \/ since < SaveInterval
  THEN unsaved' = count /\ sinceSave' = since /\ UNCHANGED <<saveError, baselineFile>>
  ELSE IF disk = "writable"
  THEN unsaved' = 0 /\ sinceSave' = 0 /\ saveError' = FALSE /\ baselineFile' = buckets'
  ELSE unsaved' = count /\ sinceSave' = since /\ saveError' = TRUE /\ UNCHANGED baselineFile

SaveIfDue(count, since) ==
  IF count < SaveEvery \/ since < SaveInterval
  THEN unsaved' = count /\ sinceSave' = since /\ UNCHANGED <<saveError, baselineFile>>
  ELSE IF disk = "writable"
  THEN unsaved' = 0 /\ sinceSave' = 0 /\ saveError' = FALSE /\ baselineFile' = buckets'
  ELSE unsaved' = count /\ sinceSave' = since /\ saveError' = TRUE /\ UNCHANGED baselineFile

-----------------------------------------------------------------------------
BaselineInit ==
  /\ buckets = NoBuckets /\ anomalies = <<>>
  /\ report = [status |-> "waiting", finding |-> "none"]
  /\ unsaved = 0 /\ sinceSave = SaveInterval /\ saveError = FALSE /\ blind = FALSE
  /\ baselineFile = NoBuckets /\ disk = "writable"

\* A frame without a usable sample.
SkipFrame(target, c) ==
  /\ BucketOf(target, c) = {}
  /\ anomalies' = Unforgotten(AgedAnomalies(anomalies))
  /\ report' = [status |-> "skipped", finding |-> "none"]
  /\ sinceSave' = RoundLater(sinceSave, SaveInterval)
  /\ UNCHANGED <<buckets, unsaved, saveError, blind, baselineFile, disk>>

\* A frame that is learned: its bucket is not ready, or finds it normal.
LearnFrame(target, c) ==
  LET key == BucketOf(target, c)
      b   == LearnedBucket(key)
  IN  /\ key # {}
      /\ BucketReady(b) => DriftDirection(b, target) = "normal"
      /\ SamplesIn(buckets) < MaxSamples
      /\ buckets' = UpdatedBuckets(key, target)
      /\ anomalies' = Unforgotten(AgedAnomalies(anomalies))
      /\ report' = [status |-> IF BucketReady(b) THEN "normal" ELSE "learning", finding |-> "none"]
      /\ SaveIfDue(unsaved + 1, RoundLater(sinceSave, SaveInterval))
      /\ UNCHANGED <<blind, disk>>

\* A frame a ready bucket judges a deviation: recorded, never learned.
JudgeFrame(target, c) ==
  LET key == BucketOf(target, c)
      d   == DriftDirection(LearnedBucket(key), target)
      s   == RecordedAnomaly(Unforgotten(AgedAnomalies(anomalies)), [direction |-> d, bucket |-> key, age |-> 0])
      f   == IF PromotedFinding(s, d) THEN d ELSE "none"
  IN  /\ key # {} /\ BucketReady(LearnedBucket(key)) /\ d # "normal"
      /\ anomalies' = s
      /\ report' = [status |-> IF f = "none" THEN "watching_anomaly" ELSE "anomaly", finding |-> f]
      /\ sinceSave' = RoundLater(sinceSave, SaveInterval)
      /\ UNCHANGED <<buckets, unsaved, saveError, blind, baselineFile, disk>>

\* Nobody is connected: the hub builds no frame and only time passes.
NoFrame ==
  /\ anomalies' = AgedAnomalies(anomalies)
  /\ sinceSave' = RoundLater(sinceSave, SaveInterval)
  /\ UNCHANGED <<buckets, report, unsaved, saveError, blind, baselineFile, disk>>

\* The process is killed, in a save or not, and starts again from the file;
\* a file it cannot read leaves it with nothing.
BaselineRestarts(file, readable) ==
  /\ baselineFile' = file
  /\ buckets' = IF readable THEN file ELSE NoBuckets
  /\ blind' = ~readable /\ saveError' = ~readable
  /\ anomalies' = <<>> /\ report' = [status |-> "waiting", finding |-> "none"]
  /\ unsaved' = 0 /\ sinceSave' = SaveInterval
  /\ UNCHANGED disk

BaselineDiskChanges ==
  /\ disk' = IF disk = "writable" THEN "full" ELSE "writable"
  /\ UNCHANGED <<buckets, anomalies, report, unsaved, sinceSave, saveError, blind, baselineFile>>

BaselineNext ==
  \/ \E target \in Targets, c \in Conditions :
       SkipFrame(target, c) \/ LearnFrame(target, c) \/ JudgeFrame(target, c)
  \/ NoFrame
  \/ \E file \in {baselineFile, FileAfterCutSave}, readable \in BOOLEAN : BaselineRestarts(file, readable)
  \/ BaselineDiskChanges

BaselineSpec == BaselineInit /\ [][BaselineNext]_baselineVars

-----------------------------------------------------------------------------
\* What a kill of the hub costs is bounded: unless a write or the read at the
\* start failed, fewer samples than SaveEvery, or no more than one save
\* interval can bring, are in memory and not in the file
\* (VehicleBaselineMonitor._maybe_save).
LossIsBounded ==
  ~saveError /\ ~blind =>
    SamplesIn(buckets) - SamplesIn(baselineFile) <= Max({SaveEvery, SaveInterval}) - 1

\* What the file holds of this vehicle is never traded for less, by a kill in
\* the middle of a save, a full disk or a restart; only a process that could
\* not read the file at its start overwrites it (save, _load).
FileKeepsLearning ==
  [][SamplesIn(baselineFile') >= SamplesIn(baselineFile) \/ blind]_baselineFile
==============================================================================
