---------------------------- MODULE SignalDiscovery ----------------------------
(***************************************************************************)
(* Ranking the fields of raw CAN frames for known signals, and the         *)
(* dictionary the verified ones are exported to                            *)
(* (tools/can_reverse_workbench/discovery.py, export.py).  What was        *)
(* measured on a field for a signal is given: how many anchors there are   *)
(* and whether they spread, how the fit, the guided windows, range,        *)
(* smoothness, variation, rate, shape and step score, in whole hundredths. *)
(* Decided from that are the stages, the confidence, the ranking, the      *)
(* packets and the export.  Confidences are whole ten-thousandths.         *)
(***************************************************************************)
EXTENDS CandidateFields

CONSTANTS Targets,          \* the signals looked for
          Payload,          \* bytes of a frame
          Measurements,     \* [series, of: target -> what was measured]
          CanIds, Specs,    \* identifiers and fields of the model
          Windows,          \* whether the session has guided windows
          MaxCandidates,    \* kept of a ranking
          VerifiedConfidence, MinConfidence

Scores == {"fit", "correlation", "window", "physical", "smoothness", "refresh", "variation",
           "shape", "resolution"}
IsMeasured(m) ==
  m.anchors \in Nat /\ m.spread \in BOOLEAN /\ \A name \in Scores : m[name] \in 0..100
ASSUME DiscoveryAssumption ==
  /\ \A m \in Measurements, target \in Targets : IsMeasured(m.of[target])
  /\ Payload \in Nat /\ Specs \subseteq EnumeratedSpecs(Payload)
  /\ MaxCandidates \in Nat /\ Windows \in BOOLEAN
  /\ {VerifiedConfidence, MinConfidence} \subseteq Nat
  /\ VerifiedConfidence <= 10000 /\ MinConfidence <= 10000

VARIABLES fields,      \* what the frames hold: [can, spec, series, of]
          analysis,    \* rankings, or Null before they are made
          exported     \* signal -> candidate, and the rejected ones, or Null

discoveryVars == <<fields, analysis, exported>>

-----------------------------------------------------------------------------
(* One field for one signal.                                               *)
PassesFilters(series) ==
  Len(series) >= MinSamples /\ Cardinality({series[i] : i \in DOMAIN series}) >= 3

\* Two anchors that spread give a scale, whatever it is worth; one or none a guess.
Calibrate(m) ==
  IF m.anchors >= 2 /\ m.spread
  THEN [score |-> m.fit, correlation |-> m.correlation, verified |-> TRUE]
  ELSE IF m.anchors = 1 THEN [score |-> 50, correlation |-> 50, verified |-> FALSE]
  ELSE [score |-> 35, correlation |-> 0, verified |-> FALSE]

\* In ten-thousandths.
CombinedCorrelation(m, correlation) ==
  IF m.anchors >= 3 THEN IF Windows THEN 72 * correlation + 28 * m.window ELSE 100 * correlation
  ELSE IF ~Windows THEN 5000
  ELSE IF m.anchors > 0 THEN 82 * m.window + 18 * correlation ELSE 100 * m.window

Weights(m) ==
  [anchors |-> IF m.anchors >= 2 THEN 45 ELSE 18, correlation |-> IF Windows THEN 25 ELSE 16,
   physical |-> 12, smoothness |-> 10, refresh |-> 8, variation |-> 10,
   antiCounter |-> 8, shape |-> 4, resolution |-> 10]
WeightSum(w) ==
  w.anchors + w.correlation + w.physical + w.smoothness + w.refresh + w.variation
    + w.antiCounter + w.shape + w.resolution

Passed(score) == score >= 6000
Stages(m, correlation, antiCounter) ==
  [bitAnalysis |-> antiCounter >= 50,
   correlation |-> Passed(correlation),
   scaling     |-> Calibrate(m).verified,
   validation  |-> Passed(45 * m.physical + 30 * m.smoothness + 25 * m.variation)]

\* Mutant: an estimated scale does not fail a candidate that is sure enough.
CandidateDecision_estimated(stages, confidence) ==
  /\ \A name \in DOMAIN stages \ {"scaling"} : stages[name]
  /\ confidence >= VerifiedConfidence
\* Verified if every stage is, and the confidence.
CandidateDecision(stages, confidence) ==
  (\A name \in DOMAIN stages : stages[name]) /\ confidence >= VerifiedConfidence

ScoreCandidate(field, target) ==
  LET m == field.of[target]
      calibration == Calibrate(m)
      correlation == CombinedCorrelation(m, calibration.correlation)
      antiCounter == AntiCounterScore(field.series, field.spec.length)
      w == Weights(m)
      sum == w.correlation * correlation
             + 100 * (w.anchors * calibration.score + w.physical * m.physical
                      + w.smoothness * m.smoothness + w.refresh * m.refresh
                      + w.variation * m.variation + w.antiCounter * antiCounter
                      + w.shape * m.shape + w.resolution * m.resolution)
      confidence == sum \div WeightSum(w)
  IN  [signal |-> target, can |-> field.can, spec |-> field.spec, confidence |-> confidence,
       key |-> <<confidence, m.resolution, m.shape, field.spec.length>>,
       verified |-> CandidateDecision(Stages(m, correlation, antiCounter), confidence)]

-----------------------------------------------------------------------------
(* Rankings and what is told of them.                                      *)
Ranking(target) ==
  LET found == Chosen(fields, {i \in DOMAIN fields : PassesFilters(fields[i].series)})
      scores == [i \in DOMAIN found |-> ScoreCandidate(found[i], target)]
  IN  SubSeq(Ranked(scores, [i \in DOMAIN scores |-> scores[i].key]), 1, Min({MaxCandidates, Len(scores)}))

SignalDecision(ranking) ==
  IF ranking = <<>> THEN "unknown" ELSE IF ranking[1].verified THEN "verified" ELSE "unverified"
\* The signals an identifier is assigned, of all that is ranked.
AssignedSignals(rankings, can) ==
  {t \in Targets : \E i \in DOMAIN rankings[t] : rankings[t][i].can = can /\ rankings[t][i].verified}

DiscoveryInit ==
  /\ LET places == 1..FieldCount IN
     \E spec \in [places -> Specs], can \in [places -> CanIds], m \in [places -> Measurements] :
       fields = [i \in places |-> [can |-> can[i], spec |-> spec[i], series |-> m[i].series, of |-> m[i].of]]
  /\ analysis = Null /\ exported = Null

Analysis ==
  LET rankings == [t \in Targets |-> Ranking(t)] IN
  [rankings |-> rankings,
   decisions |-> [t \in Targets |-> SignalDecision(rankings[t])],
   packets |-> [c \in CanIds |-> AssignedSignals(rankings, c)],
   top |-> [t \in {u \in Targets : rankings[u] # <<>>} |-> rankings[t][1]]]
AnalyzeFrames ==
  /\ analysis = Null
  /\ analysis' = Analysis
  /\ UNCHANGED <<fields, exported>>

\* Of each signal the best candidate only, whether there is a verified one
\* below it or not.
Exportable(top) == {t \in DOMAIN top : top[t].confidence >= MinConfidence /\ top[t].verified}
Dictionary(top) == [signals |-> [t \in Exportable(top) |-> top[t]], rejected |-> DOMAIN top \ Exportable(top)]
BuildSignalDictionary ==
  /\ analysis # Null /\ exported = Null
  /\ exported' = Dictionary(analysis.top)
  /\ UNCHANGED <<fields, analysis>>

DiscoveryNext == AnalyzeFrames \/ BuildSignalDictionary

DiscoverySpec == DiscoveryInit /\ [][DiscoveryNext]_discoveryVars

-----------------------------------------------------------------------------
\* A name is earned: a signal of the dictionary has two anchors behind its scale,
\* is no counter, no candidate of its ranking is better, and the decisions told of
\* the signal and of its packet say the same.  Every signal with a candidate is
\* exported or told as rejected.
NamesAreEarned ==
  exported # Null =>
    /\ \A t \in DOMAIN exported.signals :
         LET c == exported.signals[t] IN
         /\ \E i \in DOMAIN fields :
              /\ fields[i].can = c.can /\ fields[i].spec = c.spec
              /\ fields[i].of[t].anchors >= 2 /\ fields[i].of[t].spread
              /\ AntiCounterScore(fields[i].series, c.spec.length) > 5
         /\ \A i \in DOMAIN analysis.rankings[t] :
              analysis.rankings[t][i].confidence <= c.confidence
         /\ analysis.decisions[t] = "verified" /\ t \in analysis.packets[c.can]
    /\ DOMAIN exported.signals \cup exported.rejected
         = {t \in Targets : analysis.decisions[t] # "unknown"}
===============================================================================
