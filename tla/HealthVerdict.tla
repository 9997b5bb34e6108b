---------------------------- MODULE HealthVerdict ----------------------------
(***************************************************************************)
(* The verdict on a capture (tools/bbb_hub/health_verdict.py): how much of *)
(* the vehicle's operation was seen, how far the evidence can be trusted,  *)
(* whether to judge at all, and the judgement.  Scores are thousandths;    *)
(* weights are hundredths, as the code writes them.                        *)
(***************************************************************************)
EXTENDS DiagnosticStatus

CONSTANTS ExpectedContexts, EnoughFrames, EnoughDuration

ASSUME VerdictAssumption ==
  /\ IsFiniteSet(ExpectedContexts) /\ ExpectedContexts # {}
  /\ {EnoughFrames, EnoughDuration} \subseteq Nat \ {0}

Rounded(n, d) == (2 * n + d) \div (2 * d)
Share(n, enough) == IF n >= enough THEN 1000 ELSE (1000 * n) \div enough

-----------------------------------------------------------------------------
(* Coverage.                                                               *)
\* What a source was over the capture: seen holds the values it had.
SourceStatus(seen) ==
  CASE seen \ {Null} = {}      -> "not_used"
    [] seen \ {Null} = {TRUE}  -> "good"
    [] seen \ {Null} = {FALSE} -> "degraded"
    [] OTHER                   -> "partial"
\* Mutant: a source that came and went scores more than one that stayed.
SourceScore_partialFirst == [good |-> 600, partial |-> 1000, degraded |-> 200, not_used |-> 500]

SourceScore == [good |-> 1000, partial |-> 600, degraded |-> 200, not_used |-> 500]

\* c has the contexts observed, the frames, the duration and, per source, the
\* values seen.
SourceCoverage(c) ==
  LET score(s) == SourceScore[SourceStatus(c.seen[s])]
  IN  Rounded(score("gpsOk") + score("canOk") + score("serialOk"), 3)
RawCoverage(c) ==
  45 * Share(Cardinality(c.contexts), Cardinality(ExpectedContexts))
    + 35 * Max({Share(c.frames, EnoughFrames), Share(c.duration, EnoughDuration)})
    + 20 * SourceCoverage(c)
CoverageScore(c) == Rounded(RawCoverage(c), 100)
CoverageConfidence(c) == Rounded(7 * RawCoverage(c) + 300 * SourceCoverage(c), 1000)
MissingContexts(c) == ExpectedContexts \ c.contexts

-----------------------------------------------------------------------------
(* Trust in the evidence.  e has the coverage c, the findings the last     *)
(* status carries with its severity, the quality of the capture, and how   *)
(* many of the learned models are ready.                                   *)
\* For the verdict a frame without positions has no receiver configured.
VerdictQuality(frame) ==
  [CaptureQuality(frame) EXCEPT !.gpsOk = IF frame.gps.present THEN @ ELSE Null]

Configured(q) == {q[s] : s \in {"gpsOk", "canOk", "serialOk"}} \ {Null}

SourceTrust(q) ==
  LET used == {s \in {"gpsOk", "canOk", "serialOk"} : q[s] # Null}
      good == {s \in used : q[s]}
  IN  Rounded(1000 * (Cardinality(good) + (IF q.linkStale THEN 0 ELSE 1)), Cardinality(used) + 1)

\* A monitor that is enabled adds the share of its models that are ready.
ModelApplicability(e) ==
  Rounded(70000 + (IF e.profileKnown THEN 10000 ELSE 0)
            + (12000 * e.baseline.ready) \div Max({e.baseline.models, 1})
            + (8000 * e.transition.ready) \div Max({e.transition.models, 1}), 100)

EvidenceConsistency(worst, count, q) ==
  IF q.linkStale THEN 350
  ELSE CASE worst = "error"   -> IF count > 1 THEN 900 ELSE 840
         [] worst = "warning" -> IF count > 1 THEN 880 ELSE 800
         [] worst = "info"    -> 700
         [] OTHER             -> 920

NotReady(monitor) == monitor.enabled /\ monitor.ready = 0
PenaltyIf(holds, weight) == IF holds THEN weight ELSE 0
Penalties(e) ==
  LET score == CoverageScore(e.coverage)
  IN  PenaltyIf(e.quality.linkStale, 250)
        + PenaltyIf(FALSE \in Configured(e.quality), 120)
        + PenaltyIf(~e.profileKnown, 60)
        + PenaltyIf(NotReady(e.baseline), 80) + PenaltyIf(NotReady(e.transition), 60)
        + PenaltyIf(score < 450, 180) + PenaltyIf(score \in 450..699, 80)
        + PenaltyIf("cold_start" \in MissingContexts(e.coverage), 50)
        + PenaltyIf("heavy_load" \in MissingContexts(e.coverage), 40)

Worst(e) == WorstSeverity(e.active, e.severity)
Confidence(e) ==
  LET base == 40 * SourceTrust(e.quality) + 25 * CoverageConfidence(e.coverage)
                + 20 * ModelApplicability(e)
                + 15 * EvidenceConsistency(Worst(e), Cardinality(e.active), e.quality)
      c == Rounded(base - 100 * Penalties(e), 100)
  IN  Max({0, Min({1000, c})})

-----------------------------------------------------------------------------
(* The judgement.                                                          *)
AbstainReasons(e) ==
  {r \in {"health_stale", "capture_degraded", "coverage_too_low", "confidence_too_low",
          "vehicle_profile_unknown", "baseline_not_ready", "transition_baseline_not_ready"} :
     \/ r = "health_stale" /\ e.quality.linkStale
     \/ r = "capture_degraded" /\ FALSE \in Configured(e.quality)
     \/ /\ Worst(e) \notin {"warning", "error"}
        /\ \/ r = "coverage_too_low" /\ CoverageScore(e.coverage) < 450
           \/ r = "confidence_too_low" /\ Confidence(e) < 550
           \/ r = "vehicle_profile_unknown" /\ ModelApplicability(e) < 450
           \/ r = "baseline_not_ready" /\ NotReady(e.baseline)
           \/ r = "transition_baseline_not_ready" /\ NotReady(e.transition)}

Verdict(e) ==
  LET reasons == AbstainReasons(e)
  IN  IF reasons \cap {"health_stale", "capture_degraded"} # {} THEN "capture_limited"
      ELSE IF reasons # {} THEN "insufficient_evidence"
      ELSE IF Worst(e) = "error" THEN "anomaly_detected"
      ELSE IF Worst(e) = "warning" THEN "anomaly_likely"
      ELSE IF Confidence(e) >= 900 /\ CoverageScore(e.coverage) >= 900 THEN "healthy"
      ELSE "probably_healthy"

VerdictOk(e) == Verdict(e) \in {"healthy", "probably_healthy"}
==============================================================================
