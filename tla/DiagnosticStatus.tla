--------------------------- MODULE DiagnosticStatus ---------------------------
(***************************************************************************)
(* The diagnostic status of one frame (tools/bbb_hub/diagnostic_status.py) *)
(***************************************************************************)
EXTENDS SignalHealth

CONSTANT MaxActiveFindings

ASSUME StatusAssumption == MaxActiveFindings \in Nat

\* The findings of a frame: the faults of the signal monitor, and what the CAN
\* diagnostics, the baseline and the transitions found.  One that comes both as
\* a fault and from the monitor behind it is one finding.
CollectFindings(faults, frame, baseline, transitions) ==
  faults \cup frame.can.findings \cup baseline \cup transitions

WorstSeverity(findings, fallback) ==
  LET all == {f.severity : f \in findings} \cup {fallback}
  IN  CHOOSE s \in all : \A x \in all : SeverityOrder[s] >= SeverityOrder[x]

\* The findings a status carries: the gravest, as many as it may.
Graver(f, g) ==
  \/ SeverityOrder[f.severity] > SeverityOrder[g.severity]
  \/ f.severity = g.severity /\ f.confidence > g.confidence
Carried(findings) == Min({MaxActiveFindings, Cardinality(findings)})
ActiveFindings(findings) ==
  CHOOSE active \in SUBSET findings :
    /\ Cardinality(active) = Carried(findings)
    /\ \A f \in active, g \in findings \ active : ~Graver(g, f)

\* A source that is not configured is Null, except the receiver of positions;
\* the diagnostics of the bus count as well as the age of its frames.
CaptureQuality(frame) ==
  [gpsOk    |-> frame.gps.fix /\ ~frame.gps.stale,
   canOk    |-> IF frame.can.enabled
                THEN ~frame.can.stale /\ \A f \in frame.can.findings : ~Serious(f) ELSE Null,
   serialOk |-> IF frame.serial.enabled THEN ~frame.serial.stale ELSE Null,
   linkStale |-> frame.stale]

Status(frame, findings) ==
  LET worst   == WorstSeverity(findings, "ok")
      quality == CaptureQuality(frame)
      told(ok, severity, status) ==
        [ok |-> ok, severity |-> severity, status |-> status,
         active |-> ActiveFindings(findings), quality |-> quality]
  IN  IF frame.stale
      THEN told(FALSE, IF worst \in {"ok", "info"} THEN "warning" ELSE worst, "data_stale")
      ELSE IF findings # {}
      THEN IF worst \in {"warning", "error"} THEN told(FALSE, worst, "anomaly_detected")
           ELSE told(TRUE, worst, "limited")
      ELSE IF FALSE \in {quality.canOk, quality.serialOk} THEN told(TRUE, "info", "limited")
      ELSE told(TRUE, "ok", "nominal")
==============================================================================
