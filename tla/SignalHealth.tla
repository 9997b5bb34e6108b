----------------------------- MODULE SignalHealth -----------------------------
(***************************************************************************)
(* The rule-based faults of one frame (tools/bbb_hub/signal_health.py) and *)
(* the findings they are told as (tools/vehicle_analysis/findings.py).     *)
(* The rule is that of speedKph; times are tenths of a second.  A finding  *)
(* is a record; its wording is left out, what distinguishes one stays.     *)
(***************************************************************************)
EXTENDS FrameValues, FiniteSetsExt

CONSTANTS NoisySamples, NoisyRates, NoisyTurns,    \* least samples, rates, turns
          HistoryLimit

SeverityOrder == [ok |-> 0, info |-> 1, warning |-> 2, error |-> 3]
Serious(f) == f.severity \in {"warning", "error"}

Finding(source, subject, code, severity, confidence) ==
  [source |-> source, subject |-> subject, code |-> code,
   severity |-> severity, confidence |-> confidence]

\* A fault of the monitor, told as a finding: its source is the one named in
\* the details of the fault, the monitor when there is none.
SignalFault(subject, code, severity) == Finding("signalMonitor", subject, code, severity, 0)

-----------------------------------------------------------------------------
OutOfRange(v) == v < 0 \/ v > 240

\* Faster than 90 kph per second since the last sample, if time has passed.
ImpossibleJump(history, v, now) ==
  /\ history # <<>>
  /\ LET p  == history[Len(history)]
         dt == now - p.t
     IN  dt > 0 /\ 10 * Abs(v - p.v) > 90 * dt

\* The rates of the samples of the last two seconds, in kph per second.
RecentRates(history, now) ==
  LET recent == SelectSeq(history, LAMBDA s : now - s.t <= 20)
      step(i) == [dv |-> recent[i + 1].v - recent[i].v, dt |-> recent[i + 1].t - recent[i].t]
      steps  == SelectSeq([i \in 1..(Len(recent) - 1) |-> step(i)], LAMBDA s : s.dt > 0)
  IN  IF Len(recent) < NoisySamples THEN <<>>
      ELSE [i \in DOMAIN steps |-> (10 * steps[i].dv) \div steps[i].dt]

Turns(r) ==
  LET moving == SelectSeq(r, LAMBDA x : x # 0)
  IN  Cardinality({i \in 1..(Len(moving) - 1) : (moving[i] > 0) # (moving[i + 1] > 0)})

\* The rates vary by more than 75 kph per second and change sign.
Noisy(history, now) ==
  LET r == RecentRates(history, now)
      s == FoldLeft(WithSample, NoSamples, r)
  IN  /\ Len(r) >= NoisyRates /\ Turns(r) >= NoisyTurns
      /\ s.n * s.sq - s.sum * s.sum > 75 * 75 * s.n * s.n

Remember(history, v, now) ==
  LET h == Append(history, [t |-> now, v |-> v])
  IN  IF Len(h) > HistoryLimit THEN Tail(h) ELSE h

RuleFaults(history, v, now) ==
  IF v = Null THEN {}
  ELSE {f \in {SignalFault("speedKph", "out_of_range", "error"),
               SignalFault("speedKph", "impossible_jump", "warning"),
               SignalFault("speedKph", "noisy_or_flapping", "warning")} :
          \/ f.code = "out_of_range" /\ OutOfRange(v)
          \/ f.code = "impossible_jump" /\ ImpossibleJump(history, v, now)
          \/ f.code = "noisy_or_flapping" /\ Noisy(Remember(history, v, now), now)}

-----------------------------------------------------------------------------
\* The sources that are configured and have gone stale.
StaleFaults(frame) ==
  (IF frame.can.enabled /\ frame.can.stale
   THEN {Finding("canLive", "can", "source_stale", "warning", 0)} ELSE {})
  \cup (IF frame.serial.enabled /\ frame.serial.stale
        THEN {Finding("serialVehicleInputs", "serial", "source_stale", "warning", 0)} ELSE {})

\* Serious findings of the CAN diagnostics and of the baseline are passed on
\* as faults, under the source they came from.
PassedOn(findings) == {f \in findings : Serious(f)}

SpeedDisagrees(frame) ==
  /\ frame.speed # Null /\ frame.gps.fix /\ frame.gps.speed # Null /\ frame.gps.speed >= 8
  /\ Abs(frame.speed - frame.gps.speed) > 18

\* All faults of a frame; baseline holds the baseline's findings of the frame.
SignalFaults(history, frame, baseline, now) ==
  RuleFaults(history, frame.speed, now) \cup StaleFaults(frame)
    \cup PassedOn(IF frame.can.enabled THEN frame.can.findings ELSE {})
    \cup PassedOn(baseline)
    \cup (IF SpeedDisagrees(frame)
          THEN {SignalFault("speedKph", "source_disagreement", "warning")} ELSE {})
==============================================================================
