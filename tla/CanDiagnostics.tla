--------------------------- MODULE CanDiagnostics ---------------------------
(***************************************************************************)
(* What the hub concludes from the traffic of the CAN bus                  *)
(* (tools/bbb_hub/can_diagnostics.py).  Identifiers are judged each on its *)
(* own; the model follows one, which carries a dynamic signal, and the bus *)
(* around it.  Time is counted in rounds and kept as ages.                 *)
(***************************************************************************)
EXTENDS RunningStats

CONSTANTS Payloads, Lengths,       \* what a frame of the identifier may carry
          SignalOf,                \* payload -> value of the signal decoded from it
          Epsilon,                 \* a range of the signal that counts as none
          MinStale, StaleMultiplier, Grace, Retention,
          TimingSamples, IntervalLimit,
          StuckSamples, StuckWindow, ValueLimit,
          Periods,                 \* rounds between two frames of the sender
          MaxChanges               \* bound of the model: changes of the sender

ASSUME CanAssumption ==
  /\ {MinStale, StaleMultiplier, Grace, Retention, TimingSamples, IntervalLimit,
      StuckSamples, StuckWindow, ValueLimit, MaxChanges} \subseteq Nat
  /\ TimingSamples > 0 /\ TimingSamples <= IntervalLimit /\ StuckSamples <= ValueLimit
  /\ Periods \subseteq Nat \ {0} /\ Periods # {} /\ IsFiniteSet(Periods)

VARIABLES
  sender,       \* period of the identifier's sender, "gone" when it is off
  changes,      \* changes of the sender so far
  upFor,        \* rounds since the diagnostics started, up to Grace + 1
  lastFrame,    \* the last frame with its age, or one that has not been seen
  intervals,    \* rounds between the last frames, the oldest first
  repeats,      \* frames with the payload of the last one, and rounds since the first
  values,       \* the last samples of the signal: [age, value]
  lengthEvents, \* ages of the changes of length
  distinctTimes \* for the properties: rounds with a frame, up to TimingSamples + 1

canVars == <<sender, changes, upFor, lastFrame, intervals, repeats, values,
             lengthEvents, distinctTimes>>

AgeLimit == StaleMultiplier * Greatest(Periods) + MinStale + 1
NotSeen == [seen |-> FALSE, age |-> 0, data |-> CHOOSE d \in Payloads : TRUE, dlc |-> 0]

Older(age, limit) == IF age >= limit THEN limit ELSE age + 1
LastOf(s, limit) == IF Len(s) > limit THEN Tail(s) ELSE s

-----------------------------------------------------------------------------
(* The findings of a snapshot.                                             *)
BusSilence == ~lastFrame.seen /\ upFor > Grace

Timed == lastFrame.seen /\ Len(intervals) >= TimingSamples
\* Mutant: the limit follows the longest interval kept, an outage included.
Dropout_longest ==
  Timed /\ lastFrame.age > MinStale
    /\ lastFrame.age > StaleMultiplier * Greatest(ToSet(intervals))

Dropout ==
  /\ Timed
  /\ lastFrame.age > MinStale
  /\ 2 * lastFrame.age > TwiceMedian(intervals) * StaleMultiplier

PayloadStuck == repeats.count >= StuckSamples /\ repeats.age >= StuckWindow

SignalStuck ==
  LET recent == {i \in DOMAIN values : values[i].age <= StuckWindow}
  IN  /\ Cardinality(recent) >= StuckSamples
      /\ ValueRange({values[i].value : i \in recent}) <= Epsilon

\* Changes of length are told for as long as they are kept.
LengthChanged == \E i \in DOMAIN lengthEvents : lengthEvents[i] <= Retention

CanFindings ==
  {f \in {"bus_silence", "can_id_dropout", "payload_stuck", "decoded_signal_stuck", "dlc_changed"} :
     \/ f = "bus_silence" /\ BusSilence
     \/ f = "can_id_dropout" /\ Dropout
     \/ f = "payload_stuck" /\ PayloadStuck
     \/ f = "decoded_signal_stuck" /\ SignalStuck
     \/ f = "dlc_changed" /\ LengthChanged}

-----------------------------------------------------------------------------
CanInit ==
  /\ sender \in {[on |-> FALSE, period |-> Least(Periods)]} /\ changes = 0
  /\ upFor = 0 /\ lastFrame = NotSeen /\ intervals = <<>>
  /\ repeats = [count |-> 0, age |-> 0] /\ values = <<>> /\ lengthEvents = <<>>
  /\ distinctTimes = 0

\* Two frames at the same time leave no interval between them.
\* Mutant: an interval beyond the limit is taken for an outage and not kept.
WithInterval_typical(gap) ==
  IF Len(intervals) >= TimingSamples /\ 2 * gap > TwiceMedian(intervals) * StaleMultiplier
  THEN intervals ELSE LastOf(Append(intervals, gap), IntervalLimit)

WithInterval(gap) == LastOf(Append(intervals, gap), IntervalLimit)

ObserveFrame(data, dlc) ==
  /\ intervals' = IF lastFrame.seen /\ lastFrame.age > 0 THEN WithInterval(lastFrame.age)
                  ELSE intervals
  /\ lengthEvents' = IF lastFrame.seen /\ dlc # lastFrame.dlc
                     THEN Append(lengthEvents, 0) ELSE lengthEvents
  /\ repeats' = IF lastFrame.seen /\ data = lastFrame.data
                THEN [repeats EXCEPT !.count = IF @ >= StuckSamples THEN @ ELSE @ + 1]
                ELSE [count |-> 1, age |-> 0]
  /\ lastFrame' = [seen |-> TRUE, age |-> 0, data |-> data, dlc |-> dlc]
  /\ values' = LastOf(Append(values, [age |-> 0, value |-> SignalOf[data]]), ValueLimit)
  /\ distinctTimes' = IF (lastFrame.seen /\ lastFrame.age = 0) \/ distinctTimes > TimingSamples
                      THEN distinctTimes ELSE distinctTimes + 1

\* A sender that is on keeps its period.
DueFrame == sender.on /\ (~lastFrame.seen \/ lastFrame.age >= sender.period)
FrameArrives ==
  \E data \in Payloads, dlc \in Lengths :
    /\ DueFrame
    /\ ObserveFrame(data, dlc)
    /\ UNCHANGED <<sender, changes, upFor>>

\* A frame out of turn: two that were waiting arrive together.
BurstArrives ==
  /\ sender.on /\ lastFrame.seen /\ lastFrame.age = 0 /\ repeats.count < StuckSamples
  /\ ObserveFrame(lastFrame.data, lastFrame.dlc)
  /\ UNCHANGED <<sender, changes, upFor>>

\* Time passes; the snapshot of each round forgets what is too old.
RoundPasses ==
  /\ ~DueFrame
  /\ upFor' = Older(upFor, Grace + 1)
  /\ lastFrame' = [lastFrame EXCEPT !.age = IF lastFrame.seen THEN Older(@, AgeLimit) ELSE 0]
  /\ repeats' = [repeats EXCEPT !.age = IF lastFrame.seen THEN Older(@, StuckWindow) ELSE 0]
  /\ values' = [i \in DOMAIN values |-> [values[i] EXCEPT !.age = Older(@, StuckWindow + 1)]]
  /\ lengthEvents' = SelectSeq([i \in DOMAIN lengthEvents |-> lengthEvents[i] + 1],
                               LAMBDA a : a <= Retention)
  /\ UNCHANGED <<sender, changes, intervals, distinctTimes>>

\* The sender goes off, comes back, or changes its period.
SenderChanges ==
  /\ changes < MaxChanges
  /\ changes' = changes + 1
  /\ \E p \in Periods, on \in BOOLEAN : sender' = [on |-> on, period |-> p] /\ sender' # sender
  /\ UNCHANGED <<upFor, lastFrame, intervals, repeats, values, lengthEvents, distinctTimes>>

CanNext == FrameArrives \/ BurstArrives \/ RoundPasses \/ SenderChanges

CanSpec == CanInit /\ [][CanNext]_canVars

\* Time goes on and the frames that are due arrive.
CanProgress == FrameArrives \/ RoundPasses

-----------------------------------------------------------------------------
\* An outage is noticed, also after earlier ones that were kept as intervals:
\* a bus never heard after the grace period, and an identifier that has come
\* often enough, once its silence is the limit for its longest period and most
\* intervals kept were periods of the sender (_bus_silence_findings,
\* _id_timing_findings).
SilenceIsNoticed ==
  /\ ~lastFrame.seen /\ upFor > Grace => "bus_silence" \in CanFindings
  /\ /\ lastFrame.seen /\ lastFrame.age = AgeLimit /\ distinctTimes > TimingSamples
     /\ LET outages == {i \in DOMAIN intervals : intervals[i] > Greatest(Periods)}
        IN  2 * Cardinality(outages) < Len(intervals)
     => "can_id_dropout" \in CanFindings

\* An identifier that goes on at another period is not reported for ever: the
\* rhythm is learned anew from its last frames (_id_timing_findings).
RhythmIsRelearned == <>[](sender.on /\ lastFrame.seen) => <>[]("can_id_dropout" \notin CanFindings)
==============================================================================
