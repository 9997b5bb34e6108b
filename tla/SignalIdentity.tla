----------------------------- MODULE SignalIdentity -----------------------------
(***************************************************************************)
(* The identity report on unknown CAN fields and the diagnostic candidates *)
(* exported from it (tools/can_reverse_workbench/identity.py).  What was   *)
(* measured on a field is given: its scores in whole hundredths, its best  *)
(* correlation with a signal and its strongest event.  Class, confidence,  *)
(* policy, selection, the suggestions of an AI command and the export are  *)
(* decided from that.  Confidences are whole ten-thousandths.              *)
(***************************************************************************)
EXTENDS CandidateFields

CONSTANTS Profiles,         \* what may be measured on a field
          FieldSpecs, Packets,   \* fields and identifiers of the model
          Responses,        \* what the AI command may answer
          ReportSizes       \* how many hypotheses a report may be told to keep; 0 for all

VARIABLES found,        \* the fields: [can, spec, seen]
          report,       \* Null, or whether it was made and its hypotheses
          candidates    \* name -> hypothesis, or Null

identityVars == <<found, report, candidates>>

NoReport == [made |-> FALSE, list |-> <<>>]
Clamp(score) == Max({0, Min({100, score})})
Percent(holds) == IF holds THEN 100 ELSE 0
Artefacts == {"counter", "checksum_or_crc"}
Measured == {"speed_like", "rpm_like", "pressure_like", "temperature_like", "percentage_like",
             "voltage_like", "airflow_like"}
Classes == Artefacts \cup Measured \cup
           {"switch", "warning_lamp", "state_enum", "gear_or_ratio", "continuous_sensor", "unknown"}

\* What is measured on a field, and what the AI command suggests.
IsSeen(e) ==
  /\ \A score \in {"unique", "cardinality", "entropy", "smooth", "rate", "correlation", "event",
                    "switch", "range"} : e[score] \in Nat
  /\ e.signal.class \in Classes \cup {Null}
IsName(name) == DOMAIN name = {"text", "suffixes"} /\ name.suffixes \in Seq(Nat)
IsSuggested(list) ==
  /\ Len(list) \in Nat /\ DOMAIN list = 1..Len(list)
  /\ \A i \in DOMAIN list : list[i].name # Null => IsName(list[i].name)
ASSUME IdentityAssumption ==
  /\ ReportSizes \subseteq Nat
  /\ \A s \in FieldSpecs : s.start \in Nat /\ s.length \in Nat
  /\ \A e \in Profiles : IsSeen(e)
  /\ \A r \in Responses : IsSuggested(r.suggestions)

-----------------------------------------------------------------------------
(* What a field may be.                                                    *)
IsCandidate(f) == Len(f.seen.series) >= 8 /\ f.seen.unique >= 2

ChecksumScore(f, counter) ==
  LET e == f.seen
      like == IF f.spec.length \in {8, 16, 24, 32} THEN 100 ELSE 70
      sum  == 34 * Clamp((100 * (e.entropy - 70)) \div 30) + 28 * Clamp((100 * (e.cardinality - 45)) \div 40)
                + 20 * (100 - e.smooth) + 18 * (100 - Clamp((100 * e.correlation) \div 60))
  IN  IF e.switch >= 60 \/ counter >= 70 THEN 0 ELSE Clamp((like * sum) \div 10000)
\* The evidence of a field: what was measured, and its counter and checksum score.
EvidenceOf(f) ==
  LET counter == Clamp(100 - AntiCounterScore(f.seen.series, f.spec.length))
  IN  [seen |-> f.seen, counter |-> counter, checksum |-> ChecksumScore(f, counter)]

Classify(e) ==
  LET s == e.seen IN
  CASE e.counter >= 76                                   -> "counter"
    [] e.counter < 76 /\ e.checksum >= 66                -> "checksum_or_crc"
    [] OTHER ->
       IF s.correlation >= 78 /\ s.signal.class # Null THEN s.signal.class
       ELSE IF s.switch >= 78 THEN IF s.lamp THEN "warning_lamp" ELSE "switch"
       ELSE IF s.unique <= 8 /\ s.cardinality <= 22 THEN IF s.gear THEN "gear_or_ratio" ELSE "state_enum"
       ELSE IF s.smooth >= 48 THEN "continuous_sensor" ELSE "unknown"

DeterministicConfidence(class, e) ==
  LET s == e.seen
      anti(a, b) == a * (100 - e.counter) + b * (100 - e.checksum)
  IN  CASE class = "counter"         -> 100 * e.counter
        [] class = "checksum_or_crc" -> 100 * e.checksum
        [] class \in {"switch", "warning_lamp"} ->
             30 * s.switch + 26 * s.event + 16 * s.rate + anti(14, 14)
        [] class \in Measured ->
             46 * s.correlation + 17 * s.smooth + 13 * s.rate + anti(11, 8) + 500
        [] class \in {"state_enum", "gear_or_ratio"} ->
             26 * (100 - s.cardinality) + 22 * s.event + 18 * s.correlation + 14 * s.rate + anti(10, 10)
        [] class = "continuous_sensor" ->
             28 * s.smooth + 24 * s.correlation + 14 * s.event + 14 * s.rate + anti(10, 10)
        [] OTHER                       -> 22 * s.correlation + 18 * s.event + 10 * s.rate

Promotable(e) == e.seen.correlation >= 78 \/ e.seen.event >= 82
SafetyPolicy(class, confidence, e) ==
  IF class \in Artefacts \/ e.counter >= 70 \/ e.checksum >= 78 THEN "rejected"
  ELSE IF class = "unknown" THEN "unknown"
  ELSE IF confidence >= 7800 /\ Promotable(e) THEN "probable"
  ELSE IF confidence >= 4200 THEN "candidate" ELSE "unknown"

\* The name it is given, after the signal, the event or the packet.
SuggestedName(class, f) ==
  IF f.seen.signal.name # Null
  THEN IF class = "speed_like" THEN <<class>> ELSE <<f.seen.signal.name>>
  ELSE IF class \in {"switch", "warning_lamp"} /\ f.seen.label # Null THEN <<f.seen.label, class>>
  ELSE <<f.can, class>>

Hypothesis(i) ==
  LET f == found[i]
      e == EvidenceOf(f)
      class == Classify(e)
      confidence == DeterministicConfidence(class, e)
  IN  [id |-> i, can |-> f.can, spec |-> f.spec, evidence |-> e, class |-> class,
       confidence |-> confidence, name |-> [text |-> SuggestedName(class, f), suffixes |-> <<>>],
       status |-> SafetyPolicy(class, confidence, e)]

-----------------------------------------------------------------------------
(* The report.                                                             *)
StatusRank == [probable |-> 5, candidate |-> 4, unknown |-> 3, rejected |-> 2]
ReportKey(h) ==
  <<StatusRank[h.status], Max({h.evidence.seen.correlation, h.evidence.seen.event}), h.evidence.seen.unique,
    Percent(ByteAligned(h.spec)), Percent(~h.spec.signed), -h.spec.length,
    h.confidence, h.evidence.counter, h.evidence.checksum>>
RejectedKey(h) == <<Max({100 * h.evidence.counter, 100 * h.evidence.checksum, h.confidence})>>

\* Those of a list that are not selected yet, up to a number in all.
AddItems(selected, list, limit) ==
  LET new == Chosen(list, {i \in DOMAIN list : list[i] \notin Range(selected)})
  IN  selected \o SubSeq(new, 1, Max({0, Min({limit - Len(selected), Len(new)})}))
SelectHypotheses(all, size) ==
  LET ranked == Ranked(all, [i \in DOMAIN all |-> ReportKey(all[i])])
      With(statuses) == Chosen(ranked, {i \in DOMAIN ranked : ranked[i].status \in statuses})
      useful   == Max({1, (82 * size) \div 100})
      first    == AddItems(<<>>, With({"probable", "candidate"}), useful)
      refused  == With({"rejected"})
      rejected == AddItems(first, Ranked(refused, [i \in DOMAIN refused |-> RejectedKey(refused[i])]),
                           Max({useful, (96 * size) \div 100}))
  IN  IF size = 0 \/ Len(all) <= size THEN ranked
      ELSE AddItems(AddItems(rejected, With({"unknown"}), size), ranked, size)

\* Mutant: the policy is asked again, with the confidence the AI claims.
MergeSuggestion_promotes(h, s) ==
  LET class == IF s.class \in Classes \ Artefacts THEN s.class ELSE h.class
  IN  [h EXCEPT !.class = class, !.name = IF s.name = Null THEN @ ELSE s.name,
                !.status = SafetyPolicy(class, s.confidence, h.evidence)]
\* A suggestion changes class and name, never the confidence or the status.
MergeSuggestion(h, s) ==
  [h EXCEPT !.class = IF s.class \in Classes \ Artefacts THEN s.class ELSE @,
            !.name = IF s.name = Null THEN @ ELSE s.name]
\* One after the other, for hypotheses of the report that are not rejected.
ApplySuggestions(hypotheses, suggestions) ==
  FoldLeft(LAMBDA list, s :
             [k \in DOMAIN list |->
                IF list[k].id = s.id /\ list[k].status # "rejected"
                THEN MergeSuggestion(list[k], s) ELSE list[k]],
           hypotheses, suggestions)

IdentityInit ==
  /\ LET places == 1..FieldCount IN
     \E can \in [places -> Packets], spec \in [places -> FieldSpecs], seen \in [places -> Profiles] :
       /\ \A i, j \in places : i # j => <<can[i], spec[i]>> # <<can[j], spec[j]>>
       /\ found = [i \in places |-> [can |-> can[i], spec |-> spec[i], seen |-> seen[i]]]
  /\ report = Null /\ candidates = Null

\* An AI command that fails, or answers no JSON, suggests nothing; JSON that is
\* no object raises what is not caught, and there is no report.
BuildReport ==
  /\ report = Null
  /\ \E r \in Responses, size \in ReportSizes :
       LET all == Chosen([i \in DOMAIN found |-> Hypothesis(i)], {i \in DOMAIN found : IsCandidate(found[i])})
           list == SelectHypotheses(all, size)
       IN  report' = IF r.object THEN [made |-> TRUE, list |-> ApplySuggestions(list, r.suggestions)]
                     ELSE NoReport
  /\ UNCHANGED <<found, candidates>>

-----------------------------------------------------------------------------
(* The export.                                                             *)
BitsNeeded(range, length) == Max({1, Cardinality({b \in 0..length : 2^b < range + 1})})
Surplus(h) == Max({0, h.spec.length - BitsNeeded(h.evidence.seen.range, h.spec.length) - 2})
PreferenceKey(h) ==
  <<Percent(ByteAligned(h.spec)), Percent(~h.spec.signed), h.evidence.seen.unique,
    h.evidence.seen.correlation, h.confidence, -h.spec.length, -Surplus(h), h.evidence.seen.range>>
PrimaryEvidence(h) ==
  LET s == h.evidence.seen IN
  IF s.signal.name # Null THEN <<"correlation", s.signal.name>>
  ELSE IF s.label # Null THEN <<"event", s.label>> ELSE <<"class", h.class>>
\* Two readings of one signal: in the same bits, on the same evidence.
SameIdentity(h, g) ==
  h.can = g.can /\ h.class = g.class /\ PrimaryEvidence(h) = PrimaryEvidence(g) /\ Overlap(h.spec, g.spec)
Deduped(hypotheses) ==
  LET probable == Chosen(hypotheses, {i \in DOMAIN hypotheses : hypotheses[i].status = "probable"})
  IN  FoldLeft(LAMBDA kept, h : IF \E g \in Range(kept) : SameIdentity(h, g) THEN kept ELSE Append(kept, h),
               <<>>, Ranked(probable, [i \in DOMAIN probable |-> PreferenceKey(probable[i])]))

\* The first of name, name_2, name_3 ... that is free.
UniqueName(name, used) ==
  LET Suffixed(k) == IF k = 1 THEN name ELSE [name EXCEPT !.suffixes = Append(@, k)]
  IN  Suffixed(Min({k \in 1..(Cardinality(used) + 1) : Suffixed(k) \notin used}))
\* Each is exported under a name of its own.
Exported(candidate, h) ==
  LET name == UniqueName(h.name, DOMAIN candidate)
  IN  [n \in DOMAIN candidate \cup {name} |-> IF n = name THEN h ELSE candidate[n]]
BuildCandidates ==
  /\ report # Null /\ candidates = Null
  /\ report.made
  /\ candidates' = FoldLeft(Exported, [name \in {} |-> Null], Deduped(report.list))
  /\ UNCHANGED <<found, report>>

IdentityNext == BuildReport \/ BuildCandidates

IdentitySpec == IdentityInit /\ [][IdentityNext]_identityVars

-----------------------------------------------------------------------------
\* The AI may name but not promote: the status of every hypothesis is what its
\* own measurements alone make of it, and what they reject keeps its class.
\* Whatever the names, every probable hypothesis is exported, or one that
\* overlaps it is, and nothing else (merge_ai_suggestions, export_identity_candidates).
AiCannotPromote ==
  /\ report # Null =>
       \A h \in Range(report.list) :
         LET own == Hypothesis(h.id) IN
         /\ h.status = own.status
         /\ own.status = "rejected" => h = own
  /\ candidates # Null =>
       LET told == {candidates[name] : name \in DOMAIN candidates} IN
       /\ told \subseteq {h \in Range(report.list) : h.status = "probable"}
       /\ \A h \in Range(report.list) :
            h.status = "probable" => \E g \in told : g.can = h.can /\ (g = h \/ Overlap(g.spec, h.spec))
===============================================================================
