---------------------------- MODULE CandidateFields ----------------------------
(***************************************************************************)
(* The fields of a CAN identifier that may be a signal, and what a rolling *)
(* counter looks like (tools/can_reverse_workbench/discovery.py), shared   *)
(* by the ranking for known signals and by the identity report.  Scores    *)
(* are whole hundredths.                                                   *)
(***************************************************************************)
EXTENDS OptionalValues, SortedSets, SequencesExt, FiniteSetsExt

CONSTANTS MinSamples,       \* values a field needs to be looked at
          FieldCount        \* fields that the frames of the model hold

ASSUME FieldsAssumption == MinSamples \in Nat /\ FieldCount \in Nat

FieldLengths == {4, 8, 10, 11, 12, 13, 14, 15, 16, 24, 32}
StartStep(length) == IF length \in {8, 16, 24, 32} THEN 8 ELSE IF length <= 7 THEN 1 ELSE 4
\* The fields tried in a payload of so many bytes.
EnumeratedSpecs(bytes) ==
  UNION {{[start |-> s, length |-> l, endian |-> e, signed |-> g] :
            s \in {i \in 0..(8 * bytes - l) : i % StartStep(l) = 0},
            e \in {"big", "little"}, g \in BOOLEAN} : l \in FieldLengths}

ByteAligned(f) == f.start % 8 = 0 /\ f.length \in {8, 16, 24, 32}
Overlap(f, g) == Max({f.start, g.start}) < Min({f.start + f.length, g.start + g.length})

\* The differences of a series of raw values, as a counter of that width sees
\* them.  One that counts down differs by nearly the whole width.
Differences(series, length) ==
  [i \in 1..(Len(series) - 1) |-> (series[i + 1] - series[i]) % 2^Min({length, 16})]
Occurrences(diffs, d) == Cardinality({i \in DOMAIN diffs : diffs[i] = d})

\* 5 for a counter, 35 for a byte that jumps about, 90 for anything else.
AntiCounterScore(series, length) ==
  LET diffs == Differences(series, length)
      values == {series[i] : i \in DOMAIN series}
  IN  IF \E d \in 1..4 : 100 * Occurrences(diffs, d) > 82 * Len(diffs) THEN 5
      ELSE IF /\ length = 8 /\ 100 * Cardinality(values) > 85 * Len(series)
              /\ \A i \in DOMAIN diffs : 100 * Occurrences(diffs, diffs[i]) < 20 * Len(diffs)
      THEN 35 ELSE 90

-----------------------------------------------------------------------------
\* One key is before another: by the first place they differ in, larger first.
Before(k, l) == \E i \in DOMAIN k : k[i] > l[i] /\ \A j \in 1..(i - 1) : k[j] = l[j]
\* What is equal stays as it was.
KeyOrder(keys) ==
  {p \in (DOMAIN keys) \X (DOMAIN keys) :
     Before(keys[p[1]], keys[p[2]]) \/ (keys[p[1]] = keys[p[2]] /\ p[1] < p[2])}
\* A list in the order of its keys, one for each place.
Ranked(list, keys) ==
  LET order == InOrder(DOMAIN list, KeyOrder(keys)) IN [k \in DOMAIN list |-> list[order[k]]]
===============================================================================
