---------------------------- MODULE RunningStats ----------------------------
(***************************************************************************)
(* The statistics the learning monitors keep (tools/vehicle_analysis/      *)
(* stats.py): count, mean and deviation of integer samples.  Mean and      *)
(* squared deviation are quotients, so they are kept as count, sum and sum *)
(* of squares and every comparison with them is multiplied out.            *)
(***************************************************************************)
EXTENDS SortedSets, SequencesExt

NoSamples == [n |-> 0, sum |-> 0, sq |-> 0]
WithSample(s, v) == [n |-> s.n + 1, sum |-> s.sum + v, sq |-> s.sq + v * v]

Abs(v) == IF v < 0 THEN -v ELSE v

\* The mean is at least limit.
MeanAtLeast(s, limit) == s.n > 0 /\ s.sum >= limit * s.n

\* n times the distance of v to the mean, signed.
Above(s, v) == s.n * v - s.sum

\* A distance, given n-fold, exceeds k standard deviations; the deviation of
\* fewer than two samples is 0.
BeyondDeviations(s, gap, k) ==
  IF s.n < 2 THEN gap > 0
  ELSE (s.n - 1) * gap * gap > k * k * s.n * (s.n * s.sq - s.sum * s.sum)

Least(S) == CHOOSE x \in S : \A y \in S : x <= y
Greatest(S) == CHOOSE x \in S : \A y \in S : x >= y
ValueRange(S) == IF S = {} THEN 0 ELSE Greatest(S) - Least(S)

\* Twice the median of a non-empty sequence.
TwiceMedian(s) ==
  LET n == Len(s)
      ahead == {p \in (1..n) \X (1..n) : s[p[1]] < s[p[2]] \/ (s[p[1]] = s[p[2]] /\ p[1] < p[2])}
      ordered(k) == s[InOrder(1..n, ahead)[k]]
      m == n \div 2
  IN  IF n % 2 = 1 THEN 2 * ordered(m + 1) ELSE ordered(m) + ordered(m + 1)
=============================================================================
