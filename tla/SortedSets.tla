------------------------------ MODULE SortedSets ------------------------------
(***************************************************************************)
(* The elements of a finite set in the order of a relation, as the sorts   *)
(* and the filters of the Python tools give them.                          *)
(***************************************************************************)
EXTENDS Integers, Sequences, FiniteSets

\* The pair <<x, y>> is in ahead when x comes before y; it is for every two
\* different elements one way round.
AheadOf(S, ahead, x) == {y \in S : <<y, x>> \in ahead}
InOrder(S, ahead) ==
  [k \in 1..Cardinality(S) |-> CHOOSE x \in S : Cardinality(AheadOf(S, ahead, x)) = k - 1]
\* The elements of a list at some of its places, as they come.
Chosen(list, places) ==
  LET order == InOrder(places, {p \in places \X places : p[1] < p[2]})
  IN  [k \in 1..Cardinality(places) |-> list[order[k]]]
===============================================================================
