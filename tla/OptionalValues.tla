---------------------------- MODULE OptionalValues ----------------------------
(* A number, or Null where a frame, a row or a line does not have it.      *)
EXTENDS Integers

CONSTANT Null

ASSUME NullAssumption == Null \notin Int
===============================================================================
