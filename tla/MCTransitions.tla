----------------------------- MODULE MCTransitions -----------------------------
(***************************************************************************)
(* The transition monitor for model checking: a vehicle whose airflow      *)
(* follows its engine, in rounds of half a second or so.                   *)
(***************************************************************************)
EXTENDS TransitionMonitor

MCRpm == [off |-> 0, crank |-> 300, run |-> 840]
MCMaf == [off |-> 0, crank |-> 4, run |-> 12]
===============================================================================
