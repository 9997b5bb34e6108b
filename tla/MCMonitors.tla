------------------------------ MODULE MCMonitors ------------------------------
(***************************************************************************)
(* The monitors that learn from the hub's frames, for model checking.      *)
(* They share no state, so a behaviour follows one of them, chosen at the  *)
(* start and with its own time; the other stays as it began.               *)
(***************************************************************************)
EXTENDS VehicleBaseline, MCTransitions

VARIABLE monitor      \* the one this behaviour follows

\* A car that is warm, one that is loaded besides, and one that is cold.
Driving(coolant, load) ==
  [coolant |-> coolant, rpm |-> 900, throttle |-> 20, intake |-> 30, load |-> load]
MCTargets == {30, 60, Null}
MCConditions == {Driving(90, Null), Driving(90, 20), Driving(20, Null)}

vars == <<monitor, baselineVars, transitionVars>>

Init == monitor \in {"baseline", "transitions"} /\ BaselineInit /\ TransitionInit

Next ==
  /\ UNCHANGED monitor
  /\ \/ monitor = "baseline" /\ BaselineNext /\ UNCHANGED transitionVars
     \/ monitor = "transitions" /\ TransitionNext /\ UNCHANGED baselineVars

Spec == Init /\ [][Next]_vars
===============================================================================
