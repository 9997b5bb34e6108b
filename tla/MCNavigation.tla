----------------------------- MODULE MCNavigation -----------------------------
(***************************************************************************)
(* The navigation service of the display and the hub's inputs, for model   *)
(* checking.  They share no state, so a behaviour follows one of them,     *)
(* chosen at the start; the other stays as it began.                       *)
(***************************************************************************)
EXTENDS NavigationService, HubInputs

VARIABLE part      \* the one this behaviour follows

partVars == <<part, vars, inputVars>>

PartInit ==
  /\ part \in {"navigation", "inputs"}
  /\ part # "inputs" => mode = "gps_first"
  /\ Init /\ InputsInit

PartNext ==
  /\ UNCHANGED part
  /\ \/ part = "navigation" /\ Next /\ UNCHANGED inputVars
     \/ part = "inputs" /\ InputsNext /\ UNCHANGED vars

PartSpec == PartInit /\ [][PartNext]_partVars
===============================================================================
