--------------------------- MODULE TelltaleLatch ---------------------------
(***************************************************************************)
(* What the warning latch promises (ARCHITECTURE.md, "Warning latch"),     *)
(* without frames, sockets or timers: the shown telltales are always ones  *)
(* the vehicle really reported, they freeze while the link is lost, and    *)
(* they follow the reports again once it is back.                          *)
(***************************************************************************)
CONSTANT Warnings

VARIABLES lost,       \* the display has no trustworthy data
          reported,   \* telltales of the last report the hub vouched for
          shown       \* telltales the display holds on to

latchVars == <<lost, reported, shown>>

Init == lost = TRUE /\ reported = {} /\ shown = {}

\* Reports and link changes come in any order; neither touches `shown`.
LinkOrReport ==
  /\ lost' \in BOOLEAN
  /\ reported' \in SUBSET Warnings
  /\ UNCHANGED shown

Follow ==
  /\ ~lost
  /\ shown' = reported
  /\ UNCHANGED <<lost, reported>>

Next == LinkOrReport \/ Follow

Spec == Init /\ [][Next]_latchVars /\ WF_latchVars(Follow)
=============================================================================
