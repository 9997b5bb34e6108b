----------------------------- MODULE FrameValues -----------------------------
(***************************************************************************)
(* The values of a frame the diagnostics read (tools/vehicle_analysis/     *)
(* context.py): a number or Null, and the operating state they tell.       *)
(***************************************************************************)
EXTENDS RunningStats, OptionalValues

OperatingState(speed, rpm) ==
  IF speed = Null
  THEN IF rpm = Null THEN "unknown_context"
       ELSE IF rpm <= 1300 THEN "rpm_low_no_speed" ELSE "rpm_high_no_speed"
  ELSE IF speed > 3
  THEN IF speed < 35 THEN "low_speed_drive" ELSE IF speed < 90 THEN "road_speed_drive"
       ELSE "highway_speed_drive"
  ELSE IF rpm = Null THEN "stationary"
       ELSE IF rpm < 450 THEN "engine_off_stationary"
       ELSE IF rpm <= 1300 THEN "idle_stationary" ELSE "rev_stationary"
==============================================================================
