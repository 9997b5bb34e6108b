----------------------------- MODULE MCVehicleHub -----------------------------
(***************************************************************************)
(* The hub's process, the CAN diagnostics and the fault recorder in it,    *)
(* and the GPS clock helper beside it, for model checking.  None shares    *)
(* state with another, so a behaviour follows one of them, chosen at the   *)
(* start and with its own time; the others stay as they began.             *)
(***************************************************************************)
EXTENDS VehicleHub, CanDiagnostics, FaultRecorder, GpsClock

VARIABLE part      \* the one this behaviour follows

hubVars == <<part, vars, canVars, recorderVars, clockVars>>

MCSignal == [idle |-> 0, go |-> 800]

OnlyMoves(name) ==
  /\ part = name /\ UNCHANGED part
  /\ name # "process"  => UNCHANGED vars
  /\ name # "can"      => UNCHANGED canVars
  /\ name # "recorder" => UNCHANGED recorderVars
  /\ name # "clock"    => UNCHANGED clockVars

\* Where nothing is to be told of them, the disk is full and the clock is right.
HubInit ==
  /\ part \in {"process", "can", "recorder", "clock"}
  /\ part # "recorder" => medium = "full"
  /\ part # "clock" => off = 0
  /\ Init /\ CanInit /\ RecorderInit /\ ClockInit

HubNext ==
  \/ OnlyMoves("process") /\ Next
  \/ OnlyMoves("can") /\ CanNext
  \/ OnlyMoves("recorder") /\ RecorderNext
  \/ OnlyMoves("clock") /\ ClockNext

\* The fairness of each in the behaviours that follow it; on the bus, time goes
\* on and a sender that is on sends.  A behaviour follows one part, so fairness
\* for an action of the process and for one of the recorder is one formula (TLC's
\* work doubles with every strong one).
Strong(f) ==
  \/ OnlyMoves("recorder") /\ Observe(f)
  \/ OnlyMoves("process") /\ \/ f = 1 /\ SendResumes
                             \/ f = 2 /\ BroadcastRound
                             \/ f = 3 /\ WatchdogTurn

TimeGoesOn ==
  (OnlyMoves("process") /\ Tick) \/ (OnlyMoves("recorder") /\ TimePasses)

HubFairness ==
  /\ \A f \in 1..3 : SF_hubVars(Strong(f))
  /\ SF_hubVars(TimeGoesOn)
  /\ WF_hubVars(OnlyMoves("process") /\ IteratorFails)
  /\ WF_hubVars(OnlyMoves("process") /\ RoundEnds)
  /\ \A c \in Clients : /\ WF_hubVars(OnlyMoves("process") /\ SendNext(c))
                        /\ WF_hubVars(OnlyMoves("process") /\ HandlerExits(c))
                        /\ WF_hubVars(OnlyMoves("process") /\ CloseCompletes(c))
  /\ WF_hubVars(OnlyMoves("process") /\ MainExits)
  /\ WF_hubVars(OnlyMoves("process") /\ WatchdogKills)
  /\ WF_hubVars(OnlyMoves("process") /\ SystemdRestarts)
  /\ WF_hubVars(OnlyMoves("can") /\ CanProgress)
  /\ WF_hubVars(OnlyMoves("recorder") /\ WriteTmp)
  /\ WF_hubVars(OnlyMoves("recorder") /\ Replace)
  /\ WF_hubVars(OnlyMoves("recorder") /\ Finish)
  /\ WF_hubVars(OnlyMoves("clock") /\ ClockTick)
  /\ WF_hubVars(OnlyMoves("clock") /\ Good)

HubSpec == HubInit /\ [][HubNext]_hubVars /\ HubFairness
===============================================================================
