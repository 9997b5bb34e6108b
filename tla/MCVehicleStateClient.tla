------------------------ MODULE MCVehicleStateClient ------------------------
(* Small instance of VehicleStateClient for TLC: one telltale, the frames   *)
(* that differ in what the client does with them, batches of at most two.   *)
EXTENDS VehicleStateClient, FiniteSets

CONSTANT oil

MCWarnings == {oil}

Frame(good, stale, warn, pose, fix) ==
  [good |-> good, stale |-> stale, warn |-> warn, pose |-> pose, fix |-> fix]

Healthy    == Frame(TRUE, FALSE, {}, TRUE, "yes")
OilLit     == Frame(TRUE, FALSE, {oil}, FALSE, "absent")  \* and no GPS
HubStale   == Frame(TRUE, TRUE, {}, TRUE, "no")           \* zeroed telltales
PartialOff == Frame(FALSE, FALSE, {}, FALSE, "absent")    \* not marked stale
PartialOn  == Frame(FALSE, TRUE, {oil}, TRUE, "yes")      \* no _health object

MCFrames == {Healthy, OilLit, HubStale, PartialOff, PartialOn}

FrameEvent(f) == [kind |-> "frame", frame |-> f]
Signal(k) == [kind |-> k]

\* One event, or a lit telltale followed in the same turn by a stale frame,
\* the peer's close or a protocol error (the decoder stops at the last two).
MCBatches ==
  {<<FrameEvent(f)>> : f \in MCFrames} \cup {<<Signal(k)>> : k \in Signals}
    \cup {<<FrameEvent(f), e>> : f \in {OilLit, PartialOn},
                                e \in {FrameEvent(HubStale), Signal("close"), Signal("bad")}}

MCReplayFrames == <<PartialOff, HubStale>>
=============================================================================
