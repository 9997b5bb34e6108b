------------------------------ MODULE HubInputs ------------------------------
(***************************************************************************)
(* From the vehicle's inputs to one vehicle_state frame: the live CAN bus, *)
(* the serial (UNO) line, the NMEA receiver with its held fix, the overlay *)
(* that leaves out stale sources, and the choice of the speed source.      *)
(*                                                                         *)
(* Values are abstracted to where they come from and how old they are.     *)
(* One Tick is a round of broadcast_loop; the timeouts are in ticks, and   *)
(* an age is the number of rounds since the value arrived.  A port that    *)
(* fails and is reopened (the run loops) is silent in between: here, a     *)
(* source that sends nothing for a while.                                  *)
(***************************************************************************)
EXTENDS Naturals

CONSTANTS GpsStale,     \* GPS_STALE_MS
          SerialStale,  \* VEHICLE_INPUT_STALE_MS
          CanStale,     \* CAN_STALE_MS
          FixHold,      \* NmeaGpsState's fix_hold_seconds
          Lost, Regain  \* the selector's lost_s and regain_s

ASSUME InputsAssumption ==
  /\ GpsStale \in Nat /\ SerialStale \in Nat /\ CanStale \in Nat /\ FixHold \in Nat
  /\ Lost \in Nat /\ Regain \in Nat

VARIABLES
  mode,     \* VEHICLE_SPEED_SOURCE
  clients,  \* someone is connected, so frames are built
  can,      \* SocketCanSignalSource: [keys, age]
  serial,   \* SerialVehicleInputSource: [keys, age]
  gps,      \* NmeaGpsState and its source: [gga, ok, sample, age, validAge]
  sel,      \* SpeedSourceSelector: [active, goodFor, badFor]
  frame,    \* the frame this round sends: [from, stale, lamp, fixValid]
  hist      \* history: [steady, run], see Tick

inputVars == <<mode, clients, can, serial, gps, sel, frame, hist>>

MODES == {"gps_first", "pulse_only", "gps_only"}

\* What a source can say: a speed, and that a telltale is on or off.
Keys == {"speed", "lampOn", "lampOff"}
KeySets == {k \in SUBSET Keys : ~({"lampOn", "lampOff"} \subseteq k)}

\* An age saturates where nothing distinguishes it any more; a source that was
\* never heard has the saturated age.
Older(n, cap) == IF n < cap THEN n + 1 ELSE n
FixCap == FixHold + GpsStale + Lost + 3
RoundCap == Lost + Regain + 2

\* _good_since and _bad_since as rounds ago, counted from 1; 0 is None.
Ran(n, cap) == IF n = 0 THEN 0 ELSE Older(n, cap + 2)

InputsTypeOK ==
  /\ mode \in MODES /\ clients \in BOOLEAN
  /\ can \in [keys : KeySets, age : 0 .. CanStale + 1]
  /\ serial \in [keys : KeySets, age : 0 .. SerialStale + 1]
  /\ gps \in [gga : BOOLEAN, ok : BOOLEAN, sample : {"none", "live", "held", "invalid"},
              age : 0 .. GpsStale + 1, validAge : 0 .. FixCap]
  /\ sel \in [active : {"none", "gps", "pulse"}, goodFor : 0 .. Regain + 2, badFor : 0 .. Lost + 2]
  /\ sel.goodFor = 0 \/ sel.badFor = 0
  /\ frame \in [from : {"none", "gps", "pulse", "can"}, stale : BOOLEAN,
                lamp : BOOLEAN, fixValid : BOOLEAN]
  /\ hist \in [steady : 0 .. RoundCap, run : 0 .. RoundCap]

\* _build_empty_vehicle_state; also: no frame is on its way.
EmptyFrame == [from |-> "none", stale |-> TRUE, lamp |-> FALSE, fixValid |-> FALSE]

InputsInit ==
  /\ mode \in MODES /\ clients = FALSE
  /\ can = [keys |-> {}, age |-> CanStale + 1]
  /\ serial = [keys |-> {}, age |-> SerialStale + 1]
  /\ gps = [gga |-> FALSE, ok |-> FALSE, sample |-> "none", age |-> GpsStale + 1, validAge |-> FixCap]
  /\ sel = [active |-> "none", goodFor |-> 0, badFor |-> 0]
  /\ frame = EmptyFrame
  /\ hist = [steady |-> 0, run |-> 0]

-----------------------------------------------------------------------------
(* What arrives between two frames *)

\* A decoded CAN frame updates the signals it carries and leaves the others.
CanFrame ==
  /\ \/ can' = [keys |-> can.keys \cup {"speed"}, age |-> 0]
     \/ \E lamp \in {"lampOn", "lampOff"} :
          can' = [keys |-> (can.keys \ {"lampOn", "lampOff"}) \cup {lamp}, age |-> 0]
  /\ frame' = EmptyFrame
  /\ UNCHANGED <<mode, clients, serial, gps, sel, hist>>

\* A parsed line replaces the overlay; a line of raw readings only leaves it empty.
SerialLine ==
  /\ \E k \in KeySets : serial' = [keys |-> k, age |-> 0]
  /\ frame' = EmptyFrame
  /\ UNCHANGED <<mode, clients, can, gps, sel, hist>>

\* _build_sample, for a sentence that has just been received.
BuildSample(g) ==
  [g EXCEPT !.age = 0,
            !.validAge = IF g.ok THEN 0 ELSE @,
            !.sample = IF g.ok THEN "live" ELSE IF g.validAge <= FixHold THEN "held" ELSE "invalid"]

\* feed_line.  gps.ok is _raw_fix_valid: the GGA's word once one was heard, the
\* RMC status before.
FeedLine ==
  /\ \E good \in BOOLEAN :
       \/ gps' = BuildSample(IF gps.gga THEN gps ELSE [gps EXCEPT !.ok = good])          \* RMC
       \/ gps' = BuildSample([gps EXCEPT !.gga = TRUE, !.ok = good])                     \* GGA
  /\ frame' = EmptyFrame
  /\ UNCHANGED <<mode, clients, can, serial, sel, hist>>

ClientsChange ==
  /\ clients' = ~clients /\ frame' = EmptyFrame
  /\ UNCHANGED <<mode, can, serial, gps, sel, hist>>

-----------------------------------------------------------------------------
(* next_state, over the inputs c, s and g as old as they are in this round *)

LiveFix(g) == g.sample = "live" /\ g.age <= GpsStale
FixValid(g) == g.sample \in {"live", "held"} /\ g.age <= GpsStale
Overlay(s) == IF s.age <= SerialStale THEN s.keys ELSE {}
CanFresh(c) == c.age <= CanStale
PulseOk(s) == "speed" \in Overlay(s)
CanSpeed(c, s) == CanFresh(c) /\ "speed" \in c.keys /\ ~PulseOk(s)

\* Mutant: the wait for a regained fix is dropped.
GpsRegained_atOnce(t) == TRUE

GpsRegained(t) == t.goodFor > Regain

\* Mutant: the clock of the lost fix restarts with every round.
StillHeld_restart(t) == t.badFor > 0

StillHeld(t) == t.badFor > 0 /\ t.badFor - 1 < Lost

\* _decide, after goodFor and badFor were updated for this round.
Decide(t, valid, pulse) ==
  LET fallback == IF pulse THEN "pulse" ELSE "none"
  IN CASE mode = "pulse_only" -> fallback
       [] mode = "gps_only"   -> IF valid THEN "gps" ELSE "none"
       [] OTHER ->
            IF valid THEN IF t.active = "pulse" /\ ~GpsRegained(t) /\ pulse THEN "pulse" ELSE "gps"
            ELSE IF t.active = "gps" /\ StillHeld(t) THEN "gps" ELSE fallback

\* select: the first valid (invalid) round starts the good (bad) clock.
Select(t, valid, pulse) ==
  LET u == [t EXCEPT !.goodFor = IF ~valid THEN 0 ELSE IF @ = 0 THEN 1 ELSE @,
                     !.badFor  = IF valid THEN 0 ELSE IF @ = 0 THEN 1 ELSE @]
  IN [u EXCEPT !.active = Decide(u, valid, pulse)]

\* The serial overlay is merged over the CAN signals.
Lamp(c, s) ==
  \/ "lampOn" \in Overlay(s)
  \/ "lampOff" \notin Overlay(s) /\ CanFresh(c) /\ "lampOn" \in c.keys

\* Some source that is not stale contributes at least one value.
HasSource(c, s) == CanFresh(c) \/ Overlay(s) # {}

\* A round: time has passed, and with a client connected a frame is built.
\* History: steady counts the rounds in a row that ran the selector, run those
\* of them that saw a live fix.
Tick ==
  LET c == [can EXCEPT !.age = Older(@, CanStale + 1)]
      s == [serial EXCEPT !.age = Older(@, SerialStale + 1)]
      g == [gps EXCEPT !.age = Older(@, GpsStale + 1), !.validAge = Older(@, FixCap)]
      t == [sel EXCEPT !.goodFor = Ran(@, Regain), !.badFor = Ran(@, Lost)]
      selects == clients /\ ~CanSpeed(c, s)
  IN /\ can' = c /\ serial' = s /\ gps' = g
     /\ sel' = IF selects THEN Select(t, LiveFix(g), PulseOk(s)) ELSE t
     /\ frame' = IF ~clients THEN EmptyFrame
                 ELSE [from     |-> IF CanSpeed(c, s) THEN "can" ELSE sel'.active,
                       stale    |-> ~HasSource(c, s),
                       lamp     |-> Lamp(c, s),
                       fixValid |-> FixValid(g)]
     /\ hist' = [steady |-> IF selects THEN Older(hist.steady, RoundCap) ELSE 0,
                 run    |-> IF selects /\ LiveFix(g) THEN Older(hist.run, RoundCap) ELSE 0]
     /\ UNCHANGED <<mode, clients>>

InputsNext == CanFrame \/ SerialLine \/ FeedLine \/ ClientsChange \/ Tick

InputsSpec == InputsInit /\ [][InputsNext]_inputVars

-----------------------------------------------------------------------------
(***************************************************************************)
(* A frame that the client must not trust carries no telltale and no speed *)
(* but GPS's: nothing of a stale source is left in it.  (The client relies *)
(* on it when it freezes its latch.)                                       *)
(***************************************************************************)
StaleFramesAreZeroed == frame.stale => ~frame.lamp /\ frame.from \notin {"pulse", "can"}

(***************************************************************************)
(* A position shown as a valid fix is never older than the hold plus the   *)
(* receiver's own stale time, however long invalid sentences keep coming.  *)
(***************************************************************************)
FixHoldBounded == frame.fixValid => gps.validAge <= FixHold + GpsStale + 1

(***************************************************************************)
(* While the selector runs round after round, a speed from GPS is given up *)
(* lost_s after the fix was last seen live (speed_source's hysteresis).    *)
(***************************************************************************)
SpeedHoldBounded ==
  frame.from = "gps" /\ hist.steady > Lost + 1 => gps.validAge <= GpsStale + Lost + 1

(***************************************************************************)
(* Both holds end, whatever comes in between: that of a position shown as  *)
(* valid, with the receiver's own stale time, and that of a speed from GPS *)
(* (_build_gps_sample in gps_nmea.py, SpeedSourceSelector).                *)
(***************************************************************************)
HoldsAreBounded == FixHoldBounded /\ SpeedHoldBounded

(***************************************************************************)
(* Back from the pulse speed to GPS only after regain_s of live fixes in   *)
(* every round, as long as there is a pulse to stay with.                  *)
(***************************************************************************)
RegainIsSustained ==
  [][sel.active = "pulse" /\ sel'.active = "gps" /\ PulseOk(serial') /\ hist'.steady > Regain + 1
       => hist'.run > Regain]_inputVars
=============================================================================
