--------------------------- MODULE HubInputs_proofs ---------------------------
(***************************************************************************)
(* What a frame may show of the inputs, for any timeouts.  InputsInv ties  *)
(* the receiver's two ages to each other, and the selector's two clocks to *)
(* the rounds it has run without a break.  Then the clock helper, which    *)
(* sets the system clock from those frames: its safety for every count of  *)
(* frames, recheck, cooldown, bound on errors and number of faults.  Last  *)
(* the replay that stands in for the CAN bus: what it shows of any log, and *)
(* that a signal is the piece of the payload it is declared to be.         *)
(***************************************************************************)
EXTENDS HubInputs, GpsClock, SignalDecoder, FoldFacts, TLAPS

\* A sample that is shown was built from a fix no older than the hold; a live one
\* from a fix of its own age.
SampleIsRecent ==
  gps.age <= GpsStale =>
    /\ gps.sample = "live" => gps.validAge <= gps.age
    /\ gps.sample \in {"live", "held"} => gps.validAge <= FixHold + gps.age

\* What the good and the bad clock say of the rounds the selector ran in a row.
ClocksAreTrue ==
  /\ hist.steady > 0 => sel.goodFor > 0 \/ sel.badFor > 0
  /\ hist.steady > 0 /\ sel.goodFor > 0 => gps.validAge <= GpsStale
  /\ sel.badFor > 0 /\ sel.badFor <= Lost /\ hist.steady > sel.badFor => gps.validAge <= GpsStale + sel.badFor
  /\ sel.goodFor > 0 => hist.run >= sel.goodFor \/ hist.run >= hist.steady
  /\ mode = "gps_only" => sel.active # "pulse"

InputsInv ==
  /\ InputsTypeOK /\ SampleIsRecent /\ ClocksAreTrue
  /\ StaleFramesAreZeroed /\ FixHoldBounded /\ SpeedHoldBounded

LEMMA CapsAreNat == GpsStale + 1 \in Nat /\ SerialStale + 1 \in Nat /\ CanStale + 1 \in Nat
                    /\ FixCap \in Nat /\ RoundCap \in Nat /\ Lost + 2 \in Nat /\ Regain + 2 \in Nat
  BY InputsAssumption DEF FixCap, RoundCap

LEMMA EmptyIsHarmless == EmptyFrame \in [from : {"none", "gps", "pulse", "can"}, stale : BOOLEAN,
                                         lamp : BOOLEAN, fixValid : BOOLEAN]
                         /\ EmptyFrame.from = "none" /\ EmptyFrame.lamp = FALSE
                         /\ EmptyFrame.fixValid = FALSE
  BY DEF EmptyFrame

LEMMA InitHolds == InputsInit => InputsInv
<1> SUFFICES ASSUME InputsInit PROVE InputsInv
  OBVIOUS
<1>1. {} \in KeySets
  BY DEF KeySets, Keys
<1>2. InputsTypeOK
  <2>1. can \in [keys : KeySets, age : 0 .. CanStale + 1]
        /\ serial \in [keys : KeySets, age : 0 .. SerialStale + 1]
    BY <1>1, CapsAreNat DEF InputsInit
  <2>2. gps \in [gga : BOOLEAN, ok : BOOLEAN, sample : {"none", "live", "held", "invalid"},
                 age : 0 .. GpsStale + 1, validAge : 0 .. FixCap]
    BY CapsAreNat DEF InputsInit
  <2>3. sel \in [active : {"none", "gps", "pulse"}, goodFor : 0 .. Regain + 2, badFor : 0 .. Lost + 2]
        /\ sel.goodFor = 0 /\ hist \in [steady : 0 .. RoundCap, run : 0 .. RoundCap]
    BY CapsAreNat DEF InputsInit
  <2> QED BY <2>1, <2>2, <2>3, EmptyIsHarmless DEF InputsInit, InputsTypeOK
<1>3. SampleIsRecent /\ ClocksAreTrue
  BY InputsAssumption DEF InputsInit, SampleIsRecent, ClocksAreTrue
<1>4. StaleFramesAreZeroed /\ FixHoldBounded /\ SpeedHoldBounded
  BY EmptyIsHarmless DEF InputsInit, StaleFramesAreZeroed, FixHoldBounded, SpeedHoldBounded
<1> QED BY <1>2, <1>3, <1>4 DEF InputsInv

\* What arrives between two frames leaves the selector alone.
LEMMA CanFrameKeeps == ASSUME InputsInv, CanFrame PROVE InputsInv'
<1>1. can' \in [keys : KeySets, age : 0 .. CanStale + 1]
  <2>1. 0 \in 0 .. CanStale + 1
    BY CapsAreNat
  <2>2. can.keys \in KeySets
    BY DEF InputsInv, InputsTypeOK
  <2>3. can.keys \cup {"speed"} \in KeySets
    BY <2>2 DEF KeySets, Keys
  <2>4. \A lamp \in {"lampOn", "lampOff"} : (can.keys \ {"lampOn", "lampOff"}) \cup {lamp} \in KeySets
    BY <2>2 DEF KeySets, Keys
  <2> QED BY <2>1, <2>3, <2>4 DEF CanFrame
<1>2. frame' = EmptyFrame /\ UNCHANGED <<mode, clients, serial, gps, sel, hist>>
  BY DEF CanFrame
<1>3. InputsTypeOK'
  BY <1>1, <1>2, EmptyIsHarmless DEF InputsInv, InputsTypeOK
<1>4. SampleIsRecent' /\ ClocksAreTrue'
  BY <1>2 DEF InputsInv, SampleIsRecent, ClocksAreTrue
<1>5. StaleFramesAreZeroed' /\ FixHoldBounded' /\ SpeedHoldBounded'
  BY <1>2, EmptyIsHarmless DEF StaleFramesAreZeroed, FixHoldBounded, SpeedHoldBounded
<1> QED BY <1>3, <1>4, <1>5 DEF InputsInv

LEMMA SerialLineKeeps == ASSUME InputsInv, SerialLine PROVE InputsInv'
<1>1. serial' \in [keys : KeySets, age : 0 .. SerialStale + 1]
  <2>1. 0 \in 0 .. SerialStale + 1
    BY CapsAreNat
  <2> QED BY <2>1 DEF SerialLine
<1>2. frame' = EmptyFrame /\ UNCHANGED <<mode, clients, can, gps, sel, hist>>
  BY DEF SerialLine
<1>3. InputsTypeOK'
  BY <1>1, <1>2, EmptyIsHarmless DEF InputsInv, InputsTypeOK
<1>4. SampleIsRecent' /\ ClocksAreTrue'
  BY <1>2 DEF InputsInv, SampleIsRecent, ClocksAreTrue
<1>5. StaleFramesAreZeroed' /\ FixHoldBounded' /\ SpeedHoldBounded'
  BY <1>2, EmptyIsHarmless DEF StaleFramesAreZeroed, FixHoldBounded, SpeedHoldBounded
<1> QED BY <1>3, <1>4, <1>5 DEF InputsInv

LEMMA ClientsChangeKeeps == ASSUME InputsInv, ClientsChange PROVE InputsInv'
<1>1. frame' = EmptyFrame /\ clients' \in BOOLEAN /\ UNCHANGED <<mode, can, serial, gps, sel, hist>>
  BY DEF ClientsChange, InputsInv, InputsTypeOK
<1>2. InputsTypeOK'
  BY <1>1, EmptyIsHarmless DEF InputsInv, InputsTypeOK
<1>3. SampleIsRecent' /\ ClocksAreTrue'
  BY <1>1 DEF InputsInv, SampleIsRecent, ClocksAreTrue
<1>4. StaleFramesAreZeroed' /\ FixHoldBounded' /\ SpeedHoldBounded'
  BY <1>1, EmptyIsHarmless DEF StaleFramesAreZeroed, FixHoldBounded, SpeedHoldBounded
<1> QED BY <1>2, <1>3, <1>4 DEF InputsInv

\* The receiver's state, of any age.
GpsType == [gga : BOOLEAN, ok : BOOLEAN, sample : {"none", "live", "held", "invalid"},
            age : 0 .. GpsStale + 1, validAge : 0 .. FixCap]

\* A sentence is as new as it can be, and never makes the last valid fix older.
LEMMA BuiltSample ==
  ASSUME NEW g \in GpsType
  PROVE  LET b == BuildSample(g)
         IN /\ b \in GpsType /\ b.age = 0 /\ b.validAge <= g.validAge
            /\ b.sample = "live" => b.validAge = 0
            /\ b.sample = "held" => b.validAge <= FixHold
<1> DEFINE v == IF g.ok THEN 0 ELSE g.validAge
           s == IF g.ok THEN "live" ELSE IF g.validAge <= FixHold THEN "held" ELSE "invalid"
<1>1. v \in 0 .. FixCap /\ v <= g.validAge /\ s \in {"none", "live", "held", "invalid"}
  BY CapsAreNat DEF GpsType
<1>2. (s = "live" => v = 0) /\ (s = "held" => v <= FixHold)
  OBVIOUS
<1>3. BuildSample(g) = [[[g EXCEPT !.age = 0] EXCEPT !.validAge = v] EXCEPT !.sample = s]
  BY DEF BuildSample, GpsType
<1>4. 0 \in 0 .. GpsStale + 1
  BY CapsAreNat
<1> HIDE DEF v, s
<1> QED BY <1>1, <1>2, <1>3, <1>4 DEF GpsType

LEMMA FeedLineKeeps == ASSUME InputsInv, FeedLine PROVE InputsInv'
<1>1. gps \in GpsType
  BY DEF InputsInv, InputsTypeOK, GpsType
<1>2. PICK g \in GpsType : gps' = BuildSample(g) /\ g.validAge = gps.validAge
  <2>1. PICK good \in BOOLEAN :
          \/ gps' = BuildSample(IF gps.gga THEN gps ELSE [gps EXCEPT !.ok = good])
          \/ gps' = BuildSample([gps EXCEPT !.gga = TRUE, !.ok = good])
    BY DEF FeedLine
  <2>2. [gps EXCEPT !.ok = good] \in GpsType /\ [gps EXCEPT !.ok = good].validAge = gps.validAge
    BY <1>1 DEF GpsType
  <2>3. [gps EXCEPT !.gga = TRUE, !.ok = good] \in GpsType
        /\ [gps EXCEPT !.gga = TRUE, !.ok = good].validAge = gps.validAge
    BY <1>1 DEF GpsType
  <2> QED BY <1>1, <2>1, <2>2, <2>3
<1>3. /\ gps' \in GpsType /\ gps'.age = 0 /\ gps'.validAge <= gps.validAge
      /\ gps'.sample = "live" => gps'.validAge = 0
      /\ gps'.sample = "held" => gps'.validAge <= FixHold
  BY <1>2, BuiltSample
<1>4. frame' = EmptyFrame /\ UNCHANGED <<mode, clients, can, serial, sel, hist>>
  BY DEF FeedLine
<1>5. InputsTypeOK'
  BY <1>3, <1>4, EmptyIsHarmless DEF InputsInv, InputsTypeOK, GpsType
<1>6. SampleIsRecent'
  BY <1>3, InputsAssumption DEF SampleIsRecent, GpsType
<1>7. ClocksAreTrue'
  <2>1. gps.validAge \in Nat /\ gps'.validAge \in Nat /\ sel.badFor \in Nat
    BY <1>1, <1>3, CapsAreNat DEF GpsType, InputsInv, InputsTypeOK
  <2> QED BY <1>3, <1>4, <2>1, InputsAssumption DEF InputsInv, ClocksAreTrue
<1>8. StaleFramesAreZeroed' /\ FixHoldBounded' /\ SpeedHoldBounded'
  BY <1>4, EmptyIsHarmless DEF StaleFramesAreZeroed, FixHoldBounded, SpeedHoldBounded
<1> QED BY <1>5, <1>6, <1>7, <1>8 DEF InputsInv

-----------------------------------------------------------------------------
(* The round *)

\* The selector's state.
SelType == [active : {"none", "gps", "pulse"}, goodFor : 0 .. Regain + 2, badFor : 0 .. Lost + 2]

LEMMA Ages ==
  ASSUME NEW cap \in Nat, NEW n \in 0 .. cap
  PROVE  Older(n, cap) \in 0 .. cap /\ Older(n, cap) <= n + 1 /\ (n < cap => Older(n, cap) = n + 1)
         /\ Older(n, cap) >= n
  BY DEF Older

LEMMA Rounds ==
  ASSUME NEW cap \in Nat, NEW n \in 0 .. cap + 2
  PROVE  /\ Ran(n, cap) \in 0 .. cap + 2 /\ (n = 0 <=> Ran(n, cap) = 0)
         /\ n > 0 /\ n < cap + 2 => Ran(n, cap) = n + 1
         /\ n = cap + 2 => Ran(n, cap) = n
  BY DEF Ran, Older

\* What a speed source stands for once it is chosen.
LEMMA Decided ==
  ASSUME NEW t \in SelType, NEW valid \in BOOLEAN, NEW pulse \in BOOLEAN, mode \in MODES
  PROVE  /\ Decide(t, valid, pulse) \in {"none", "gps", "pulse"}
         /\ Decide(t, valid, pulse) = "pulse" => pulse /\ mode # "gps_only"
         /\ Decide(t, valid, pulse) = "gps" => valid \/ (t.active = "gps" /\ StillHeld(t))
         /\ t.active = "pulse" /\ Decide(t, valid, pulse) = "gps" /\ pulse /\ mode # "gps_only" => GpsRegained(t)
<1>1. CASE mode = "pulse_only"
  BY <1>1 DEF Decide
<1>2. CASE mode = "gps_only"
  BY <1>2 DEF Decide
<1>3. CASE mode = "gps_first"
  BY <1>3 DEF Decide
<1> QED BY <1>1, <1>2, <1>3 DEF MODES

\* The clocks after a round of select, and its choice.
LEMMA Selected ==
  ASSUME NEW t \in SelType, NEW valid \in BOOLEAN, NEW pulse \in BOOLEAN, mode \in MODES
  PROVE  LET w == Select(t, valid, pulse)
         IN /\ w \in SelType
            /\ valid => w.badFor = 0 /\ w.goodFor = IF t.goodFor = 0 THEN 1 ELSE t.goodFor
            /\ ~valid => w.goodFor = 0 /\ w.badFor = IF t.badFor = 0 THEN 1 ELSE t.badFor
            /\ w.active = "pulse" => pulse /\ mode # "gps_only"
            /\ w.active = "gps" => valid \/ (w.badFor > 0 /\ w.badFor <= Lost)
            /\ t.active = "pulse" /\ w.active = "gps" /\ pulse /\ mode # "gps_only" => valid /\ w.goodFor > Regain
<1> DEFINE good == IF ~valid THEN 0 ELSE IF t.goodFor = 0 THEN 1 ELSE t.goodFor
           bad  == IF valid THEN 0 ELSE IF t.badFor = 0 THEN 1 ELSE t.badFor
           u    == [[t EXCEPT !.goodFor = good] EXCEPT !.badFor = bad]
           choice == Decide(u, valid, pulse)
<1>1. good \in 0 .. Regain + 2 /\ bad \in 0 .. Lost + 2
  BY InputsAssumption DEF SelType
<1>2. /\ valid => bad = 0 /\ good = IF t.goodFor = 0 THEN 1 ELSE t.goodFor
      /\ ~valid => good = 0 /\ bad = IF t.badFor = 0 THEN 1 ELSE t.badFor
  OBVIOUS
<1>3. Select(t, valid, pulse) = [u EXCEPT !.active = choice]
  BY DEF Select, SelType
<1> HIDE DEF good, bad
<1>4. u \in SelType /\ u.active = t.active /\ u.goodFor = good /\ u.badFor = bad
  BY <1>1 DEF SelType
<1> HIDE DEF u
<1>5. /\ choice \in {"none", "gps", "pulse"}
      /\ choice = "pulse" => pulse /\ mode # "gps_only"
      /\ choice = "gps" => valid \/ (t.active = "gps" /\ StillHeld(u))
      /\ t.active = "pulse" /\ choice = "gps" /\ pulse /\ mode # "gps_only" => GpsRegained(u)
  BY <1>4, Decided
<1>6. StillHeld(u) => bad > 0 /\ bad <= Lost
  BY <1>1, <1>4, InputsAssumption DEF StillHeld
<1>7. GpsRegained(u) => good > Regain
  BY <1>4 DEF GpsRegained
<1> HIDE DEF choice
<1>8. [u EXCEPT !.active = choice] \in SelType /\ [u EXCEPT !.active = choice].active = choice
      /\ [u EXCEPT !.active = choice].goodFor = good /\ [u EXCEPT !.active = choice].badFor = bad
  BY <1>4, <1>5 DEF SelType
<1>9. choice = "gps" /\ t.active = "pulse" => valid
  BY <1>5
<1> QED BY <1>2, <1>3, <1>5, <1>6, <1>7, <1>8, <1>9

LEMMA TickKeeps ==
  ASSUME InputsInv, Tick
  PROVE  InputsInv' /\ (sel.active = "pulse" /\ sel'.active = "gps" /\ PulseOk(serial')
                          /\ hist'.steady > Regain + 1 => hist'.run > Regain)
<1> DEFINE selects == clients /\ ~CanSpeed(can', serial')
           aged == [[sel EXCEPT !.goodFor = Ran(sel.goodFor, Regain)]
                         EXCEPT !.badFor = Ran(sel.badFor, Lost)]
           valid == LiveFix(gps')
           pulse == PulseOk(serial')
<1>1. mode \in MODES /\ clients \in BOOLEAN
      /\ can.keys \in KeySets /\ can.age \in 0 .. CanStale + 1
      /\ serial.keys \in KeySets /\ serial.age \in 0 .. SerialStale + 1
      /\ gps \in GpsType /\ sel \in SelType /\ (sel.goodFor = 0 \/ sel.badFor = 0)
      /\ hist.steady \in 0 .. RoundCap /\ hist.run \in 0 .. RoundCap
  BY DEF InputsInv, InputsTypeOK, GpsType, SelType
<1>2. can' \in [keys : KeySets, age : 0 .. CanStale + 1]
  <2>1. Older(can.age, CanStale + 1) \in 0 .. CanStale + 1
    BY <1>1, CapsAreNat, Ages
  <2>2. can \in [keys : KeySets, age : 0 .. CanStale + 1]
    BY DEF InputsInv, InputsTypeOK
  <2>3. can' = [can EXCEPT !.age = Older(can.age, CanStale + 1)]
    BY DEF Tick
  <2> QED BY <2>1, <2>2, <2>3
<1>3. serial' \in [keys : KeySets, age : 0 .. SerialStale + 1]
  <2>1. Older(serial.age, SerialStale + 1) \in 0 .. SerialStale + 1
    BY <1>1, CapsAreNat, Ages
  <2>2. serial \in [keys : KeySets, age : 0 .. SerialStale + 1]
    BY DEF InputsInv, InputsTypeOK
  <2>3. serial' = [serial EXCEPT !.age = Older(serial.age, SerialStale + 1)]
    BY DEF Tick
  <2> QED BY <2>1, <2>2, <2>3
<1>4. /\ gps' \in GpsType /\ gps'.sample = gps.sample
      /\ gps'.age <= gps.age + 1 /\ gps'.age >= gps.age /\ (gps.age <= GpsStale => gps'.age = gps.age + 1)
      /\ gps'.validAge <= gps.validAge + 1
  <2> DEFINE a == Older(gps.age, GpsStale + 1)
             b == Older(gps.validAge, FixCap)
  <2>1. gps.age \in 0 .. GpsStale + 1 /\ gps.validAge \in 0 .. FixCap
    BY <1>1 DEF GpsType
  <2>2. a \in 0 .. GpsStale + 1 /\ a <= gps.age + 1 /\ a >= gps.age /\ (gps.age < GpsStale + 1 => a = gps.age + 1)
    BY <2>1, CapsAreNat, Ages
  <2>3. b \in 0 .. FixCap /\ b <= gps.validAge + 1
    BY <2>1, CapsAreNat, Ages
  <2>4. gps' = [[gps EXCEPT !.age = a] EXCEPT !.validAge = b]
    BY <1>1 DEF Tick, GpsType
  <2> HIDE DEF a, b
  <2>5. gps' \in GpsType /\ gps'.sample = gps.sample /\ gps'.age = a /\ gps'.validAge = b
    BY <1>1, <2>2, <2>3, <2>4 DEF GpsType
  <2> QED BY <2>1, <2>2, <2>3, <2>5, InputsAssumption
<1>5. SampleIsRecent'
  <2>1. gps.age \in Nat /\ gps.validAge \in Nat /\ gps'.age \in Nat /\ gps'.validAge \in Nat
    BY <1>1, <1>4, CapsAreNat DEF GpsType
  <2> QED BY <1>4, <2>1, InputsAssumption DEF InputsInv, SampleIsRecent
<1>6. valid => gps'.validAge <= GpsStale
  <2>1. gps'.age \in Nat /\ gps'.validAge \in Nat
    BY <1>4, CapsAreNat DEF GpsType
  <2> QED BY <1>5, <2>1, InputsAssumption DEF SampleIsRecent, LiveFix
<1>7. FixValid(gps') => gps'.validAge <= FixHold + GpsStale
  <2>1. gps'.age \in Nat /\ gps'.validAge \in Nat
    BY <1>4, CapsAreNat DEF GpsType
  <2> QED BY <1>5, <2>1, InputsAssumption DEF SampleIsRecent, FixValid
<1>8. valid \in BOOLEAN /\ pulse \in BOOLEAN /\ selects \in BOOLEAN
  BY <1>1 DEF LiveFix, PulseOk, CanSpeed, CanFresh
<1>9. /\ aged \in SelType /\ aged.active = sel.active
      /\ aged.goodFor = Ran(sel.goodFor, Regain) /\ aged.badFor = Ran(sel.badFor, Lost)
  <2> DEFINE a == Ran(sel.goodFor, Regain)
             b == Ran(sel.badFor, Lost)
  <2>1. a \in 0 .. Regain + 2 /\ b \in 0 .. Lost + 2
    BY <1>1, Rounds, InputsAssumption DEF SelType
  <2>2. aged = [[sel EXCEPT !.goodFor = a] EXCEPT !.badFor = b]
    OBVIOUS
  <2> HIDE DEF a, b, aged
  <2>3. aged \in SelType /\ aged.active = sel.active /\ aged.goodFor = a /\ aged.badFor = b
    BY <1>1, <2>1, <2>2 DEF SelType
  <2> QED BY <2>3 DEF a, b
<1>10. sel' = IF selects THEN Select(aged, valid, pulse) ELSE aged
  <2>1. aged = [sel EXCEPT !.goodFor = Ran(@, Regain), !.badFor = Ran(@, Lost)]
    BY <1>1 DEF SelType
  <2> QED BY <2>1 DEF Tick
<1>11. /\ hist'.steady = IF selects THEN Older(hist.steady, RoundCap) ELSE 0
       /\ hist'.run = IF selects /\ valid THEN Older(hist.run, RoundCap) ELSE 0
       /\ hist' \in [steady : 0 .. RoundCap, run : 0 .. RoundCap]
  <2>1. Older(hist.steady, RoundCap) \in 0 .. RoundCap /\ Older(hist.run, RoundCap) \in 0 .. RoundCap /\ 0 \in 0 .. RoundCap
    BY <1>1, CapsAreNat DEF Older
  <2>2. hist' = [steady |-> IF selects THEN Older(hist.steady, RoundCap) ELSE 0,
                 run    |-> IF selects /\ valid THEN Older(hist.run, RoundCap) ELSE 0]
    BY DEF Tick
  <2> HIDE DEF selects, valid
  <2> QED BY <2>1, <2>2
<1>12. /\ ~clients => frame' = EmptyFrame
       /\ clients => frame' = [from     |-> IF CanSpeed(can', serial') THEN "can" ELSE sel'.active,
                               stale    |-> ~HasSource(can', serial'),
                               lamp     |-> Lamp(can', serial'),
                               fixValid |-> FixValid(gps')]
       /\ UNCHANGED <<mode, clients>>
  BY DEF Tick
<1> HIDE DEF aged, valid, pulse
<1>13. selects =>
          /\ sel' \in SelType
          /\ valid => sel'.badFor = 0 /\ sel'.goodFor = IF aged.goodFor = 0 THEN 1 ELSE aged.goodFor
          /\ ~valid => sel'.goodFor = 0 /\ sel'.badFor = IF aged.badFor = 0 THEN 1 ELSE aged.badFor
          /\ sel'.active = "pulse" => pulse /\ mode # "gps_only"
          /\ sel'.active = "gps" => valid \/ (sel'.badFor > 0 /\ sel'.badFor <= Lost)
          /\ sel.active = "pulse" /\ sel'.active = "gps" /\ pulse /\ mode # "gps_only" => valid /\ sel'.goodFor > Regain
  <2> HIDE DEF selects
  <2> SUFFICES ASSUME selects PROVE
        /\ sel' \in SelType
        /\ valid => sel'.badFor = 0 /\ sel'.goodFor = IF aged.goodFor = 0 THEN 1 ELSE aged.goodFor
        /\ ~valid => sel'.goodFor = 0 /\ sel'.badFor = IF aged.badFor = 0 THEN 1 ELSE aged.badFor
        /\ sel'.active = "pulse" => pulse /\ mode # "gps_only"
        /\ sel'.active = "gps" => valid \/ (sel'.badFor > 0 /\ sel'.badFor <= Lost)
        /\ sel.active = "pulse" /\ sel'.active = "gps" /\ pulse /\ mode # "gps_only" => valid /\ sel'.goodFor > Regain
    OBVIOUS
  <2> DEFINE w == Select(aged, valid, pulse)
  <2>1. sel' = w
    BY <1>10
  <2>2. aged \in SelType /\ aged.active = sel.active /\ valid \in BOOLEAN /\ pulse \in BOOLEAN /\ mode \in MODES
    BY <1>1, <1>8, <1>9
  <2>3. /\ w \in SelType
        /\ valid => w.badFor = 0 /\ w.goodFor = IF aged.goodFor = 0 THEN 1 ELSE aged.goodFor
        /\ ~valid => w.goodFor = 0 /\ w.badFor = IF aged.badFor = 0 THEN 1 ELSE aged.badFor
        /\ w.active = "pulse" => pulse /\ mode # "gps_only"
        /\ w.active = "gps" => valid \/ (w.badFor > 0 /\ w.badFor <= Lost)
        /\ aged.active = "pulse" /\ w.active = "gps" /\ pulse /\ mode # "gps_only" => valid /\ w.goodFor > Regain
    BY <2>2, Selected, ZenonT(40)
  <2> HIDE DEF w
  <2> QED BY <2>1, <2>2, <2>3
<1>14. ~selects => sel' = aged /\ hist'.steady = 0 /\ hist'.run = 0
  BY <1>10, <1>11
<1>15. sel' \in SelType /\ (sel'.goodFor = 0 \/ sel'.badFor = 0)
  <2>1. CASE selects
    BY <2>1, <1>8, <1>13
  <2>2. CASE ~selects
    <3>1. aged.goodFor = 0 \/ aged.badFor = 0
      BY <1>1, <1>9, Rounds, InputsAssumption DEF SelType
    <3> QED BY <2>2, <3>1, <1>9, <1>14
  <2> QED BY <1>8, <2>1, <2>2
\* The clocks count on with the rounds.
<1>16. /\ sel.goodFor \in 0 .. Regain + 2 /\ sel.badFor \in 0 .. Lost + 2
       /\ aged.goodFor = 0 <=> sel.goodFor = 0
       /\ aged.badFor = 0 <=> sel.badFor = 0
       /\ aged.badFor <= Lost /\ sel.badFor > 0 => aged.badFor = sel.badFor + 1
       /\ aged.goodFor <= sel.goodFor + 1
       /\ aged.goodFor \in 0 .. Regain + 2 /\ aged.badFor \in 0 .. Lost + 2
  <2>1. sel.goodFor \in 0 .. Regain + 2 /\ sel.badFor \in 0 .. Lost + 2
    BY <1>1 DEF SelType
  <2>2. /\ aged.goodFor = 0 <=> sel.goodFor = 0
        /\ aged.goodFor \in 0 .. Regain + 2
        /\ sel.goodFor > 0 /\ sel.goodFor < Regain + 2 => aged.goodFor = sel.goodFor + 1
        /\ sel.goodFor = Regain + 2 => aged.goodFor = sel.goodFor
    BY <1>9, <2>1, Rounds, InputsAssumption
  <2>3. /\ aged.badFor = 0 <=> sel.badFor = 0
        /\ aged.badFor \in 0 .. Lost + 2
        /\ sel.badFor > 0 /\ sel.badFor < Lost + 2 => aged.badFor = sel.badFor + 1
        /\ sel.badFor = Lost + 2 => aged.badFor = sel.badFor
    BY <1>9, <2>1, Rounds, InputsAssumption
  <2> QED BY <2>1, <2>2, <2>3, InputsAssumption
<1>17. /\ gps.validAge \in Nat /\ gps'.validAge \in Nat /\ RoundCap = Lost + Regain + 2
       /\ selects => hist'.steady <= hist.steady + 1 /\ hist'.steady > 0
       /\ selects /\ valid => hist'.run = RoundCap \/ hist'.run = hist.run + 1
       /\ hist'.steady \in 0 .. RoundCap /\ hist'.run \in 0 .. RoundCap
  <2>1. gps.validAge \in Nat /\ gps'.validAge \in Nat
    BY <1>1, <1>4, CapsAreNat DEF GpsType
  <2>2. RoundCap = Lost + Regain + 2
    BY DEF RoundCap
  <2>3. selects => hist'.steady <= hist.steady + 1 /\ hist'.steady > 0
    BY <1>1, <1>11, <2>2, InputsAssumption DEF Older
  <2>4. selects /\ valid => hist'.run = RoundCap \/ hist'.run = hist.run + 1
    BY <1>1, <1>11, <2>2, InputsAssumption DEF Older
  <2>5. hist'.steady \in 0 .. RoundCap /\ hist'.run \in 0 .. RoundCap
    BY <1>11
  <2> QED BY <2>1, <2>2, <2>3, <2>4, <2>5
<1> HIDE DEF selects
<1>18. ClocksAreTrue'
  <2>1. hist'.steady > 0 => sel'.goodFor > 0 \/ sel'.badFor > 0
    BY <1>8, <1>13, <1>14, <1>16
  <2>2. hist'.steady > 0 /\ sel'.goodFor > 0 => gps'.validAge <= GpsStale
    BY <1>6, <1>8, <1>13, <1>14
  <2>3. sel'.badFor > 0 /\ sel'.badFor <= Lost /\ hist'.steady > sel'.badFor => gps'.validAge <= GpsStale + sel'.badFor
    <3> SUFFICES ASSUME sel'.badFor > 0, sel'.badFor <= Lost, hist'.steady > sel'.badFor
                 PROVE  gps'.validAge <= GpsStale + sel'.badFor
      OBVIOUS
    <3>1. selects /\ ~valid /\ sel'.badFor = IF aged.badFor = 0 THEN 1 ELSE aged.badFor
      <4>1. sel'.badFor \in Nat
        BY <1>15, InputsAssumption DEF SelType
      <4> QED BY <1>8, <1>13, <1>14, <4>1
    <3>2. CASE sel.badFor = 0
      <4>1. sel'.badFor = 1 /\ hist.steady > 0
        BY <1>1, <1>16, <1>17, <3>1, <3>2, CapsAreNat
      <4>2. sel.goodFor > 0
        BY <3>2, <4>1 DEF InputsInv, ClocksAreTrue
      <4>3. gps.validAge <= GpsStale
        BY <4>1, <4>2 DEF InputsInv, ClocksAreTrue
      <4> QED BY <1>4, <1>17, <4>1, <4>3, InputsAssumption
    <3>3. CASE sel.badFor > 0
      <4>1. sel'.badFor = sel.badFor + 1 /\ sel.badFor \in Nat
        BY <1>16, <3>1, <3>3, InputsAssumption
      <4>2. sel.badFor <= Lost /\ hist.steady > sel.badFor
        BY <1>1, <1>17, <3>1, <4>1, CapsAreNat, InputsAssumption
      <4>3. gps.validAge <= GpsStale + sel.badFor
        BY <3>3, <4>2 DEF InputsInv, ClocksAreTrue
      <4> QED BY <1>4, <1>17, <4>1, <4>3, InputsAssumption
    <3> QED BY <1>16, <3>2, <3>3
  <2>4. sel'.goodFor > 0 => hist'.run >= sel'.goodFor \/ hist'.run >= hist'.steady
    <3> SUFFICES ASSUME sel'.goodFor > 0 PROVE hist'.run >= sel'.goodFor \/ hist'.run >= hist'.steady
      OBVIOUS
    <3>1. CASE ~selects
      BY <1>14, <3>1
    <3>2. CASE selects
      <4>1. valid /\ sel'.goodFor = IF aged.goodFor = 0 THEN 1 ELSE aged.goodFor
        BY <1>8, <1>13, <3>2
      <4>2. CASE hist'.run = RoundCap
        BY <1>17, <4>2, CapsAreNat
      <4>3. CASE hist'.run = hist.run + 1 /\ sel.goodFor = 0
        BY <1>1, <1>16, <4>1, <4>3, CapsAreNat
      <4>4. CASE hist'.run = hist.run + 1 /\ sel.goodFor > 0
        <5>1. hist.run >= sel.goodFor \/ hist.run >= hist.steady
          BY <4>4 DEF InputsInv, ClocksAreTrue
        <5>2. sel'.goodFor <= sel.goodFor + 1
          BY <1>16, <4>1, <4>4, InputsAssumption
        <5>3. hist'.steady <= hist.steady + 1
          BY <1>17, <3>2
        <5>4. sel'.goodFor \in Nat /\ sel.goodFor \in Nat /\ hist.steady \in Nat /\ hist.run \in Nat /\ hist'.steady \in Nat
          BY <1>1, <1>15, <1>16, <1>17, CapsAreNat, InputsAssumption DEF SelType
        <5> QED BY <4>4, <5>1, <5>2, <5>3, <5>4
      <4> QED BY <1>16, <1>17, <3>2, <4>1, <4>2, <4>3, <4>4
    <3> QED BY <1>8, <3>1, <3>2
  <2>5. mode' = "gps_only" => sel'.active # "pulse"
    BY <1>8, <1>9, <1>12, <1>13, <1>14 DEF InputsInv, ClocksAreTrue
  <2> QED BY <2>1, <2>2, <2>3, <2>4, <2>5 DEF ClocksAreTrue
<1>19. frame' \in [from : {"none", "gps", "pulse", "can"}, stale : BOOLEAN, lamp : BOOLEAN, fixValid : BOOLEAN]
  <2>1. CASE ~clients
    BY <1>12, <2>1, EmptyIsHarmless
  <2>2. CASE clients
    <3>1. HasSource(can', serial') \in BOOLEAN /\ Lamp(can', serial') \in BOOLEAN /\ FixValid(gps') \in BOOLEAN
      BY DEF HasSource, CanFresh, Lamp, FixValid
    <3>2. sel'.active \in {"none", "gps", "pulse"}
      BY <1>15 DEF SelType
    <3> DEFINE from  == IF CanSpeed(can', serial') THEN "can" ELSE sel'.active
               stale == ~HasSource(can', serial')
               lamp  == Lamp(can', serial')
               fix   == FixValid(gps')
    <3>3. from \in {"none", "gps", "pulse", "can"}
      BY <3>2
    <3>4. stale \in BOOLEAN /\ lamp \in BOOLEAN /\ fix \in BOOLEAN
      BY <3>1
    <3>5. frame' = [from |-> from, stale |-> stale, lamp |-> lamp, fixValid |-> fix]
      BY <1>12, <2>2
    <3> HIDE DEF from, stale, lamp, fix
    <3> QED BY <3>3, <3>4, <3>5
  <2> QED BY <1>1, <2>1, <2>2
<1>20. InputsTypeOK'
  BY <1>1, <1>2, <1>3, <1>4, <1>11, <1>12, <1>15, <1>19 DEF InputsTypeOK, GpsType, SelType
<1>21. StaleFramesAreZeroed'
  <2>1. CASE ~clients
    BY <1>12, <2>1, EmptyIsHarmless DEF StaleFramesAreZeroed
  <2>2. CASE clients
    <3> SUFFICES ASSUME frame'.stale PROVE ~frame'.lamp /\ frame'.from \notin {"pulse", "can"}
      BY DEF StaleFramesAreZeroed
    <3> DEFINE stale == ~HasSource(can', serial')
    <3>0. frame'.stale = stale
      <4> DEFINE from  == IF CanSpeed(can', serial') THEN "can" ELSE sel'.active
                 lamp  == Lamp(can', serial')
                 fix   == FixValid(gps')
      <4>1. frame' = [from |-> from, stale |-> stale, lamp |-> lamp, fixValid |-> fix]
        BY <1>12, <2>2
      <4> HIDE DEF from, stale, lamp, fix
      <4> QED BY <4>1
    <3>1. ~CanFresh(can') /\ Overlay(serial') = {}
      BY <3>0 DEF HasSource
    <3>2. ~Lamp(can', serial') /\ ~CanSpeed(can', serial') /\ ~pulse
      BY <3>1 DEF Lamp, CanSpeed, PulseOk, pulse
    <3>3. selects
      BY <2>2, <3>2 DEF selects
    <3>4. sel'.active # "pulse" /\ sel'.active \in {"none", "gps", "pulse"}
      BY <1>13, <1>15, <3>2, <3>3 DEF SelType
    <3> QED BY <1>12, <2>2, <3>2, <3>4
  <2> QED BY <1>1, <2>1, <2>2
<1>22. FixHoldBounded'
  <2>1. gps'.validAge \in Nat
    BY <1>17
  <2>2. frame'.fixValid => FixValid(gps')
    BY <1>1, <1>12, EmptyIsHarmless
  <2> QED BY <1>7, <2>1, <2>2, InputsAssumption DEF FixHoldBounded
<1>23. SpeedHoldBounded'
  <2> SUFFICES ASSUME frame'.from = "gps", hist'.steady > Lost + 1 PROVE gps'.validAge <= GpsStale + Lost + 1
    BY DEF SpeedHoldBounded
  <2>1. clients /\ ~CanSpeed(can', serial') /\ sel'.active = "gps"
    BY <1>1, <1>12, EmptyIsHarmless
  <2>2. selects
    BY <2>1 DEF selects
  <2>3. CASE valid
    BY <1>6, <1>17, <2>3, InputsAssumption
  <2>4. CASE ~valid
    <3>1. sel'.badFor > 0 /\ sel'.badFor <= Lost /\ sel'.badFor \in Nat
      BY <1>13, <1>15, <2>1, <2>2, <2>4, InputsAssumption DEF SelType
    <3>2. hist'.steady > sel'.badFor
      BY <1>17, <3>1, CapsAreNat, InputsAssumption
    <3>3. gps'.validAge <= GpsStale + sel'.badFor
      BY <1>18, <3>1, <3>2 DEF ClocksAreTrue
    <3> QED BY <1>17, <3>1, <3>3, InputsAssumption
  <2> QED BY <1>8, <2>3, <2>4
<1>24. ASSUME sel.active = "pulse", sel'.active = "gps", PulseOk(serial'), hist'.steady > Regain + 1
       PROVE  hist'.run > Regain
  <2>1. mode # "gps_only"
    BY <1>24 DEF InputsInv, ClocksAreTrue
  <2>2. selects /\ pulse
    BY <1>8, <1>9, <1>14, <1>24 DEF pulse
  <2>3. valid /\ sel'.goodFor > Regain
    BY <1>13, <1>24, <2>1, <2>2
  <2>4. sel'.goodFor \in Nat /\ sel'.goodFor > 0
    BY <1>15, <2>3, InputsAssumption DEF SelType
  <2>5. hist'.run >= sel'.goodFor \/ hist'.run >= hist'.steady
    BY <1>18, <2>4 DEF ClocksAreTrue
  <2> QED BY <1>17, <1>24, <2>3, <2>4, <2>5, CapsAreNat, InputsAssumption
<1>25. InputsInv'
  BY <1>5, <1>18, <1>20, <1>21, <1>22, <1>23 DEF InputsInv
<1> QED BY <1>24, <1>25

LEMMA NextKeeps == InputsInv /\ [InputsNext]_inputVars => InputsInv'
<1> SUFFICES ASSUME InputsInv, [InputsNext]_inputVars PROVE InputsInv'
  OBVIOUS
<1>1. CASE InputsNext
  BY <1>1, CanFrameKeeps, SerialLineKeeps, FeedLineKeeps, ClientsChangeKeeps, TickKeeps DEF InputsNext
<1>2. CASE UNCHANGED inputVars
  BY <1>2 DEF inputVars, InputsInv, InputsTypeOK, SampleIsRecent, ClocksAreTrue, StaleFramesAreZeroed,
              FixHoldBounded, SpeedHoldBounded
<1> QED BY <1>1, <1>2

\* The inductive invariant of the inputs and the frame: the ages of a sample and
\* the selector's clocks against what came in and the rounds that were run.
THEOREM InputsInvariant == InputsSpec => []InputsInv
  BY InitHolds, NextKeeps, PTL DEF InputsSpec

\* Ages and clocks stay within their caps, and one of the selector's clocks is None.
THEOREM TypeCorrect == InputsSpec => []InputsTypeOK
<1>1. InputsInv => InputsTypeOK
  BY DEF InputsInv
<1> QED BY <1>1, InputsInvariant, PTL

\* A frame marked stale carries no telltale and no speed of CAN or pulse.
THEOREM StaleFramesHold == InputsSpec => []StaleFramesAreZeroed
<1>1. InputsInv => StaleFramesAreZeroed
  BY DEF InputsInv
<1> QED BY <1>1, InputsInvariant, PTL

\* No position is shown as a valid fix for longer than the hold and the stale time.
THEOREM FixHoldHolds == InputsSpec => []FixHoldBounded
<1>1. InputsInv => FixHoldBounded
  BY DEF InputsInv
<1> QED BY <1>1, InputsInvariant, PTL

\* While the selector runs, a GPS speed is given up lost_s after the last live fix.
THEOREM SpeedHoldHolds == InputsSpec => []SpeedHoldBounded
<1>1. InputsInv => SpeedHoldBounded
  BY DEF InputsInv
<1> QED BY <1>1, InputsInvariant, PTL

\* Both holds end, for any timeouts and delays (gps_nmea.py, speed_source.py).
THEOREM HoldsHold == InputsSpec => []HoldsAreBounded
<1>1. FixHoldBounded /\ SpeedHoldBounded => HoldsAreBounded
  BY DEF HoldsAreBounded
<1> QED BY <1>1, FixHoldHolds, SpeedHoldHolds, PTL

\* From the pulse back to GPS only after regain_s of live fixes in every round.
THEOREM RegainHolds == InputsSpec => RegainIsSustained
<1> DEFINE Regained == sel.active = "pulse" /\ sel'.active = "gps" /\ PulseOk(serial')
                         /\ hist'.steady > Regain + 1 => hist'.run > Regain
<1>1. InputsInv /\ [InputsNext]_inputVars => [Regained]_inputVars
  <2> SUFFICES ASSUME InputsInv, InputsNext PROVE Regained
    OBVIOUS
  <2>1. CASE Tick
    BY <2>1, TickKeeps
  <2>2. CASE CanFrame \/ SerialLine \/ FeedLine \/ ClientsChange
    BY <2>2 DEF CanFrame, SerialLine, FeedLine, ClientsChange
  <2> QED BY <2>1, <2>2 DEF InputsNext
<1>2. [][Regained]_inputVars => RegainIsSustained
  BY DEF RegainIsSustained
<1> HIDE DEF Regained
<1> QED BY <1>1, <1>2, InputsInvariant, PTL DEF InputsSpec

-----------------------------------------------------------------------------
(* The clock helper                                                        *)


\* What is left of the recheck or the cooldown makes up for the time that is
\* missing since the last try.
SpacedInv ==
  \/ tries.since >= Apart
  \/ tries.since + tracker.recheckIn >= Apart
  \/ tries.since + tracker.retryIn >= Apart

\* Each frame of a streak is within 1 s of the one before: an error of n took n
\* wrong frames in a row, or the whole streak.
RunInv == tracker.streak > 0 => wrong >= Less(Magnitude(tracker.lastErr), tracker.streak)

ClockInv == ClockTypeOK /\ SpacedInv /\ RunInv

-----------------------------------------------------------------------------
(* The cases of a step, each with the properties of that step *)

SafeStep ==
  /\ tries'.parity # tries.parity /\ tracker' = Checked => wrong' >= Less(Magnitude(off'), Required)
  /\ tries'.parity # tries.parity => tries.since >= Apart

LEMMA InitKeeps == ClockInit => ClockInv
  BY ClockAssumption
  DEF ClockInit, ClockInv, ClockTypeOK, SpacedInv, RunInv, NewTracker, Errors, Apart, Less, Magnitude

LEMMA ApartType == Apart \in Nat \ {0} /\ Apart <= Recheck /\ Apart <= Retry
  BY ClockAssumption DEF Apart, Less

LEMMA ZeroType == 0 \in Errors /\ 0 \in 0 .. Required - 1 /\ 0 \in 0 .. Recheck /\ 0 \in 0 .. Retry
  BY ClockAssumption DEF Errors

\* The trackers a frame can leave behind.
LEMMA TrackerTypes ==
  ASSUME ClockTypeOK
  PROVE  LET T == [streak : 0 .. Required - 1, lastErr : Errors, recheckIn : 0 .. Recheck,
                   retryIn : 0 .. Retry]
         IN /\ NoStreak(tracker) \in T /\ SetFailed(tracker) \in T /\ Checked \in T
            /\ NoStreak(tracker).streak = 0
            /\ NoStreak(tracker).recheckIn = tracker.recheckIn
            /\ NoStreak(tracker).retryIn = tracker.retryIn
            /\ SetFailed(tracker).streak = 0 /\ SetFailed(tracker).retryIn = Retry
            /\ SetFailed(tracker).recheckIn = tracker.recheckIn
            /\ Checked.recheckIn = Recheck /\ Checked.streak = 0
<1>1. Recheck \in 0 .. Recheck /\ Retry \in 0 .. Retry
  BY ClockAssumption
<1>2. NoStreak(tracker) = [streak |-> 0, lastErr |-> 0, recheckIn |-> tracker.recheckIn,
                           retryIn |-> tracker.retryIn]
  <2>1. PICK a \in 0 .. Required - 1, b \in Errors, c \in 0 .. Recheck, d \in 0 .. Retry :
          tracker = [streak |-> a, lastErr |-> b, recheckIn |-> c, retryIn |-> d]
    BY DEF ClockTypeOK
  <2> DEFINE m == [tracker EXCEPT !.streak = 0]
  <2>2. m = [streak |-> 0, lastErr |-> b, recheckIn |-> c, retryIn |-> d]
    BY <2>1
  <2>3. NoStreak(tracker) = [m EXCEPT !.lastErr = 0]
    BY DEF NoStreak
  <2> HIDE DEF m
  <2>4. NoStreak(tracker) = [streak |-> 0, lastErr |-> 0, recheckIn |-> c, retryIn |-> d]
    BY <2>2, <2>3
  <2> QED BY <2>1, <2>4
<1>3. SetFailed(tracker) = [streak |-> 0, lastErr |-> 0, recheckIn |-> tracker.recheckIn,
                            retryIn |-> Retry]
  BY <1>2 DEF SetFailed
<1>4. Checked = [streak |-> 0, lastErr |-> 0, recheckIn |-> Recheck, retryIn |-> 0]
  BY DEF Checked, NewTracker
<1> QED BY <1>1, <1>2, <1>3, <1>4, ZeroType DEF ClockTypeOK

\* The history after a counting frame.
LEMMA WrongAfter ==
  ASSUME ClockTypeOK, RunInv, NEW err \in Errors,
         wrong' = IF err = 0 THEN 0 ELSE Less(wrong + 1, Required)
  PROVE  /\ wrong' \in 0 .. Required
         /\ Streak(tracker, err) \in 1 .. Required
         /\ wrong' >= Less(Magnitude(err), Streak(tracker, err))
<1>1. tracker.streak \in 0 .. Required - 1 /\ tracker.lastErr \in Int /\ err \in Int
  BY ClockAssumption DEF ClockTypeOK, Errors
<1>2. wrong \in 0 .. Required
  BY DEF ClockTypeOK
<1>3. Streak(tracker, err) \in 1 .. Required
  BY <1>1, ClockAssumption DEF Streak
<1>4. wrong' \in 0 .. Required
  BY <1>2, ClockAssumption DEF Less
<1>5. CASE err = 0
  BY <1>3, <1>4, <1>5, ClockAssumption DEF Less, Magnitude
<1>6. CASE err # 0 /\ Streak(tracker, err) = 1
  BY <1>1, <1>2, <1>3, <1>4, <1>6, ClockAssumption DEF Less, Magnitude
<1>7. CASE err # 0 /\ Streak(tracker, err) # 1
  <2>1. tracker.streak > 0 /\ Magnitude(err - tracker.lastErr) <= 1 /\ Streak(tracker, err) = tracker.streak + 1
    BY <1>1, <1>7 DEF Streak, Magnitude
  <2>2. Magnitude(err) <= Magnitude(tracker.lastErr) + 1
    BY <2>1, <1>1 DEF Magnitude
  <2>3. wrong >= Less(Magnitude(tracker.lastErr), tracker.streak)
    BY <2>1 DEF RunInv
  <2> QED BY <2>1, <2>2, <2>3, <1>1, <1>2, <1>3, <1>4, <1>7, ClockAssumption DEF Less, Magnitude
<1> QED BY <1>3, <1>4, <1>5, <1>6, <1>7

LEMMA FrameCountsKeeps ==
  ASSUME ClockInv, NEW err \in Errors, FrameCounts(err), faults' \in 0 .. Faults
  PROVE  ClockInv' /\ SafeStep
<1> DEFINE n == Streak(tracker, err)
<1>1. n \in 1 .. Required /\ wrong' \in 0 .. Required /\ wrong' >= Less(Magnitude(err), n)
  BY WrongAfter DEF ClockInv, FrameCounts
<1>2. tracker.recheckIn = 0 /\ tracker.retryIn = 0
  BY DEF ClockInv, ClockTypeOK, FrameCounts, Waiting
<1>3. tries.since >= Apart
  BY <1>2, ApartType DEF ClockInv, ClockTypeOK, SpacedInv
<1> HIDE DEF n
<1>4. CASE /\ n < Required /\ tracker' = [tracker EXCEPT !.streak = n, !.lastErr = err]
           /\ UNCHANGED <<off, tries>>
  <2>1. n \in 0 .. Required - 1
    BY <1>1, <1>4, ClockAssumption
  <2>2. tracker' = [streak |-> n, lastErr |-> err, recheckIn |-> tracker.recheckIn,
                    retryIn |-> tracker.retryIn]
    BY <1>4 DEF ClockInv, ClockTypeOK
  <2>3. ClockTypeOK'
    BY <1>1, <1>4, <2>1, <2>2 DEF ClockInv, ClockTypeOK, Errors, Apart
  <2> QED BY <2>2, <2>3, <1>1, <1>3, <1>4 DEF ClockInv, SpacedInv, RunInv, SafeStep, Apart
<1>5. CASE n >= Required /\ tracker' = Checked /\ UNCHANGED <<off, tries>>
  BY <1>1, <1>3, <1>5, TrackerTypes DEF ClockInv, ClockTypeOK, SpacedInv, RunInv, SafeStep, Errors, Apart
<1>6. CASE n >= Required /\ off' = err /\ tracker' = Checked /\ tries' = Tried
  <2>1. tries'.since = 0 /\ tries' \in [parity : {0, 1}, since : 0 .. Apart]
    BY <1>6, ApartType DEF Tried, ClockInv, ClockTypeOK
  <2>2. tracker'.recheckIn = Recheck /\ tracker'.streak = 0
    BY <1>6, TrackerTypes DEF ClockInv
  <2>3. ClockTypeOK'
    BY <2>1, <1>1, <1>6, TrackerTypes DEF ClockInv, ClockTypeOK, Errors, Apart
  <2>4. n = Required
    BY <1>1, <1>6, ClockAssumption
  <2>5. SpacedInv' /\ RunInv'
    BY <2>1, <2>2, ApartType, ClockAssumption DEF SpacedInv, RunInv, Apart
  <2> QED BY <2>3, <2>4, <2>5, <1>1, <1>3, <1>6 DEF ClockInv, SafeStep
<1> QED BY <1>4, <1>5, <1>6 DEF FrameCounts, n

LEMMA SetFailsKeeps ==
  ASSUME ClockInv, NEW err \in Errors, SetFails(err), faults' \in 0 .. Faults
  PROVE  ClockInv' /\ SafeStep
<1>1. wrong' \in 0 .. Required
  BY WrongAfter DEF ClockInv, SetFails
<1>2. tries.since >= Apart
  BY ApartType DEF ClockInv, ClockTypeOK, SpacedInv, SetFails, Waiting
<1>3. tries'.since = 0 /\ tries' \in [parity : {0, 1}, since : 0 .. Apart]
  BY ApartType DEF SetFails, Tried, ClockInv, ClockTypeOK
<1>4. /\ tracker'.retryIn = Retry /\ tracker'.recheckIn = 0 /\ tracker'.streak = 0
      /\ tracker' \in [streak : 0 .. Required - 1, lastErr : Errors, recheckIn : 0 .. Recheck,
                       retryIn : 0 .. Retry]
  <2>1. tracker.recheckIn = 0
    BY DEF SetFails, Waiting, ClockInv, ClockTypeOK
  <2> QED BY <2>1, TrackerTypes DEF SetFails, ClockInv
<1>5. ClockTypeOK'
  BY <1>1, <1>3, <1>4 DEF ClockInv, ClockTypeOK, SetFails, Apart
<1>6. tracker' # Checked
  BY <1>4, TrackerTypes, ClockAssumption DEF ClockInv
<1> QED BY <1>2, <1>3, <1>4, <1>5, <1>6, ApartType DEF ClockInv, SpacedInv, RunInv, SafeStep, Apart

LEMMA FrameIgnoredKeeps ==
  ASSUME ClockInv, FrameIgnored, faults' \in 0 .. Faults
  PROVE  ClockInv' /\ SafeStep
<1>1. /\ tracker'.streak = 0 /\ tracker'.recheckIn = tracker.recheckIn
      /\ tracker'.retryIn = tracker.retryIn
      /\ tracker' \in [streak : 0 .. Required - 1, lastErr : Errors, recheckIn : 0 .. Recheck,
                       retryIn : 0 .. Retry]
  BY TrackerTypes DEF FrameIgnored, ClockInv
<1>2. ClockTypeOK'
  BY <1>1, ClockAssumption DEF FrameIgnored, ClockInv, ClockTypeOK, Errors, Apart
<1> QED BY <1>1, <1>2 DEF FrameIgnored, ClockInv, SpacedInv, RunInv, SafeStep, Apart

LEMMA ClockTickKeeps ==
  ASSUME ClockInv, ClockTick
  PROVE  ClockInv' /\ SafeStep
<1>1. /\ tracker'.streak = tracker.streak /\ tracker'.lastErr = tracker.lastErr
      /\ tracker'.recheckIn = IF tracker.recheckIn > 0 THEN tracker.recheckIn - 1 ELSE 0
      /\ tracker'.retryIn = IF tracker.retryIn > 0 THEN tracker.retryIn - 1 ELSE 0
      /\ tries'.since = Less(tries.since + 1, Apart) /\ tries'.parity = tries.parity
  BY DEF ClockTick, ClockInv, ClockTypeOK
<1>2. tries'.since \in 0 .. Apart /\ tracker'.recheckIn \in 0 .. Recheck /\ tracker'.retryIn \in 0 .. Retry
  BY <1>1, ApartType, ClockAssumption DEF ClockInv, ClockTypeOK, Less
<1>3. ClockTypeOK'
  BY <1>2, <1>1 DEF ClockTick, ClockInv, ClockTypeOK, Apart
<1>4. SpacedInv'
  BY <1>1, ApartType, ClockAssumption DEF ClockInv, ClockTypeOK, SpacedInv, Less, Apart
<1> QED BY <1>1, <1>3, <1>4 DEF ClockTick, ClockInv, RunInv, SafeStep

LEMMA ClockMovesOrRestartKeeps ==
  ASSUME ClockInv, ClockMoves \/ Restart, faults' \in 0 .. Faults
  PROVE  ClockInv' /\ SafeStep
<1>1. CASE ClockMoves
  BY <1>1 DEF ClockMoves, ClockInv, ClockTypeOK, SpacedInv, RunInv, SafeStep, Apart
<1>2. CASE Restart
  <2>1. tries'.since = Apart /\ tries' \in [parity : {0, 1}, since : 0 .. Apart]
        /\ tries'.parity = tries.parity
    BY <1>2, ApartType DEF Restart, ClockInv, ClockTypeOK
  <2>2. ClockTypeOK'
    BY <1>2, <2>1, ClockAssumption DEF Restart, ClockInv, ClockTypeOK, NewTracker, Errors, Apart
  <2> QED BY <1>2, <2>1, <2>2, ApartType
          DEF Restart, ClockInv, SpacedInv, RunInv, SafeStep, NewTracker, Apart
<1> QED BY <1>1, <1>2

LEMMA StepKeeps ==
  ASSUME ClockInv, [ClockNext]_clockVars
  PROVE  ClockInv' /\ SafeStep
<1>1. CASE ClockTick
  BY <1>1, ClockTickKeeps
<1>2. CASE Good \/ WaitsOut
  <2>1. 0 \in Errors /\ faults' \in 0 .. Faults
    BY <1>2, ClockAssumption DEF Good, WaitsOut, Errors, ClockInv, ClockTypeOK
  <2> QED BY <1>2, <2>1, FrameCountsKeeps, FrameIgnoredKeeps DEF Good, WaitsOut
<1>3. CASE Misbehaves
  <2>1. faults' \in 0 .. Faults
    BY <1>3, ClockAssumption DEF Misbehaves, ClockInv, ClockTypeOK
  <2> QED BY <1>3, <2>1, FrameCountsKeeps, SetFailsKeeps, FrameIgnoredKeeps, ClockMovesOrRestartKeeps
          DEF Misbehaves
<1>4. CASE UNCHANGED clockVars
  BY <1>4 DEF clockVars, ClockInv, ClockTypeOK, SpacedInv, RunInv, SafeStep, Apart
<1> QED BY <1>1, <1>2, <1>3, <1>4 DEF ClockNext

-----------------------------------------------------------------------------
(***************************************************************************)
(* The inductive invariant of the helper: its tracker against the time and *)
(* the frames that really passed (evaluate_frame and handle_frame).        *)
(***************************************************************************)
THEOREM ClockInvariant == ClockSpec => []ClockInv
<1>1. ClockInv /\ [ClockNext]_clockVars => ClockInv'
  BY StepKeeps
<1> QED BY <1>1, InitKeeps, PTL DEF ClockSpec

(***************************************************************************)
(* The tracker keeps its type: evaluate_frame never lets the streak reach  *)
(* the count without ending it.                                            *)
(***************************************************************************)
THEOREM ClockTypeCorrect == ClockSpec => []ClockTypeOK
  BY ClockInvariant, PTL DEF ClockInv

(***************************************************************************)
(* handle_frame sets a wrong time only after as many wrong frames in a row *)
(* as the error is large, or a whole streak of them.                       *)
(***************************************************************************)
THEOREM LoneGarbageSetsNothing == ClockSpec => WrongTimeNeedsAWrongRun
<1>1. ClockInv /\ [ClockNext]_clockVars
        => [tries'.parity # tries.parity /\ tracker' = Checked
              => wrong' >= Less(Magnitude(off'), Required)]_clockVars
  BY StepKeeps DEF SafeStep
<1> QED BY <1>1, ClockInvariant, PTL DEF ClockSpec, WrongTimeNeedsAWrongRun

(***************************************************************************)
(* handle_frame calls the setter only a recheck or a cooldown after its    *)
(* last call.                                                              *)
(***************************************************************************)
THEOREM SettersAreSpaced == ClockSpec => TriesAreSpaced
<1>1. ClockInv /\ [ClockNext]_clockVars => [tries'.parity # tries.parity => tries.since >= Apart]_clockVars
  BY StepKeeps DEF SafeStep
<1> QED BY <1>1, ClockInvariant, PTL DEF ClockSpec, TriesAreSpaced
-----------------------------------------------------------------------------
(* The replay of a CAN log                                                 *)

\* What the frames in S show: of each signal, the newest of its frames.
CarriersIn(S, name) == {i \in S : Carries(log[i], dictionary[name])}
Carried(S) == {name \in DOMAIN dictionary : CarriersIn(S, name) # {}}
ShownBy(S) ==
  [name \in Carried(S) |-> ExtractSignalValue(log[Max(CarriersIn(S, name))].data, dictionary[name])]

\* The frames handled are those at or before the last snapshot, none of them is
\* ahead of the replay, and what is shown is what they show.
DecoderInv ==
  /\ log \in RecordedLogs \ {<<>>}
  /\ clock \in Nat /\ started \in Nat /\ started <= clock
  /\ index \in 0..Len(log)
  /\ \A i \in 1..index : log[i].t <= ReplayTime
  /\ asOf # Null => asOf \in Int /\ \A i \in 1..Len(log) : i <= index <=> log[i].t <= asOf
  /\ latest = ShownBy(1..index)

\* The logs are sorted, so what is due is a run of frames after the last one done.
LEMMA DueIsARun ==
  ASSUME log \in RecordedLogs, NEW done \in 0..Len(log), NEW t \in Int,
         \A i \in 1..done : log[i].t <= t
  PROVE  \E k \in done..Len(log) :
           /\ Due(done, t) = (done + 1)..k
           /\ done + Cardinality(Due(done, t)) = k
           /\ \A i \in 1..Len(log) : i <= k <=> log[i].t <= t
<1> DEFINE len == Len(log)
           due == Due(done, t)
<1>1. /\ len \in Nat /\ DOMAIN log = 1..len
      /\ \A i \in 1..len : log[i].t \in Int
      /\ \A i, j \in 1..len : i <= j => log[i].t <= log[j].t
  BY DecoderAssumption
<1>2. due = {i \in (done + 1)..len : log[i].t <= t}
  <2>1. ASSUME NEW i \in (done + 1)..len
        PROVE  (\A j \in (done + 1)..i : log[j].t <= t) <=> log[i].t <= t
    <3>1. i \in 1..len /\ i \in (done + 1)..i
      BY <1>1
    <3>2. ASSUME NEW j \in (done + 1)..i, log[i].t <= t PROVE log[j].t <= t
      <4>1. j \in 1..len /\ j <= i
        BY <1>1, <3>1
      <4>2. log[j].t <= log[i].t /\ log[j].t \in Int /\ log[i].t \in Int
        BY <1>1, <3>1, <4>1
      <4> QED BY <3>2, <4>2
    <3> QED BY <3>1, <3>2
  <2> QED BY <2>1 DEF Due
<1>3. CASE due = {}
  <2>1. Cardinality(due) = 0
    BY <1>3, FS_EmptySet
  <2>2. \A i \in 1..len : i <= done <=> log[i].t <= t
    <3> SUFFICES ASSUME NEW i \in 1..len PROVE i <= done <=> log[i].t <= t
      OBVIOUS
    <3>1. i <= done => i \in 1..done
      OBVIOUS
    <3>2. ~(i <= done) => i \in (done + 1)..len
      BY <1>1
    <3> QED BY <1>2, <1>3, <3>1, <3>2
  <2>3. due = (done + 1)..done
    BY <1>3
  <2>4. done \in done..len /\ done + 0 = done
    BY <1>1
  <2> HIDE DEF due, len
  <2>5. done + Cardinality(due) = done
    BY <2>1, <2>4
  <2> QED BY <2>2, <2>3, <2>4, <2>5 DEF due, len
<1>4. CASE due # {}
  <2>1. PICK k \in due : \A x \in due : k >= x
    <3>1. IsFiniteSet(1..len)
      <4>1. 1 \in Int /\ len \in Int
        BY <1>1
      <4> HIDE DEF len
      <4> QED BY <4>1, FS_Interval
    <3>2. due \in SUBSET (1..len) /\ (1..len) \in SUBSET Int
      BY <1>2
    <3> HIDE DEF due, len
    <3> QED BY <1>4, <3>1, <3>2, Extremes
  <2>2. k \in (done + 1)..len /\ log[k].t <= t
    BY <1>2
  <2>3. due = (done + 1)..k
    <3>1. ASSUME NEW i \in (done + 1)..k PROVE i \in due
      <4>1. i \in 1..len /\ k \in 1..len /\ i <= k /\ i \in (done + 1)..len
        BY <1>1, <2>2
      <4>2. log[i].t <= log[k].t /\ log[i].t \in Int /\ log[k].t \in Int
        BY <1>1, <4>1
      <4>3. log[i].t <= t
        BY <2>2, <4>2
      <4> QED BY <1>2, <4>1, <4>3
    <3>2. ASSUME NEW i \in due PROVE i \in (done + 1)..k
      BY <1>2, <2>1, <2>2, <3>2
    <3> QED BY <3>1, <3>2
  <2>4. Cardinality(due) = k - done
    <3>1. Cardinality((done + 1)..k) = k - (done + 1) + 1
      BY <2>2, FS_Interval
    <3>2. k - (done + 1) + 1 = k - done
      BY <2>2
    <3> QED BY <2>3, <3>1, <3>2
  <2>5. \A i \in 1..len : i <= k <=> log[i].t <= t
    <3> SUFFICES ASSUME NEW i \in 1..len PROVE i <= k <=> log[i].t <= t
      OBVIOUS
    <3>1. k \in 1..len
      BY <2>2
    <3>2. CASE i <= k
      <4>1. log[i].t <= log[k].t /\ log[i].t \in Int /\ log[k].t \in Int
        BY <1>1, <3>1, <3>2
      <4> QED BY <2>2, <3>2, <4>1
    <3>3. CASE ~(i <= k)
      <4>1. i \in (done + 1)..len /\ i \notin (done + 1)..k
        BY <1>1, <2>2, <3>3
      <4> QED BY <1>2, <2>3, <3>3, <4>1
    <3> QED BY <3>2, <3>3
  <2>6. k \in done..len /\ done + (k - done) = k
    BY <2>2
  <2> HIDE DEF due, len
  <2>7. done + Cardinality(due) = k
    BY <2>4, <2>6
  <2> QED BY <2>3, <2>5, <2>6, <2>7 DEF due, len
<1> QED BY <1>3, <1>4

\* One more frame, later than those in S, on top of what they show.
LEMMA NewestOnTop ==
  ASSUME NEW n \in Nat, NEW S \in SUBSET (1..n), NEW m \in (1..n), \A i \in S : i < m
  PROVE  Updated(ShownBy(S), DecodeFrame(dictionary, log[m])) = ShownBy(S \cup {m})
<1> DEFINE shows == DecodeFrame(dictionary, log[m])
           here == {name \in DOMAIN dictionary : Carries(log[m], dictionary[name])}
           U == S \cup {m}
<1>1. /\ DOMAIN shows = here
      /\ \A name \in here : shows[name] = ExtractSignalValue(log[m].data, dictionary[name])
  BY Zenon DEF DecodeFrame
<1>2. DOMAIN ShownBy(S) = Carried(S)
  BY DEF ShownBy
<1>3. Carried(U) = here \cup Carried(S)
  BY DEF Carried, CarriersIn
<1>4. ASSUME NEW name \in here PROVE Max(CarriersIn(U, name)) = m
  <2>1. m \in CarriersIn(U, name)
    BY <1>4 DEF CarriersIn
  <2>2. \A i \in CarriersIn(U, name) : m >= i /\ i \in Int
    BY DEF CarriersIn
  <2> QED BY <2>1, <2>2 DEF Max
<1>5. ASSUME NEW name \in Carried(S), name \notin here
      PROVE  CarriersIn(U, name) = CarriersIn(S, name)
  BY <1>5 DEF CarriersIn, Carried
<1> HIDE DEF shows, U
<1>6. ASSUME NEW name \in here \cup Carried(S)
      PROVE  (IF name \in here THEN shows[name] ELSE ShownBy(S)[name])
               = ExtractSignalValue(log[Max(CarriersIn(U, name))].data, dictionary[name])
  <2>1. CASE name \in here
    <3> HIDE DEF here
    <3> QED BY <1>1, <1>4, <2>1
  <2>2. CASE name \notin here
    <3>1. ShownBy(S)[name] = ExtractSignalValue(log[Max(CarriersIn(S, name))].data, dictionary[name])
      BY <2>2 DEF ShownBy
    <3> HIDE DEF here
    <3> QED BY <1>5, <2>2, <3>1
  <2> QED BY <2>1, <2>2
<1> HIDE DEF here
<1>7. Updated(ShownBy(S), shows)
        = [name \in here \cup Carried(S) |-> IF name \in here THEN shows[name] ELSE ShownBy(S)[name]]
  BY <1>1, <1>2, Zenon DEF Updated
<1>8. ShownBy(U) = [name \in here \cup Carried(S) |->
                      ExtractSignalValue(log[Max(CarriersIn(U, name))].data, dictionary[name])]
  BY <1>3, Zenon DEF ShownBy
<1> QED BY <1>6, <1>7, <1>8 DEF shows, U

\* Decoding what is due on top of what the frames before it show gives what all
\* of them show.
LEMMA DecodingGoesOn ==
  ASSUME NEW n \in Nat, NEW done \in 0..n, NEW k \in done..n, NEW t,
         Due(done, t) = (done + 1)..k
  PROVE  DecodedTo(done, ShownBy(1..done), t).latest = ShownBy(1..k)
<1> DEFINE due == (done + 1)..k
           base == ShownBy(1..done)
           Step(iter) == [s \in SUBSET due |->
             IF s = {} THEN base ELSE Updated(iter[s \ {Max(s)}], DecodeFrame(dictionary, log[Max(s)]))]
           iter == CHOOSE iter : iter = Step(iter)
           Whole(T) == ShownBy((1..done) \cup T)
           g == [T \in SUBSET due |-> Whole(T)]
<1>1. DecodedTo(done, base, t).latest = iter[due]
  <2>1. DecodedTo(done, base, t).latest
          = MapThenFoldSet(LAMBDA decoded, v : Updated(v, decoded), base,
                           LAMBDA i : DecodeFrame(dictionary, log[i]), Max, Due(done, t))
    BY Zenon DEF DecodedTo
  <2> QED BY <2>1, Zenon DEF MapThenFoldSet
<1> HIDE DEF iter
<1>2. ASSUME NEW T \in SUBSET due, T # {}
      PROVE  /\ Max(T) \in T /\ T \ {Max(T)} \in SUBSET due
             /\ Updated(Whole(T \ {Max(T)}), DecodeFrame(dictionary, log[Max(T)])) = Whole(T)
  <2>1. PICK m \in T : \A x \in T : m >= x
    <3>1. IsFiniteSet(due) /\ due \in SUBSET Int
      BY FS_Interval
    <3> HIDE DEF due
    <3> QED BY <1>2, <3>1, Extremes
  <2>2. Max(T) = m
    <3>1. \A x \in T : x \in Int
      OBVIOUS
    <3> HIDE DEF due
    <3> QED BY <2>1, <3>1 DEF Max
  <2> DEFINE S == (1..done) \cup (T \ {m})
  <2>3. /\ S \in SUBSET (1..n) /\ m \in 1..n /\ \A i \in S : i < m
        /\ S \cup {m} = (1..done) \cup T
    BY <2>1
  <2> HIDE DEF S
  <2>4. Updated(ShownBy(S), DecodeFrame(dictionary, log[m])) = ShownBy(S \cup {m})
    BY <2>3, NewestOnTop
  <2> QED BY <2>2, <2>3, <2>4 DEF S
<1>3. Whole({}) = base
  OBVIOUS
<1> HIDE DEF Whole, base, due
<1>4. g = Step(g)
  <2>1. ASSUME NEW T \in SUBSET due
        PROVE  g[T] = IF T = {} THEN base ELSE Updated(g[T \ {Max(T)}], DecodeFrame(dictionary, log[Max(T)]))
    BY <1>2, <1>3
  <2> QED BY <2>1
<1>5. iter = Step(iter)
  <2> HIDE DEF Step, g
  <2> QED BY <1>4, Zenon DEF iter
<1> DEFINE Right == {T \in SUBSET due : iter[T] = Whole(T)}
<1>6. ASSUME NEW T \in SUBSET due, \A x \in T : T \ {x} \in Right
      PROVE  T \in Right
  <2>1. iter[T] = IF T = {} THEN base ELSE Updated(iter[T \ {Max(T)}], DecodeFrame(dictionary, log[Max(T)]))
    BY <1>5
  <2> QED BY <1>2, <1>3, <1>6, <2>1
<1>7. \A T \in SUBSET due : T \in Right
  <2>1. IsFiniteSet(due)
    BY FS_Interval DEF due
  <2> HIDE DEF Right
  <2> QED BY <1>6, <2>1, FiniteInduction
<1>8. iter[due] = Whole(due)
  BY <1>7
<1>9. (1..done) \cup due = 1..k
  BY DEF due
<1> QED BY <1>1, <1>8, <1>9 DEF Whole, base

LEMMA NothingShown == ShownBy({}) = NoValues
  BY DEF ShownBy, Carried, CarriersIn, NoValues

LEMMA DecoderInitHolds == DecoderInit => DecoderInv
<1> SUFFICES ASSUME DecoderInit PROVE DecoderInv
  OBVIOUS
<1>1. Len(log) \in Nat
  BY DecoderAssumption DEF DecoderInit
<1>2. 1..0 = {}
  OBVIOUS
<1>3. latest = ShownBy(1..index)
  BY <1>2, NothingShown DEF DecoderInit
<1> QED BY <1>1, <1>2, <1>3 DEF DecoderInit, DecoderInv

\* A snapshot at a time that no frame done is later than.
LEMMA ShowingHolds ==
  ASSUME DecoderInv, NEW start \in Nat, start <= clock, NEW t \in Int,
         NEW done \in 0..Len(log), \A i \in 1..done : log[i].t <= t,
         t <= LogStart + (clock - start),
         Shows(DecodedTo(done, ShownBy(1..done), t), start, t)
  PROVE  DecoderInv'
<1>1. /\ log \in RecordedLogs \ {<<>>} /\ clock \in Nat
      /\ Len(log) \in Nat /\ DOMAIN log = 1..Len(log) /\ \A i \in 1..Len(log) : log[i].t \in Int
  BY DecoderAssumption DEF DecoderInv
<1>2. PICK k \in done..Len(log) :
        /\ Due(done, t) = (done + 1)..k
        /\ done + Cardinality(Due(done, t)) = k
        /\ \A i \in 1..Len(log) : i <= k <=> log[i].t <= t
  BY <1>1, DueIsARun
<1>3. DecodedTo(done, ShownBy(1..done), t).latest = ShownBy(1..k)
  <2> DEFINE n == Len(log)
  <2>1. n \in Nat /\ done \in 0..n /\ k \in done..n /\ Due(done, t) = (done + 1)..k
    BY <1>1, <1>2
  <2> HIDE DEF n
  <2> QED BY <2>1, DecodingGoesOn, SMTT(40)
<1>4. DecodedTo(done, ShownBy(1..done), t).index = k
  BY <1>2, Zenon DEF DecodedTo
<1>5. /\ index' = k /\ latest' = ShownBy(1..k) /\ started' = start /\ asOf' = t
      /\ dictionary' = dictionary /\ log' = log /\ repeat' = repeat /\ clock' = clock
  BY <1>3, <1>4 DEF Shows
<1>6. ReplayTime' = LogStart + (clock - start)
  BY <1>5 DEF ReplayTime, LogStart
<1>7. ASSUME NEW i \in 1..k PROVE log[i].t <= LogStart + (clock - start)
  <2>1. i \in 1..Len(log) /\ log[i].t <= t /\ log[i].t \in Int
    BY <1>1, <1>2
  <2>2. LogStart + (clock - start) \in Int
    <3>1. LogStart \in Int
      <4>1. 1 \in 1..Len(log)
        BY <1>1, <2>1
      <4> QED BY <1>1, <4>1 DEF LogStart
    <3> QED BY <1>1, <3>1
  <2> QED BY <2>1, <2>2
<1>8. ShownBy(1..index)' = ShownBy(1..k)
  BY <1>5 DEF ShownBy, Carried, CarriersIn
<1>9. k \in 0..Len(log)
  BY <1>1, <1>2
<1> QED BY <1>1, <1>2, <1>5, <1>6, <1>7, <1>8, <1>9 DEF DecoderInv

LEMMA DecoderNextHolds == DecoderInv /\ [DecoderNext]_decoderVars => DecoderInv'
<1> SUFFICES ASSUME DecoderInv, [DecoderNext]_decoderVars PROVE DecoderInv'
  OBVIOUS
<1>0. /\ Len(log) \in Nat /\ DOMAIN log = 1..Len(log) /\ \A i \in 1..Len(log) : log[i].t \in Int
      /\ clock \in Nat /\ started \in Nat /\ started <= clock
  BY DecoderAssumption DEF DecoderInv
<1>1. LogStart \in Int
  <2>1. log # <<>> => Len(log) > 0
    BY <1>0
  <2>2. 1 \in 1..Len(log)
    BY <1>0, <2>1 DEF DecoderInv
  <2> QED BY <1>0, <2>2 DEF LogStart
<1>2. CASE Snapshot
  <2>1. CASE ReplayTime > LogEnd /\ repeat
    <3>1. Shows(DecodedTo(0, NoValues, LogStart), clock, LogStart)
      BY <1>2, <2>1 DEF Snapshot
    <3>2. NoValues = ShownBy(1..0) /\ 1..0 = {}
      <4>1. 1..0 = {}
        OBVIOUS
      <4> QED BY <4>1, NothingShown
    <3>3. /\ 0 \in 0..Len(log) /\ \A i \in 1..0 : log[i].t <= LogStart
          /\ LogStart <= LogStart + (clock - clock)
      BY <1>0, <1>1, <3>2
    <3>4. Shows(DecodedTo(0, ShownBy(1..0), LogStart), clock, LogStart)
      BY <3>1, <3>2
    <3> QED BY <1>0, <1>1, <3>3, <3>4, ShowingHolds
  <2>2. CASE ~(ReplayTime > LogEnd /\ repeat)
    <3>1. Shows(DecodedTo(index, latest, ReplayTime), started, ReplayTime)
      BY <1>2, <2>2 DEF Snapshot
    <3>2. latest = ShownBy(1..index) /\ index \in 0..Len(log)
          /\ \A i \in 1..index : log[i].t <= ReplayTime
      BY DEF DecoderInv
    <3>3. ReplayTime \in Int /\ ReplayTime <= LogStart + (clock - started)
      BY <1>0, <1>1 DEF ReplayTime
    <3>4. Shows(DecodedTo(index, ShownBy(1..index), ReplayTime), started, ReplayTime)
      BY <3>1, <3>2
    <3> QED BY <1>0, <3>2, <3>3, <3>4, ShowingHolds
  <2> QED BY <2>1, <2>2
<1>3. CASE TimePasses
  <2>1. /\ clock' = clock + 1 /\ dictionary' = dictionary /\ log' = log /\ started' = started
        /\ index' = index /\ latest' = latest /\ asOf' = asOf
    BY <1>3 DEF TimePasses
  <2>2. ReplayTime' = LogStart + ((clock + 1) - started)
    BY <2>1 DEF ReplayTime, LogStart
  <2>3. ASSUME NEW i \in 1..index PROVE log[i].t <= LogStart + ((clock + 1) - started)
    <3>1. log[i].t <= LogStart + (clock - started) /\ log[i].t \in Int
      BY <1>0 DEF DecoderInv, ReplayTime
    <3> QED BY <1>0, <1>1, <3>1
  <2>4. ShownBy(1..index)' = ShownBy(1..index)
    BY <2>1 DEF ShownBy, Carried, CarriersIn
  <2> QED BY <1>0, <2>1, <2>2, <2>3, <2>4 DEF DecoderInv
<1>4. CASE UNCHANGED decoderVars
  <2>1. /\ clock' = clock /\ dictionary' = dictionary /\ log' = log /\ started' = started
        /\ index' = index /\ latest' = latest /\ asOf' = asOf
    BY <1>4 DEF decoderVars
  <2>2. ReplayTime' = ReplayTime
    BY <2>1 DEF ReplayTime, LogStart
  <2>3. ShownBy(1..index)' = ShownBy(1..index)
    BY <2>1 DEF ShownBy, Carried, CarriersIn
  <2> QED BY <2>1, <2>2, <2>3 DEF DecoderInv
<1> QED BY <1>2, <1>3, <1>4 DEF DecoderNext

\* Whatever the log, the dictionary and the times of the snapshots, a replay shows
\* of every signal the newest value of this pass at or before the snapshot, and
\* nothing of a later frame or of the pass before (CanLogSignalReplay.snapshot).
THEOREM ReplayShowsThisPass == DecoderSpec => []ShowsThisPass
<1>1. DecoderInv => ShowsThisPass
  <2> SUFFICES ASSUME DecoderInv, asOf # Null, NEW name \in DOMAIN dictionary
               PROVE  LET carriers == {i \in DOMAIN log : log[i].t <= asOf /\ Carries(log[i], dictionary[name])}
                      IN  IF carriers = {} THEN name \notin DOMAIN latest
                          ELSE /\ name \in DOMAIN latest
                               /\ latest[name] = ExtractSignalValue(log[Max(carriers)].data, dictionary[name])
    BY DEF ShowsThisPass
  <2> DEFINE carriers == {i \in DOMAIN log : log[i].t <= asOf /\ Carries(log[i], dictionary[name])}
  <2>1. Len(log) \in Nat /\ DOMAIN log = 1..Len(log)
    BY DecoderAssumption DEF DecoderInv
  <2>2. \A i \in 1..Len(log) : i <= index <=> log[i].t <= asOf
    BY DEF DecoderInv
  <2>3. carriers = CarriersIn(1..index, name)
    BY <2>1, <2>2 DEF DecoderInv, CarriersIn
  <2>4. latest = ShownBy(1..index)
    BY DEF DecoderInv
  <2>5. DOMAIN latest = Carried(1..index)
    BY <2>4 DEF ShownBy
  <2>6. name \in DOMAIN latest <=> carriers # {}
    BY <2>3, <2>5 DEF Carried
  <2>7. carriers # {} =>
          latest[name] = ExtractSignalValue(log[Max(carriers)].data, dictionary[name])
    BY <2>3, <2>4, <2>5, <2>6, Zenon DEF ShownBy
  <2> HIDE DEF carriers
  <2>8. IF carriers = {} THEN name \notin DOMAIN latest
        ELSE /\ name \in DOMAIN latest
             /\ latest[name] = ExtractSignalValue(log[Max(carriers)].data, dictionary[name])
    BY <2>6, <2>7
  <2> QED BY <2>8 DEF carriers
<1>2. DecoderInv /\ [DecoderNext]_decoderVars => DecoderInv'
  BY DecoderNextHolds
<1>3. DecoderInit => DecoderInv
  BY DecoderInitHolds
<1> QED BY <1>1, <1>2, <1>3, PTL DEF DecoderSpec

-----------------------------------------------------------------------------
(* Fields of a payload.  The payload read as one number has its bytes as   *)
(* the digits to the base of 256, whichever end comes first; so each bit   *)
(* the code takes is a bit of that number, and reading bits or bytes one   *)
(* on top of another gives the piece of the number they make up.           *)

\* Shifting by one place more doubles.
LEMMA Pow2Is ==
  /\ Pow2[0] = 1
  /\ \A n \in Nat : Pow2[n] \in Nat \ {0} /\ Pow2[n + 1] = 2 * Pow2[n]
<1> DEFINE next == [v \in Nat \ {0} |-> 2 * v]
           Step(p) == [n \in Nat |-> IF n = 0 THEN 1 ELSE 2 * p[n - 1]]
<1>1. 1 \in Nat \ {0} /\ next \in [Nat \ {0} -> Nat \ {0}]
  OBVIOUS
<1>2. PICK f \in [Nat -> Nat \ {0}] : f[0] = 1 /\ \A n \in Nat : f[n + 1] = next[f[n]]
  <2> DEFINE V == Nat \ {0}
             one == 1
  <2>1. one \in V /\ next \in [V -> V]
    BY <1>1
  <2> HIDE DEF next, V, one
  <2>2. \E f \in [Nat -> V] : f[0] = one /\ \A n \in Nat : f[n + 1] = next[f[n]]
    BY <2>1, RecursionExists
  <2> QED BY <2>2 DEF V, one
<1>3. f = Step(f)
  <2>1. ASSUME NEW n \in Nat PROVE f[n] = IF n = 0 THEN 1 ELSE 2 * f[n - 1]
    <3>1. CASE n = 0
      BY <1>2, <3>1
    <3>2. CASE n # 0
      <4>1. n - 1 \in Nat /\ (n - 1) + 1 = n
        BY <3>2
      <4>2. f[n] = next[f[n - 1]]
        BY <1>2, <4>1
      <4> QED BY <3>2, <4>1, <4>2
    <3> QED BY <3>1, <3>2
  <2> QED BY <2>1
<1>4. Pow2 = Step(Pow2)
  <2>1. Pow2 = CHOOSE p : p = Step(p)
    BY Zenon DEF Pow2
  <2> HIDE DEF Step
  <2> QED BY <1>3, <2>1, Zenon
<1>5. \A n \in Nat : Pow2[n] = IF n = 0 THEN 1 ELSE 2 * Pow2[n - 1]
  BY <1>4, Zenon
<1>6. \A n \in Nat : Pow2[n + 1] = 2 * Pow2[n]
  <2> SUFFICES ASSUME NEW n \in Nat PROVE Pow2[n + 1] = 2 * Pow2[n]
    OBVIOUS
  <2>1. n + 1 \in Nat /\ n + 1 # 0 /\ (n + 1) - 1 = n
    OBVIOUS
  <2> QED BY <1>5, <2>1
<1> DEFINE Right == {n \in Nat : Pow2[n] \in Nat \ {0}}
<1>7. 0 \in Right /\ \A n \in Nat : n \in Right => n + 1 \in Right
  BY <1>5, <1>6
<1>8. \A n \in Nat : n \in Right
  <2> HIDE DEF Right
  <2> QED BY <1>7, NatInductionOnSets
<1> QED BY <1>5, <1>6, <1>8

\* Shifting twice multiplies.
LEMMA Pow2Adds ==
  \A a, b \in Nat : Pow2[a + b] = Pow2[a] * Pow2[b]
<1> SUFFICES ASSUME NEW a \in Nat PROVE \A b \in Nat : Pow2[a + b] = Pow2[a] * Pow2[b]
  OBVIOUS
<1> DEFINE Right == {b \in Nat : Pow2[a + b] = Pow2[a] * Pow2[b]}
<1>1. 0 \in Right
  BY Pow2Is
<1>2. ASSUME NEW b \in Nat, b \in Right PROVE b + 1 \in Right
  <2>1. a + (b + 1) = (a + b) + 1 /\ a + b \in Nat
    OBVIOUS
  <2>2. Pow2[a + (b + 1)] = 2 * Pow2[a + b]
    BY <2>1, Pow2Is
  <2>3. Pow2[b + 1] = 2 * Pow2[b] /\ Pow2[b] \in Nat /\ Pow2[a] \in Nat
    BY Pow2Is
  <2>4. \A x, y \in Nat : 2 * (x * y) = x * (2 * y)
    OBVIOUS
  <2>5. Pow2[a + (b + 1)] = Pow2[a] * Pow2[b + 1]
    BY <1>2, <2>2, <2>3, <2>4
  <2> QED BY <2>5
<1>3. \A b \in Nat : b \in Right
  <2> HIDE DEF Right
  <2> QED BY <1>1, <1>2, NatInductionOnSets
<1> QED BY <1>3

\* As far as a byte goes.
LEMMA Pow2Small ==
  /\ Pow2[1] = 2 /\ Pow2[2] = 4 /\ Pow2[3] = 8 /\ Pow2[4] = 16
  /\ Pow2[5] = 32 /\ Pow2[6] = 64 /\ Pow2[7] = 128 /\ Pow2[8] = 256
<1>1. /\ Pow2[0 + 1] = 2 * Pow2[0] /\ Pow2[1 + 1] = 2 * Pow2[1] /\ Pow2[2 + 1] = 2 * Pow2[2]
      /\ Pow2[3 + 1] = 2 * Pow2[3] /\ Pow2[4 + 1] = 2 * Pow2[4] /\ Pow2[5 + 1] = 2 * Pow2[5]
      /\ Pow2[6 + 1] = 2 * Pow2[6] /\ Pow2[7 + 1] = 2 * Pow2[7]
  BY Pow2Is
<1> QED BY <1>1, Pow2Is

-----------------------------------------------------------------------------
(* A payload as a number                                                   *)

\* The byte with p bytes below it, and where it is in the payload.
PlaceOf(n, endian, p) == IF endian = "big" THEN n - p ELSE p + 1
ByteAbove(data, endian, p) == data[PlaceOf(Len(data), endian, p)]

\* A number made of the n lowest bytes: it is below the next power, and each byte
\* is found by dividing.
DigitsAre(x, data, endian, n) ==
  /\ x \in Nat /\ x < Pow2[8 * n]
  /\ \A p \in 0..(n - 1) : (x \div Pow2[8 * p]) % 256 = ByteAbove(data, endian, p)

\* One more byte on top of those below.
LEMMA DigitOnTop ==
  ASSUME NEW data, NEW endian, NEW n \in Nat, NEW x, DigitsAre(x, data, endian, n),
         ByteAbove(data, endian, n) \in 0..255
  PROVE  DigitsAre(ByteAbove(data, endian, n) * Pow2[8 * n] + x, data, endian, n + 1)
<1> DEFINE b == ByteAbove(data, endian, n)
           w == Pow2[8 * n]
           y == w * b + x
<1>1. w \in Nat \ {0} /\ b \in 0..255 /\ x \in 0..(w - 1)
  <2>1. 8 * n \in Nat
    OBVIOUS
  <2>2. w \in Nat \ {0}
    BY <2>1, Pow2Is
  <2> QED BY <2>2 DEF DigitsAre
<1>2. Pow2[8 * (n + 1)] = w * 256
  <2>1. 8 * (n + 1) = 8 * n + 8 /\ 8 * n \in Nat /\ 8 \in Nat
    OBVIOUS
  <2>2. Pow2[8 * n + 8] = Pow2[8 * n] * Pow2[8]
    BY <2>1, Pow2Adds, Zenon
  <2> QED BY <2>1, <2>2, Pow2Small, Zenon
<1> HIDE DEF b, w
<1>3. y \in Nat /\ y < w * 256
  <2>1. w * b + w <= w * 256
    <3>1. b \in Nat /\ 256 \in Nat /\ b < 256 /\ w \in Nat
      BY <1>1
    <3> QED BY <3>1, MoreTimes
  <2> DEFINE wb == w * b
  <2>2. wb \in Nat
    BY <1>1
  <2> HIDE DEF wb
  <2>3. wb + x \in Nat /\ wb + x < wb + w
    BY <1>1, <2>2
  <2>4. w * 256 \in Nat /\ wb + w <= w * 256
    BY <1>1, <2>1 DEF wb
  <2>5. wb + x < w * 256
    BY <1>1, <2>2, <2>3, <2>4
  <2> QED BY <2>3, <2>5, Zenon DEF wb
<1>4. y \div w = b
  <2>1. w \in Nat \ {0} /\ b \in Nat /\ x \in 0..(w - 1)
    BY <1>1
  <2> QED BY <2>1, DivIs, Zenon
<1>5. ASSUME NEW p \in 0..n PROVE (y \div Pow2[8 * p]) % 256 = ByteAbove(data, endian, p)
  <2>1. CASE p = n
    BY <1>1, <1>4, <2>1 DEF b, w
  <2>2. CASE p # n
    <3>1. p \in 0..(n - 1) /\ (n - 1) - p \in Nat /\ 8 * p \in Nat /\ 8 * ((n - 1) - p) \in Nat
          /\ 8 * n = (8 * p + 8) + 8 * ((n - 1) - p)
      BY <2>2
    <3> DEFINE v == Pow2[8 * p]
               e == Pow2[8 * ((n - 1) - p)]
               q == x \div v
               r == x % v
    <3>2. v \in Nat \ {0} /\ e \in Nat \ {0}
      BY <3>1, Pow2Is
    <3>3. w = (v * 256) * e
      <4>1. 8 * p + 8 \in Nat /\ 8 \in Nat
        BY <3>1
      <4>2. Pow2[8 * p + 8] = Pow2[8 * p] * Pow2[8]
        BY <3>1, <4>1, Pow2Adds, Zenon
      <4>3. Pow2[(8 * p + 8) + 8 * ((n - 1) - p)] = Pow2[8 * p + 8] * Pow2[8 * ((n - 1) - p)]
        BY <3>1, <4>1, Pow2Adds, Zenon
      <4>4. w = Pow2[(8 * p + 8) + 8 * ((n - 1) - p)] /\ Pow2[8] = 256
        BY <3>1, Pow2Small DEF w
      <4>5. Pow2[8 * p + 8] = v * 256
        BY <4>2, <4>4, Zenon
      <4> QED BY <4>3, <4>4, <4>5, Zenon
    <3>4. q % 256 = ByteAbove(data, endian, p)
      BY <3>1 DEF DigitsAre
    <3> HIDE DEF v, e
    <3>5. q \in Nat /\ r \in 0..(v - 1) /\ x = v * q + r
      BY <1>1, <3>2
    <3> HIDE DEF q, r
    <3> DEFINE c == e * b
    <3>6. c \in Nat
      BY <1>1, <3>2
    <3>7. w * b = v * (256 * c)
      BY <1>1, <3>2, <3>3
    <3> HIDE DEF c
    <3>8. y = v * (256 * c + q) + r
      <4>1. v * (256 * c + q) = v * (256 * c) + v * q
        BY <3>2, <3>5, <3>6
      <4> DEFINE s == v * (256 * c)
                 u == v * q
      <4>2. s \in Int /\ u \in Int
        BY <3>2, <3>5, <3>6
      <4>3. w * b = s /\ x = u + r /\ v * (256 * c + q) = s + u
        BY <3>5, <3>7, <4>1
      <4> HIDE DEF s, u
      <4>4. s + (u + r) = (s + u) + r
        BY <3>5, <4>2
      <4> QED BY <4>3, <4>4
    <3> HIDE DEF y
    <3>9. y \div v = 256 * c + q
      <4>1. 256 * c + q \in Nat
        BY <3>5, <3>6
      <4> QED BY <3>2, <3>5, <3>8, <4>1, DivIs
    <3>10. (256 * c + q) % 256 = q % 256
      BY <3>5, <3>6
    <3> QED BY <3>4, <3>9, <3>10 DEF v
  <2> QED BY <2>1, <2>2
<1>6. (n + 1) - 1 = n /\ b * w + x = y
  BY <1>1
<1> HIDE DEF y
<1>7. DigitsAre(y, data, endian, n + 1)
  BY <1>2, <1>3, <1>5, <1>6 DEF DigitsAre
<1> QED BY <1>6, <1>7 DEF b, w

\* A payload is a sequence of bytes.
LEMMA BytesOfPayload ==
  ASSUME NEW data \in Seq(0..255)
  PROVE  /\ Len(data) \in Nat /\ DOMAIN data = 1..Len(data) /\ data \in [1..Len(data) -> 0..255]
         /\ \A i \in 1..Len(data) : data[i] \in 0..255
<1>1. Len(data) \in Nat /\ DOMAIN data = 1..Len(data) /\ data \in [1..Len(data) -> 0..255]
  <2> DEFINE Byte == 0..255
  <2>1. data \in Seq(Byte)
    OBVIOUS
  <2> HIDE DEF Byte
  <2>2. Len(data) \in Nat /\ DOMAIN data = 1..Len(data) /\ data \in [1..Len(data) -> Byte]
    BY <2>1, LenProperties
  <2> QED BY <2>2, Zenon DEF Byte
<1> QED BY <1>1

\* The bytes of a payload are the digits of its number, to the base of 256.
LEMMA PayloadDigits ==
  ASSUME NEW data \in Seq(0..255), NEW endian
  PROVE  DigitsAre(PayloadNumber(data, endian), data, endian, Len(data))
<1> DEFINE n == Len(data)
           place(i) == IF endian = "big" THEN Len(data) - i ELSE i - 1
           h == [i \in DOMAIN data |-> data[i] * Pow2[8 * place(i)]]
           at(p) == PlaceOf(n, endian, p)
           Below(k) == {at(p) : p \in 0..(k - 1)}
<1>1. n \in Nat /\ DOMAIN data = 1..n /\ \A i \in 1..n : data[i] \in 0..255
  BY BytesOfPayload
<1>2. PayloadNumber(data, endian) = FoldFunction(+, 0, h)
  BY Zenon DEF PayloadNumber
<1>3. ASSUME NEW i \in 1..n PROVE place(i) \in Nat /\ data[i] * Pow2[8 * place(i)] \in Int
  <2>1. place(i) \in Nat
    OBVIOUS
  <2> HIDE DEF place, n
  <2> DEFINE m == 8 * place(i)
             b == data[i]
  <2>2. m \in Nat
    BY <2>1
  <2>3. b \in Int
    <3>1. b \in 0..255
      BY <1>1, Zenon
    <3> HIDE DEF b
    <3> QED BY <3>1
  <2> HIDE DEF m, b
  <2>4. Pow2[m] \in Int
    <3>1. Pow2[m] \in Nat \ {0}
      BY <2>2, Pow2Is, Zenon
    <3> QED BY <3>1
  <2>5. b * Pow2[m] \in Int
    BY <2>3, <2>4
  <2> QED BY <2>1, <2>5 DEF m, b
<1>4. ASSUME NEW p \in 0..(n - 1)
      PROVE  at(p) \in 1..n /\ h[at(p)] = ByteAbove(data, endian, p) * Pow2[8 * p]
  <2>1. at(p) \in 1..n /\ place(at(p)) = p
    BY <1>1 DEF PlaceOf
  <2>2. data[at(p)] = ByteAbove(data, endian, p)
    BY DEF ByteAbove
  <2>3. h[at(p)] = data[at(p)] * Pow2[8 * place(at(p))]
    <3> HIDE DEF place, at, n
    <3> QED BY <1>1, <2>1
  <2> QED BY <2>1, <2>2, <2>3
<1>5. Below(0) = {}
  OBVIOUS
<1>6. Below(n) = 1..n
  <2>1. ASSUME NEW i \in 1..n PROVE \E p \in 0..(n - 1) : at(p) = i
    <3>1. place(i) \in 0..(n - 1) /\ at(place(i)) = i
      BY <1>1 DEF PlaceOf
    <3> QED BY <3>1
  <2> HIDE DEF at, place, n
  <2> QED BY <1>4, <2>1
<1>7. ASSUME NEW k \in 0..(n - 1)
      PROVE  at(k) \in Below(k + 1) /\ Below(k + 1) \ {at(k)} = Below(k) /\ Below(k + 1) \in SUBSET (1..n)
  <2>1. k \in 0..((k + 1) - 1)
    OBVIOUS
  <2>2. \A p \in 0..((k + 1) - 1) : p \in 0..(k - 1) \/ p = k
    OBVIOUS
  <2>3. \A p \in 0..(k - 1) : p \in 0..((k + 1) - 1) /\ at(p) # at(k)
    BY <1>1 DEF PlaceOf
  <2>4. \A p \in 0..((k + 1) - 1) : at(p) \in 1..n
    <3> HIDE DEF at, n
    <3>1. \A p \in 0..((k + 1) - 1) : p \in 0..(n - 1)
      BY <1>1
    <3> QED BY <1>4, <3>1
  <2> HIDE DEF at, n
  <2> QED BY <2>1, <2>2, <2>3, <2>4
<1>8. h \in [1..n -> Int] /\ DOMAIN h = 1..n /\ IsFiniteSet(1..n)
  <2> HIDE DEF place, n
  <2> QED BY <1>1, <1>3, FS_Interval
<1> HIDE DEF h, at, Below, place, n
<1>9. PICK g : AreSums(g, h) /\ FoldFunction(+, 0, h) = g[DOMAIN h]
  BY <1>8, SumsExist
<1>10. g[{}] = 0
  BY <1>9 DEF AreSums
<1> DEFINE Right == {k \in Nat : k <= n => DigitsAre(g[Below(k)], data, endian, k)}
<1>11. 0 \in Right
  <2>1. DigitsAre(0, data, endian, 0)
    BY Pow2Is DEF DigitsAre
  <2> QED BY <1>5, <1>10, <2>1
<1>12. ASSUME NEW k \in Nat, k \in Right PROVE k + 1 \in Right
  <2> SUFFICES ASSUME k + 1 <= n PROVE DigitsAre(g[Below(k + 1)], data, endian, k + 1)
    OBVIOUS
  <2>1. k \in 0..(n - 1) /\ k <= n /\ n \in Nat
    BY <1>1
  <2>2. g[Below(k + 1)] = h[at(k)] + g[Below(k)]
    <3>1. Below(k + 1) \in SUBSET DOMAIN h /\ at(k) \in Below(k + 1)
      BY <1>7, <1>8, <2>1
    <3>2. g[Below(k + 1)] = h[at(k)] + g[Below(k + 1) \ {at(k)}]
      <4> DEFINE T == Below(k + 1)
                 e == at(k)
      <4>1. T \in SUBSET DOMAIN h /\ e \in T
        BY <3>1
      <4> HIDE DEF T, e
      <4>2. AreSums(g, h)
        BY <1>9, Zenon
      <4>3. g[T] = h[e] + g[T \ {e}]
        BY <4>1, <4>2, SumTakes
      <4> QED BY <4>3 DEF T, e
    <3> QED BY <1>7, <2>1, <3>2
  <2>3. DigitsAre(g[Below(k)], data, endian, k)
    BY <1>12, <2>1
  <2>4. ByteAbove(data, endian, k) \in 0..255
    <3>1. at(k) \in 1..n
      BY <1>4, <2>1
    <3> QED BY <1>1, <3>1 DEF ByteAbove, at, n
  <2>5. DigitsAre(ByteAbove(data, endian, k) * Pow2[8 * k] + g[Below(k)], data, endian, k + 1)
    BY <2>3, <2>4, DigitOnTop
  <2> QED BY <1>4, <2>1, <2>2, <2>5
<1>13. \A k \in Nat : k \in Right
  <2> HIDE DEF Right
  <2> QED BY <1>11, <1>12, NatInductionOnSets
<1>14. DigitsAre(g[Below(n)], data, endian, n)
  BY <1>1, <1>13
<1> QED BY <1>2, <1>6, <1>8, <1>9, <1>14 DEF n

-----------------------------------------------------------------------------
(* Bytes and bits of the number                                            *)

\* A bit of the number is a bit of the byte it is in.
SameBit(x, b, r) == (x \div Pow2[r]) % 2 = (b \div Pow2[r]) % 2

LEMMA BitOfByte ==
  ASSUME NEW x \in Nat, NEW b \in 0..255, x % 256 = b, NEW r \in 0..7
  PROVE  SameBit(x, b, r)
<1> DEFINE k == x \div 256
<1>1. x = 256 * k + b
  OBVIOUS
<1>2. k \in Nat
  OBVIOUS
<1> HIDE DEF k
<1>3. CASE r = 0
  <2>1. Pow2[r] = 1 /\ (256 * k + b) \div 1 = 256 * k + (b \div 1)
    BY <1>2, <1>3, Pow2Is
  <2> QED BY <1>1, <1>2, <2>1 DEF SameBit
<1>4. CASE r = 1
  <2>1. Pow2[r] = 2 /\ (256 * k + b) \div 2 = 128 * k + (b \div 2)
    BY <1>2, <1>4, Pow2Small
  <2> QED BY <1>1, <1>2, <2>1 DEF SameBit
<1>5. CASE r = 2
  <2>1. Pow2[r] = 4 /\ (256 * k + b) \div 4 = 64 * k + (b \div 4)
    BY <1>2, <1>5, Pow2Small
  <2> QED BY <1>1, <1>2, <2>1 DEF SameBit
<1>6. CASE r = 3
  <2>1. Pow2[r] = 8 /\ (256 * k + b) \div 8 = 32 * k + (b \div 8)
    BY <1>2, <1>6, Pow2Small
  <2> QED BY <1>1, <1>2, <2>1 DEF SameBit
<1>7. CASE r = 4
  <2>1. Pow2[r] = 16 /\ (256 * k + b) \div 16 = 16 * k + (b \div 16)
    BY <1>2, <1>7, Pow2Small
  <2> QED BY <1>1, <1>2, <2>1 DEF SameBit
<1>8. CASE r = 5
  <2>1. Pow2[r] = 32 /\ (256 * k + b) \div 32 = 8 * k + (b \div 32)
    BY <1>2, <1>8, Pow2Small
  <2> QED BY <1>1, <1>2, <2>1 DEF SameBit
<1>9. CASE r = 6
  <2>1. Pow2[r] = 64 /\ (256 * k + b) \div 64 = 4 * k + (b \div 64)
    BY <1>2, <1>9, Pow2Small
  <2> QED BY <1>1, <1>2, <2>1 DEF SameBit
<1>10. CASE r = 7
  <2>1. Pow2[r] = 128 /\ (256 * k + b) \div 128 = 2 * k + (b \div 128)
    BY <1>2, <1>10, Pow2Small
  <2> QED BY <1>1, <1>2, <2>1 DEF SameBit
<1> QED BY <1>3, <1>4, <1>5, <1>6, <1>7, <1>8, <1>9, <1>10

\* A bit of the number of a payload is a bit of one of its bytes.
BitsAgree(x, data, endian, p, r) ==
  (x \div Pow2[8 * p + r]) % 2 = (ByteAbove(data, endian, p) \div Pow2[r]) % 2

LEMMA BitAbove ==
  ASSUME NEW data \in Seq(0..255), NEW endian, NEW x, DigitsAre(x, data, endian, Len(data)),
         NEW p \in 0..(Len(data) - 1), NEW r \in 0..7, ByteAbove(data, endian, p) \in 0..255
  PROVE  BitsAgree(x, data, endian, p, r)
<1> DEFINE v == Pow2[8 * p]
           w == Pow2[r]
           y == x \div v
           b == ByteAbove(data, endian, p)
<1>1. 8 * p \in Nat /\ r \in Nat /\ p \in Nat
  OBVIOUS
<1>2. v \in Nat \ {0} /\ w \in Nat \ {0} /\ x \in Nat
  BY <1>1, Pow2Is DEF DigitsAre
<1>3. y % 256 = b
  BY DEF DigitsAre
<1>4. Pow2[8 * p + r] = v * w
  BY <1>1, Pow2Adds, Zenon
<1>5. b \in 0..255
  OBVIOUS
<1> HIDE DEF v, w, b
<1>6. y \in Nat
  BY <1>2, DivStays, Zenon
<1>7. x \div (v * w) = y \div w
  BY <1>2, DivTwice
<1> HIDE DEF y
<1>8. (y \div w) % 2 = (b \div w) % 2
  <2>1. SameBit(y, b, r)
    BY <1>3, <1>5, <1>6, BitOfByte
  <2> QED BY <2>1, Zenon DEF w, SameBit
<1> QED BY <1>4, <1>7, <1>8, Zenon DEF b, w, BitsAgree
-----------------------------------------------------------------------------
(* Fields                                                                  *)

\* Numbers read one after another, each on top of those before.
RunUpTo(s, n, base, val) ==
  /\ DOMAIN s = 1..n /\ val[0] = 0
  /\ \A k \in 1..n : s[k] \in Nat /\ val[k] = base * val[k - 1] + s[k]

\* Byte after byte, each on top of 256 times those before.
LEMMA BytesInTurn ==
  ASSUME NEW n \in Nat, NEW s, NEW val, RunUpTo(s, n, 256, val)
  PROVE  FoldLeft(ThenByte, 0, s) = val[n]
<1> DEFINE next == [p \in (1..n) \X Nat |-> ThenByte(p[2], s[p[1]])]
           Step(f) == [T \in SUBSET DOMAIN s |->
                         IF T = {} THEN 0 ELSE ThenByte(f[T \ {Max(T)}], s[Max(T)])]
           iter == CHOOSE iter : iter = Step(iter)
<1>0. /\ DOMAIN s = 1..n /\ \A i \in 1..n : s[i] \in Nat
      /\ val[0] = 0 /\ \A k \in 1..n : val[k] = 256 * val[k - 1] + s[k]
  BY DEF RunUpTo
<1>1. FoldLeft(ThenByte, 0, s) = iter[DOMAIN s]
  BY Zenon DEF FoldLeft, MapThenFoldSet
<1> HIDE DEF iter
<1>2. next \in [(1..n) \X Nat -> Nat]
  <2>1. ASSUME NEW p \in (1..n) \X Nat PROVE ThenByte(p[2], s[p[1]]) \in Nat
    <3>1. p[2] \in Nat /\ s[p[1]] \in Nat
      BY <1>0
    <3> QED BY <3>1 DEF ThenByte
  <2> QED BY <2>1
<1>3. PICK g \in [SUBSET (1..n) -> Nat] : IsListFold(g, n, 0, next)
  <2>1. 0 \in Nat
    OBVIOUS
  <2> HIDE DEF next
  <2> QED BY <1>2, <2>1, ListFoldExists
<1>4. g = Step(g)
  <2>1. ASSUME NEW T \in SUBSET (1..n), T # {}
        PROVE  g[T] = ThenByte(g[T \ {Max(T)}], s[Max(T)])
    <3>1. Max(T) \in 1..n /\ g[T \ {Max(T)}] \in Nat
      BY <2>1, GreatestIndex
    <3>2. g[T] = next[<<Max(T), g[T \ {Max(T)}]>>]
      <4> HIDE DEF next
      <4> QED BY <1>3, <2>1, Zenon DEF IsListFold
    <3> QED BY <3>1, <3>2
  <2>2. g = [T \in SUBSET (1..n) |-> g[T]]
    OBVIOUS
  <2>3. g[{}] = 0
    <3> HIDE DEF next
    <3> QED BY <1>3, Zenon DEF IsListFold
  <2> QED BY <1>0, <2>1, <2>2, <2>3, Zenon
<1>5. iter = Step(iter)
  <2> HIDE DEF Step
  <2> QED BY <1>4, Zenon DEF iter
<1> DEFINE Right == {k \in Nat : k <= n => iter[1..k] = val[k]}
<1>6. 0 \in Right
  <2>1. 1..0 = {} /\ {} \in SUBSET DOMAIN s
    OBVIOUS
  <2>2. iter[{}] = 0
    BY <1>5, <2>1, Zenon
  <2> QED BY <1>0, <2>1, <2>2
<1>7. ASSUME NEW k \in Nat, k \in Right PROVE k + 1 \in Right
  <2> SUFFICES ASSUME k + 1 <= n PROVE iter[1..(k + 1)] = val[k + 1]
    OBVIOUS
  <2> DEFINE T == 1..(k + 1)
             e == k + 1
  <2>1. e \in T /\ \A j \in T : j \in 1..n /\ e >= j /\ j \in Int
    OBVIOUS
  <2>2. T \ {e} = 1..k
    OBVIOUS
  <2>3. T \in SUBSET DOMAIN s /\ T # {} /\ Max(T) = e
    <3> HIDE DEF T, e
    <3> QED BY <1>0, <2>1 DEF Max
  <2>4. iter[1..k] = val[k] /\ e \in 1..n /\ e - 1 = k
    BY <1>7
  <2> HIDE DEF T, e
  <2>5. iter[T] = ThenByte(iter[1..k], s[e])
    BY <1>5, <2>2, <2>3, Zenon
  <2>6. val[e] = 256 * val[k] + s[e]
    BY <1>0, <2>4
  <2>7. iter[T] = val[e]
    BY <2>4, <2>5, <2>6, Zenon DEF ThenByte
  <2> QED BY <2>7 DEF T, e
<1>8. \A k \in Nat : k \in Right
  <2> HIDE DEF Right
  <2> QED BY <1>6, <1>7, NatInductionOnSets
<1>9. iter[1..n] = val[n]
  <2>1. n \in Right /\ n <= n
    BY <1>8
  <2> QED BY <2>1
<1> QED BY <1>0, <1>1, <1>9

\* The same with bits.
LEMMA BitsInTurn ==
  ASSUME NEW n \in Nat, NEW s, NEW val, RunUpTo(s, n, 2, val)
  PROVE  FoldLeft(ThenBit, 0, s) = val[n]
<1> DEFINE next == [p \in (1..n) \X Nat |-> ThenBit(p[2], s[p[1]])]
           Step(f) == [T \in SUBSET DOMAIN s |->
                         IF T = {} THEN 0 ELSE ThenBit(f[T \ {Max(T)}], s[Max(T)])]
           iter == CHOOSE iter : iter = Step(iter)
<1>0. /\ DOMAIN s = 1..n /\ \A i \in 1..n : s[i] \in Nat
      /\ val[0] = 0 /\ \A k \in 1..n : val[k] = 2 * val[k - 1] + s[k]
  BY DEF RunUpTo
<1>1. FoldLeft(ThenBit, 0, s) = iter[DOMAIN s]
  BY Zenon DEF FoldLeft, MapThenFoldSet
<1> HIDE DEF iter
<1>2. next \in [(1..n) \X Nat -> Nat]
  <2>1. ASSUME NEW p \in (1..n) \X Nat PROVE ThenBit(p[2], s[p[1]]) \in Nat
    <3>1. p[2] \in Nat /\ s[p[1]] \in Nat
      BY <1>0
    <3> QED BY <3>1 DEF ThenBit
  <2> QED BY <2>1
<1>3. PICK g \in [SUBSET (1..n) -> Nat] : IsListFold(g, n, 0, next)
  <2>1. 0 \in Nat
    OBVIOUS
  <2> HIDE DEF next
  <2> QED BY <1>2, <2>1, ListFoldExists
<1>4. g = Step(g)
  <2>1. ASSUME NEW T \in SUBSET (1..n), T # {}
        PROVE  g[T] = ThenBit(g[T \ {Max(T)}], s[Max(T)])
    <3>1. Max(T) \in 1..n /\ g[T \ {Max(T)}] \in Nat
      BY <2>1, GreatestIndex
    <3>2. g[T] = next[<<Max(T), g[T \ {Max(T)}]>>]
      <4> HIDE DEF next
      <4> QED BY <1>3, <2>1, Zenon DEF IsListFold
    <3> QED BY <3>1, <3>2
  <2>2. g = [T \in SUBSET (1..n) |-> g[T]]
    OBVIOUS
  <2>3. g[{}] = 0
    <3> HIDE DEF next
    <3> QED BY <1>3, Zenon DEF IsListFold
  <2> QED BY <1>0, <2>1, <2>2, <2>3, Zenon
<1>5. iter = Step(iter)
  <2> HIDE DEF Step
  <2> QED BY <1>4, Zenon DEF iter
<1> DEFINE Right == {k \in Nat : k <= n => iter[1..k] = val[k]}
<1>6. 0 \in Right
  <2>1. 1..0 = {} /\ {} \in SUBSET DOMAIN s
    OBVIOUS
  <2>2. iter[{}] = 0
    BY <1>5, <2>1, Zenon
  <2> QED BY <1>0, <2>1, <2>2
<1>7. ASSUME NEW k \in Nat, k \in Right PROVE k + 1 \in Right
  <2> SUFFICES ASSUME k + 1 <= n PROVE iter[1..(k + 1)] = val[k + 1]
    OBVIOUS
  <2> DEFINE T == 1..(k + 1)
             e == k + 1
  <2>1. e \in T /\ \A j \in T : j \in 1..n /\ e >= j /\ j \in Int
    OBVIOUS
  <2>2. T \ {e} = 1..k
    OBVIOUS
  <2>3. T \in SUBSET DOMAIN s /\ T # {} /\ Max(T) = e
    <3> HIDE DEF T, e
    <3> QED BY <1>0, <2>1 DEF Max
  <2>4. iter[1..k] = val[k] /\ e \in 1..n /\ e - 1 = k
    BY <1>7
  <2> HIDE DEF T, e
  <2>5. iter[T] = ThenBit(iter[1..k], s[e])
    BY <1>5, <2>2, <2>3, Zenon
  <2>6. val[e] = 2 * val[k] + s[e]
    BY <1>0, <2>4
  <2>7. iter[T] = val[e]
    BY <2>4, <2>5, <2>6, Zenon DEF ThenBit
  <2> QED BY <2>7 DEF T, e
<1>8. \A k \in Nat : k \in Right
  <2> HIDE DEF Right
  <2> QED BY <1>6, <1>7, NatInductionOnSets
<1>9. iter[1..n] = val[n]
  <2>1. n \in Right /\ n <= n
    BY <1>8
  <2> QED BY <2>1
<1> QED BY <1>0, <1>1, <1>9

\* Bits put at their places, the lowest first.
AddUpTo(s, n, val) ==
  /\ DOMAIN s = 1..n /\ s = [i \in 1..n |-> s[i]]
  /\ val[0] = 0 /\ \A k \in 1..n : s[k] \in Nat /\ val[k] = val[k - 1] + s[k]

LEMMA BitsAtPlaces ==
  ASSUME NEW n \in Nat, NEW s, NEW val, AddUpTo(s, n, val)
  PROVE  FoldFunction(+, 0, s) = val[n]
<1>1. DOMAIN s = 1..n /\ s \in [DOMAIN s -> Int] /\ IsFiniteSet(DOMAIN s)
  <2>1. DOMAIN s = 1..n /\ IsFiniteSet(1..n)
    BY FS_Interval DEF AddUpTo
  <2>2. s \in [1..n -> Int]
    BY DEF AddUpTo
  <2> QED BY <2>1, <2>2
<1>2. PICK g : AreSums(g, s) /\ FoldFunction(+, 0, s) = g[DOMAIN s]
  BY <1>1, SumsExist
<1>3. AreSums(g, s)
  BY <1>2, Zenon
<1>8. ASSUME NEW U \in SUBSET DOMAIN s, NEW x \in U
      PROVE  g[U] = s[x] + g[U \ {x}]
  BY <1>3, SumTakes
<1> DEFINE Right == {k \in Nat : k <= n => g[1..k] = val[k]}
<1>4. 0 \in Right
  <2>1. 1..0 = {} /\ {} \in SUBSET DOMAIN s
    OBVIOUS
  <2>2. g[{}] = 0
    BY <1>3, <2>1 DEF AreSums
  <2> QED BY <2>1, <2>2 DEF AddUpTo
<1>5. ASSUME NEW k \in Nat, k \in Right PROVE k + 1 \in Right
  <2> SUFFICES ASSUME k + 1 <= n PROVE g[1..(k + 1)] = val[k + 1]
    OBVIOUS
  <2> DEFINE T == 1..(k + 1)
             e == k + 1
  <2>1. T \in SUBSET DOMAIN s /\ e \in T /\ T \ {e} = 1..k
    BY <1>1
  <2>2. g[1..k] = val[k] /\ e \in 1..n /\ e - 1 = k
    BY <1>5
  <2>3. val[e] = val[k] + s[e] /\ s[e] \in Nat
    BY <2>2 DEF AddUpTo
  <2>6. g[1..k] \in Int
    <3>1. 1..k \in SUBSET DOMAIN s
      BY <2>1
    <3> QED BY <1>3, <3>1, Zenon DEF AreSums
  <2> HIDE DEF T, e
  <2>4. g[T] = s[e] + g[T \ {e}]
    <3>1. T \in SUBSET DOMAIN s /\ e \in T
      BY <2>1, Zenon
    <3> QED BY <1>8, <3>1, Zenon
  <2>5. g[T] = val[e]
    <3> DEFINE before == g[1..k]
               last == s[e]
    <3>1. before \in Int /\ last \in Int /\ val[k] = before /\ val[e] = val[k] + last
      BY <2>2, <2>3, <2>6
    <3>2. g[T] = last + before
      BY <2>1, <2>4, Zenon
    <3> HIDE DEF before, last
    <3> QED BY <3>1, <3>2
  <2> QED BY <2>5 DEF T, e
<1>6. \A k \in Nat : k \in Right
  <2> HIDE DEF Right
  <2> QED BY <1>4, <1>5, NatInductionOnSets
<1>7. g[1..n] = val[n]
  <2>1. n \in Right /\ n <= n
    BY <1>6
  <2> QED BY <2>1
<1> QED BY <1>1, <1>2, <1>7, Zenon

\* A piece of the number of w and c bits is its upper c bits on top of the other w.
LEMMA PieceIsTwo ==
  ASSUME NEW x \in Nat, NEW a \in Nat, NEW w \in Nat, NEW c \in Nat
  PROVE  (x \div Pow2[a]) % Pow2[w + c]
           = Pow2[w] * ((x \div Pow2[a + w]) % Pow2[c]) + ((x \div Pow2[a]) % Pow2[w])
<1> DEFINE pa == Pow2[a]
           pw == Pow2[w]
           pc == Pow2[c]
           y == x \div pa
<1>1. pa \in Nat \ {0} /\ pw \in Nat \ {0} /\ pc \in Nat \ {0}
  BY Pow2Is
<1>2. Pow2[w + c] = pw * pc /\ Pow2[a + w] = pa * pw
  BY Pow2Adds, Zenon
<1> HIDE DEF pa, pw, pc
<1>3. x \div (pa * pw) = y \div pw
  BY <1>1, DivTwice
<1>5. y \in Nat
  BY <1>1
<1> HIDE DEF y
<1>4. y % (pw * pc) = pw * ((y \div pw) % pc) + (y % pw)
  BY <1>1, <1>5, DivTwice
<1> QED BY <1>2, <1>3, <1>4, Zenon DEF y, pa, pw, pc

\* A bit of the payload is a bit of its number.
LEMMA BigBitIs ==
  ASSUME NEW data \in Seq(0..255), NEW i \in 0..(8 * Len(data) - 1)
  PROVE  BigBit(data, i) = (PayloadNumber(data, "big") \div Pow2[(8 * Len(data) - 1) - i]) % 2
<1> DEFINE n == Len(data)
           x == PayloadNumber(data, "big")
           p == (n - 1) - (i \div 8)
           r == 7 - (i % 8)
           b == ByteAbove(data, "big", p)
<1>1. n \in Nat /\ \A j \in 1..n : data[j] \in 0..255
  BY BytesOfPayload
<1>2. DigitsAre(x, data, "big", n)
  BY PayloadDigits
<1>3. /\ p \in 0..(n - 1) /\ r \in 0..7 /\ 8 * p + r = (8 * n - 1) - i
      /\ 1 + (i \div 8) \in 1..n /\ n - p = 1 + (i \div 8)
  <2> HIDE DEF n
  <2> QED BY <1>1 DEF n
<1>4. b = data[1 + (i \div 8)]
  <2> HIDE DEF n, p
  <2> QED BY <1>3 DEF ByteAbove, PlaceOf, n
<1>5. b \in 0..255
  <2>1. data[1 + (i \div 8)] \in 0..255
    <3> HIDE DEF n
    <3> QED BY <1>1, <1>3, Zenon
  <2> QED BY <1>4, <2>1
<1> HIDE DEF x, p, r, b
<1>6. (x \div Pow2[8 * p + r]) % 2 = (b \div Pow2[r]) % 2
  <2>1. /\ ByteAbove(data, "big", p) \in 0..255 /\ DigitsAre(x, data, "big", Len(data))
        /\ p \in 0..(Len(data) - 1) /\ r \in 0..7
    BY <1>2, <1>3, <1>5 DEF b
  <2>2. BitsAgree(x, data, "big", p, r)
    BY <2>1, BitAbove
  <2> QED BY <2>2, Zenon DEF b, BitsAgree
<1>7. BigBit(data, i) = (b \div Pow2[r]) % 2
  BY <1>4, Zenon DEF BigBit, r
<1> QED BY <1>3, <1>6, <1>7, Zenon DEF x, n

LEMMA LittleBitIs ==
  ASSUME NEW data \in Seq(0..255), NEW i \in 0..(8 * Len(data) - 1)
  PROVE  LittleBit(data, i) = (PayloadNumber(data, "little") \div Pow2[i]) % 2
<1> DEFINE n == Len(data)
           x == PayloadNumber(data, "little")
           p == i \div 8
           r == i % 8
           b == ByteAbove(data, "little", p)
<1>1. n \in Nat /\ \A j \in 1..n : data[j] \in 0..255
  BY BytesOfPayload
<1>2. DigitsAre(x, data, "little", n)
  BY PayloadDigits
<1>3. p \in 0..(n - 1) /\ r \in 0..7 /\ 8 * p + r = i /\ 1 + p \in 1..n /\ p + 1 = 1 + p
  <2> HIDE DEF n
  <2> QED BY <1>1 DEF n
<1>4. b = data[1 + p]
  <2> HIDE DEF n, p
  <2> QED BY <1>3 DEF ByteAbove, PlaceOf, n
<1>5. b \in 0..255
  <2>1. data[1 + p] \in 0..255
    <3> HIDE DEF n, p
    <3> QED BY <1>1, <1>3, Zenon
  <2> QED BY <1>4, <2>1
<1> HIDE DEF x, p, r, b
<1>6. (x \div Pow2[8 * p + r]) % 2 = (b \div Pow2[r]) % 2
  <2>1. /\ ByteAbove(data, "little", p) \in 0..255 /\ DigitsAre(x, data, "little", Len(data))
        /\ p \in 0..(Len(data) - 1) /\ r \in 0..7
    BY <1>2, <1>3, <1>5 DEF b
  <2>2. BitsAgree(x, data, "little", p, r)
    BY <2>1, BitAbove
  <2> QED BY <2>2, Zenon DEF b, BitsAgree
<1>7. LittleBit(data, i) = (b \div Pow2[r]) % 2
  BY <1>4, Zenon DEF LittleBit, r, p
<1> QED BY <1>3, <1>6, <1>7, Zenon DEF x

\* Fields of bits, most significant first or last.
LEMMA BigBitsRead ==
  ASSUME NEW data \in Seq(0..255), NEW start \in Nat, NEW length \in Nat,
         start + length <= 8 * Len(data)
  PROVE  ExtractBigBits(data, start, length)
           = (PayloadNumber(data, "big") \div Pow2[(8 * Len(data) - start) - length]) % Pow2[length]
<1> DEFINE n == 8 * Len(data)
           x == PayloadNumber(data, "big")
           s == [k \in 1..length |-> BigBit(data, start + k - 1)]
           t == n - start
           val == [k \in 0..length |-> (x \div Pow2[t - k]) % Pow2[k]]
<1>1. n \in Nat /\ t \in Nat /\ length <= t /\ t <= n
  BY BytesOfPayload
<1>2. x \in Nat
  BY PayloadDigits DEF DigitsAre
<1>3. ExtractBigBits(data, start, length) = FoldLeft(ThenBit, 0, s)
  BY Zenon DEF ExtractBigBits
<1> HIDE DEF x
<1>4. ASSUME NEW k \in 1..length PROVE s[k] \in Nat /\ s[k] = (x \div Pow2[t - k]) % 2
  <2>1. start + k - 1 \in 0..(n - 1) /\ (n - 1) - (start + k - 1) = t - k /\ t - k \in Nat
    BY <1>1
  <2>2. s[k] = (x \div Pow2[t - k]) % 2
    BY <2>1, BigBitIs DEF x
  <2> DEFINE w == Pow2[t - k]
             y == x \div w
  <2>3. w \in Nat \ {0}
    BY <2>1, Pow2Is
  <2> HIDE DEF w, s
  <2>4. y \in Nat
    BY <1>2, <2>3
  <2> HIDE DEF y
  <2>5. y % 2 \in Nat
    BY <2>4
  <2> QED BY <2>2, <2>5 DEF w, y
<1>5. val[0] = 0
  <2>1. Pow2[t - 0] \in Nat \ {0} /\ Pow2[0] = 1
    BY <1>1, Pow2Is
  <2> DEFINE w == Pow2[t - 0]
  <2> HIDE DEF w
  <2>2. (x \div w) % 1 = 0
    BY <1>2, <2>1 DEF w
  <2> QED BY <2>1, <2>2 DEF w
<1>6. ASSUME NEW k \in 1..length PROVE val[k] = 2 * val[k - 1] + s[k]
  <2>1. /\ t - k \in Nat /\ k - 1 \in Nat /\ 1 \in Nat /\ 1 + (k - 1) = k /\ (t - k) + 1 = t - (k - 1)
        /\ k \in 0..length /\ k - 1 \in 0..length
    BY <1>1
  <2>2. (x \div Pow2[t - k]) % Pow2[1 + (k - 1)]
          = Pow2[1] * ((x \div Pow2[(t - k) + 1]) % Pow2[k - 1]) + ((x \div Pow2[t - k]) % Pow2[1])
    BY <1>2, <2>1, PieceIsTwo
  <2>3. val[k] = (x \div Pow2[t - k]) % Pow2[k] /\ val[k - 1] = (x \div Pow2[t - (k - 1)]) % Pow2[k - 1]
    BY <2>1, Zenon
  <2>4. s[k] = (x \div Pow2[t - k]) % 2
    BY <1>4
  <2>5. 1 + (k - 1) = k /\ (t - k) + 1 = t - (k - 1) /\ Pow2[1] = 2
    BY <2>1, Pow2Small
  <2> HIDE DEF val, s, t, n
  <2>6. (x \div Pow2[t - k]) % Pow2[k]
          = 2 * ((x \div Pow2[t - (k - 1)]) % Pow2[k - 1]) + ((x \div Pow2[t - k]) % 2)
    BY <2>2, <2>5, Zenon
  <2> QED BY <2>3, <2>4, <2>6, Zenon
<1>7. DOMAIN s = 1..length
  OBVIOUS
<1> HIDE DEF s, val
<1>8. FoldLeft(ThenBit, 0, s) = val[length]
  <2>1. \A k \in 1..length : s[k] \in Nat
    BY <1>4
  <2>2. \A k \in 1..length : val[k] = 2 * val[k - 1] + s[k]
    BY <1>6
  <2>3. RunUpTo(s, length, 2, val)
    BY <1>5, <1>7, <2>1, <2>2 DEF RunUpTo
  <2> QED BY <2>3, BitsInTurn
<1>9. val[length] = (x \div Pow2[t - length]) % Pow2[length]
  BY DEF val
<1> QED BY <1>3, <1>8, <1>9, Zenon DEF x

LEMMA LittleBitsRead ==
  ASSUME NEW data \in Seq(0..255), NEW start \in Nat, NEW length \in Nat,
         start + length <= 8 * Len(data)
  PROVE  ExtractLittleBits(data, start, length)
           = (PayloadNumber(data, "little") \div Pow2[start]) % Pow2[length]
<1> DEFINE n == 8 * Len(data)
           x == PayloadNumber(data, "little")
           s == [k \in 1..length |-> LittleBit(data, start + k - 1) * Pow2[k - 1]]
           val == [k \in 0..length |-> (x \div Pow2[start]) % Pow2[k]]
<1>1. n \in Nat /\ start + length <= n
  BY BytesOfPayload
<1>2. x \in Nat
  BY PayloadDigits DEF DigitsAre
<1>3. ExtractLittleBits(data, start, length) = FoldFunction(+, 0, s)
  BY Zenon DEF ExtractLittleBits
<1> HIDE DEF x
<1>4. ASSUME NEW k \in 1..length
      PROVE  s[k] \in Nat /\ s[k] = ((x \div Pow2[start + (k - 1)]) % 2) * Pow2[k - 1]
  <2>1. start + k - 1 \in 0..(n - 1) /\ start + k - 1 = start + (k - 1)
        /\ k - 1 \in Nat /\ start + (k - 1) \in Nat
    BY <1>1
  <2>2. LittleBit(data, start + k - 1) = (x \div Pow2[start + k - 1]) % 2
    BY <2>1, LittleBitIs DEF x
  <2> DEFINE w == Pow2[start + (k - 1)]
             v == Pow2[k - 1]
  <2>3. w \in Nat \ {0} /\ v \in Nat \ {0}
    BY <2>1, Pow2Is
  <2>4. s[k] = ((x \div w) % 2) * v
    BY <2>1, <2>2
  <2> HIDE DEF w, v, s
  <2>5. (x \div w) % 2 \in Nat
    BY <1>2, <2>3
  <2>6. ((x \div w) % 2) * v \in Nat
    BY <2>3, <2>5
  <2> QED BY <2>4, <2>6 DEF w, v
<1>5. val[0] = 0
  <2>1. Pow2[start] \in Nat \ {0} /\ Pow2[0] = 1
    BY Pow2Is
  <2> DEFINE w == Pow2[start]
  <2> HIDE DEF w
  <2>2. (x \div w) % 1 = 0
    BY <1>2, <2>1 DEF w
  <2> QED BY <2>1, <2>2 DEF w
<1>6. ASSUME NEW k \in 1..length PROVE val[k] = val[k - 1] + s[k]
  <2>1. k - 1 \in Nat /\ 1 \in Nat /\ (k - 1) + 1 = k /\ k \in 0..length /\ k - 1 \in 0..length
    OBVIOUS
  <2>2. (x \div Pow2[start]) % Pow2[(k - 1) + 1]
          = Pow2[k - 1] * ((x \div Pow2[start + (k - 1)]) % Pow2[1]) + ((x \div Pow2[start]) % Pow2[k - 1])
    BY <1>2, <2>1, PieceIsTwo
  <2>3. val[k] = (x \div Pow2[start]) % Pow2[k] /\ val[k - 1] = (x \div Pow2[start]) % Pow2[k - 1]
    BY <2>1, Zenon
  <2> DEFINE w == Pow2[start]
             v == Pow2[k - 1]
             bit == (x \div Pow2[start + (k - 1)]) % 2
             low == (x \div w) % v
  <2>4. v \in Nat \ {0} /\ w \in Nat \ {0} /\ Pow2[start + (k - 1)] \in Nat \ {0}
    <3>1. start + (k - 1) \in Nat
      BY <2>1
    <3> QED BY <2>1, <3>1, Pow2Is
  <2> HIDE DEF val, s, n
  <2>5. val[k] = v * bit + low /\ val[k - 1] = low /\ s[k] = bit * v
    BY <1>4, <2>1, <2>2, <2>3, Pow2Small, Zenon
  <2>6. bit \in Nat
    <3> DEFINE u == x \div Pow2[start + (k - 1)]
    <3>1. u \in Nat
      BY <1>2, <2>4, DivStays, Zenon
    <3> HIDE DEF u
    <3>2. u % 2 \in Nat
      BY <3>1
    <3> QED BY <3>2, Zenon DEF u
  <2> HIDE DEF bit
  <2>9. x \div w \in Nat
    BY <1>2, <2>4, DivStays, Zenon
  <2> HIDE DEF w
  <2>7. low \in Nat
    BY <2>4, <2>9, DivStays, Zenon
  <2> HIDE DEF v
  <2> HIDE DEF low
  <2>8. v * bit + low = low + bit * v
    BY <2>4, <2>6, <2>7 DEF v
  <2> QED BY <2>5, <2>8
<1>7. AddUpTo(s, length, val)
  <2>1. DOMAIN s = 1..length /\ s = [k \in 1..length |-> s[k]]
    OBVIOUS
  <2> HIDE DEF s, val
  <2> QED BY <1>4, <1>5, <1>6, <2>1 DEF AddUpTo
<1> HIDE DEF s, val
<1>8. FoldFunction(+, 0, s) = val[length]
  BY <1>7, BitsAtPlaces
<1>9. val[length] = (x \div Pow2[start]) % Pow2[length]
  BY DEF val
<1> QED BY <1>3, <1>8, <1>9, Zenon DEF x

\* Whole bytes, in either order.
BytesAgree(data, endian, a, m) ==
  FromBytes(SubSeq(data, 1 + a, a + m), endian)
    = (PayloadNumber(data, endian)
         \div Pow2[8 * (IF endian = "big" THEN (Len(data) - a) - m ELSE a)]) % Pow2[8 * m]

LEMMA WholeBytesRead ==
  ASSUME NEW data \in Seq(0..255), NEW endian \in {"big", "little"}, NEW a \in Nat, NEW m \in Nat,
         a + m <= Len(data)
  PROVE  BytesAgree(data, endian, a, m)
<1> DEFINE n == Len(data)
           x == PayloadNumber(data, endian)
           sub == SubSeq(data, 1 + a, a + m)
           s == IF endian = "big" THEN sub ELSE Reverse(sub)
           t == IF endian = "big" THEN n - a ELSE a + m
           val == [k \in 0..m |-> (x \div Pow2[8 * (t - k)]) % Pow2[8 * k]]
<1>1. n \in Nat /\ \A i \in 1..n : data[i] \in 0..255
  BY BytesOfPayload
<1>2. DigitsAre(x, data, endian, n)
  BY PayloadDigits
<1>3. x \in Nat
  BY <1>2 DEF DigitsAre
<1>4. t \in Nat /\ m <= t /\ t <= n
  <2> HIDE DEF n
  <2> QED BY <1>1 DEF n
<1>5. Len(sub) = m /\ DOMAIN sub = 1..m /\ \A j \in 1..m : sub[j] = data[a + j]
  <2>1. 1 + a \in Int /\ a + m \in Int
    OBVIOUS
  <2>2. \A i \in (1 + a)..(a + m) : data[i] \in 0..255
    <3> SUFFICES ASSUME NEW i \in (1 + a)..(a + m) PROVE data[i] \in 0..255
      OBVIOUS
    <3>1. i \in 1..n
      <4> HIDE DEF n
      <4> QED BY <1>1 DEF n
    <3> QED BY <1>1, <3>1, Zenon
  <2>3. /\ sub \in Seq(0..255)
        /\ Len(sub) = IF 1 + a <= a + m THEN (a + m) - (1 + a) + 1 ELSE 0
        /\ \A j \in 1..((a + m) - (1 + a) + 1) : sub[j] = data[(1 + a) + j - 1]
    BY <2>1, <2>2, SubSeqProperties
  <2>4. Len(sub) = m
    <3> HIDE DEF sub
    <3> QED BY <2>3
  <2>5. DOMAIN sub = 1..m
    <3> HIDE DEF sub
    <3> QED BY <2>3, <2>4, LenProperties
  <2>6. ASSUME NEW j \in 1..m PROVE sub[j] = data[a + j]
    <3>1. j \in 1..((a + m) - (1 + a) + 1) /\ (1 + a) + j - 1 = a + j
      OBVIOUS
    <3> QED BY <2>3, <3>1, Zenon
  <2> QED BY <2>4, <2>5, <2>6
<1> HIDE DEF sub
<1>6. DOMAIN s = 1..m
  <2>1. DOMAIN Reverse(sub) = 1..m
    BY <1>5 DEF Reverse
  <2> QED BY <1>5, <2>1
<1>7. ASSUME NEW k \in 1..m
      PROVE  t - k \in 0..(n - 1) /\ s[k] = ByteAbove(data, endian, t - k)
  <2>1. t - k \in 0..(n - 1)
    BY <1>1, <1>4
  <2>2. CASE endian = "big"
    <3>1. s[k] = data[a + k] /\ t = n - a
      BY <1>5, <2>2
    <3>2. n - (t - k) = a + k
      <4> HIDE DEF n, t
      <4> QED BY <1>1, <3>1
    <3>3. ByteAbove(data, endian, t - k) = data[n - (t - k)]
      BY <2>2, Zenon DEF ByteAbove, PlaceOf
    <3> QED BY <2>1, <3>1, <3>2, <3>3, Zenon
  <2>3. CASE endian # "big"
    <3>1. s[k] = sub[(m - k) + 1] /\ t = a + m
      BY <1>5, <2>3 DEF Reverse
    <3>2. (m - k) + 1 \in 1..m /\ a + ((m - k) + 1) = (t - k) + 1
      <4> HIDE DEF t
      <4> QED BY <3>1
    <3>3. ByteAbove(data, endian, t - k) = data[(t - k) + 1]
      BY <2>3, Zenon DEF ByteAbove, PlaceOf
    <3>4. sub[(m - k) + 1] = data[a + ((m - k) + 1)]
      BY <1>5, <3>2, Zenon
    <3> HIDE DEF t, s
    <3> QED BY <2>1, <3>1, <3>2, <3>3, <3>4, Zenon
  <2> QED BY <2>2, <2>3
<1> HIDE DEF x, s, t
<1>8. ASSUME NEW k \in 1..m
      PROVE  s[k] \in Nat /\ s[k] = (x \div Pow2[8 * (t - k)]) % 256
  <2>1. t - k \in 0..(n - 1) /\ s[k] = ByteAbove(data, endian, t - k)
    BY <1>7
  <2> DEFINE w == Pow2[8 * (t - k)]
             y == x \div w
  <2>2. y % 256 = s[k]
    BY <1>2, <2>1 DEF DigitsAre
  <2>3. w \in Nat \ {0}
    <3>1. 8 * (t - k) \in Nat
      BY <2>1
    <3> QED BY <3>1, Pow2Is
  <2> HIDE DEF w
  <2>4. y \in Nat
    BY <1>3, <2>3
  <2> HIDE DEF y
  <2>5. y % 256 \in Nat
    BY <2>4
  <2> QED BY <2>2, <2>5, Zenon DEF y, w
<1>9. val[0] = 0
  <2> DEFINE w == Pow2[8 * (t - 0)]
  <2>1. w \in Nat \ {0} /\ Pow2[8 * 0] = 1
    <3>1. 8 * (t - 0) \in Nat /\ 8 * 0 = 0
      BY <1>4
    <3> QED BY <3>1, Pow2Is
  <2>2. val[0] = (x \div w) % Pow2[8 * 0]
    OBVIOUS
  <2> HIDE DEF w, val
  <2>3. (x \div w) % 1 = 0
    BY <1>3, <2>1
  <2> QED BY <2>1, <2>2, <2>3
<1>10. ASSUME NEW k \in 1..m PROVE val[k] = 256 * val[k - 1] + s[k]
  <2> DEFINE u == 8 * (t - k)
             c == 8 * (k - 1)
  <2>1. /\ u \in Nat /\ c \in Nat /\ 8 \in Nat /\ 8 + c = 8 * k /\ u + 8 = 8 * (t - (k - 1))
        /\ k \in 0..m /\ k - 1 \in 0..m
    BY <1>4
  <2>2. val[k] = (x \div Pow2[u]) % Pow2[8 * k] /\ val[k - 1] = (x \div Pow2[8 * (t - (k - 1))]) % Pow2[c]
    BY <2>1, Zenon
  <2>3. s[k] = (x \div Pow2[u]) % 256
    BY <1>8
  <2> HIDE DEF val, u, c
  <2>4. (x \div Pow2[u]) % Pow2[8 + c]
          = Pow2[8] * ((x \div Pow2[u + 8]) % Pow2[c]) + ((x \div Pow2[u]) % Pow2[8])
    BY <1>3, <2>1, PieceIsTwo
  <2>5. 8 + c = 8 * k /\ u + 8 = 8 * (t - (k - 1)) /\ Pow2[8] = 256
    BY <2>1, Pow2Small
  <2>6. (x \div Pow2[u]) % Pow2[8 * k]
          = 256 * ((x \div Pow2[8 * (t - (k - 1))]) % Pow2[c]) + ((x \div Pow2[u]) % 256)
    BY <2>4, <2>5, Zenon
  <2> QED BY <2>2, <2>3, <2>6, Zenon
<1> HIDE DEF val
<1>11. FoldLeft(ThenByte, 0, s) = val[m]
  <2>1. \A k \in 1..m : s[k] \in Nat
    BY <1>8
  <2>2. \A k \in 1..m : val[k] = 256 * val[k - 1] + s[k]
    BY <1>10
  <2>3. RunUpTo(s, m, 256, val)
    BY <1>6, <1>9, <2>1, <2>2 DEF RunUpTo
  <2> QED BY <2>3, BytesInTurn
<1>12. val[m] = (x \div Pow2[8 * (t - m)]) % Pow2[8 * m]
  BY DEF val
<1>13. FromBytes(sub, endian) = FoldLeft(ThenByte, 0, s)
  BY Zenon DEF FromBytes, s
<1>14. t - m = IF endian = "big" THEN (n - a) - m ELSE a
  <2> HIDE DEF n
  <2> QED BY <1>1 DEF t
<1> QED BY <1>11, <1>12, <1>13, <1>14, Zenon DEF x, sub, BytesAgree

\* A field of a payload it fits in is that piece of the number.
LEMMA FieldIsExact ==
  ASSUME NEW data \in Seq(0..255), NEW f, ValidField(f), Fits(data, f.start, f.length)
  PROVE  ExtractSignalValue(data, f) = FieldOf(data, f)
<1> DEFINE n == Len(data)
           start == f.start
           length == f.length
           x == PayloadNumber(data, f.endian)
           shift == IF f.endian = "big" THEN 8 * n - start - length ELSE start
           piece == (x \div Pow2[shift]) % Pow2[length]
           whole == start % 8 = 0 /\ length % 8 = 0
           read == IF whole
                   THEN FromBytes(SubSeq(data, 1 + (start \div 8), (start + length) \div 8), f.endian)
                   ELSE IF f.endian = "big" THEN ExtractBigBits(data, start, length)
                   ELSE ExtractLittleBits(data, start, length)
<1>1. /\ n \in Nat /\ start \in Nat /\ length \in Nat \ {0} /\ start + length <= 8 * n
      /\ f.endian \in {"big", "little"}
  <2>1. n \in Nat
    BY BytesOfPayload
  <2>2. start \in Nat /\ length \in Nat \ {0} /\ f.endian \in {"big", "little"}
    <3>1. start \in Nat /\ length \in 1..32 /\ f.endian \in {"big", "little"}
      BY Zenon DEF ValidField
    <3> HIDE DEF start, length
    <3> QED BY <3>1
  <2>3. start + length <= 8 * n
    BY DEF Fits
  <2> QED BY <2>1, <2>2, <2>3
<1>2. ExtractSignalValue(data, f) = IF f.signed THEN SignExtend(read, length) ELSE read
  BY Zenon DEF ExtractSignalValue
<1>3. FieldOf(data, f) = IF f.signed /\ piece * 2 >= Pow2[length] THEN piece - Pow2[length] ELSE piece
  BY Zenon DEF FieldOf
<1>4. read = piece
  <2>1. CASE whole
    <3> DEFINE a == start \div 8
               m == length \div 8
    <3>1. a \in Nat /\ m \in Nat /\ start = 8 * a /\ length = 8 * m
      <4> HIDE DEF start, length
      <4> QED BY <1>1, <2>1
    <3> HIDE DEF start, length, a, m, n, x
    <3>2. a + m <= n /\ (start + length) \div 8 = a + m
      BY <1>1, <3>1
    <3>3. FromBytes(SubSeq(data, 1 + a, a + m), f.endian)
            = (x \div Pow2[8 * (IF f.endian = "big" THEN (n - a) - m ELSE a)]) % Pow2[8 * m]
      <4>1. a + m <= Len(data)
        BY <3>2 DEF n
      <4>2. BytesAgree(data, f.endian, a, m)
        BY <1>1, <3>1, <4>1, WholeBytesRead
      <4> QED BY <4>2, Zenon DEF BytesAgree, n, x
    <3>4. 8 * (IF f.endian = "big" THEN (n - a) - m ELSE a) = shift /\ 8 * m = length
      BY <1>1, <3>1
    <3>5. read = FromBytes(SubSeq(data, 1 + a, a + m), f.endian)
      BY <2>1, <3>2, Zenon DEF a
    <3> QED BY <3>3, <3>4, <3>5, Zenon
  <2>2. CASE ~whole /\ f.endian = "big"
    <3>1. read = ExtractBigBits(data, start, length)
      BY <2>2, Zenon
    <3>2. shift = (8 * n - start) - length
      BY <2>2, Zenon
    <3>3. ExtractBigBits(data, start, length)
            = (PayloadNumber(data, "big") \div Pow2[(8 * n - start) - length]) % Pow2[length]
      BY <1>1, BigBitsRead
    <3> HIDE DEF read, shift, n, start, length
    <3> QED BY <2>2, <3>1, <3>2, <3>3, Zenon
  <2>3. CASE ~whole /\ f.endian = "little"
    <3>1. read = ExtractLittleBits(data, start, length) /\ shift = start
      BY <2>3
    <3>2. ExtractLittleBits(data, start, length)
            = (PayloadNumber(data, "little") \div Pow2[start]) % Pow2[length]
      BY <1>1, LittleBitsRead
    <3> HIDE DEF read, shift, start, length
    <3> QED BY <2>3, <3>1, <3>2, Zenon
  <2> HIDE DEF whole, read, piece
  <2> QED BY <1>1, <2>1, <2>2, <2>3
<1>5. piece \in Nat
  <2>1. x \in Nat
    BY PayloadDigits DEF DigitsAre
  <2>2. shift \in Nat
    <3> HIDE DEF n, start, length
    <3> QED BY <1>1
  <2> DEFINE v == Pow2[shift]
             w == Pow2[length]
             y == x \div v
  <2> HIDE DEF x, shift, start, length
  <2>3. v \in Nat \ {0} /\ w \in Nat \ {0}
    BY <1>1, <2>2, Pow2Is
  <2> HIDE DEF v, w
  <2>4. y \in Nat
    BY <2>1, <2>3
  <2> HIDE DEF y
  <2>5. y % w \in Nat
    BY <2>3, <2>4
  <2> QED BY <2>5 DEF y, v, w
<1>6. Pow2[length] = 2 * Pow2[length - 1] /\ Pow2[length - 1] \in Nat
  <2> HIDE DEF length
  <2>1. length - 1 \in Nat /\ (length - 1) + 1 = length
    BY <1>1
  <2> QED BY <2>1, Pow2Is
<1> HIDE DEF piece, read, length
<1>7. piece >= Pow2[length - 1] <=> piece * 2 >= Pow2[length]
  BY <1>5, <1>6
<1>8. SignExtend(read, length) = IF piece >= Pow2[length - 1] THEN piece - Pow2[length] ELSE piece
  BY <1>4, Zenon DEF SignExtend
<1>9. CASE f.signed
  BY <1>2, <1>3, <1>7, <1>8, <1>9, Zenon
<1>10. CASE ~f.signed
  BY <1>2, <1>3, <1>4, <1>10, Zenon
<1> QED BY <1>9, <1>10

\* The dictionary stays the one that was accepted.
DictionaryIsValid == ValidDictionary(dictionary)

\* Whichever payload, and whichever field of 1 to 32 bits that fits in it: the
\* value decoded byte by byte or bit by bit, in either byte order, with its sign or
\* without, is that piece of the payload read as one number
\* (extract_signal_value in bitfield.py).
THEOREM FieldsAreAlwaysExact == DecoderSpec => []FieldsAreExact
<1>1. DecoderInit => DecoderInv /\ DictionaryIsValid
  BY DecoderInitHolds DEF DecoderInit, DictionaryIsValid
<1>2. DecoderInv /\ [DecoderNext]_decoderVars => DecoderInv'
  BY DecoderNextHolds
<1>3. DictionaryIsValid /\ [DecoderNext]_decoderVars => DictionaryIsValid'
  <2> SUFFICES ASSUME DictionaryIsValid, [DecoderNext]_decoderVars PROVE DictionaryIsValid'
    OBVIOUS
  <2>1. dictionary' = dictionary
    BY Zenon DEF DecoderNext, Snapshot, Shows, TimePasses, decoderVars
  <2> QED BY <2>1, Zenon DEF DictionaryIsValid, ValidDictionary, ValidSignal, ValidField
<1>4. DecoderInv /\ DictionaryIsValid => FieldsAreExact
  <2> SUFFICES ASSUME DecoderInv, DictionaryIsValid, NEW name \in DOMAIN dictionary, NEW i \in DOMAIN log,
                      Fits(log[i].data, dictionary[name].start, dictionary[name].length)
               PROVE  ExtractSignalValue(log[i].data, dictionary[name])
                        = FieldOf(log[i].data, dictionary[name])
    BY Zenon DEF FieldsAreExact
  <2>1. ValidField(dictionary[name])
    BY Zenon DEF DictionaryIsValid, ValidDictionary, ValidSignal
  <2>2. log[i].data \in Seq(0..255)
    <3>1. log \in RecordedLogs
      BY DEF DecoderInv
    <3> QED BY <3>1, DecoderAssumption, Zenon
  <2> QED BY <2>1, <2>2, FieldIsExact
<1> QED BY <1>1, <1>2, <1>3, <1>4, PTL DEF DecoderSpec
===============================================================================
