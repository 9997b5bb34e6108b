------------------------------- MODULE GpsClock -------------------------------
(***************************************************************************)
(* gps_clock.py: the helper that sets the system clock from the UTC in the *)
(* hub's vehicle_state frames.                                             *)
(*                                                                         *)
(* Clocks are modelled by their error against true time, in seconds: off   *)
(* for the system clock, and for a frame the error its UTC has when it is  *)
(* handled (GPS garbage, or a frame that was held up on the way).  Both    *)
(* thresholds of the code are 1 s, hence 1 here.  The monotonic clock runs *)
(* like true time, so two frames disagree with it by the difference of     *)
(* their errors.  A lost connection to the hub is time without frames.     *)
(***************************************************************************)
EXTENDS Integers

CONSTANTS Required,  \* REQUIRED_CONSECUTIVE_FRAMES
          Recheck,   \* GPS_CLOCK_RECHECK_S, in ticks
          Retry,     \* SET_RETRY_COOLDOWN_S, in ticks
          MaxError,  \* bound on every clock's error
          Faults     \* how often the environment misbehaves

ASSUME ClockAssumption ==
  /\ Required \in Nat \ {0} /\ Recheck \in Nat \ {0} /\ Retry \in Nat \ {0}
  /\ MaxError \in Nat \ {0} /\ Faults \in Nat

VARIABLES
  off,      \* the system clock's error
  tracker,  \* Tracker: [streak, lastErr, recheckIn, retryIn], the last two 0 when over
  faults,   \* misbehaviour left
  wrong,    \* history: counting frames in a row with a wrong UTC
  tries     \* history of calls of the setter: [parity, since]

clockVars == <<off, tracker, faults, wrong, tries>>

Errors == -MaxError .. MaxError
Magnitude(n) == IF n < 0 THEN -n ELSE n
Less(m, n) == IF m < n THEN m ELSE n
Apart == Less(Recheck, Retry)

NewTracker == [streak |-> 0, lastErr |-> 0, recheckIn |-> 0, retryIn |-> 0]

ClockTypeOK ==
  /\ off \in Errors /\ faults \in 0 .. Faults
  /\ tracker \in [streak : 0 .. Required - 1, lastErr : Errors, recheckIn : 0 .. Recheck,
                  retryIn : 0 .. Retry]
  /\ wrong \in 0 .. Required /\ tries \in [parity : {0, 1}, since : 0 .. Apart]

ClockInit ==
  /\ off \in Errors /\ tracker = NewTracker /\ faults = Faults
  /\ wrong = 0 /\ tries = [parity |-> 0, since |-> Apart]

-----------------------------------------------------------------------------
(* evaluate_frame *)

Waiting(t) == t.recheckIn > 0 \/ t.retryIn > 0

\* Mutant: the frame that jumped does not restart the count.
Streak_jumpCounts(t, err) == t.streak + 1

\* The streak with a counting frame: one whose UTC does not advance like the
\* monotonic clock is the first of a new streak.
Streak(t, err) == IF t.streak > 0 /\ Magnitude(err - t.lastErr) > 1 THEN 1 ELSE t.streak + 1

\* replace_streak(tracker, 0), and the fresh streak of a tracker that waits.
NoStreak(t) == [t EXCEPT !.streak = 0, !.lastErr = 0]

SetFailed(t) == [NoStreak(t) EXCEPT !.retryIn = Retry]
Checked == [NewTracker EXCEPT !.recheckIn = Recheck]

\* The setter is called now; since counts from here (parity tells calls apart).
Tried == [parity |-> 1 - tries.parity, since |-> 0]

-----------------------------------------------------------------------------
(* handle_frame *)

\* A frame that does not count, or any frame while the tracker waits.
FrameIgnored ==
  /\ tracker' = NoStreak(tracker)
  /\ wrong' = 0
  /\ UNCHANGED <<off, tries>>

\* A counting frame, right or (err # 0) wrong.  It may complete the streak, and
\* then the clock is within the threshold, or is set, or cannot be set.
FrameCounts(err) ==
  LET n == Streak(tracker, err)
  IN /\ ~Waiting(tracker)
     /\ wrong' = IF err = 0 THEN 0 ELSE Less(wrong + 1, Required)
     /\ \/ /\ n < Required
           /\ tracker' = [tracker EXCEPT !.streak = n, !.lastErr = err]
           /\ UNCHANGED <<off, tries>>
        \/ /\ n >= Required /\ Magnitude(err - off) <= 1
           /\ tracker' = Checked
           /\ UNCHANGED <<off, tries>>
        \/ /\ n >= Required /\ Magnitude(err - off) > 1
           /\ off' = err
           /\ tracker' = Checked
           /\ tries' = Tried

SetFails(err) ==
  /\ ~Waiting(tracker)
  /\ Streak(tracker, err) >= Required /\ Magnitude(err - off) > 1
  /\ tracker' = SetFailed(tracker)
  /\ wrong' = IF err = 0 THEN 0 ELSE Less(wrong + 1, Required)
  /\ tries' = Tried
  /\ UNCHANGED off

-----------------------------------------------------------------------------
(* The environment *)

\* Mutant: a completed check is never repeated.
ClockTick_noRecheck ==
  /\ tracker' = [tracker EXCEPT !.retryIn = IF @ > 0 THEN @ - 1 ELSE 0]
  /\ tries' = [tries EXCEPT !.since = Less(@ + 1, Apart)]
  /\ UNCHANGED <<off, faults, wrong>>

ClockTick ==
  /\ tracker' = [tracker EXCEPT !.recheckIn = IF @ > 0 THEN @ - 1 ELSE 0,
                                !.retryIn = IF @ > 0 THEN @ - 1 ELSE 0]
  /\ tries' = [tries EXCEPT !.since = Less(@ + 1, Apart)]
  /\ UNCHANGED <<off, faults, wrong>>

\* The system clock drifts or is changed by someone else.
ClockMoves ==
  /\ \E d \in {-2, -1, 1, 2} : off + d \in Errors /\ off' = off + d
  /\ UNCHANGED <<tracker, wrong, tries>>

\* systemd restarts the helper (Restart=always): the tracker is lost.
Restart ==
  /\ tracker' = NewTracker /\ wrong' = 0 /\ tries' = [tries EXCEPT !.since = Apart]
  /\ UNCHANGED off

Good == FrameCounts(0) /\ UNCHANGED faults

Misbehaves ==
  /\ faults > 0 /\ faults' = faults - 1
  /\ \/ \E err \in Errors \ {0} : FrameCounts(err)
     \/ \E err \in Errors : SetFails(err)
     \/ ~Waiting(tracker) /\ FrameIgnored  \* no fix, too few satellites, an absurd date
     \/ ClockMoves \/ Restart

WaitsOut == Waiting(tracker) /\ FrameIgnored /\ UNCHANGED faults

ClockNext == ClockTick \/ Good \/ Misbehaves \/ WaitsOut

ClockSpec == ClockInit /\ [][ClockNext]_clockVars

\* run_forever reconnects for ever and time passes; what is fair is that frames
\* with a right UTC go on arriving.
FairClockSpec == ClockSpec /\ WF_clockVars(ClockTick) /\ WF_clockVars(Good)

-----------------------------------------------------------------------------
(***************************************************************************)
(* The clock is put wrong only by as many wrong frames in a row as the     *)
(* error is large, or by Required of them: a lone garbage UTC never does.  *)
(***************************************************************************)
WrongTimeNeedsAWrongRun ==
  [][tries'.parity # tries.parity /\ tracker' = Checked
       => wrong' >= Less(Magnitude(off'), Required)]_clockVars

(***************************************************************************)
(* The helper does not hammer clock_settime: two tries of one process are  *)
(* a recheck or a cooldown apart, whatever frames arrive in between.       *)
(***************************************************************************)
TriesAreSpaced == [][tries'.parity # tries.parity => tries.since >= Apart]_clockVars

(***************************************************************************)
(* Once the environment behaves, a wrong clock does not stay wrong: the    *)
(* recheck and the cooldown both end in a new attempt.                     *)
(***************************************************************************)
ClockComesRight == Magnitude(off) > 1 ~> Magnitude(off) <= 1
=============================================================================
