---------------------- MODULE VehicleStateClient_proofs ----------------------
(***************************************************************************)
(* The safety properties of VehicleStateClient, for every stale timeout,   *)
(* back-off range, set of frames and of batches, and replay file.          *)
(*                                                                         *)
(* None of them is inductive alone.  ClientInv relates the timers and the  *)
(* handshake to the socket's state, the watchdog's verdict to the age of   *)
(* the last good frame, and that age to the history variables; every       *)
(* property follows from it.                                               *)
(*                                                                         *)
(* Then the decoder of the frames that reach the client: that its events   *)
(* are those of the frames, for every stream and every way to cut it.      *)
(***************************************************************************)
EXTENDS VehicleStateClient, WebSocketFrameDecoder, FoldFacts, TLAPS

-----------------------------------------------------------------------------
(* What the setters of VehicleStateSource keep, whatever order a handler   *)
(* calls them in.                                                          *)

(***************************************************************************)
(* A source between two handlers: linkLost says what the flags say, and a  *)
(* latch that lags behind has its sync queued.                             *)
(***************************************************************************)
SourceOK(s) ==
  /\ s \in SourceState
  /\ s.linkLost = LinkLost(s)
  /\ ~s.linkLost /\ s.latched # s.warn => s.syncQueued

\* updateLinkLost restores SourceOK after a flag was changed, and only the
\* derived fields move.
LEMMA UpdateLinkLostKeeps ==
  ASSUME NEW s \in SourceState,
         ~s.linkLost /\ s.latched # s.warn => s.syncQueued
  PROVE  /\ SourceOK(UpdateLinkLost(s))
         /\ UpdateLinkLost(s).connected = s.connected
         /\ UpdateLinkLost(s).linkStale = s.linkStale
         /\ UpdateLinkLost(s).bbbStale = s.bbbStale
         /\ UpdateLinkLost(s).seen = s.seen
         /\ UpdateLinkLost(s).warn = s.warn
         /\ UpdateLinkLost(s).latched = s.latched
         /\ UpdateLinkLost(s).gpsFix = s.gpsFix
         /\ UpdateLinkLost(s).gpsPose = s.gpsPose
  BY ZenonT(60) DEF SourceOK, SourceState, UpdateLinkLost, LinkLost

\* setConnected keeps SourceOK and every other input.
LEMMA SetConnectedKeeps ==
  ASSUME NEW s, SourceOK(s), NEW v \in BOOLEAN
  PROVE  LET t == SetConnected(s, v) IN
         /\ SourceOK(t) /\ t.connected = v
         /\ t.linkStale = s.linkStale /\ t.bbbStale = s.bbbStale /\ t.seen = s.seen
         /\ t.warn = s.warn /\ t.latched = s.latched
         /\ t.gpsFix = s.gpsFix /\ t.gpsPose = s.gpsPose
<1> DEFINE r == [s EXCEPT !.connected = v]
<1>1. /\ r \in SourceState
      /\ ~r.linkLost /\ r.latched # r.warn => r.syncQueued
      /\ r.connected = v
      /\ r.linkStale = s.linkStale /\ r.bbbStale = s.bbbStale /\ r.seen = s.seen
      /\ r.warn = s.warn /\ r.latched = s.latched
      /\ r.gpsFix = s.gpsFix /\ r.gpsPose = s.gpsPose
  BY DEF SourceOK, SourceState
<1> HIDE DEF r
<1>2. SetConnected(s, v) = UpdateLinkLost(r)
  BY DEF SetConnected, r
<1> QED BY <1>1, <1>2, UpdateLinkLostKeeps

\* setLinkStale, likewise.
LEMMA SetLinkStaleKeeps ==
  ASSUME NEW s, SourceOK(s), NEW v \in BOOLEAN
  PROVE  LET t == SetLinkStale(s, v) IN
         /\ SourceOK(t) /\ t.linkStale = v
         /\ t.connected = s.connected /\ t.bbbStale = s.bbbStale /\ t.seen = s.seen
         /\ t.warn = s.warn /\ t.latched = s.latched
         /\ t.gpsFix = s.gpsFix /\ t.gpsPose = s.gpsPose
<1> DEFINE r == [s EXCEPT !.linkStale = v]
<1>1. /\ r \in SourceState
      /\ ~r.linkLost /\ r.latched # r.warn => r.syncQueued
      /\ r.linkStale = v
      /\ r.connected = s.connected /\ r.bbbStale = s.bbbStale /\ r.seen = s.seen
      /\ r.warn = s.warn /\ r.latched = s.latched
      /\ r.gpsFix = s.gpsFix /\ r.gpsPose = s.gpsPose
  BY DEF SourceOK, SourceState
<1> HIDE DEF r
<1>2. SetLinkStale(s, v) = UpdateLinkLost(r)
  BY DEF SetLinkStale, r
<1> QED BY <1>1, <1>2, UpdateLinkLostKeeps

\* setBbbStale, likewise.
LEMMA SetBbbStaleKeeps ==
  ASSUME NEW s, SourceOK(s), NEW v \in BOOLEAN
  PROVE  LET t == SetBbbStale(s, v) IN
         /\ SourceOK(t) /\ t.bbbStale = v
         /\ t.connected = s.connected /\ t.linkStale = s.linkStale /\ t.seen = s.seen
         /\ t.warn = s.warn /\ t.latched = s.latched
         /\ t.gpsFix = s.gpsFix /\ t.gpsPose = s.gpsPose
<1> DEFINE r == [s EXCEPT !.bbbStale = v]
<1>1. /\ r \in SourceState
      /\ ~r.linkLost /\ r.latched # r.warn => r.syncQueued
      /\ r.bbbStale = v
      /\ r.connected = s.connected /\ r.linkStale = s.linkStale /\ r.seen = s.seen
      /\ r.warn = s.warn /\ r.latched = s.latched
      /\ r.gpsFix = s.gpsFix /\ r.gpsPose = s.gpsPose
  BY DEF SourceOK, SourceState
<1> HIDE DEF r
<1>2. SetBbbStale(s, v) = UpdateLinkLost(r)
  BY DEF SetBbbStale, r
<1> QED BY <1>1, <1>2, UpdateLinkLostKeeps

\* setVehicleStateSeen(true), likewise.
LEMMA SetSeenKeeps ==
  ASSUME NEW s, SourceOK(s)
  PROVE  LET t == SetVehicleStateSeen(s, TRUE) IN
         /\ SourceOK(t) /\ t.seen
         /\ t.connected = s.connected /\ t.linkStale = s.linkStale
         /\ t.bbbStale = s.bbbStale
         /\ t.warn = s.warn /\ t.latched = s.latched
         /\ t.gpsFix = s.gpsFix /\ t.gpsPose = s.gpsPose
<1> DEFINE r == [s EXCEPT !.seen = TRUE]
<1>1. /\ r \in SourceState
      /\ ~r.linkLost /\ r.latched # r.warn => r.syncQueued
      /\ r.seen
      /\ r.connected = s.connected /\ r.linkStale = s.linkStale
      /\ r.bbbStale = s.bbbStale
      /\ r.warn = s.warn /\ r.latched = s.latched
      /\ r.gpsFix = s.gpsFix /\ r.gpsPose = s.gpsPose
  BY DEF SourceOK, SourceState
<1> HIDE DEF r
<1>2. SetVehicleStateSeen(s, TRUE) = UpdateLinkLost(r)
  BY DEF SetVehicleStateSeen, r
<1> QED BY <1>1, <1>2, UpdateLinkLostKeeps

\* The warning setters queue the sync they need.
LEMMA SetWarningsKeeps ==
  ASSUME NEW s, SourceOK(s), NEW w \in SUBSET Warnings
  PROVE  LET t == SetWarnings(s, w) IN
         /\ SourceOK(t) /\ t.warn = w
         /\ t.connected = s.connected /\ t.linkStale = s.linkStale
         /\ t.bbbStale = s.bbbStale /\ t.seen = s.seen /\ t.latched = s.latched
         /\ t.gpsFix = s.gpsFix /\ t.gpsPose = s.gpsPose
  BY DEF SetWarnings, SourceOK, SourceState, LinkLost

\* The GPS setters touch nothing the link or the latch reads.
LEMMA SetGpsKeeps ==
  ASSUME NEW s, SourceOK(s), NEW pose \in BOOLEAN, NEW fix \in BOOLEAN
  PROVE  LET t == SetGps(s, pose, fix) IN
         /\ SourceOK(t) /\ t.gpsPose = pose /\ t.gpsFix = fix
         /\ t.connected = s.connected /\ t.linkStale = s.linkStale
         /\ t.bbbStale = s.bbbStale /\ t.seen = s.seen
         /\ t.warn = s.warn /\ t.latched = s.latched
  BY DEF SetGps, SourceOK, SourceState, LinkLost

\* The deferred sync moves the latch only while the link is healthy, and
\* then exactly to the live telltales.
LEMMA SyncKeeps ==
  ASSUME NEW s, SourceOK(s)
  PROVE  LET t == SyncLatchedWarnings(s) IN
         /\ SourceOK(t)
         /\ t.latched = IF LinkLost(s) THEN s.latched ELSE s.warn
         /\ t.connected = s.connected /\ t.linkStale = s.linkStale
         /\ t.bbbStale = s.bbbStale /\ t.seen = s.seen /\ t.warn = s.warn
         /\ t.gpsFix = s.gpsFix /\ t.gpsPose = s.gpsPose
  BY DEF SyncLatchedWarnings, SourceOK, SourceState, LinkLost

-----------------------------------------------------------------------------
(* The inductive invariant                                                 *)

\* The socket's timers, in live mode; nothing moves in replay mode.
ConnInv ==
  /\ conn.handshakeComplete => conn.sock \in {"connected", "closing"}
  /\ ~Idle => conn.sock = "connected" /\ conn.handshakeComplete
  /\ conn.reconnect => ~replay.mode /\ conn.sock = "unconnected" /\ ~rx.hasGood
  /\ replay.mode => /\ conn.sock = "unconnected" /\ ~conn.connectTimeout
                    /\ ~conn.handshakeComplete /\ source.connected
                    /\ ReplayFrames # <<>>

\* What the watchdog knows of the last good frame, and what really happened.
AgeInv ==
  /\ ~source.linkStale => /\ rx.hasGood
                          /\ rx.age <= IF watchdogDue THEN StaleTicks + 1 ELSE StaleTicks
  /\ rx.hasGood => hist.heard /\ hist.silence = rx.age

\* The live telltales are the hub's last vouched-for ones unless it is stale.
VouchedInv == ~source.bbbStale => source.warn = hist.trusted

ClientInv ==
  /\ TypeOK
  /\ SourceOK(source)
  /\ ConnInv
  /\ AttemptGuarded
  /\ GpsNeedsLink
  /\ AgeInv
  /\ VouchedInv

-----------------------------------------------------------------------------
(* The steps the handlers share *)

\* handleLinkDown leaves nothing of the old link behind but the latch.
LEMMA LinkDownSourceKeeps ==
  ASSUME NEW s, SourceOK(s)
  PROVE  LET t == LinkDownSource(s) IN
         /\ SourceOK(t)
         /\ ~t.connected /\ t.linkStale /\ t.bbbStale /\ ~t.gpsFix /\ ~t.gpsPose
         /\ t.latched = s.latched /\ t.warn = s.warn
<1> DEFINE a == SetConnected(s, FALSE)
           b == SetLinkStale(a, TRUE)
           c == SetBbbStale(b, TRUE)
<1>1. SourceOK(a) /\ ~a.connected /\ a.latched = s.latched /\ a.warn = s.warn
  BY SetConnectedKeeps
<1> HIDE DEF a
<1>2. SourceOK(b) /\ ~b.connected /\ b.linkStale /\ b.latched = s.latched /\ b.warn = s.warn
  BY <1>1, SetLinkStaleKeeps
<1> HIDE DEF b
<1>3. /\ SourceOK(c) /\ ~c.connected /\ c.linkStale /\ c.bbbStale
      /\ c.latched = s.latched /\ c.warn = s.warn
  BY <1>2, SetBbbStaleKeeps
<1> HIDE DEF c
<1>4. LinkDownSource(s) = SetGps(c, FALSE, FALSE)
  BY DEF LinkDownSource, a, b, c
<1> DEFINE d == SetGps(c, FALSE, FALSE)
<1>5. /\ SourceOK(d) /\ ~d.connected /\ d.linkStale /\ d.bbbStale
      /\ ~d.gpsFix /\ ~d.gpsPose /\ d.latched = s.latched /\ d.warn = s.warn
  BY <1>3, SetGpsKeeps
<1> QED BY <1>4, <1>5

\* A frame sets the telltales and the hub's stale flag together.
LEMMA ApplyFrameKeeps ==
  ASSUME NEW s, SourceOK(s), NEW f \in FrameType
  PROVE  LET t == ApplyFrame(s, f) IN
         /\ SourceOK(t)
         /\ t.warn = f.warn /\ t.bbbStale = f.stale /\ t.seen
         /\ t.connected = s.connected /\ t.linkStale = s.linkStale
         /\ t.latched = s.latched
<1> DEFINE a == SetVehicleStateSeen(s, TRUE)
           b == SetWarnings(a, f.warn)
           c == SetBbbStale(b, f.stale)
           fix == IF f.fix = "absent" THEN s.gpsFix ELSE f.fix = "yes"
           pose == f.pose
<1>0. /\ f.warn \in SUBSET Warnings /\ f.stale \in BOOLEAN /\ pose \in BOOLEAN
      /\ fix \in BOOLEAN
  BY DEF FrameType, SourceOK, SourceState
<1>1. /\ SourceOK(a) /\ a.seen
      /\ a.connected = s.connected /\ a.linkStale = s.linkStale /\ a.latched = s.latched
  BY SetSeenKeeps
<1> HIDE DEF a
<1>2. /\ SourceOK(b) /\ b.seen /\ b.warn = f.warn
      /\ b.connected = s.connected /\ b.linkStale = s.linkStale /\ b.latched = s.latched
  BY <1>0, <1>1, SetWarningsKeeps
<1> HIDE DEF b
<1>3. /\ SourceOK(c) /\ c.seen /\ c.warn = f.warn /\ c.bbbStale = f.stale
      /\ c.connected = s.connected /\ c.linkStale = s.linkStale /\ c.latched = s.latched
  BY <1>0, <1>2, SetBbbStaleKeeps, SMTT(30)
<1> HIDE DEF c
<1> DEFINE d == SetGps(c, pose, fix)
<1>4. ApplyFrame(s, f) = d
  BY DEF ApplyFrame, a, b, c
<1> HIDE DEF fix, pose
<1>5. /\ SourceOK(d) /\ d.seen = c.seen /\ d.warn = c.warn /\ d.bbbStale = c.bbbStale
      /\ d.connected = c.connected /\ d.linkStale = c.linkStale /\ d.latched = c.latched
  <2>1. SourceOK(c) BY <1>3
  <2>2. pose \in BOOLEAN BY <1>0
  <2>3. fix \in BOOLEAN BY <1>0
  <2> QED BY <2>1, <2>2, <2>3, SetGpsKeeps, ZenonT(40)
<1> HIDE DEF d
<1> QED BY <1>3, <1>4, <1>5, Zenon

\* The back-off stays within its range, and one reconnect is pending.
LEMMA DroppedKeeps ==
  ASSUME NEW c \in ConnState
  PROVE  LET d == Dropped(c) IN
         /\ d \in ConnState
         /\ d.sock = "unconnected" /\ ~d.handshakeComplete /\ ~d.connectTimeout
         /\ d.reconnect
<1> DEFINE r == [c EXCEPT !.sock = "unconnected", !.handshakeComplete = FALSE,
                          !.connectTimeout = FALSE]
           ms == IF 2 * r.backoffMs < MaxBackoffMs THEN 2 * r.backoffMs ELSE MaxBackoffMs
           q == [r EXCEPT !.reconnect = TRUE, !.backoffMs = ms]
<1>1. /\ r \in ConnState /\ r.sock = "unconnected"
      /\ ~r.handshakeComplete /\ ~r.connectTimeout
  BY DEF ConnState, SocketStates
<1> HIDE DEF r
<1>2. r.backoffMs \in Backoffs
  BY <1>1 DEF ConnState
<1>3. ms \in Backoffs
  BY <1>2, ClientAssumption DEF Backoffs
<1> HIDE DEF ms
<1>4. /\ q \in ConnState /\ q.sock = "unconnected"
      /\ ~q.handshakeComplete /\ ~q.connectTimeout /\ q.reconnect
  BY <1>1, <1>3 DEF ConnState
<1> HIDE DEF q
<1>5. Dropped(c) = IF r.reconnect THEN r ELSE q
  BY DEF Dropped, ScheduleReconnect, r, q, ms
<1> QED BY <1>1, <1>4, <1>5

\* Dropping the link restores the whole invariant, whatever led to it.
LEMMA LinkDownKeeps ==
  ASSUME ClientInv, ~replay.mode, HandleLinkDown,
         UNCHANGED <<watchdogDue, replay, hub, dead, hist>>
  PROVE  ClientInv'
<1>1. /\ SourceOK(source')
      /\ ~source'.connected /\ source'.linkStale /\ source'.bbbStale
      /\ ~source'.gpsFix /\ ~source'.gpsPose
  BY LinkDownSourceKeeps DEF ClientInv, HandleLinkDown
<1>2. /\ conn' \in ConnState
      /\ conn'.sock = "unconnected" /\ ~conn'.handshakeComplete
      /\ ~conn'.connectTimeout /\ conn'.reconnect
  BY DroppedKeeps DEF ClientInv, TypeOK, HandleLinkDown
<1>3. rx' = [hasGood |-> FALSE, age |-> 0] /\ inbox' = <<>>
  BY DEF HandleLinkDown
<1>4. TypeOK'
  <2>1. source' \in SourceState
    BY <1>1 DEF SourceOK
  <2>2. rx' \in [hasGood : BOOLEAN, age : Ages] /\ inbox' \in Seq(Events)
    BY <1>3, ClientAssumption DEF Ages
  <2> QED BY <2>1, <2>2, <1>2 DEF ClientInv, TypeOK
<1>5. ConnInv' /\ AttemptGuarded'
  BY <1>1, <1>2, <1>3 DEF ConnInv, AttemptGuarded, Idle
<1>6. GpsNeedsLink' /\ AgeInv' /\ VouchedInv'
  BY <1>1, <1>3 DEF GpsNeedsLink, AgeInv, VouchedInv
<1>7. SourceOK(source)'
  BY <1>1
<1> QED BY <1>4, <1>5, <1>6, <1>7 DEF ClientInv

\* Applying a frame, from the socket or from the replay file.
LEMMA FrameKeeps ==
  ASSUME ClientInv, NEW f \in FrameType, OnTextMessageReceived(f), source.connected
  PROVE  /\ SourceOK(source') /\ source'.connected = source.connected
         /\ rx' \in [hasGood : BOOLEAN, age : Ages]
         /\ hist' \in [trusted : SUBSET Warnings, heard : BOOLEAN, silence : Ages]
         /\ GpsNeedsLink'
         /\ watchdogDue' = watchdogDue => AgeInv'
         /\ VouchedInv'
<1>1. /\ SourceOK(source')
      /\ source'.warn = f.warn /\ source'.bbbStale = f.stale
      /\ source'.connected = source.connected /\ source'.linkStale = source.linkStale
  BY ApplyFrameKeeps DEF ClientInv, OnTextMessageReceived
<1>2. f.warn \in SUBSET Warnings /\ f.stale \in BOOLEAN /\ f.good \in BOOLEAN
  BY DEF FrameType
<1>3. /\ rx \in [hasGood : BOOLEAN, age : Ages]
      /\ hist \in [trusted : SUBSET Warnings, heard : BOOLEAN, silence : Ages]
      /\ replay.mode \in BOOLEAN
  BY DEF ClientInv, TypeOK
<1>4. 0 \in Ages /\ StaleTicks \in Nat
  BY ClientAssumption DEF Ages
<1>5. CASE replay.mode \/ f.good
  <2>1. /\ rx' = [hasGood |-> TRUE, age |-> 0]
        /\ hist'.heard /\ hist'.silence = 0
        /\ hist'.trusted = IF f.stale THEN hist.trusted ELSE f.warn
        /\ hist' \in [trusted : SUBSET Warnings, heard : BOOLEAN, silence : Ages]
    BY <1>2, <1>3, <1>4, <1>5 DEF OnTextMessageReceived, Received, Heard
  <2>2. rx' \in [hasGood : BOOLEAN, age : Ages]
    BY <2>1, <1>4
  <2>3. watchdogDue' = watchdogDue => AgeInv'
    BY <2>1, <1>4 DEF AgeInv
  <2>4. GpsNeedsLink' /\ VouchedInv'
    BY <1>1, <2>1, source'.connected DEF GpsNeedsLink, VouchedInv
  <2> QED BY <1>1, <2>1, <2>2, <2>3, <2>4
<1>6. CASE ~(replay.mode \/ f.good)
  <2>1. /\ rx' = rx /\ hist'.heard = hist.heard /\ hist'.silence = hist.silence
        /\ hist'.trusted = IF f.stale THEN hist.trusted ELSE f.warn
        /\ hist' \in [trusted : SUBSET Warnings, heard : BOOLEAN, silence : Ages]
    BY <1>2, <1>3, <1>6 DEF OnTextMessageReceived, Received, Heard
  <2>2. watchdogDue' = watchdogDue => AgeInv'
    BY <1>1, <2>1 DEF AgeInv, ClientInv
  <2>3. GpsNeedsLink' /\ VouchedInv'
    BY <1>1, <2>1, source'.connected DEF GpsNeedsLink, VouchedInv
  <2> QED BY <1>1, <1>3, <2>1, <2>2, <2>3
<1> QED BY <1>5, <1>6

-----------------------------------------------------------------------------
(* Initial states and steps *)

\* Every handler that only changes the socket record, in live mode, and keeps
\* what AttemptGuarded and ConnInv say of it.
LEMMA ConnOnlyKeeps ==
  ASSUME ClientInv, conn' \in ConnState,
         UNCHANGED <<source, rx, inbox, watchdogDue, replay, hub>>,
         dead' \in BOOLEAN,
         hist' = hist \/ (~rx.hasGood /\ hist' = [hist EXCEPT !.heard = FALSE]),
         ConnInv', AttemptGuarded'
  PROVE  ClientInv'
<1>1. TypeOK'
  BY DEF ClientInv, TypeOK
<1>2. hist'.trusted = hist.trusted /\ hist'.silence = hist.silence
      /\ (rx.hasGood => hist'.heard = hist.heard)
  BY DEF ClientInv, TypeOK
<1>3. GpsNeedsLink' /\ AgeInv' /\ VouchedInv'
  BY <1>2 DEF ClientInv, GpsNeedsLink, AgeInv, VouchedInv
<1> QED BY <1>1, <1>3 DEF ClientInv

LEMMA InitKeeps == Init => ClientInv
<1> SUFFICES ASSUME Init PROVE ClientInv
  OBVIOUS
<1> DEFINE idle == [sock |-> "unconnected", handshakeComplete |-> FALSE,
                    connectTimeout |-> FALSE, reconnect |-> FALSE,
                    backoffMs |-> InitialBackoffMs]
<1>1. InitialBackoffMs \in Backoffs /\ 0 \in Ages
  BY ClientAssumption DEF Backoffs, Ages
<1>2. SourceOK(InitialSource)
  BY DEF SourceOK, InitialSource, SourceState, LinkLost
<1>3. /\ rx \in [hasGood : BOOLEAN, age : Ages]
      /\ inbox \in Seq(Events) /\ watchdogDue \in BOOLEAN
      /\ hub \in {"serving", "degraded", "down"} /\ dead \in BOOLEAN
      /\ hist \in [trusted : SUBSET Warnings, heard : BOOLEAN, silence : Ages]
      /\ ~rx.hasGood /\ inbox = <<>> /\ hist.trusted = {}
  <2>1. /\ rx = [hasGood |-> FALSE, age |-> 0] /\ inbox = <<>> /\ watchdogDue = FALSE
        /\ hub \in {"serving", "degraded", "down"} /\ dead = FALSE
        /\ hist = [trusted |-> {}, heard |-> FALSE, silence |-> 0]
    BY DEF Init
  <2>2. inbox \in Seq(Events)
    BY <2>1
  <2> QED BY <1>1, <2>1, <2>2
<1>4. CASE /\ replay = [mode |-> FALSE, index |-> 0, timer |-> FALSE, loop |-> TRUE]
           /\ source = InitialSource
           /\ \E s \in {"hostLookup", "connecting"} : conn = StartAttempt(idle, s)
  <2>1. PICK s \in {"hostLookup", "connecting"} : conn = StartAttempt(idle, s)
    BY <1>4
  <2>2. /\ conn \in ConnState /\ conn.sock = s /\ ~conn.handshakeComplete
        /\ conn.connectTimeout /\ ~conn.reconnect
    BY <1>1, <2>1 DEF StartAttempt, ConnState, SocketStates
  <2>3. TypeOK
    BY <1>3, <1>4, <1>2, <2>2 DEF TypeOK, SourceOK
  <2>4. ConnInv /\ AttemptGuarded
    BY <1>3, <1>4, <2>2 DEF ConnInv, AttemptGuarded, Idle, InitialSource
  <2>5. GpsNeedsLink /\ AgeInv /\ VouchedInv
    BY <1>3, <1>4 DEF GpsNeedsLink, AgeInv, VouchedInv, InitialSource
  <2> QED BY <1>2, <1>4, <2>3, <2>4, <2>5 DEF ClientInv
<1>5. CASE /\ ReplayFrames # <<>>
           /\ \E l \in BOOLEAN :
                replay = [mode |-> TRUE, index |-> 0, timer |-> TRUE, loop |-> l]
           /\ source = SetConnected(InitialSource, TRUE)
           /\ conn = idle
  <2>1. /\ SourceOK(source) /\ source.connected /\ source.linkStale /\ source.bbbStale
        /\ ~source.gpsFix /\ ~source.gpsPose
    <3>1. SourceOK(SetConnected(InitialSource, TRUE))
      BY <1>2, SetConnectedKeeps
    <3> QED BY <1>5, <3>1 DEF SetConnected, UpdateLinkLost, LinkLost, InitialSource
  <2>2. /\ conn \in ConnState /\ conn.sock = "unconnected" /\ ~conn.handshakeComplete
        /\ ~conn.connectTimeout /\ ~conn.reconnect
    BY <1>1, <1>5 DEF ConnState, SocketStates
  <2>3. replay.mode /\ replay \in [mode : BOOLEAN, index : Nat, timer : BOOLEAN, loop : BOOLEAN]
    BY <1>5
  <2>4. TypeOK
    BY <1>3, <2>1, <2>2, <2>3 DEF TypeOK, SourceOK
  <2>5. ConnInv /\ AttemptGuarded
    BY <1>3, <1>5, <2>1, <2>2, <2>3 DEF ConnInv, AttemptGuarded, Idle
  <2>6. GpsNeedsLink /\ AgeInv /\ VouchedInv
    BY <1>3, <2>1 DEF GpsNeedsLink, AgeInv, VouchedInv
  <2> QED BY <2>1, <2>4, <2>5, <2>6 DEF ClientInv
<1> QED BY <1>4, <1>5 DEF Init

LEMMA ConnectingKeeps ==
  ASSUME ClientInv,
         ConnectNow \/ HostFound \/ TcpConnected \/ ConnectFails \/ OnConnectTimeout
  PROVE  ClientInv'
<1>0. conn \in ConnState /\ dead \in BOOLEAN
  BY DEF ClientInv, TypeOK
<1>1. CASE ConnectNow
  <2>1. conn.sock = "unconnected" /\ ~rx.hasGood /\ ~replay.mode /\ ~source.connected
    BY <1>0, <1>1 DEF ConnectNow, ClientInv, ConnInv, AttemptGuarded
  <2>2. PICK s \in {"hostLookup", "connecting"} :
          conn' = StartAttempt([conn EXCEPT !.reconnect = FALSE], s)
    BY <1>1, <2>1 DEF ConnectNow
  <2>3. /\ conn' \in ConnState /\ conn'.sock = s /\ ~conn'.handshakeComplete
        /\ conn'.connectTimeout /\ ~conn'.reconnect
    BY <1>0, <2>2 DEF StartAttempt, ConnState, SocketStates
  <2>4. ConnInv' /\ AttemptGuarded'
    BY <1>1, <2>1, <2>3 DEF ConnectNow, ConnInv, AttemptGuarded, Idle
  <2>5. dead' \in BOOLEAN /\ hist' = [hist EXCEPT !.heard = FALSE]
    BY <1>1, <2>1 DEF ConnectNow
  <2> QED BY <1>1, <2>1, <2>3, <2>4, <2>5, ConnOnlyKeeps DEF ConnectNow
<1>2. CASE HostFound
  <2>1. /\ conn' \in ConnState /\ conn'.sock = "connecting"
        /\ conn'.handshakeComplete = conn.handshakeComplete
        /\ conn'.connectTimeout = conn.connectTimeout /\ conn'.reconnect = conn.reconnect
    BY <1>0, <1>2 DEF HostFound, ConnState, SocketStates
  <2>2. ConnInv' /\ AttemptGuarded'
    BY <1>2, <2>1 DEF HostFound, ClientInv, ConnInv, AttemptGuarded, Idle
  <2> QED BY <1>0, <1>2, <2>1, <2>2, ConnOnlyKeeps DEF HostFound
<1>3. CASE TcpConnected
  <2>1. /\ conn' \in ConnState /\ conn'.sock = "connected"
        /\ conn'.handshakeComplete = conn.handshakeComplete
        /\ conn'.connectTimeout = conn.connectTimeout /\ conn'.reconnect = conn.reconnect
    BY <1>0, <1>3 DEF TcpConnected, ConnState, SocketStates
  <2>2. ConnInv' /\ AttemptGuarded'
    BY <1>3, <2>1 DEF TcpConnected, ClientInv, ConnInv, AttemptGuarded, Idle
  <2> QED BY <1>0, <1>3, <2>1, <2>2, ConnOnlyKeeps DEF TcpConnected
<1>4. CASE ConnectFails
  <2>1. ~replay.mode
    BY <1>4 DEF ConnectFails, ClientInv, ConnInv
  <2> QED BY <1>4, <2>1, LinkDownKeeps DEF ConnectFails
<1>5. CASE OnConnectTimeout
  <2>1. ~replay.mode
    BY <1>5 DEF OnConnectTimeout, ClientInv, ConnInv
  <2>2. ~conn.handshakeComplete
    BY <1>5, <2>1 DEF OnConnectTimeout, ClientInv, AttemptGuarded
  <2> QED BY <1>5, <2>1, <2>2, LinkDownKeeps DEF OnConnectTimeout
<1> QED BY <1>1, <1>2, <1>3, <1>4, <1>5

LEMMA HandshakeKeeps ==
  ASSUME ClientInv,
         HandshakeRejected \/ \E b \in Batches \cup {<<>>} : HandshakeAccepted(b)
  PROVE  ClientInv'
<1>0. conn \in ConnState /\ dead \in BOOLEAN /\ SourceOK(source)
  BY DEF ClientInv, TypeOK
<1>1. CASE \E b \in Batches \cup {<<>>} : HandshakeAccepted(b)
  <2>1. PICK b \in Batches \cup {<<>>} : HandshakeAccepted(b)
    BY <1>1
  <2>2. b \in Seq(Events)
    <3>1. CASE b = <<>>
      BY <3>1
    <3>2. CASE b # <<>>
      BY <3>2, ClientAssumption
    <3> QED BY <3>1, <3>2
  <2>3. /\ SourceOK(source') /\ source'.connected
        /\ source'.linkStale = source.linkStale /\ source'.bbbStale = source.bbbStale
        /\ source'.warn = source.warn
    BY <1>0, <2>1, SetConnectedKeeps DEF HandshakeAccepted
  <2>4. /\ conn' \in ConnState /\ conn'.sock = conn.sock /\ conn'.handshakeComplete
        /\ ~conn'.connectTimeout /\ conn'.reconnect = conn.reconnect
    <3>1. InitialBackoffMs \in Backoffs
      BY ClientAssumption DEF Backoffs
    <3> QED BY <1>0, <2>1, <3>1 DEF HandshakeAccepted, ConnState
  <2>5. conn.sock = "connected"
    BY <2>1 DEF HandshakeAccepted, Handshaking
  <2>6. UNCHANGED <<rx, watchdogDue, replay, hub, dead, hist>> /\ inbox' = b
    BY <2>1 DEF HandshakeAccepted
  <2>7. TypeOK'
    BY <2>2, <2>3, <2>4, <2>6 DEF ClientInv, TypeOK, SourceOK
  <2>8. ConnInv' /\ AttemptGuarded'
    BY <2>3, <2>4, <2>5, <2>6 DEF ClientInv, ConnInv, AttemptGuarded
  <2>9. GpsNeedsLink' /\ AgeInv' /\ VouchedInv'
    BY <2>3, <2>6 DEF ClientInv, GpsNeedsLink, AgeInv, VouchedInv
  <2> QED BY <2>3, <2>7, <2>8, <2>9 DEF ClientInv
<1>2. CASE HandshakeRejected /\ HandleLinkDown
  <2>1. ~replay.mode
    BY <1>2 DEF HandshakeRejected, Handshaking, ClientInv, ConnInv
  <2> QED BY <1>2, <2>1, LinkDownKeeps DEF HandshakeRejected
<1>3. CASE HandshakeRejected /\ ~HandleLinkDown
  <2>1. /\ conn' \in ConnState /\ conn'.sock = "closing"
        /\ conn'.handshakeComplete = conn.handshakeComplete
        /\ conn'.connectTimeout = conn.connectTimeout /\ conn'.reconnect = conn.reconnect
    BY <1>0, <1>3 DEF HandshakeRejected, ConnState, SocketStates
  <2>2. Idle /\ conn.sock = "connected" /\ ~conn.handshakeComplete
    BY <1>3 DEF HandshakeRejected, Handshaking
  <2>3. ConnInv' /\ AttemptGuarded'
    BY <1>3, <2>1, <2>2 DEF HandshakeRejected, ClientInv, ConnInv, AttemptGuarded, Idle
  <2> QED BY <1>0, <1>3, <2>1, <2>3, ConnOnlyKeeps DEF HandshakeRejected
<1> QED BY <1>1, <1>2, <1>3

LEMMA ReceivingKeeps ==
  ASSUME ClientInv, Process \/ OnDisconnected \/ \E b \in Batches : ReadyRead(b)
  PROVE  ClientInv'
<1>0. /\ conn \in ConnState /\ inbox \in Seq(Events) /\ dead \in BOOLEAN
      /\ ~Idle => conn.sock = "connected" /\ conn.handshakeComplete /\ ~replay.mode
  BY DEF ClientInv, TypeOK, ConnInv
<1>1. ASSUME ~Idle PROVE Head(inbox) \in Events /\ Tail(inbox) \in Seq(Events)
  BY <1>0, <1>1 DEF Idle
<1>2. CASE \E b \in Batches : ReadyRead(b)
  <2>1. PICK b \in Batches : ReadyRead(b)
    BY <1>2
  <2>2. TypeOK'
    BY <2>1, ClientAssumption DEF ReadyRead, ClientInv, TypeOK
  <2>3. ConnInv' /\ AttemptGuarded'
    BY <2>1 DEF ReadyRead, ClientInv, ConnInv, AttemptGuarded
  <2>4. GpsNeedsLink' /\ AgeInv' /\ VouchedInv' /\ SourceOK(source')
    BY <2>1 DEF ReadyRead, ClientInv, GpsNeedsLink, AgeInv, VouchedInv
  <2> QED BY <2>2, <2>3, <2>4 DEF ClientInv
<1>3. CASE ProcessFrame
  <2>1. Head(inbox).frame \in FrameType /\ Tail(inbox) \in Seq(Events)
    <3>1. Head(inbox) \in Events /\ Head(inbox).kind = "frame"
      BY <1>1, <1>3 DEF ProcessFrame
    <3>2. Head(inbox) \in [kind : {"frame"}, frame : Frames]
      BY <3>1 DEF Events, Signals
    <3> QED BY <1>1, <1>3, <3>2, ClientAssumption DEF ProcessFrame
  <2>2. source.connected
    BY <1>0, <1>3 DEF ProcessFrame, ClientInv, AttemptGuarded
  <2>3. /\ SourceOK(source') /\ source'.connected = source.connected
        /\ rx' \in [hasGood : BOOLEAN, age : Ages]
        /\ hist' \in [trusted : SUBSET Warnings, heard : BOOLEAN, silence : Ages]
        /\ GpsNeedsLink' /\ VouchedInv'
        /\ watchdogDue' = watchdogDue => AgeInv'
    BY <1>3, <2>1, <2>2, FrameKeeps DEF ProcessFrame
  <2>4. UNCHANGED <<conn, watchdogDue, replay, hub, dead>> /\ inbox' = Tail(inbox)
    BY <1>3 DEF ProcessFrame
  <2>5. TypeOK'
    BY <2>1, <2>3, <2>4 DEF ClientInv, TypeOK, SourceOK
  <2>6. ConnInv'
    BY <1>0, <1>3, <2>3, <2>4 DEF ProcessFrame, ClientInv, ConnInv, AttemptGuarded
  <2>7. AttemptGuarded'
    BY <1>0, <2>3, <2>4 DEF ClientInv, AttemptGuarded
  <2> QED BY <2>3, <2>4, <2>5, <2>6, <2>7 DEF ClientInv
<1>4. CASE ProcessNoise
  <2>1. TypeOK'
    BY <1>1, <1>4 DEF ProcessNoise, ClientInv, TypeOK
  <2>2. ConnInv' /\ AttemptGuarded'
    BY <1>0, <1>4 DEF ProcessNoise, ClientInv, ConnInv, AttemptGuarded
  <2>3. GpsNeedsLink' /\ AgeInv' /\ VouchedInv' /\ SourceOK(source')
    BY <1>4 DEF ProcessNoise, ClientInv, GpsNeedsLink, AgeInv, VouchedInv
  <2> QED BY <2>1, <2>2, <2>3 DEF ClientInv
<1>5. CASE ProcessClose /\ ~HandleLinkDown
  <2>1. /\ conn' \in ConnState /\ conn'.sock = "closing" /\ conn'.handshakeComplete
        /\ conn'.connectTimeout = conn.connectTimeout /\ conn'.reconnect = conn.reconnect
        /\ inbox' = <<>>
        /\ UNCHANGED <<source, rx, watchdogDue, replay, hub, dead, hist>>
    BY <1>0, <1>5 DEF ProcessClose, ConnState, SocketStates
  <2>2. TypeOK'
    BY <2>1 DEF ClientInv, TypeOK
  <2>3. ConnInv' /\ AttemptGuarded'
    BY <1>0, <1>5, <2>1 DEF ProcessClose, ClientInv, ConnInv, AttemptGuarded, Idle
  <2>4. GpsNeedsLink' /\ AgeInv' /\ VouchedInv' /\ SourceOK(source')
    BY <2>1 DEF ClientInv, GpsNeedsLink, AgeInv, VouchedInv
  <2> QED BY <2>2, <2>3, <2>4 DEF ClientInv
<1>6. CASE (ProcessClose \/ ProcessBad) /\ HandleLinkDown
  BY <1>0, <1>6, LinkDownKeeps DEF ProcessClose, ProcessBad
<1>7. CASE OnDisconnected
  <2>1. ~replay.mode
    BY <1>7 DEF OnDisconnected, ClientInv, ConnInv
  <2> QED BY <1>7, <2>1, LinkDownKeeps DEF OnDisconnected
<1>8. ProcessBad => HandleLinkDown
  BY DEF ProcessBad
<1> QED BY <1>2, <1>3, <1>4, <1>5, <1>6, <1>7, <1>8 DEF Process

\* An age stays within its bound, and counts one tick below it.
LEMMA OlderBounds ==
  ASSUME NEW n \in Ages
  PROVE  /\ Older(n) \in Ages
         /\ n <= StaleTicks => Older(n) <= StaleTicks + 1
  BY ClientAssumption DEF Ages, Older

LEMMA CheckStaleKeeps ==
  ASSUME ClientInv, CheckStale
  PROVE  ClientInv'
<1>0. /\ SourceOK(source) /\ rx \in [hasGood : BOOLEAN, age : Ages]
      /\ source.gpsPose \in BOOLEAN
      /\ UNCHANGED <<conn, rx, inbox, replay, hub, dead, hist>> /\ watchdogDue' = FALSE
  BY DEF ClientInv, TypeOK, SourceOK, SourceState, CheckStale
<1> DEFINE a == SetLinkStale(source, TRUE)
           b == SetBbbStale(a, TRUE)
<1>1. /\ SourceOK(a) /\ a.linkStale /\ a.connected = source.connected
      /\ a.bbbStale = source.bbbStale /\ a.warn = source.warn /\ a.gpsPose = source.gpsPose
  BY <1>0, SetLinkStaleKeeps
<1> HIDE DEF a
<1>2. /\ SourceOK(b) /\ b.bbbStale /\ b.linkStale /\ b.connected = source.connected
  BY <1>1, SetBbbStaleKeeps
<1> HIDE DEF b
<1>3. /\ SourceOK(source') /\ source'.connected = source.connected
      /\ VouchedInv' /\ GpsNeedsLink' /\ AgeInv'
  <2>1. CASE ~rx.hasGood
    <3>1. source' = SetGps(a, FALSE, FALSE)
      BY <2>1 DEF CheckStale, a
    <3> DEFINE d == SetGps(a, FALSE, FALSE)
    <3>2. /\ SourceOK(d) /\ d.linkStale /\ d.connected = source.connected
          /\ d.bbbStale = source.bbbStale /\ d.warn = source.warn /\ ~d.gpsFix /\ ~d.gpsPose
      BY <1>1, SetGpsKeeps
    <3> HIDE DEF d
    <3>3. source' = d
      BY <3>1 DEF d
    <3> QED BY <1>0, <2>1, <3>2, <3>3 DEF ClientInv, VouchedInv, GpsNeedsLink, AgeInv
  <2>2. CASE rx.hasGood /\ StaleNow(rx)
    <3> DEFINE d == SetGps(b, source.gpsPose, FALSE)
    <3>1. source' = d
      BY <2>2 DEF CheckStale, a, b
    <3>2. /\ SourceOK(d) /\ d.linkStale /\ d.bbbStale /\ d.connected = source.connected
          /\ ~d.gpsFix /\ d.gpsPose = source.gpsPose
      BY <1>0, <1>2, SetGpsKeeps, ZenonT(60)
    <3> HIDE DEF d
    <3> QED BY <1>0, <3>1, <3>2 DEF ClientInv, VouchedInv, GpsNeedsLink, AgeInv
  <2>3. CASE rx.hasGood /\ ~StaleNow(rx)
    <3> DEFINE d == SetLinkStale(source, FALSE)
    <3>1. source' = d
      BY <2>3 DEF CheckStale
    <3>2. /\ SourceOK(d) /\ d.connected = source.connected /\ d.bbbStale = source.bbbStale
          /\ d.warn = source.warn /\ d.gpsFix = source.gpsFix /\ d.gpsPose = source.gpsPose
      BY <1>0, SetLinkStaleKeeps
    <3> HIDE DEF d
    <3>3. rx.age <= StaleTicks
      BY <1>0, <2>3, ClientAssumption DEF StaleNow, Ages
    <3> QED BY <1>0, <2>3, <3>1, <3>2, <3>3 DEF ClientInv, VouchedInv, GpsNeedsLink, AgeInv
  <2> QED BY <2>1, <2>2, <2>3
<1>4. TypeOK'
  BY <1>0, <1>3 DEF ClientInv, TypeOK, SourceOK
<1>5. ConnInv' /\ AttemptGuarded'
  BY <1>0, <1>3 DEF ClientInv, ConnInv, AttemptGuarded, Idle
<1> QED BY <1>3, <1>4, <1>5 DEF ClientInv

LEMMA TimersKeep ==
  ASSUME ClientInv, Tick \/ CheckStale \/ DeferredSync \/ PlayNextReplayFrame
  PROVE  ClientInv'
<1>0. /\ SourceOK(source) /\ rx \in [hasGood : BOOLEAN, age : Ages]
      /\ hist \in [trusted : SUBSET Warnings, heard : BOOLEAN, silence : Ages]
      /\ replay \in [mode : BOOLEAN, index : Nat, timer : BOOLEAN, loop : BOOLEAN]
      /\ 0 \in Ages
  BY ClientAssumption DEF ClientInv, TypeOK, Ages
<1>1. CASE Tick
  <2>1. /\ rx'.hasGood = rx.hasGood /\ rx' \in [hasGood : BOOLEAN, age : Ages]
        /\ rx.hasGood => rx'.age = Older(rx.age)
    BY <1>0, <1>1, OlderBounds DEF Tick
  <2>2. /\ hist'.heard = hist.heard /\ hist'.trusted = hist.trusted
        /\ hist'.silence = Older(hist.silence)
        /\ hist' \in [trusted : SUBSET Warnings, heard : BOOLEAN, silence : Ages]
    BY <1>0, <1>1, OlderBounds DEF Tick
  <2>3. UNCHANGED <<source, conn, inbox, replay, hub, dead>> /\ ~watchdogDue /\ watchdogDue'
    BY <1>1 DEF Tick
  <2>4. TypeOK'
    BY <1>1, <2>1, <2>2, <2>3 DEF ClientInv, TypeOK, Tick
  <2>5. ConnInv' /\ AttemptGuarded'
    BY <2>1, <2>3 DEF ClientInv, ConnInv, AttemptGuarded, Idle
  <2>6. AgeInv'
    BY <1>0, <2>1, <2>2, <2>3, OlderBounds DEF ClientInv, AgeInv
  <2>7. GpsNeedsLink' /\ VouchedInv' /\ SourceOK(source')
    BY <1>0, <2>2, <2>3 DEF ClientInv, GpsNeedsLink, VouchedInv
  <2> QED BY <2>4, <2>5, <2>6, <2>7 DEF ClientInv
<1>2. CASE CheckStale
  BY <1>2, CheckStaleKeeps
<1>3. CASE DeferredSync
  <2>1. /\ SourceOK(source') /\ source'.connected = source.connected
        /\ source'.linkStale = source.linkStale /\ source'.bbbStale = source.bbbStale
        /\ source'.warn = source.warn
        /\ source'.gpsFix = source.gpsFix /\ source'.gpsPose = source.gpsPose
    BY <1>0, <1>3, SyncKeeps DEF DeferredSync
  <2>2. UNCHANGED <<conn, rx, inbox, watchdogDue, replay, hub, dead, hist>>
    BY <1>3 DEF DeferredSync
  <2>3. TypeOK'
    BY <2>1, <2>2 DEF ClientInv, TypeOK, SourceOK
  <2>4. ConnInv' /\ AttemptGuarded'
    BY <2>1, <2>2 DEF ClientInv, ConnInv, AttemptGuarded, Idle
  <2>5. GpsNeedsLink' /\ AgeInv' /\ VouchedInv'
    BY <2>1, <2>2 DEF ClientInv, GpsNeedsLink, AgeInv, VouchedInv
  <2> QED BY <2>1, <2>3, <2>4, <2>5 DEF ClientInv
<1>4. CASE PlayNextReplayFrame /\ replay' = [replay EXCEPT !.timer = FALSE]
           /\ UNCHANGED <<source, rx, hist>>
  <2>1. /\ replay' \in [mode : BOOLEAN, index : Nat, timer : BOOLEAN, loop : BOOLEAN]
        /\ replay'.mode = replay.mode
        /\ UNCHANGED <<source, rx, hist, conn, inbox, watchdogDue, hub, dead>>
    BY <1>0, <1>4 DEF PlayNextReplayFrame
  <2>2. TypeOK'
    BY <2>1 DEF ClientInv, TypeOK
  <2>3. ConnInv' /\ AttemptGuarded'
    BY <2>1 DEF ClientInv, ConnInv, AttemptGuarded, Idle
  <2>4. GpsNeedsLink' /\ AgeInv' /\ VouchedInv' /\ SourceOK(source')
    BY <2>1 DEF ClientInv, GpsNeedsLink, AgeInv, VouchedInv
  <2> QED BY <2>2, <2>3, <2>4 DEF ClientInv
<1>5. CASE /\ PlayNextReplayFrame
           /\ ~(replay.index >= Len(ReplayFrames) /\ ~replay.loop)
  <2>1. /\ replay.mode /\ source.connected
        /\ OnTextMessageReceived(ReplayFrames[ReplayIndex + 1])
        /\ replay' = [replay EXCEPT !.index = ReplayIndex + 1]
        /\ UNCHANGED <<conn, inbox, watchdogDue, hub, dead>>
    BY <1>5 DEF PlayNextReplayFrame, ClientInv, ConnInv
  <2>2. ReplayIndex + 1 \in Nat /\ ReplayFrames[ReplayIndex + 1] \in FrameType
    <3>1. ReplayFrames # <<>> /\ ReplayFrames \in Seq(FrameType)
      BY <2>1, ClientAssumption DEF ClientInv, ConnInv
    <3>2. Len(ReplayFrames) \in Nat \ {0} /\ replay.index \in Nat
      BY <1>0, <3>1
    <3>3. ReplayIndex + 1 \in Nat /\ ReplayIndex + 1 \in 1 .. Len(ReplayFrames)
      BY <3>2 DEF ReplayIndex
    <3> QED BY <3>1, <3>3
  <2>3. /\ replay' \in [mode : BOOLEAN, index : Nat, timer : BOOLEAN, loop : BOOLEAN]
        /\ replay'.mode = replay.mode
    BY <1>0, <2>1, <2>2
  <2>4. /\ SourceOK(source') /\ source'.connected = source.connected
        /\ rx' \in [hasGood : BOOLEAN, age : Ages]
        /\ hist' \in [trusted : SUBSET Warnings, heard : BOOLEAN, silence : Ages]
        /\ GpsNeedsLink' /\ VouchedInv' /\ AgeInv'
    BY <2>1, <2>2, FrameKeeps
  <2>5. TypeOK'
    BY <2>1, <2>3, <2>4 DEF ClientInv, TypeOK, SourceOK
  <2>6. ConnInv' /\ AttemptGuarded'
    BY <2>1, <2>3, <2>4 DEF ClientInv, ConnInv, AttemptGuarded, Idle
  <2> QED BY <2>4, <2>5, <2>6 DEF ClientInv
<1> QED BY <1>1, <1>2, <1>3, <1>4, <1>5 DEF PlayNextReplayFrame

LEMMA NextKeeps ==
  ASSUME ClientInv, [Next]_vars
  PROVE  ClientInv'
<1>1. CASE ConnectNow \/ HostFound \/ TcpConnected \/ ConnectFails \/ OnConnectTimeout
  BY <1>1, ConnectingKeeps
<1>2. CASE HandshakeRejected \/ \E b \in Batches \cup {<<>>} : HandshakeAccepted(b)
  BY <1>2, HandshakeKeeps
<1>3. CASE Process \/ OnDisconnected \/ \E b \in Batches : ReadyRead(b)
  BY <1>3, ReceivingKeeps
<1>4. CASE Tick \/ CheckStale \/ DeferredSync \/ PlayNextReplayFrame
  BY <1>4, TimersKeep
<1>5. CASE HubChanges \/ SilentLoss \/ UNCHANGED vars
  <2>1. /\ UNCHANGED <<source, conn, rx, inbox, watchdogDue, replay, hist>>
        /\ hub' \in {"serving", "degraded", "down"} /\ dead' \in BOOLEAN
    BY <1>5 DEF HubChanges, SilentLoss, vars, ClientInv, TypeOK
  <2>2. TypeOK'
    BY <2>1 DEF ClientInv, TypeOK
  <2>3. ConnInv' /\ AttemptGuarded'
    BY <2>1 DEF ClientInv, ConnInv, AttemptGuarded, Idle
  <2>4. GpsNeedsLink' /\ AgeInv' /\ VouchedInv' /\ SourceOK(source')
    BY <2>1 DEF ClientInv, GpsNeedsLink, AgeInv, VouchedInv
  <2> QED BY <2>2, <2>3, <2>4 DEF ClientInv
<1> QED BY <1>1, <1>2, <1>3, <1>4, <1>5 DEF Next

-----------------------------------------------------------------------------
(* The theorems *)

(***************************************************************************)
(* The inductive invariant: what every handler of the client and of the    *)
(* source re-establishes before it returns to the event loop.              *)
(***************************************************************************)
THEOREM ClientInvariant == Spec => []ClientInv
<1>1. Init => ClientInv
  BY InitKeeps
<1>2. ClientInv /\ [Next]_vars => ClientInv'
  BY NextKeeps
<1> QED BY <1>1, <1>2, PTL DEF Spec

(***************************************************************************)
(* The client's state stays in its type, in particular the back-off within *)
(* INITIAL_BACKOFF_MS and MAX_BACKOFF_MS.                                  *)
(***************************************************************************)
THEOREM TypeCorrect == Spec => []TypeOK
<1>1. ClientInv => TypeOK
  BY DEF ClientInv
<1> QED BY <1>1, ClientInvariant, PTL

(***************************************************************************)
(* linkStale is never clear before the open connection has delivered a     *)
(* good frame (handleLinkDown, checkStale).                                *)
(***************************************************************************)
THEOREM OldDataNeverFresh == Spec => []NoOldDataAsFresh
<1>1. ClientInv => NoOldDataAsFresh
  BY DEF ClientInv, AgeInv, NoOldDataAsFresh
<1> QED BY <1>1, ClientInvariant, PTL

(***************************************************************************)
(* A trusted display rests on a good frame no older than the stale timeout *)
(* and one watchdog tick (checkStale).                                     *)
(***************************************************************************)
THEOREM TrustedDataIsRecent == Spec => []TrustIsRecent
<1>1. ClientInv => TrustIsRecent
  <2> SUFFICES ASSUME ClientInv, ~source.linkLost PROVE hist.silence <= StaleTicks + 1
    BY DEF TrustIsRecent
  <2>1. ~source.linkStale
    BY DEF ClientInv, SourceOK, LinkLost
  <2>2. /\ hist.silence = rx.age /\ rx.age \in Ages
        /\ rx.age <= IF watchdogDue THEN StaleTicks + 1 ELSE StaleTicks
    BY <2>1 DEF ClientInv, AgeInv, TypeOK
  <2> QED BY <2>2, ClientAssumption DEF Ages
<1> QED BY <1>1, ClientInvariant, PTL

(***************************************************************************)
(* Both of them: what is presented as fresh came on the open connection,   *)
(* and lately (handleLinkDown, checkStale).                                *)
(***************************************************************************)
THEOREM FreshDataHolds == Spec => []DataIsFresh
<1>1. NoOldDataAsFresh /\ TrustIsRecent => DataIsFresh
  BY DEF DataIsFresh
<1> QED BY <1>1, OldDataNeverFresh, TrustedDataIsRecent, PTL

(***************************************************************************)
(* In live mode a timer is always pending that moves an unfinished or lost *)
(* connection on (scheduleReconnect, connectNow, onConnectTimeout).        *)
(***************************************************************************)
THEOREM AttemptsAreGuarded == Spec => []AttemptGuarded
<1>1. ClientInv => AttemptGuarded
  BY DEF ClientInv
<1> QED BY <1>1, ClientInvariant, PTL

(***************************************************************************)
(* No GPS fix or pose outlives the connection it came on.                  *)
(***************************************************************************)
THEOREM GpsBelongsToLink == Spec => []GpsNeedsLink
<1>1. ClientInv => GpsNeedsLink
  BY DEF ClientInv
<1> QED BY <1>1, ClientInvariant, PTL

(***************************************************************************)
(* The coalesced deferred sync never loses a telltale change.              *)
(***************************************************************************)
THEOREM LatchNeverForgotten == Spec => []LatchWillFollow
<1>1. ClientInv => LatchWillFollow
  BY DEF ClientInv, SourceOK, LatchWillFollow
<1> QED BY <1>1, ClientInvariant, PTL

\* One step of the client is a step of the latch, or a stutter.
LEMMA LatchStep ==
  ASSUME ClientInv, [Next]_vars
  PROVE  [Latch!Next]_(Latch!latchVars)
<1>0. ClientInv' /\ SourceOK(source) /\ source.latched = source.latched
  BY NextKeeps DEF ClientInv
<1>1. ASSUME source'.latched = source.latched PROVE [Latch!Next]_(Latch!latchVars)
  <2>1. source'.linkLost \in BOOLEAN /\ hist'.trusted \in SUBSET Warnings
    BY <1>0 DEF ClientInv, TypeOK, SourceState
  <2>2. Latch!LinkOrReport
    BY <1>1, <2>1 DEF Latch!LinkOrReport
  <2> QED BY <2>2 DEF Latch!Next
<1>2. ASSUME HandleLinkDown PROVE source'.latched = source.latched
  BY <1>0, <1>2, LinkDownSourceKeeps DEF HandleLinkDown
<1>3. ASSUME NEW f \in FrameType, OnTextMessageReceived(f)
      PROVE  source'.latched = source.latched
  BY <1>0, <1>3, ApplyFrameKeeps DEF OnTextMessageReceived
<1>4. CASE DeferredSync
  <2>1. source'.latched = IF LinkLost(source) THEN source.latched ELSE source.warn
    BY <1>0, <1>4, SyncKeeps DEF DeferredSync
  <2>2. CASE LinkLost(source)
    BY <1>1, <2>1, <2>2
  <2>3. CASE ~LinkLost(source)
    <3>1. ~source.linkLost /\ source.warn = hist.trusted
      BY <1>0, <2>3 DEF ClientInv, SourceOK, VouchedInv, LinkLost
    <3>2. source'.linkLost = source.linkLost /\ hist' = hist
      BY <1>0, <1>4 DEF DeferredSync, SyncLatchedWarnings, SourceOK, SourceState
    <3>3. Latch!Follow
      BY <2>1, <2>3, <3>1, <3>2 DEF Latch!Follow
    <3> QED BY <3>3 DEF Latch!Next
  <2> QED BY <2>2, <2>3
<1>5. CASE CheckStale
  <2> DEFINE a == SetLinkStale(source, TRUE)
             b == SetBbbStale(a, TRUE)
  <2>1. SourceOK(a) /\ a.latched = source.latched
    BY <1>0, SetLinkStaleKeeps
  <2>2. SourceOK(b) /\ b.latched = source.latched
    BY <2>1, SetBbbStaleKeeps
  <2>3. SetLinkStale(source, FALSE).latched = source.latched
    BY <1>0, SetLinkStaleKeeps
  <2> HIDE DEF a, b
  <2>4. \/ source' = SetGps(a, FALSE, FALSE)
        \/ source' = SetGps(b, source.gpsPose, FALSE)
        \/ source' = SetLinkStale(source, FALSE)
    BY <1>5 DEF CheckStale, a, b
  <2>5. source.gpsPose \in BOOLEAN
    BY <1>0 DEF SourceOK, SourceState
  <2>6. /\ SetGps(a, FALSE, FALSE).latched = a.latched
        /\ SetGps(b, source.gpsPose, FALSE).latched = b.latched
    <3>1. SetGps(a, FALSE, FALSE).latched = a.latched
      BY <2>1, SetGpsKeeps
    <3>2. SetGps(b, source.gpsPose, FALSE).latched = b.latched
      BY <2>2, <2>5, SetGpsKeeps
    <3> QED BY <3>1, <3>2
  <2>7. source'.latched = source.latched
    BY <2>1, <2>2, <2>3, <2>4, <2>6, Zenon
  <2> QED BY <1>1, <2>7
<1>6. CASE HandleLinkDown
  BY <1>1, <1>2, <1>6
<1>7. CASE ProcessFrame
  <2>1. inbox \in Seq(Events) /\ inbox # <<>> /\ Head(inbox).kind = "frame"
    BY <1>7 DEF ProcessFrame, ClientInv, TypeOK, Idle
  <2>2. Head(inbox) \in Events
    BY <2>1
  <2>3. Head(inbox).frame \in FrameType
    BY <2>1, <2>2, ClientAssumption DEF Events, Signals
  <2> QED BY <1>1, <1>3, <1>7, <2>3 DEF ProcessFrame
<1>8. CASE PlayNextReplayFrame /\ ~UNCHANGED source
  <2>1. /\ replay.mode /\ OnTextMessageReceived(ReplayFrames[ReplayIndex + 1])
        /\ ReplayFrames # <<>> /\ ReplayFrames \in Seq(FrameType)
        /\ replay.index \in Nat
    BY <1>8, ClientAssumption DEF PlayNextReplayFrame, ClientInv, ConnInv, TypeOK
  <2>2. Len(ReplayFrames) \in Nat \ {0}
    BY <2>1
  <2>3. ReplayIndex + 1 \in 1 .. Len(ReplayFrames)
    BY <2>1, <2>2 DEF ReplayIndex
  <2>4. ReplayFrames[ReplayIndex + 1] \in FrameType
    BY <2>1, <2>3
  <2> QED BY <1>1, <1>3, <2>1, <2>4
<1>9. CASE \E b \in Batches \cup {<<>>} : HandshakeAccepted(b)
  <2>1. source'.latched = source.latched
    BY <1>0, <1>9, SetConnectedKeeps, ZenonT(60) DEF HandshakeAccepted
  <2> QED BY <1>1, <2>1
<1>10. CASE UNCHANGED source
  BY <1>1, <1>10
<1>11. \/ UNCHANGED source \/ DeferredSync \/ CheckStale \/ HandleLinkDown
       \/ ProcessFrame \/ PlayNextReplayFrame
       \/ \E b \in Batches \cup {<<>>} : HandshakeAccepted(b)
  BY DEF Next, vars, ConnectNow, HostFound, TcpConnected, ConnectFails, OnConnectTimeout,
         HandshakeRejected, ReadyRead, Process, ProcessNoise, ProcessClose, ProcessBad,
         OnDisconnected, Tick, HubChanges, SilentLoss
<1> QED BY <1>4, <1>5, <1>6, <1>7, <1>8, <1>9, <1>10, <1>11

(***************************************************************************)
(* The safety part of the latch's refinement: the shown telltales only     *)
(* ever move to the set the hub last vouched for, and only while the link  *)
(* is healthy (syncLatchedWarnings deferred past the frame's stale flag).  *)
(***************************************************************************)
THEOREM LatchSafety == Spec => Latch!Init /\ [][Latch!Next]_(Latch!latchVars)
<1>1. Init => Latch!Init
  <2> SUFFICES ASSUME Init PROVE Latch!Init
    OBVIOUS
  <2>1. hist.trusted = {}
    BY DEF Init
  <2>2. source = InitialSource \/ source = SetConnected(InitialSource, TRUE)
    BY DEF Init
  <2>3. source.linkLost = TRUE /\ source.latched = {}
    <3>1. InitialSource.linkLost = TRUE /\ InitialSource.latched = {}
      BY DEF InitialSource
    <3> DEFINE r == [InitialSource EXCEPT !.connected = TRUE]
    <3>2. LinkLost(r) = TRUE /\ r.linkLost = TRUE /\ r.latched = {}
      BY DEF InitialSource, LinkLost
    <3> HIDE DEF r
    <3>3. SetConnected(InitialSource, TRUE) = r
      BY <3>2 DEF SetConnected, UpdateLinkLost, r
    <3> QED BY <2>2, <3>1, <3>2, <3>3
  <2> QED BY <2>1, <2>3 DEF Latch!Init
<1>2. ClientInv /\ [Next]_vars => [Latch!Next]_(Latch!latchVars)
  BY LatchStep
<1> QED BY <1>1, <1>2, ClientInvariant, PTL DEF Spec

-----------------------------------------------------------------------------
(* The decoder of WebSocket frames.  What is known of the decoder after    *)
(* any cut: it has read the first k frames, whose meaning the stream       *)
(* gives, and holds the bytes after them, or it has ended where they end   *)
(* (IsSettled).  The lemmas go from bytes to frames to slices: a mask      *)
(* undoes itself, a length is what was declared, one round of the loop     *)
(* reads one frame, the loop reads what is there, a slice is read whole.   *)

\* A round of the loop follows the round before it.
LEMMA RoundsFollow ==
  ASSUME NEW d, NEW events, Len(d.buffer) \in Nat
  PROVE  \E after : /\ after[0] = [d |-> d, events |-> events]
                    /\ \A k \in 1..Len(d.buffer) : after[k] = DecodeFirst(after[k - 1])
                    /\ DecodeBuffered(d, events) = after[Len(d.buffer)]
<1> DEFINE Base == [d |-> d, events |-> events]
           Step(f) == [k \in 0..Len(d.buffer) |-> IF k = 0 THEN Base ELSE DecodeFirst(f[k - 1])]
           after == CHOOSE f : f = Step(f)
           Solves(f, j) == f = [k \in 0..j |-> IF k = 0 THEN Base ELSE DecodeFirst(f[k - 1])]
           Good == {j \in Nat : \E f : Solves(f, j)}
<1>1. DecodeBuffered(d, events) = after[Len(d.buffer)]
  BY Zenon DEF DecodeBuffered
<1> HIDE DEF Base
<1>2. 0 \in Good
  <2> DEFINE g == [k \in 0..0 |-> Base]
  <2>1. Solves(g, 0)
    OBVIOUS
  <2> HIDE DEF g
  <2> QED BY <2>1
<1>3. ASSUME NEW j \in Nat, j \in Good PROVE j + 1 \in Good
  <2>1. PICK f : Solves(f, j)
    BY <1>3
  <2> DEFINE h == [k \in 0..(j + 1) |-> IF k = 0 THEN Base ELSE DecodeFirst(f[k - 1])]
  <2>2. \A k \in 0..j : h[k] = f[k]
    BY <2>1
  <2>3. \A k \in 0..(j + 1) : k # 0 => k - 1 \in 0..j
    OBVIOUS
  <2>4. Solves(h, j + 1)
    BY <2>2, <2>3
  <2> HIDE DEF h
  <2> QED BY <2>4
<1>4. \A j \in Nat : j \in Good
  <2> HIDE DEF Good
  <2> QED BY <1>2, <1>3, NatInductionOnSets
<1>5. PICK f : f = Step(f)
  BY <1>4
<1>6. after = Step(after)
  <2> HIDE DEF Step
  <2> QED BY <1>5, Zenon
<1> HIDE DEF after
<1>7. after[0] = Base /\ \A k \in 1..Len(d.buffer) : after[k] = DecodeFirst(after[k - 1])
  BY <1>6
<1> QED BY <1>1, <1>7 DEF Base

\* So does a slice of the bytes that are fed.
LEMMA SlicesFollow ==
  ASSUME NEW d, NEW events, NEW data, Len(data) \in Nat
  PROVE  \E after : /\ after[0] = [d |-> d, events |-> events, rest |-> data]
                    /\ \A k \in 1..Len(data) : after[k] = FeedSlice(after[k - 1])
                    /\ Fed(d, events, data) = after[Len(data)]
<1> DEFINE Base == [d |-> d, events |-> events, rest |-> data]
           Step(f) == [k \in 0..Len(data) |-> IF k = 0 THEN Base ELSE FeedSlice(f[k - 1])]
           after == CHOOSE f : f = Step(f)
           Solves(f, j) == f = [k \in 0..j |-> IF k = 0 THEN Base ELSE FeedSlice(f[k - 1])]
           Good == {j \in Nat : \E f : Solves(f, j)}
<1>1. Fed(d, events, data) = after[Len(data)]
  BY Zenon DEF Fed
<1> HIDE DEF Base
<1>2. 0 \in Good
  <2> DEFINE g == [k \in 0..0 |-> Base]
  <2>1. Solves(g, 0)
    OBVIOUS
  <2> HIDE DEF g
  <2> QED BY <2>1
<1>3. ASSUME NEW j \in Nat, j \in Good PROVE j + 1 \in Good
  <2>1. PICK f : Solves(f, j)
    BY <1>3
  <2> DEFINE h == [k \in 0..(j + 1) |-> IF k = 0 THEN Base ELSE FeedSlice(f[k - 1])]
  <2>2. \A k \in 0..j : h[k] = f[k]
    BY <2>1
  <2>3. \A k \in 0..(j + 1) : k # 0 => k - 1 \in 0..j
    OBVIOUS
  <2>4. Solves(h, j + 1)
    BY <2>2, <2>3
  <2> HIDE DEF h
  <2> QED BY <2>4
<1>4. \A j \in Nat : j \in Good
  <2> HIDE DEF Good
  <2> QED BY <1>2, <1>3, NatInductionOnSets
<1>5. PICK f : f = Step(f)
  BY <1>4
<1>6. after = Step(after)
  <2> HIDE DEF Step
  <2> QED BY <1>5, Zenon
<1> HIDE DEF after
<1>7. after[0] = Base /\ \A k \in 1..Len(data) : after[k] = FeedSlice(after[k - 1])
  BY <1>6
<1> QED BY <1>1, <1>7 DEF Base

\* The meaning of no frame at all.
NothingRead == [at |-> 0, over |-> "no", part |-> <<>>, events |-> <<>>]
\* What the first k frames mean follows from what the k - 1 before mean.
LEMMA MeaningsFollow ==
  ASSUME NEW here, Len(stream) \in Nat
  PROVE  /\ Meanings(here)[0] = NothingRead
         /\ \A k \in 1..Len(stream) : Meanings(here)[k] = Meant(here, Meanings(here)[k - 1], stream[k])
<1> DEFINE Step(f) == [k \in 0..Len(stream) |-> IF k = 0 THEN NothingRead ELSE Meant(here, f[k - 1], stream[k])]
           upTo == CHOOSE f : f = Step(f)
           Solves(f, j) == f = [k \in 0..j |-> IF k = 0 THEN NothingRead ELSE Meant(here, f[k - 1], stream[k])]
           Good == {j \in Nat : \E f : Solves(f, j)}
<1>1. Meanings(here) = upTo
  BY Zenon DEF Meanings, NothingRead
<1>2. 0 \in Good
  <2> DEFINE g == [k \in 0..0 |-> NothingRead]
  <2>1. Solves(g, 0)
    OBVIOUS
  <2> HIDE DEF g
  <2> QED BY <2>1
<1>3. ASSUME NEW j \in Nat, j \in Good PROVE j + 1 \in Good
  <2>1. PICK f : Solves(f, j)
    BY <1>3
  <2> DEFINE h == [k \in 0..(j + 1) |-> IF k = 0 THEN NothingRead ELSE Meant(here, f[k - 1], stream[k])]
  <2>2. \A k \in 0..j : h[k] = f[k]
    BY <2>1
  <2>3. \A k \in 0..(j + 1) : k # 0 => k - 1 \in 0..j
    OBVIOUS
  <2>4. Solves(h, j + 1)
    BY <2>2, <2>3
  <2> HIDE DEF h
  <2> QED BY <2>4
<1>4. \A j \in Nat : j \in Good
  <2> HIDE DEF Good
  <2> QED BY <1>2, <1>3, NatInductionOnSets
<1>5. PICK f : f = Step(f)
  BY <1>4
<1>6. upTo = Step(upTo)
  <2> HIDE DEF Step
  <2> QED BY <1>5, Zenon
<1> HIDE DEF upTo
<1>7. upTo[0] = NothingRead /\ \A k \in 1..Len(stream) : upTo[k] = Meant(here, upTo[k - 1], stream[k])
  BY <1>6
<1> QED BY <1>1, <1>7

\* Bits of a byte.
Bit(a, w) == (a \div w) % 2
OfBits(c) == c[1] + 2 * c[2] + 4 * c[3] + 8 * c[4] + 16 * c[5] + 32 * c[6] + 64 * c[7] + 128 * c[8]
BitsOf(a) == <<Bit(a, 1), Bit(a, 2), Bit(a, 4), Bit(a, 8), Bit(a, 16), Bit(a, 32), Bit(a, 64), Bit(a, 128)>>
\* A byte is the sum of its bits.
LEMMA BytesAreBits ==
  ASSUME NEW a \in Byte
  PROVE  BitsOf(a) \in [1..8 -> {0, 1}] /\ a = OfBits(BitsOf(a))
<1>1. \A w \in {1, 2, 4, 8, 16, 32, 64, 128} : Bit(a, w) \in {0, 1}
  BY DEF Bit, Byte
<1>2. a = Bit(a, 1) + 2 * Bit(a, 2) + 4 * Bit(a, 4) + 8 * Bit(a, 8)
            + 16 * Bit(a, 16) + 32 * Bit(a, 32) + 64 * Bit(a, 64) + 128 * Bit(a, 128)
  BY DEF Bit, Byte
<1> QED BY <1>1, <1>2 DEF BitsOf, OfBits

\* The bits of a sum of bits are those bits.
LEMMA BitsAreBytes ==
  ASSUME NEW c \in [1..8 -> {0, 1}]
  PROVE  OfBits(c) \in Byte /\ BitsOf(OfBits(c)) = c
<1> DEFINE x == OfBits(c)
<1>1. \A i \in 1..8 : c[i] \in {0, 1}
  OBVIOUS
<1>2. x = c[1] + 2 * c[2] + 4 * c[3] + 8 * c[4] + 16 * c[5] + 32 * c[6] + 64 * c[7] + 128 * c[8]
  BY DEF OfBits
<1>3. x \in 0..255
  BY <1>1, <1>2
<1>4. /\ Bit(x, 1) = c[1] /\ Bit(x, 2) = c[2] /\ Bit(x, 4) = c[3] /\ Bit(x, 8) = c[4]
      /\ Bit(x, 16) = c[5] /\ Bit(x, 32) = c[6] /\ Bit(x, 64) = c[7] /\ Bit(x, 128) = c[8]
  <2> HIDE DEF x
  <2>1. PICK c1 \in {0, 1}, c2 \in {0, 1}, c3 \in {0, 1}, c4 \in {0, 1}, c5 \in {0, 1}, c6 \in {0, 1}, c7 \in {0, 1}, c8 \in {0, 1} :
          c1 = c[1] /\ c2 = c[2] /\ c3 = c[3] /\ c4 = c[4] /\ c5 = c[5] /\ c6 = c[6] /\ c7 = c[7] /\ c8 = c[8]
    BY <1>1
  <2>2. x = c1 + 2 * c2 + 4 * c3 + 8 * c4 + 16 * c5 + 32 * c6 + 64 * c7 + 128 * c8
    BY <1>2, <2>1
  <2>3. /\ Bit(x, 1) = c1 /\ Bit(x, 2) = c2 /\ Bit(x, 4) = c3 /\ Bit(x, 8) = c4
        /\ Bit(x, 16) = c5 /\ Bit(x, 32) = c6 /\ Bit(x, 64) = c7 /\ Bit(x, 128) = c8
    BY <2>2 DEF Bit
  <2> QED BY <2>1, <2>3
<1>5. BitsOf(x) = [i \in 1..8 |-> c[i]]
  <2> HIDE DEF x
  <2> QED BY <1>4 DEF BitsOf
<1> QED BY <1>3, <1>5 DEF Byte

\* What is masked twice is as it was.
LEMMA XorTwice ==
  ASSUME NEW a \in Byte, NEW b \in Byte
  PROVE  Xor(a, b) \in Byte /\ Xor(Xor(a, b), b) = a
<1> DEFINE mix(c, d) == [i \in 1..8 |-> IF c[i] = d[i] THEN 0 ELSE 1]
<1>1. ASSUME NEW x \in Byte, NEW y \in Byte
      PROVE  Xor(x, y) = OfBits(mix(BitsOf(x), BitsOf(y)))
  BY DEF Xor, OfBits, BitsOf, Bit
<1>2. /\ BitsOf(a) \in [1..8 -> {0, 1}] /\ a = OfBits(BitsOf(a))
      /\ BitsOf(b) \in [1..8 -> {0, 1}]
  BY BytesAreBits
<1>3. mix(BitsOf(a), BitsOf(b)) \in [1..8 -> {0, 1}]
  OBVIOUS
<1>4. mix(mix(BitsOf(a), BitsOf(b)), BitsOf(b)) = BitsOf(a)
  BY <1>2
<1> HIDE DEF mix
<1>5. Xor(a, b) \in Byte /\ BitsOf(Xor(a, b)) = mix(BitsOf(a), BitsOf(b))
  BY <1>1, <1>3, BitsAreBytes
<1> QED BY <1>1, <1>2, <1>4, <1>5

\* So is what Masked makes of a payload, byte by byte.
LEMMA MaskedTwice ==
  ASSUME NEW payload \in Seq(Byte), NEW mask \in Seq(Byte), Len(mask) \in {0, 4}
  PROVE  /\ Masked(payload, mask) \in Seq(Byte) /\ Len(Masked(payload, mask)) = Len(payload)
         /\ Masked(Masked(payload, mask), mask) = payload
<1>1. CASE mask = <<>>
  BY <1>1 DEF Masked
<1>2. CASE mask # <<>>
  <2> DEFINE key(i) == mask[1 + ((i - 1) % 4)]
             once == [i \in 1..Len(payload) |-> Xor(payload[i], key(i))]
             twice == [i \in 1..Len(payload) |-> Xor(once[i], key(i))]
  <2>1. Len(payload) \in Nat /\ DOMAIN payload = 1..Len(payload) /\ \A i \in 1..Len(payload) : payload[i] \in Byte
    OBVIOUS
  <2>2. \A i \in 1..Len(payload) : key(i) \in Byte
    <3>1. Len(mask) = 4
      BY <1>2
    <3>2. \A j \in 1..4 : mask[j] \in Byte
      BY <3>1, ElementOfSeq
    <3>3. \A i \in 1..Len(payload) : 1 + ((i - 1) % 4) \in 1..4
      BY <2>1
    <3> QED BY <3>2, <3>3
  <2> HIDE DEF key
  <2>3. Masked(payload, mask) = once
    BY <1>2, <2>1 DEF Masked, key
  <2>4. once \in [1..Len(payload) -> Byte] /\ \A i \in 1..Len(payload) : twice[i] = payload[i]
    BY <2>1, <2>2, XorTwice
  <2>5. once \in Seq(Byte) /\ Len(once) = Len(payload)
    <3> HIDE DEF once
    <3> QED BY <2>1, <2>4
  <2>6. Masked(once, mask) = twice
    <3>1. DOMAIN once = 1..Len(payload)
      OBVIOUS
    <3> HIDE DEF once
    <3> QED BY <1>2, <3>1 DEF Masked, key
  <2>7. twice = payload
    <3>1. twice = [i \in 1..Len(payload) |-> payload[i]]
      BY <2>4
    <3>2. payload = [i \in 1..Len(payload) |-> payload[i]]
      BY <2>1
    <3> QED BY <3>1, <3>2
  <2> HIDE DEF once, twice
  <2> QED BY <2>3, <2>5, <2>6, <2>7
<1> QED BY <1>1, <1>2

\* Where LengthOf ceases to count, and what one more byte makes of a length.
Top == 65536
Grown(n, b, g) ==
  /\ g \in Nat
  /\ n >= 1 \/ b # 0 => g >= 1
  /\ n >= 1 => g >= 256
  /\ n >= 256 => g >= Top
  /\ n >= Top => g > Top
  /\ n < Top => g = 256 * n + b
\* One more byte makes of a length what Grown says.
LEMMA GrowsOn ==
  ASSUME NEW n \in Nat, NEW b \in Byte
  PROVE  Grown(n, b, WithByte(n, b))
<1>1. b \in Nat /\ b <= 255
  BY DEF Byte
<1> QED BY <1>1 DEF Grown, WithByte, Top
\* Three bytes in a row are the number they are written as.
LEMMA GrownAdd ==
  ASSUME NEW a \in Nat, a <= 255, NEW b \in Nat, b <= 255, NEW c \in Nat, c <= 255,
         NEW x, NEW y, NEW z, Grown(0, a, x), Grown(x, b, y), Grown(y, c, z)
  PROVE  /\ x \in Nat /\ x = a
         /\ y \in Nat /\ y = 256 * a + b
         /\ z \in Nat /\ z = 256 * (256 * a + b) + c
<1>1. x \in Nat /\ x = a
  BY DEF Grown, Top
<1>2. y \in Nat /\ y = 256 * x + b
  BY <1>1 DEF Grown, Top
<1>3. y < Top
  BY <1>1, <1>2 DEF Top
<1>4. z \in Nat /\ z = 256 * y + c
  BY <1>3 DEF Grown
<1> HIDE DEF Grown
<1> QED BY <1>1, <1>2, <1>4
\* Three bytes after something that is not zero are beyond every limit.
LEMMA GrownHuge ==
  ASSUME NEW m, NEW a, NEW b, NEW c, NEW x, NEW y, NEW z, m \in Nat, m >= 1, Grown(m, a, x), Grown(x, b, y), Grown(y, c, z)
  PROVE  z \in Nat /\ z > Top
BY DEF Grown, Top
\* Leading zeros count nothing.
LEMMA GrownFromNothing ==
  ASSUME NEW b, NEW x, Grown(0, b, x), b = 0
  PROVE  x = 0
BY DEF Grown, Top

\* The fold over the bytes of an extended length, one byte after another.
LEMMA LengthGrows ==
  ASSUME NEW bytes \in Seq(Byte)
  PROVE  \E g : /\ g[0] = 0 /\ \A i \in 1..Len(bytes) : Grown(g[i - 1], bytes[i], g[i])
                /\ \A i \in 0..Len(bytes) : g[i] \in Nat
                /\ LengthOf(bytes) = g[Len(bytes)]
<1> DEFINE n == Len(bytes)
           next == [p \in (1..n) \X Nat |-> WithByte(p[2], bytes[p[1]])]
           Step(f) == [T \in SUBSET DOMAIN bytes |->
                         IF T = {} THEN 0 ELSE WithByte(f[T \ {Max(T)}], bytes[Max(T)])]
           iter == CHOOSE iter : iter = Step(iter)
<1>1. n \in Nat /\ DOMAIN bytes = 1..n /\ \A i \in 1..n : bytes[i] \in Byte
  BY ElementOfSeq, LenProperties
<1>2. LengthOf(bytes) = iter[DOMAIN bytes]
  BY Zenon DEF LengthOf, FoldLeft, MapThenFoldSet
<1> HIDE DEF iter, n
<1>3. next \in [(1..n) \X Nat -> Nat]
  <2>1. ASSUME NEW p \in (1..n) \X Nat PROVE WithByte(p[2], bytes[p[1]]) \in Nat
    <3>1. p[2] \in Nat /\ bytes[p[1]] \in Byte
      BY <1>1
    <3>2. Grown(p[2], bytes[p[1]], WithByte(p[2], bytes[p[1]]))
      BY <3>1, GrowsOn
    <3> QED BY <3>2 DEF Grown
  <2> QED BY <2>1
<1>4. PICK g \in [SUBSET (1..n) -> Nat] : IsListFold(g, n, 0, next)
  <2>1. 0 \in Nat
    OBVIOUS
  <2> HIDE DEF next
  <2> QED BY <1>1, <1>3, <2>1, ListFoldExists
<1>5. g = Step(g)
  <2>1. ASSUME NEW T \in SUBSET (1..n), T # {}
        PROVE  g[T] = WithByte(g[T \ {Max(T)}], bytes[Max(T)])
    <3>1. Max(T) \in 1..n /\ g[T \ {Max(T)}] \in Nat
      BY <1>1, <2>1, GreatestIndex
    <3>2. g[T] = next[<<Max(T), g[T \ {Max(T)}]>>]
      <4> HIDE DEF next
      <4> QED BY <1>4, <2>1, Zenon DEF IsListFold
    <3> QED BY <3>1, <3>2
  <2>2. g = [T \in SUBSET (1..n) |-> g[T]]
    OBVIOUS
  <2>3. g[{}] = 0
    <3> HIDE DEF next
    <3> QED BY <1>4, Zenon DEF IsListFold
  <2> QED BY <1>1, <2>1, <2>2, <2>3, Zenon
<1>6. iter = Step(iter)
  <2> HIDE DEF Step
  <2> QED BY <1>5, Zenon DEF iter
<1> DEFINE r == [i \in 0..n |-> iter[1..i]]
<1>7. r[0] = 0 /\ r[n] = LengthOf(bytes)
  <2>1. 1..0 = {} /\ {} \in SUBSET DOMAIN bytes
    OBVIOUS
  <2>2. iter[{}] = 0
    BY <1>6, <2>1, Zenon
  <2> QED BY <1>1, <1>2, <2>1, <2>2
<1>8. ASSUME NEW i \in 1..n PROVE r[i] = WithByte(r[i - 1], bytes[i])
  <2>1. 1..i \in SUBSET DOMAIN bytes /\ 1..i # {} /\ (1..i) \ {i} = 1..(i - 1)
    <3>1. n \in Nat /\ DOMAIN bytes = 1..n
      BY <1>1
    <3>2. i \in 1..i /\ \A j \in 1..i : j \in 1..n
      BY <3>1
    <3> HIDE DEF n
    <3>4. 1..i \in SUBSET (1..n) /\ 1..i # {}
      BY <3>2
    <3>3. (1..i) \ {i} = 1..(i - 1)
      OBVIOUS
    <3> QED BY <3>1, <3>3, <3>4, Zenon
  <2>2. Max(1..i) = i
    BY DEF Max
  <2>3. iter[1..i] = WithByte(iter[1..(i - 1)], bytes[i])
    BY <1>6, <2>1, <2>2, Zenon
  <2> QED BY <1>1, <2>3
<1> HIDE DEF r
<1> DEFINE Good == {i \in Nat : i <= n => r[i] \in Nat}
<1>9. 0 \in Good
  BY <1>7
<1>10. ASSUME NEW i \in Nat, i \in Good PROVE i + 1 \in Good
  <2> SUFFICES ASSUME i + 1 <= n PROVE r[i + 1] \in Nat
    OBVIOUS
  <2>1. i + 1 \in 1..n /\ (i + 1) - 1 = i /\ r[i] \in Nat
    BY <1>1, <1>10
  <2>2. r[i + 1] = WithByte(r[i], bytes[i + 1]) /\ bytes[i + 1] \in Byte
    BY <1>1, <1>8, <2>1
  <2>3. Grown(r[i], bytes[i + 1], r[i + 1])
    BY <2>1, <2>2, GrowsOn
  <2> QED BY <2>3 DEF Grown
<1>11. \A i \in Nat : i \in Good
  <2> HIDE DEF Good
  <2> QED BY <1>9, <1>10, NatInductionOnSets
<1>12. \A i \in 0..n : r[i] \in Nat
  BY <1>1, <1>11
<1>13. ASSUME NEW i \in 1..n PROVE Grown(r[i - 1], bytes[i], r[i])
  <2>1. i - 1 \in 0..n /\ bytes[i] \in Byte
    BY <1>1
  <2>2. r[i - 1] \in Nat
    BY <1>12, <2>1
  <2> QED BY <1>8, <2>1, <2>2, GrowsOn
<1> QED BY <1>7, <1>12, <1>13 DEF n

\* An extended length is what is declared, or it is above every limit.
LEMMA LengthIsDeclared ==
  ASSUME NEW f, IsSent(f), Len(f.ext) # 0
  PROVE  /\ LengthOf(f.ext) \in Nat
         /\ TooLong(f) <=> LengthOf(f.ext) > MaxPayload
         /\ ~TooLong(f) => LengthOf(f.ext) = Len(f.payload)
<1> DEFINE ext == f.ext
           Limit == MaxPayload
<1>1. ext \in Seq(Byte) /\ Len(ext) \in {2, 8} /\ (TooLong(f) \/ Declared(f) = Len(f.payload))
  BY DEF IsSent
<1>2. PICK g : /\ g[0] = 0 /\ \A i \in 1..Len(ext) : Grown(g[i - 1], ext[i], g[i])
               /\ \A i \in 0..Len(ext) : g[i] \in Nat
               /\ LengthOf(ext) = g[Len(ext)]
  <2> HIDE DEF ext
  <2> QED BY <1>1, LengthGrows
<1>3. \A i \in 1..Len(ext) : ext[i] \in Nat /\ ext[i] <= 255
  <2>1. \A i \in 1..Len(ext) : ext[i] \in Byte
    BY <1>1, ElementOfSeq
  <2>2. \A b \in Byte : b \in Nat /\ b <= 255
    BY DEF Byte
  <2> HIDE DEF ext
  <2> QED BY <2>1, <2>2
<1>4. Limit \in Nat /\ Limit <= Top
  BY FrameDecoderAssumption DEF Top
<1> HIDE DEF Limit
<1>5. CASE Len(ext) = 2
  <2>1. Grown(0, ext[1], g[1]) /\ Grown(g[1], ext[2], g[2]) /\ g[2] = LengthOf(ext)
    BY <1>2, <1>5
  <2>2. ext[1] \in Nat /\ ext[1] <= 255 /\ ext[2] \in Nat /\ ext[2] <= 255
    BY <1>3, <1>5
  <2> HIDE DEF ext
  <2>3. g[2] = 256 * ext[1] + ext[2] /\ g[2] \in Nat
    <3>1. g[1] = ext[1] /\ g[1] \in Nat
      BY <2>1, <2>2 DEF Grown, Top
    <3> QED BY <2>1, <2>2, <3>1 DEF Grown, Top
  <2>4. Declared(f) = g[2] /\ (TooLong(f) <=> g[2] > Limit)
    BY <1>5, <2>3 DEF Declared, TooLong, ext, Limit
  <2> QED BY <1>1, <2>1, <2>3, <2>4 DEF ext, Limit
<1>6. CASE Len(ext) = 8
  <2>1. /\ Grown(0, ext[1], g[1]) /\ Grown(g[1], ext[2], g[2]) /\ Grown(g[2], ext[3], g[3]) /\ Grown(g[3], ext[4], g[4])
        /\ Grown(g[4], ext[5], g[5]) /\ Grown(g[5], ext[6], g[6]) /\ Grown(g[6], ext[7], g[7]) /\ Grown(g[7], ext[8], g[8])
    BY <1>2, <1>6
  <2>2. /\ g[8] = LengthOf(ext) /\ g[8] \in Nat
        /\ ext[6] \in Nat /\ ext[6] <= 255 /\ ext[7] \in Nat /\ ext[7] <= 255 /\ ext[8] \in Nat /\ ext[8] <= 255
    BY <1>2, <1>3, <1>6
  <2>3. g[1] \in Nat /\ g[2] \in Nat /\ g[3] \in Nat /\ g[4] \in Nat /\ g[5] \in Nat
    BY <1>2, <1>6
  <2> HIDE DEF ext
  <2> DEFINE first == \E i \in 1..5 : ext[i] # 0
             declared == 256 * (256 * ext[6] + ext[7]) + ext[8]
  <2>4. Declared(f) = declared /\ (TooLong(f) <=> declared > Limit \/ first)
    BY <1>6 DEF Declared, TooLong, ext, Limit
  <2>5. ASSUME first PROVE g[8] > Top
    <3>1. ext[1] # 0 => g[1] >= 1
      BY <2>1 DEF Grown
    <3>2. ext[2] # 0 \/ g[1] >= 1 => g[2] >= 1
      BY <2>1 DEF Grown
    <3>3. ext[3] # 0 \/ g[2] >= 1 => g[3] >= 1
      BY <2>1 DEF Grown
    <3>4. ext[4] # 0 \/ g[3] >= 1 => g[4] >= 1
      BY <2>1 DEF Grown
    <3>5. ext[5] # 0 \/ g[4] >= 1 => g[5] >= 1
      BY <2>1 DEF Grown
    <3>6. ext[1] # 0 \/ ext[2] # 0 \/ ext[3] # 0 \/ ext[4] # 0 \/ ext[5] # 0
      BY <2>5
    <3>7. g[5] >= 1
      BY <3>1, <3>2, <3>3, <3>4, <3>5, <3>6
    <3> QED BY <2>1, <2>3, <3>7, GrownHuge
  <2>6. ASSUME ~first PROVE g[8] = declared
    <3>1. ext[1] = 0 /\ ext[2] = 0 /\ ext[3] = 0 /\ ext[4] = 0 /\ ext[5] = 0
      BY <2>6
    <3>2. g[1] = 0
      BY <2>1, <3>1, GrownFromNothing
    <3>3. g[2] = 0
      BY <2>1, <3>1, <3>2, GrownFromNothing
    <3>4. g[3] = 0
      BY <2>1, <3>1, <3>3, GrownFromNothing
    <3>5. g[4] = 0
      BY <2>1, <3>1, <3>4, GrownFromNothing
    <3>6. Grown(0, ext[6], g[6])
      <4>1. g[5] = 0
        BY <2>1, <3>1, <3>5, GrownFromNothing
      <4> QED BY <2>1, <4>1
    <3> QED BY <2>1, <2>2, <3>6, GrownAdd, SMTT(30)
  <2> HIDE DEF first, declared
  <2>7. TooLong(f) <=> LengthOf(ext) > Limit
    <3>1. Top \in Nat
      BY DEF Top
    <3> QED BY <1>4, <2>2, <2>4, <2>5, <2>6, <3>1
  <2>8. ~TooLong(f) => LengthOf(ext) = Declared(f)
    BY <2>2, <2>4, <2>6
  <2> QED BY <1>1, <2>2, <2>7, <2>8 DEF ext, Limit
<1> QED BY <1>1, <1>5, <1>6

\* Two sequences of bytes, one after the other.
LEMMA BytesTogether ==
  ASSUME NEW s \in Seq(Byte), NEW t \in Seq(Byte)
  PROVE  /\ s \o t \in Seq(Byte) /\ Len(s) \in Nat /\ Len(t) \in Nat
         /\ Len(s \o t) = Len(s) + Len(t)
         /\ \A i \in 1..Len(s) : (s \o t)[i] = s[i]
         /\ \A i \in 1..Len(t) : (s \o t)[Len(s) + i] = t[i]
<1>1. Len(s) \in Nat /\ Len(t) \in Nat
  BY LenProperties
<1>2. /\ s \o t \in Seq(Byte) /\ Len(s \o t) = Len(s) + Len(t)
      /\ \A i \in 1..(Len(s) + Len(t)) : (s \o t)[i] = IF i <= Len(s) THEN s[i] ELSE t[i - Len(s)]
  BY ConcatProperties
<1>3. ASSUME NEW i \in 1..Len(t) PROVE (s \o t)[Len(s) + i] = t[i]
  <2>1. Len(s) + i \in 1..(Len(s) + Len(t)) /\ ~ (Len(s) + i <= Len(s)) /\ (Len(s) + i) - Len(s) = i
    BY <1>1
  <2> QED BY <1>2, <2>1
<1>4. \A i \in 1..Len(s) : i \in 1..(Len(s) + Len(t)) /\ i <= Len(s)
  BY <1>1
<1> QED BY <1>1, <1>2, <1>3, <1>4

\* The bytes of a frame, part by part.
LEMMA EncodedParts ==
  ASSUME NEW f, IsSent(f)
  PROVE  /\ Encoded(f) \in Seq(Byte)
         /\ Len(Encoded(f)) = 2 + Len(f.ext) + Len(f.mask) + Len(f.payload)
         /\ Encoded(f)[1] = (IF f.fin THEN 128 ELSE 0) + f.opcode
         /\ Encoded(f)[2] = (IF f.mask = <<>> THEN 0 ELSE 128)
                              + (IF Len(f.ext) = 0 THEN Len(f.payload) ELSE IF Len(f.ext) = 2 THEN 126 ELSE 127)
         /\ \A i \in 1..Len(f.ext) : Encoded(f)[2 + i] = f.ext[i]
         /\ \A i \in 1..Len(f.mask) : Encoded(f)[2 + Len(f.ext) + i] = f.mask[i]
         /\ \A i \in 1..Len(f.payload) :
              Encoded(f)[2 + Len(f.ext) + Len(f.mask) + i] = Masked(f.payload, f.mask)[i]
<1> DEFINE first == (IF f.fin THEN 128 ELSE 0) + f.opcode
           second == (IF f.mask = <<>> THEN 0 ELSE 128)
                       + (CASE f.ext = <<>> -> Len(f.payload) [] Len(f.ext) = 2 -> 126 [] OTHER -> 127)
           short == IF Len(f.ext) = 0 THEN Len(f.payload) ELSE IF Len(f.ext) = 2 THEN 126 ELSE 127
           head == <<first, second>>
           ext == f.ext
           mask == f.mask
           body == Masked(f.payload, f.mask)
<1>1. /\ ext \in Seq(Byte) /\ mask \in Seq(Byte) /\ f.payload \in Seq(Byte)
      /\ Len(ext) \in {0, 2, 8} /\ Len(mask) \in {0, 4} /\ (Len(ext) = 0 => Len(f.payload) <= 125)
      /\ f.fin \in BOOLEAN /\ f.opcode \in 0..15
  BY DEF IsSent
<1>2. body \in Seq(Byte) /\ Len(body) = Len(f.payload)
  BY <1>1, MaskedTwice
<1>3. second = (IF f.mask = <<>> THEN 0 ELSE 128) + short
  <2>1. Len(ext) = 0 <=> ext = <<>>
    BY <1>1, EmptySeq
  <2>2. (CASE ext = <<>> -> Len(f.payload) [] Len(ext) = 2 -> 126 [] OTHER -> 127) = short
    <3>1. CASE Len(ext) = 0
      BY <2>1, <3>1
    <3>2. CASE Len(ext) = 2
      BY <2>1, <3>2
    <3>3. CASE Len(ext) = 8
      BY <2>1, <3>3
    <3> HIDE DEF ext, short
    <3> QED BY <1>1, <3>1, <3>2, <3>3
  <2> QED BY <2>2
<1>4. first \in Byte /\ second \in Byte
  <2>1. Len(f.payload) \in Nat
    BY <1>1, LenProperties
  <2>2. short \in 0..127
    <3> DEFINE m == Len(f.payload)
               x == Len(f.ext)
    <3>1. m \in Nat /\ x \in {0, 2, 8} /\ (x = 0 => m <= 125)
      BY <1>1, <2>1
    <3>2. short = IF x = 0 THEN m ELSE IF x = 2 THEN 126 ELSE 127
      OBVIOUS
    <3> HIDE DEF short, m, x
    <3> QED BY <3>1, <3>2
  <2> DEFINE key == IF f.mask = <<>> THEN 0 ELSE 128
             low == IF f.fin THEN 128 ELSE 0
             opcode == f.opcode
  <2>3. key \in {0, 128} /\ low \in {0, 128} /\ opcode \in 0..15
    BY <1>1
  <2>4. second = key + short /\ first = low + opcode
    BY <1>3
  <2> HIDE DEF short, key, low, first, second, opcode
  <2> QED BY <2>2, <2>3, <2>4 DEF Byte
<1>5. Encoded(f) = head \o ext \o mask \o body
  BY DEF Encoded
<1> HIDE DEF first, second, body, ext, mask
<1>6. head \in Seq(Byte) /\ Len(head) = 2 /\ head[1] = first /\ head[2] = second
  BY <1>4
<1> HIDE DEF head
<1> DEFINE two == head \o ext
           three == two \o mask
           four == three \o body
<1>7. /\ two \in Seq(Byte) /\ Len(two) = 2 + Len(ext) /\ two[1] = first /\ two[2] = second
      /\ \A i \in 1..Len(ext) : two[2 + i] = ext[i]
  <2>1. /\ head \o ext \in Seq(Byte) /\ Len(head \o ext) = Len(head) + Len(ext)
        /\ \A i \in 1..Len(head) : (head \o ext)[i] = head[i]
        /\ \A i \in 1..Len(ext) : (head \o ext)[Len(head) + i] = ext[i]
    BY <1>1, <1>6, BytesTogether
  <2> QED BY <1>6, <2>1
<1> HIDE DEF two
<1>8. /\ three \in Seq(Byte) /\ Len(three) = 2 + Len(ext) + Len(mask)
      /\ \A i \in 1..Len(two) : three[i] = two[i]
      /\ \A i \in 1..Len(mask) : three[2 + Len(ext) + i] = mask[i]
  <2>1. /\ two \o mask \in Seq(Byte) /\ Len(two \o mask) = Len(two) + Len(mask)
        /\ \A i \in 1..Len(two) : (two \o mask)[i] = two[i]
        /\ \A i \in 1..Len(mask) : (two \o mask)[Len(two) + i] = mask[i]
    BY <1>1, <1>7, BytesTogether, ZenonT(60)
  <2> QED BY <1>7, <2>1
<1> HIDE DEF three
<1>9. /\ four \in Seq(Byte) /\ Len(four) = 2 + Len(ext) + Len(mask) + Len(body)
      /\ \A i \in 1..Len(three) : four[i] = three[i]
      /\ \A i \in 1..Len(body) : four[2 + Len(ext) + Len(mask) + i] = body[i]
  <2>1. /\ three \o body \in Seq(Byte) /\ Len(three \o body) = Len(three) + Len(body)
        /\ \A i \in 1..Len(three) : (three \o body)[i] = three[i]
        /\ \A i \in 1..Len(body) : (three \o body)[Len(three) + i] = body[i]
    BY <1>2, <1>8, BytesTogether
  <2> QED BY <1>8, <2>1
<1>10. Encoded(f) = four
  BY <1>5 DEF two, three
<1> HIDE DEF four
<1>11. Len(ext) \in Nat /\ Len(mask) \in Nat /\ Len(body) \in Nat
  BY <1>1, <1>2, LenProperties
<1>12. /\ \A i \in 1..Len(ext) : four[2 + i] = ext[i]
       /\ four[1] = first /\ four[2] = second
       /\ \A i \in 1..Len(mask) : four[2 + Len(ext) + i] = mask[i]
  <2>1. \A i \in 1..(2 + Len(ext)) : four[i] = two[i]
    BY <1>7, <1>8, <1>9, <1>11
  <2>2. ASSUME NEW i \in 1..Len(ext) PROVE four[2 + i] = ext[i]
    <3>1. 2 + i \in 1..(2 + Len(ext))
      BY <1>11
    <3> QED BY <1>7, <2>1, <3>1
  <2>3. ASSUME NEW i \in 1..Len(mask) PROVE four[2 + Len(ext) + i] = mask[i]
    <3>1. 2 + Len(ext) + i \in 1..Len(three)
      BY <1>8, <1>11
    <3> QED BY <1>8, <1>9, <3>1
  <2>4. 1 \in 1..(2 + Len(ext)) /\ 2 \in 1..(2 + Len(ext))
    BY <1>11
  <2> QED BY <1>7, <2>1, <2>2, <2>3, <2>4
<1> HIDE DEF short
<1> QED BY <1>2, <1>3, <1>9, <1>10, <1>12 DEF first, ext, mask, body, short

\* What the decoder reads from the first bytes of a frame.
LEMMA HeaderIsRead ==
  ASSUME NEW f, IsSent(f), NEW buffer \in Seq(Byte),
         \A i \in 1..Len(Encoded(f)) : i <= Len(buffer) => buffer[i] = Encoded(f)[i]
  PROVE  LET h == FrameHeader(buffer) IN
         /\ Len(buffer) < 2 + Len(f.ext) => ~h.complete
         /\ Len(buffer) >= 2 + Len(f.ext) =>
              /\ h.complete /\ h.fin = f.fin /\ h.opcode = f.opcode
              /\ h.masked <=> f.mask # <<>>
              /\ h.offset = 2 + Len(f.ext) /\ h.length \in Nat
              /\ h.length > MaxPayload <=> TooLong(f)
              /\ ~TooLong(f) => h.length = Len(f.payload)
<1> DEFINE E == Encoded(f)
           n == Len(buffer)
           x == Len(f.ext)
           h == FrameHeader(buffer)
           plain == IF x = 0 THEN Len(f.payload) ELSE IF x = 2 THEN 126 ELSE 127
           key == IF f.mask = <<>> THEN 0 ELSE 128
           short == buffer[2] % 128
           ext == CASE short = 126 -> 2 [] short = 127 -> 8 [] OTHER -> 0
           length == IF ext = 0 THEN short ELSE LengthOf(SubSeq(buffer, 3, 2 + ext))
<1>1. /\ f.ext \in Seq(Byte) /\ f.mask \in Seq(Byte) /\ f.payload \in Seq(Byte)
      /\ x \in {0, 2, 8} /\ (x = 0 => Len(f.payload) <= 125)
      /\ f.fin \in BOOLEAN /\ f.opcode \in 0..15
  BY DEF IsSent
<1>2. /\ Len(E) \in Nat /\ Len(E) >= 2 + x
      /\ E[1] = (IF f.fin THEN 128 ELSE 0) + f.opcode
      /\ E[2] = key + plain
      /\ \A i \in 1..x : E[2 + i] = f.ext[i]
  <2>1. Len(f.ext) \in Nat /\ Len(f.mask) \in Nat /\ Len(f.payload) \in Nat
    BY <1>1, LenProperties
  <2>2. Len(E) = 2 + Len(f.ext) + Len(f.mask) + Len(f.payload)
    BY EncodedParts
  <2>3. /\ E[1] = (IF f.fin THEN 128 ELSE 0) + f.opcode
        /\ E[2] = key + plain
        /\ \A i \in 1..x : E[2 + i] = f.ext[i]
    BY EncodedParts
  <2>4. Len(E) \in Nat /\ Len(E) >= 2 + x
    <3> DEFINE e == Len(E)
               k == Len(f.mask)
               m == Len(f.payload)
    <3>1. e = 2 + x + k + m /\ x \in Nat /\ k \in Nat /\ m \in Nat
      BY <2>1, <2>2
    <3> HIDE DEF e, k, m, x
    <3>2. e \in Nat /\ e >= 2 + x
      BY <3>1
    <3> QED BY <3>2 DEF e
  <2> QED BY <2>3, <2>4
<1>3. \A i \in 1..Len(E) : i <= n => buffer[i] = E[i]
  OBVIOUS
<1>4. n \in Nat /\ Len(f.payload) \in Nat
  BY <1>1, LenProperties
<1>5. plain \in 0..127 /\ (x = 0 => plain <= 125) /\ (x = 2 => plain = 126) /\ (x = 8 => plain = 127)
      /\ (x = 0 => plain = Len(f.payload))
  <2> DEFINE m == Len(f.payload)
  <2>1. m \in Nat /\ x \in {0, 2, 8} /\ (x = 0 => m <= 125)
    BY <1>1, <1>4
  <2>2. plain = IF x = 0 THEN m ELSE IF x = 2 THEN 126 ELSE 127
    OBVIOUS
  <2> HIDE DEF plain, m, x
  <2>3. CASE x = 0
    <3>1. plain = m /\ plain \in 0..127 /\ plain <= 125
      BY <2>1, <2>2, <2>3
    <3> QED BY <2>3, <3>1 DEF m
  <2>4. CASE x = 2
    BY <2>2, <2>4
  <2>5. CASE x = 8
    BY <2>2, <2>5
  <2> QED BY <2>1, <2>3, <2>4, <2>5
<1> HIDE DEF E, plain, key
<1>6. CASE n < 2
  <2>1. h = [complete |-> FALSE]
    BY <1>6 DEF FrameHeader
  <2> HIDE DEF h
  <2> QED BY <1>1, <1>4, <1>6, <2>1 DEF h
<1>7. CASE n >= 2
  <2>1. buffer[1] = E[1] /\ buffer[2] = E[2]
    BY <1>1, <1>2, <1>3, <1>4, <1>7
  <2>2. short = plain /\ (buffer[2] >= 128 <=> f.mask # <<>>)
    <3>1. buffer[2] = key + plain
      BY <1>2, <2>1
    <3>2. CASE f.mask = <<>>
      <4>1. buffer[2] = plain
        BY <1>5, <3>1, <3>2 DEF key
      <4> QED BY <1>5, <3>2, <4>1
    <3>3. CASE f.mask # <<>>
      <4>1. buffer[2] = 128 + plain
        BY <1>5, <3>1, <3>3 DEF key
      <4> QED BY <1>5, <3>3, <4>1
    <3> QED BY <3>2, <3>3
  <2>3. ext = x
    <3>1. CASE x = 0
      <4>1. short # 126 /\ short # 127
        BY <1>5, <2>2, <3>1
      <4> QED BY <3>1, <4>1
    <3>2. CASE x = 2
      <4>1. short = 126
        BY <1>5, <2>2, <3>2
      <4> QED BY <3>2, <4>1
    <3>3. CASE x = 8
      <4>1. short = 127 /\ short # 126
        BY <1>5, <2>2, <3>3
      <4> QED BY <3>3, <4>1
    <3> QED BY <1>1, <3>1, <3>2, <3>3
  <2>4. (buffer[1] >= 128) = f.fin /\ buffer[1] % 16 = f.opcode
    <3> DEFINE opcode == f.opcode
    <3>1. opcode \in 0..15
      BY <1>1
    <3>2. CASE f.fin
      <4>1. buffer[1] = 128 + opcode
        BY <1>2, <2>1, <3>2
      <4> HIDE DEF opcode
      <4>2. buffer[1] >= 128 /\ buffer[1] % 16 = opcode
        BY <3>1, <4>1
      <4> QED BY <1>1, <3>2, <4>2, Zenon DEF opcode
    <3>3. CASE ~ f.fin
      <4>1. buffer[1] = opcode
        <5>1. buffer[1] = 0 + opcode
          BY <1>2, <2>1, <3>3
        <5> QED BY <3>1, <5>1
      <4> HIDE DEF opcode
      <4>2. ~ (buffer[1] >= 128) /\ buffer[1] % 16 = opcode
        BY <3>1, <4>1
      <4> QED BY <1>1, <3>3, <4>2 DEF opcode
    <3> QED BY <1>1, <3>2, <3>3
  <2>5. CASE n < 2 + x
    <3>1. h = [complete |-> FALSE]
      <4>1. ~ (n < 2) /\ n < 2 + ext
        BY <1>4, <1>7, <2>3, <2>5
      <4> QED BY <4>1 DEF FrameHeader
    <3> HIDE DEF h
    <3> QED BY <1>1, <1>4, <2>5, <3>1 DEF h
  <2>6. CASE n >= 2 + x
    <3>1. h = [complete |-> TRUE, fin |-> buffer[1] >= 128, opcode |-> buffer[1] % 16,
               masked |-> buffer[2] >= 128, offset |-> 2 + ext, length |-> length]
      <4>1. ~ (n < 2) /\ ~ (n < 2 + ext)
        BY <1>1, <1>4, <1>7, <2>3, <2>6
      <4> QED BY <4>1 DEF FrameHeader
    <3>2. /\ length \in Nat /\ (length > MaxPayload <=> TooLong(f))
          /\ ~TooLong(f) => length = Len(f.payload)
      <4>1. CASE x = 0
        <5>1. length = Len(f.payload)
          BY <1>5, <2>2, <2>3, <4>1
        <5>2. TooLong(f) <=> Len(f.payload) > MaxPayload
          BY <4>1 DEF TooLong, Declared
        <5> QED BY <1>4, <5>1, <5>2
      <4>2. CASE x # 0
        <5> DEFINE part == SubSeq(buffer, 3, 2 + x)
        <5>1. part = f.ext
          <6>1. \A i \in 3..(2 + x) : buffer[i] \in Byte
            BY <1>1, <1>4, <2>6, ElementOfSeq
          <6>2. /\ part \in Seq(Byte) /\ Len(part) = x
                /\ \A i \in 1..x : part[i] = buffer[i + 2]
            <7>1. /\ SubSeq(buffer, 3, 2 + x) \in Seq(Byte)
                  /\ Len(SubSeq(buffer, 3, 2 + x)) = IF 3 <= 2 + x THEN (2 + x) - 3 + 1 ELSE 0
                  /\ \A i \in 1..((2 + x) - 3 + 1) : SubSeq(buffer, 3, 2 + x)[i] = buffer[3 + i - 1]
              <8>1. 3 \in Int /\ 2 + x \in Int
                BY <1>1
              <8> HIDE DEF x
              <8> QED BY <6>1, <8>1, SubSeqProperties
            <7> HIDE DEF part
            <7> QED BY <1>1, <4>2, <7>1 DEF part
          <6>3. \A i \in 1..x : buffer[i + 2] = f.ext[i]
            <7> SUFFICES ASSUME NEW i \in 1..x PROVE buffer[i + 2] = f.ext[i]
              OBVIOUS
            <7>1. 2 + i \in 1..Len(E) /\ 2 + i <= n /\ i + 2 = 2 + i
              BY <1>1, <1>2, <1>4, <2>6
            <7>2. buffer[i + 2] = E[2 + i]
              BY <1>3, <7>1
            <7>3. E[2 + i] = f.ext[i]
              BY <1>2
            <7> QED BY <7>2, <7>3
          <6> HIDE DEF part
          <6> QED BY <1>1, <6>2, <6>3, SeqEqual, SMTT(30)
        <5>2. length = LengthOf(f.ext)
          BY <2>3, <4>2, <5>1
        <5> HIDE DEF length
        <5> QED BY <4>2, <5>2, LengthIsDeclared
      <4> QED BY <4>1, <4>2
    <3> HIDE DEF h, length, ext
    <3>3. /\ h.complete /\ h.fin = f.fin /\ h.opcode = f.opcode
          /\ h.masked <=> f.mask # <<>>
          /\ h.offset = 2 + x /\ h.length = length
      BY <2>2, <2>3, <2>4, <3>1
    <3> QED BY <1>1, <1>4, <2>6, <3>2, <3>3 DEF h
  <2> QED BY <1>1, <1>4, <1>7, <2>5, <2>6
<1> QED BY <1>4, <1>6, <1>7

\* A piece of a sequence of bytes.
LEMMA PieceOfBytes ==
  ASSUME NEW s \in Seq(Byte), NEW a \in Nat, NEW b \in Nat, a <= b, b <= Len(s)
  PROVE  /\ SubSeq(s, a + 1, b) \in Seq(Byte) /\ Len(SubSeq(s, a + 1, b)) = b - a
         /\ \A i \in 1..(b - a) : SubSeq(s, a + 1, b)[i] = s[a + i]
<1> DEFINE t == SubSeq(s, a + 1, b)
<1>1. Len(s) \in Nat
  BY LenProperties
<1>2. \A i \in (a + 1)..b : s[i] \in Byte
  BY <1>1, ElementOfSeq
<1>3. /\ t \in Seq(Byte) /\ Len(t) = (IF a + 1 <= b THEN b - (a + 1) + 1 ELSE 0)
      /\ \A i \in 1..(b - (a + 1) + 1) : t[i] = s[(a + 1) + i - 1]
  <2>1. a + 1 \in Int /\ b \in Int
    OBVIOUS
  <2> QED BY <1>2, <2>1, SubSeqProperties
<1> HIDE DEF t
<1>4. Len(t) = b - a
  BY <1>3
<1>5. ASSUME NEW i \in 1..(b - a) PROVE t[i] = s[a + i]
  <2>1. i \in 1..(b - (a + 1) + 1) /\ (a + 1) + i - 1 = a + i
    OBVIOUS
  <2> QED BY <1>3, <2>1
<1> QED BY <1>3, <1>4, <1>5 DEF t

\* The rest of a piece.
LEMMA RestOfPiece ==
  ASSUME NEW s \in Seq(Byte), NEW a \in Nat, NEW b \in Nat, NEW c \in Nat, a <= b, b <= c, c <= Len(s),
         NEW e, e = b - a
  PROVE  SubSeq(SubSeq(s, a + 1, c), e + 1, Len(SubSeq(s, a + 1, c))) = SubSeq(s, b + 1, c)
<1> DEFINE t == SubSeq(s, a + 1, c)
           u == SubSeq(t, e + 1, Len(t))
           v == SubSeq(s, b + 1, c)
<1>1. Len(s) \in Nat /\ a <= c /\ e \in Nat
  BY LenProperties
<1>2. t \in Seq(Byte) /\ Len(t) = c - a /\ \A i \in 1..(c - a) : t[i] = s[a + i]
  BY <1>1, PieceOfBytes
<1>3. v \in Seq(Byte) /\ Len(v) = c - b /\ \A i \in 1..(c - b) : v[i] = s[b + i]
  BY <1>1, PieceOfBytes
<1> DEFINE l == c - a
<1>4. l \in Nat /\ e <= l /\ l <= Len(t) /\ l - e = c - b
  BY <1>1, <1>2
<1>5. u = SubSeq(t, e + 1, l)
  BY <1>2
<1> HIDE DEF t, v, l
<1>6. SubSeq(t, e + 1, l) \in Seq(Byte) /\ Len(SubSeq(t, e + 1, l)) = l - e
      /\ \A i \in 1..(l - e) : SubSeq(t, e + 1, l)[i] = t[e + i]
  BY <1>1, <1>2, <1>4, PieceOfBytes
<1> HIDE DEF u
<1>7. u \in Seq(Byte) /\ Len(u) = c - b /\ \A i \in 1..(c - b) : u[i] = t[e + i]
  BY <1>4, <1>5, <1>6
<1>8. ASSUME NEW i \in 1..(c - b) PROVE u[i] = v[i]
  <2>1. e + i \in 1..(c - a) /\ a + (e + i) = b + i
    BY <1>1
  <2>2. t[e + i] = s[a + (e + i)]
    BY <1>2, <2>1
  <2> QED BY <1>3, <1>7, <2>1, <2>2
<1>9. u = v
  BY <1>3, <1>7, <1>8, SeqEqual
<1> QED BY <1>9 DEF u, v, t

\* Pieces that are next to each other.
LEMMA PiecesTogether ==
  ASSUME NEW s \in Seq(Byte), NEW a \in Nat, NEW b \in Nat, NEW c \in Nat, a <= b, b <= c, c <= Len(s)
  PROVE  SubSeq(s, a + 1, b) \o SubSeq(s, b + 1, c) = SubSeq(s, a + 1, c)
<1> DEFINE u == SubSeq(s, a + 1, b)
           v == SubSeq(s, b + 1, c)
           w == SubSeq(s, a + 1, c)
<1>1. Len(s) \in Nat /\ b <= Len(s) /\ a <= c
  BY LenProperties
<1>2. u \in Seq(Byte) /\ Len(u) = b - a /\ \A i \in 1..(b - a) : u[i] = s[a + i]
  BY <1>1, PieceOfBytes
<1>3. v \in Seq(Byte) /\ Len(v) = c - b /\ \A i \in 1..(c - b) : v[i] = s[b + i]
  BY PieceOfBytes
<1>4. w \in Seq(Byte) /\ Len(w) = c - a /\ \A i \in 1..(c - a) : w[i] = s[a + i]
  BY <1>1, PieceOfBytes
<1> HIDE DEF u, v, w
<1>5. /\ u \o v \in Seq(Byte) /\ Len(u \o v) = Len(u) + Len(v)
      /\ \A i \in 1..Len(u) : (u \o v)[i] = u[i]
      /\ \A i \in 1..Len(v) : (u \o v)[Len(u) + i] = v[i]
  BY <1>2, <1>3, BytesTogether
<1> DEFINE t == u \o v
<1>6. t \in Seq(Byte) /\ Len(t) = c - a
  BY <1>1, <1>2, <1>3, <1>5
<1>7. ASSUME NEW i \in 1..(c - a) PROVE t[i] = w[i]
  <2>1. CASE i <= b - a
    <3>1. i \in 1..(b - a)
      BY <2>1
    <3>2. t[i] = u[i]
      BY <1>2, <1>5, <3>1
    <3> HIDE DEF t
    <3> QED BY <1>2, <1>4, <3>1, <3>2
  <2>2. CASE i > b - a
    <3> DEFINE j == i - (b - a)
    <3>1. j \in 1..(c - b) /\ (b - a) + j = i /\ b + j = a + i
      BY <2>2
    <3> HIDE DEF j
    <3>2. t[(b - a) + j] = v[j]
      BY <1>2, <1>3, <1>5, <3>1
    <3>3. v[j] = s[b + j] /\ w[i] = s[a + i]
      BY <1>3, <1>4, <3>1
    <3> HIDE DEF t
    <3> QED BY <3>1, <3>2, <3>3
  <2>3. i <= b - a \/ i > b - a
    OBVIOUS
  <2> HIDE DEF t
  <2> QED BY <2>1, <2>2, <2>3
<1> HIDE DEF t
<1>8. t = w
  BY <1>4, <1>6, <1>7, SeqEqual
<1> QED BY <1>8 DEF t, u, v, w

\* The front of a piece.
LEMMA FrontOfPiece ==
  ASSUME NEW s \in Seq(Byte), NEW a \in Nat, NEW b \in Nat, NEW c \in Nat, a <= b, b <= c, c <= Len(s),
         NEW e, e = b - a
  PROVE  SubSeq(SubSeq(s, a + 1, c), 1, e) = SubSeq(s, a + 1, b)
<1> DEFINE t == SubSeq(s, a + 1, c)
           u == SubSeq(t, 0 + 1, e)
           v == SubSeq(s, a + 1, b)
<1>1. Len(s) \in Nat /\ b <= Len(s) /\ a <= c /\ e \in Nat /\ 0 \in Nat /\ 0 <= e
  BY LenProperties
<1>2. t \in Seq(Byte) /\ Len(t) = c - a /\ \A i \in 1..(c - a) : t[i] = s[a + i]
  BY <1>1, PieceOfBytes
<1>3. v \in Seq(Byte) /\ Len(v) = b - a /\ \A i \in 1..(b - a) : v[i] = s[a + i]
  BY <1>1, PieceOfBytes
<1>4. e <= Len(t)
  BY <1>1, <1>2
<1> HIDE DEF t, v
<1>5. u \in Seq(Byte) /\ Len(u) = e - 0 /\ \A i \in 1..(e - 0) : u[i] = t[0 + i]
  BY <1>1, <1>2, <1>4, PieceOfBytes
<1>6. u = SubSeq(t, 1, e)
  OBVIOUS
<1> HIDE DEF u
<1>7. u \in Seq(Byte) /\ Len(u) = b - a
  BY <1>1, <1>5
<1>8. ASSUME NEW i \in 1..(b - a) PROVE u[i] = v[i]
  <2>1. i \in 1..(e - 0) /\ 0 + i = i /\ i \in 1..(c - a)
    BY <1>1
  <2> QED BY <1>2, <1>3, <1>5, <2>1
<1>9. u = v
  BY <1>3, <1>7, <1>8, SeqEqual
<1> QED BY <1>6, <1>9 DEF v, t

ToldEvent == [type : {"text", "close", "ping"}, payload : Seq(Byte)]
Meaning == [at : Nat, over : {"no", "waits", "failed", "closed"}, part : Seq(Seq(Byte)), events : Seq(ToldEvent)]
IsMeaning(m) == m \in Meaning /\ Len(m.part) <= 1

\* A decoder that goes on, with these bytes left and this part of a message.
Holding(buffer, part) ==
  [buffer |-> buffer, fragment |-> IF part = <<>> THEN <<>> ELSE part[1], isText |-> part # <<>>,
   closed |-> FALSE, failed |-> FALSE]
\* One that has come to an end, as m says.
HasEnded(s, m) ==
  /\ s.events = m.events
  /\ \/ m.over = "failed" /\ s.d.failed = TRUE /\ s.d.closed = FALSE
     \/ m.over = "closed" /\ s.d.failed = FALSE /\ s.d.closed = TRUE

\* The buffer begins with what it has of the bytes of f.
Begins(buffer, f) == \A i \in 1..Len(Encoded(f)) : i <= Len(buffer) => buffer[i] = Encoded(f)[i]

\* A part that begins after the first o bytes.
LEMMA PartIsRead ==
  ASSUME NEW buffer \in Seq(Byte), NEW part \in Seq(Byte), NEW o \in Nat, o + Len(part) <= Len(buffer),
         \A i \in 1..Len(part) : buffer[o + i] = part[i]
  PROVE  SubSeq(buffer, o + 1, o + Len(part)) = part
<1> DEFINE n == Len(part)
           b == o + n
           s == SubSeq(buffer, o + 1, b)
<1>1. n \in Nat
  BY LenProperties
<1>2. b \in Nat /\ o <= b /\ b <= Len(buffer) /\ b - o = n
  BY <1>1
<1> HIDE DEF n, b
<1>3. s \in Seq(Byte) /\ Len(s) = n /\ \A i \in 1..n : s[i] = buffer[o + i]
  BY <1>2, PieceOfBytes
<1> HIDE DEF s
<1>4. s = part
  BY <1>3, SeqEqual DEF n
<1> QED BY <1>4 DEF s, b, n

\* The payload is found, and unmasked.
LEMMA PayloadIsRead ==
  ASSUME NEW f, IsSent(f), NEW buffer \in Seq(Byte), Len(Encoded(f)) <= Len(buffer), Begins(buffer, f)
  PROVE  LET offset == 2 + Len(f.ext)
             start  == offset + Len(f.mask)
             end    == start + Len(f.payload)
         IN  /\ end = Len(Encoded(f)) /\ offset \in Nat /\ start \in Nat /\ end \in Nat
             /\ Masked(SubSeq(buffer, start + 1, end), SubSeq(buffer, offset + 1, start)) = f.payload
<1> DEFINE offset == 2 + Len(f.ext)
           start == offset + Len(f.mask)
           end == start + Len(f.payload)
           E == Encoded(f)
           body == Masked(f.payload, f.mask)
           mask == f.mask
           size == Len(buffer)
           k == Len(mask)
           n == Len(body)
<1>1. f.ext \in Seq(Byte) /\ mask \in Seq(Byte) /\ f.payload \in Seq(Byte) /\ Len(mask) \in {0, 4}
  BY DEF IsSent
<1>2. body \in Seq(Byte) /\ n = Len(f.payload) /\ Masked(body, mask) = f.payload
  BY <1>1, MaskedTwice
<1>3. k \in Nat /\ n \in Nat /\ offset \in Nat /\ size \in Nat /\ Len(f.ext) \in Nat
  <2>1. Len(f.ext) \in Nat /\ Len(body) \in Nat /\ k \in Nat /\ size \in Nat
    BY <1>1, <1>2, LenProperties
  <2> HIDE DEF k, size, body
  <2> QED BY <2>1
<1>4. start = offset + k /\ end = start + n
  BY <1>2
<1>5. Len(E) = 2 + Len(f.ext) + k + n
  <2>1. Len(E) = 2 + Len(f.ext) + k + Len(f.payload)
    BY EncodedParts
  <2> QED BY <1>2, <2>1
<1>6. /\ \A i \in 1..k : E[offset + i] = mask[i]
      /\ \A i \in 1..n : E[start + i] = body[i]
  <2>1. /\ \A i \in 1..k : E[2 + Len(f.ext) + i] = mask[i]
        /\ \A i \in 1..Len(f.payload) : E[2 + Len(f.ext) + Len(f.mask) + i] = body[i]
    BY EncodedParts
  <2> HIDE DEF E, body, k, n
  <2> QED BY <1>2, <2>1
<1>7. \A i \in 1..Len(E) : i <= size => buffer[i] = E[i]
  BY DEF Begins
<1>8. Len(E) <= size
  OBVIOUS
<1> HIDE DEF offset, start, end, E, body, mask, size, k, n
<1>9. start \in Nat /\ end \in Nat
  BY <1>3, <1>4
<1>10. Len(E) = end /\ end <= size
  BY <1>3, <1>4, <1>5, <1>8 DEF offset
<1>11. ASSUME NEW i \in 1..k PROVE buffer[offset + i] = mask[i]
  <2>1. offset + i \in 1..end /\ offset + i <= size
    BY <1>3, <1>4, <1>9, <1>10
  <2> QED BY <1>6, <1>7, <1>10, <2>1
<1>12. ASSUME NEW i \in 1..n PROVE buffer[start + i] = body[i]
  <2>1. start + i \in 1..end /\ start + i <= size
    BY <1>3, <1>4, <1>9, <1>10
  <2> QED BY <1>6, <1>7, <1>10, <2>1
<1>13. SubSeq(buffer, offset + 1, start) = mask
  <2>1. offset + k <= size
    BY <1>3, <1>4, <1>9, <1>10
  <2>2. SubSeq(buffer, offset + 1, offset + Len(mask)) = mask
    BY <1>1, <1>3, <1>11, <2>1, PartIsRead DEF k, size
  <2> QED BY <1>4, <2>2 DEF k
<1>14. SubSeq(buffer, start + 1, end) = body
  <2>1. start + n <= size
    BY <1>4, <1>10
  <2>2. SubSeq(buffer, start + 1, start + Len(body)) = body
    BY <1>2, <1>9, <1>12, <2>1, PartIsRead DEF n, size
  <2> QED BY <1>4, <2>2 DEF n
<1>15. Masked(SubSeq(buffer, start + 1, end), SubSeq(buffer, offset + 1, start)) = f.payload
  BY <1>2, <1>13, <1>14
<1> QED BY <1>3, <1>9, <1>10, <1>15 DEF E, offset, start, end

\* What the changes to the fragment make of such a decoder.
Begun(d, payload) == [d EXCEPT !.fragment = payload, !.isText = TRUE]
Continued(d, payload) == [d EXCEPT !.fragment = payload]
\* They make another such decoder.
LEMMA HoldingChanges ==
  ASSUME NEW buffer, NEW part, NEW payload
  PROVE  /\ NoFragment(Holding(buffer, part)) = Holding(buffer, <<>>)
         /\ Begun(Holding(buffer, part), payload) = Holding(buffer, <<payload>>)
         /\ part # <<>> => Continued(Holding(buffer, part), payload) = Holding(buffer, <<payload>>)
<1> DEFINE d == Holding(buffer, part)
           no == FALSE
           yes == TRUE
           some(x, y) == [buffer |-> buffer, fragment |-> x, isText |-> y, closed |-> no, failed |-> no]
           x == IF part = <<>> THEN <<>> ELSE part[1]
           y == (part # <<>>)
           with(z) == [d EXCEPT !.fragment = z]
<1>1. d = some(x, y)
  BY DEF Holding
<1>2. Holding(buffer, <<>>) = some(<<>>, no) /\ Holding(buffer, <<payload>>) = some(payload, yes)
  <2>1. <<payload>> # <<>> /\ <<payload>>[1] = payload
    OBVIOUS
  <2>2. Holding(buffer, <<payload>>) = some(payload, yes)
    BY <2>1 DEF Holding
  <2> QED BY <2>2 DEF Holding
<1>3. NoFragment(d) = [with(<<>>) EXCEPT !.isText = no]
  BY DEF NoFragment
<1>4. Begun(d, payload) = [with(payload) EXCEPT !.isText = yes]
  BY DEF Begun
<1>5. Continued(d, payload) = with(payload)
  BY DEF Continued
<1>6. part # <<>> => y = yes
  OBVIOUS
<1> HIDE DEF x, d, y, no, yes
<1>7. \A z : with(z) = some(z, y)
  BY <1>1
<1> HIDE DEF with
<1>8. \A z, w : [some(z, y) EXCEPT !.isText = w] = some(z, w)
  OBVIOUS
<1> HIDE DEF some
<1>9. NoFragment(d) = some(<<>>, no) /\ Begun(d, payload) = some(payload, yes)
  BY <1>3, <1>4, <1>7, <1>8
<1>10. part # <<>> => Continued(d, payload) = some(payload, yes)
  BY <1>5, <1>6, <1>7
<1> QED BY <1>2, <1>9, <1>10 DEF d

\* The decoder does with a frame what it means.
LEMMA TakenIsUnderstood ==
  ASSUME NEW f, IsSent(f), NEW m, IsMeaning(m), m.over = "no", NEW buffer,
         NEW h, h.fin = f.fin, h.opcode = f.opcode
  PROVE  LET t == Taken(Holding(buffer, m.part), m.events, h, f.payload)
             u == Understood(m, f)
         IN  /\ IsMeaning(u) /\ u.at = m.at /\ u.over \in {"no", "failed", "closed"}
             /\ u.over = "no" => t = [d |-> Holding(buffer, u.part), events |-> u.events]
             /\ u.over # "no" => HasEnded(t, u)
<1> DEFINE d == Holding(buffer, m.part)
           t == Taken(d, m.events, h, f.payload)
           u == Understood(m, f)
           payload == f.payload
           Goal == /\ IsMeaning(u) /\ u.at = m.at /\ u.over \in {"no", "failed", "closed"}
                   /\ u.over = "no" => t = [d |-> Holding(buffer, u.part), events |-> u.events]
                   /\ u.over # "no" => HasEnded(t, u)
<1>1. payload \in Seq(Byte) /\ f.fin \in BOOLEAN /\ f.opcode \in 0..15
  BY DEF IsSent
<1>2. /\ m.at \in Nat /\ m.part \in Seq(Seq(Byte)) /\ m.events \in Seq(ToldEvent) /\ Len(m.part) <= 1
      /\ m = [at |-> m.at, over |-> "no", part |-> m.part, events |-> m.events]
  BY DEF IsMeaning, Meaning
<1>3. CASE f.opcode = 1 /\ f.fin
  <2> DEFINE events == Append(m.events, Event("text", payload))
  <2>1. t = [d |-> NoFragment(d), events |-> events]
    BY <1>3 DEF Taken
  <2>2. u = [m EXCEPT !.events = events, !.part = <<>>]
    BY <1>3 DEF Understood
  <2>3. events \in Seq(ToldEvent)
    BY <1>1, <1>2 DEF Event, ToldEvent
  <2> HIDE DEF events, t, u
  <2>4. u = [at |-> m.at, over |-> "no", part |-> <<>>, events |-> events]
    BY <1>2, <2>2
  <2>5. NoFragment(d) = Holding(buffer, <<>>)
    BY HoldingChanges
  <2>6. IsMeaning(u)
    BY <1>2, <2>3, <2>4 DEF IsMeaning, Meaning
  <2> QED BY <2>1, <2>4, <2>5, <2>6 DEF t, u
<1>4. CASE f.opcode = 1 /\ ~f.fin
  <2>1. t = [d |-> Begun(d, payload), events |-> m.events]
    BY <1>4 DEF Taken, Begun
  <2>2. u = [m EXCEPT !.part = <<payload>>]
    BY <1>4 DEF Understood
  <2> HIDE DEF t, u
  <2>3. u = [at |-> m.at, over |-> "no", part |-> <<payload>>, events |-> m.events]
    BY <1>2, <2>2
  <2>4. Begun(d, payload) = Holding(buffer, <<payload>>)
    BY HoldingChanges, Zenon
  <2>5. IsMeaning(u)
    BY <1>1, <1>2, <2>3 DEF IsMeaning, Meaning
  <2> QED BY <2>1, <2>3, <2>4, <2>5 DEF t, u
<1>5. CASE f.opcode = 0 /\ m.part # <<>>
  <2> DEFINE old == m.part[1]
             whole == old \o payload
             size == Len(whole)
             events == Append(m.events, Event("text", whole))
  <2>1. old \in Seq(Byte)
    <3> DEFINE part == m.part
    <3>1. part \in Seq(Seq(Byte)) /\ Len(part) <= 1 /\ part # <<>>
      BY <1>2, <1>5
    <3> HIDE DEF part
    <3>2. Len(part) = 1
      <4> DEFINE n == Len(part)
      <4>1. n \in Nat /\ n # 0 /\ n <= 1
        BY <3>1, EmptySeq, LenProperties
      <4> HIDE DEF n
      <4>2. n = 1
        BY <4>1
      <4> QED BY <4>2 DEF n
    <3>3. part[1] \in Seq(Byte)
      BY <3>1, <3>2, ElementOfSeq
    <3> QED BY <3>3 DEF part
  <2>2. whole \in Seq(Byte) /\ size = Len(old) + Len(payload)
    BY <1>1, <2>1, ConcatProperties
  <2>3. d.isText = TRUE /\ d.fragment = old
    BY <1>5 DEF Holding
  <2>4. /\ size > MaxPayload => t = [d |-> Failed(d), events |-> m.events]
        /\ ~ (size > MaxPayload) /\ f.fin => t = [d |-> NoFragment(d), events |-> events]
        /\ ~ (size > MaxPayload) /\ ~ f.fin => t = [d |-> Continued(d, whole), events |-> m.events]
    <3>1. h.opcode = 0 /\ h.fin = f.fin
      BY <1>5
    <3>2. (Len(d.fragment) + Len(payload) > MaxPayload) <=> size > MaxPayload
      <4> HIDE DEF d, payload, old, whole, size
      <4> QED BY <2>2, <2>3
    <3>3. d.fragment \o payload = whole
      <4> HIDE DEF d, payload, old
      <4> QED BY <2>3
    <3> HIDE DEF d, payload, old, whole, size
    <3>4. t = IF Len(d.fragment) + Len(payload) > MaxPayload THEN [d |-> Failed(d), events |-> m.events]
              ELSE IF h.fin THEN [d |-> NoFragment(d), events |-> Append(m.events, Event("text", d.fragment \o payload))]
              ELSE [d |-> Continued(d, d.fragment \o payload), events |-> m.events]
      BY <2>3, <3>1 DEF Taken, payload, Continued
    <3> HIDE DEF t
    <3> QED BY <3>1, <3>2, <3>3, <3>4
  <2>5. u = IF size > MaxPayload THEN [m EXCEPT !.over = "failed"]
            ELSE IF f.fin THEN [m EXCEPT !.events = events, !.part = <<>>]
            ELSE [m EXCEPT !.part = <<whole>>]
    BY <1>5 DEF Understood
  <2>6. events \in Seq(ToldEvent)
    <3> HIDE DEF whole
    <3> QED BY <1>2, <2>2 DEF Event, ToldEvent
  <2> HIDE DEF t, u, whole, size, events, old
  <2>7. CASE size > MaxPayload
    <3>1. t = [d |-> Failed(d), events |-> m.events]
      BY <2>4, <2>7
    <3>2. u = [at |-> m.at, over |-> "failed", part |-> m.part, events |-> m.events]
      BY <1>2, <2>5, <2>7
    <3>3. IsMeaning(u)
      BY <1>2, <3>2 DEF IsMeaning, Meaning
    <3>4. Failed(d).failed = TRUE /\ Failed(d).closed = FALSE
      BY DEF Failed, FreshDecoder
    <3> HIDE DEF d
    <3>5. HasEnded(t, u)
      BY <3>1, <3>2, <3>4 DEF HasEnded
    <3> QED BY <3>2, <3>3, <3>5 DEF t, u, d
  <2>8. CASE ~ (size > MaxPayload) /\ f.fin
    <3>1. t = [d |-> NoFragment(d), events |-> events]
      BY <2>4, <2>8
    <3>2. u = [at |-> m.at, over |-> "no", part |-> <<>>, events |-> events]
      BY <1>2, <2>5, <2>8
    <3>3. NoFragment(d) = Holding(buffer, <<>>)
      BY HoldingChanges
    <3>4. IsMeaning(u)
      BY <1>2, <2>6, <3>2 DEF IsMeaning, Meaning
    <3> QED BY <3>1, <3>2, <3>3, <3>4 DEF t, u
  <2>9. CASE ~ (size > MaxPayload) /\ ~ f.fin
    <3>1. t = [d |-> Continued(d, whole), events |-> m.events]
      BY <2>4, <2>9
    <3>2. u = [at |-> m.at, over |-> "no", part |-> <<whole>>, events |-> m.events]
      BY <1>2, <2>5, <2>9
    <3>3. Continued(d, whole) = Holding(buffer, <<whole>>)
      BY <1>5, HoldingChanges, Zenon
    <3>4. IsMeaning(u)
      BY <1>2, <2>2, <3>2 DEF IsMeaning, Meaning
    <3> QED BY <3>1, <3>2, <3>3, <3>4 DEF t, u
  <2> QED BY <1>1, <2>7, <2>8, <2>9
<1>6. CASE f.opcode = 8
  <2> DEFINE events == Append(m.events, Event("close", payload))
  <2>1. t = [d |-> [d EXCEPT !.buffer = <<>>, !.closed = TRUE], events |-> events]
    BY <1>6 DEF Taken
  <2>2. u = [m EXCEPT !.events = events, !.over = "closed"]
    BY <1>6 DEF Understood
  <2>3. events \in Seq(ToldEvent)
    BY <1>1, <1>2 DEF Event, ToldEvent
  <2> HIDE DEF events, t, u
  <2>4. u = [at |-> m.at, over |-> "closed", part |-> m.part, events |-> events]
    BY <1>2, <2>2
  <2>5. IsMeaning(u)
    BY <1>2, <2>3, <2>4 DEF IsMeaning, Meaning
  <2>6. HasEnded(t, u)
    BY <2>1, <2>4 DEF HasEnded, Holding
  <2> QED BY <2>4, <2>5, <2>6 DEF t, u
<1>7. CASE f.opcode = 9
  <2> DEFINE events == Append(m.events, Event("ping", payload))
  <2>1. t = [d |-> d, events |-> events]
    BY <1>7 DEF Taken
  <2>2. u = [m EXCEPT !.events = events]
    BY <1>7 DEF Understood
  <2>3. events \in Seq(ToldEvent)
    BY <1>1, <1>2 DEF Event, ToldEvent
  <2> HIDE DEF events, t, u
  <2>4. u = [at |-> m.at, over |-> "no", part |-> m.part, events |-> events]
    BY <1>2, <2>2
  <2>5. IsMeaning(u)
    BY <1>2, <2>3, <2>4 DEF IsMeaning, Meaning
  <2> QED BY <2>1, <2>4, <2>5 DEF t, u
<1>8. CASE ~ (f.opcode = 1) /\ ~ (f.opcode = 0 /\ m.part # <<>>) /\ ~ (f.opcode = 8) /\ ~ (f.opcode = 9)
  <2>1. d.isText <=> m.part # <<>>
    BY DEF Holding
  <2>2. t = [d |-> d, events |-> m.events]
    <3> HIDE DEF d
    <3> QED BY <1>8, <2>1 DEF Taken
  <2>3. u = m
    BY <1>8 DEF Understood
  <2> HIDE DEF t, u
  <2> QED BY <1>2, <2>2, <2>3 DEF t, u
<1> QED BY <1>1, <1>3, <1>4, <1>5, <1>6, <1>7, <1>8

\* Such a decoder with other bytes in its buffer.
LEMMA HoldingLess ==
  ASSUME NEW buffer, NEW part, NEW rest
  PROVE  [Holding(buffer, part) EXCEPT !.buffer = rest] = Holding(rest, part)
<1> DEFINE no == FALSE
           x == IF part = <<>> THEN <<>> ELSE part[1]
           y == (part # <<>>)
           some(b) == [buffer |-> b, fragment |-> x, isText |-> y, closed |-> no, failed |-> no]
<1>1. \A b : Holding(b, part) = some(b)
  BY DEF Holding
<1> HIDE DEF no, x, y
<1>2. [some(buffer) EXCEPT !.buffer = rest] = some(rest)
  OBVIOUS
<1> HIDE DEF some
<1> QED BY <1>1, <1>2

\* What one round does with the first frame of the buffer.
FirstRound(f, m, buffer, here) ==
  LET s == [d |-> Holding(buffer, m.part), events |-> m.events]
      next == Meant(here, m, f)
      rest == SubSeq(buffer, Len(Encoded(f)) + 1, Len(buffer))
  IN  /\ IsMeaning(next)
      /\ next.over = "waits" => /\ DecodeFirst(s) = s /\ next = [m EXCEPT !.over = "waits"]
                                /\ Len(buffer) < MaxPayload + 14
      /\ next.over = "no" => /\ next.at = m.at + Len(Encoded(f)) /\ Len(Encoded(f)) <= Len(buffer)
                             /\ DecodeFirst(s) = [d |-> Holding(rest, next.part), events |-> next.events]
      /\ next.over \in {"failed", "closed"} => HasEnded(DecodeFirst(s), next)
\* One round does with the first frame of the buffer what it means.
LEMMA FirstIsRead ==
  ASSUME NEW f, IsSent(f), NEW m, IsMeaning(m), m.over = "no", NEW buffer \in Seq(Byte), Begins(buffer, f),
         NEW here, here = m.at + Len(buffer)
  PROVE  FirstRound(f, m, buffer, here)
<1> DEFINE d == Holding(buffer, m.part)
           s == [d |-> d, events |-> m.events]
           next == Meant(here, m, f)
           E == Encoded(f)
           rest == SubSeq(buffer, Len(E) + 1, Len(buffer))
           h == FrameHeader(buffer)
           x == Len(f.ext)
           k == Len(f.mask)
           n == Len(f.payload)
           size == Len(buffer)
           start == h.offset + (IF h.masked THEN 4 ELSE 0)
           end == start + h.length
           payload == Masked(SubSeq(buffer, start + 1, end), SubSeq(buffer, h.offset + 1, start))
           Limit == MaxPayload
           Goal == /\ IsMeaning(next)
                   /\ next.over = "waits" => /\ DecodeFirst(s) = s /\ next = [m EXCEPT !.over = "waits"]
                                             /\ size < Limit + 14
                   /\ next.over = "no" => /\ next.at = m.at + Len(E) /\ Len(E) <= size
                                          /\ DecodeFirst(s) = [d |-> Holding(rest, next.part), events |-> next.events]
                   /\ next.over \in {"failed", "closed"} => HasEnded(DecodeFirst(s), next)
<1> SUFFICES Goal
  BY DEF FirstRound
<1>1. /\ x \in {0, 2, 8} /\ k \in {0, 4} /\ n \in Nat /\ size \in Nat /\ m.at \in Nat
      /\ Len(E) \in Nat /\ Len(E) = 2 + x + k + n
      /\ k = (IF f.mask # <<>> THEN 4 ELSE 0)
  <2>1. /\ f.ext \in Seq(Byte) /\ f.mask \in Seq(Byte) /\ f.payload \in Seq(Byte)
        /\ x \in {0, 2, 8} /\ k \in {0, 4}
    BY DEF IsSent
  <2>2. n \in Nat /\ size \in Nat
    BY <2>1, LenProperties
  <2>3. k = (IF f.mask # <<>> THEN 4 ELSE 0)
    BY <2>1, EmptySeq
  <2>4. m.at \in Nat
    BY DEF IsMeaning, Meaning
  <2>5. Len(E) = 2 + x + k + n
    BY EncodedParts
  <2> HIDE DEF E, x, k, n, size
  <2>6. Len(E) \in Nat
    BY <2>1, <2>2, <2>5
  <2> QED BY <2>1, <2>2, <2>3, <2>4, <2>5, <2>6
<1>2. Limit \in Nat
  BY FrameDecoderAssumption
<1>3. /\ size < 2 + x => ~h.complete
      /\ size >= 2 + x =>
           /\ h.complete /\ h.fin = f.fin /\ h.opcode = f.opcode
           /\ h.masked <=> f.mask # <<>>
           /\ h.offset = 2 + x /\ h.length \in Nat
           /\ h.length > Limit <=> TooLong(f)
           /\ ~TooLong(f) => h.length = n
  BY HeaderIsRead DEF Begins
<1>4. /\ d.failed = FALSE /\ d.closed = FALSE /\ d.buffer = buffer
      /\ s.d = d /\ s.events = m.events
  BY DEF Holding
<1> HIDE DEF d
<1>5. DecodeFirst(s) =
        IF ~h.complete THEN s
        ELSE IF h.length > Limit THEN [d |-> Failed(d), events |-> m.events]
        ELSE IF size < end THEN s
        ELSE Taken([d EXCEPT !.buffer = SubSeq(buffer, end + 1, size)], m.events, h, payload)
  <2> HIDE DEF h, s
  <2> QED BY <1>4 DEF DecodeFirst, h
<1>6. next = IF size < 2 + x THEN [m EXCEPT !.over = "waits"]
             ELSE IF TooLong(f) THEN [m EXCEPT !.over = "failed"]
             ELSE IF size < Len(E) THEN [m EXCEPT !.over = "waits"]
             ELSE Understood([m EXCEPT !.at = m.at + Len(E)], f)
  <2> DEFINE a == m.at
             last == a + Len(E)
  <2>1. next = IF here < a + 2 + x THEN [m EXCEPT !.over = "waits"]
               ELSE IF TooLong(f) THEN [m EXCEPT !.over = "failed"]
               ELSE IF here < last THEN [m EXCEPT !.over = "waits"]
               ELSE Understood([m EXCEPT !.at = last], f)
    BY DEF Meant
  <2>2. (here < a + 2 + x <=> size < 2 + x) /\ (here < last <=> size < Len(E))
    <3> DEFINE e == Len(E)
    <3>0. here = a + size /\ last = a + e
      OBVIOUS
    <3>1. a \in Nat /\ size \in Nat /\ x \in Nat /\ e \in Nat
      <4>1. a \in Nat /\ size \in Nat /\ e \in Nat
        BY <1>1
      <4>2. x \in {0, 2, 8}
        BY <1>1
      <4> HIDE DEF size, x, e, a
      <4> QED BY <4>1, <4>2
    <3> HIDE DEF a, x, e, size, last
    <3>2. (here < a + 2 + x <=> size < 2 + x) /\ (here < last <=> size < e)
      BY <3>0, <3>1
    <3> QED BY <3>2 DEF e
  <2> HIDE DEF next, x, E, size
  <2> QED BY <2>1, <2>2
<1>7. /\ m.part \in Seq(Seq(Byte)) /\ m.events \in Seq(ToldEvent) /\ Len(m.part) <= 1
      /\ m = [at |-> m.at, over |-> "no", part |-> m.part, events |-> m.events]
  BY DEF IsMeaning, Meaning
<1> HIDE DEF x, k, n, size, E, h, Limit
<1>8. ASSUME next = [m EXCEPT !.over = "waits"], DecodeFirst(s) = s, size < Limit + 14
      PROVE  Goal
  <2> HIDE DEF next, s
  <2>1. next = [at |-> m.at, over |-> "waits", part |-> m.part, events |-> m.events]
    BY <1>7, <1>8
  <2>2. IsMeaning(next)
    BY <1>1, <1>7, <2>1 DEF IsMeaning, Meaning
  <2> QED BY <1>8, <2>1, <2>2
<1>9. CASE size < 2 + x
  <2>1. next = [m EXCEPT !.over = "waits"] /\ DecodeFirst(s) = s
    <3> HIDE DEF next, s
    <3> QED BY <1>3, <1>5, <1>6, <1>9
  <2>2. size < Limit + 14
    BY <1>1, <1>2, <1>9
  <2> HIDE DEF next, s, rest
  <2>3. Goal
    BY <1>8, <2>1, <2>2
  <2> QED BY <2>3 DEF E, size, Limit, next, s, rest, d
<1>10. CASE size >= 2 + x /\ TooLong(f)
  <2> HIDE DEF next, s
  <2>1. next = [m EXCEPT !.over = "failed"]
    BY <1>1, <1>6, <1>10
  <2>2. next = [at |-> m.at, over |-> "failed", part |-> m.part, events |-> m.events]
    BY <1>7, <2>1
  <2>3. IsMeaning(next)
    BY <1>1, <1>7, <2>2 DEF IsMeaning, Meaning
  <2>4. DecodeFirst(s) = [d |-> Failed(d), events |-> m.events]
    BY <1>3, <1>5, <1>10
  <2>5. Failed(d).failed = TRUE /\ Failed(d).closed = FALSE
    BY DEF Failed, FreshDecoder
  <2>6. HasEnded(DecodeFirst(s), next)
    BY <2>2, <2>4, <2>5 DEF HasEnded
  <2> QED BY <2>2, <2>3, <2>6 DEF next, s, d
<1>11. CASE size >= 2 + x /\ ~TooLong(f)
  <2>1. h.length = n /\ h.offset = 2 + x /\ h.complete /\ ~ (n > Limit)
    BY <1>3, <1>11
  <2>2. start = 2 + x + k /\ end = 2 + x + k + n /\ end = Len(E)
    <3>1. (IF h.masked THEN 4 ELSE 0) = k
      BY <1>1, <1>3, <1>11
    <3> QED BY <1>1, <2>1, <3>1
  <2> HIDE DEF start, end
  <2>3. CASE size < Len(E)
    <3>1. next = [m EXCEPT !.over = "waits"] /\ DecodeFirst(s) = s
      <4>1. ~ (size < 2 + x)
        BY <1>1, <1>11
      <4> HIDE DEF next, s
      <4> QED BY <1>5, <1>6, <1>11, <2>1, <2>2, <2>3, <4>1
    <3>2. size < Limit + 14
      BY <1>1, <1>2, <2>1, <2>3
    <3> HIDE DEF next, s, rest
    <3>3. Goal
      BY <1>8, <3>1, <3>2
    <3> QED BY <3>3 DEF E, size, Limit, next, s, rest, d
  <2>4. CASE ~ (size < Len(E))
    <3> DEFINE on == [m EXCEPT !.at = m.at + Len(E)]
               held == Holding(rest, m.part)
               t == Taken(held, m.events, h, f.payload)
               u == Understood(on, f)
    <3>1. next = u
      <4>1. ~ (size < 2 + x)
        BY <1>1, <1>11
      <4> HIDE DEF next, u, on
      <4> QED BY <1>6, <1>11, <2>4, <4>1 DEF u, on
    <3>2. payload = f.payload
      <4>1. Len(Encoded(f)) <= Len(buffer)
        BY <1>1, <2>4 DEF E, size
      <4>2. Masked(SubSeq(buffer, 2 + Len(f.ext) + Len(f.mask) + 1, 2 + Len(f.ext) + Len(f.mask) + Len(f.payload)),
                   SubSeq(buffer, 2 + Len(f.ext) + 1, 2 + Len(f.ext) + Len(f.mask))) = f.payload
        BY <4>1, PayloadIsRead
      <4> QED BY <2>1, <2>2, <4>2 DEF x, k, n
    <3>3. [d EXCEPT !.buffer = SubSeq(buffer, end + 1, size)] = held
      <4>1. rest = SubSeq(buffer, end + 1, size)
        BY <2>2 DEF size
      <4> HIDE DEF rest
      <4>2. [d EXCEPT !.buffer = rest] = held
        BY HoldingLess DEF d
      <4> QED BY <4>1, <4>2
    <3>4. DecodeFirst(s) = t
      <4> HIDE DEF payload, s, held
      <4> QED BY <1>5, <2>1, <2>2, <2>4, <3>2, <3>3
    <3>5. on = [at |-> m.at + Len(E), over |-> "no", part |-> m.part, events |-> m.events]
      BY <1>7
    <3>6. IsMeaning(on) /\ on.over = "no" /\ on.part = m.part /\ on.events = m.events /\ on.at = m.at + Len(E)
      <4>1. m.at + Len(E) \in Nat
        BY <1>1
      <4> HIDE DEF on
      <4> QED BY <1>7, <3>5, <4>1 DEF IsMeaning, Meaning
    <3>7. h.fin = f.fin /\ h.opcode = f.opcode
      BY <1>3, <1>11
    <3> HIDE DEF on, rest, next, s
    <3>8. /\ IsMeaning(u) /\ u.at = on.at /\ u.over \in {"no", "failed", "closed"}
          /\ u.over = "no" => t = [d |-> Holding(rest, u.part), events |-> u.events]
          /\ u.over # "no" => HasEnded(t, u)
      <4>1. /\ IsMeaning(u) /\ u.at = on.at /\ u.over \in {"no", "failed", "closed"}
            /\ u.over = "no" => Taken(Holding(rest, on.part), on.events, h, f.payload) = [d |-> Holding(rest, u.part), events |-> u.events]
            /\ u.over # "no" => HasEnded(Taken(Holding(rest, on.part), on.events, h, f.payload), u)
        BY <3>6, <3>7, TakenIsUnderstood
      <4> QED BY <3>6, <4>1
    <3>9. Len(E) <= size
      BY <1>1, <2>4
    <3> HIDE DEF t, u
    <3>10. Goal
      BY <3>1, <3>4, <3>6, <3>8, <3>9
    <3> QED BY <3>10 DEF E, size, Limit, rest, next, s, d
  <2> QED BY <2>3, <2>4
<1>12. size < 2 + x \/ size >= 2 + x
  BY <1>1
<1> QED BY <1>9, <1>10, <1>11, <1>12

\* A peer sends a sequence of frames.
LEMMA StreamsAreFrames ==
  ASSUME stream \in Streams
  PROVE  Len(stream) \in Nat /\ DOMAIN stream = 1..Len(stream) /\ \A i \in 1..Len(stream) : IsSent(stream[i])
<1>1. stream \in Seq(Range(stream)) /\ \A i \in DOMAIN stream : IsSent(stream[i])
  BY StreamsAssumption
<1>2. Len(stream) \in Nat /\ DOMAIN stream = 1..Len(stream)
  BY <1>1, LenProperties
<1> QED BY <1>1, <1>2

\* Where its frames begin among its bytes: the i-th ends at at[i].
Places(at) ==
  /\ at[0] = 0 /\ at[Len(stream)] = Len(Bytes)
  /\ \A i \in 0..Len(stream) : at[i] \in Nat /\ at[i] <= Len(Bytes)
  /\ \A i \in 1..Len(stream) :
       /\ at[i] = at[i - 1] + Len(Encoded(stream[i]))
       /\ \A j \in 1..Len(Encoded(stream[i])) : Bytes[at[i - 1] + j] = Encoded(stream[i])[j]
\* The frames of a stream have such places.
LEMMA FramesHavePlaces ==
  ASSUME stream \in Streams
  PROVE  Bytes \in Seq(Byte) /\ \E at : Places(at)
<1> DEFINE n == Len(stream)
           seqs == [i \in DOMAIN stream |-> Encoded(stream[i])]
<1>1. n \in Nat /\ DOMAIN stream = 1..n /\ \A i \in 1..n : Encoded(stream[i]) \in Seq(Byte)
  BY StreamsAreFrames, EncodedParts
<1>2. /\ DOMAIN seqs = 1..n /\ seqs = [i \in 1..n |-> seqs[i]] /\ \A i \in 1..n : seqs[i] \in Seq(Byte)
      /\ \A i \in 1..n : seqs[i] = Encoded(stream[i])
  BY <1>1
<1>3. Bytes = FlattenSeq(seqs)
  BY DEF Bytes
<1> HIDE DEF seqs, n
<1>4. PICK run : /\ run[0] = <<>> /\ \A i \in 1..n : run[i] = run[i - 1] \o seqs[i]
                 /\ \A i \in 0..n : run[i] \in Seq(Byte)
                 /\ FlattenSeq(seqs) = run[n]
  BY <1>1, <1>2, FlattenGrows, Zenon
<1>5. Bytes = run[n] /\ Bytes \in Seq(Byte)
  <2>1. n \in 0..n
    BY <1>1
  <2> QED BY <1>3, <1>4, <2>1
<1> DEFINE at == [i \in 0..n |-> Len(run[i])]
<1>6. ASSUME NEW i \in 1..n
      PROVE  /\ i - 1 \in 0..n /\ i \in 0..n /\ at[i - 1] = Len(run[i - 1]) /\ at[i] = Len(run[i])
             /\ at[i - 1] \in Nat /\ Len(seqs[i]) \in Nat
             /\ at[i] = at[i - 1] + Len(seqs[i])
             /\ \A j \in 1..at[i - 1] : run[i][j] = run[i - 1][j]
             /\ \A j \in 1..Len(seqs[i]) : run[i][at[i - 1] + j] = seqs[i][j]
  <2>1. i - 1 \in 0..n /\ i \in 0..n
    BY <1>1
  <2>2. at[i - 1] = Len(run[i - 1]) /\ at[i] = Len(run[i])
    BY <2>1
  <2> HIDE DEF at
  <2>3. run[i - 1] \in Seq(Byte) /\ seqs[i] \in Seq(Byte) /\ run[i] = run[i - 1] \o seqs[i]
    BY <1>2, <1>4, <2>1
  <2> DEFINE s == run[i - 1]
             t == seqs[i]
  <2>4. s \in Seq(Byte) /\ t \in Seq(Byte)
    BY <2>3
  <2> HIDE DEF s, t
  <2>5. /\ s \o t \in Seq(Byte) /\ Len(s) \in Nat /\ Len(t) \in Nat
        /\ Len(s \o t) = Len(s) + Len(t)
        /\ \A j \in 1..Len(s) : (s \o t)[j] = s[j]
        /\ \A j \in 1..Len(t) : (s \o t)[Len(s) + j] = t[j]
    BY <2>4, BytesTogether
  <2>6. run[i] = s \o t /\ at[i - 1] = Len(s) /\ at[i] = Len(s \o t)
    BY <2>2, <2>3 DEF s, t
  <2>7. /\ at[i - 1] \in Nat /\ Len(t) \in Nat
        /\ at[i] = at[i - 1] + Len(t)
        /\ \A j \in 1..at[i - 1] : run[i][j] = s[j]
        /\ \A j \in 1..Len(t) : run[i][at[i - 1] + j] = t[j]
    BY <2>5, <2>6
  <2> QED BY <2>1, <2>2, <2>7 DEF s, t
<1>7. at[0] = 0 /\ at[n] = Len(Bytes) /\ \A i \in 0..n : at[i] \in Nat
  <2>1. 0 \in 0..n /\ n \in 0..n
    BY <1>1
  <2>2. \A i \in 0..n : at[i] = Len(run[i]) /\ Len(run[i]) \in Nat
    BY <1>4, LenProperties
  <2>3. Len(run[0]) = 0
    BY <1>4
  <2> HIDE DEF at
  <2> QED BY <1>5, <2>1, <2>2, <2>3
<1> HIDE DEF at
\* What run[i] holds, the longer ones hold.
<1> DEFINE Holds(i, r) == at[i] <= at[r] /\ \A j \in 1..at[i] : run[r][j] = run[i][j]
           Good == {r \in Nat : r <= n => \A i \in 0..n : i <= r => Holds(i, r)}
<1>8. 0 \in Good
  <2> SUFFICES ASSUME NEW i \in 0..n, i <= 0 PROVE Holds(i, 0)
    OBVIOUS
  <2>1. i = 0
    OBVIOUS
  <2> QED BY <1>7, <2>1
<1>9. ASSUME NEW r \in Nat, r \in Good PROVE r + 1 \in Good
  <2> SUFFICES ASSUME r + 1 <= n, NEW i \in 0..n, i <= r + 1 PROVE Holds(i, r + 1)
    OBVIOUS
  <2>1. r + 1 \in 1..n /\ (r + 1) - 1 = r /\ r \in 0..n /\ r + 1 \in 0..n
    BY <1>1
  <2>2. /\ at[r] \in Nat /\ at[r] <= at[r + 1]
        /\ \A j \in 1..at[r] : run[r + 1][j] = run[r][j]
    <3>1. /\ at[r] \in Nat /\ Len(seqs[r + 1]) \in Nat /\ at[r + 1] = at[r] + Len(seqs[r + 1])
          /\ \A j \in 1..at[r] : run[r + 1][j] = run[r][j]
      BY <1>6, <2>1
    <3> QED BY <3>1
  <2>3. CASE i = r + 1
    BY <1>7, <2>1, <2>3
  <2>4. CASE i <= r
    <3>1. Holds(i, r)
      BY <1>1, <1>9, <2>1, <2>4
    <3>2. at[i] \in Nat /\ at[r + 1] \in Nat
      BY <1>7, <2>1
    <3> QED BY <2>2, <3>1, <3>2
  <2> QED BY <1>1, <2>3, <2>4
<1>10. \A r \in Nat : r \in Good
  <2> HIDE DEF Good
  <2> QED BY <1>8, <1>9, NatInductionOnSets
<1>11. \A i \in 0..n : Holds(i, n)
  BY <1>1, <1>10
<1>12. \A i \in 0..n : at[i] \in Nat /\ at[i] <= Len(Bytes)
  BY <1>7, <1>11
<1>13. ASSUME NEW i \in 1..n, NEW j \in 1..Len(seqs[i]) PROVE Bytes[at[i - 1] + j] = seqs[i][j]
  <2>1. at[i - 1] + j \in 1..at[i] /\ i \in 0..n
    <3> DEFINE a == at[i - 1]
               e == Len(seqs[i])
    <3>1. a \in Nat /\ e \in Nat /\ at[i] = a + e /\ j \in 1..e /\ i \in 0..n
      BY <1>6
    <3> HIDE DEF a, e
    <3>2. a + j \in 1..at[i]
      BY <3>1
    <3> QED BY <3>1, <3>2 DEF a
  <2>2. run[i][at[i - 1] + j] = seqs[i][j]
    BY <1>6
  <2> QED BY <1>5, <1>11, <2>1, <2>2
<1>14. Places(at)
  <2>1. \A i \in 1..n : at[i] = at[i - 1] + Len(Encoded(stream[i]))
    BY <1>2, <1>6
  <2>2. \A i \in 1..n : \A j \in 1..Len(Encoded(stream[i])) : Bytes[at[i - 1] + j] = Encoded(stream[i])[j]
    BY <1>2, <1>13
  <2> QED BY <1>7, <1>12, <2>1, <2>2 DEF Places, n
<1> QED BY <1>5, <1>14

\* The decoder and its events when the meaning is m and `here` bytes are here.
Reads(m, here) == [d |-> Holding(SubSeq(Bytes, m.at + 1, here), m.part), events |-> m.events]

\* A decoder that has read k frames, and one that has read all it can.
HasRead(s, here, k) == Meanings(here)[k].over = "no" /\ s = Reads(Meanings(here)[k], here)
IsUnderway(s, here) == \E k \in 0..Len(stream) : HasRead(s, here, k)
Waits(s, here, k) == HasRead(s, here, k) /\ (k = Len(stream) \/ Meanings(here)[k + 1].over = "waits")
IsSettled(s, here) ==
  \E k \in 0..Len(stream) : Waits(s, here, k) \/ HasEnded(s, Meanings(here)[k])

\* What k frames mean, when the meaning is kept: its place is theirs.
IsInPlace(at, here, k) ==
  /\ IsMeaning(Meanings(here)[k])
  /\ Meanings(here)[k].over = "no" => Meanings(here)[k].at = at[k] /\ at[k] <= here

\* What becomes of the frame after the first k.
NextIsRead(at, here, k) ==
  LET m    == Meanings(here)[k]
      next == Meanings(here)[k + 1]
      s    == Reads(m, here)
  IN  /\ IsInPlace(at, here, k + 1)
      /\ Len(s.d.buffer) \in Nat
      /\ next.over = "waits" => /\ DecodeFirst(s) = s /\ next = [m EXCEPT !.over = "waits"]
                                /\ Len(s.d.buffer) < MaxPayload + 14
      /\ next.over = "no" => /\ DecodeFirst(s) = Reads(next, here)
                             /\ Len(Reads(next, here).d.buffer) \in Nat
                             /\ Len(Reads(next, here).d.buffer) < Len(s.d.buffer)
      /\ next.over \in {"failed", "closed"} => HasEnded(DecodeFirst(s), next)
      /\ Len(s.d.buffer) < 2 => next.over = "waits"
\* One round reads the frame that comes next.
LEMMA FrameIsRead ==
  ASSUME stream \in Streams, NEW at, Places(at), NEW here \in 0..Len(Bytes), NEW k \in 0..(Len(stream) - 1),
         IsInPlace(at, here, k), Meanings(here)[k].over = "no"
  PROVE  NextIsRead(at, here, k)
<1> DEFINE m == Meanings(here)[k]
           next == Meanings(here)[k + 1]
           f == stream[k + 1]
           E == Encoded(f)
           buffer == SubSeq(Bytes, m.at + 1, here)
           s == [d |-> Holding(buffer, m.part), events |-> m.events]
           rest == SubSeq(buffer, Len(E) + 1, Len(buffer))
           n == Len(stream)
           total == Len(Bytes)
<1>1. n \in Nat /\ k + 1 \in 1..n /\ (k + 1) - 1 = k /\ k \in 0..n /\ k + 1 \in 0..n /\ IsSent(f)
  <2>1. n \in Nat /\ \A i \in 1..n : IsSent(stream[i])
    BY StreamsAreFrames
  <2> HIDE DEF n
  <2>2. k \in 0..(n - 1)
    BY DEF n
  <2>3. k + 1 \in 1..n /\ (k + 1) - 1 = k /\ k \in 0..n /\ k + 1 \in 0..n
    BY <2>1, <2>2
  <2> QED BY <2>1, <2>3
<1>2. Bytes \in Seq(Byte) /\ total \in Nat /\ here \in Nat /\ here <= total
  BY FramesHavePlaces, LenProperties
<1>3. /\ at[k] \in Nat /\ at[k + 1] = at[k] + Len(E) /\ at[k + 1] \in Nat /\ at[k + 1] <= total
      /\ \A j \in 1..Len(E) : Bytes[at[k] + j] = E[j]
  <2> HIDE DEF E, n
  <2> QED BY <1>1 DEF Places, E, n
<1>4. IsMeaning(m) /\ m.over = "no" /\ m.at = at[k] /\ at[k] <= here
  BY DEF IsInPlace
<1>5. next = Meant(here, m, f)
  BY <1>1, MeaningsFollow
<1>6. Len(E) \in Nat /\ Len(E) >= 2
  <2>1. Len(f.ext) \in Nat /\ Len(f.mask) \in Nat /\ Len(f.payload) \in Nat
    BY <1>1, LenProperties DEF IsSent
  <2>2. Len(E) = 2 + Len(f.ext) + Len(f.mask) + Len(f.payload)
    BY <1>1, EncodedParts
  <2> DEFINE x == Len(f.ext)
             y == Len(f.mask)
             z == Len(f.payload)
             e == Len(E)
  <2>3. x \in Nat /\ y \in Nat /\ z \in Nat /\ e = 2 + x + y + z
    BY <2>1, <2>2
  <2> HIDE DEF x, y, z, e
  <2>4. e \in Nat /\ e >= 2
    BY <2>3
  <2> QED BY <2>4 DEF e
<1> HIDE DEF m, next, f, n, total
<1>7. /\ buffer \in Seq(Byte) /\ Len(buffer) = here - at[k]
      /\ \A i \in 1..(here - at[k]) : buffer[i] = Bytes[at[k] + i]
  <2> DEFINE a == at[k]
  <2>1. a \in Nat /\ here \in Nat /\ a <= here /\ here <= Len(Bytes) /\ Bytes \in Seq(Byte)
    BY <1>2, <1>3, <1>4 DEF total
  <2>2. buffer = SubSeq(Bytes, a + 1, here)
    BY <1>4
  <2> HIDE DEF a, buffer
  <2>3. /\ SubSeq(Bytes, a + 1, here) \in Seq(Byte) /\ Len(SubSeq(Bytes, a + 1, here)) = here - a
        /\ \A i \in 1..(here - a) : SubSeq(Bytes, a + 1, here)[i] = Bytes[a + i]
    BY <2>1, PieceOfBytes
  <2> QED BY <2>2, <2>3 DEF a
<1>8. rest = SubSeq(Bytes, at[k] + Len(E) + 1, here) \/ at[k] + Len(E) > here
  <2> SUFFICES ASSUME at[k] + Len(E) <= here PROVE rest = SubSeq(Bytes, at[k] + Len(E) + 1, here)
    <3> DEFINE a == at[k] + Len(E)
    <3>1. a \in Nat /\ here \in Nat
      BY <1>2, <1>3
    <3> HIDE DEF a
    <3>2. a <= here \/ a > here
      BY <3>1
    <3> QED BY <3>2 DEF a
  <2> DEFINE a == at[k]
             e == Len(E)
             b == a + e
  <2>1. a \in Nat /\ b \in Nat /\ here \in Nat /\ a <= b /\ b <= here /\ here <= Len(Bytes) /\ Bytes \in Seq(Byte) /\ e = b - a
    <3>1. a \in Nat /\ e \in Nat /\ here \in Nat /\ a + e <= here /\ here <= Len(Bytes) /\ Bytes \in Seq(Byte)
      BY <1>2, <1>3, <1>6 DEF total
    <3> HIDE DEF a, e
    <3> QED BY <3>1
  <2>2. buffer = SubSeq(Bytes, a + 1, here)
    BY <1>4
  <2> HIDE DEF a, e, b, buffer
  <2>3. SubSeq(SubSeq(Bytes, a + 1, here), e + 1, Len(SubSeq(Bytes, a + 1, here))) = SubSeq(Bytes, b + 1, here)
    BY <2>1, RestOfPiece
  <2>4. rest = SubSeq(Bytes, b + 1, here)
    BY <2>2, <2>3 DEF e
  <2> QED BY <2>4 DEF b, a, e
<1> HIDE DEF buffer
<1>9. Begins(buffer, f)
  <2> SUFFICES ASSUME NEW i \in 1..Len(E), i <= Len(buffer) PROVE buffer[i] = E[i]
    BY DEF Begins
  <2>1. i \in 1..(here - at[k])
    BY <1>2, <1>3, <1>6, <1>7
  <2> QED BY <1>3, <1>7, <2>1
<1>10. here = m.at + Len(buffer) /\ Len(buffer) \in Nat
  <2> DEFINE a == at[k]
             l == Len(buffer)
  <2>1. a \in Nat /\ here \in Nat /\ a <= here /\ l = here - a /\ m.at = a
    BY <1>2, <1>3, <1>4, <1>7
  <2> HIDE DEF a, l
  <2>2. here = a + l /\ l \in Nat
    BY <2>1
  <2> QED BY <2>1, <2>2 DEF l
<1> HIDE DEF E
<1>11. /\ IsMeaning(next)
       /\ next.over = "waits" => /\ DecodeFirst(s) = s /\ next = [m EXCEPT !.over = "waits"]
                                 /\ Len(buffer) < MaxPayload + 14
       /\ next.over = "no" => /\ next.at = m.at + Len(E) /\ Len(E) <= Len(buffer)
                              /\ DecodeFirst(s) = [d |-> Holding(rest, next.part), events |-> next.events]
       /\ next.over \in {"failed", "closed"} => HasEnded(DecodeFirst(s), next)
  <2>1. LET next1 == Meant(here, m, f)
            rest1 == SubSeq(buffer, Len(Encoded(f)) + 1, Len(buffer))
        IN  /\ IsMeaning(next1)
            /\ next1.over = "waits" => /\ DecodeFirst(s) = s /\ next1 = [m EXCEPT !.over = "waits"]
                                       /\ Len(buffer) < MaxPayload + 14
            /\ next1.over = "no" => /\ next1.at = m.at + Len(Encoded(f)) /\ Len(Encoded(f)) <= Len(buffer)
                                    /\ DecodeFirst(s) = [d |-> Holding(rest1, next1.part), events |-> next1.events]
            /\ next1.over \in {"failed", "closed"} => HasEnded(DecodeFirst(s), next1)
    <3>1. IsSent(f) /\ IsMeaning(m) /\ m.over = "no" /\ buffer \in Seq(Byte) /\ Begins(buffer, f) /\ here = m.at + Len(buffer)
      BY <1>1, <1>4, <1>7, <1>9, <1>10
    <3>2. FirstRound(f, m, buffer, here)
      BY <3>1, FirstIsRead
    <3> QED BY <3>2 DEF FirstRound
  <2> QED BY <1>5, <2>1 DEF E
<1>12. s.d.buffer = buffer /\ s = Reads(m, here)
  BY DEF Holding, Reads, buffer
<1>13. ASSUME next.over = "no"
       PROVE  /\ next.at = at[k + 1] /\ at[k + 1] <= here
              /\ DecodeFirst(s) = Reads(next, here)
              /\ Len(Reads(next, here).d.buffer) \in Nat
              /\ Len(Reads(next, here).d.buffer) < Len(buffer)
  <2> DEFINE b == at[k + 1]
             more == SubSeq(Bytes, b + 1, here)
  <2>1. next.at = b /\ b <= here /\ b \in Nat /\ ~ (at[k] + Len(E) > here) /\ at[k] < b
    <3>1. next.at = m.at + Len(E) /\ Len(E) <= Len(buffer)
      BY <1>11, <1>13
    <3>2. Len(E) <= here - at[k] /\ b = at[k] + Len(E)
      BY <1>3, <1>7, <3>1
    <3> QED BY <1>2, <1>3, <1>4, <1>6, <3>1, <3>2
  <2>2. rest = more
    <3>1. rest = SubSeq(Bytes, at[k] + Len(E) + 1, here)
      BY <1>8, <2>1
    <3> HIDE DEF rest
    <3> QED BY <1>3, <3>1
  <2>3. Reads(next, here) = [d |-> Holding(more, next.part), events |-> next.events]
    BY <2>1 DEF Reads
  <2>4. DecodeFirst(s) = Reads(next, here)
    <3>1. DecodeFirst(s) = [d |-> Holding(rest, next.part), events |-> next.events]
      BY <1>11, <1>13
    <3> HIDE DEF rest, s, more
    <3> QED BY <2>2, <2>3, <3>1
  <2>5. Reads(next, here).d.buffer = more
    BY <2>3 DEF Holding
  <2>6. Len(more) = here - b
    <3> HIDE DEF b
    <3>1. b \in Nat /\ here \in Nat /\ b <= here /\ here <= Len(Bytes) /\ Bytes \in Seq(Byte)
      BY <1>2, <2>1 DEF total
    <3> QED BY <3>1, PieceOfBytes
  <2> HIDE DEF s, more
  <2>7. Len(more) \in Nat /\ Len(more) < Len(buffer)
    <3> DEFINE a == at[k]
               l == Len(buffer)
               r == Len(more)
    <3>1. a \in Nat /\ b \in Nat /\ here \in Nat /\ a < b /\ b <= here /\ l = here - a /\ r = here - b
      BY <1>2, <1>3, <1>7, <2>1, <2>6
    <3> HIDE DEF a, b, l, r
    <3>2. r \in Nat /\ r < l
      BY <3>1
    <3> QED BY <3>2 DEF r, l
  <2> QED BY <2>1, <2>4, <2>5, <2>7
<1>14. ASSUME Len(buffer) < 2 PROVE next.over = "waits"
  <2>1. here < m.at + 2 + Len(f.ext)
    <3>1. Len(f.ext) \in Nat
      BY <1>1, LenProperties DEF IsSent
    <3>2. m.at \in Nat
      BY <1>3, <1>4
    <3> DEFINE a == m.at
               x == Len(f.ext)
               l == Len(buffer)
    <3>3. a \in Nat /\ x \in Nat /\ l \in Nat /\ l < 2 /\ here = a + l
      BY <1>10, <1>14, <3>1, <3>2
    <3> HIDE DEF a, x, l
    <3>4. here < a + 2 + x
      BY <3>3
    <3> QED BY <3>4 DEF a, x
  <2>2. next = [m EXCEPT !.over = "waits"]
    BY <1>4, <1>5, <2>1 DEF Meant
  <2>3. m = [at |-> m.at, over |-> m.over, part |-> m.part, events |-> m.events]
    BY <1>4 DEF IsMeaning, Meaning
  <2> QED BY <2>2, <2>3
<1>15. IsInPlace(at, here, k + 1)
  BY <1>11, <1>13 DEF IsInPlace, next
<1> HIDE DEF s, rest
<1> QED BY <1>10, <1>11, <1>12, <1>13, <1>14, <1>15 DEF m, next, NextIsRead

\* Every meaning on the way is in its place.
LEMMA MeaningsAreInPlace ==
  ASSUME stream \in Streams, NEW at, Places(at), NEW here \in 0..Len(Bytes)
  PROVE  \A k \in 0..Len(stream) : IsInPlace(at, here, k)
<1> DEFINE n == Len(stream)
           Good == {k \in Nat : k <= n => IsInPlace(at, here, k)}
<1>1. n \in Nat /\ \A i \in 1..n : IsSent(stream[i])
  BY StreamsAreFrames
<1>2. Bytes \in Seq(Byte) /\ here \in Nat
  BY FramesHavePlaces, LenProperties
<1>3. 0 \in Good
  <2>1. Meanings(here)[0] = NothingRead
    BY <1>1, MeaningsFollow
  <2>2. IsMeaning(NothingRead)
    <3>1. <<>> \in Seq(Seq(Byte)) /\ <<>> \in Seq(ToldEvent) /\ Len(<<>>) <= 1
      OBVIOUS
    <3> QED BY <3>1 DEF IsMeaning, Meaning, NothingRead
  <2>3. at[0] = 0 /\ NothingRead.at = 0
    BY DEF Places, NothingRead
  <2> QED BY <1>2, <2>1, <2>2, <2>3 DEF IsInPlace
<1>4. ASSUME NEW k \in Nat, k \in Good PROVE k + 1 \in Good
  <2> SUFFICES ASSUME k + 1 <= n PROVE IsInPlace(at, here, k + 1)
    OBVIOUS
  <2>1. k \in 0..(n - 1) /\ IsInPlace(at, here, k)
    BY <1>1, <1>4
  <2>2. CASE Meanings(here)[k].over = "no"
    BY <2>1, <2>2, FrameIsRead DEF NextIsRead
  <2>3. CASE Meanings(here)[k].over # "no"
    <3>1. k + 1 \in 1..n /\ (k + 1) - 1 = k
      BY <1>1, <2>1
    <3>2. Meanings(here)[k + 1] = Meant(here, Meanings(here)[k], stream[k + 1])
      BY <1>1, <3>1, MeaningsFollow
    <3>3. Meanings(here)[k + 1] = Meanings(here)[k]
      BY <2>3, <3>2 DEF Meant
    <3> QED BY <2>1, <2>3, <3>3 DEF IsInPlace
  <2> QED BY <2>2, <2>3
<1>5. \A k \in Nat : k \in Good
  <2> HIDE DEF Good
  <2> QED BY <1>3, <1>4, NatInductionOnSets
<1> QED BY <1>1, <1>5

\* What does not wait for more is the same when more is here.
LEMMA MeaningsStay ==
  ASSUME stream \in Streams, NEW at, Places(at), NEW here \in 0..Len(Bytes), NEW later \in 0..Len(Bytes), here <= later
  PROVE  \A k \in 0..Len(stream) : Meanings(here)[k].over # "waits" => Meanings(later)[k] = Meanings(here)[k]
<1> DEFINE n == Len(stream)
           Good == {k \in Nat : k <= n => (Meanings(here)[k].over # "waits" => Meanings(later)[k] = Meanings(here)[k])}
<1>1. n \in Nat /\ \A i \in 1..n : IsSent(stream[i])
  BY StreamsAreFrames
<1>2. Bytes \in Seq(Byte) /\ here \in Nat /\ later \in Nat
  BY FramesHavePlaces, LenProperties
<1>3. 0 \in Good
  BY <1>1, MeaningsFollow
<1>4. ASSUME NEW k \in Nat, k \in Good PROVE k + 1 \in Good
  <2> DEFINE m == Meanings(here)[k]
             f == stream[k + 1]
             next == Meanings(here)[k + 1]
  <2> SUFFICES ASSUME k + 1 <= n, next.over # "waits" PROVE Meanings(later)[k + 1] = next
    OBVIOUS
  <2>1. k + 1 \in 1..n /\ (k + 1) - 1 = k /\ k \in 0..n
    BY <1>1
  <2>2. next = Meant(here, m, f) /\ Meanings(later)[k + 1] = Meant(later, Meanings(later)[k], f)
    BY <1>1, <2>1, MeaningsFollow
  <2>3. m.over # "waits"
    <3>1. m.over # "no" => next = m
      BY <2>2 DEF Meant
    <3> QED BY <3>1
  <2>4. Meanings(later)[k] = m
    BY <1>1, <1>4, <2>1, <2>3
  <2>5. Meant(later, m, f) = Meant(here, m, f)
    <3>1. CASE m.over # "no"
      BY <3>1 DEF Meant
    <3>2. CASE m.over = "no"
      <4> DEFINE a == m.at
                 x == Len(f.ext)
                 e == Len(Encoded(f))
      <4>1. a \in Nat /\ x \in Nat /\ e \in Nat
        <5>1. IsMeaning(m) /\ IsSent(f)
          BY <1>1, <2>1, MeaningsAreInPlace DEF IsInPlace
        <5>2. Encoded(f) \in Seq(Byte)
          BY <5>1, EncodedParts
        <5> QED BY <5>1, <5>2, LenProperties DEF IsMeaning, Meaning, IsSent
      <4>2. m = [at |-> m.at, over |-> m.over, part |-> m.part, events |-> m.events]
        <5>1. IsMeaning(m)
          BY <2>1, MeaningsAreInPlace DEF IsInPlace
        <5> QED BY <5>1 DEF IsMeaning, Meaning
      <4> DEFINE after(h) == IF h < a + 2 + x THEN [m EXCEPT !.over = "waits"]
                             ELSE IF TooLong(f) THEN [m EXCEPT !.over = "failed"]
                             ELSE IF h < a + e THEN [m EXCEPT !.over = "waits"]
                             ELSE Understood([m EXCEPT !.at = a + e], f)
      <4>3. Meant(later, m, f) = after(later) /\ Meant(here, m, f) = after(here)
        BY <3>2 DEF Meant
      <4>4. [m EXCEPT !.over = "waits"].over = "waits"
        BY <4>2
      <4>5. after(here).over # "waits"
        BY <2>2, <4>3
      <4> HIDE DEF m, a, x, e, f
      <4>6. ~ (here < a + 2 + x) /\ (TooLong(f) \/ ~ (here < a + e))
        BY <4>4, <4>5
      <4>7. ~ (later < a + 2 + x) /\ (TooLong(f) \/ ~ (later < a + e))
        BY <1>2, <4>1, <4>6
      <4>8. after(later) = after(here)
        BY <4>6, <4>7
      <4> QED BY <4>3, <4>8
    <3> QED BY <3>1, <3>2
  <2> QED BY <2>2, <2>4, <2>5
<1>5. \A k \in Nat : k \in Good
  <2> HIDE DEF Good
  <2> QED BY <1>3, <1>4, NatInductionOnSets
<1> QED BY <1>1, <1>5

\* What is over stays as it is.
LEMMA MeaningsEnd ==
  ASSUME stream \in Streams, NEW here, NEW k \in 0..Len(stream), Meanings(here)[k].over # "no"
  PROVE  Meanings(here)[Len(stream)] = Meanings(here)[k]
<1> DEFINE n == Len(stream)
           Good == {j \in Nat : k <= j /\ j <= n => Meanings(here)[j] = Meanings(here)[k]}
<1>1. n \in Nat
  BY StreamsAreFrames
<1>2. 0 \in Good
  OBVIOUS
<1>3. ASSUME NEW j \in Nat, j \in Good PROVE j + 1 \in Good
  <2> SUFFICES ASSUME k <= j + 1, j + 1 <= n PROVE Meanings(here)[j + 1] = Meanings(here)[k]
    OBVIOUS
  <2>1. CASE k = j + 1
    BY <2>1
  <2>2. CASE k <= j
    <3>1. Meanings(here)[j] = Meanings(here)[k]
      BY <1>1, <1>3, <2>2
    <3>2. j + 1 \in 1..n /\ (j + 1) - 1 = j
      BY <1>1
    <3>3. Meanings(here)[j + 1] = Meant(here, Meanings(here)[j], stream[j + 1])
      BY <1>1, <3>2, MeaningsFollow
    <3> QED BY <3>1, <3>3 DEF Meant
  <2> QED BY <1>1, <2>1, <2>2
<1>4. \A j \in Nat : j \in Good
  <2> HIDE DEF Good
  <2> QED BY <1>2, <1>3, NatInductionOnSets
<1> QED BY <1>1, <1>4

\* What begins with no whole frame, or has ended, stays as it is.
LEMMA SettledStays ==
  ASSUME stream \in Streams, NEW at, Places(at), NEW here \in 0..Len(Bytes), NEW s, IsSettled(s, here)
  PROVE  DecodeFirst(s) = s
<1> DEFINE n == Len(stream)
<1>1. n \in Nat
  BY StreamsAreFrames
<1>2. PICK k \in 0..n : Waits(s, here, k) \/ HasEnded(s, Meanings(here)[k])
  BY DEF IsSettled
<1>3. CASE HasEnded(s, Meanings(here)[k])
  <2>1. s.d.failed = TRUE \/ s.d.closed = TRUE
    BY <1>3 DEF HasEnded
  <2> QED BY <2>1 DEF DecodeFirst
<1>4. CASE Waits(s, here, k)
  <2> DEFINE m == Meanings(here)[k]
  <2>1. m.over = "no" /\ s = Reads(m, here)
    BY <1>4 DEF Waits, HasRead
  <2>2. IsInPlace(at, here, k)
    BY <1>2, MeaningsAreInPlace
  <2>3. CASE k = n
    <3> DEFINE a == m.at
               buffer == SubSeq(Bytes, a + 1, here)
    <3>1. a = at[n] /\ at[n] <= here /\ at[n] = Len(Bytes)
      BY <2>1, <2>2, <2>3 DEF IsInPlace, Places
    <3>2. Bytes \in Seq(Byte) /\ Len(Bytes) \in Nat
      BY FramesHavePlaces, LenProperties
    <3>3. a = here /\ here \in Nat /\ here <= Len(Bytes)
      BY <3>1, <3>2
    <3>4. s.d.buffer = buffer
      BY <2>1 DEF Reads, Holding
    <3> HIDE DEF a
    <3>5. Len(buffer) = here - a
      BY <3>2, <3>3, PieceOfBytes
    <3> HIDE DEF buffer
    <3>6. Len(s.d.buffer) < 2
      BY <3>3, <3>4, <3>5
    <3>7. FrameHeader(s.d.buffer).complete = FALSE
      BY <3>6 DEF FrameHeader
    <3> QED BY <3>7 DEF DecodeFirst
  <2>4. CASE k # n
    <3>1. k \in 0..(n - 1)
      BY <1>1, <1>2, <2>4
    <3>2. Meanings(here)[k + 1].over = "waits"
      BY <1>4, <2>4 DEF Waits
    <3>3. NextIsRead(at, here, k)
      BY <2>1, <2>2, <3>1, FrameIsRead
    <3> QED BY <2>1, <3>2, <3>3 DEF NextIsRead
  <2> QED BY <2>3, <2>4
<1> QED BY <1>2, <1>3, <1>4

\* A round settles the decoder, or takes a frame from the buffer.
LEMMA RoundGoesOn ==
  ASSUME stream \in Streams, NEW at, Places(at), NEW here \in 0..Len(Bytes), NEW s, IsUnderway(s, here)
  PROVE  /\ Len(s.d.buffer) \in Nat
         /\ \/ IsSettled(s, here)
            \/ IsSettled(DecodeFirst(s), here) /\ Len(s.d.buffer) > 0
            \/ /\ IsUnderway(DecodeFirst(s), here)
               /\ Len(DecodeFirst(s).d.buffer) \in Nat /\ Len(DecodeFirst(s).d.buffer) < Len(s.d.buffer)
<1> DEFINE n == Len(stream)
<1>1. n \in Nat
  BY StreamsAreFrames
<1>2. PICK k \in 0..n : HasRead(s, here, k)
  BY DEF IsUnderway
<1> DEFINE m == Meanings(here)[k]
           next == Meanings(here)[k + 1]
           size == Len(s.d.buffer)
<1>3. m.over = "no" /\ s = Reads(m, here)
  BY <1>2 DEF HasRead
<1>4. IsInPlace(at, here, k) /\ IsMeaning(m)
  BY <1>2, MeaningsAreInPlace DEF IsInPlace
<1>5. CASE k = n
  <2>1. IsSettled(s, here)
    BY <1>2, <1>5 DEF IsSettled, Waits
  <2>2. size \in Nat
    <3> DEFINE a == m.at
    <3>1. a \in Nat /\ a <= here
      BY <1>3, <1>4 DEF IsInPlace, IsMeaning, Meaning
    <3>2. Bytes \in Seq(Byte) /\ Len(Bytes) \in Nat
      BY FramesHavePlaces, LenProperties
    <3>3. s.d.buffer = SubSeq(Bytes, a + 1, here)
      BY <1>3 DEF Reads, Holding
    <3> HIDE DEF a
    <3>4. here \in Nat /\ here <= Len(Bytes)
      BY <3>2
    <3>5. Len(SubSeq(Bytes, a + 1, here)) = here - a
      BY <3>1, <3>2, <3>4, PieceOfBytes
    <3> QED BY <3>1, <3>3, <3>4, <3>5
  <2> QED BY <2>1, <2>2
<1>6. CASE k # n
  <2>1. k \in 0..(n - 1) /\ k + 1 \in 0..n
    BY <1>1, <1>2, <1>6
  <2>2. /\ IsInPlace(at, here, k + 1)
        /\ size \in Nat
        /\ next.over = "no" => /\ DecodeFirst(s) = Reads(next, here)
                               /\ Len(Reads(next, here).d.buffer) \in Nat
                               /\ Len(Reads(next, here).d.buffer) < size
        /\ next.over \in {"failed", "closed"} => HasEnded(DecodeFirst(s), next)
        /\ size < 2 => next.over = "waits"
    <3>1. NextIsRead(at, here, k)
      BY <1>3, <1>4, <2>1, FrameIsRead
    <3> QED BY <1>3, <3>1 DEF NextIsRead
  <2>3. next.over \in {"no", "waits", "failed", "closed"}
    BY <2>2 DEF IsInPlace, IsMeaning, Meaning
  <2>4. CASE next.over = "waits"
    <3>1. IsSettled(s, here)
      BY <1>2, <2>4 DEF IsSettled, Waits
    <3> QED BY <2>2, <3>1
  <2>5. CASE next.over \in {"failed", "closed"}
    <3>1. IsSettled(DecodeFirst(s), here)
      BY <2>1, <2>2, <2>5 DEF IsSettled
    <3>2. ~ (size < 2)
      BY <2>2, <2>5
    <3> HIDE DEF size
    <3>3. size > 0
      BY <2>2, <3>2
    <3> QED BY <2>2, <3>1, <3>3 DEF size
  <2>6. CASE next.over = "no"
    <3>1. IsUnderway(DecodeFirst(s), here)
      BY <2>1, <2>2, <2>6 DEF IsUnderway, HasRead
    <3> QED BY <2>2, <2>6, <3>1
  <2> QED BY <2>3, <2>4, <2>5, <2>6
<1> QED BY <1>5, <1>6

\* The loop over the buffer takes every whole frame from it.
LEMMA BufferIsDecoded ==
  ASSUME stream \in Streams, NEW at, Places(at), NEW here \in 0..Len(Bytes),
         NEW d, NEW events, IsUnderway([d |-> d, events |-> events], here)
  PROVE  IsSettled(DecodeBuffered(d, events), here)
<1> DEFINE s == [d |-> d, events |-> events]
           L == Len(d.buffer)
<1>1. L \in Nat
  BY RoundGoesOn
<1>2. PICK after : /\ after[0] = s /\ \A k \in 1..L : after[k] = DecodeFirst(after[k - 1])
                   /\ DecodeBuffered(d, events) = after[L]
  BY <1>1, RoundsFollow
<1> DEFINE Fewer(i) == IsUnderway(after[i], here) /\ Len(after[i].d.buffer) + i <= L
           Reached(i) == IsSettled(after[i], here) \/ Fewer(i)
           Good == {i \in Nat : i <= L => Reached(i)}
<1>3. 0 \in Good
  <2>1. after[0] = s /\ after[0].d = d
    BY <1>2
  <2>2. Len(after[0].d.buffer) + 0 <= L
    BY <1>1, <2>1
  <2> HIDE DEF s
  <2> QED BY <2>1, <2>2 DEF s
<1>4. ASSUME NEW i \in Nat, i \in Good PROVE i + 1 \in Good
  <2> SUFFICES ASSUME i + 1 <= L PROVE Reached(i + 1)
    <3> HIDE DEF Reached
    <3> QED OBVIOUS
  <2>1. i + 1 \in 1..L /\ (i + 1) - 1 = i /\ i <= L
    BY <1>1
  <2>2. after[i + 1] = DecodeFirst(after[i])
    BY <1>2, <2>1
  <2>3. CASE IsSettled(after[i], here)
    BY <2>2, <2>3, SettledStays
  <2>4. CASE Fewer(i)
    <3> DEFINE t == after[i]
               u == DecodeFirst(t)
               x == Len(t.d.buffer)
               y == Len(u.d.buffer)
    <3>1. /\ x \in Nat
          /\ \/ IsSettled(t, here)
             \/ IsSettled(u, here) /\ x > 0
             \/ IsUnderway(u, here) /\ y \in Nat /\ y < x
      BY <2>4, RoundGoesOn
    <3>2. IsSettled(t, here) => u = t
      BY SettledStays
    <3>3. x + i <= L
      BY <2>4
    <3> HIDE DEF x, y, L
    <3>4. y \in Nat /\ y < x => y + (i + 1) <= L
      BY <1>1, <3>1, <3>3
    <3> HIDE DEF t, u
    <3>5. IsSettled(u, here) \/ (IsUnderway(u, here) /\ y + (i + 1) <= L)
      BY <3>1, <3>2, <3>4
    <3>6. after[i + 1] = u
      BY <2>2 DEF u, t
    <3> QED BY <3>5, <3>6 DEF y
  <2> QED BY <1>4, <2>1, <2>3, <2>4
<1>5. \A i \in Nat : i \in Good
  <2> HIDE DEF Good
  <2> QED BY <1>3, <1>4, NatInductionOnSets
<1>6. IsSettled(after[L], here) \/ Fewer(L)
  <2>1. Reached(L)
    <3> HIDE DEF Reached, L
    <3> QED BY <1>1, <1>5
  <2> QED BY <2>1
<1>7. ASSUME Fewer(L) PROVE IsSettled(after[L], here)
  <2> DEFINE t == after[L]
             x == Len(t.d.buffer)
             y == Len(DecodeFirst(t).d.buffer)
  <2>1. /\ x \in Nat
        /\ \/ IsSettled(t, here)
           \/ IsSettled(DecodeFirst(t), here) /\ x > 0
           \/ IsUnderway(DecodeFirst(t), here) /\ y \in Nat /\ y < x
    BY <1>7, RoundGoesOn
  <2>2. x + L <= L
    BY <1>7
  <2> HIDE DEF x, y, L, t
  <2>3. ~ (x > 0) /\ ~ (y \in Nat /\ y < x)
    BY <1>1, <2>1, <2>2
  <2> QED BY <2>1, <2>3 DEF t
<1> QED BY <1>2, <1>6, <1>7

\* Only its parts matter.
LEMMA SettledParts ==
  ASSUME NEW s, NEW here, IsSettled(s, here)
  PROVE  IsSettled([d |-> s.d, events |-> s.events], here)
<1> DEFINE t == [d |-> s.d, events |-> s.events]
<1>1. PICK k \in 0..Len(stream) : Waits(s, here, k) \/ HasEnded(s, Meanings(here)[k])
  BY DEF IsSettled
<1>2. CASE HasEnded(s, Meanings(here)[k])
  <2>1. HasEnded(t, Meanings(here)[k])
    BY <1>2 DEF HasEnded
  <2> QED BY <2>1 DEF IsSettled
<1>3. CASE Waits(s, here, k)
  <2>1. t = s
    BY <1>3 DEF Waits, HasRead, Reads
  <2> HIDE DEF t
  <2>2. Waits(t, here, k)
    BY <1>3, <2>1
  <2> QED BY <2>2 DEF IsSettled, t
<1> QED BY <1>1, <1>2, <1>3

\* What has been fed up to here, with the rest up to q.
IsFed(s, here, q) == IsSettled([d |-> s.d, events |-> s.events], here) /\ s.rest = SubSeq(Bytes, here + 1, q)
Ended(s) == s.d.failed = TRUE \/ s.d.closed = TRUE

\* A decoder that waits has room for one more byte.
LEMMA WaitingHasRoom ==
  ASSUME stream \in Streams, NEW at, Places(at), NEW here \in 0..Len(Bytes), here < Len(Bytes),
         NEW s, NEW k \in 0..Len(stream), Waits(s, here, k)
  PROVE  Len(s.d.buffer) \in Nat /\ Len(s.d.buffer) < MaxBuffer
<1> DEFINE n == Len(stream)
<1>1. n \in Nat
  BY StreamsAreFrames
<1>2. Meanings(here)[k].over = "no" /\ s = Reads(Meanings(here)[k], here)
  BY DEF Waits, HasRead
<1>3. IsInPlace(at, here, k)
  BY MeaningsAreInPlace
<1>4. k # n
  <2>1. Bytes \in Seq(Byte) /\ Len(Bytes) \in Nat
    BY FramesHavePlaces, LenProperties
  <2>2. at[n] = Len(Bytes)
    BY DEF Places
  <2>3. k = n => Len(Bytes) <= here
    BY <1>2, <1>3, <2>2 DEF IsInPlace
  <2> DEFINE l == Len(Bytes)
  <2>4. here \in 0..l /\ here < l /\ l \in Nat /\ (k = n => l <= here)
    BY <2>1, <2>3
  <2> HIDE DEF l, n
  <2> QED BY <2>4
<1>5. k \in 0..(n - 1)
  BY <1>1, <1>4
<1>6. NextIsRead(at, here, k)
  BY <1>2, <1>3, <1>5, FrameIsRead
<1>7. Meanings(here)[k + 1].over = "waits"
  BY <1>4 DEF Waits
<1> DEFINE size == Len(s.d.buffer)
<1>8. size \in Nat /\ size < MaxPayload + 14
  BY <1>2, <1>6, <1>7 DEF NextIsRead
<1> HIDE DEF size
<1>9. size \in Nat /\ size < MaxBuffer
  BY <1>8, FrameDecoderAssumption
<1> QED BY <1>9 DEF size

\* Some bytes more are in the buffer.
LEMMA MoreIsThere ==
  ASSUME stream \in Streams, NEW at, Places(at), NEW p \in 0..Len(Bytes), NEW r \in 0..Len(Bytes), p <= r,
         NEW s, NEW k \in 0..Len(stream), Waits(s, p, k)
  PROVE  LET d == [s.d EXCEPT !.buffer = @ \o SubSeq(Bytes, p + 1, r)]
         IN  IsUnderway([d |-> d, events |-> s.events], r)
<1> DEFINE m == Meanings(p)[k]
           a == m.at
           buffer == SubSeq(Bytes, a + 1, p)
           more == SubSeq(Bytes, p + 1, r)
           d == [s.d EXCEPT !.buffer = @ \o more]
<1>1. m.over = "no" /\ s = Reads(m, p)
  BY DEF Waits, HasRead
<1>2. IsMeaning(m) /\ a <= p
  BY <1>1, MeaningsAreInPlace DEF IsInPlace
<1>3. a \in Nat
  BY <1>2 DEF IsMeaning, Meaning
<1>4. Bytes \in Seq(Byte) /\ p \in Nat /\ r \in Nat /\ r <= Len(Bytes)
  BY FramesHavePlaces, LenProperties
<1>5. Meanings(r)[k] = m
  BY <1>1, MeaningsStay
<1>6. s.d = Holding(buffer, m.part) /\ s.events = m.events
  BY <1>1 DEF Reads
<1>7. s.d.buffer = buffer
  BY <1>1 DEF Reads, Holding
<1> HIDE DEF a
<1>8. buffer \o more = SubSeq(Bytes, a + 1, r)
  BY <1>2, <1>3, <1>4, PiecesTogether
<1> HIDE DEF buffer, more, m
<1>9. d = Holding(buffer \o more, m.part)
  <2>1. d = [Holding(buffer, m.part) EXCEPT !.buffer = buffer \o more]
    BY <1>6, <1>7
  <2> QED BY <2>1, HoldingLess
<1>10. [d |-> d, events |-> s.events] = Reads(m, r)
  BY <1>6, <1>8, <1>9 DEF Reads, a
<1>11. HasRead([d |-> d, events |-> s.events], r, k)
  BY <1>1, <1>5, <1>10 DEF HasRead
<1>12. IsUnderway([d |-> d, events |-> s.events], r)
  BY <1>11 DEF IsUnderway
<1> QED BY <1>12 DEF more

\* One slice of what is fed.
LEMMA SliceIsFed ==
  ASSUME stream \in Streams, NEW at, Places(at), NEW p \in 0..Len(Bytes), NEW q \in 0..Len(Bytes), p <= q,
         NEW s, IsFed(s, p, q)
  PROVE  \/ FeedSlice(s) = s /\ (p = q \/ Ended(s))
         \/ \E r \in (p + 1)..q : IsFed(FeedSlice(s), r, q)
<1> DEFINE t == [d |-> s.d, events |-> s.events]
           size == Len(s.d.buffer)
           l == Len(s.rest)
           room == MaxBuffer - size
           take == IF room < l THEN room ELSE l
           d == [s.d EXCEPT !.buffer = @ \o SubSeq(s.rest, 1, take)]
           next == DecodeBuffered(d, s.events)
<1>1. IsSettled(t, p) /\ s.rest = SubSeq(Bytes, p + 1, q)
  BY DEF IsFed
<1>2. Bytes \in Seq(Byte) /\ Len(Bytes) \in Nat /\ p \in Nat /\ q \in Nat /\ q <= Len(Bytes)
  BY FramesHavePlaces, LenProperties
<1>3. s.rest \in Seq(Byte) /\ l = q - p
  BY <1>1, <1>2, PieceOfBytes
<1>4. PICK k \in 0..Len(stream) : Waits(t, p, k) \/ HasEnded(t, Meanings(p)[k])
  BY <1>1 DEF IsSettled
<1>5. CASE HasEnded(t, Meanings(p)[k])
  <2>1. Ended(s)
    BY <1>5 DEF HasEnded, Ended
  <2>2. FeedSlice(s) = s
    BY <2>1 DEF FeedSlice, Ended
  <2> QED BY <2>1, <2>2
<1>6. CASE p = q
  <2>1. s.rest = <<>>
    <3>1. l = 0
      BY <1>2, <1>3, <1>6
    <3> QED BY <1>3, <3>1, EmptySeq
  <2>2. FeedSlice(s) = s
    BY <2>1 DEF FeedSlice
  <2> QED BY <1>6, <2>2
<1>7. CASE Waits(t, p, k) /\ p # q
  <2>1. p < q /\ p < Len(Bytes)
    BY <1>2, <1>7
  <2>2. size \in Nat /\ size < MaxBuffer
    <3>1. Len(t.d.buffer) \in Nat /\ Len(t.d.buffer) < MaxBuffer
      BY <1>7, <2>1, WaitingHasRoom
    <3> QED BY <3>1
  <2>3. MaxBuffer \in Nat
    BY FrameDecoderAssumption
  <2>4. s.rest # <<>>
    <3>1. l # 0
      BY <1>2, <1>3, <2>1
    <3> QED BY <3>1
  <2>5. ~ (s.d.failed \/ s.d.closed)
    <3>1. t = Reads(Meanings(p)[k], p)
      BY <1>7 DEF Waits, HasRead
    <3>2. t.d.failed = FALSE /\ t.d.closed = FALSE
      BY <3>1 DEF Reads, Holding
    <3> QED BY <3>2
  <2> HIDE DEF size, l
  <2>6. ~ (room <= 0) /\ take \in 1..(q - p)
    BY <1>2, <1>3, <2>1, <2>2, <2>3
  <2>7. FeedSlice(s) = [d |-> next.d, events |-> next.events, rest |-> SubSeq(s.rest, take + 1, l)]
    <3> HIDE DEF take, room, d
    <3>1. FeedSlice(s) = IF s.d.failed \/ s.d.closed \/ s.rest = <<>> THEN s
                         ELSE IF room <= 0 THEN [s EXCEPT !.d = Failed(@)]
                         ELSE [d |-> next.d, events |-> next.events, rest |-> SubSeq(s.rest, take + 1, l)]
      BY Zenon DEF FeedSlice, take, room, l, size, d
    <3> HIDE DEF next
    <3> QED BY <2>4, <2>5, <2>6, <3>1
  <2> DEFINE r == p + take
             more == SubSeq(Bytes, p + 1, r)
  <2> HIDE DEF take, room
  <2>8. r \in (p + 1)..q /\ r \in Nat /\ p <= r /\ r <= q /\ r \in 0..Len(Bytes) /\ take = r - p
    BY <1>2, <2>6
  <2> HIDE DEF r
  <2>9. SubSeq(s.rest, 1, take) = more /\ SubSeq(s.rest, take + 1, l) = SubSeq(Bytes, r + 1, q)
    <3>1. SubSeq(SubSeq(Bytes, p + 1, q), 1, take) = more
      BY <1>2, <2>8, FrontOfPiece
    <3>2. SubSeq(SubSeq(Bytes, p + 1, q), take + 1, Len(SubSeq(Bytes, p + 1, q))) = SubSeq(Bytes, r + 1, q)
      BY <1>2, <2>8, RestOfPiece
    <3> QED BY <1>1, <3>1, <3>2 DEF l
  <2>10. d = [t.d EXCEPT !.buffer = @ \o more]
    <3> HIDE DEF more
    <3> QED BY <2>9
  <2>11. IsUnderway([d |-> [t.d EXCEPT !.buffer = @ \o more], events |-> t.events], r)
    BY <1>7, <2>8, MoreIsThere
  <2> HIDE DEF d
  <2>12. IsUnderway([d |-> d, events |-> s.events], r)
    <3>1. t.events = s.events
      OBVIOUS
    <3> HIDE DEF t, more
    <3> QED BY <2>10, <2>11, <3>1
  <2>13. IsSettled(next, r)
    BY <2>8, <2>12, BufferIsDecoded
  <2> HIDE DEF next, more
  <2>14. IsSettled([d |-> next.d, events |-> next.events], r)
    BY <2>13, SettledParts
  <2> DEFINE u == FeedSlice(s)
  <2>15. u.d = next.d /\ u.events = next.events /\ u.rest = SubSeq(Bytes, r + 1, q)
    <3>1. u.d = next.d /\ u.events = next.events /\ u.rest = SubSeq(s.rest, take + 1, l)
      <4>1. \A v, x, y, z : v = [d |-> x, events |-> y, rest |-> z] => v.d = x /\ v.events = y /\ v.rest = z
        OBVIOUS
      <4>2. u = [d |-> next.d, events |-> next.events, rest |-> SubSeq(s.rest, take + 1, l)]
        BY <2>7
      <4> HIDE DEF u
      <4>3. u.d = next.d
        BY <4>2
      <4>4. u.events = next.events
        BY <4>2
      <4>5. u.rest = SubSeq(s.rest, take + 1, l)
        BY <4>2
      <4> QED BY <4>3, <4>4, <4>5
    <3> HIDE DEF u
    <3> QED BY <2>9, <3>1
  <2> HIDE DEF u
  <2>16. IsFed(u, r, q)
    BY <2>14, <2>15 DEF IsFed
  <2> QED BY <2>8, <2>16 DEF u
<1> QED BY <1>4, <1>5, <1>6, <1>7

\* All that is fed is read, however it is cut.
LEMMA PieceIsFed ==
  ASSUME stream \in Streams, NEW p \in 0..Len(Bytes), NEW q \in 0..Len(Bytes), p <= q,
         NEW d, NEW events, IsSettled([d |-> d, events |-> events], p)
  PROVE  LET next == Fed(d, events, SubSeq(Bytes, p + 1, q))
         IN  IsSettled([d |-> next.d, events |-> next.events], q)
<1> DEFINE data == SubSeq(Bytes, p + 1, q)
           L == Len(data)
<1>1. PICK at : Places(at)
  BY FramesHavePlaces
<1>2. Bytes \in Seq(Byte) /\ Len(Bytes) \in Nat /\ p \in Nat /\ q \in Nat /\ q <= Len(Bytes)
  BY FramesHavePlaces, LenProperties
<1>3. L = q - p
  BY <1>2, PieceOfBytes
<1>4. L \in Nat
  BY <1>2, <1>3
<1>5. PICK after : /\ after[0] = [d |-> d, events |-> events, rest |-> data]
                   /\ \A k \in 1..L : after[k] = FeedSlice(after[k - 1])
                   /\ Fed(d, events, data) = after[L]
  <2> HIDE DEF data
  <2> QED BY <1>4, SlicesFollow
<1> HIDE DEF L
<1> DEFINE At(i, r) == IsFed(after[i], r, q) /\ (r = q \/ Ended(after[i]) \/ r >= p + i)
           Reached(i) == \E r \in p..q : At(i, r)
           Good == {i \in Nat : i <= L => Reached(i)}
<1>6. 0 \in Good
  <2> DEFINE s == after[0]
  <2>1. s.d = d /\ s.events = events /\ s.rest = data
    BY <1>5
  <2> HIDE DEF s, data
  <2>2. IsFed(s, p, q)
    BY <2>1 DEF IsFed, data
  <2>3. At(0, p)
    BY <1>2, <2>2 DEF s
  <2>4. p \in p..q
    BY <1>2
  <2> HIDE DEF At
  <2> QED BY <2>3, <2>4
<1>7. ASSUME NEW i \in Nat, i \in Good PROVE i + 1 \in Good
  <2> SUFFICES ASSUME i + 1 <= L PROVE Reached(i + 1)
    <3> HIDE DEF Reached
    <3> QED OBVIOUS
  <2>1. i + 1 \in 1..L /\ (i + 1) - 1 = i /\ i <= L
    BY <1>4
  <2>2. after[i + 1] = FeedSlice(after[i])
    BY <1>5, <2>1
  <2>3. PICK r \in p..q : At(i, r)
    <3>1. Reached(i)
      <4> HIDE DEF Reached
      <4> QED BY <1>7, <2>1
    <3> QED BY <3>1
  <2>4. r \in 0..Len(Bytes) /\ r <= q /\ r \in Nat
    BY <1>2
  <2>5. \/ FeedSlice(after[i]) = after[i] /\ (r = q \/ Ended(after[i]))
        \/ \E e \in (r + 1)..q : IsFed(FeedSlice(after[i]), e, q)
    BY <1>1, <2>3, <2>4, SliceIsFed
  <2>6. CASE FeedSlice(after[i]) = after[i] /\ (r = q \/ Ended(after[i]))
    <3>1. At(i + 1, r)
      BY <2>2, <2>3, <2>6
    <3> HIDE DEF At
    <3> QED BY <3>1
  <2>7. CASE \E e \in (r + 1)..q : IsFed(FeedSlice(after[i]), e, q)
    <3>1. PICK e \in (r + 1)..q : IsFed(FeedSlice(after[i]), e, q)
      BY <2>7
    <3>2. CASE r >= p + i
      <4>1. e >= p + (i + 1) /\ e \in p..q
        BY <1>2, <2>4, <3>2
      <4>2. At(i + 1, e)
        BY <2>2, <3>1, <4>1
      <4> HIDE DEF At
      <4> QED BY <4>1, <4>2
    <3>3. CASE r = q
      <4>1. FALSE
        BY <1>2, <3>3
      <4> QED BY <4>1
    <3>4. CASE Ended(after[i])
      <4>1. FeedSlice(after[i]) = after[i]
        BY <3>4 DEF FeedSlice, Ended
      <4>2. At(i + 1, r)
        BY <2>2, <2>3, <3>4, <4>1
      <4> HIDE DEF At
      <4> QED BY <4>2
    <3>5. r = q \/ Ended(after[i]) \/ r >= p + i
      BY <2>3
    <3> QED BY <3>2, <3>3, <3>4, <3>5
  <2> QED BY <2>5, <2>6, <2>7
<1>8. \A i \in Nat : i \in Good
  <2> HIDE DEF Good
  <2> QED BY <1>6, <1>7, NatInductionOnSets
<1>9. PICK r \in p..q : At(L, r)
  <2>1. Reached(L)
    <3> HIDE DEF Reached
    <3> QED BY <1>4, <1>8
  <2> QED BY <2>1
<1> DEFINE s == after[L]
           t == [d |-> s.d, events |-> s.events]
<1>10. IsSettled(t, r)
  BY <1>9 DEF IsFed
<1>11. r = q \/ Ended(s)
  BY <1>2, <1>3, <1>9
<1>12. IsSettled(t, q)
  <2>1. CASE r = q
    BY <1>10, <2>1
  <2>2. CASE Ended(s)
    <3>1. PICK k \in 0..Len(stream) : Waits(t, r, k) \/ HasEnded(t, Meanings(r)[k])
      BY <1>10 DEF IsSettled
    <3>2. ~ Waits(t, r, k)
      <4> SUFFICES ASSUME Waits(t, r, k) PROVE FALSE
        OBVIOUS
      <4>1. t = Reads(Meanings(r)[k], r)
        BY DEF Waits, HasRead
      <4>2. t.d.failed = FALSE /\ t.d.closed = FALSE
        BY <4>1 DEF Reads, Holding
      <4> QED BY <2>2, <4>2 DEF Ended
    <3>3. HasEnded(t, Meanings(r)[k])
      BY <3>1, <3>2
    <3>4. Meanings(q)[k] = Meanings(r)[k]
      <4>1. Meanings(r)[k].over # "waits"
        BY <3>3 DEF HasEnded
      <4>2. r \in 0..Len(Bytes) /\ r <= q
        BY <1>2
      <4> QED BY <1>1, <4>1, <4>2, MeaningsStay
    <3>5. HasEnded(t, Meanings(q)[k])
      BY <3>3, <3>4
    <3> QED BY <3>5 DEF IsSettled
  <2> QED BY <1>11, <2>1, <2>2
<1> HIDE DEF t
<1>13. Fed(d, events, data) = s
  BY <1>5
<1> HIDE DEF s, data
<1> QED BY <1>12, <1>13 DEF data, t

\* The decoder has read what was fed: the inductive invariant.
FrameInv ==
  /\ stream \in Streams /\ fed \in 0..Len(Bytes)
  /\ IsSettled([d |-> decoder, events |-> told], fed)

\* Nothing fed: a fresh decoder waits for the first frame.
LEMMA FreshIsSettled ==
  ASSUME stream \in Streams
  PROVE  IsSettled([d |-> FreshDecoder, events |-> <<>>], 0)
<1> DEFINE n == Len(stream)
           s == [d |-> FreshDecoder, events |-> <<>>]
<1>1. n \in Nat
  BY StreamsAreFrames
<1>2. PICK at : Places(at)
  BY FramesHavePlaces
<1>3. Bytes \in Seq(Byte) /\ 0 \in 0..Len(Bytes)
  BY FramesHavePlaces, LenProperties
<1>4. Meanings(0)[0] = NothingRead
  BY <1>1, MeaningsFollow
<1>5. s = Reads(NothingRead, 0)
  <2>1. SubSeq(Bytes, 0 + 1, 0) = <<>>
    <3>1. SubSeq(Bytes, 0 + 1, 0) \in Seq(Byte) /\ Len(SubSeq(Bytes, 0 + 1, 0)) = 0 - 0
      BY <1>3, PieceOfBytes, LenProperties
    <3> QED BY <3>1, EmptySeq
  <2>2. FreshDecoder = Holding(<<>>, <<>>)
    BY DEF FreshDecoder, Holding
  <2>3. NothingRead.at = 0 /\ NothingRead.part = <<>> /\ NothingRead.events = <<>>
    BY DEF NothingRead
  <2> QED BY <2>1, <2>2, <2>3 DEF Reads
<1>6. HasRead(s, 0, 0)
  BY <1>4, <1>5 DEF HasRead, NothingRead
<1>7. CASE n = 0
  BY <1>6, <1>7 DEF IsSettled, Waits
<1>8. CASE n # 0
  <2>1. 0 \in 0..(n - 1) /\ 0 \in 0..n /\ 0 + 1 = 1
    BY <1>1, <1>8
  <2>2. NextIsRead(at, 0, 0)
    <3>1. IsInPlace(at, 0, 0)
      BY <1>2, <1>3, <2>1, MeaningsAreInPlace
    <3>2. Meanings(0)[0].over = "no"
      BY <1>4 DEF NothingRead
    <3> QED BY <1>2, <1>3, <2>1, <3>1, <3>2, FrameIsRead
  <2>3. Reads(Meanings(0)[0], 0).d.buffer = <<>>
    <3>1. s.d.buffer = <<>>
      BY DEF FreshDecoder
    <3> HIDE DEF s
    <3> QED BY <1>4, <1>5, <3>1
  <2>4. Len(<<>>) < 2
    OBVIOUS
  <2>5. Meanings(0)[0 + 1].over = "waits"
    BY <2>2, <2>3, <2>4 DEF NextIsRead
  <2>6. Waits(s, 0, 0)
    BY <1>6, <2>5 DEF Waits
  <2> QED BY <2>1, <2>6 DEF IsSettled
<1> QED BY <1>7, <1>8

\* A connection on which nothing was fed has it.
LEMMA FrameInvHolds == FrameInit => FrameInv
<1> SUFFICES ASSUME FrameInit PROVE FrameInv
  OBVIOUS
<1>1. stream \in Streams /\ fed = 0 /\ decoder = FreshDecoder /\ told = <<>>
  BY DEF FrameInit
<1>2. 0 \in 0..Len(Bytes)
  BY <1>1, FramesHavePlaces, LenProperties
<1>3. IsSettled([d |-> decoder, events |-> told], 0)
  BY <1>1, FreshIsSettled
<1> QED BY <1>1, <1>2, <1>3 DEF FrameInv

\* What the peer sends does not change.
LEMMA SameStream ==
  ASSUME stream' = stream
  PROVE  /\ Bytes' = Bytes
         /\ \A s, here : IsSettled(s, here)' <=> IsSettled(s, here)
<1>1. Bytes' = Bytes
  BY DEF Bytes
<1>2. ASSUME NEW s, NEW here PROVE IsSettled(s, here)' <=> IsSettled(s, here)
  <2>1. Meanings(here)' = Meanings(here)
    BY DEF Meanings
  <2> QED BY <1>1, <2>1 DEF IsSettled, Waits, HasRead, Reads
<1> QED BY <1>1, <1>2

\* Feeding a piece and beginning anew keep it.
LEMMA FrameInvStays == FrameInv /\ [FrameNext]_frameVars => FrameInv'
<1> SUFFICES ASSUME FrameInv, [FrameNext]_frameVars PROVE FrameInv'
  OBVIOUS
<1>1. /\ stream \in Streams /\ fed \in 0..Len(Bytes)
      /\ IsSettled([d |-> decoder, events |-> told], fed)
  BY DEF FrameInv
<1>2. Len(Bytes) \in Nat
  BY <1>1, FramesHavePlaces, LenProperties
<1>3. stream' = stream
  BY DEF FrameNext, Feed, Reset, frameVars
<1>4. Bytes' = Bytes /\ \A s, here : IsSettled(s, here)' <=> IsSettled(s, here)
  BY <1>3, SameStream
<1>5. ASSUME NEW here \in 0..Len(Bytes), fed' = here, IsSettled([d |-> decoder', events |-> told'], here)
      PROVE  FrameInv'
  <2> DEFINE s == [d |-> decoder', events |-> told']
  <2>1. stream' \in Streams /\ fed' \in 0..Len(Bytes')
    BY <1>1, <1>3, <1>4, <1>5
  <2>2. IsSettled([d |-> decoder, events |-> told], fed)'
    BY <1>4, <1>5
  <2> QED BY <2>1, <2>2 DEF FrameInv
<1>6. CASE Feed
  <2>1. PICK k \in 1..(Len(Bytes) - fed) :
          LET next == Fed(decoder, told, SubSeq(Bytes, fed + 1, fed + k))
          IN  fed' = fed + k /\ decoder' = next.d /\ told' = next.events
    BY <1>6 DEF Feed
  <2> DEFINE q == fed + k
             next == Fed(decoder, told, SubSeq(Bytes, fed + 1, q))
  <2>2. q \in 0..Len(Bytes) /\ fed <= q
    BY <1>1, <1>2
  <2>3. fed' = q /\ decoder' = next.d /\ told' = next.events
    BY <2>1
  <2> HIDE DEF q
  <2>4. IsSettled([d |-> next.d, events |-> next.events], q)
    BY <1>1, <2>2, PieceIsFed
  <2> HIDE DEF next
  <2> QED BY <1>5, <2>2, <2>3, <2>4
<1>7. CASE Reset
  <2>1. fed' = 0 /\ decoder' = FreshDecoder /\ told' = <<>>
    BY <1>7 DEF Reset
  <2>2. 0 \in 0..Len(Bytes)
    BY <1>2
  <2>3. IsSettled([d |-> decoder', events |-> told'], 0)
    BY <1>1, <2>1, FreshIsSettled
  <2> QED BY <1>5, <2>1, <2>2, <2>3
<1>8. CASE UNCHANGED frameVars
  <2>1. fed' = fed /\ decoder' = decoder /\ told' = told
    BY <1>8 DEF frameVars
  <2> QED BY <1>1, <1>5, <2>1
<1> QED BY <1>6, <1>7, <1>8 DEF FrameNext

\* What is settled is what the frames mean.
LEMMA SettledIsMeant == FrameInv => EventsIgnoreCuts
<1> SUFFICES ASSUME FrameInv PROVE EventsIgnoreCuts
  OBVIOUS
<1> DEFINE n == Len(stream)
           s == [d |-> decoder, events |-> told]
           M == Meanings(fed)
           last == M[n]
<1>1. stream \in Streams /\ fed \in 0..Len(Bytes) /\ IsSettled(s, fed)
  BY DEF FrameInv
<1>2. n \in Nat
  BY <1>1, StreamsAreFrames
<1>3. PICK at : Places(at)
  BY <1>1, FramesHavePlaces
<1>4. PICK k \in 0..n : Waits(s, fed, k) \/ HasEnded(s, M[k])
  BY <1>1 DEF IsSettled
<1> DEFINE Goal == /\ told = last.events
                   /\ decoder.failed <=> last.over = "failed"
                   /\ decoder.closed <=> last.over = "closed"
                   /\ last.over \notin {"failed", "closed"} => decoder.buffer = SubSeq(Bytes, last.at + 1, fed)
<1>5. CASE HasEnded(s, M[k])
  <2>1. last = M[k]
    <3>1. M[k].over # "no"
      BY <1>5 DEF HasEnded
    <3> QED BY <1>1, <3>1, MeaningsEnd
  <2>2. /\ told = last.events
        /\ \/ last.over = "failed" /\ decoder.failed = TRUE /\ decoder.closed = FALSE
           \/ last.over = "closed" /\ decoder.failed = FALSE /\ decoder.closed = TRUE
    BY <1>5, <2>1 DEF HasEnded
  <2> HIDE DEF last
  <2>3. Goal
    BY <2>2
  <2> QED BY <2>3 DEF EventsIgnoreCuts, last
<1>6. CASE Waits(s, fed, k)
  <2> DEFINE m == M[k]
  <2>1. m.over = "no" /\ s = Reads(m, fed)
    BY <1>6 DEF Waits, HasRead
  <2>2. /\ told = m.events /\ decoder.failed = FALSE /\ decoder.closed = FALSE
        /\ decoder.buffer = SubSeq(Bytes, m.at + 1, fed)
    <3>1. s.events = m.events /\ s.d = Holding(SubSeq(Bytes, m.at + 1, fed), m.part)
      BY <2>1 DEF Reads
    <3> QED BY <3>1 DEF Holding
  <2>3. IsMeaning(m)
    BY <1>1, <1>3, MeaningsAreInPlace DEF IsInPlace
  <2>4. last.events = m.events /\ last.at = m.at /\ last.over \in {"no", "waits"}
    <3>1. CASE k = n
      BY <2>1, <3>1
    <3>2. CASE k # n
      <4>1. k \in 0..(n - 1) /\ k + 1 \in 0..n
        BY <1>2, <3>2
      <4>2. M[k + 1].over = "waits"
        BY <1>6, <3>2 DEF Waits
      <4>3. NextIsRead(at, fed, k)
        <5>1. IsInPlace(at, fed, k)
          BY <1>1, <1>3, MeaningsAreInPlace
        <5> QED BY <1>1, <1>3, <2>1, <4>1, <5>1, FrameIsRead
      <4>4. M[k + 1] = [m EXCEPT !.over = "waits"]
        BY <4>2, <4>3 DEF NextIsRead
      <4>5. last = M[k + 1]
        BY <1>1, <4>1, <4>2, MeaningsEnd
      <4>6. m = [at |-> m.at, over |-> m.over, part |-> m.part, events |-> m.events]
        BY <2>3 DEF IsMeaning, Meaning
      <4> HIDE DEF m, last, M
      <4>7. last = [at |-> m.at, over |-> "waits", part |-> m.part, events |-> m.events]
        BY <4>4, <4>5, <4>6
      <4> QED BY <4>7
    <3> QED BY <3>1, <3>2
  <2> HIDE DEF m, last
  <2>5. Goal
    BY <2>2, <2>4
  <2> QED BY <2>5 DEF EventsIgnoreCuts, last
<1> QED BY <1>4, <1>5, <1>6

\* What is left in the buffer is less than one frame within the limits.
LEMMA SettledHasRoom == FrameInv => LeftoverHasRoom
<1> SUFFICES ASSUME FrameInv, ~decoder.failed, ~decoder.closed PROVE Len(decoder.buffer) < MaxBuffer
  BY DEF LeftoverHasRoom
<1> DEFINE s == [d |-> decoder, events |-> told]
<1>1. stream \in Streams /\ fed \in 0..Len(Bytes) /\ IsSettled(s, fed)
  BY DEF FrameInv
<1>2. PICK at : Places(at)
  BY <1>1, FramesHavePlaces
<1>3. Bytes \in Seq(Byte) /\ Len(Bytes) \in Nat
  BY <1>1, FramesHavePlaces, LenProperties
<1>4. PICK k \in 0..Len(stream) : Waits(s, fed, k)
  <2>1. PICK k \in 0..Len(stream) : Waits(s, fed, k) \/ HasEnded(s, Meanings(fed)[k])
    BY <1>1 DEF IsSettled
  <2>2. ~HasEnded(s, Meanings(fed)[k])
    BY DEF HasEnded
  <2> QED BY <2>1, <2>2
<1> DEFINE m == Meanings(fed)[k]
           n == Len(stream)
           size == Len(decoder.buffer)
<1>5. m.over = "no" /\ s = Reads(m, fed) /\ IsInPlace(at, fed, k)
  BY <1>1, <1>2, <1>4, MeaningsAreInPlace DEF Waits, HasRead
<1>6. CASE k = n
  <2> DEFINE a == m.at
  <2>1. a = at[n] /\ at[n] = Len(Bytes) /\ a <= fed
    BY <1>2, <1>5, <1>6 DEF IsInPlace, Places
  <2>2. decoder.buffer = SubSeq(Bytes, a + 1, fed)
    <3>1. s.d.buffer = SubSeq(Bytes, a + 1, fed)
      BY <1>5 DEF Reads, Holding
    <3> QED BY <3>1
  <2>3. a \in Nat /\ fed \in Nat /\ a <= fed /\ fed <= Len(Bytes) /\ fed - a = 0
    BY <1>1, <1>3, <2>1
  <2> HIDE DEF a
  <2>4. size = 0
    BY <1>3, <2>2, <2>3, PieceOfBytes
  <2> QED BY <2>4, FrameDecoderAssumption
<1>7. CASE k # n
  <2>1. n \in Nat
    BY <1>1, StreamsAreFrames
  <2>2. k \in 0..(n - 1)
    BY <1>7, <2>1
  <2>3. NextIsRead(at, fed, k) /\ Meanings(fed)[k + 1].over = "waits"
    BY <1>1, <1>2, <1>4, <1>5, <1>7, <2>2, FrameIsRead DEF Waits
  <2>4. size \in Nat /\ size < MaxPayload + 14
    <3>1. Len(s.d.buffer) \in Nat /\ Len(s.d.buffer) < MaxPayload + 14
      BY <1>5, <2>3 DEF NextIsRead
    <3> QED BY <3>1
  <2> HIDE DEF size
  <2>5. size < MaxBuffer
    BY <2>4, FrameDecoderAssumption
  <2> QED BY <2>5 DEF size
<1> QED BY <1>6, <1>7

\* The inductive invariant: the decoder has read what was fed.
THEOREM FrameInvariant == FrameSpec => []FrameInv
<1>1. FrameInit => FrameInv
  BY FrameInvHolds
<1>2. FrameInv /\ [FrameNext]_frameVars => FrameInv'
  BY FrameInvStays
<1> QED BY <1>1, <1>2, PTL DEF FrameSpec

\* No peer is refused because the buffer has no room left.
THEOREM LeftoverAlwaysHasRoom == FrameSpec => []LeftoverHasRoom
BY FrameInvariant, SettledHasRoom, PTL

\* However the bytes of a peer are cut, and whatever their declared lengths,
\* the decoder tells the events of the frames sent.
THEOREM EventsNeverDependOnCuts == FrameSpec => []EventsIgnoreCuts
BY FrameInvariant, SettledIsMeant, PTL
=============================================================================
