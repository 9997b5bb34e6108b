------------------------- MODULE VehicleStateClient -------------------------
(***************************************************************************)
(* The cluster's live link to the vehicle hub: the QTcpSocket, the         *)
(* WebSocket upgrade, the connect timeout, the reconnect back-off, the     *)
(* staleness watchdog and the application of vehicle_state frames, and the *)
(* replay mode that feeds a file instead.                                  *)
(*                                                                         *)
(* Qt runs one handler at a time.  A readyRead may carry several decoded   *)
(* WebSocket events: `inbox` holds those the running handler has still to  *)
(* process, and every other handler waits until it is empty (Idle).        *)
(*                                                                         *)
(* Time: one Tick is WATCHDOG_TICK_MS.  A frame that arrived between two   *)
(* ticks and is n ticks old has an age in ((n-1)*tick, n*tick] ms when the *)
(* watchdog runs, so "age > STALE_TIMEOUT_MS" is "n > StaleTicks".         *)
(***************************************************************************)
EXTENDS VehicleStateSource, Sequences

CONSTANTS StaleTicks,       \* STALE_TIMEOUT_MS / WATCHDOG_TICK_MS
          InitialBackoffMs, \* INITIAL_BACKOFF_MS
          MaxBackoffMs,     \* MAX_BACKOFF_MS
          Frames,           \* the vehicle_state frames a hub may send
          Batches,          \* what one readyRead may decode to
          ReplayFrames      \* m_replayFrames; <<>> without a replay file

FrameType ==
  [good : BOOLEAN,              \* VehicleStateFrame::isGood
   stale : BOOLEAN,             \* _health.stale, TRUE when absent
   warn : SUBSET Warnings,      \* absent telltales read as off
   pose : BOOLEAN,              \* latitude and longitude both in range
   fix : {"yes", "no", "absent"}]

Fresh(f) == f.good /\ ~f.stale

\* "noise" is a ping, a non-JSON text or another message type; "bad" is the
\* decoder's protocol error, which ends the batch.
Signals == {"noise", "close", "bad"}
Events == [kind : {"frame"}, frame : Frames] \cup [kind : Signals]

ASSUME ClientAssumption ==
  /\ StaleTicks \in Nat \ {0}
  /\ InitialBackoffMs \in Nat \ {0}
  /\ MaxBackoffMs \in Nat /\ InitialBackoffMs <= MaxBackoffMs
  /\ Frames \subseteq FrameType
  /\ Batches \subseteq Seq(Events)
  /\ ReplayFrames \in Seq(FrameType)

VARIABLES conn,        \* socket, timers and back-off
          rx,          \* [hasGood, age]: m_hasGoodFrame, ticks since m_lastGoodRxMs
          inbox,       \* events the running readyRead handler has still to apply
          watchdogDue, \* the watchdog's timeout is pending
          replay,      \* [mode, index, timer, loop]
          hub,         \* external: "serving", "degraded" or "down"
          dead,        \* external: the peer of this connection is gone without a FIN
          hist         \* history: see Heard below

vars == <<source, conn, rx, inbox, watchdogDue, replay, hub, dead, hist>>

SocketStates == {"unconnected", "hostLookup", "connecting", "connected", "closing"}
Backoffs == InitialBackoffMs .. MaxBackoffMs
Ages == 0 .. (StaleTicks + 2)

ConnState ==
  [sock : SocketStates, handshakeComplete : BOOLEAN, connectTimeout : BOOLEAN,
   reconnect : BOOLEAN, backoffMs : Backoffs]

TypeOK ==
  /\ source \in SourceState
  /\ conn \in ConnState
  /\ rx \in [hasGood : BOOLEAN, age : Ages]
  /\ inbox \in Seq(Events)
  /\ watchdogDue \in BOOLEAN
  /\ replay \in [mode : BOOLEAN, index : Nat, timer : BOOLEAN, loop : BOOLEAN]
  /\ hub \in {"serving", "degraded", "down"}
  /\ dead \in BOOLEAN
  /\ hist \in [trusted : SUBSET Warnings, heard : BOOLEAN, silence : Ages]

Idle == inbox = <<>>
Older(n) == IF n < StaleTicks + 2 THEN n + 1 ELSE n

-----------------------------------------------------------------------------
(* Steps the handlers share *)

\* scheduleReconnect: one timer at a time, the delay doubles up to the cap.
ScheduleReconnect(c) ==
  IF c.reconnect THEN c
  ELSE [c EXCEPT !.reconnect = TRUE,
                 !.backoffMs = IF 2 * c.backoffMs < MaxBackoffMs
                               THEN 2 * c.backoffMs ELSE MaxBackoffMs]

\* Mutant: a drop after the upgrade is not followed by a reconnect.
Dropped_noRetry(c) ==
  LET down == [c EXCEPT !.sock = "unconnected", !.handshakeComplete = FALSE,
                        !.connectTimeout = FALSE]
  IN IF c.handshakeComplete THEN down ELSE ScheduleReconnect(down)

\* The socket is back in UnconnectedState.
Dropped(c) == ScheduleReconnect([c EXCEPT !.sock = "unconnected",
                                          !.handshakeComplete = FALSE,
                                          !.connectTimeout = FALSE])

\* handleLinkDown's calls of the source's setters.
LinkDownSource(s) ==
  SetGps(SetBbbStale(SetLinkStale(SetConnected(s, FALSE), TRUE), TRUE), FALSE, FALSE)

\* Mutant: the last good frame is not forgotten.
HandleLinkDown_keepsFrame ==
  /\ conn' = Dropped(conn)
  /\ source' = LinkDownSource(source)
  /\ UNCHANGED rx
  /\ inbox' = <<>>

\* onDisconnected, failConnection and the error slot all come to this: stop
\* the connect timeout, handleLinkDown, scheduleReconnect.  abort() emits
\* disconnected first when the socket was connected; the second pass of
\* failConnection then finds everything already reset and the timer active.
HandleLinkDown ==
  /\ conn' = Dropped(conn)
  /\ source' = LinkDownSource(source)
  /\ rx' = [hasGood |-> FALSE, age |-> 0]    \* the age is read only with hasGood
  /\ inbox' = <<>>

ApplyFrame(s, f) ==
  LET applied == SetBbbStale(SetWarnings(SetVehicleStateSeen(s, TRUE), f.warn), f.stale)
  IN SetGps(applied, f.pose, IF f.fix = "absent" THEN s.gpsFix ELSE f.fix = "yes")

\* A good frame restarts the clock; replayed frames always count as good.
Received(r, f) ==
  IF replay.mode \/ f.good THEN [hasGood |-> TRUE, age |-> 0] ELSE r

\* History: what the hub has vouched for, kept apart from the code's state.
\* trusted is the telltales of the last frame not marked stale, heard says a
\* good frame came since the connection was opened, silence is the ticks
\* since the last good frame on any connection.
Heard(h, f) ==
  [trusted |-> IF f.stale THEN h.trusted ELSE f.warn,
   heard   |-> h.heard \/ replay.mode \/ f.good,
   silence |-> IF replay.mode \/ f.good THEN 0 ELSE h.silence]

OnTextMessageReceived(f) ==
  /\ source' = ApplyFrame(source, f)
  /\ rx' = Received(rx, f)
  /\ hist' = Heard(hist, f)

-----------------------------------------------------------------------------
(* Connecting *)

\* The part of connectNow after its guards; a literal address skips the lookup.
StartAttempt(c, state) ==
  [c EXCEPT !.sock = state, !.handshakeComplete = FALSE, !.connectTimeout = TRUE]

Init ==
  /\ rx = [hasGood |-> FALSE, age |-> 0]
  /\ inbox = <<>>
  /\ watchdogDue = FALSE
  /\ hub \in {"serving", "degraded", "down"}
  /\ dead = FALSE
  /\ hist = [trusted |-> {}, heard |-> FALSE, silence |-> 0]
  /\ LET idle == [sock |-> "unconnected", handshakeComplete |-> FALSE,
                  connectTimeout |-> FALSE, reconnect |-> FALSE,
                  backoffMs |-> InitialBackoffMs]
     IN \/ /\ replay = [mode |-> FALSE, index |-> 0, timer |-> FALSE, loop |-> TRUE]
           /\ source = InitialSource
           /\ \E s \in {"hostLookup", "connecting"} : conn = StartAttempt(idle, s)
        \/ /\ ReplayFrames # <<>>
           /\ \E l \in BOOLEAN :
                replay = [mode |-> TRUE, index |-> 0, timer |-> TRUE, loop |-> l]
           /\ source = SetConnected(InitialSource, TRUE)
           /\ conn = idle

\* The reconnect timer fires: connectNow.
ConnectNow ==
  /\ Idle /\ conn.reconnect
  /\ UNCHANGED <<source, rx, inbox, watchdogDue, replay, hub>>
  /\ LET fired == [conn EXCEPT !.reconnect = FALSE]
     IN IF conn.sock \in {"connected", "connecting"}
        THEN conn' = fired /\ UNCHANGED <<dead, hist>>
        ELSE /\ \E s \in {"hostLookup", "connecting"} : conn' = StartAttempt(fired, s)
             /\ dead' = FALSE
             /\ hist' = [hist EXCEPT !.heard = FALSE]

HostFound ==
  /\ Idle /\ conn.sock = "hostLookup"
  /\ conn' = [conn EXCEPT !.sock = "connecting"]
  /\ UNCHANGED <<source, rx, inbox, watchdogDue, replay, hub, dead, hist>>

\* TCP connect succeeds; onSocketConnected sends the upgrade request.
TcpConnected ==
  /\ Idle /\ conn.sock = "connecting" /\ hub # "down"
  /\ conn' = [conn EXCEPT !.sock = "connected"]
  /\ UNCHANGED <<source, rx, inbox, watchdogDue, replay, hub, dead, hist>>

\* Refused, unreachable or no such host: errorOccurred in UnconnectedState.
ConnectFails ==
  /\ Idle /\ conn.sock \in {"hostLookup", "connecting"} /\ hub # "serving"
  /\ HandleLinkDown
  /\ UNCHANGED <<watchdogDue, replay, hub, dead, hist>>

OnConnectTimeout ==
  /\ Idle /\ conn.connectTimeout
  /\ IF conn.handshakeComplete \/ replay.mode
     THEN /\ conn' = [conn EXCEPT !.connectTimeout = FALSE]
          /\ UNCHANGED <<source, rx, inbox>>
     ELSE HandleLinkDown
  /\ UNCHANGED <<watchdogDue, replay, hub, dead, hist>>

Handshaking == Idle /\ conn.sock = "connected" /\ ~conn.handshakeComplete /\ ~dead

Deliverable(batch) ==
  hub = "serving" => \A i \in DOMAIN batch :
    \/ batch[i].kind = "noise"
    \/ batch[i].kind = "frame" /\ Fresh(batch[i].frame)

\* processHandshake accepts the upgrade; bytes after it are WebSocket data.
HandshakeAccepted(rest) ==
  /\ Handshaking /\ hub # "down" /\ Deliverable(rest)
  /\ conn' = [conn EXCEPT !.handshakeComplete = TRUE, !.connectTimeout = FALSE,
                          !.backoffMs = InitialBackoffMs]
  /\ source' = SetConnected(source, TRUE)
  /\ inbox' = rest
  /\ UNCHANGED <<rx, watchdogDue, replay, hub, dead, hist>>

\* A bad upgrade answer only asks the socket to close; an oversized one
\* fails the connection at once.
HandshakeRejected ==
  /\ Handshaking /\ hub = "degraded"
  /\ \/ HandleLinkDown
     \/ /\ conn' = [conn EXCEPT !.sock = "closing"]
        /\ UNCHANGED <<source, rx, inbox>>
  /\ UNCHANGED <<watchdogDue, replay, hub, dead, hist>>

-----------------------------------------------------------------------------
(* Receiving *)

ReadyRead(batch) ==
  /\ Idle /\ conn.sock = "connected" /\ conn.handshakeComplete /\ ~dead
  /\ hub # "down" /\ Deliverable(batch)
  /\ inbox' = batch
  /\ UNCHANGED <<source, conn, rx, watchdogDue, replay, hub, dead, hist>>

\* One iteration of processDecodedEvents.
ProcessFrame ==
  /\ ~Idle /\ Head(inbox).kind = "frame"
  /\ OnTextMessageReceived(Head(inbox).frame)
  /\ inbox' = Tail(inbox)
  /\ UNCHANGED <<conn, watchdogDue, replay, hub, dead>>

ProcessNoise ==
  /\ ~Idle /\ Head(inbox).kind = "noise"
  /\ inbox' = Tail(inbox)
  /\ UNCHANGED <<source, conn, rx, watchdogDue, replay, hub, dead, hist>>

\* A Close is echoed and the socket asked to close, now or once it has
\* written; the decoder ignores whatever followed it.
ProcessClose ==
  /\ ~Idle /\ Head(inbox).kind = "close"
  /\ \/ HandleLinkDown
     \/ /\ conn' = [conn EXCEPT !.sock = "closing"]
        /\ inbox' = <<>>
        /\ UNCHANGED <<source, rx>>
  /\ UNCHANGED <<watchdogDue, replay, hub, dead, hist>>

\* feed() ended with a protocol error: failConnection after the loop.
ProcessBad ==
  /\ ~Idle /\ Head(inbox).kind = "bad"
  /\ HandleLinkDown
  /\ UNCHANGED <<watchdogDue, replay, hub, dead, hist>>

\* The peer closed or reset the connection, or a pending close completed.
OnDisconnected ==
  /\ Idle
  /\ \/ conn.sock = "closing"
     \/ conn.sock = "connected" /\ ~dead /\ hub # "serving"
  /\ HandleLinkDown
  /\ UNCHANGED <<watchdogDue, replay, hub, dead, hist>>

-----------------------------------------------------------------------------
(* Timers that do not touch the connection *)

Tick ==
  /\ Idle /\ ~watchdogDue
  /\ watchdogDue' = TRUE
  /\ rx' = [rx EXCEPT !.age = IF rx.hasGood THEN Older(rx.age) ELSE 0]
  /\ hist' = [hist EXCEPT !.silence = Older(hist.silence)]
  /\ UNCHANGED <<source, conn, inbox, replay, hub, dead>>

StaleNow(r) == r.age > StaleTicks

CheckStale ==
  /\ Idle /\ watchdogDue
  /\ watchdogDue' = FALSE
  /\ source' =
       IF ~rx.hasGood THEN SetGps(SetLinkStale(source, TRUE), FALSE, FALSE)
       ELSE IF StaleNow(rx)
            THEN SetGps(SetBbbStale(SetLinkStale(source, TRUE), TRUE), source.gpsPose, FALSE)
            ELSE SetLinkStale(source, FALSE)
  /\ UNCHANGED <<conn, rx, inbox, replay, hub, dead, hist>>

DeferredSync ==
  /\ Idle /\ source.syncQueued
  /\ source' = SyncLatchedWarnings(source)
  /\ UNCHANGED <<conn, rx, inbox, watchdogDue, replay, hub, dead, hist>>

\* The index wraps when it has run off the end, if the replay loops.
ReplayIndex == IF replay.index >= Len(ReplayFrames) THEN 0 ELSE replay.index

PlayNextReplayFrame ==
  /\ Idle /\ replay.mode /\ replay.timer
  /\ IF replay.index >= Len(ReplayFrames) /\ ~replay.loop
     THEN replay' = [replay EXCEPT !.timer = FALSE] /\ UNCHANGED <<source, rx, hist>>
     ELSE /\ OnTextMessageReceived(ReplayFrames[ReplayIndex + 1])
          /\ replay' = [replay EXCEPT !.index = ReplayIndex + 1]
  /\ UNCHANGED <<conn, inbox, watchdogDue, hub, dead>>

-----------------------------------------------------------------------------
(* The hub and the network: external *)

HubChanges ==
  /\ hub' \in {"serving", "degraded", "down"} \ {hub}
  /\ UNCHANGED <<source, conn, rx, inbox, watchdogDue, replay, dead, hist>>

\* The peer loses power or the cable is pulled: no FIN reaches this side.
SilentLoss ==
  /\ conn.sock = "connected" /\ hub # "serving" /\ ~dead /\ Idle
  /\ dead' = TRUE
  /\ UNCHANGED <<source, conn, rx, inbox, watchdogDue, replay, hub, hist>>

Process == ProcessFrame \/ ProcessNoise \/ ProcessClose \/ ProcessBad

Next ==
  \/ ConnectNow \/ HostFound \/ TcpConnected \/ ConnectFails \/ OnConnectTimeout
  \/ \E b \in Batches \cup {<<>>} : HandshakeAccepted(b)
  \/ HandshakeRejected
  \/ \E b \in Batches : ReadyRead(b)
  \/ Process \/ OnDisconnected
  \/ Tick \/ CheckStale \/ DeferredSync \/ PlayNextReplayFrame
  \/ HubChanges \/ SilentLoss

\* A serving hub answers, sooner or later, attempts that keep being made, and
\* its frames keep coming on a live connection.
Served ==
  /\ SF_vars(HostFound) /\ SF_vars(TcpConnected /\ hub = "serving")
  /\ SF_vars(hub = "serving" /\ \E b \in Batches \cup {<<>>} : HandshakeAccepted(b))
  /\ SF_vars(hub = "serving" /\ \E b \in Batches :
               b[1].kind = "frame" /\ ReadyRead(b))

\* Qt's event loop runs every pending handler and every expired timer; the
\* timers that compete with a stream of readyRead handlers still get their turn.
Fairness ==
  /\ WF_vars(ConnectNow) /\ WF_vars(OnConnectTimeout) /\ WF_vars(Process)
  /\ WF_vars(conn.sock = "closing" /\ OnDisconnected)
  /\ SF_vars(Tick) /\ SF_vars(CheckStale) /\ SF_vars(DeferredSync)
  /\ WF_vars(PlayNextReplayFrame)
  /\ Served

Spec == Init /\ [][Next]_vars /\ Fairness

-----------------------------------------------------------------------------
(***************************************************************************)
(* handleLinkDown's promise: "a fast reconnect cannot present old data as  *)
(* fresh".  Whenever linkStale is clear, a good frame has arrived on the   *)
(* connection that is open now, not on an earlier one.                     *)
(***************************************************************************)
NoOldDataAsFresh == ~source.linkStale => hist.heard

(***************************************************************************)
(* The display never trusts data older than STALE_TIMEOUT_MS plus the one  *)
(* tick the watchdog may be behind; partial frames do not extend that.     *)
(***************************************************************************)
TrustIsRecent == ~source.linkLost => hist.silence <= StaleTicks + 1

(***************************************************************************)
(* No data is presented as fresh that an earlier connection brought, nor   *)
(* any that is older than the stale timeout (handleLinkDown, checkStale).  *)
(***************************************************************************)
DataIsFresh == NoOldDataAsFresh /\ TrustIsRecent

(***************************************************************************)
(* The client is never left with nothing pending that would move it on: an *)
(* unconnected socket has the reconnect timer running (and only it does),  *)
(* and until the upgrade completes the connect timeout guards the attempt. *)
(***************************************************************************)
AttemptGuarded ==
  ~replay.mode =>
    /\ conn.sock = "unconnected" <=> conn.reconnect
    /\ conn.connectTimeout <=> (conn.sock # "unconnected" /\ ~conn.handshakeComplete)
    /\ source.connected <=> conn.handshakeComplete

(***************************************************************************)
(* A GPS fix or pose on the display belongs to an open link: neither       *)
(* survives a disconnect, a timeout or a protocol error.                   *)
(***************************************************************************)
GpsNeedsLink == source.gpsFix \/ source.gpsPose => source.connected

\* The latch promises of TelltaleLatch, for the reports the hub vouches for.
Latch == INSTANCE TelltaleLatch
           WITH lost <- source.linkLost, reported <- hist.trusted, shown <- source.latched

(***************************************************************************)
(* The latched telltales come only from frames the hub vouched for, freeze *)
(* while the link is lost, and follow the reports while it is healthy.     *)
(***************************************************************************)
LatchImplemented == Latch!Spec

(***************************************************************************)
(* If the hub comes back for good and no connection dies silently, the     *)
(* link recovers: the display is trusted again and again.                  *)
(***************************************************************************)
RecoversFromNoticedLoss ==
  ~replay.mode /\ <>[](hub = "serving" /\ ~dead) => []<>(~source.linkLost)

(***************************************************************************)
(* The stronger promise of docs/DEPLOY_AARCH64.md:246 (pull the hub's LAN  *)
(* cable, plug it back: "live values return and the pill disappears").     *)
(***************************************************************************)
RecoversFromAnyLoss ==
  ~replay.mode /\ <>[](hub = "serving") => []<>(~source.linkLost)
=============================================================================
