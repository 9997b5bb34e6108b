---------------------------- MODULE SpotifyPairing ----------------------------
(***************************************************************************)
(* Pairing the cluster with a Spotify account (NowPlayingService) through  *)
(* the broker (tools/spotify_firebase), or through a server of its own.    *)
(* A pairing is a code on the screen that a phone scans.  The broker's     *)
(* handlers suspend between what they read and what they write; a reply to *)
(* the cluster may be lost; and the cluster never takes a request back     *)
(* when a pairing is cancelled or times out.                               *)
(*                                                                         *)
(* Ways to end without a login are told alike.  A restart of the cluster   *)
(* stands for switching off and for the crash in beginBrokerSpotifyPairing *)
(* as well: abort() has already cleared the reply that is deleted next.    *)
(***************************************************************************)
CONSTANTS Codes,      \* pair codes; one may be drawn again when nobody knows it any more
          NoCode

ASSUME PairingAssumption == NoCode \notin Codes

VARIABLES
  pairing,     \* the cluster: what it shows, its timers and server, its request
  guest,       \* phones are connected to its own server and have not spoken
  sessions,    \* the broker's: pending, ready, failed, denied, or none
  asked,       \* polls on their way to the broker
  claims,      \* ready sessions it has read for the cluster, to be deleted before it answers
  callbacks,   \* sessions it has read for a phone back from Spotify
  viaBroker    \* spotifyBrokerConfigured()

pairVars == <<pairing, guest, sessions, asked, claims, callbacks, viaBroker>>
brokerVars == <<sessions, asked, claims, callbacks>>

NoReply == [kind |-> "none", code |-> NoCode, answer |-> NoCode]
Idle == [active |-> FALSE, told |-> "idle", code |-> NoCode, poll |-> FALSE, server |-> FALSE,
         timeout |-> FALSE, secret |-> NoCode, request |-> NoReply]

-----------------------------------------------------------------------------
(* What the handlers are built from.                                       *)
StopServer(s) == [s EXCEPT !.timeout = FALSE, !.poll = FALSE, !.server = FALSE]
SetState(s, active, told, code) == [s EXCEPT !.active = active, !.told = told, !.code = code]
Ended(s) == SetState(StopServer(s), FALSE, "ended", NoCode)

\* New tokens are kept; the login lasts if they can be stored.
Login(s, stored) == SetState(StopServer(s), FALSE, IF stored THEN "paired" ELSE "ended", NoCode)

CreateReply(s, a) ==
  IF a \in Codes THEN [SetState(s, TRUE, "scan", a) EXCEPT !.poll = TRUE] ELSE Ended(s)

\* Mutant: the answer shows the code that was asked about.
PollReply_asked(s, q, a, stored) ==
  CASE a = "pending" -> SetState(s, TRUE, "waiting", q.code)
    [] a \in {"denied", "failed", "none"} -> Ended(s)
    [] a = "ready" -> Login(s, stored)
    [] OTHER -> s
\* Mutant: a session that is gone counts as an answer that got lost.
PollReply_missesGone(s, q, a, stored) ==
  CASE a = "pending" -> SetState(s, TRUE, "waiting", s.code)
    [] a \in {"denied", "failed"} -> Ended(s)
    [] a = "ready" -> Login(s, stored)
    [] OTHER -> s
PollReply(s, q, a, stored) ==
  CASE a = "pending" -> SetState(s, TRUE, "waiting", s.code)
    [] a \in {"denied", "failed", "none"} -> Ended(s)
    [] a = "ready" -> Login(s, stored)
    [] OTHER -> s

\* The finished signal: the request is over before its handler runs.
ReplyFinished(a) ==
  LET q == pairing.request
      s == [pairing EXCEPT !.request = NoReply]
  IN  \E stored \in BOOLEAN :
        pairing' = CASE q.kind = "create" -> CreateReply(s, a)
                     [] q.kind = "poll" -> PollReply(s, q, a, stored)
                     [] q.kind = "exchange" -> IF a = "ok" THEN Login(s, stored) ELSE Ended(s)

-----------------------------------------------------------------------------
(* The cluster.                                                            *)
PairingInit ==
  /\ pairing = Idle /\ guest = FALSE
  /\ sessions = [c \in Codes |-> "none"] /\ asked = {} /\ claims = {} /\ callbacks = {}
  /\ viaBroker \in BOOLEAN

\* Nobody has it any more.
Drawn(c) ==
  sessions[c] = "none" /\ c \notin asked \cup claims \cup callbacks \cup {pairing.code, pairing.secret}

\* START on the screen, and the attempt of a login that is missing or refused.  The
\* request of an earlier pairing is aborted, and what its handler does is undone here.
BeginBroker ==
  /\ viaBroker /\ ~pairing.active
  /\ pairing' = [SetState(StopServer(pairing), TRUE, "starting", NoCode)
                   EXCEPT !.timeout = TRUE, !.request = [NoReply EXCEPT !.kind = "create"]]
  /\ UNCHANGED <<guest, brokerVars, viaBroker>>

\* An exchange of an earlier pairing stays under way; the port may be in use.
BeginLocal ==
  /\ ~viaBroker /\ ~pairing.active
  /\ \/ pairing' = Ended(pairing)
     \/ \E c \in Codes :
          /\ Drawn(c)
          /\ pairing' = [SetState(StopServer(pairing), TRUE, "scan", c)
                           EXCEPT !.timeout = TRUE, !.server = TRUE, !.secret = c]
  /\ UNCHANGED <<guest, brokerVars, viaBroker>>

Cancel ==
  /\ pairing.active
  /\ pairing' = Ended(pairing)
  /\ UNCHANGED <<guest, brokerVars, viaBroker>>

TimeOut ==
  /\ pairing.timeout
  /\ pairing' = Ended(pairing)
  /\ UNCHANGED <<guest, brokerVars, viaBroker>>

Poll ==
  /\ pairing.poll /\ pairing.request = NoReply /\ pairing.active /\ pairing.code # NoCode
  /\ pairing' = [pairing EXCEPT !.request = [kind |-> "poll", code |-> pairing.code, answer |-> NoCode]]
  /\ asked' = asked \cup {pairing.code}
  /\ UNCHANGED <<guest, sessions, claims, callbacks, viaBroker>>

\* Connections that were accepted outlive the server.
Connect ==
  /\ pairing.server
  /\ guest' = TRUE
  /\ UNCHANGED <<pairing, brokerVars, viaBroker>>

\* A phone is back from Spotify: for another pairing than this one, refused, or with a code
\* that is exchanged unless a request is in flight.  The link itself is only redirected.
Callback ==
  /\ guest /\ guest' \in BOOLEAN
  /\ \/ pairing' = Ended(pairing)
     \/ /\ pairing.secret # NoCode
        /\ LET s == SetState(pairing, TRUE, "saving", pairing.code)
           IN  pairing' = IF s.request # NoReply THEN s
                          ELSE [s EXCEPT !.request = [NoReply EXCEPT !.kind = "exchange"]]
  /\ UNCHANGED <<brokerVars, viaBroker>>

\* Off and on again, or a crash.
Restart ==
  /\ pairing' = Idle /\ guest' = FALSE
  /\ UNCHANGED <<brokerVars, viaBroker>>

-----------------------------------------------------------------------------
(* The network.                                                            *)
ReplyCame ==
  /\ pairing.request.answer # NoCode
  /\ pairing.request.answer = "ready" => pairing.request.code \notin claims
  /\ ReplyFinished(pairing.request.answer)
  /\ UNCHANGED <<guest, brokerVars, viaBroker>>

Exchanged ==
  /\ pairing.request.kind = "exchange" /\ pairing.request.answer = NoCode
  /\ ReplyFinished("ok")
  /\ UNCHANGED <<guest, brokerVars, viaBroker>>

\* The request or its answer is lost, the answer is of no use, or the cluster is refused
\* (401): an error will come in its place.
Lost ==
  /\ pairing.request # NoReply
  /\ \E a \in {"error", "denied"} : pairing' = [pairing EXCEPT !.request.answer = a]
  /\ UNCHANGED <<guest, brokerVars, viaBroker>>

-----------------------------------------------------------------------------
(* The broker, between its awaits.                                         *)
CreateSession ==
  /\ pairing.request.kind = "create" /\ pairing.request.answer = NoCode
  /\ \E c \in Codes :
       /\ Drawn(c)
       /\ sessions' = [sessions EXCEPT ![c] = "pending"]
       /\ pairing' = [pairing EXCEPT !.request.answer = c]
  /\ UNCHANGED <<guest, asked, claims, callbacks, viaBroker>>

\* pollSession reads; a poll whose pairing has been replaced is answered to nobody.
ReadForPoll ==
  \E c \in asked :
    /\ asked' = asked \ {c}
    /\ claims' = IF sessions[c] = "ready" THEN claims \cup {c} ELSE claims
    /\ pairing' = IF pairing.request = [kind |-> "poll", code |-> c, answer |-> NoCode]
                  THEN [pairing EXCEPT !.request.answer = sessions[c]] ELSE pairing
    /\ UNCHANGED <<guest, sessions, callbacks, viaBroker>>

DeleteClaimed ==
  \E c \in claims :
    /\ claims' = claims \ {c}
    /\ sessions' = [sessions EXCEPT ![c] = "none"]
    /\ UNCHANGED <<pairing, guest, asked, callbacks, viaBroker>>

\* handleCallback reads for a phone, once or for two that scanned, ...
ReadForPhone ==
  \E c \in Codes :
    /\ sessions[c] # "none"
    /\ callbacks' = callbacks \cup {c}
    /\ UNCHANGED <<pairing, guest, sessions, asked, claims, viaBroker>>

\* ... and writes what came of it over whatever is there by then.
WriteOutcome ==
  \E c \in callbacks, outcome \in {"ready", "denied", "failed"} :
    /\ callbacks' \in {callbacks, callbacks \ {c}}
    /\ sessions' = [sessions EXCEPT ![c] = outcome]
    /\ UNCHANGED <<pairing, guest, asked, claims, viaBroker>>

\* SESSION_TTL_SECONDS
Expire ==
  \E c \in Codes :
    /\ sessions[c] # "none"
    /\ sessions' = [sessions EXCEPT ![c] = "none"]
    /\ UNCHANGED <<pairing, guest, asked, claims, callbacks, viaBroker>>

BrokerNext == CreateSession \/ ReadForPoll \/ DeleteClaimed \/ ReadForPhone \/ WriteOutcome \/ Expire

PairingNext ==
  \/ BeginBroker \/ BeginLocal \/ Cancel \/ TimeOut \/ Poll \/ Connect \/ Callback \/ Restart
  \/ ReplyCame \/ Exchanged \/ Lost
  \/ BrokerNext

PairingSpec == PairingInit /\ [][PairingNext]_pairVars

-----------------------------------------------------------------------------
\* A code is on the screen exactly while somebody listens for its scan - the poll
\* timer, or the cluster's own server - whatever answers and phones come late, after
\* a cancel, a timeout or into the next pairing (setSpotifyPairingState, stopPairingServer).
ScanIsWatched == pairing.code # NoCode <=> IF viaBroker THEN pairing.poll ELSE pairing.server

\* Once answers are no longer lost, a code whose scan was approved or refused, or whose
\* session has gone, leaves the screen by the cluster's polls, without waiting for its timer,
\* however many phones scanned it and whatever was lost before, a claimed login included
\* (pollSession, handleBrokerPairingPollReply).
ScanIsAnswered ==
  <>[][~Lost]_pairVars =>
    []<>(viaBroker /\ pairing.code # NoCode => sessions[pairing.code] = "pending")
===============================================================================
