------------------------- MODULE NowPlayingService -------------------------
(***************************************************************************)
(* NowPlayingService with the Spotify back end: what is playing, whether   *)
(* it is in Liked Songs, and saving it.  One request is in flight at a     *)
(* time; an access token that has run out, or that the service refuses, is *)
(* renewed first, with what was to be done kept for afterwards.            *)
(*                                                                         *)
(* Durations are left out: the timers of 900 and 600 ms fire at some time, *)
(* a notice is cleared at some time, the access token runs out at some     *)
(* time.  Statuses that end a save without success are one, "NOTICE".      *)
(* Pairing appears only by its end, the new tokens.  The playerctl back    *)
(* end, the state file and the wording are left out.                       *)
(***************************************************************************)
EXTENDS Integers, FiniteSetsExt

CONSTANTS Tracks,    \* what has a track id
          Other,     \* an episode: it has a title and no track id
          None,
          Attempts,  \* confirmSpotifySavedTrack's attemptsRemaining, 4
          MaxSaves   \* bound: saves not finished before the driver asks again

ASSUME PlayerAssumption ==
  /\ Other \notin Tracks /\ None \notin Tracks \cup {Other}
  /\ Attempts \in Nat /\ MaxSaves \in Nat

VARIABLES
  p,     \* the service: its requests, its timers and what it shows
  world  \* Spotify: what is liked, whether it works and whether it takes the token

vars == <<p, world>>

Items == Tracks \cup {Other}
NoRequest == [kind |-> "none", track |-> None, retried |-> FALSE]
NoVerdict == [track |-> None, saved |-> FALSE]
Actions == {"none", "playback", "saved", "save"}
Requests == [kind : {"playback", "saved", "token", "save"}, track : Tracks \cup {None},
             retried : BOOLEAN] \cup {NoRequest}

Players ==
  [net : Requests, action : Actions, token : {"none", "aging", "fresh"}, refreshable : BOOLEAN,
   current : Tracks \cup {None}, shown : Items \cup {None},
   verdict : [track : Tracks, saved : BOOLEAN] \cup {NoVerdict},
   pending : BOOLEAN, status : {"", "WAIT", "SAVING", "CHECKING", "SAVED", "NOTICE"},
   waits : Nat, confirms : [Tracks \X (0 .. Attempts) -> Nat]]

TypeOK ==
  /\ p \in Players
  /\ world \in [liked : SUBSET Tracks, accepts : BOOLEAN, well : BOOLEAN]
  /\ p.pending <=> p.status \in {"SAVING", "CHECKING"}

-----------------------------------------------------------------------------
(* What the handlers are built from; r is retriedAfterTokenRefresh *)

Busy(s) == s.net # NoRequest
SavedKnown(s) == s.verdict # NoVerdict /\ s.verdict.track = s.current
TrackSaved(s) == SavedKnown(s) /\ s.verdict.saved
TokenUsable(s) == s.token = "fresh"

Send(s, kind, track, r) ==
  [s EXCEPT !.net = [kind |-> kind, track |-> track, retried |-> r]]

AuthRequired(s) == [s EXCEPT !.shown = None]
SaveState(s, pending, status) == [s EXCEPT !.pending = pending, !.status = status]

RefreshAccessToken(s) ==
  IF Busy(s) THEN s
  ELSE IF s.refreshable THEN Send(s, "token", None, FALSE)
  ELSE AuthRequired(s)

\* The action goes on when the new token has come.
AfterToken(s, action) ==
  IF s.refreshable THEN RefreshAccessToken([s EXCEPT !.action = action]) ELSE AuthRequired(s)

RefreshPlayback(s, r) ==
  IF Busy(s) THEN s
  ELSE IF ~TokenUsable(s) THEN AfterToken(s, "playback")
  ELSE Send(s, "playback", None, r)

RefreshSavedState(s, r) ==
  IF Busy(s) THEN s
  ELSE IF s.current = None THEN [s EXCEPT !.verdict = NoVerdict]
  ELSE IF ~TokenUsable(s) THEN AfterToken(s, "saved")
  ELSE Send(s, "saved", s.current, r)

\* runSpotifyAction(SaveCurrentTrack)
SaveTrack(s, r) ==
  IF Busy(s) THEN [SaveState(s, FALSE, "WAIT") EXCEPT !.waits = @ + 1]
  ELSE IF ~TokenUsable(s) THEN AfterToken(s, "save")
  ELSE IF s.current = None THEN SaveState(s, FALSE, "NOTICE")
  ELSE Send(SaveState(s, TRUE, "SAVING"), "save", s.current, r)

SaveCurrentTrack(s) ==
  IF TrackSaved(s) THEN SaveState(s, FALSE, "SAVED")
  ELSE IF s.current = None THEN SaveState(s, FALSE, "NOTICE")
  ELSE SaveTrack(s, FALSE)

RunAction(s, action, r) ==
  CASE action \in {"none", "playback"} -> RefreshPlayback(s, r)
    [] action = "saved" -> RefreshSavedState(s, r)
    [] action = "save" -> SaveTrack(s, r)

ConfirmSavedTrack(s, t, left) ==
  IF t # s.current THEN s
  ELSE IF ~Busy(s) THEN RefreshSavedState(s, FALSE)
  ELSE IF left > 0 THEN [s EXCEPT !.confirms[<<t, left - 1>>] = @ + 1]
  ELSE SaveState(s, FALSE, "NOTICE")

-----------------------------------------------------------------------------
(* The replies: s after the request q, answered by a *)

\* Mutant: a second refusal asks for yet another token.
Denied_again(s, q) == AfterToken(s, q.kind)

Denied(s, q) ==
  IF ~q.retried THEN AfterToken(s, q.kind) ELSE AuthRequired(s)

\* Mutant: the notice about the last track stays on the screen.
ShowItem_keepsNotice(s, item) ==
  LET track == IF item \in Tracks THEN item ELSE None
      changed == track # s.current
      m == [s EXCEPT !.current = track, !.verdict = IF changed THEN NoVerdict ELSE @, !.shown = item]
  IN IF track # None /\ (changed \/ ~SavedKnown(m)) THEN RefreshSavedState(m, FALSE) ELSE m

\* Mutant: Liked Songs are asked about a new track only, not about one that is still unknown.
ShowItem_newOnly(s, item) ==
  LET track == IF item \in Tracks THEN item ELSE None
      m == [s EXCEPT !.current = track, !.verdict = NoVerdict,
                     !.status = IF s.pending THEN @ ELSE "", !.shown = item]
  IN IF track = s.current THEN [s EXCEPT !.shown = item]
     ELSE IF track # None THEN RefreshSavedState(m, FALSE) ELSE m

\* item, None when nothing plays, is what a good answer to a playback request names.
ShowItem(s, item) ==
  LET track == IF item \in Tracks THEN item ELSE None
      changed == track # s.current
      m == IF changed THEN [s EXCEPT !.current = track, !.verdict = NoVerdict,
                                     !.status = IF s.pending THEN @ ELSE ""]
           ELSE s
      n == [m EXCEPT !.shown = item]
  IN IF track # None /\ (changed \/ ~SavedKnown(n)) THEN RefreshSavedState(n, FALSE) ELSE n

NothingPlays(s) ==
  [s EXCEPT !.current = None, !.verdict = IF s.current # None THEN NoVerdict ELSE @, !.shown = None]

PlaybackReply(s, q, a) ==
  CASE a = "denied" -> Denied(s, q)
    [] a = None -> NothingPlays(s)
    [] a \in Items -> ShowItem(s, a)
    [] OTHER -> [s EXCEPT !.shown = None]

\* Mutant: the new token keeps the time at which the old one runs out.
TokenReply_keepsExpiry(s, a) ==
  LET done == [s EXCEPT !.action = "none"]
  IN IF a = "ok" THEN RunAction(done, s.action, TRUE) ELSE AuthRequired(done)

\* A new refresh token that cannot be stored ends the login, with the new tokens kept in memory.
TokenReply(s, a) ==
  LET done == [s EXCEPT !.action = "none"]
  IN CASE a = "failed" -> AuthRequired(done)
       [] a = "unstored" -> AuthRequired([done EXCEPT !.token = "fresh"])
       [] a = "ok" -> RunAction([done EXCEPT !.token = "fresh"], s.action, TRUE)

SaveReply(s, q, a) ==
  CASE a = "denied" -> Denied(s, q)
    [] a = "ok" ->
         SaveState([s EXCEPT !.verdict = NoVerdict, !.confirms[<<s.current, Attempts>>] = @ + 1],
                   TRUE, "CHECKING")
    [] OTHER -> SaveState(s, FALSE, "NOTICE")

Judge(s, t, saved) ==
  LET m == [s EXCEPT !.verdict = [track |-> t, saved |-> saved]]
  IN IF s.status \in {"CHECKING", "SAVING"}
     THEN SaveState(m, FALSE, IF saved THEN "SAVED" ELSE "NOTICE") ELSE m

SavedStateReply(s, q, a) ==
  IF q.track # s.current THEN s
  ELSE CASE a = "denied" -> Denied(s, q)
         [] a = "refused" -> SaveState([s EXCEPT !.verdict = NoVerdict], FALSE, "NOTICE")
         [] a = "failed" -> [s EXCEPT !.verdict = NoVerdict]
         [] a \in {"yes", "no"} -> Judge(s, q.track, a = "yes")

Handle(s, q, a) ==
  CASE q.kind = "playback" -> PlaybackReply(s, q, a)
    [] q.kind = "saved" -> SavedStateReply(s, q, a)
    [] q.kind = "token" -> TokenReply(s, a)
    [] q.kind = "save" -> SaveReply(s, q, a)

\* The finished signal: the request is over before its handler runs.
Finished(a) == p' = Handle([p EXCEPT !.net = NoRequest], p.net, a)

-----------------------------------------------------------------------------
(* The service *)

Init ==
  /\ \E token \in {"none", "fresh"}, refreshable \in BOOLEAN :
       p = [net |-> NoRequest, action |-> "none", token |-> token, refreshable |-> refreshable,
            current |-> None, shown |-> None, verdict |-> NoVerdict, pending |-> FALSE,
            status |-> "", waits |-> 0, confirms |-> [c \in Tracks \X (0 .. Attempts) |-> 0]]
  /\ world \in [liked : SUBSET Tracks, accepts : BOOLEAN, well : BOOLEAN]

\* m_refreshTimer, and the media keys
Refresh ==
  /\ p' = RefreshPlayback(p, FALSE)
  /\ UNCHANGED world

Unfinished == p.waits + (IF p.net.kind = "save" \/ p.action = "save" THEN 1 ELSE 0)
                + MapThenSumSet(LAMBDA c : p.confirms[c], DOMAIN p.confirms)

\* The save button, enabled as in WeatherCorners.qml
Press ==
  /\ p.shown # None /\ p.current # None /\ ~p.pending /\ ~TrackSaved(p)
  /\ Unfinished < MaxSaves
  /\ p' = SaveCurrentTrack(p)
  /\ UNCHANGED world

\* The save that had to wait takes what is current now.
WaitEnds ==
  /\ p.waits > 0
  /\ p' = SaveCurrentTrack([p EXCEPT !.waits = @ - 1])
  /\ UNCHANGED world

ConfirmTimer ==
  /\ \E c \in DOMAIN p.confirms :
       /\ p.confirms[c] > 0
       /\ p' = ConfirmSavedTrack([p EXCEPT !.confirms[c] = @ - 1], c[1], c[2])
  /\ UNCHANGED world

NoticeCleared ==
  /\ ~p.pending /\ p.status # ""
  /\ p' = SaveState(p, FALSE, "")
  /\ UNCHANGED world

\* Less than a minute is left.  A token that cannot be renewed is used until it is refused.
TokenAges ==
  /\ p.token = "fresh" /\ p.refreshable
  /\ p' = [p EXCEPT !.token = "aging"]
  /\ UNCHANGED world

\* The end of a pairing: new tokens, stored or not.
PairingReady ==
  /\ \E stored \in BOOLEAN :
       LET m == [p EXCEPT !.token = "fresh", !.refreshable = TRUE]
       IN p' = IF stored THEN RefreshPlayback(m, FALSE) ELSE m
  /\ world' = [world EXCEPT !.accepts = TRUE]

-----------------------------------------------------------------------------
(* Spotify.  A request is taken when its answer comes: what changes after it was taken might *)
(* as well change after the answer, since the service sees Spotify through answers only.     *)

\* What plays at the moment, None when nothing does.
PlaybackAnswered ==
  /\ p.net.kind = "playback" /\ world.accepts
  /\ \E i \in Items \cup {None} : Finished(i)
  /\ UNCHANGED world

SavedAnswered ==
  /\ p.net.kind = "saved" /\ world.accepts
  /\ Finished(IF p.net.track \in world.liked THEN "yes" ELSE "no")
  /\ UNCHANGED world

SaveDone ==
  /\ p.net.kind = "save" /\ world.accepts
  /\ Finished("ok")
  /\ world' = [world EXCEPT !.liked = @ \cup {p.net.track}]

TokenGiven ==
  /\ p.net.kind = "token"
  /\ Finished("ok")
  /\ world' = [world EXCEPT !.accepts = TRUE]

AnsweredDenied ==
  /\ Busy(p) /\ p.net.kind # "token" /\ ~world.accepts
  /\ Finished("denied")
  /\ UNCHANGED world

\* A refusal, or an error before or after the thing was done; a save may also be taken and
\* not be done.
AnsweredBadly ==
  /\ Busy(p) /\ ~world.well
  /\ \/ /\ p.net.kind = "token"
        /\ Finished("unstored")
        /\ world' = [world EXCEPT !.accepts = TRUE]
     \/ /\ p.net.kind = "saved"
        /\ Finished("refused")
        /\ UNCHANGED world
     \/ /\ p.net.kind = "save" /\ world.accepts
        /\ \/ Finished("ok") /\ UNCHANGED world
           \/ Finished("failed") /\ world' = [world EXCEPT !.liked = @ \cup {p.net.track}]
     \/ /\ Finished("failed")
        /\ UNCHANGED world

Answered ==
  \/ PlaybackAnswered \/ SavedAnswered \/ SaveDone \/ TokenGiven
  \/ AnsweredDenied \/ AnsweredBadly

\* A song liked on the phone, a token withdrawn, a failure that begins or ends.
SpotifyChanges ==
  /\ \/ \E t \in Tracks : world' = [world EXCEPT !.liked = @ \cup {t}]
     \/ /\ ~world.well
        /\ world' = [world EXCEPT !.accepts = FALSE]
     \/ \E w \in BOOLEAN : world' = [world EXCEPT !.well = w]
  /\ UNCHANGED p

Next ==
  \/ Refresh \/ Press \/ WaitEnds \/ ConfirmTimer \/ NoticeCleared
  \/ TokenAges \/ PairingReady
  \/ Answered \/ SpotifyChanges

\* Requests are answered or fail; the event loop runs the timers.
Fairness ==
  /\ SF_vars(Refresh) /\ WF_vars(ConfirmTimer)
  /\ WF_vars(Answered)

Spec == Init /\ [][Next]_vars
FairSpec == Spec /\ Fairness

-----------------------------------------------------------------------------
(* Properties *)

\* The heart is shown only for a track that is in Liked Songs, and "Added to Liked Songs" is
\* never left on the screen for a track that is not, whatever was asked, lost or refused
\* between the save, the check and the next track (songs are not removed meanwhile).
HeartIsTrue ==
  /\ TrackSaved(p) => p.current \in world.liked
  /\ p.status = "SAVED" => p.current \in world.liked \cup {None}

\* What waits for a new token waits for one that has been asked for.
PendingActionIsCarried == p.action # "none" => p.net.kind = "token"

\* One thing leads to another - a token, the action it was for, a check - but never without end:
\* even a service that takes no token is left in peace until the next timer or press.
EveryChainEnds == []<>~Busy(p)

Served == world.well /\ p.refreshable

\* A save that the display is checking comes to an end once Spotify works, if the track goes on.
ChecksEnd == \A t \in Tracks : <>[](Served /\ p.current = t) => []<>(p.status # "CHECKING")

\* Whatever happened before - a refused token, a lost login, saves that wait - once Spotify works
\* the display is told again and again what plays.
PlaybackIsFollowed == <>[]Served => []<><<PlaybackAnswered>>_vars

=============================================================================
