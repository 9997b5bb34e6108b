---------------------- MODULE NowPlayingService_proofs ----------------------
(***************************************************************************)
(* Safety of NowPlayingService for any tracks, attempts and saves, and of  *)
(* its pairing for any codes.                                              *)
(***************************************************************************)
EXTENDS NowPlayingService, SpotifyPairing, TLAPS

\* The service apart from the action that waits for a token, l being what is
\* liked: a verdict that says saved is about a liked track, and so is the
\* notice on the screen; a save and a check name a
\* track.
Sound(s, l) ==
  /\ s \in Players
  /\ s.pending <=> s.status \in {"SAVING", "CHECKING"}
  /\ s.verdict.saved => s.verdict.track \in l
  /\ s.status = "SAVED" => s.current \in l \cup {None}
  /\ s.net.kind \in {"saved", "save"} => s.net.track \in Tracks

Carried(s) == s.action # "none" => s.net.kind = "token"
Good(s, l) == Sound(s, l) /\ Carried(s)

Worlds == [liked : SUBSET Tracks, accepts : BOOLEAN, well : BOOLEAN]
PlayerInv == world \in Worlds /\ Good(p, world.liked)

-----------------------------------------------------------------------------
(* The small steps *)

\* A request is sent.
LEMMA SendSound ==
  ASSUME NEW l, NEW s, Sound(s, l), NEW kind \in {"playback", "saved", "token", "save"},
         NEW track \in Tracks \cup {None}, NEW r \in BOOLEAN, kind \in {"saved", "save"} => track \in Tracks
  PROVE  /\ Sound(Send(s, kind, track, r), l)
         /\ Send(s, kind, track, r).net.kind = kind
         /\ Send(s, kind, track, r).action = s.action
<1> DEFINE n == [kind |-> kind, track |-> track, retried |-> r]
           m == [s EXCEPT !.net = n]
<1>1. n \in Requests /\ n.kind = kind /\ n.track = track
  BY DEF Requests
<1>2. m = Send(s, kind, track, r)
  BY DEF Send
<1> HIDE DEF n
<1>3. m \in Players
  BY <1>1 DEF Sound, Players
<1>4. /\ m.net = n /\ m.action = s.action /\ m.pending = s.pending /\ m.status = s.status
      /\ m.verdict = s.verdict /\ m.current = s.current
  BY DEF Sound, Players
<1> HIDE DEF m
<1> QED BY <1>1, <1>2, <1>3, <1>4 DEF Sound

\* The save state says something else than that a save is under way.
LEMMA SettledSound ==
  ASSUME NEW l, NEW s, Sound(s, l), NEW status \in {"", "WAIT", "SAVED", "NOTICE"},
         status = "SAVED" => s.current \in l \cup {None}
  PROVE  /\ Sound(SaveState(s, FALSE, status), l)
         /\ SaveState(s, FALSE, status).net = s.net
         /\ SaveState(s, FALSE, status).action = s.action
<1> DEFINE n == [s EXCEPT !.pending = FALSE]
           m == [n EXCEPT !.status = status]
<1>1. m = SaveState(s, FALSE, status)
  BY DEF SaveState
<1>2. n \in Players /\ n.pending = FALSE /\ n.net = s.net
      /\ n.action = s.action /\ n.verdict = s.verdict /\ n.current = s.current
  BY DEF Sound, Players
<1> HIDE DEF n
<1>3. m \in Players /\ m.pending = n.pending /\ m.status = status /\ m.net = n.net
      /\ m.action = n.action /\ m.verdict = n.verdict /\ m.current = n.current
  BY <1>2 DEF Players
<1> HIDE DEF m
<1> QED BY <1>1, <1>2, <1>3 DEF Sound

\* The save state says that a save is under way.
LEMMA PendingSound ==
  ASSUME NEW l, NEW s, Sound(s, l), NEW status \in {"SAVING", "CHECKING"}
  PROVE  /\ Sound(SaveState(s, TRUE, status), l)
         /\ SaveState(s, TRUE, status).net = s.net
         /\ SaveState(s, TRUE, status).action = s.action
<1> DEFINE n == [s EXCEPT !.pending = TRUE]
           m == [n EXCEPT !.status = status]
<1>1. m = SaveState(s, TRUE, status)
  BY DEF SaveState
<1>2. n \in Players /\ n.pending = TRUE /\ n.net = s.net
      /\ n.action = s.action /\ n.verdict = s.verdict /\ n.current = s.current
  BY DEF Sound, Players
<1> HIDE DEF n
<1>3. m \in Players /\ m.pending = n.pending /\ m.status = status /\ m.net = n.net
      /\ m.action = n.action /\ m.verdict = n.verdict /\ m.current = n.current
  BY <1>2 DEF Players
<1> HIDE DEF m
<1> QED BY <1>1, <1>2, <1>3 DEF Sound

\* The login is asked for.
LEMMA AuthRequiredSound ==
  ASSUME NEW l, NEW s, Sound(s, l)
  PROVE  Sound(AuthRequired(s), l) /\ AuthRequired(s).net = s.net /\ AuthRequired(s).action = s.action
<1> DEFINE m == [s EXCEPT !.shown = None]
<1>1. m = AuthRequired(s)
  BY DEF AuthRequired
<1>2. m \in Players /\ m.pending = s.pending /\ m.status = s.status /\ m.net = s.net
      /\ m.action = s.action /\ m.verdict = s.verdict /\ m.current = s.current
  BY DEF Sound, Players
<1> HIDE DEF m
<1> QED BY <1>1, <1>2 DEF Sound

\* The verdict is forgotten.
LEMMA NoVerdictSound ==
  ASSUME NEW l, NEW s, Sound(s, l)
  PROVE  /\ Sound([s EXCEPT !.verdict = NoVerdict], l)
         /\ [s EXCEPT !.verdict = NoVerdict].net = s.net
         /\ [s EXCEPT !.verdict = NoVerdict].action = s.action
         /\ [s EXCEPT !.verdict = NoVerdict].current = s.current
<1> DEFINE m == [s EXCEPT !.verdict = NoVerdict]
<1>1. m \in Players /\ m.pending = s.pending /\ m.status = s.status /\ m.net = s.net
      /\ m.action = s.action /\ m.verdict = NoVerdict /\ m.current = s.current
  BY DEF Sound, Players
<1>2. NoVerdict.saved = FALSE
  BY DEF NoVerdict
<1> HIDE DEF m
<1>3. Sound(m, l) /\ m.net = s.net /\ m.action = s.action /\ m.current = s.current
  BY <1>1, <1>2 DEF Sound
<1> QED BY <1>3 DEF m

\* An action is put off, or taken up.
LEMMA ActionSound ==
  ASSUME NEW l, NEW s, Sound(s, l), NEW action \in Actions
  PROVE  /\ Sound([s EXCEPT !.action = action], l)
         /\ [s EXCEPT !.action = action].net = s.net
         /\ [s EXCEPT !.action = action].action = action
         /\ [s EXCEPT !.action = action].refreshable = s.refreshable
<1> DEFINE m == [s EXCEPT !.action = action]
<1>1. m \in Players /\ m.pending = s.pending /\ m.status = s.status /\ m.net = s.net
      /\ m.action = action /\ m.verdict = s.verdict /\ m.current = s.current
      /\ m.refreshable = s.refreshable
  BY DEF Sound, Players
<1> HIDE DEF m
<1>3. Sound(m, l) /\ m.net = s.net /\ m.action = action /\ m.refreshable = s.refreshable
  BY <1>1 DEF Sound
<1> QED BY <1>3 DEF m

\* The token is renewed or runs out.
LEMMA TokenSound ==
  ASSUME NEW l, NEW s, Sound(s, l), NEW token \in {"none", "aging", "fresh"}
  PROVE  /\ Sound([s EXCEPT !.token = token], l)
         /\ [s EXCEPT !.token = token].net = s.net
         /\ [s EXCEPT !.token = token].action = s.action
<1> DEFINE m == [s EXCEPT !.token = token]
<1>1. m \in Players /\ m.pending = s.pending /\ m.status = s.status /\ m.net = s.net
      /\ m.action = s.action /\ m.verdict = s.verdict /\ m.current = s.current
  BY DEF Sound, Players
<1> HIDE DEF m
<1>3. Sound(m, l) /\ m.net = s.net /\ m.action = s.action
  BY <1>1 DEF Sound
<1> QED BY <1>3 DEF m

-----------------------------------------------------------------------------
(* Requests that need a token *)

\* A token is asked for, whatever action waits for it.
LEMMA SendTokenGood ==
  ASSUME NEW l, NEW s, Sound(s, l)
  PROVE  Good(Send(s, "token", None, FALSE), l)
<1> DEFINE n == [kind |-> "token", track |-> None, retried |-> FALSE]
           m == [s EXCEPT !.net = n]
<1>1. n \in Requests /\ n.kind = "token"
  BY DEF Requests
<1>2. m = Send(s, "token", None, FALSE)
  BY DEF Send
<1> HIDE DEF n
<1>3. m \in Players
  BY <1>1 DEF Sound, Players
<1>4. /\ m.net = n /\ m.action = s.action /\ m.pending = s.pending /\ m.status = s.status
      /\ m.verdict = s.verdict /\ m.current = s.current
  BY DEF Sound, Players
<1> HIDE DEF m
<1> QED BY <1>1, <1>2, <1>3, <1>4 DEF Good, Carried, Sound

\* An action that is put off has its token asked for, or is dropped with the login.
LEMMA AfterTokenGood ==
  ASSUME NEW l, NEW s, Sound(s, l), s.action = "none", ~Busy(s),
         NEW action \in {"playback", "saved", "save"}
  PROVE  Good(AfterToken(s, action), l)
<1> DEFINE m == [s EXCEPT !.action = action]
<1>0. action \in Actions
  BY DEF Actions
<1>1. Sound(m, l) /\ m.net = s.net /\ m.action = action /\ m.refreshable = s.refreshable
  BY <1>0, ActionSound DEF m
<1>2. CASE s.refreshable
  <2>1. AfterToken(s, action) = RefreshAccessToken(m)
    BY <1>2 DEF AfterToken
  <2> HIDE DEF m
  <2>2. RefreshAccessToken(m) = Send(m, "token", None, FALSE)
    BY <1>1, <1>2 DEF RefreshAccessToken, Busy
  <2>3. Good(Send(m, "token", None, FALSE), l)
    BY <1>1, SendTokenGood
  <2> QED BY <2>1, <2>2, <2>3
<1>3. CASE ~s.refreshable
  BY <1>3, AuthRequiredSound DEF AfterToken, Good, Carried
<1> QED BY <1>2, <1>3

\* A request other than for a token is sent only when no action waits.
LEMMA SendGood ==
  ASSUME NEW l, NEW s, Sound(s, l), s.action = "none", NEW kind \in {"playback", "saved", "save"},
         NEW track \in Tracks \cup {None}, NEW r \in BOOLEAN, kind \in {"saved", "save"} => track \in Tracks
  PROVE  Good(Send(s, kind, track, r), l)
BY SendSound DEF Good, Carried

\* No request in flight: no action waits.
LEMMA IdleHasNoAction ==
  ASSUME NEW l, NEW s, Good(s, l), ~Busy(s)
  PROVE  s.action = "none"
BY DEF Good, Carried, Busy, NoRequest

\* What refreshSpotifyPlayback does.
LEMMA RefreshPlaybackGood ==
  ASSUME NEW l, NEW s, Good(s, l), NEW r \in BOOLEAN
  PROVE  Good(RefreshPlayback(s, r), l)
<1>1. CASE Busy(s)
  BY <1>1 DEF RefreshPlayback
<1>2. CASE ~Busy(s)
  <2>1. s.action = "none" /\ Sound(s, l)
    BY <1>2, IdleHasNoAction DEF Good
  <2>2. Good(AfterToken(s, "playback"), l)
    BY <1>2, <2>1, AfterTokenGood
  <2>3. Good(Send(s, "playback", None, r), l)
    BY <2>1, SendGood
  <2> QED BY <1>2, <2>2, <2>3 DEF RefreshPlayback
<1> QED BY <1>1, <1>2

\* As NoVerdictSound, with the action.
LEMMA NoVerdictGood ==
  ASSUME NEW l, NEW s, Good(s, l)
  PROVE  Good([s EXCEPT !.verdict = NoVerdict], l)
BY NoVerdictSound DEF Good, Carried

\* As SettledSound, with the action.
LEMMA SettledGood ==
  ASSUME NEW l, NEW s, Good(s, l), NEW status \in {"", "WAIT", "SAVED", "NOTICE"},
         status = "SAVED" => s.current \in l \cup {None}
  PROVE  Good(SaveState(s, FALSE, status), l)
<1>1. Sound(s, l) /\ Carried(s)
  BY DEF Good
<1>2. /\ Sound(SaveState(s, FALSE, status), l)
      /\ SaveState(s, FALSE, status).net = s.net
      /\ SaveState(s, FALSE, status).action = s.action
  BY <1>1, SettledSound
<1> QED BY <1>1, <1>2 DEF Good, Carried

\* What refreshSpotifySavedState does: the check names the current track.
LEMMA RefreshSavedStateGood ==
  ASSUME NEW l, NEW s, Good(s, l), NEW r \in BOOLEAN
  PROVE  Good(RefreshSavedState(s, r), l)
<1>1. CASE Busy(s)
  BY <1>1 DEF RefreshSavedState
<1>2. CASE ~Busy(s)
  <2>1. s.action = "none" /\ Sound(s, l)
    BY <1>2, IdleHasNoAction DEF Good
  <2>2. Good(AfterToken(s, "saved"), l)
    BY <1>2, <2>1, AfterTokenGood
  <2>3. Good([s EXCEPT !.verdict = NoVerdict], l)
    BY NoVerdictGood
  <2>4. ASSUME s.current # None
        PROVE  Good(Send(s, "saved", s.current, r), l)
    <3>1. s.current \in Tracks
      BY <2>1, <2>4 DEF Sound, Players
    <3> QED BY <2>1, <3>1, SendGood
  <2> QED BY <1>2, <2>2, <2>3, <2>4 DEF RefreshSavedState
<1> QED BY <1>1, <1>2

\* What a save does when it is asked for: it waits, waits for a token, or names the current track.
LEMMA SaveTrackGood ==
  ASSUME NEW l, NEW s, Good(s, l), NEW r \in BOOLEAN
  PROVE  Good(SaveTrack(s, r), l)
<1>1. CASE Busy(s)
  <2> DEFINE n == SaveState(s, FALSE, "WAIT")
             k == n.waits + 1
             m == [n EXCEPT !.waits = k]
  <2>1. Good(n, l)
    BY SettledGood
  <2>2. SaveTrack(s, r) = m
    BY <1>1 DEF SaveTrack
  <2> HIDE DEF n
  <2>3. n \in Players /\ k \in Nat
    <3>1. n \in Players /\ n.waits \in Nat
      BY <2>1 DEF Good, Sound, Players
    <3> QED BY <3>1
  <2> HIDE DEF k
  <2>4. m \in Players /\ m.pending = n.pending /\ m.status = n.status /\ m.net = n.net
        /\ m.action = n.action /\ m.verdict = n.verdict /\ m.current = n.current
    BY <2>3 DEF Players
  <2> HIDE DEF m
  <2> QED BY <2>1, <2>2, <2>4 DEF Good, Sound, Carried
<1>2. CASE ~Busy(s)
  <2>1. s.action = "none" /\ Sound(s, l)
    BY <1>2, IdleHasNoAction DEF Good
  <2>2. Good(AfterToken(s, "save"), l)
    BY <1>2, <2>1, AfterTokenGood
  <2>3. Good(SaveState(s, FALSE, "NOTICE"), l)
    BY SettledGood
  <2>4. ASSUME s.current # None
        PROVE  Good(Send(SaveState(s, TRUE, "SAVING"), "save", s.current, r), l)
    <3>1. /\ Sound(SaveState(s, TRUE, "SAVING"), l)
          /\ SaveState(s, TRUE, "SAVING").action = "none"
      BY <2>1, PendingSound
    <3>2. s.current \in Tracks
      BY <2>1, <2>4 DEF Sound, Players
    <3> QED BY <3>1, <3>2, SendGood
  <2> QED BY <1>2, <2>2, <2>3, <2>4 DEF SaveTrack
<1> QED BY <1>1, <1>2

\* The notice "Already in Liked Songs" speaks of the current track.
LEMMA SaveCurrentTrackGood ==
  ASSUME NEW l, NEW s, Good(s, l)
  PROVE  Good(SaveCurrentTrack(s), l)
<1>1. TrackSaved(s) => s.current \in l
  BY DEF Good, Sound, TrackSaved, SavedKnown
<1>2. TrackSaved(s) => Good(SaveState(s, FALSE, "SAVED"), l)
  BY <1>1, SettledGood
<1>3. Good(SaveState(s, FALSE, "NOTICE"), l)
  BY SettledGood
<1>4. Good(SaveTrack(s, FALSE), l)
  BY SaveTrackGood
<1> QED BY <1>2, <1>3, <1>4 DEF SaveCurrentTrack

\* What a new token sets off.
LEMMA RunActionGood ==
  ASSUME NEW l, NEW s, Good(s, l), NEW action \in Actions, NEW r \in BOOLEAN
  PROVE  Good(RunAction(s, action, r), l)
<1>1. Good(RefreshPlayback(s, r), l) /\ Good(RefreshSavedState(s, r), l) /\ Good(SaveTrack(s, r), l)
  BY RefreshPlaybackGood, RefreshSavedStateGood, SaveTrackGood
<1> QED BY <1>1 DEF RunAction, Actions

\* The confirmations under way are counted anew.
LEMMA ConfirmsGood ==
  ASSUME NEW l, NEW s, Good(s, l), NEW f \in [Tracks \X (0 .. Attempts) -> Nat]
  PROVE  Good([s EXCEPT !.confirms = f], l)
<1> DEFINE m == [s EXCEPT !.confirms = f]
<1>1. m \in Players /\ m.pending = s.pending /\ m.status = s.status /\ m.net = s.net
      /\ m.action = s.action /\ m.verdict = s.verdict /\ m.current = s.current
  BY DEF Good, Sound, Players
<1> HIDE DEF m
<1>2. Good(m, l)
  BY <1>1 DEF Good, Sound, Carried
<1> QED BY <1>2 DEF m

\* One more or one less confirmation under way.
LEMMA CountGood ==
  ASSUME NEW l, NEW s, Good(s, l), NEW c, NEW k \in Nat
  PROVE  Good([s EXCEPT !.confirms[c] = k], l)
<1> DEFINE f == [s.confirms EXCEPT ![c] = k]
<1>1. s.confirms \in [Tracks \X (0 .. Attempts) -> Nat]
  BY DEF Good, Sound, Players
<1>2. f \in [Tracks \X (0 .. Attempts) -> Nat]
  BY <1>1
<1>3. [s EXCEPT !.confirms[c] = k] = [s EXCEPT !.confirms = f]
  OBVIOUS
<1> HIDE DEF f
<1> QED BY <1>2, <1>3, ConfirmsGood

\* What the confirmation timer does.
LEMMA ConfirmSavedTrackGood ==
  ASSUME NEW l, NEW s, Good(s, l), NEW t \in Tracks, NEW left \in 0 .. Attempts
  PROVE  Good(ConfirmSavedTrack(s, t, left), l)
<1>1. Good(RefreshSavedState(s, FALSE), l)
  BY RefreshSavedStateGood
<1>2. Good(SaveState(s, FALSE, "NOTICE"), l)
  BY SettledGood
<1>3. ASSUME left > 0
      PROVE  Good([s EXCEPT !.confirms[<<t, left - 1>>] = @ + 1], l)
  <2> DEFINE c == <<t, left - 1>>
             k == s.confirms[c] + 1
  <2>1. s.confirms \in [Tracks \X (0 .. Attempts) -> Nat]
    BY DEF Good, Sound, Players
  <2>2. left - 1 \in 0 .. Attempts
    BY <1>3, PlayerAssumption
  <2>3. c \in Tracks \X (0 .. Attempts)
    BY <2>2
  <2> HIDE DEF c
  <2>4. k \in Nat
    BY <2>1, <2>3
  <2>5. [s EXCEPT !.confirms[c] = @ + 1] = [s EXCEPT !.confirms[c] = k]
    BY <2>1, <2>3
  <2> HIDE DEF k
  <2>6. Good([s EXCEPT !.confirms[c] = @ + 1], l)
    BY <2>4, <2>5, CountGood
  <2> QED BY <2>6 DEF c
<1> QED BY <1>1, <1>2, <1>3 DEF ConfirmSavedTrack

-----------------------------------------------------------------------------
(* The replies.  The request is over: no action waits, unless for the token just answered. *)

\* A refused token is renewed once.
LEMMA DeniedGood ==
  ASSUME NEW l, NEW s, Sound(s, l), s.action = "none", ~Busy(s),
         NEW q, q.kind \in {"playback", "saved", "save"}
  PROVE  Good(Denied(s, q), l)
<1>1. Good(AfterToken(s, q.kind), l)
  BY AfterTokenGood
<1>2. Good(AuthRequired(s), l)
  BY AuthRequiredSound DEF Good, Carried
<1> QED BY <1>1, <1>2 DEF Denied

\* The title on the screen changes.
LEMMA ShownGood ==
  ASSUME NEW l, NEW s, Good(s, l), NEW item \in Items \cup {None}
  PROVE  Good([s EXCEPT !.shown = item], l)
<1> DEFINE m == [s EXCEPT !.shown = item]
<1>1. m \in Players /\ m.pending = s.pending /\ m.status = s.status /\ m.net = s.net
      /\ m.action = s.action /\ m.verdict = s.verdict /\ m.current = s.current
  BY DEF Good, Sound, Players
<1> HIDE DEF m
<1>2. Good(m, l)
  BY <1>1 DEF Good, Sound, Carried
<1> QED BY <1>2 DEF m

\* A new track: what was known and said of the old one goes, a save under way stays.
LEMMA NewTrackGood ==
  ASSUME NEW l, NEW s, Good(s, l), NEW track \in Tracks \cup {None}
  PROVE  Good([s EXCEPT !.current = track, !.verdict = NoVerdict,
                        !.status = IF s.pending THEN @ ELSE ""], l)
<1> DEFINE st == IF s.pending THEN s.status ELSE ""
           m1 == [s EXCEPT !.current = track]
           m2 == [m1 EXCEPT !.verdict = NoVerdict]
           m3 == [m2 EXCEPT !.status = st]
<1>1. m1 \in Players /\ m1.pending = s.pending /\ m1.status = s.status /\ m1.net = s.net
      /\ m1.action = s.action /\ m1.current = track
  BY DEF Good, Sound, Players
<1>2. [s EXCEPT !.current = track, !.verdict = NoVerdict,
                !.status = IF s.pending THEN @ ELSE ""] = m3
  BY DEF Good, Sound, Players
<1> HIDE DEF m1
<1>3. m2 \in Players /\ m2.pending = m1.pending /\ m2.net = m1.net /\ m2.action = m1.action
      /\ m2.current = m1.current /\ m2.verdict = NoVerdict
  BY <1>1 DEF Players
<1> HIDE DEF m2
<1>4. st \in {"", "WAIT", "SAVING", "CHECKING", "SAVED", "NOTICE"} /\ st # "SAVED"
      /\ (s.pending <=> st \in {"SAVING", "CHECKING"})
  BY DEF Good, Sound, Players
<1> HIDE DEF st
<1>5. m3 \in Players /\ m3.pending = m2.pending /\ m3.net = m2.net /\ m3.action = m2.action
      /\ m3.current = m2.current /\ m3.verdict = m2.verdict /\ m3.status = st
  BY <1>3, <1>4 DEF Players
<1> HIDE DEF m3
<1>6. NoVerdict.saved = FALSE
  BY DEF NoVerdict
<1>7. Good(m3, l)
  BY <1>1, <1>3, <1>4, <1>5, <1>6 DEF Good, Sound, Carried
<1> QED BY <1>2, <1>7

\* A playback answer that names something.
LEMMA ShowItemGood ==
  ASSUME NEW l, NEW s, Good(s, l), NEW item \in Items
  PROVE  Good(ShowItem(s, item), l)
<1> DEFINE track == IF item \in Tracks THEN item ELSE None
           changed == track # s.current
           m == IF changed THEN [s EXCEPT !.current = track, !.verdict = NoVerdict,
                                          !.status = IF s.pending THEN @ ELSE ""]
                ELSE s
           n == [m EXCEPT !.shown = item]
<1>1. track \in Tracks \cup {None}
  OBVIOUS
<1>2. Good(m, l)
  BY <1>1, NewTrackGood
<1> HIDE DEF m
<1>3. Good(n, l)
  BY <1>2, ShownGood
<1> HIDE DEF n
<1>4. Good(RefreshSavedState(n, FALSE), l)
  BY <1>3, RefreshSavedStateGood
<1>5. ShowItem(s, item) = IF track # None /\ (changed \/ ~SavedKnown(n))
                          THEN RefreshSavedState(n, FALSE) ELSE n
  BY DEF ShowItem, m, n
<1> QED BY <1>3, <1>4, <1>5

\* A playback answer that says nothing plays.
LEMMA NothingPlaysGood ==
  ASSUME NEW l, NEW s, Good(s, l)
  PROVE  Good(NothingPlays(s), l)
<1> DEFINE v == IF s.current # None THEN NoVerdict ELSE s.verdict
           m1 == [s EXCEPT !.current = None]
           m2 == [m1 EXCEPT !.verdict = v]
           m3 == [m2 EXCEPT !.shown = None]
<1>1. m1 \in Players /\ m1.pending = s.pending /\ m1.status = s.status /\ m1.net = s.net
      /\ m1.action = s.action /\ m1.current = None
  BY DEF Good, Sound, Players
<1>2. NothingPlays(s) = m3
  BY DEF Good, Sound, Players, NothingPlays
<1> HIDE DEF m1
<1>3. v \in [track : Tracks, saved : BOOLEAN] \cup {NoVerdict} /\ (v.saved => v.track \in l)
  <2>1. NoVerdict.saved = FALSE
    BY DEF NoVerdict
  <2>2. s.verdict \in [track : Tracks, saved : BOOLEAN] \cup {NoVerdict}
    BY DEF Good, Sound, Players
  <2> QED BY <2>1, <2>2 DEF Good, Sound
<1> HIDE DEF v
<1>4. m2 \in Players /\ m2.pending = m1.pending /\ m2.net = m1.net /\ m2.action = m1.action
      /\ m2.current = m1.current /\ m2.verdict = v /\ m2.status = m1.status
  BY <1>1, <1>3 DEF Players
<1> HIDE DEF m2
<1>5. Good(m2, l)
  BY <1>1, <1>3, <1>4 DEF Good, Sound, Carried
<1> QED BY <1>2, <1>5, ShownGood

\* Every answer to a playback request.
LEMMA PlaybackReplyGood ==
  ASSUME NEW l, NEW s, Sound(s, l), s.action = "none", ~Busy(s),
         NEW q, q.kind = "playback", NEW a
  PROVE  Good(PlaybackReply(s, q, a), l)
<1>0. Good(s, l)
  BY DEF Good, Carried
<1>1. Good(Denied(s, q), l)
  BY DeniedGood
<1>2. Good(NothingPlays(s), l)
  BY <1>0, NothingPlaysGood
<1>3. a \in Items => Good(ShowItem(s, a), l)
  BY <1>0, ShowItemGood
<1>4. Good([s EXCEPT !.shown = None], l)
  BY <1>0, ShownGood
<1> QED BY <1>1, <1>2, <1>3, <1>4 DEF PlaybackReply

\* Every answer to a token request.
LEMMA TokenReplyGood ==
  ASSUME NEW l, NEW s, Sound(s, l), NEW a \in {"failed", "unstored", "ok"}
  PROVE  Good(TokenReply(s, a), l)
<1> DEFINE done == [s EXCEPT !.action = "none"]
           new == [done EXCEPT !.token = "fresh"]
<1>0. "none" \in Actions /\ s.action \in Actions
  BY DEF Actions, Sound, Players
<1>1. Sound(done, l) /\ done.action = "none"
  BY <1>0, ActionSound
<1> HIDE DEF done
<1>2. Sound(new, l) /\ new.action = "none"
  BY <1>1, TokenSound
<1> HIDE DEF new
<1>3. Good(AuthRequired(done), l) /\ Good(AuthRequired(new), l)
  BY <1>1, <1>2, AuthRequiredSound DEF Good, Carried
<1>4. Good(new, l)
  BY <1>2 DEF Good, Carried
<1>5. Good(RunAction(new, s.action, TRUE), l)
  BY <1>0, <1>4, RunActionGood
<1>6. /\ a = "failed" => TokenReply(s, a) = AuthRequired(done)
      /\ a = "unstored" => TokenReply(s, a) = AuthRequired(new)
      /\ a = "ok" => TokenReply(s, a) = RunAction(new, s.action, TRUE)
  BY DEF TokenReply, done, new
<1> QED BY <1>3, <1>5, <1>6

\* Every answer to a save.
LEMMA SaveReplyGood ==
  ASSUME NEW l, NEW s, Sound(s, l), s.action = "none", ~Busy(s),
         NEW q, q.kind = "save", NEW a
  PROVE  Good(SaveReply(s, q, a), l)
<1> DEFINE c == <<s.current, Attempts>>
           f == [s.confirms EXCEPT ![c] = @ + 1]
           m1 == [s EXCEPT !.verdict = NoVerdict]
           m2 == [m1 EXCEPT !.confirms = f]
<1>0. Good(s, l)
  BY DEF Good, Carried
<1>1. Good(Denied(s, q), l)
  BY DeniedGood
<1>2. Good(SaveState(s, FALSE, "NOTICE"), l)
  BY <1>0, SettledGood
<1>3. f \in [Tracks \X (0 .. Attempts) -> Nat]
  <2>1. s.confirms \in [Tracks \X (0 .. Attempts) -> Nat]
    BY DEF Sound, Players
  <2>2. CASE c \in Tracks \X (0 .. Attempts)
    <3> DEFINE k == s.confirms[c] + 1
    <3>1. k \in Nat
      BY <2>1, <2>2
    <3>2. f = [s.confirms EXCEPT ![c] = k]
      OBVIOUS
    <3> HIDE DEF k, f, c
    <3> QED BY <2>1, <3>1, <3>2
  <2>3. CASE c \notin Tracks \X (0 .. Attempts)
    <3> HIDE DEF c
    <3> QED BY <2>1, <2>3
  <2> QED BY <2>2, <2>3
<1>4. [s EXCEPT !.verdict = NoVerdict, !.confirms[<<s.current, Attempts>>] = @ + 1] = m2
  BY DEF Sound, Players
<1> HIDE DEF f
<1>5. Good(m1, l)
  BY <1>0, NoVerdictGood
<1> HIDE DEF m1
<1>6. Good(m2, l)
  BY <1>3, <1>5, ConfirmsGood
<1> HIDE DEF m2
<1>7. Good(SaveState(m2, TRUE, "CHECKING"), l)
  <2>1. Sound(m2, l) /\ Carried(m2)
    BY <1>6 DEF Good
  <2>2. /\ Sound(SaveState(m2, TRUE, "CHECKING"), l)
        /\ SaveState(m2, TRUE, "CHECKING").net = m2.net
        /\ SaveState(m2, TRUE, "CHECKING").action = m2.action
    BY <2>1, PendingSound
  <2> QED BY <2>1, <2>2 DEF Good, Carried
<1> QED BY <1>1, <1>2, <1>4, <1>7 DEF SaveReply

\* "Added to Liked Songs" is said of the track the check was about, which is the current one.
LEMMA JudgeGood ==
  ASSUME NEW l, NEW s, Good(s, l), NEW t \in Tracks, t = s.current, NEW saved \in BOOLEAN,
         saved => t \in l
  PROVE  Good(Judge(s, t, saved), l)
<1> DEFINE v == [track |-> t, saved |-> saved]
           m == [s EXCEPT !.verdict = v]
<1>1. v \in [track : Tracks, saved : BOOLEAN] \cup {NoVerdict} /\ v.track = t /\ (v.saved <=> saved)
  OBVIOUS
<1>2. Judge(s, t, saved) = IF s.status \in {"CHECKING", "SAVING"}
                           THEN SaveState(m, FALSE, IF saved THEN "SAVED" ELSE "NOTICE") ELSE m
  BY DEF Judge
<1> HIDE DEF v
<1>3. m \in Players /\ m.pending = s.pending /\ m.net = s.net /\ m.action = s.action
      /\ m.current = s.current /\ m.verdict = v /\ m.status = s.status
  BY <1>1 DEF Good, Sound, Players
<1> HIDE DEF m
<1>4. Good(m, l)
  BY <1>1, <1>3 DEF Good, Sound, Carried
<1>5. saved => Good(SaveState(m, FALSE, "SAVED"), l)
  BY <1>3, <1>4, SettledGood
<1>6. Good(SaveState(m, FALSE, "NOTICE"), l)
  BY <1>4, SettledGood
<1> QED BY <1>2, <1>4, <1>5, <1>6

\* Every answer to a check.
LEMMA SavedStateReplyGood ==
  ASSUME NEW l, NEW s, Sound(s, l), s.action = "none", ~Busy(s),
         NEW q, q.kind = "saved", q.track \in Tracks,
         NEW a \in {"denied", "refused", "failed", "yes", "no"}, a = "yes" => q.track \in l
  PROVE  Good(SavedStateReply(s, q, a), l)
<1>0. Good(s, l)
  BY DEF Good, Carried
<1>1. Good(Denied(s, q), l)
  BY DeniedGood
<1>2. Good([s EXCEPT !.verdict = NoVerdict], l)
  BY <1>0, NoVerdictGood
<1>3. Good(SaveState([s EXCEPT !.verdict = NoVerdict], FALSE, "NOTICE"), l)
  BY <1>2, SettledGood
<1>4. q.track = s.current => Good(Judge(s, q.track, a = "yes"), l)
  BY <1>0, JudgeGood
<1> QED BY <1>0, <1>1, <1>2, <1>3, <1>4 DEF SavedStateReply

-----------------------------------------------------------------------------
(* The steps *)

\* What the handler of a finished request starts from.
LEMMA FinishedRequest ==
  ASSUME NEW l, Good(p, l), Busy(p)
  PROVE  /\ Sound([p EXCEPT !.net = NoRequest], l) /\ ~Busy([p EXCEPT !.net = NoRequest])
         /\ p.net.kind \in {"playback", "saved", "token", "save"}
         /\ p.net.kind # "token" => [p EXCEPT !.net = NoRequest].action = "none"
         /\ p.net.kind \in {"saved", "save"} => p.net.track \in Tracks
<1> DEFINE m == [p EXCEPT !.net = NoRequest]
<1>1. m \in Players /\ m.net = NoRequest /\ m.pending = p.pending /\ m.status = p.status
      /\ m.action = p.action /\ m.verdict = p.verdict /\ m.current = p.current
  BY DEF Good, Sound, Players, Requests
<1> HIDE DEF m
<1>2. Sound(m, l) /\ ~Busy(m) /\ m.action = p.action
  BY <1>1 DEF Good, Sound, Busy, NoRequest
<1>3. p.net.kind \in {"playback", "saved", "token", "save"}
  <2>1. p.net \in Requests /\ p.net # NoRequest
    BY DEF Good, Sound, Players, Busy
  <2> QED BY <2>1 DEF Requests
<1> QED BY <1>2, <1>3 DEF Good, Sound, Carried, m

\* Every answer to every request.
LEMMA FinishedGood ==
  ASSUME NEW l, Good(p, l), Busy(p), NEW a, Finished(a),
         p.net.kind = "token" => a \in {"failed", "unstored", "ok"},
         p.net.kind = "saved" => /\ a \in {"denied", "refused", "failed", "yes", "no"}
                                 /\ a = "yes" => p.net.track \in l
  PROVE  Good(p', l)
<1> DEFINE m == [p EXCEPT !.net = NoRequest]
<1>1. /\ Sound(m, l) /\ ~Busy(m)
      /\ p.net.kind \in {"playback", "saved", "token", "save"}
      /\ p.net.kind # "token" => m.action = "none"
      /\ p.net.kind \in {"saved", "save"} => p.net.track \in Tracks
  BY FinishedRequest
<1>2. p' = Handle(m, p.net, a)
  BY DEF Finished
<1> HIDE DEF m
<1>3. CASE p.net.kind = "playback"
  BY <1>1, <1>2, <1>3, PlaybackReplyGood DEF Handle
<1>4. CASE p.net.kind = "saved"
  BY <1>1, <1>2, <1>4, SavedStateReplyGood DEF Handle
<1>5. CASE p.net.kind = "token"
  BY <1>1, <1>2, <1>5, TokenReplyGood DEF Handle
<1>6. CASE p.net.kind = "save"
  BY <1>1, <1>2, <1>6, SaveReplyGood DEF Handle
<1> QED BY <1>1, <1>3, <1>4, <1>5, <1>6

\* More liked songs make nothing false that was true.
LEMMA LikedGrows ==
  ASSUME NEW l, NEW k, l \subseteq k, NEW s, Good(s, l)
  PROVE  Good(s, k)
BY DEF Good, Sound

\* The invariant holds at the start.
LEMMA InitInv == Init => PlayerInv
<1> SUFFICES ASSUME Init PROVE PlayerInv
  OBVIOUS
<1> DEFINE zero == [c \in Tracks \X (0 .. Attempts) |-> 0]
<1>1. PICK token \in {"none", "fresh"}, refreshable \in BOOLEAN :
        p = [net |-> NoRequest, action |-> "none", token |-> token, refreshable |-> refreshable,
             current |-> None, shown |-> None, verdict |-> NoVerdict, pending |-> FALSE,
             status |-> "", waits |-> 0, confirms |-> zero]
  BY DEF Init
<1>2. zero \in [Tracks \X (0 .. Attempts) -> Nat]
  OBVIOUS
<1> HIDE DEF zero
<1>3. NoRequest \in Requests /\ "none" \in Actions
  BY DEF Requests, Actions
<1>4. p \in Players
  BY <1>1, <1>2, <1>3 DEF Players
<1>5. p.verdict = NoVerdict /\ p.net = NoRequest /\ p.status = "" /\ p.pending = FALSE
      /\ p.action = "none"
  BY <1>1
<1>6. NoVerdict.saved = FALSE /\ NoRequest.kind = "none"
  BY DEF NoVerdict, NoRequest
<1>7. Good(p, world.liked)
  BY <1>4, <1>5, <1>6 DEF Good, Sound, Carried
<1> QED BY <1>7 DEF Init, PlayerInv, Worlds

\* A request that ends, in each of the ways Spotify and the network have.
LEMMA AnsweredInv ==
  ASSUME PlayerInv, Answered
  PROVE  PlayerInv'
<1> DEFINE l == world.liked
<1>0. Good(p, l) /\ world \in Worlds /\ l \subseteq Tracks
  BY DEF PlayerInv, Worlds
<1>1. CASE PlaybackAnswered
  <2>1. Busy(p) /\ p.net.kind = "playback" /\ world' = world
    BY <1>1 DEF PlaybackAnswered, Busy, NoRequest
  <2>2. PICK i \in Items \cup {None} : Finished(i)
    BY <1>1 DEF PlaybackAnswered
  <2>3. Good(p', l)
    BY <1>0, <2>1, <2>2, FinishedGood
  <2> QED BY <1>0, <2>1, <2>3 DEF PlayerInv
<1>2. CASE SavedAnswered
  <2> DEFINE a == IF p.net.track \in world.liked THEN "yes" ELSE "no"
  <2>1. Busy(p) /\ p.net.kind = "saved" /\ world' = world /\ Finished(a)
    BY <1>2 DEF SavedAnswered, Busy, NoRequest
  <2>2. a \in {"denied", "refused", "failed", "yes", "no"} /\ (a = "yes" => p.net.track \in l)
    OBVIOUS
  <2> HIDE DEF a
  <2>3. Good(p', l)
    BY <1>0, <2>1, <2>2, FinishedGood
  <2> QED BY <1>0, <2>1, <2>3 DEF PlayerInv
<1>3. CASE SaveDone
  <2>1. Busy(p) /\ p.net.kind = "save" /\ Finished("ok")
    BY <1>3 DEF SaveDone, Busy, NoRequest
  <2>2. Good(p', l)
    BY <1>0, <2>1, FinishedGood
  <2>3. p.net.track \in Tracks
    BY <1>0, <2>1 DEF Good, Sound
  <2>4. world' \in Worlds /\ l \subseteq world'.liked
    BY <1>0, <1>3, <2>3 DEF SaveDone, Worlds
  <2> QED BY <2>2, <2>4, LikedGrows DEF PlayerInv
<1>4. CASE TokenGiven
  <2>1. Busy(p) /\ p.net.kind = "token" /\ Finished("ok")
    BY <1>4 DEF TokenGiven, Busy, NoRequest
  <2>2. Good(p', l)
    BY <1>0, <2>1, FinishedGood
  <2>3. world' \in Worlds /\ world'.liked = l
    BY <1>0, <1>4 DEF TokenGiven, Worlds
  <2> QED BY <2>2, <2>3 DEF PlayerInv
<1>5. CASE AnsweredDenied
  <2>1. Busy(p) /\ p.net.kind # "token" /\ Finished("denied") /\ world' = world
    BY <1>5 DEF AnsweredDenied
  <2>2. Good(p', l)
    BY <1>0, <2>1, FinishedGood
  <2> QED BY <1>0, <2>1, <2>2 DEF PlayerInv
<1>6. CASE AnsweredBadly
  <2>1. Busy(p)
    BY <1>6 DEF AnsweredBadly
  <2>2. PICK a \in {"unstored", "refused", "ok", "failed"} :
          /\ Finished(a)
          /\ a = "unstored" => p.net.kind = "token"
          /\ a = "refused" => p.net.kind = "saved"
          /\ a = "ok" => p.net.kind = "save"
    BY <1>6 DEF AnsweredBadly
  <2>3. Good(p', l)
    <3>1. p.net.kind = "token" => a \in {"failed", "unstored", "ok"}
      BY <2>2
    <3>2. p.net.kind = "saved" => a \in {"refused", "failed"}
      BY <2>2
    <3> QED BY <1>0, <2>1, <2>2, <3>1, <3>2, FinishedGood
  <2>4. world' \in Worlds /\ l \subseteq world'.liked
    <3>1. p.net.kind = "save" => p.net.track \in Tracks
      BY <1>0 DEF Good, Sound
    <3>2. \/ UNCHANGED world
          \/ world' = [world EXCEPT !.accepts = TRUE]
          \/ p.net.kind = "save" /\ world' = [world EXCEPT !.liked = @ \cup {p.net.track}]
      BY <1>6 DEF AnsweredBadly
    <3>3. CASE UNCHANGED world
      BY <1>0, <3>3
    <3>4. CASE world' = [world EXCEPT !.accepts = TRUE]
      BY <1>0, <3>4 DEF Worlds
    <3>5. CASE p.net.kind = "save" /\ world' = [world EXCEPT !.liked = @ \cup {p.net.track}]
      BY <1>0, <3>1, <3>5 DEF Worlds
    <3> QED BY <3>2, <3>3, <3>4, <3>5
  <2> QED BY <2>3, <2>4, LikedGrows DEF PlayerInv
<1> QED BY <1>1, <1>2, <1>3, <1>4, <1>5, <1>6 DEF Answered

\* A confirmation timer keeps it.
LEMMA ConfirmTimerInv ==
  ASSUME PlayerInv, ConfirmTimer
  PROVE  PlayerInv'
<1>1. PICK c \in DOMAIN p.confirms :
        /\ p.confirms[c] > 0
        /\ p' = ConfirmSavedTrack([p EXCEPT !.confirms[c] = @ - 1], c[1], c[2])
  BY DEF ConfirmTimer
<1> DEFINE k == p.confirms[c] - 1
           m == [p EXCEPT !.confirms[c] = k]
<1>2. p.confirms \in [Tracks \X (0 .. Attempts) -> Nat]
  BY DEF PlayerInv, Good, Sound, Players
<1>3. c \in Tracks \X (0 .. Attempts)
  BY <1>1, <1>2
<1>4. k \in Nat /\ c[1] \in Tracks /\ c[2] \in 0 .. Attempts
  BY <1>1, <1>2, <1>3
<1>5. [p EXCEPT !.confirms[c] = @ - 1] = m
  BY <1>2, <1>3
<1> HIDE DEF k
<1>6. Good(m, world.liked)
  BY <1>4, CountGood DEF PlayerInv
<1> HIDE DEF m
<1>7. Good(p', world.liked)
  BY <1>1, <1>4, <1>5, <1>6, ConfirmSavedTrackGood
<1> QED BY <1>7 DEF ConfirmTimer, PlayerInv

\* A save that had to wait keeps it.
LEMMA WaitEndsInv ==
  ASSUME PlayerInv, WaitEnds
  PROVE  PlayerInv'
<1> DEFINE k == p.waits - 1
           m == [p EXCEPT !.waits = k]
<1>1. k \in Nat
  <2>1. p.waits \in Nat /\ p.waits > 0
    BY DEF PlayerInv, Good, Sound, Players, WaitEnds
  <2> QED BY <2>1
<1>2. p' = SaveCurrentTrack(m) /\ world' = world
  BY DEF WaitEnds, PlayerInv, Good, Sound, Players
<1> HIDE DEF k
<1>3. m \in Players /\ m.pending = p.pending /\ m.status = p.status /\ m.net = p.net
      /\ m.action = p.action /\ m.verdict = p.verdict /\ m.current = p.current
  BY <1>1 DEF PlayerInv, Good, Sound, Players
<1> HIDE DEF m
<1>4. Good(m, world.liked)
  BY <1>3 DEF PlayerInv, Good, Sound, Carried
<1>5. Good(p', world.liked)
  BY <1>2, <1>4, SaveCurrentTrackGood
<1> QED BY <1>2, <1>5 DEF PlayerInv

\* New tokens from a pairing keep it.
LEMMA PairingReadyInv ==
  ASSUME PlayerInv, PairingReady
  PROVE  PlayerInv'
<1> DEFINE n == [p EXCEPT !.token = "fresh"]
           m == [n EXCEPT !.refreshable = TRUE]
<1>1. n \in Players /\ n.pending = p.pending /\ n.status = p.status /\ n.net = p.net
      /\ n.action = p.action /\ n.verdict = p.verdict /\ n.current = p.current
  BY DEF PlayerInv, Good, Sound, Players
<1>2. [p EXCEPT !.token = "fresh", !.refreshable = TRUE] = m
  OBVIOUS
<1> HIDE DEF n
<1>3. m \in Players /\ m.pending = n.pending /\ m.status = n.status /\ m.net = n.net
      /\ m.action = n.action /\ m.verdict = n.verdict /\ m.current = n.current
  BY <1>1 DEF Players
<1> HIDE DEF m
<1>4. Good(m, world.liked)
  BY <1>1, <1>3 DEF PlayerInv, Good, Sound, Carried
<1>5. Good(RefreshPlayback(m, FALSE), world.liked)
  BY <1>4, RefreshPlaybackGood
<1>6. Good(p', world.liked)
  BY <1>2, <1>4, <1>5 DEF PairingReady
<1>7. world' \in Worlds /\ world'.liked = world.liked
  BY DEF PairingReady, PlayerInv, Worlds
<1> QED BY <1>6, <1>7 DEF PlayerInv

\* What happens at Spotify keeps it.
LEMMA SpotifyChangesInv ==
  ASSUME PlayerInv, SpotifyChanges
  PROVE  PlayerInv'
<1>1. world' \in Worlds /\ world.liked \subseteq world'.liked /\ p' = p
  <2>1. world \in Worlds
    BY DEF PlayerInv
  <2>2. ASSUME NEW t \in Tracks, world' = [world EXCEPT !.liked = @ \cup {t}]
        PROVE  world' \in Worlds /\ world.liked \subseteq world'.liked
    BY <2>1, <2>2 DEF Worlds
  <2>3. ASSUME world' = [world EXCEPT !.accepts = FALSE]
        PROVE  world' \in Worlds /\ world.liked \subseteq world'.liked
    BY <2>1, <2>3 DEF Worlds
  <2>4. ASSUME NEW w \in BOOLEAN, world' = [world EXCEPT !.well = w]
        PROVE  world' \in Worlds /\ world.liked \subseteq world'.liked
    BY <2>1, <2>4 DEF Worlds
  <2> QED BY <2>2, <2>3, <2>4 DEF SpotifyChanges
<1> QED BY <1>1, LikedGrows DEF PlayerInv

\* Every step keeps it.
LEMMA StepInv ==
  ASSUME PlayerInv, [Next]_vars
  PROVE  PlayerInv'
<1>0. Good(p, world.liked)
  BY DEF PlayerInv
<1>1. CASE Refresh
  <2>1. Good(RefreshPlayback(p, FALSE), world.liked)
    BY <1>0, RefreshPlaybackGood
  <2> QED BY <1>1, <2>1 DEF Refresh, PlayerInv
<1>2. CASE Press
  <2>1. Good(SaveCurrentTrack(p), world.liked)
    BY <1>0, SaveCurrentTrackGood
  <2> QED BY <1>2, <2>1 DEF Press, PlayerInv
<1>3. CASE WaitEnds
  BY <1>3, WaitEndsInv
<1>4. CASE ConfirmTimer
  BY <1>4, ConfirmTimerInv
<1>5. CASE NoticeCleared
  <2>1. Good(SaveState(p, FALSE, ""), world.liked)
    BY <1>0, SettledGood
  <2> QED BY <1>5, <2>1 DEF NoticeCleared, PlayerInv
<1>6. CASE TokenAges
  <2>1. Sound([p EXCEPT !.token = "aging"], world.liked)
        /\ [p EXCEPT !.token = "aging"].net = p.net
        /\ [p EXCEPT !.token = "aging"].action = p.action
    BY <1>0, TokenSound DEF Good
  <2>2. Good([p EXCEPT !.token = "aging"], world.liked)
    BY <1>0, <2>1 DEF Good, Carried
  <2> QED BY <1>6, <2>2 DEF TokenAges, PlayerInv
<1>7. CASE PairingReady
  BY <1>7, PairingReadyInv
<1>8. CASE Answered
  BY <1>8, AnsweredInv
<1>9. CASE SpotifyChanges
  BY <1>9, SpotifyChangesInv
<1>10. CASE UNCHANGED vars
  BY <1>10 DEF vars, PlayerInv
<1> QED BY <1>1, <1>2, <1>3, <1>4, <1>5, <1>6, <1>7, <1>8, <1>9, <1>10 DEF Next

-----------------------------------------------------------------------------
(* The theorems *)

\* The inductive invariant: whatever is asked, refused, lost or changed, verdict and notice are
\* about liked songs and an action waits only for a token that has been asked for.
THEOREM PlayerSafe == Spec => []PlayerInv
BY InitInv, StepInv, PTL DEF Spec

\* Every state is one the declarations of NowPlayingService.h can hold, and the save state is
\* pending exactly while it says SAVING or CHECKING.
THEOREM TypesHold == Spec => []TypeOK
<1>1. PlayerInv => TypeOK
  BY DEF PlayerInv, Good, Sound, TypeOK, Worlds
<1> QED BY <1>1, PlayerSafe, PTL

\* The heart and the notice "Added to Liked Songs" are true of the track on the screen, with any
\* tracks and any number of saves and confirmations under way.
THEOREM HeartHolds == Spec => []HeartIsTrue
<1>1. PlayerInv => HeartIsTrue
  BY DEF PlayerInv, Good, Sound, HeartIsTrue, TrackSaved, SavedKnown
<1> QED BY <1>1, PlayerSafe, PTL

\* What runSpotifyAction and the 401 branches put off is never left without a token request
\* that will take it up.
THEOREM CarriedHolds == Spec => []PendingActionIsCarried
<1>1. PlayerInv => PendingActionIsCarried
  BY DEF PlayerInv, Good, Carried, PendingActionIsCarried
<1> QED BY <1>1, PlayerSafe, PTL

-----------------------------------------------------------------------------
(* The pairing *)

PairingRequests ==
  [kind : {"create", "poll", "exchange"}, code : Codes \cup {NoCode},
   answer : Codes \cup {NoCode, "none", "pending", "ready", "failed", "denied", "error"}] \cup {NoReply}
Told == {"idle", "starting", "scan", "waiting", "saving", "paired", "ended"}
Shown == Codes \cup {NoCode}
Pairings ==
  [active : BOOLEAN, told : Told,
   code : Shown, poll : BOOLEAN, server : BOOLEAN, timeout : BOOLEAN,
   secret : Codes \cup {NoCode}, request : PairingRequests]

\* A pairing through the broker has no server and none of its phones; one through the
\* cluster's own server polls nothing.  Either watches for what it shows.
Watches(s, v) ==
  /\ s \in Pairings
  /\ v => /\ ~s.server /\ s.request.kind # "exchange"
          /\ s.code # NoCode <=> s.poll
  /\ ~v => /\ ~s.poll /\ s.request.kind \notin {"create", "poll"}
           /\ s.code # NoCode <=> s.server
PairingInv ==
  /\ viaBroker \in BOOLEAN /\ Watches(pairing, viaBroker)
  /\ viaBroker => ~guest
  /\ sessions \in [Codes -> {"none", "pending", "ready", "failed", "denied"}] /\ asked \subseteq Codes

\* stopPairingServer takes every watch down and nothing else.
LEMMA Stopped ==
  ASSUME NEW s \in Pairings
  PROVE  /\ StopServer(s) \in Pairings
         /\ ~StopServer(s).poll /\ ~StopServer(s).server
         /\ StopServer(s).secret = s.secret /\ StopServer(s).request = s.request
BY DEF Pairings, StopServer

\* setSpotifyPairingState changes the screen and nothing else.
LEMMA StateSet ==
  ASSUME NEW s \in Pairings, NEW active \in BOOLEAN, NEW code \in Shown,
         NEW told \in Told
  PROVE  /\ SetState(s, active, told, code) \in Pairings
         /\ SetState(s, active, told, code).code = code
         /\ SetState(s, active, told, code).poll = s.poll
         /\ SetState(s, active, told, code).server = s.server
         /\ SetState(s, active, told, code).request = s.request
BY DEF Pairings, SetState

\* The two in a row, how every pairing begins and ends: a state that shows code and
\* does not watch yet.
Quiet(u, code, s) ==
  u \in Pairings /\ u.code = code /\ ~u.poll /\ ~u.server /\ u.request = s.request

LEMMA StoppedAndSet ==
  ASSUME NEW s \in Pairings, NEW active \in BOOLEAN, NEW code \in Shown, NEW told \in Told
  PROVE  Quiet(SetState(StopServer(s), active, told, code), code, s)
<1> DEFINE t == StopServer(s)
<1>1. t \in Pairings /\ ~t.poll /\ ~t.server /\ t.request = s.request
  BY Stopped
<1> HIDE DEF t
<1> DEFINE u == SetState(t, active, told, code)
<1>2. /\ u \in Pairings /\ u.code = code /\ u.poll = t.poll /\ u.server = t.server
      /\ u.request = t.request
  BY <1>1, StateSet
<1>3. Quiet(u, code, s)
  <2> HIDE DEF u
  <2> QED BY <1>1, <1>2 DEF Quiet
<1> QED BY <1>3 DEF t

\* A pairing that has ended shows nothing and watches for nothing, however it ended.
LEMMA EndedWatches ==
  ASSUME NEW s, NEW v \in BOOLEAN, Watches(s, v)
  PROVE  Watches(Ended(s), v) /\ \A stored \in BOOLEAN : Watches(Login(s, stored), v)
<1>1. s \in Pairings
  BY DEF Watches
<1>2. ASSUME NEW told \in {"paired", "ended"}
      PROVE  Watches(SetState(StopServer(s), FALSE, told, NoCode), v)
  <2> DEFINE u == SetState(StopServer(s), FALSE, told, NoCode)
  <2>1. Quiet(u, NoCode, s)
    <3>1. told \in Told /\ NoCode \in Shown
      BY DEF Told, Shown
    <3> QED BY <1>1, <3>1, StoppedAndSet, Zenon
  <2>2. Watches(u, v)
    <3> HIDE DEF u
    <3> QED BY <2>1 DEF Quiet, Watches
  <2> QED BY <2>2
<1>3. Watches(Ended(s), v)
  BY <1>2 DEF Ended
<1>4. ASSUME NEW stored \in BOOLEAN PROVE Watches(Login(s, stored), v)
  BY <1>2 DEF Login
<1> QED BY <1>3, <1>4

\* The handlers of the three replies leave code and watch together.
LEMMA ReplyWatches ==
  ASSUME PairingInv, pairing.request # NoReply, NEW a, ReplyFinished(a)
  PROVE  Watches(pairing', viaBroker)
<1> DEFINE q == pairing.request
           s == [pairing EXCEPT !.request = NoReply]
<1>1. q.kind \in {"create", "poll", "exchange"}
  BY DEF PairingInv, Watches, Pairings, PairingRequests
<1>2. Watches(s, viaBroker) /\ viaBroker \in BOOLEAN
  BY DEF PairingInv, Watches, Pairings, PairingRequests, NoReply
<1>3. Watches(Ended(s), viaBroker) /\ \A stored \in BOOLEAN : Watches(Login(s, stored), viaBroker)
  BY <1>2, EndedWatches
<1>4. CASE q.kind = "create"
  <2>1. pairing' = CreateReply(s, a)
    BY <1>4 DEF ReplyFinished
  <2>2. viaBroker
    BY <1>4 DEF PairingInv, Watches
  <2>3. a \in Codes => Watches([SetState(s, TRUE, "scan", a) EXCEPT !.poll = TRUE], viaBroker)
    BY <1>2, <2>2, PairingAssumption DEF Watches, Pairings, SetState, Told, Shown
  <2> QED BY <1>3, <2>1, <2>3 DEF CreateReply
<1>5. CASE q.kind = "poll"
  <2>1. PICK stored \in BOOLEAN : pairing' = PollReply(s, q, a, stored)
    BY <1>5 DEF ReplyFinished
  <2>2. Watches(SetState(s, TRUE, "waiting", s.code), viaBroker)
    BY <1>2 DEF Watches, Pairings, SetState, Told
  <2> QED BY <1>2, <1>3, <2>1, <2>2 DEF PollReply
<1>6. CASE q.kind = "exchange"
  <2>1. PICK stored \in BOOLEAN : pairing' = IF a = "ok" THEN Login(s, stored) ELSE Ended(s)
    BY <1>6 DEF ReplyFinished
  <2> QED BY <1>3, <2>1
<1> QED BY <1>1, <1>4, <1>5, <1>6

\* A pairing through the cluster's own server shows its code with the server up.
LEMMA LocalWatches ==
  ASSUME PairingInv, BeginLocal
  PROVE  PairingInv'
<1> DEFINE u(c) == SetState(StopServer(pairing), TRUE, "scan", c)
<1>1. ~viaBroker /\ UNCHANGED <<guest, sessions, asked, viaBroker>>
  BY Zenon DEF BeginLocal, brokerVars
<1>2. pairing \in Pairings /\ pairing.request.kind \notin {"create", "poll"}
  BY <1>1 DEF PairingInv, Watches
<1>3. CASE pairing' = Ended(pairing)
  BY <1>1, <1>3, EndedWatches DEF PairingInv
<1>4. ASSUME NEW c \in Codes,
             pairing' = [u(c) EXCEPT !.timeout = TRUE, !.server = TRUE, !.secret = c]
      PROVE  PairingInv'
  <2>1. Quiet(u(c), c, pairing)
    <3>1. "scan" \in Told /\ c \in Shown
      BY DEF Told, Shown
    <3> QED BY <1>2, <3>1, StoppedAndSet, Zenon
  <2> HIDE DEF u
  <2>2. pairing' \in Pairings /\ pairing'.code = c /\ ~pairing'.poll /\ pairing'.server
        /\ pairing'.request = pairing.request
    BY <1>4, <2>1 DEF Quiet, Pairings
  <2>3. c # NoCode
    BY PairingAssumption
  <2>4. Watches(pairing', viaBroker)
    BY <1>1, <1>2, <2>2, <2>3 DEF Watches
  <2> QED BY <1>1, <2>4 DEF PairingInv
<1> QED BY <1>3, <1>4, Zenon DEF BeginLocal

\* What the driver, the timers, phones and a restart do to the cluster.
LEMMA ClusterWatches ==
  ASSUME PairingInv,
         BeginBroker \/ BeginLocal \/ Cancel \/ TimeOut \/ Poll \/ Connect \/ Callback \/ Restart
  PROVE  PairingInv'
<1>1. Watches(Ended(pairing), viaBroker)
  BY EndedWatches DEF PairingInv
<1> DEFINE t == StopServer(pairing)
<1>0. pairing \in Pairings /\ viaBroker \in BOOLEAN
  BY DEF PairingInv, Watches
<1>2. CASE BeginBroker
  <2> DEFINE u == SetState(t, TRUE, "starting", NoCode)
             r == [NoReply EXCEPT !.kind = "create"]
  <2>1. Quiet(u, NoCode, pairing)
    <3>1. "starting" \in Told /\ NoCode \in Shown
      BY DEF Told, Shown
    <3> QED BY <1>0, <3>1, StoppedAndSet, Zenon
  <2>2. pairing' = [u EXCEPT !.timeout = TRUE, !.request = r] /\ viaBroker
    BY <1>2 DEF BeginBroker
  <2>3. r \in PairingRequests /\ r.kind = "create"
    BY DEF PairingRequests, NoReply
  <2>4. pairing' \in Pairings /\ pairing'.code = NoCode /\ ~pairing'.poll /\ ~pairing'.server
        /\ pairing'.request = r
    <3> HIDE DEF u, r
    <3> QED BY <2>1, <2>2, <2>3 DEF Quiet, Pairings
  <2>5. Watches(pairing', viaBroker)
    <3> HIDE DEF r
    <3> QED BY <2>2, <2>3, <2>4 DEF Watches
  <2> QED BY <1>2, <2>5 DEF BeginBroker, brokerVars, PairingInv
<1>3. CASE BeginLocal
  BY <1>3, LocalWatches
<1>4. CASE Cancel \/ TimeOut
  BY <1>1, <1>4 DEF Cancel, TimeOut, brokerVars, PairingInv
<1>5. CASE Poll
  BY <1>5 DEF Poll, PairingInv, Watches, Pairings, Shown, PairingRequests
<1>6. CASE Connect
  BY <1>6 DEF Connect, brokerVars, PairingInv, Watches
<1>7. CASE Callback
  <2>1. ~viaBroker
    BY <1>7 DEF Callback, PairingInv
  <2>2. CASE pairing' = Ended(pairing)
    BY <1>1, <1>7, <2>1, <2>2 DEF Callback, brokerVars, PairingInv
  <2> DEFINE u == SetState(pairing, TRUE, "saving", pairing.code)
             r == [NoReply EXCEPT !.kind = "exchange"]
  <2>3. CASE pairing' = IF u.request # NoReply THEN u ELSE [u EXCEPT !.request = r]
    <3>1. pairing.code \in Shown /\ "saving" \in Told
      BY <1>0 DEF Pairings, Told
    <3>2. /\ u \in Pairings /\ u.code = pairing.code /\ u.poll = pairing.poll
          /\ u.server = pairing.server /\ u.request = pairing.request
      BY <1>0, <3>1, StateSet, ZenonT(40)
    <3>3. r \in PairingRequests /\ r.kind = "exchange"
      BY DEF PairingRequests, NoReply
    <3>4. /\ pairing' \in Pairings /\ pairing'.code = pairing.code /\ pairing'.poll = pairing.poll
          /\ pairing'.server = pairing.server /\ pairing'.request \in {pairing.request, r}
      <4> HIDE DEF u, r
      <4> QED BY <2>3, <3>2, <3>3 DEF Pairings
    <3>5. Watches(pairing', viaBroker)
      <4> HIDE DEF r
      <4> QED BY <2>1, <3>3, <3>4 DEF PairingInv, Watches
    <3> QED BY <1>7, <2>1, <3>5 DEF Callback, brokerVars, PairingInv
  <2> QED BY <1>7, <2>2, <2>3 DEF Callback
<1>8. CASE Restart
  BY <1>8 DEF Restart, Idle, brokerVars, PairingInv, Watches, Pairings, Told, Shown, PairingRequests, NoReply
<1> QED BY <1>2, <1>3, <1>4, <1>5, <1>6, <1>7, <1>8

\* What the network brings or loses.
LEMMA NetworkWatches ==
  ASSUME PairingInv, ReplyCame \/ Exchanged \/ Lost
  PROVE  PairingInv'
<1>1. pairing.request # NoReply
  BY DEF ReplyCame, Exchanged, Lost, NoReply
<1>2. CASE ReplyCame \/ Exchanged
  <2>1. Watches(pairing', viaBroker)
    BY <1>1, <1>2, ReplyWatches DEF ReplyCame, Exchanged
  <2> QED BY <1>2, <2>1 DEF ReplyCame, Exchanged, brokerVars, PairingInv
<1>3. CASE Lost
  <2>1. PICK a \in {"error", "denied"} : pairing' = [pairing EXCEPT !.request.answer = a]
    BY <1>3 DEF Lost
  <2>2. Watches(pairing', viaBroker)
    BY <1>1, <2>1 DEF PairingInv, Watches, Pairings, PairingRequests
  <2> QED BY <1>3, <2>2 DEF Lost, brokerVars, PairingInv
<1> QED BY <1>2, <1>3

\* What the broker does between its awaits changes no more of the cluster than the answer it awaits.
LEMMA BrokerWatches ==
  ASSUME PairingInv, BrokerNext
  PROVE  PairingInv'
<1>1. CASE CreateSession
  BY <1>1 DEF CreateSession, PairingInv, Watches, Pairings, PairingRequests, NoReply
<1>2. CASE ReadForPoll
  <2>1. PICK c \in asked :
          /\ asked' = asked \ {c}
          /\ pairing' = IF pairing.request = [kind |-> "poll", code |-> c, answer |-> NoCode]
                        THEN [pairing EXCEPT !.request.answer = sessions[c]] ELSE pairing
          /\ UNCHANGED <<guest, sessions, callbacks, viaBroker>>
    BY <1>2 DEF ReadForPoll
  <2>2. c \in Codes /\ sessions[c] \in {"none", "pending", "ready", "failed", "denied"}
    BY DEF PairingInv
  <2>3. Watches(pairing', viaBroker)
    BY <2>1, <2>2 DEF PairingInv, Watches, Pairings, PairingRequests, NoReply
  <2> QED BY <2>1, <2>3 DEF PairingInv
<1>3. CASE DeleteClaimed \/ Expire \/ ReadForPhone \/ WriteOutcome
  BY <1>3 DEF DeleteClaimed, Expire, ReadForPhone, WriteOutcome, PairingInv
<1> QED BY <1>1, <1>2, <1>3 DEF BrokerNext

\* A code is on the screen exactly while its scan is watched for, for any number of codes,
\* with answers and phones that come at any time (setSpotifyPairingState, stopPairingServer).
THEOREM ScanWatchHolds == PairingSpec => []ScanIsWatched
<1>1. PairingInit => PairingInv
  BY DEF PairingInit, Idle, PairingInv, Watches, Pairings, Told, Shown, PairingRequests, NoReply
<1>2. PairingInv /\ [PairingNext]_pairVars => PairingInv'
  <2>1. ASSUME PairingInv, UNCHANGED pairVars PROVE PairingInv'
    BY <2>1 DEF pairVars, PairingInv
  <2> QED BY <2>1, ClusterWatches, NetworkWatches, BrokerWatches DEF PairingNext
<1>3. PairingInv => ScanIsWatched
  BY DEF PairingInv, Watches, ScanIsWatched
<1> QED BY <1>1, <1>2, <1>3, PTL DEF PairingSpec

=============================================================================
