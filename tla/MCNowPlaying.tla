----------------------------- MODULE MCNowPlaying -----------------------------
(***************************************************************************)
(* The two halves of NowPlayingService with the Spotify back end, for      *)
(* model checking.  They meet in the tokens only: PairingReady is what a   *)
(* pairing is to the player, and a login that is missing or refused lets a *)
(* pairing begin.  A behaviour follows one of them, chosen at the start.   *)
(***************************************************************************)
EXTENDS NowPlayingService, SpotifyPairing

VARIABLE half      \* the one this behaviour follows

serviceVars == <<half, vars, pairVars>>

\* The half that does not move has one state, with nothing to wait for.
ServiceInit ==
  /\ half \in {"player", "pairing"}
  /\ Init
  /\ half = "pairing" =>
       /\ ~p.refreshable /\ p.token = "none"
       /\ world = [liked |-> {}, accepts |-> FALSE, well |-> FALSE]
  /\ PairingInit
  /\ half = "player" => viaBroker

Player(action) == half = "player" /\ action /\ UNCHANGED <<half, pairVars>>
Pairing(action) == half = "pairing" /\ action /\ UNCHANGED <<half, vars>>

ServiceNext == Player(Next) \/ Pairing(PairingNext)

\* The fairness of the player, and of the pairing: the poll timer fires again and again,
\* and a request that is not lost is answered.
ServiceFairness ==
  /\ SF_serviceVars(Player(Refresh)) /\ WF_serviceVars(Player(ConfirmTimer))
  /\ WF_serviceVars(Player(Answered))
  /\ WF_serviceVars(Pairing(Poll)) /\ WF_serviceVars(Pairing(ReadForPoll))
  /\ WF_serviceVars(Pairing(DeleteClaimed)) /\ WF_serviceVars(Pairing(ReplyCame))

ServiceSpec == ServiceInit /\ [][ServiceNext]_serviceVars /\ ServiceFairness
===============================================================================
