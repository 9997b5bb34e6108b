-------------------------- MODULE NavigationService --------------------------
(***************************************************************************)
(* NavigationService: searches and route requests that are answered late,  *)
(* fail or are superseded, guidance along the active route, rerouting when *)
(* the vehicle leaves it, the periodic refresh, and the route cached on    *)
(* disk for the next start.                                                *)
(*                                                                         *)
(* A request carries its serial; here cur says whether that is still the   *)
(* active one.  Poses are abstracted to where the vehicle is against the   *)
(* active route.  Banner, ETA, camera, network status and voice prompts    *)
(* are computed from this state and are left out; the hotspot gate is off, *)
(* as it is by default, so providers are always allowed.                   *)
(***************************************************************************)
EXTENDS Integers

CONSTANTS Destinations, \* places
          Queries,      \* search texts of two characters or more
          Alternatives, \* how many routes an answer holds, as indices from 0
          None, Short   \* no place or text; a text too short to search

ASSUME NavigationAssumption ==
  /\ None \notin Destinations \cup Queries
  /\ Alternatives \subseteq Nat /\ 0 \in Alternatives
  /\ Short \notin Queries \cup {None}

VARIABLES
  nav,      \* the service: state, m_destination, m_activeRoute, ..., and its requests
  search,   \* m_lastSearchQuery, m_searchResults and the searches in flight
  gpsReady, \* gpsReady()
  vehicle,  \* against the active route: on it, off it, or driven back for 4 s
  cache     \* active_route.json

vars == <<nav, search, gpsReady, vehicle, cache>>

NoRoute == [to |-> None, alt |-> 0]
EmptyCache == [destination |-> None, route |-> NoRoute, guiding |-> FALSE]
Places == Destinations \cup {None}
Routes == [to : Destinations, alt : Alternatives] \cup {NoRoute}
Requests == [to : Destinations, cur : BOOLEAN]
Searches == [query : Queries, cur : BOOLEAN, stage : {"primary", "fallback", "refine"}]
States == {"idle", "no_gps", "searching", "routing", "rerouting", "active", "degraded"}

TypeOK ==
  /\ nav \in [state : States, destination : Places, route : Routes, alternatives : Places,
              selected : {-1} \cup Alternatives, guiding : BOOLEAN, rerouting : BOOLEAN,
              offRouteHits : 0 .. 2, recent : BOOLEAN, requests : SUBSET Requests]
  /\ search \in [query : Queries \cup {Short}, results : Queries \cup {None},
                 asked : SUBSET Searches]
  /\ nav.selected = -1 <=> nav.alternatives = None
  /\ gpsReady \in BOOLEAN /\ vehicle \in {"on", "off", "back"}
  /\ cache \in [destination : Places, route : Routes, guiding : BOOLEAN]

-----------------------------------------------------------------------------
(* What the handlers are built from *)

Retired(rs) == {[r EXCEPT !.cur = FALSE] : r \in rs}
HasRoute(n) == n.route # NoRoute

\* persistCache
Persist(n) == [destination |-> n.destination, route |-> n.route, guiding |-> n.guiding]

\* requestRoute and beginRouteRequest, g being gpsReady.
RequestRoute(n, reroute, g) ==
  IF n.destination = None THEN n
  ELSE IF ~g THEN [n EXCEPT !.state = "no_gps"]
  ELSE [n EXCEPT !.state = IF reroute THEN "rerouting" ELSE "routing",
                 !.rerouting = reroute, !.recent = TRUE,
                 !.requests = Retired(@) \cup {[to |-> n.destination, cur |-> TRUE]}]

MustReroute(n, g, v) ==
  /\ HasRoute(n) /\ n.guiding /\ g /\ ~n.rerouting /\ n.destination # None
  /\ n.offRouteHits = 2 \/ v = "back"

CountHits(n, v) ==
  [n EXCEPT !.offRouteHits = IF v # "off" THEN 0 ELSE IF @ < 2 THEN @ + 1 ELSE 2]

UpdateGuidance(n, g, v) ==
  LET m == IF HasRoute(n) THEN CountHits(n, v) ELSE n
  IN IF MustReroute(m, g, v) THEN RequestRoute(m, TRUE, g) ELSE m

UpdateFromVehicle(n, g, v) ==
  IF g THEN UpdateGuidance(n, g, v)
  ELSE [n EXCEPT !.state = IF HasRoute(n) THEN "degraded" ELSE "no_gps"]

\* The constructor, with what loadCache finds.
Started(c) ==
  UpdateFromVehicle(
    [state |-> "idle", destination |-> IF c.route = NoRoute THEN None ELSE c.destination,
     route |-> c.route, alternatives |-> None, selected |-> -1,
     guiding |-> c.route # NoRoute /\ c.guiding, rerouting |-> FALSE, offRouteHits |-> 0,
     recent |-> FALSE, requests |-> {}], FALSE, "on")

NoSearch == [query |-> Short, results |-> None, asked |-> {}]

Init ==
  /\ nav = Started(EmptyCache) /\ search = NoSearch
  /\ gpsReady = FALSE /\ vehicle = "on" /\ cache = EmptyCache

-----------------------------------------------------------------------------
(* Searching *)

\* Searches that were superseded: their answers are dropped at any stage.
Disowned(as) == {[a EXCEPT !.cur = FALSE, !.stage = "primary"] : a \in as}

\* The state when a search is over.
Settled(n) == IF HasRoute(n) THEN "active" ELSE "idle"

Search(q) ==
  LET kept == IF q = search.query THEN search.results ELSE None
  IN /\ search' = [query |-> q, results |-> IF q = Short THEN None ELSE kept,
                   asked |-> Disowned(search.asked) \cup
                             (IF q = Short THEN {} ELSE {[query |-> q, cur |-> TRUE, stage |-> "primary"]})]
     /\ nav' = [nav EXCEPT !.state = IF q # Short THEN "searching"
                                     ELSE IF @ = "searching" THEN "idle" ELSE @]
     /\ UNCHANGED <<gpsReady, vehicle, cache>>

\* Mutant: the answer to any search is taken.
IsCurrentSearch_any(a) == a.query # Short

IsCurrentSearch(a) == a.cur /\ a.query = search.query

\* What an answer is worth: nothing, results, or weak results to be refined.
SearchReply(a, worth) ==
  LET rest == search.asked \ {a}
      again(s) == rest \cup {[a EXCEPT !.stage = s]}
      degraded == IF HasRoute(nav) THEN "degraded" ELSE "idle"
      after == IF worth = "nothing" /\ a.stage = "fallback" THEN {degraded, Settled(nav)}
               ELSE {Settled(nav)}  \* an error, or an answer without results
  IN /\ \/ /\ ~IsCurrentSearch(a)
           /\ search' = [search EXCEPT !.asked = rest]
           /\ UNCHANGED nav
        \/ /\ IsCurrentSearch(a) /\ a.stage = "primary" /\ worth = "nothing"
           /\ search' = [search EXCEPT !.asked = again("fallback")]
           /\ UNCHANGED nav
        \/ /\ IsCurrentSearch(a) /\ a.stage = "primary" /\ worth # "nothing"
           /\ search' = [search EXCEPT !.results = a.query,
                                       !.asked = IF worth = "weak" THEN again("refine") ELSE rest]
           /\ nav' = [nav EXCEPT !.state = Settled(nav)]
        \/ /\ IsCurrentSearch(a) /\ a.stage # "primary"
           /\ search' = [search EXCEPT !.asked = rest,
                !.results = IF worth # "nothing" THEN a.query ELSE IF a.stage = "refine" THEN @ ELSE None]
           /\ \E s \in after : nav' = [nav EXCEPT !.state = s]
     /\ UNCHANGED <<gpsReady, vehicle, cache>>

-----------------------------------------------------------------------------
(* Choosing a destination and a route *)

\* The serial goes up at once, so that no answer on its way is taken for d's.
SetDestination(d) ==
  /\ nav' = RequestRoute([nav EXCEPT !.destination = d, !.alternatives = None, !.selected = -1,
                                     !.guiding = FALSE, !.requests = Retired(@)], FALSE, gpsReady)
  /\ UNCHANGED <<search, gpsReady, vehicle, cache>>

\* The vehicle may be off the route that is chosen.
SelectRouteAlternative(i) ==
  LET n == [nav EXCEPT !.selected = i, !.guiding = FALSE,
                       !.route = [to |-> nav.alternatives, alt |-> i]]
  IN /\ nav.alternatives # None
     /\ vehicle' \in {"on", "off"}
     /\ nav' = UpdateGuidance(n, gpsReady, vehicle')
     /\ cache' = Persist(n)
     /\ UNCHANGED <<search, gpsReady>>

StartGuidance ==
  /\ HasRoute(nav)
  /\ nav' = UpdateGuidance([nav EXCEPT !.guiding = TRUE], gpsReady, vehicle)
  /\ cache' = Persist(nav')
  /\ UNCHANGED <<search, gpsReady, vehicle>>

\* Mutant: the file on disk keeps the route that was cleared.
ClearRoute_keepsFile ==
  /\ nav' = [nav EXCEPT !.destination = None, !.route = NoRoute, !.alternatives = None,
                        !.selected = -1, !.guiding = FALSE, !.rerouting = FALSE, !.offRouteHits = 0,
                        !.requests = Retired(@), !.state = IF gpsReady THEN "idle" ELSE "no_gps"]
  /\ UNCHANGED <<search, gpsReady, vehicle, cache>>

ClearRoute ==
  /\ nav' = [nav EXCEPT !.destination = None, !.route = NoRoute, !.alternatives = None,
                        !.selected = -1, !.guiding = FALSE, !.rerouting = FALSE, !.offRouteHits = 0,
                        !.requests = Retired(@), !.state = IF gpsReady THEN "idle" ELSE "no_gps"]
  /\ cache' = EmptyCache
  /\ UNCHANGED <<search, gpsReady, vehicle>>

\* recenter, setFollowEnabled and the overview timer look at the guidance again.
CameraUpdate ==
  /\ nav' = UpdateGuidance(nav, gpsReady, vehicle)
  /\ UNCHANGED <<search, gpsReady, vehicle, cache>>

-----------------------------------------------------------------------------
(* Answers to route requests *)

\* Mutant: every answer is taken.
IsCurrent_any(r) == TRUE

IsCurrent(r) == r.cur /\ r.to = nav.destination

RouteDropped(r) ==
  /\ ~IsCurrent(r)
  /\ nav' = [nav EXCEPT !.requests = @ \ {r}]
  /\ UNCHANGED <<search, gpsReady, vehicle, cache>>

\* Mutant: a route that does not come leaves the reroute flag up.
RouteFails_keepsFlag(r) ==
  /\ IsCurrent(r)
  /\ nav' = UpdateGuidance([nav EXCEPT !.requests = @ \ {r},
                                       !.state = IF HasRoute(nav) THEN "active" ELSE "degraded"],
                           gpsReady, vehicle)
  /\ UNCHANGED <<search, gpsReady, vehicle, cache>>

RouteFails(r) ==
  /\ IsCurrent(r)
  /\ nav' = UpdateGuidance([nav EXCEPT !.requests = @ \ {r}, !.rerouting = FALSE,
                                       !.state = IF HasRoute(nav) THEN "active" ELSE "degraded"],
                           gpsReady, vehicle)
  /\ UNCHANGED <<search, gpsReady, vehicle, cache>>

\* The first alternative becomes the active route; by then the vehicle may have
\* left it again.
RouteArrives(r) ==
  LET n == [nav EXCEPT !.requests = @ \ {r}, !.rerouting = FALSE, !.state = "active",
                       !.route = [to |-> r.to, alt |-> 0], !.alternatives = r.to,
                       !.selected = 0, !.offRouteHits = 0]
  IN /\ IsCurrent(r)
     /\ vehicle' \in {"on", "off"}
     /\ nav' = UpdateGuidance(n, gpsReady, vehicle')
     /\ cache' = Persist(n)
     /\ UNCHANGED <<search, gpsReady>>

-----------------------------------------------------------------------------
(* Time, the vehicle, the process *)

\* A signal of VehicleStateSource; a drive back along the route ends off it or on it.
VehicleSignal ==
  /\ gpsReady' \in BOOLEAN /\ vehicle' \in {"on", "off", "back"}
  /\ nav' = UpdateFromVehicle(nav, gpsReady', vehicle')
  /\ UNCHANGED <<search, cache>>

\* maybeRefreshRoute, at most 10 s after the last request.
RefreshTimer ==
  /\ nav.guiding /\ HasRoute(nav) /\ nav.destination # None /\ ~nav.rerouting
  /\ gpsReady /\ ~nav.recent
  /\ nav' = RequestRoute(nav, FALSE, gpsReady)
  /\ UNCHANGED <<search, gpsReady, vehicle, cache>>

TenSecondsPass ==
  /\ nav.recent
  /\ nav' = [nav EXCEPT !.recent = FALSE]
  /\ UNCHANGED <<search, gpsReady, vehicle, cache>>

\* The process ends, perhaps while the truncated file is being written.
Restart ==
  /\ cache' \in {cache, EmptyCache}
  /\ nav' = Started(cache') /\ search' = NoSearch
  /\ gpsReady' = FALSE /\ vehicle' = "on"

User ==
  \/ \E q \in Queries \cup {Short} : Search(q)
  \/ \E d \in Destinations : SetDestination(d)
  \/ \E i \in Alternatives : SelectRouteAlternative(i)
  \/ StartGuidance \/ ClearRoute \/ CameraUpdate

Network ==
  \/ \E a \in search.asked, w \in {"nothing", "good", "weak"} : SearchReply(a, w)
  \/ \E r \in nav.requests : RouteDropped(r) \/ RouteFails(r) \/ RouteArrives(r)

Next == User \/ Network \/ VehicleSignal \/ RefreshTimer \/ TenSecondsPass \/ Restart

Spec == Init /\ [][Next]_vars

\* Every frame with a new position signals the service, its timer fires, and a
\* request that is made again and again is answered well in the end.
SteadySignal == VehicleSignal /\ gpsReady' = gpsReady /\ vehicle' = vehicle
Answered == \E r \in nav.requests : RouteArrives(r)

FairSpec ==
  /\ Spec
  /\ WF_vars(SteadySignal) /\ WF_vars(RefreshTimer) /\ WF_vars(TenSecondsPass)
  /\ SF_vars(Answered)

-----------------------------------------------------------------------------
(***************************************************************************)
(* A route is taken over only for the destination that is wanted at that   *)
(* moment, whatever requests for other places are still under way.         *)
(***************************************************************************)
NewRoutesLeadToTheDestination ==
  [][nav'.route # nav.route /\ nav'.selected # -1
       => nav'.route.to = nav'.destination]_vars

(***************************************************************************)
(* Results on the screen are those of the text in the field.               *)
(***************************************************************************)
ResultsMatchQuery == search.results \in {None, search.query}

(***************************************************************************)
(* Guidance follows a route and has a place to go, after a restart too.    *)
(***************************************************************************)
GuidanceHasARoute == nav.guiding \/ cache.guiding => HasRoute(nav) /\ nav.destination # None

\* A route to the destination is being fetched, and its answer will be taken.
Asked(n) == [to |-> n.destination, cur |-> TRUE] \in n.requests

\* m_rerouting says that a reroute is under way, and none is.
FlagLeftUp(n) == n.rerouting /\ ~Asked(n)

(***************************************************************************)
(* Guiding with a good GPS, the vehicle is never seen off the route twice  *)
(* without a reroute whose answer will be taken: no order of signals,      *)
(* failures, starts and refreshes lets the second look pass, or leaves     *)
(* m_rerouting up once its request is gone.  The one exception is a        *)
(* destination chosen without a fix, which retires the reroute in flight   *)
(* and leaves the flag up (NavigationService.cpp:296).                     *)
(***************************************************************************)
NoMissedReroute ==
  [][/\ nav'.guiding /\ gpsReady' /\ nav'.offRouteHits = 2 => Asked(nav') \/ FlagLeftUp(nav')
     /\ FlagLeftUp(nav') =>
          FlagLeftUp(nav) \/ (~gpsReady /\ \E d \in Destinations : SetDestination(d))]_vars

(***************************************************************************)
(* "Rerouting" (NavigationService.cpp:161) is told to the driver while     *)
(* m_rerouting is up: then a reroute is under way.                         *)
(***************************************************************************)
RerouteIsUnderWay == ~FlagLeftUp(nav)

(***************************************************************************)
(* "Destination saved. Route will build when GPS becomes valid."           *)
(* (NavigationService.cpp:731): if the GPS comes to stay, the route to a   *)
(* destination saved without it is requested, unless it is given up.       *)
(***************************************************************************)
SavedWithoutGps(d) ==
  nav.state = "no_gps" /\ nav.destination = d /\ nav.route.to # d /\ ~gpsReady

DestinationGetsItsRoute ==
  \A d \in Destinations :
    <>[]gpsReady =>
      (SavedWithoutGps(d) ~> (\E r \in nav.requests : r.to = d /\ r.cur) \/ nav.destination # d)
=============================================================================
