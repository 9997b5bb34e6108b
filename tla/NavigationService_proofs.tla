----------------------- MODULE NavigationService_proofs -----------------------
(***************************************************************************)
(* Safety of the navigation service for any destinations, search texts and *)
(* alternatives.  NavInv says what the service's own fields owe each       *)
(* other, CacheInv the same of the file on disk; beside them stand what    *)
(* relates the two, and the search.                                        *)
(***************************************************************************)
EXTENDS NavigationService, TLAPS

NavType ==
  [state : States, destination : Places, route : Routes, alternatives : Places,
   selected : {-1} \cup Alternatives, guiding : BOOLEAN, rerouting : BOOLEAN,
   offRouteHits : 0 .. 2, recent : BOOLEAN, requests : SUBSET Requests]
CacheType == [destination : Places, route : Routes, guiding : BOOLEAN]

\* A route and its alternatives lead somewhere, and guidance has a route.
Coherent(n) ==
  /\ n.selected = -1 <=> n.alternatives = None
  /\ n.alternatives \in {None, n.destination}
  /\ n.route # NoRoute => n.destination # None
  /\ n.guiding => n.route # NoRoute
NavInv(n) == n \in NavType /\ Coherent(n)

\* The second look off the route has been acted on.
Looked(n, g) == n.guiding /\ g /\ n.offRouteHits = 2 => n.rerouting

CacheInv(c) ==
  /\ c \in CacheType
  /\ c.route # NoRoute => c.destination # None
  /\ c.guiding => c.route # NoRoute

SearchInv == search \in [query : Queries \cup {Short}, results : Queries \cup {None}, asked : SUBSET Searches]
             /\ ResultsMatchQuery

WorldInv == gpsReady \in BOOLEAN /\ vehicle \in {"on", "off", "back"}

ServiceInv ==
  /\ NavInv(nav) /\ Looked(nav, gpsReady)
  /\ CacheInv(cache) /\ (cache.guiding => nav.route # NoRoute)
  /\ SearchInv /\ WorldInv

-----------------------------------------------------------------------------
(* What the handlers are built from *)

LEMMA PlacesAreNotNone == \A d \in Destinations : d # None /\ d \in Places /\ [to |-> d, alt |-> 0] \in Routes
  BY NavigationAssumption DEF Places, Routes

LEMMA RoutesLead ==
  ASSUME NEW d \in Destinations, NEW i \in Alternatives
  PROVE  [to |-> d, alt |-> i] \in Routes /\ [to |-> d, alt |-> i] # NoRoute
<1>1. d # None
  BY NavigationAssumption
<1>2. [to |-> d, alt |-> i] # NoRoute
  BY <1>1 DEF NoRoute
<1> QED BY <1>2 DEF Routes

LEMMA RetiredRequests == \A rs \in SUBSET Requests : Retired(rs) \in SUBSET Requests
  BY DEF Retired, Requests

\* A request changes the state, the reroute flag and the requests only.
LEMMA Requested ==
  ASSUME NEW n \in NavType, NEW reroute \in BOOLEAN, NEW g \in BOOLEAN
  PROVE  LET m == RequestRoute(n, reroute, g)
         IN /\ m \in NavType
            /\ m.destination = n.destination /\ m.route = n.route /\ m.guiding = n.guiding
            /\ m.alternatives = n.alternatives /\ m.selected = n.selected
            /\ m.offRouteHits = n.offRouteHits
            /\ m.rerouting = IF n.destination # None /\ g THEN reroute ELSE n.rerouting
<1>1. CASE n.destination = None
  BY <1>1 DEF RequestRoute
<1>2. CASE n.destination # None /\ ~g
  <2>1. RequestRoute(n, reroute, g) = [n EXCEPT !.state = "no_gps"]
    BY <1>2 DEF RequestRoute
  <2>2. "no_gps" \in States
    BY DEF States
  <2> QED BY <1>2, <2>1, <2>2 DEF NavType
<1>3. CASE n.destination # None /\ g
  <2> DEFINE s == IF reroute THEN "rerouting" ELSE "routing"
             asked == Retired(n.requests) \cup {[to |-> n.destination, cur |-> TRUE]}
             m == [[[[n EXCEPT !.state = s] EXCEPT !.rerouting = reroute] EXCEPT !.recent = TRUE] EXCEPT !.requests = asked]
  <2>1. s \in States
    BY DEF States
  <2>2. asked \in SUBSET Requests
    <3>1. n.destination \in Destinations
      BY <1>3 DEF NavType, Places
    <3>2. n.requests \in SUBSET Requests
      BY DEF NavType
    <3>3. Retired(n.requests) \in SUBSET Requests
      BY <3>2, RetiredRequests
    <3>4. [to |-> n.destination, cur |-> TRUE] \in Requests
      BY <3>1 DEF Requests
    <3> QED BY <3>3, <3>4
  <2>3. RequestRoute(n, reroute, g) = m
    BY <1>3 DEF RequestRoute, NavType
  <2> HIDE DEF s, asked
  <2>4. /\ m \in NavType /\ m.destination = n.destination /\ m.route = n.route /\ m.guiding = n.guiding
        /\ m.alternatives = n.alternatives /\ m.selected = n.selected
        /\ m.offRouteHits = n.offRouteHits /\ m.rerouting = reroute
    BY <2>1, <2>2 DEF NavType
  <2> QED BY <1>3, <2>3, <2>4
<1> QED BY <1>1, <1>2, <1>3

LEMMA RequestKeeps ==
  ASSUME NEW n, NavInv(n), NEW reroute \in BOOLEAN, NEW g \in BOOLEAN
  PROVE  NavInv(RequestRoute(n, reroute, g))
<1>1. n \in NavType
  BY DEF NavInv
<1> QED BY <1>1, Requested DEF NavInv, Coherent

LEMMA Counted ==
  ASSUME NEW n, NavInv(n), NEW v
  PROVE  LET m == CountHits(n, v)
         IN /\ NavInv(m)
            /\ m.destination = n.destination /\ m.route = n.route /\ m.guiding = n.guiding
            /\ m.alternatives = n.alternatives /\ m.selected = n.selected /\ m.rerouting = n.rerouting
<1> DEFINE h == IF v # "off" THEN 0 ELSE IF n.offRouteHits < 2 THEN n.offRouteHits + 1 ELSE 2
           m == [n EXCEPT !.offRouteHits = h]
<1>1. n \in NavType
  BY DEF NavInv
<1>2. h \in 0 .. 2
  BY <1>1 DEF NavType
<1>3. CountHits(n, v) = m
  BY <1>1 DEF CountHits, NavType
<1> HIDE DEF h
<1>4. /\ m \in NavType /\ m.destination = n.destination /\ m.route = n.route /\ m.guiding = n.guiding
      /\ m.alternatives = n.alternatives /\ m.selected = n.selected /\ m.rerouting = n.rerouting
  BY <1>1, <1>2 DEF NavType
<1> HIDE DEF m
<1>5. NavInv(m)
  BY <1>4 DEF NavInv, Coherent
<1> QED BY <1>3, <1>4, <1>5

\* After updateGuidance no second look is left without its reroute.
LEMMA Guided ==
  ASSUME NEW n, NavInv(n), NEW g \in BOOLEAN, NEW v
  PROVE  LET m == UpdateGuidance(n, g, v)
         IN /\ NavInv(m) /\ Looked(m, g)
            /\ m.destination = n.destination /\ m.route = n.route /\ m.guiding = n.guiding
            /\ m.alternatives = n.alternatives /\ m.selected = n.selected
<1> DEFINE k == IF HasRoute(n) THEN CountHits(n, v) ELSE n
<1>1. /\ NavInv(k)
      /\ k.destination = n.destination /\ k.route = n.route /\ k.guiding = n.guiding
      /\ k.alternatives = n.alternatives /\ k.selected = n.selected
  BY Counted
<1>2. UpdateGuidance(n, g, v) = IF MustReroute(k, g, v) THEN RequestRoute(k, TRUE, g) ELSE k
  BY DEF UpdateGuidance
<1> HIDE DEF k
<1>3. k \in NavType /\ Coherent(k)
  BY <1>1 DEF NavInv
<1>4. CASE MustReroute(k, g, v)
  <2> DEFINE m == RequestRoute(k, TRUE, g)
  <2>1. k.destination # None /\ g
    BY <1>4 DEF MustReroute
  <2>2. /\ m.destination = k.destination /\ m.route = k.route /\ m.guiding = k.guiding
        /\ m.alternatives = k.alternatives /\ m.selected = k.selected
        /\ m.rerouting = TRUE
    BY <1>3, <2>1, Requested
  <2>3. NavInv(m)
    BY <1>1, RequestKeeps
  <2>4. UpdateGuidance(n, g, v) = m
    BY <1>2, <1>4
  <2> HIDE DEF m
  <2> QED BY <1>1, <2>2, <2>3, <2>4 DEF Looked
<1>5. CASE ~MustReroute(k, g, v)
  <2>1. Looked(k, g)
    BY <1>3, <1>5 DEF Looked, MustReroute, HasRoute, Coherent
  <2> QED BY <1>1, <1>2, <1>5, <2>1
<1> QED BY <1>4, <1>5

LEMMA FromVehicle ==
  ASSUME NEW n, NavInv(n), NEW g \in BOOLEAN, NEW v
  PROVE  LET m == UpdateFromVehicle(n, g, v)
         IN /\ NavInv(m) /\ Looked(m, g)
            /\ m.destination = n.destination /\ m.route = n.route /\ m.guiding = n.guiding
            /\ m.alternatives = n.alternatives /\ m.selected = n.selected
<1>1. CASE g
  BY <1>1, Guided DEF UpdateFromVehicle
<1>2. CASE ~g
  <2> DEFINE s == IF HasRoute(n) THEN "degraded" ELSE "no_gps"
             m == [n EXCEPT !.state = s]
  <2>1. n \in NavType /\ s \in States
    BY DEF NavInv, States
  <2>2. UpdateFromVehicle(n, g, v) = m
    BY <1>2 DEF UpdateFromVehicle
  <2> HIDE DEF s
  <2>3. /\ m \in NavType /\ m.destination = n.destination /\ m.route = n.route /\ m.guiding = n.guiding
        /\ m.alternatives = n.alternatives /\ m.selected = n.selected
    BY <2>1 DEF NavType
  <2> HIDE DEF m
  <2>4. NavInv(m) /\ Looked(m, g)
    BY <1>2, <2>3 DEF NavInv, Coherent, Looked
  <2> QED BY <2>2, <2>3, <2>4
<1> QED BY <1>1, <1>2

\* A route of the file has a destination; without one everything starts empty.
LEMMA StartedWell ==
  ASSUME NEW c, CacheInv(c)
  PROVE  /\ NavInv(Started(c)) /\ Looked(Started(c), FALSE)
         /\ Started(c).route = c.route /\ Started(c).selected = -1
<1> DEFINE d == IF c.route = NoRoute THEN None ELSE c.destination
           guides == c.route # NoRoute /\ c.guiding
           n == [state |-> "idle", destination |-> d, route |-> c.route, alternatives |-> None,
                 selected |-> -1, guiding |-> guides, rerouting |-> FALSE, offRouteHits |-> 0,
                 recent |-> FALSE, requests |-> {}]
<1>1. d \in Places /\ guides \in BOOLEAN /\ c.route \in Routes /\ None \in Places /\ "idle" \in States
  BY DEF CacheInv, CacheType, Places, States
<1>2. (c.route # NoRoute => d # None) /\ (guides => c.route # NoRoute)
  BY DEF CacheInv
<1>3. Started(c) = UpdateFromVehicle(n, FALSE, "on")
  BY DEF Started
<1> HIDE DEF d, guides
<1>4. n \in NavType
  BY <1>1 DEF NavType
<1>5. NavInv(n) /\ n.route = c.route /\ n.selected = -1
  BY <1>2, <1>4 DEF NavInv, Coherent
<1> HIDE DEF n
<1>6. PICK g \in BOOLEAN : ~g
  OBVIOUS
<1>7. UpdateFromVehicle(n, FALSE, "on") = UpdateFromVehicle(n, g, "on")
  <2>1. g = FALSE
    BY <1>6
  <2> QED BY <2>1
<1>8. /\ NavInv(UpdateFromVehicle(n, g, "on"))
      /\ UpdateFromVehicle(n, g, "on").route = n.route
      /\ UpdateFromVehicle(n, g, "on").selected = n.selected
  BY <1>5, FromVehicle
<1>9. Looked(Started(c), FALSE)
  BY DEF Looked
<1> QED BY <1>3, <1>5, <1>7, <1>8, <1>9

LEMMA PersistKeeps ==
  ASSUME NEW n, NavInv(n)
  PROVE  CacheInv(Persist(n)) /\ Persist(n).guiding = n.guiding
  BY DEF NavInv, NavType, Coherent, Persist, CacheInv, CacheType

LEMMA EmptyCacheKeeps == CacheInv(EmptyCache) /\ ~EmptyCache.guiding
  BY DEF CacheInv, CacheType, EmptyCache, Places, Routes

LEMMA InitHolds == Init => ServiceInv
<1> SUFFICES ASSUME Init PROVE ServiceInv
  OBVIOUS
<1>1. NavInv(nav) /\ Looked(nav, gpsReady) /\ CacheInv(cache) /\ ~cache.guiding
  BY EmptyCacheKeeps, StartedWell DEF Init
<1>2. SearchInv /\ WorldInv
  BY DEF Init, NoSearch, SearchInv, ResultsMatchQuery, WorldInv
<1> QED BY <1>1, <1>2 DEF ServiceInv

\* Only the state, or the requests, change.
LEMMA StateChanges ==
  ASSUME NEW n, NavInv(n), NEW s \in States, NEW g
  PROVE  LET m == [n EXCEPT !.state = s]
         IN /\ NavInv(m) /\ (Looked(n, g) => Looked(m, g)) /\ m.route = n.route
            /\ m.destination = n.destination /\ m.guiding = n.guiding /\ m.selected = n.selected
<1> DEFINE m == [n EXCEPT !.state = s]
<1>1. n \in NavType
  BY DEF NavInv
<1>2. /\ m \in NavType /\ m.destination = n.destination /\ m.route = n.route /\ m.guiding = n.guiding
      /\ m.alternatives = n.alternatives /\ m.selected = n.selected
      /\ m.rerouting = n.rerouting /\ m.offRouteHits = n.offRouteHits
  BY <1>1 DEF NavType
<1> HIDE DEF m
<1>3. NavInv(m) /\ (Looked(n, g) => Looked(m, g))
  BY <1>2 DEF NavInv, Coherent, Looked
<1> QED BY <1>2, <1>3 DEF m

LEMMA RequestsChange ==
  ASSUME NEW n, NavInv(n), NEW rs \in SUBSET Requests, NEW g
  PROVE  LET m == [n EXCEPT !.requests = rs]
         IN /\ NavInv(m) /\ (Looked(n, g) => Looked(m, g)) /\ m.route = n.route
            /\ m.destination = n.destination /\ m.guiding = n.guiding /\ m.selected = n.selected
<1> DEFINE m == [n EXCEPT !.requests = rs]
<1>1. n \in NavType
  BY DEF NavInv
<1>2. /\ m \in NavType /\ m.destination = n.destination /\ m.route = n.route /\ m.guiding = n.guiding
      /\ m.alternatives = n.alternatives /\ m.selected = n.selected
      /\ m.rerouting = n.rerouting /\ m.offRouteHits = n.offRouteHits
  BY <1>1 DEF NavType
<1> HIDE DEF m
<1>3. NavInv(m) /\ (Looked(n, g) => Looked(m, g))
  BY <1>2 DEF NavInv, Coherent, Looked
<1> QED BY <1>2, <1>3 DEF m

-----------------------------------------------------------------------------
(* Searching *)

LEMMA SearchKeeps ==
  ASSUME ServiceInv, NEW q \in Queries \cup {Short}, Search(q)
  PROVE  ServiceInv' /\ nav'.route = nav.route
<1> DEFINE kept == IF q = search.query THEN search.results ELSE None
           shown == IF q = Short THEN None ELSE kept
           new == IF q = Short THEN {} ELSE {[query |-> q, cur |-> TRUE, stage |-> "primary"]}
           all == Disowned(search.asked) \cup new
           s == IF q # Short THEN "searching" ELSE IF nav.state = "searching" THEN "idle" ELSE nav.state
<1>1. /\ search' = [query |-> q, results |-> shown, asked |-> all]
      /\ UNCHANGED <<gpsReady, vehicle, cache>>
  BY DEF Search
<1>2. nav \in NavType
  BY DEF ServiceInv, NavInv
<1>3. nav' = [nav EXCEPT !.state = s] /\ s \in States
  BY <1>2 DEF Search, NavType, States
<1>4. shown \in Queries \cup {None} /\ shown \in {None, q}
  BY DEF ServiceInv, SearchInv, ResultsMatchQuery
<1>5. all \in SUBSET Searches
  <2>1. new \in SUBSET Searches
    BY DEF Searches
  <2>2. Disowned(search.asked) \in SUBSET Searches
    <3>1. search.asked \in SUBSET Searches
      BY DEF ServiceInv, SearchInv
    <3> QED BY <3>1 DEF Disowned, Searches
  <2> QED BY <2>1, <2>2
<1> HIDE DEF shown, all, s
<1>6. SearchInv'
  BY <1>1, <1>4, <1>5 DEF SearchInv, ResultsMatchQuery
<1>7. NavInv(nav') /\ Looked(nav', gpsReady) /\ nav'.route = nav.route
  BY <1>3, StateChanges DEF ServiceInv
<1> QED BY <1>1, <1>6, <1>7 DEF ServiceInv, WorldInv

LEMMA SettledIsState == Settled(nav) \in States /\ "degraded" \in States /\ "idle" \in States
  BY DEF Settled, States

LEMMA SearchReplyKeeps ==
  ASSUME ServiceInv, NEW a \in search.asked, NEW worth \in {"nothing", "good", "weak"}, SearchReply(a, worth)
  PROVE  ServiceInv' /\ nav'.route = nav.route
<1> DEFINE rest == search.asked \ {a}
           again(s) == rest \cup {[a EXCEPT !.stage = s]}
<1>1. search \in [query : Queries \cup {Short}, results : Queries \cup {None}, asked : SUBSET Searches]
      /\ a \in Searches /\ rest \in SUBSET Searches
  BY DEF ServiceInv, SearchInv
<1>2. again("fallback") \in SUBSET Searches /\ again("refine") \in SUBSET Searches
  <2>1. [a EXCEPT !.stage = "fallback"] \in Searches /\ [a EXCEPT !.stage = "refine"] \in Searches
    BY <1>1 DEF Searches
  <2> QED BY <1>1, <2>1
<1>3. a.query \in Queries
  BY <1>1 DEF Searches
<1>4. UNCHANGED <<gpsReady, vehicle, cache>>
  BY DEF SearchReply
<1>5. nav' = nav \/ \E s \in States : nav' = [nav EXCEPT !.state = s]
  BY SettledIsState DEF SearchReply
<1>6. NavInv(nav') /\ Looked(nav', gpsReady) /\ nav'.route = nav.route
  BY <1>5, StateChanges DEF ServiceInv
<1>7. SearchInv'
  <2>1. \E asked \in SUBSET Searches, results \in {search.results, a.query, None} :
          /\ search' = [[search EXCEPT !.results = results] EXCEPT !.asked = asked]
          /\ results = a.query => a.query = search.query \/ results = search.results
    <3>1. CASE ~IsCurrentSearch(a)
      <4>1. search' = [search EXCEPT !.asked = rest]
        BY <3>1 DEF SearchReply
      <4>2. search = [search EXCEPT !.results = search.results]
        BY <1>1
      <4> QED BY <1>1, <4>1, <4>2
    <3>2. CASE IsCurrentSearch(a) /\ a.stage = "primary" /\ worth = "nothing"
      <4>1. search' = [search EXCEPT !.asked = again("fallback")]
        BY <3>2 DEF SearchReply
      <4>2. search = [search EXCEPT !.results = search.results]
        BY <1>1
      <4> HIDE DEF again
      <4> QED BY <1>2, <4>1, <4>2
    <3>3. CASE IsCurrentSearch(a) /\ a.stage = "primary" /\ worth # "nothing"
      <4> DEFINE asked == IF worth = "weak" THEN again("refine") ELSE rest
      <4>1. search' = [[search EXCEPT !.results = a.query] EXCEPT !.asked = asked]
        BY <1>1, <3>3 DEF SearchReply
      <4>2. asked \in SUBSET Searches
        BY <1>1, <1>2
      <4>3. a.query = search.query
        BY <3>3 DEF IsCurrentSearch
      <4> HIDE DEF asked
      <4> QED BY <4>1, <4>2, <4>3
    <3>4. CASE IsCurrentSearch(a) /\ a.stage # "primary"
      <4> DEFINE results == IF worth # "nothing" THEN a.query ELSE IF a.stage = "refine" THEN search.results ELSE None
      <4>1. search' = [[search EXCEPT !.results = results] EXCEPT !.asked = rest]
        BY <1>1, <3>4 DEF SearchReply
      <4>2. a.query = search.query
        BY <3>4 DEF IsCurrentSearch
      <4>3. results \in {search.results, a.query, None}
        OBVIOUS
      <4> HIDE DEF results, rest
      <4> QED BY <1>1, <4>1, <4>2, <4>3
    <3> QED BY <3>1, <3>2, <3>3, <3>4
  <2>2. PICK asked \in SUBSET Searches, results \in {search.results, a.query, None} :
          /\ search' = [[search EXCEPT !.results = results] EXCEPT !.asked = asked]
          /\ results = a.query => a.query = search.query \/ results = search.results
    BY <2>1
  <2>3. search.results \in {None, search.query}
    BY DEF ServiceInv, SearchInv, ResultsMatchQuery
  <2>4. results \in Queries \cup {None} /\ results \in {None, search.query}
    BY <1>1, <1>3, <2>2, <2>3
  <2>5. /\ search'.query = search.query /\ search'.results = results
        /\ search' \in [query : Queries \cup {Short}, results : Queries \cup {None}, asked : SUBSET Searches]
    BY <1>1, <2>2, <2>4
  <2> QED BY <2>4, <2>5 DEF SearchInv, ResultsMatchQuery
<1> QED BY <1>4, <1>6, <1>7 DEF ServiceInv, WorldInv

-----------------------------------------------------------------------------
(* Destinations and routes *)

Leads == nav'.route # nav.route /\ nav'.selected # -1 => nav'.route.to = nav'.destination

LEMMA SetDestinationKeeps ==
  ASSUME ServiceInv, NEW d \in Destinations, SetDestination(d)
  PROVE  ServiceInv' /\ nav'.route = nav.route
<1> DEFINE rs == Retired(nav.requests)
           n == [[[[[nav EXCEPT !.destination = d] EXCEPT !.alternatives = None] EXCEPT !.selected = -1]
                       EXCEPT !.guiding = FALSE] EXCEPT !.requests = rs]
           m == RequestRoute(n, FALSE, gpsReady)
<1>1. nav \in NavType /\ Coherent(nav) /\ gpsReady \in BOOLEAN
  BY DEF ServiceInv, NavInv, WorldInv
<1>2. rs \in SUBSET Requests
  BY <1>1, RetiredRequests DEF NavType
<1>3. nav' = m /\ UNCHANGED <<search, gpsReady, vehicle, cache>>
  BY <1>1 DEF SetDestination, NavType
<1>4. d # None /\ d \in Places /\ None \in Places
  BY PlacesAreNotNone DEF Places
<1> HIDE DEF rs
<1>5. /\ n \in NavType /\ n.destination = d /\ n.route = nav.route /\ n.alternatives = None
      /\ n.selected = -1 /\ n.guiding = FALSE
  BY <1>1, <1>2, <1>4 DEF NavType
<1> HIDE DEF n
<1>6. NavInv(n)
  BY <1>4, <1>5 DEF NavInv, Coherent
<1>7. NavInv(m) /\ m.route = nav.route /\ m.guiding = FALSE
  BY <1>1, <1>5, <1>6, Requested, RequestKeeps
<1> HIDE DEF m
<1> QED BY <1>3, <1>7 DEF ServiceInv, SearchInv, ResultsMatchQuery, WorldInv, Looked

LEMMA SelectKeeps ==
  ASSUME ServiceInv, NEW i \in Alternatives, SelectRouteAlternative(i)
  PROVE  ServiceInv' /\ Leads
<1> DEFINE r == [to |-> nav.alternatives, alt |-> i]
           n == [[[nav EXCEPT !.selected = i] EXCEPT !.guiding = FALSE] EXCEPT !.route = r]
           m == UpdateGuidance(n, gpsReady, vehicle')
<1>1. nav \in NavType /\ Coherent(nav) /\ gpsReady \in BOOLEAN
  BY DEF ServiceInv, NavInv, WorldInv
<1>2. nav.alternatives # None /\ nav.alternatives = nav.destination /\ nav.alternatives \in Destinations
  BY <1>1 DEF SelectRouteAlternative, Coherent, NavType, Places
<1>3. r \in Routes /\ r # NoRoute /\ r.to = nav.destination
  BY <1>2, RoutesLead
<1>4. n = [nav EXCEPT !.selected = i, !.guiding = FALSE, !.route = r]
  BY <1>1 DEF NavType
<1>5. /\ nav' = m /\ cache' = Persist(n) /\ vehicle' \in {"on", "off"} /\ UNCHANGED <<search, gpsReady>>
  BY <1>4 DEF SelectRouteAlternative
<1>6. i # -1
  BY NavigationAssumption
<1> HIDE DEF r
<1>7. /\ n \in NavType /\ n.destination = nav.destination /\ n.route = r
      /\ n.alternatives = nav.alternatives /\ n.selected = i /\ n.guiding = FALSE
  BY <1>1, <1>3 DEF NavType
<1> HIDE DEF n
<1>8. NavInv(n)
  BY <1>1, <1>2, <1>6, <1>7 DEF NavInv, Coherent
<1>9. /\ NavInv(m) /\ Looked(m, gpsReady) /\ m.route = r /\ m.destination = nav.destination
  BY <1>1, <1>7, <1>8, Guided
<1>10. CacheInv(cache') /\ cache'.guiding = FALSE
  BY <1>5, <1>7, <1>8, PersistKeeps
<1> HIDE DEF m
<1>11. ServiceInv'
  BY <1>5, <1>9, <1>10 DEF ServiceInv, SearchInv, ResultsMatchQuery, WorldInv
<1> QED BY <1>3, <1>5, <1>9, <1>11 DEF Leads

LEMMA StartGuidanceKeeps ==
  ASSUME ServiceInv, StartGuidance
  PROVE  ServiceInv' /\ nav'.route = nav.route
<1> DEFINE n == [nav EXCEPT !.guiding = TRUE]
           m == UpdateGuidance(n, gpsReady, vehicle)
<1>1. nav \in NavType /\ Coherent(nav) /\ gpsReady \in BOOLEAN /\ nav.route # NoRoute
  BY DEF ServiceInv, NavInv, WorldInv, StartGuidance, HasRoute
<1>2. nav' = m /\ cache' = Persist(nav') /\ UNCHANGED <<search, gpsReady, vehicle>>
  BY DEF StartGuidance
<1>3. /\ n \in NavType /\ n.destination = nav.destination /\ n.route = nav.route
      /\ n.alternatives = nav.alternatives /\ n.selected = nav.selected
  BY <1>1 DEF NavType
<1> HIDE DEF n
<1>4. NavInv(n)
  BY <1>1, <1>3 DEF NavInv, Coherent
<1>5. NavInv(m) /\ Looked(m, gpsReady) /\ m.route = nav.route
  BY <1>1, <1>3, <1>4, Guided
<1> HIDE DEF m
<1>6. CacheInv(cache')
  BY <1>2, <1>5, PersistKeeps
<1> QED BY <1>1, <1>2, <1>5, <1>6 DEF ServiceInv, SearchInv, ResultsMatchQuery, WorldInv

LEMMA ClearRouteKeeps ==
  ASSUME ServiceInv, ClearRoute
  PROVE  ServiceInv' /\ nav'.selected = -1
<1> DEFINE rs == Retired(nav.requests)
           s == IF gpsReady THEN "idle" ELSE "no_gps"
           n == [[[[[[[[[nav EXCEPT !.destination = None] EXCEPT !.route = NoRoute]
                     EXCEPT !.alternatives = None] EXCEPT !.selected = -1] EXCEPT !.guiding = FALSE]
                     EXCEPT !.rerouting = FALSE] EXCEPT !.offRouteHits = 0] EXCEPT !.requests = rs]
                     EXCEPT !.state = s]
<1>1. nav \in NavType
  BY DEF ServiceInv, NavInv
<1>2. rs \in SUBSET Requests /\ s \in States
  BY <1>1, RetiredRequests DEF NavType, States
<1>3. nav' = n /\ cache' = EmptyCache /\ UNCHANGED <<search, gpsReady, vehicle>>
  BY <1>1 DEF ClearRoute, NavType
<1>4. None \in Places /\ NoRoute \in Routes /\ 0 \in 0 .. 2
  BY DEF Places, Routes
<1> HIDE DEF rs, s
<1>5. /\ n \in NavType /\ n.destination = None /\ n.route = NoRoute /\ n.alternatives = None
      /\ n.selected = -1 /\ n.guiding = FALSE
  BY <1>1, <1>2, <1>4 DEF NavType
<1> HIDE DEF n
<1>6. NavInv(n) /\ Looked(n, gpsReady)
  BY <1>5 DEF NavInv, Coherent, Looked
<1> QED BY <1>3, <1>5, <1>6, EmptyCacheKeeps DEF ServiceInv, SearchInv, ResultsMatchQuery, WorldInv

LEMMA CameraUpdateKeeps ==
  ASSUME ServiceInv, CameraUpdate
  PROVE  ServiceInv' /\ nav'.route = nav.route
<1>1. NavInv(nav) /\ gpsReady \in BOOLEAN
  BY DEF ServiceInv, WorldInv
<1>2. nav' = UpdateGuidance(nav, gpsReady, vehicle) /\ UNCHANGED <<search, gpsReady, vehicle, cache>>
  BY DEF CameraUpdate
<1>3. NavInv(nav') /\ Looked(nav', gpsReady) /\ nav'.route = nav.route
  BY <1>1, <1>2, Guided
<1> QED BY <1>2, <1>3 DEF ServiceInv, SearchInv, ResultsMatchQuery, WorldInv

-----------------------------------------------------------------------------
(* Answers *)

LEMMA RouteDroppedKeeps ==
  ASSUME ServiceInv, NEW r, RouteDropped(r)
  PROVE  ServiceInv' /\ nav'.route = nav.route
<1>1. NavInv(nav) /\ nav.requests \ {r} \in SUBSET Requests
  BY DEF ServiceInv, NavInv, NavType
<1>2. nav' = [nav EXCEPT !.requests = nav.requests \ {r}] /\ UNCHANGED <<search, gpsReady, vehicle, cache>>
  BY DEF RouteDropped
<1>3. NavInv(nav') /\ (Looked(nav, gpsReady) => Looked(nav', gpsReady)) /\ nav'.route = nav.route
  BY <1>1, <1>2, RequestsChange
<1> QED BY <1>2, <1>3 DEF ServiceInv, SearchInv, ResultsMatchQuery, WorldInv

LEMMA RouteFailsKeeps ==
  ASSUME ServiceInv, NEW r, RouteFails(r)
  PROVE  ServiceInv' /\ nav'.route = nav.route
<1> DEFINE rs == nav.requests \ {r}
           s == IF HasRoute(nav) THEN "active" ELSE "degraded"
           n == [[[nav EXCEPT !.requests = rs] EXCEPT !.rerouting = FALSE] EXCEPT !.state = s]
           m == UpdateGuidance(n, gpsReady, vehicle)
<1>1. nav \in NavType /\ Coherent(nav) /\ gpsReady \in BOOLEAN
  BY DEF ServiceInv, NavInv, WorldInv
<1>2. rs \in SUBSET Requests /\ s \in States
  BY <1>1 DEF NavType, States
<1>3. nav' = m /\ UNCHANGED <<search, gpsReady, vehicle, cache>>
  BY <1>1 DEF RouteFails, NavType
<1> HIDE DEF rs, s
<1>4. /\ n \in NavType /\ n.destination = nav.destination /\ n.route = nav.route
      /\ n.alternatives = nav.alternatives /\ n.selected = nav.selected /\ n.guiding = nav.guiding
  BY <1>1, <1>2 DEF NavType
<1> HIDE DEF n
<1>5. NavInv(n)
  BY <1>1, <1>4 DEF NavInv, Coherent
<1>6. NavInv(m) /\ Looked(m, gpsReady) /\ m.route = nav.route
  BY <1>1, <1>4, <1>5, Guided
<1> HIDE DEF m
<1> QED BY <1>3, <1>6 DEF ServiceInv, SearchInv, ResultsMatchQuery, WorldInv

LEMMA RouteArrivesKeeps ==
  ASSUME ServiceInv, NEW r \in nav.requests, RouteArrives(r)
  PROVE  ServiceInv' /\ Leads
<1> DEFINE rs == nav.requests \ {r}
           road == [to |-> r.to, alt |-> 0]
           n == [[[[[[[nav EXCEPT !.requests = rs] EXCEPT !.rerouting = FALSE] EXCEPT !.state = "active"]
                     EXCEPT !.route = road] EXCEPT !.alternatives = r.to] EXCEPT !.selected = 0]
                     EXCEPT !.offRouteHits = 0]
           m == UpdateGuidance(n, gpsReady, vehicle')
<1>1. nav \in NavType /\ Coherent(nav) /\ gpsReady \in BOOLEAN
  BY DEF ServiceInv, NavInv, WorldInv
<1>2. r.to \in Destinations /\ r.to = nav.destination
  BY <1>1 DEF NavType, Requests, RouteArrives, IsCurrent
<1>3. rs \in SUBSET Requests /\ "active" \in States /\ 0 \in Alternatives /\ 0 \in 0 .. 2
  BY <1>1, NavigationAssumption DEF NavType, States
<1>4. road \in Routes /\ road # NoRoute /\ road.to = r.to /\ r.to \in Places /\ r.to # None
  BY <1>2, <1>3, RoutesLead, PlacesAreNotNone
<1>5. n = [nav EXCEPT !.requests = @ \ {r}, !.rerouting = FALSE, !.state = "active",
                      !.route = road, !.alternatives = r.to, !.selected = 0, !.offRouteHits = 0]
  BY <1>1 DEF NavType
<1>6. nav' = m /\ cache' = Persist(n) /\ vehicle' \in {"on", "off"} /\ UNCHANGED <<search, gpsReady>>
  BY <1>5 DEF RouteArrives
<1> HIDE DEF rs, road
<1>7. /\ n \in NavType /\ n.destination = nav.destination /\ n.route = road
      /\ n.alternatives = r.to /\ n.selected = 0 /\ n.guiding = nav.guiding
  BY <1>1, <1>3, <1>4 DEF NavType
<1> HIDE DEF n
<1>8. NavInv(n)
  BY <1>1, <1>2, <1>4, <1>7 DEF NavInv, Coherent
<1>9. NavInv(m) /\ Looked(m, gpsReady) /\ m.route = road /\ m.destination = nav.destination
  BY <1>1, <1>7, <1>8, Guided
<1>10. CacheInv(cache')
  BY <1>6, <1>8, PersistKeeps
<1> HIDE DEF m
<1>11. ServiceInv'
  BY <1>4, <1>6, <1>9, <1>10 DEF ServiceInv, SearchInv, ResultsMatchQuery, WorldInv
<1> QED BY <1>2, <1>4, <1>6, <1>9, <1>11 DEF Leads

-----------------------------------------------------------------------------
(* Time, the vehicle, the process *)

LEMMA VehicleSignalKeeps ==
  ASSUME ServiceInv, VehicleSignal
  PROVE  ServiceInv' /\ nav'.route = nav.route
<1>1. NavInv(nav) /\ gpsReady' \in BOOLEAN /\ vehicle' \in {"on", "off", "back"}
  BY DEF ServiceInv, VehicleSignal
<1>2. nav' = UpdateFromVehicle(nav, gpsReady', vehicle') /\ UNCHANGED <<search, cache>>
  BY DEF VehicleSignal
<1>3. NavInv(nav') /\ Looked(nav', gpsReady') /\ nav'.route = nav.route
  BY <1>1, <1>2, FromVehicle
<1> QED BY <1>1, <1>2, <1>3 DEF ServiceInv, SearchInv, ResultsMatchQuery, WorldInv

\* A refresh takes the reroute flag down, but finds it down.
LEMMA RefreshTimerKeeps ==
  ASSUME ServiceInv, RefreshTimer
  PROVE  ServiceInv' /\ nav'.route = nav.route
<1> DEFINE m == RequestRoute(nav, FALSE, gpsReady)
<1>1. NavInv(nav) /\ nav \in NavType /\ gpsReady \in BOOLEAN
  BY DEF ServiceInv, NavInv, WorldInv
<1>2. nav' = m /\ UNCHANGED <<search, gpsReady, vehicle, cache>>
  BY DEF RefreshTimer
<1>3. nav.guiding /\ ~nav.rerouting /\ gpsReady /\ nav.offRouteHits # 2
  BY DEF RefreshTimer, ServiceInv, Looked
<1>4. NavInv(m) /\ m.route = nav.route /\ m.offRouteHits = nav.offRouteHits
  BY <1>1, Requested, RequestKeeps
<1> HIDE DEF m
<1> QED BY <1>2, <1>3, <1>4 DEF ServiceInv, SearchInv, ResultsMatchQuery, WorldInv, Looked

LEMMA TenSecondsKeeps ==
  ASSUME ServiceInv, TenSecondsPass
  PROVE  ServiceInv' /\ nav'.route = nav.route
<1> DEFINE m == [nav EXCEPT !.recent = FALSE]
<1>1. nav \in NavType /\ Coherent(nav)
  BY DEF ServiceInv, NavInv
<1>2. nav' = m /\ UNCHANGED <<search, gpsReady, vehicle, cache>>
  BY DEF TenSecondsPass
<1>3. /\ m \in NavType /\ m.destination = nav.destination /\ m.route = nav.route
      /\ m.alternatives = nav.alternatives /\ m.selected = nav.selected /\ m.guiding = nav.guiding
      /\ m.rerouting = nav.rerouting /\ m.offRouteHits = nav.offRouteHits
  BY <1>1 DEF NavType
<1> HIDE DEF m
<1>4. NavInv(m) /\ (Looked(nav, gpsReady) => Looked(m, gpsReady))
  BY <1>1, <1>3 DEF NavInv, Coherent, Looked
<1> QED BY <1>2, <1>3, <1>4 DEF ServiceInv, SearchInv, ResultsMatchQuery, WorldInv

LEMMA RestartKeeps ==
  ASSUME ServiceInv, Restart
  PROVE  ServiceInv' /\ nav'.selected = -1
<1>1. CacheInv(cache')
  BY EmptyCacheKeeps DEF Restart, ServiceInv
<1>2. nav' = Started(cache') /\ search' = NoSearch /\ gpsReady' = FALSE /\ vehicle' = "on"
  BY DEF Restart
<1>3. NavInv(nav') /\ Looked(nav', FALSE) /\ nav'.route = cache'.route /\ nav'.selected = -1
  BY <1>1, <1>2, StartedWell
<1>4. cache'.guiding => nav'.route # NoRoute
  BY <1>1, <1>3 DEF CacheInv
<1>5. SearchInv' /\ WorldInv'
  BY <1>2 DEF NoSearch, SearchInv, ResultsMatchQuery, WorldInv
<1>6. Looked(nav', gpsReady')
  BY <1>2, <1>3
<1> QED BY <1>1, <1>3, <1>4, <1>5, <1>6 DEF ServiceInv

LEMMA NextKeeps ==
  ASSUME ServiceInv, Next
  PROVE  ServiceInv' /\ Leads
<1>1. CASE User
  BY <1>1, SearchKeeps, SetDestinationKeeps, SelectKeeps, StartGuidanceKeeps, ClearRouteKeeps,
     CameraUpdateKeeps DEF User, Leads
<1>2. CASE Network
  BY <1>2, SearchReplyKeeps, RouteDroppedKeeps, RouteFailsKeeps, RouteArrivesKeeps DEF Network, Leads
<1>3. CASE VehicleSignal \/ RefreshTimer \/ TenSecondsPass \/ Restart
  BY <1>3, VehicleSignalKeeps, RefreshTimerKeeps, TenSecondsKeeps, RestartKeeps DEF Leads
<1> QED BY <1>1, <1>2, <1>3 DEF Next

-----------------------------------------------------------------------------
(* The reroute flag *)

\* Two states of the service that agree on what the flag is about.
SameFlag(m, n) == m.rerouting = n.rerouting /\ m.destination = n.destination /\ m.requests = n.requests

LEMMA SameFlagLeftUp == \A m, n : SameFlag(m, n) /\ FlagLeftUp(m) => FlagLeftUp(n)
  BY DEF SameFlag, FlagLeftUp, Asked

\* A request takes the flag with it, or leaves everything as it is.
LEMMA RequestFlag ==
  ASSUME NEW n \in NavType, NEW reroute \in BOOLEAN, NEW g \in BOOLEAN
  PROVE  FlagLeftUp(RequestRoute(n, reroute, g)) => FlagLeftUp(n) /\ ~(g /\ n.destination # None)
<1> DEFINE m == RequestRoute(n, reroute, g)
<1>1. CASE n.destination = None
  BY <1>1 DEF RequestRoute
<1>2. CASE n.destination # None /\ ~g
  <2>1. m = [n EXCEPT !.state = "no_gps"]
    BY <1>2 DEF RequestRoute
  <2>2. SameFlag(m, n)
    BY <2>1 DEF NavType, SameFlag
  <2> QED BY <1>2, <2>2, SameFlagLeftUp
<1>3. CASE n.destination # None /\ g
  <2> DEFINE r == [to |-> n.destination, cur |-> TRUE]
             asked == Retired(n.requests) \cup {r}
  <2>1. m = [n EXCEPT !.state = IF reroute THEN "rerouting" ELSE "routing",
                      !.rerouting = reroute, !.recent = TRUE, !.requests = asked]
    BY <1>3 DEF RequestRoute
  <2>2. r \in asked
    OBVIOUS
  <2> HIDE DEF asked
  <2>3. m.requests = asked /\ m.destination = n.destination
    BY <2>1 DEF NavType
  <2> QED BY <2>2, <2>3 DEF FlagLeftUp, Asked
<1> QED BY <1>1, <1>2, <1>3

LEMMA GuidedFlag ==
  ASSUME NEW n, NavInv(n), NEW g \in BOOLEAN, NEW v
  PROVE  FlagLeftUp(UpdateGuidance(n, g, v)) => FlagLeftUp(n)
<1> DEFINE k == IF HasRoute(n) THEN CountHits(n, v) ELSE n
<1>1. NavInv(k)
  BY Counted
<1>2. SameFlag(k, n)
  BY DEF SameFlag, CountHits, NavInv, NavType
<1>3. UpdateGuidance(n, g, v) = IF MustReroute(k, g, v) THEN RequestRoute(k, TRUE, g) ELSE k
  BY DEF UpdateGuidance
<1> HIDE DEF k
<1>4. FlagLeftUp(UpdateGuidance(n, g, v)) => FlagLeftUp(k)
  BY <1>1, <1>3, RequestFlag DEF NavInv
<1> QED BY <1>2, <1>4, SameFlagLeftUp

LEMMA FromVehicleFlag ==
  ASSUME NEW n, NavInv(n), NEW g \in BOOLEAN, NEW v
  PROVE  FlagLeftUp(UpdateFromVehicle(n, g, v)) => FlagLeftUp(n)
<1>1. CASE g
  BY <1>1, GuidedFlag DEF UpdateFromVehicle
<1>2. CASE ~g
  <2>1. SameFlag(UpdateFromVehicle(n, g, v), n)
    BY <1>2 DEF UpdateFromVehicle, SameFlag, NavInv, NavType
  <2> QED BY <2>1, SameFlagLeftUp
<1> QED BY <1>1, <1>2

LEMMA StartedFlag == \A c : ~FlagLeftUp(Started(c))
  BY DEF Started, UpdateFromVehicle, FlagLeftUp

\* What the user does leaves the flag up only by choosing a place without a fix.
LEMMA UserFlag ==
  ASSUME ServiceInv, User, FlagLeftUp(nav')
  PROVE  FlagLeftUp(nav) \/ (~gpsReady /\ \E d \in Destinations : SetDestination(d))
<1>1. NavInv(nav) /\ nav \in NavType /\ gpsReady \in BOOLEAN
  BY DEF ServiceInv, NavInv, WorldInv
<1>2. ASSUME NEW q \in Queries \cup {Short}, Search(q) PROVE FlagLeftUp(nav)
  <2>1. SameFlag(nav', nav)
    BY <1>1, <1>2 DEF Search, SameFlag, NavType
  <2> QED BY <2>1, SameFlagLeftUp
<1>3. ASSUME NEW d \in Destinations, SetDestination(d) PROVE ~gpsReady
  <2> DEFINE n == [nav EXCEPT !.destination = d, !.alternatives = None, !.selected = -1,
                              !.guiding = FALSE, !.requests = Retired(@)]
  <2>1. nav' = RequestRoute(n, FALSE, gpsReady)
    BY <1>3 DEF SetDestination
  <2>2. d # None /\ d \in Places /\ None \in Places /\ Retired(nav.requests) \in SUBSET Requests
    BY <1>1, PlacesAreNotNone, RetiredRequests DEF Places, NavType
  <2>3. n \in NavType /\ n.destination = d
    BY <1>1, <2>2 DEF NavType
  <2> HIDE DEF n
  <2> QED BY <1>1, <2>1, <2>2, <2>3, RequestFlag
<1>4. ASSUME NEW i \in Alternatives, SelectRouteAlternative(i) PROVE FlagLeftUp(nav)
  <2> DEFINE n == [nav EXCEPT !.selected = i, !.guiding = FALSE,
                              !.route = [to |-> nav.alternatives, alt |-> i]]
  <2>1. nav' = UpdateGuidance(n, gpsReady, vehicle') /\ SameFlag(n, nav)
    BY <1>1, <1>4 DEF SelectRouteAlternative, SameFlag, NavType
  <2>2. NavInv(n)
    <3>1. nav.alternatives = nav.destination /\ nav.alternatives \in Destinations /\ nav.alternatives # None
      BY <1>1, <1>4 DEF SelectRouteAlternative, NavInv, Coherent, NavType, Places
    <3>2. [to |-> nav.alternatives, alt |-> i] \in Routes /\ i # -1
      BY <3>1, RoutesLead, NavigationAssumption
    <3>3. /\ n \in NavType /\ n.destination = nav.destination /\ n.alternatives = nav.alternatives
          /\ n.selected = i /\ n.guiding = FALSE
      BY <1>1, <3>2 DEF NavType
    <3> HIDE DEF n
    <3> QED BY <3>1, <3>2, <3>3 DEF NavInv, Coherent
  <2> HIDE DEF n
  <2> QED BY <1>1, <2>1, <2>2, GuidedFlag, SameFlagLeftUp
<1>5. ASSUME StartGuidance PROVE FlagLeftUp(nav)
  <2> DEFINE n == [nav EXCEPT !.guiding = TRUE]
  <2>1. nav' = UpdateGuidance(n, gpsReady, vehicle) /\ SameFlag(n, nav)
    BY <1>1, <1>5 DEF StartGuidance, SameFlag, NavType
  <2>2. NavInv(n)
    <3>1. /\ n \in NavType /\ n.destination = nav.destination /\ n.alternatives = nav.alternatives
          /\ n.selected = nav.selected /\ n.route = nav.route /\ nav.route # NoRoute
      BY <1>1, <1>5 DEF NavType, StartGuidance, HasRoute
    <3> HIDE DEF n
    <3> QED BY <1>1, <3>1 DEF NavInv, Coherent
  <2> HIDE DEF n
  <2> QED BY <1>1, <2>1, <2>2, GuidedFlag, SameFlagLeftUp
<1>6. ASSUME ClearRoute PROVE FALSE
  <2>1. nav'.rerouting = FALSE
    BY <1>1, <1>6 DEF ClearRoute, NavType
  <2> QED BY <2>1 DEF FlagLeftUp
<1>7. ASSUME CameraUpdate PROVE FlagLeftUp(nav)
  BY <1>1, <1>7, GuidedFlag DEF CameraUpdate
<1> QED BY <1>2, <1>3, <1>4, <1>5, <1>6, <1>7 DEF User

\* The flag comes down with the answer; an answer that is dropped was not awaited.
LEMMA NetworkFlag ==
  ASSUME ServiceInv, Network, FlagLeftUp(nav')
  PROVE  FlagLeftUp(nav)
<1>1. NavInv(nav) /\ nav \in NavType /\ gpsReady \in BOOLEAN
  BY DEF ServiceInv, NavInv, WorldInv
<1>2. ASSUME NEW a \in search.asked, NEW w \in {"nothing", "good", "weak"}, SearchReply(a, w)
      PROVE  FlagLeftUp(nav)
  <2>1. nav' = nav \/ \E s \in States : nav' = [nav EXCEPT !.state = s]
    BY <1>2, SettledIsState DEF SearchReply
  <2>2. SameFlag(nav', nav)
    BY <1>1, <2>1 DEF SameFlag, NavType
  <2> QED BY <2>2, SameFlagLeftUp
<1>3. ASSUME NEW r, RouteDropped(r) PROVE FlagLeftUp(nav)
  <2>1. nav'.rerouting = nav.rerouting /\ nav'.destination = nav.destination
        /\ nav'.requests = nav.requests \ {r}
    BY <1>1, <1>3 DEF RouteDropped, NavType
  <2>2. r # [to |-> nav.destination, cur |-> TRUE]
    BY <1>3 DEF RouteDropped, IsCurrent
  <2> QED BY <2>1, <2>2 DEF FlagLeftUp, Asked
<1>4. ASSUME NEW r, RouteFails(r) PROVE FALSE
  <2> DEFINE s == IF HasRoute(nav) THEN "active" ELSE "degraded"
             rs == nav.requests \ {r}
             n == [nav EXCEPT !.requests = rs, !.rerouting = FALSE, !.state = s]
  <2>1. nav' = UpdateGuidance(n, gpsReady, vehicle)
    BY <1>4 DEF RouteFails
  <2>2. s \in States /\ rs \in SUBSET Requests
    BY <1>1 DEF States, NavType
  <2> HIDE DEF s, rs
  <2>3. /\ n \in NavType /\ n.destination = nav.destination /\ n.route = nav.route
        /\ n.alternatives = nav.alternatives /\ n.selected = nav.selected /\ n.guiding = nav.guiding
        /\ ~n.rerouting
    BY <1>1, <2>2 DEF NavType
  <2> HIDE DEF n
  <2>4. NavInv(n) /\ ~FlagLeftUp(n)
    BY <1>1, <2>3 DEF NavInv, Coherent, FlagLeftUp
  <2> QED BY <1>1, <2>1, <2>4, GuidedFlag
<1>5. ASSUME NEW r \in nav.requests, RouteArrives(r) PROVE FALSE
  <2> DEFINE road == [to |-> r.to, alt |-> 0]
             rs == nav.requests \ {r}
             n == [nav EXCEPT !.requests = rs, !.rerouting = FALSE, !.state = "active",
                              !.route = road, !.alternatives = r.to, !.selected = 0, !.offRouteHits = 0]
  <2>1. nav' = UpdateGuidance(n, gpsReady, vehicle')
    BY <1>5 DEF RouteArrives
  <2>2. r.to \in Destinations /\ r.to = nav.destination
    BY <1>1, <1>5 DEF NavType, Requests, RouteArrives, IsCurrent
  <2>3. rs \in SUBSET Requests /\ "active" \in States /\ 0 \in Alternatives /\ 0 \in 0 .. 2
    BY <1>1, NavigationAssumption DEF NavType, States
  <2>4. road \in Routes /\ road # NoRoute /\ r.to \in Places /\ r.to # None
    BY <2>2, <2>3, RoutesLead, PlacesAreNotNone
  <2> HIDE DEF rs, road
  <2>5. /\ n \in NavType /\ n.destination = nav.destination /\ n.route = road
        /\ n.alternatives = r.to /\ n.selected = 0 /\ n.guiding = nav.guiding /\ ~n.rerouting
    BY <1>1, <2>3, <2>4 DEF NavType
  <2> HIDE DEF n
  <2>6. NavInv(n) /\ ~FlagLeftUp(n)
    BY <1>1, <2>2, <2>4, <2>5 DEF NavInv, Coherent, FlagLeftUp
  <2> QED BY <1>1, <2>1, <2>6, GuidedFlag
<1> QED BY <1>2, <1>3, <1>4, <1>5 DEF Network

LEMMA FlagKept ==
  ASSUME ServiceInv, Next, FlagLeftUp(nav')
  PROVE  FlagLeftUp(nav) \/ (~gpsReady /\ \E d \in Destinations : SetDestination(d))
<1>1. NavInv(nav) /\ nav \in NavType /\ gpsReady \in BOOLEAN
  BY DEF ServiceInv, NavInv, WorldInv
<1>2. ASSUME VehicleSignal PROVE FlagLeftUp(nav)
  BY <1>1, <1>2, FromVehicleFlag DEF VehicleSignal
<1>3. ASSUME RefreshTimer PROVE FlagLeftUp(nav)
  BY <1>1, <1>3, RequestFlag DEF RefreshTimer
<1>4. ASSUME TenSecondsPass PROVE FlagLeftUp(nav)
  <2>1. SameFlag(nav', nav)
    BY <1>1, <1>4 DEF TenSecondsPass, SameFlag, NavType
  <2> QED BY <2>1, SameFlagLeftUp
<1>5. ASSUME Restart PROVE FALSE
  BY <1>5, StartedFlag DEF Restart
<1> QED BY <1>2, <1>3, <1>4, <1>5, UserFlag, NetworkFlag DEF Next

-----------------------------------------------------------------------------
(* What the service keeps *)

LEMMA StutterKeeps == ServiceInv /\ UNCHANGED vars => ServiceInv'
  BY DEF vars, ServiceInv, SearchInv, ResultsMatchQuery, WorldInv

\* The inductive invariant of the service: destination, route, alternatives and
\* guidance against each other, in memory and on disk, and the second look.
THEOREM ServiceInvariant == Spec => []ServiceInv
  BY InitHolds, NextKeeps, StutterKeeps, PTL DEF Spec

\* The service's state keeps its type; a selection exists exactly with alternatives.
THEOREM TypeCorrect == Spec => []TypeOK
<1>1. ServiceInv => TypeOK
  BY DEF ServiceInv, TypeOK, NavInv, NavType, Coherent, SearchInv, WorldInv, CacheInv, CacheType
<1> QED BY <1>1, ServiceInvariant, PTL

\* Results on the screen are those of the text in the field.
THEOREM ResultsHold == Spec => []ResultsMatchQuery
<1>1. ServiceInv => ResultsMatchQuery
  BY DEF ServiceInv, SearchInv
<1> QED BY <1>1, ServiceInvariant, PTL

\* Guidance, in memory or to be resumed from disk, has a route and a place to go.
THEOREM GuidanceHolds == Spec => []GuidanceHasARoute
<1>1. ServiceInv => GuidanceHasARoute
  BY DEF ServiceInv, NavInv, Coherent, GuidanceHasARoute, HasRoute
<1> QED BY <1>1, ServiceInvariant, PTL

\* Guiding with a good GPS, the second look off the route finds a reroute under
\* way or starts one, and m_rerouting never outlives its request, but for a
\* destination that is chosen without a fix.
THEOREM RerouteHolds == Spec => NoMissedReroute
<1> DEFINE Seen == /\ nav'.guiding /\ gpsReady' /\ nav'.offRouteHits = 2 => Asked(nav') \/ FlagLeftUp(nav')
                   /\ FlagLeftUp(nav') => FlagLeftUp(nav) \/ (~gpsReady /\ \E d \in Destinations : SetDestination(d))
<1>1. ServiceInv /\ [Next]_vars => [Seen]_vars
  <2> SUFFICES ASSUME ServiceInv, Next PROVE Seen
    OBVIOUS
  <2>1. Looked(nav', gpsReady')
    BY NextKeeps DEF ServiceInv
  <2> QED BY <2>1, FlagKept DEF Looked, FlagLeftUp
<1>2. [][Seen]_vars => NoMissedReroute
  BY DEF NoMissedReroute
<1> QED BY <1>1, <1>2, ServiceInvariant, PTL DEF Spec

\* A route is taken over only for the destination wanted at that moment.
THEOREM RoutesLeadThere == Spec => NewRoutesLeadToTheDestination
<1>1. ServiceInv /\ [Next]_vars => [Leads]_vars
  BY NextKeeps
<1>2. [][Leads]_vars => NewRoutesLeadToTheDestination
  BY DEF Leads, NewRoutesLeadToTheDestination
<1> QED BY <1>1, <1>2, ServiceInvariant, PTL DEF Spec
===============================================================================
