----------------------------- MODULE VehicleHub -----------------------------
(***************************************************************************)
(* The process around the vehicle hub's frames: the asyncio broadcast      *)
(* loop, the WebSocket handlers that add and remove clients, the watchdog  *)
(* task that pets systemd, main's gather, and systemd's restart.           *)
(*                                                                         *)
(* asyncio switches tasks only at an await that suspends.  ws.send to a    *)
(* healthy client does not suspend; it does while the client's transport   *)
(* is over its high-water mark, and while the connection is closing (the   *)
(* library waits for the close to finish, then raises).  `pc = "iterate"`  *)
(* therefore excludes every other task; "suspended" and "asleep" do not.   *)
(***************************************************************************)
EXTENDS Naturals, FiniteSets

CONSTANTS Clients,       \* WebSocket connection objects, reused once forgotten
          MaxLag,        \* WATCHDOG_MAX_LOOP_LAG_SEC, in ticks
          WatchdogSec,   \* the unit's WatchdogSec, in ticks
          PetInterval    \* sd_notify.watchdog_interval_sec, in ticks

ASSUME HubAssumption ==
  /\ IsFiniteSet(Clients)
  /\ MaxLag \in Nat \ {0} /\ WatchdogSec \in Nat
  /\ PetInterval \in 1 .. WatchdogSec

VARIABLES
  proc,        \* the hub process: "up" or "down"
  conn,        \* [Clients -> "none", "open", "closing" or "lost"]
  stalled,     \* clients whose transport is over its high-water mark
  registered,  \* self.clients
  loop,        \* broadcast_loop: [pc, visited, start, waiting, failed],
               \* the last three: the iterated set, the suspended send, the failures
  lag,         \* ticks since last_loop_monotonic
  pet,         \* [timer, age]: watchdog_loop's sleep; ticks since the last pet
  served       \* history: clients this round has delivered a frame to

vars == <<proc, conn, stalled, registered, loop, lag, pet, served>>

Asleep == [pc |-> "asleep", visited |-> {}, start |-> {}, waiting |-> {}, failed |-> {}]

LagLimit == MaxLag + WatchdogSec + 2    \* bound on the counters, never reached

LoopState ==
  [pc : {"asleep", "iterate", "suspended", "dead"}, visited : SUBSET Clients,
   start : SUBSET Clients, waiting : SUBSET Clients, failed : SUBSET Clients]

TypeOK ==
  /\ proc \in {"up", "down"}
  /\ conn \in [Clients -> {"none", "open", "closing", "lost"}]
  /\ stalled \subseteq Clients /\ registered \subseteq Clients /\ served \subseteq Clients
  /\ loop \in LoopState
  /\ lag \in 0 .. LagLimit
  /\ pet \in [timer : 0 .. PetInterval, age : 0 .. LagLimit]

\* The state a freshly started process is in; READY=1 starts systemd's clock.
Fresh ==
  /\ conn' = [c \in Clients |-> "none"]
  /\ stalled' = {} /\ registered' = {} /\ served' = {}
  /\ loop' = Asleep
  /\ lag' = 0
  /\ pet' = [timer |-> 0, age |-> 0]

Init ==
  /\ proc = "up"
  /\ conn = [c \in Clients |-> "none"]
  /\ stalled = {} /\ registered = {} /\ served = {}
  /\ loop = Asleep
  /\ lag = 0
  /\ pet = [timer |-> 0, age |-> 0]

\* Another task than the broadcast loop may run.
LoopYields == proc = "up" /\ loop.pc \in {"asleep", "suspended"}

-----------------------------------------------------------------------------
(* broadcast_loop *)

BroadcastRound ==
  /\ proc = "up" /\ loop.pc = "asleep"
  /\ lag' = 0
  /\ IF registered = {}
     THEN UNCHANGED <<loop, served>>
     ELSE /\ loop' = [Asleep EXCEPT !.pc = "iterate", !.start = registered]
          /\ served' = {}
  /\ UNCHANGED <<proc, conn, stalled, registered, pet>>

\* CPython's set iterator raises when the set's size is not what it was.
SizeChanged == Cardinality(registered) # Cardinality(loop.start)

IteratorFails ==
  /\ proc = "up" /\ loop.pc = "iterate" /\ SizeChanged
  /\ loop' = [loop EXCEPT !.pc = "dead"]
  /\ UNCHANGED <<proc, conn, stalled, registered, lag, pet, served>>

\* ws.send for the iterator's next client: done, raised or suspended.
SendNext(c) ==
  /\ proc = "up" /\ loop.pc = "iterate" /\ ~SizeChanged
  /\ c \in registered \ loop.visited
  /\ \/ /\ conn[c] = "open" /\ c \notin stalled
        /\ loop' = [loop EXCEPT !.visited = @ \cup {c}]
        /\ served' = served \cup {c}
     \/ /\ conn[c] = "lost"
        /\ loop' = [loop EXCEPT !.visited = @ \cup {c}, !.failed = @ \cup {c}]
        /\ UNCHANGED served
     \/ /\ conn[c] = "closing" \/ (conn[c] = "open" /\ c \in stalled)
        /\ loop' = [loop EXCEPT !.pc = "suspended", !.waiting = {c}, !.visited = @ \cup {c}]
        /\ UNCHANGED served
  /\ UNCHANGED <<proc, conn, stalled, registered, lag, pet>>

\* The suspended send returns once drained, or raises once the connection is gone.
SendResumes ==
  /\ proc = "up" /\ loop.pc = "suspended"
  /\ \E c \in loop.waiting :
       \/ /\ conn[c] = "open" /\ c \notin stalled
          /\ loop' = [loop EXCEPT !.pc = "iterate", !.waiting = {}]
          /\ served' = served \cup {c}
       \/ /\ conn[c] \in {"lost", "none"}
          /\ loop' = [loop EXCEPT !.pc = "iterate", !.waiting = {}, !.failed = @ \cup {c}]
          /\ UNCHANGED served
  /\ UNCHANGED <<proc, conn, stalled, registered, lag, pet>>

\* The iterator is exhausted (it may miss clients added meanwhile): the failed
\* clients are removed and the loop sleeps for FRAME_PERIOD_SEC.
RoundEnds ==
  /\ proc = "up" /\ loop.pc = "iterate" /\ ~SizeChanged
  /\ loop.start \cap registered \subseteq loop.visited
  /\ registered' = registered \ loop.failed
  /\ loop' = Asleep
  /\ UNCHANGED <<proc, conn, stalled, lag, pet, served>>

-----------------------------------------------------------------------------
(* ws_handler: add_client when the connection opens, remove_client at its end *)

ClientConnects(c) ==
  /\ LoopYields /\ conn[c] = "none" /\ c \notin loop.waiting \cup loop.failed
  /\ conn' = [conn EXCEPT ![c] = "open"]
  /\ registered' = registered \cup {c}
  /\ UNCHANGED <<proc, stalled, loop, lag, pet, served>>

\* Mutant: the handler leaves its client behind.
HandlerExits_leaks(c) ==
  /\ LoopYields /\ conn[c] = "lost"
  /\ conn' = [conn EXCEPT ![c] = "none"]
  /\ UNCHANGED <<proc, registered, stalled, loop, lag, pet, served>>

\* wait_closed returned.
HandlerExits(c) ==
  /\ LoopYields /\ conn[c] = "lost"
  /\ conn' = [conn EXCEPT ![c] = "none"]
  /\ registered' = registered \ {c}
  /\ UNCHANGED <<proc, stalled, loop, lag, pet, served>>

-----------------------------------------------------------------------------
(* The clients and the WebSocket library: external *)

ClientStalls(c) ==
  /\ LoopYields /\ conn[c] = "open" /\ c \notin stalled
  /\ stalled' = stalled \cup {c}
  /\ UNCHANGED <<proc, conn, registered, loop, lag, pet, served>>

ClientDrains(c) ==
  /\ LoopYields /\ c \in stalled
  /\ stalled' = stalled \ {c}
  /\ UNCHANGED <<proc, conn, registered, loop, lag, pet, served>>

\* A close handshake starts (either side, or a missed keepalive), or the
\* connection breaks at once.
ClientLeaves(c) ==
  /\ LoopYields /\ conn[c] = "open"
  /\ \E s \in {"closing", "lost"} : conn' = [conn EXCEPT ![c] = s]
  /\ stalled' = stalled \ {c}
  /\ UNCHANGED <<proc, registered, loop, lag, pet, served>>

CloseCompletes(c) ==
  /\ LoopYields /\ conn[c] = "closing"
  /\ conn' = [conn EXCEPT ![c] = "lost"]
  /\ UNCHANGED <<proc, stalled, registered, loop, lag, pet, served>>

-----------------------------------------------------------------------------
(* watchdog_loop, main and systemd *)

\* Mutant: the watchdog is petted whatever the broadcast loop does.
WatchdogTurn_always ==
  /\ LoopYields /\ pet.timer = 0
  /\ pet' = [timer |-> PetInterval, age |-> 0]
  /\ UNCHANGED <<proc, conn, stalled, registered, loop, lag, served>>

\* Mutant: the watchdog's own turn counts as progress of the loop.
WatchdogTurn_touches ==
  /\ LoopYields /\ pet.timer = 0
  /\ pet' = [timer |-> PetInterval, age |-> 0]
  /\ lag' = 0
  /\ UNCHANGED <<proc, conn, stalled, registered, loop, served>>

\* A dead task makes main exit at once, so only the lag matters here.
WatchdogTurn ==
  /\ LoopYields /\ pet.timer = 0
  /\ pet' = [timer |-> PetInterval, age |-> IF lag <= MaxLag THEN 0 ELSE pet.age]
  /\ UNCHANGED <<proc, conn, stalled, registered, loop, lag, served>>

\* gather raises the broadcast task's exception, main cancels the rest.
MainExits ==
  /\ proc = "up" /\ loop.pc = "dead"
  /\ proc' = "down" /\ Fresh

\* systemd: WatchdogSec without a pet kills the process.
WatchdogKills ==
  /\ proc = "up" /\ pet.age > WatchdogSec
  /\ proc' = "down" /\ Fresh

\* Restart=always, StartLimitIntervalSec=0.
SystemdRestarts ==
  /\ proc = "down"
  /\ proc' = "up" /\ Fresh

\* One tick of time, much longer than the frame period: the loop, unless its
\* send is suspended, has run since the last one, and no timer is overdue.
Tick ==
  /\ LoopYields
  /\ loop.pc = "suspended" \/ lag = 0
  /\ pet.timer > 0 /\ pet.age <= WatchdogSec
  /\ lag' = lag + 1
  /\ pet' = [timer |-> pet.timer - 1, age |-> pet.age + 1]
  /\ UNCHANGED <<proc, conn, stalled, registered, loop, served>>

Broadcasting ==
  BroadcastRound \/ IteratorFails \/ SendResumes \/ RoundEnds \/ \E c \in Clients : SendNext(c)

Next ==
  \/ Broadcasting
  \/ \E c \in Clients : \/ ClientConnects(c) \/ HandlerExits(c) \/ ClientStalls(c)
                        \/ ClientDrains(c) \/ ClientLeaves(c) \/ CloseCompletes(c)
  \/ WatchdogTurn \/ MainExits \/ WatchdogKills \/ SystemdRestarts \/ Tick

\* The event loop runs what is ready, time passes, systemd does its part; a
\* close handshake ends (the library gives it a timeout).  Clients owe nothing.
Fairness ==
  /\ WF_vars(IteratorFails) /\ WF_vars(RoundEnds) /\ SF_vars(SendResumes)
  /\ SF_vars(BroadcastRound)
  /\ \A c \in Clients : /\ WF_vars(SendNext(c))
                        /\ WF_vars(HandlerExits(c)) /\ WF_vars(CloseCompletes(c))
  /\ SF_vars(WatchdogTurn) /\ WF_vars(MainExits) /\ WF_vars(WatchdogKills)
  /\ WF_vars(SystemdRestarts) /\ SF_vars(Tick)

Spec == Init /\ [][Next]_vars /\ Fairness

-----------------------------------------------------------------------------
(***************************************************************************)
(* A client that stops reading holds up everyone's frames, but never for   *)
(* longer than the loop-lag limit plus the systemd watchdog: a hung hub is *)
(* restarted (the watchdog_loop docstring).                                *)
(***************************************************************************)
StallIsBounded == lag <= MaxLag + WatchdogSec + 1

(***************************************************************************)
(* self.clients never keeps a connection whose handler has finished, and   *)
(* never misses an open one, although the broadcast loop and the handlers  *)
(* both remove clients.                                                    *)
(***************************************************************************)
RegistryMatchesConnections ==
  \A c \in Clients : /\ c \in registered => conn[c] # "none"
                     /\ conn[c] = "open" => c \in registered

(***************************************************************************)
(* Every client that stays connected and reading gets a frame: others that *)
(* stall, leave or crash the loop can only cost it the connection.         *)
(***************************************************************************)
OpenClientServed ==
  \A c \in Clients : conn[c] = "open" /\ c \notin stalled
                       ~> c \in served \/ conn[c] # "open" \/ c \in stalled

(***************************************************************************)
(* Clients may come and go as they like: none of it ends the broadcast     *)
(* task.                                                                   *)
(***************************************************************************)
ChurnIsHarmless == loop.pc # "dead"
=============================================================================
