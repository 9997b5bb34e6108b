-------------------------- MODULE VehicleHub_proofs --------------------------
(***************************************************************************)
(* Safety of the hub process for any number of clients and any lag limit,  *)
(* watchdog time and pet interval, and of the three monitors it feeds.     *)
(* HubInv ties the loop's lag to the time since the watchdog was petted,   *)
(* and the sends that failed to connections that are already gone.         *)
(* BaselineInv weighs what is in memory against what is in the file;       *)
(* CanInv counts the rounds with a frame against the intervals kept of     *)
(* them; TransitionInv says of a template that it is whatever its windows  *)
(* were, and that its file lacks no more of them than are counted.         *)
(***************************************************************************)
EXTENDS VehicleHub, VehicleBaseline, CanDiagnostics, TransitionMonitor, FoldFacts

HubInv ==
  /\ TypeOK
  /\ lag <= MaxLag + pet.age
  /\ pet.age <= WatchdogSec + 1
  /\ RegistryMatchesConnections
  /\ \A c \in loop.failed : conn[c] \in {"lost", "none"}

LEMMA InitKeeps == Init => HubInv
  BY HubAssumption DEF Init, HubInv, TypeOK, Asleep, LoopState, LagLimit, RegistryMatchesConnections

\* A fresh process starts from the initial state.
LEMMA FreshKeeps ==
  ASSUME Fresh, proc' \in {"up", "down"}
  PROVE  HubInv'
  BY HubAssumption DEF Fresh, HubInv, TypeOK, Asleep, LoopState, LagLimit, RegistryMatchesConnections

LEMMA BroadcastingKeeps ==
  ASSUME HubInv, Broadcasting
  PROVE  HubInv'
<1>1. CASE BroadcastRound
  <2>1. loop' \in LoopState /\ (loop' = loop \/ loop'.failed = {})
    BY <1>1 DEF BroadcastRound, HubInv, TypeOK, Asleep, LoopState
  <2>2. 0 \in 0 .. LagLimit /\ lag' = 0
    BY <1>1, HubAssumption DEF BroadcastRound, LagLimit
  <2>3. served' \subseteq Clients /\ UNCHANGED <<proc, conn, stalled, registered, pet>>
    BY <1>1 DEF BroadcastRound, HubInv, TypeOK
  <2>4. TypeOK' /\ RegistryMatchesConnections'
    BY <2>1, <2>2, <2>3 DEF HubInv, TypeOK, RegistryMatchesConnections
  <2>5. \A c \in loop'.failed : conn'[c] \in {"lost", "none"}
    BY <2>1, <2>3 DEF HubInv
  <2>6. lag' <= MaxLag + pet'.age /\ pet'.age <= WatchdogSec + 1
    BY <2>2, <2>3, HubAssumption DEF HubInv, TypeOK, LagLimit
  <2> QED BY <2>4, <2>5, <2>6 DEF HubInv
<1>2. CASE IteratorFails
  BY <1>2 DEF IteratorFails, HubInv, TypeOK, LoopState, RegistryMatchesConnections
<1>3. CASE SendResumes
  <2>1. PICK c \in loop.waiting :
          \/ /\ loop' = [loop EXCEPT !.pc = "iterate", !.waiting = {}]
             /\ served' = served \cup {c}
          \/ /\ conn[c] \in {"lost", "none"}
             /\ loop' = [loop EXCEPT !.pc = "iterate", !.waiting = {}, !.failed = @ \cup {c}]
             /\ UNCHANGED served
    BY <1>3 DEF SendResumes
  <2>2. c \in Clients
    BY DEF HubInv, TypeOK, LoopState
  <2>3. /\ loop' \in LoopState
        /\ loop'.failed = loop.failed
             \/ (loop'.failed = loop.failed \cup {c} /\ conn[c] \in {"lost", "none"})
    <3>1. loop \in LoopState
      BY DEF HubInv, TypeOK
    <3>2. CASE loop' = [loop EXCEPT !.pc = "iterate", !.waiting = {}]
      BY <3>1, <3>2 DEF LoopState
    <3>3. CASE /\ loop' = [loop EXCEPT !.pc = "iterate", !.waiting = {}, !.failed = @ \cup {c}]
               /\ conn[c] \in {"lost", "none"}
      BY <2>2, <3>1, <3>3 DEF LoopState
    <3> QED BY <2>1, <3>2, <3>3
  <2>4. served' \subseteq Clients /\ UNCHANGED <<proc, conn, stalled, registered, lag, pet>>
    BY <1>3, <2>1, <2>2 DEF SendResumes, HubInv, TypeOK
  <2>5. TypeOK' /\ RegistryMatchesConnections'
    BY <2>3, <2>4 DEF HubInv, TypeOK, RegistryMatchesConnections
  <2>6. \A d \in loop'.failed : conn'[d] \in {"lost", "none"}
    BY <2>3, <2>4 DEF HubInv
  <2> QED BY <2>4, <2>5, <2>6 DEF HubInv
<1>4. CASE RoundEnds
  BY <1>4 DEF RoundEnds, HubInv, TypeOK, Asleep, LoopState, RegistryMatchesConnections
<1>5. ASSUME NEW c \in Clients, SendNext(c) PROVE HubInv'
  <2>1. /\ loop' \in LoopState
        /\ loop'.failed = loop.failed
             \/ (loop'.failed = loop.failed \cup {c} /\ conn[c] = "lost")
    <3>1. loop \in LoopState
      BY DEF HubInv, TypeOK
    <3>2. CASE loop' = [loop EXCEPT !.visited = @ \cup {c}]
      BY <3>1, <3>2 DEF LoopState
    <3>3. CASE /\ loop' = [loop EXCEPT !.visited = @ \cup {c}, !.failed = @ \cup {c}]
               /\ conn[c] = "lost"
      BY <3>1, <3>3 DEF LoopState
    <3>4. CASE loop' = [loop EXCEPT !.pc = "suspended", !.waiting = {c}, !.visited = @ \cup {c}]
      BY <3>1, <3>4 DEF LoopState
    <3> QED BY <1>5, <3>2, <3>3, <3>4 DEF SendNext
  <2>2. served' \subseteq Clients /\ UNCHANGED <<proc, conn, stalled, registered, lag, pet>>
    BY <1>5 DEF SendNext, HubInv, TypeOK
  <2>3. TypeOK' /\ RegistryMatchesConnections'
    BY <2>1, <2>2 DEF HubInv, TypeOK, RegistryMatchesConnections
  <2>4. \A d \in loop'.failed : conn'[d] \in {"lost", "none"}
    BY <2>1, <2>2 DEF HubInv
  <2> QED BY <2>2, <2>3, <2>4 DEF HubInv
<1> QED BY <1>1, <1>2, <1>3, <1>4, <1>5 DEF Broadcasting

LEMMA ClientsKeep ==
  ASSUME HubInv, NEW c \in Clients,
         \/ ClientConnects(c) \/ HandlerExits(c) \/ ClientStalls(c)
         \/ ClientDrains(c) \/ ClientLeaves(c) \/ CloseCompletes(c)
  PROVE  HubInv'
<1>1. CASE ClientConnects(c)
  BY <1>1 DEF ClientConnects, HubInv, TypeOK, RegistryMatchesConnections
<1>2. CASE HandlerExits(c)
  BY <1>2 DEF HandlerExits, HubInv, TypeOK, RegistryMatchesConnections
<1>3. CASE ClientStalls(c) \/ ClientDrains(c)
  BY <1>3 DEF ClientStalls, ClientDrains, HubInv, TypeOK, RegistryMatchesConnections
<1>4. CASE ClientLeaves(c)
  BY <1>4 DEF ClientLeaves, HubInv, TypeOK, RegistryMatchesConnections
<1>5. CASE CloseCompletes(c)
  BY <1>5 DEF CloseCompletes, HubInv, TypeOK, RegistryMatchesConnections
<1> QED BY <1>1, <1>2, <1>3, <1>4, <1>5

LEMMA ProcessKeeps ==
  ASSUME HubInv, WatchdogTurn \/ MainExits \/ WatchdogKills \/ SystemdRestarts \/ Tick
  PROVE  HubInv'
<1>1. CASE WatchdogTurn
  BY <1>1, HubAssumption
  DEF WatchdogTurn, HubInv, TypeOK, LagLimit, RegistryMatchesConnections
<1>2. CASE MainExits \/ WatchdogKills \/ SystemdRestarts
  BY <1>2, FreshKeeps DEF MainExits, WatchdogKills, SystemdRestarts
<1>3. CASE Tick
  BY <1>3, HubAssumption DEF Tick, HubInv, TypeOK, LagLimit, RegistryMatchesConnections
<1> QED BY <1>1, <1>2, <1>3

(***************************************************************************)
(* The inductive invariant of the hub process.                             *)
(***************************************************************************)
THEOREM HubInvariant == Spec => []HubInv
<1>1. Init => HubInv
  BY InitKeeps
<1>2. HubInv /\ [Next]_vars => HubInv'
  <2> SUFFICES ASSUME HubInv, [Next]_vars PROVE HubInv'
    OBVIOUS
  <2>1. CASE UNCHANGED vars
    BY <2>1 DEF vars, HubInv, TypeOK, RegistryMatchesConnections
  <2>2. CASE Next
    BY <2>2, BroadcastingKeeps, ClientsKeep, ProcessKeeps DEF Next
  <2> QED BY <2>1, <2>2
<1> QED BY <1>1, <1>2, PTL DEF Spec

(***************************************************************************)
(* No counter of the model runs into its bound: the time since the last    *)
(* pet and the lag stay below LagLimit without being capped.               *)
(***************************************************************************)
THEOREM TypeCorrect == Spec => []TypeOK
<1>1. HubInv => TypeOK
  BY DEF HubInv
<1> QED BY <1>1, HubInvariant, PTL

(***************************************************************************)
(* watchdog_loop pets systemd only while the lag is within its limit, so   *)
(* no client can hold the frames up longer than the limit plus WatchdogSec.*)
(***************************************************************************)
THEOREM StallsAreBounded == Spec => []StallIsBounded
<1>1. HubInv => StallIsBounded
  BY HubAssumption DEF HubInv, TypeOK, LagLimit, StallIsBounded
<1> QED BY <1>1, HubInvariant, PTL

(***************************************************************************)
(* self.clients holds every open connection and none whose handler ended   *)
(* (ws_handler, broadcast_loop and remove_client together).                *)
(***************************************************************************)
THEOREM RegistryIsExact == Spec => []RegistryMatchesConnections
<1>1. HubInv => RegistryMatchesConnections
  BY DEF HubInv
<1> QED BY <1>1, HubInvariant, PTL

-----------------------------------------------------------------------------
(* The learned baseline                                                    *)

\* Buckets as the process and the file hold them.
AreBuckets(b) ==
  /\ b = [k \in DOMAIN b |-> b[k]] /\ IsFiniteSet(DOMAIN b)
  /\ \A k \in DOMAIN b : b[k].n \in Int

\* A bucket learns one sample, and so does the whole.
LEMMA OneSampleMore ==
  ASSUME AreBuckets(buckets), NEW key, NEW v
  PROVE  /\ AreBuckets(UpdatedBuckets(key, v)) /\ SamplesIn(buckets) \in Int
         /\ SamplesIn(UpdatedBuckets(key, v)) = SamplesIn(buckets) + 1
<1> DEFINE new == UpdatedBuckets(key, v)
           h == [k \in DOMAIN buckets |-> buckets[k].n]
           g == [k \in DOMAIN new |-> new[k].n]
<1>1. new = [k \in DOMAIN buckets \cup {key} |->
               IF k = key THEN WithSample(LearnedBucket(key), v) ELSE buckets[k]]
  BY DEF UpdatedBuckets
<1>2. WithSample(LearnedBucket(key), v).n = LearnedBucket(key).n + 1
  BY DEF WithSample
<1>3. LearnedBucket(key).n = IF key \in DOMAIN buckets THEN buckets[key].n ELSE 0
  BY DEF LearnedBucket, NoSamples
<1>4. /\ DOMAIN new = DOMAIN buckets \cup {key}
      /\ new[key].n = LearnedBucket(key).n + 1
      /\ \A k \in DOMAIN buckets \ {key} : new[k].n = buckets[k].n
      /\ new = [k \in DOMAIN new |-> new[k]]
  BY <1>1, <1>2
<1> HIDE DEF new
<1>5. AreBuckets(new)
  <2>1. IsFiniteSet(DOMAIN buckets \cup {key})
    BY FS_AddElement DEF AreBuckets
  <2>2. \A k \in DOMAIN new : new[k].n \in Int
    BY <1>3, <1>4 DEF AreBuckets
  <2> QED BY <1>4, <2>1, <2>2 DEF AreBuckets
<1>6. /\ DOMAIN h = DOMAIN buckets /\ DOMAIN g = DOMAIN h \cup {key}
      /\ h \in [DOMAIN h -> Int] /\ g \in [DOMAIN g -> Int] /\ IsFiniteSet(DOMAIN h)
      /\ \A k \in DOMAIN h \ {key} : g[k] = h[k]
      /\ g[key] = (IF key \in DOMAIN h THEN h[key] ELSE 0) + 1
  BY <1>3, <1>4, <1>5 DEF AreBuckets
<1> DEFINE before == FoldFunction(+, 0, h)
           after == FoldFunction(+, 0, g)
           was == IF key \in DOMAIN h THEN h[key] ELSE 0
<1>7. before \in Int /\ after = before + g[key] - was
  <2> HIDE DEF h, g
  <2> QED BY <1>6, SumWithEntry, Zenon
<1>8. SamplesIn(buckets) = before /\ SamplesIn(new) = after
  BY Zenon DEF SamplesIn
<1>9. was \in Int /\ g[key] = was + 1
  <2> HIDE DEF g, h
  <2> QED BY <1>6
<1> HIDE DEF before, after, h, g, was
<1>10. after = before + 1
  BY <1>7, <1>9
<1> QED BY <1>5, <1>7, <1>8, <1>10 DEF new

LEMMA NoBucketsAreEmpty ==
  AreBuckets(NoBuckets) /\ SamplesIn(NoBuckets) = 0
<1> DEFINE h == [k \in DOMAIN NoBuckets |-> NoBuckets[k].n]
<1>1. DOMAIN h = {} /\ h \in [{} -> Int]
  BY DEF NoBuckets
<1>2. SamplesIn(NoBuckets) = FoldFunction(+, 0, h)
  BY Zenon DEF SamplesIn
<1>3. SamplesIn(NoBuckets) = 0
  <2> HIDE DEF h
  <2> QED BY <1>1, <1>2, EmptySum, Zenon
<1> QED BY <1>3, FS_EmptySet DEF AreBuckets, NoBuckets

\* In memory is what the file has and what was learned since, unless the file
\* could not be read; and what was learned since the last save is either few
\* samples or no more than there were rounds.
BaselineInv ==
  /\ AreBuckets(buckets) /\ AreBuckets(baselineFile)
  /\ unsaved \in Nat /\ sinceSave \in Nat
  /\ ~blind => SamplesIn(buckets) = SamplesIn(baselineFile) + unsaved
  /\ unsaved <= sinceSave \/ sinceSave = SaveInterval
  /\ ~saveError => unsaved < SaveEvery \/ unsaved < SaveInterval

LEMMA RoundsPass ==
  \A n \in Nat : /\ RoundLater(n, SaveInterval) \in Nat
                 /\ RoundLater(n, SaveInterval) = IF n + 1 <= SaveInterval THEN n + 1 ELSE SaveInterval
<1> TAKE n \in Nat
<1>1. SaveInterval \in Nat
  BY BaselineAssumption
<1>2. PICK m \in Int : m = n + 1
  OBVIOUS
<1>3. RoundLater(n, SaveInterval) = Min({m, SaveInterval})
  BY <1>2, Zenon DEF RoundLater
<1>4. Min({m, SaveInterval}) = IF m <= SaveInterval THEN m ELSE SaveInterval
  BY <1>1, LesserAndGreater
<1> QED BY <1>1, <1>2, <1>3, <1>4

\* The sizes of both, whatever happens to the other variables.
LEMMA SizesAreNumbers ==
  ASSUME NEW b, AreBuckets(b)
  PROVE  SamplesIn(b) \in Int
<1> DEFINE h == [k \in DOMAIN b |-> b[k].n]
           sum == FoldFunction(+, 0, h)
<1>1. IsFiniteSet(DOMAIN h) /\ h \in [DOMAIN h -> Int]
  BY DEF AreBuckets
<1>2. PICK g : AreSums(g, h) /\ sum = g[DOMAIN h]
  <2> HIDE DEF h
  <2> QED BY <1>1, SumsExist, Zenon
<1>3. SamplesIn(b) = sum
  BY Zenon DEF SamplesIn
<1> HIDE DEF sum, h
<1> QED BY <1>2, <1>3 DEF AreSums

LEMMA LearnKeeps ==
  ASSUME BaselineInv, NEW target, NEW c, LearnFrame(target, c)
  PROVE  BaselineInv' /\ (SamplesIn(baselineFile') >= SamplesIn(baselineFile) \/ blind
                            \/ baselineFile' = baselineFile)
<1> DEFINE key == BucketOf(target, c)
           new == UpdatedBuckets(key, target)
           count == unsaved + 1
           since == RoundLater(sinceSave, SaveInterval)
<1>1. buckets' = new /\ SaveIfDue(count, since) /\ blind' = blind
  BY DEF LearnFrame
<1>2. AreBuckets(new) /\ SamplesIn(buckets) \in Int /\ SamplesIn(new) = SamplesIn(buckets) + 1
  BY OneSampleMore DEF BaselineInv
<1>3. SamplesIn(baselineFile) \in Int
  BY SizesAreNumbers DEF BaselineInv
<1>4. /\ since \in Nat /\ count \in Nat /\ since <= SaveInterval
      /\ count <= since \/ since = SaveInterval
  BY RoundsPass, BaselineAssumption DEF BaselineInv
<1> HIDE DEF new, count, since
<1>5. count = unsaved + 1 /\ unsaved \in Nat
  BY DEF count, BaselineInv
<1>6. SaveEvery \in Nat \ {0} /\ SaveInterval \in Nat
  BY BaselineAssumption
<1>7. ~blind => SamplesIn(new) = SamplesIn(baselineFile) + count
  BY <1>2, <1>3, <1>5 DEF BaselineInv
<1>8. AreBuckets(buckets) /\ AreBuckets(baselineFile)
  BY DEF BaselineInv
<1>9. CASE count < SaveEvery \/ since < SaveInterval
  <2>1. unsaved' = count /\ sinceSave' = since /\ saveError' = saveError /\ baselineFile' = baselineFile
    BY <1>1, <1>9 DEF SaveIfDue
  <2>2. count < SaveEvery \/ count < SaveInterval
    BY <1>4, <1>5, <1>6, <1>9
  <2>3. ~blind' => SamplesIn(buckets)' = SamplesIn(baselineFile)' + unsaved'
    BY <1>1, <1>7, <2>1
  <2>4. AreBuckets(buckets)' /\ AreBuckets(baselineFile)'
    BY <1>1, <1>2, <1>8, <2>1 DEF AreBuckets
  <2> QED BY <1>4, <2>1, <2>2, <2>3, <2>4 DEF BaselineInv
<1>10. CASE ~(count < SaveEvery \/ since < SaveInterval) /\ disk = "writable"
  <2>1. unsaved' = 0 /\ sinceSave' = 0 /\ saveError' = FALSE /\ baselineFile' = new
    BY <1>1, <1>10 DEF SaveIfDue
  <2>2. SamplesIn(buckets)' = SamplesIn(new) /\ SamplesIn(baselineFile)' = SamplesIn(new)
    BY <1>1, <2>1
  <2>3. AreBuckets(buckets)' /\ AreBuckets(baselineFile)'
    BY <1>1, <1>2, <2>1 DEF AreBuckets
  <2>4. SamplesIn(baselineFile') >= SamplesIn(baselineFile) \/ blind
    BY <1>2, <1>3, <1>5, <1>7, <2>1
  <2>5. SamplesIn(new) \in Int
    BY <1>2
  <2> QED BY <1>6, <2>1, <2>2, <2>3, <2>4, <2>5 DEF BaselineInv
<1>11. CASE ~(count < SaveEvery \/ since < SaveInterval) /\ disk # "writable"
  <2>1. unsaved' = count /\ sinceSave' = since /\ saveError' = TRUE /\ baselineFile' = baselineFile
    BY <1>1, <1>11 DEF SaveIfDue
  <2>2. ~blind' => SamplesIn(buckets)' = SamplesIn(baselineFile)' + unsaved'
    BY <1>1, <1>7, <2>1
  <2>3. AreBuckets(buckets)' /\ AreBuckets(baselineFile)'
    BY <1>1, <1>2, <1>8, <2>1 DEF AreBuckets
  <2> QED BY <1>4, <2>1, <2>2, <2>3 DEF BaselineInv
<1> QED BY <1>9, <1>10, <1>11

\* The other steps of the baseline.
LEMMA BaselineStep ==
  ASSUME BaselineInv, [BaselineNext]_baselineVars
  PROVE  BaselineInv' /\ (SamplesIn(baselineFile') >= SamplesIn(baselineFile) \/ blind
                            \/ baselineFile' = baselineFile)
<1> DEFINE since == RoundLater(sinceSave, SaveInterval)
<1>1. ASSUME sinceSave' = sinceSave \/ sinceSave' = since,
             UNCHANGED <<buckets, unsaved, saveError, blind, baselineFile>>
      PROVE  BaselineInv' /\ baselineFile' = baselineFile
  <2>1. /\ sinceSave' \in Nat
        /\ unsaved' <= sinceSave' \/ sinceSave' = SaveInterval
    BY <1>1, RoundsPass, BaselineAssumption DEF BaselineInv
  <2>2. SamplesIn(buckets)' = SamplesIn(buckets) /\ SamplesIn(baselineFile)' = SamplesIn(baselineFile)
    BY <1>1
  <2>3. AreBuckets(buckets)' /\ AreBuckets(baselineFile)'
    BY <1>1 DEF AreBuckets, BaselineInv
  <2> QED BY <1>1, <2>1, <2>2, <2>3 DEF BaselineInv
<1>2. ASSUME NEW target, NEW c, SkipFrame(target, c) \/ JudgeFrame(target, c)
      PROVE  BaselineInv' /\ baselineFile' = baselineFile
  BY <1>1, <1>2 DEF SkipFrame, JudgeFrame
<1>3. CASE NoFrame \/ BaselineDiskChanges \/ UNCHANGED baselineVars
  BY <1>1, <1>3 DEF NoFrame, BaselineDiskChanges, baselineVars
<1>4. ASSUME NEW file \in {baselineFile, FileAfterCutSave}, NEW readable \in BOOLEAN,
             BaselineRestarts(file, readable)
      PROVE  BaselineInv' /\ baselineFile' = baselineFile
  <2>1. /\ baselineFile' = baselineFile
        /\ buckets' = IF readable THEN baselineFile ELSE NoBuckets
        /\ blind' = ~readable /\ saveError' = ~readable /\ unsaved' = 0 /\ sinceSave' = SaveInterval
    BY <1>4 DEF BaselineRestarts, FileAfterCutSave
  <2>2. AreBuckets(baselineFile) /\ AreBuckets(NoBuckets) /\ SamplesIn(baselineFile) \in Int
    BY SizesAreNumbers, NoBucketsAreEmpty DEF BaselineInv
  <2>3. AreBuckets(buckets)' /\ AreBuckets(baselineFile)'
    BY <2>1, <2>2 DEF AreBuckets
  <2>4. ~blind' => SamplesIn(buckets)' = SamplesIn(baselineFile)' + unsaved'
    <3>1. SUFFICES ASSUME readable PROVE SamplesIn(buckets)' = SamplesIn(baselineFile)' + 0
      BY <2>1
    <3>2. buckets' = baselineFile'
      BY <2>1, <3>1
    <3>3. SamplesIn(buckets)' = SamplesIn(baselineFile) /\ SamplesIn(baselineFile)' = SamplesIn(baselineFile)
      BY <2>1, <3>2
    <3> QED BY <2>2, <3>3
  <2>5. SaveEvery \in Nat \ {0} /\ SaveInterval \in Nat
    BY BaselineAssumption
  <2> QED BY <2>1, <2>3, <2>4, <2>5 DEF BaselineInv
<1> HIDE DEF since
<1> QED BY <1>2, <1>3, <1>4, LearnKeeps DEF BaselineNext

LEMMA BaselineStarts ==
  BaselineInit => BaselineInv
<1> SUFFICES ASSUME BaselineInit PROVE BaselineInv
  OBVIOUS
<1>1. buckets = NoBuckets /\ baselineFile = NoBuckets /\ unsaved = 0 /\ sinceSave = SaveInterval
  BY DEF BaselineInit
<1>2. AreBuckets(buckets) /\ AreBuckets(baselineFile) /\ SamplesIn(buckets) = 0 /\ SamplesIn(baselineFile) = 0
  BY <1>1, NoBucketsAreEmpty
<1> QED BY <1>1, <1>2, BaselineAssumption DEF BaselineInv

\* A kill costs fewer samples than SaveEvery, or no more than an interval
\* brings, however long the hub learns and whatever it learns
\* (VehicleBaselineMonitor._maybe_save).
THEOREM LossStaysBounded == BaselineSpec => []LossIsBounded
<1>1. BaselineInit => BaselineInv
  BY BaselineStarts
<1>2. BaselineInv /\ [BaselineNext]_baselineVars => BaselineInv'
  BY BaselineStep
<1>3. BaselineInv => LossIsBounded
  <2> SUFFICES ASSUME BaselineInv, ~saveError, ~blind
               PROVE  SamplesIn(buckets) - SamplesIn(baselineFile) <= Max({SaveEvery, SaveInterval}) - 1
    BY DEF LossIsBounded
  <2>1. /\ SamplesIn(buckets) = SamplesIn(baselineFile) + unsaved /\ unsaved \in Nat
        /\ unsaved < SaveEvery \/ unsaved < SaveInterval
    BY DEF BaselineInv
  <2>2. SamplesIn(baselineFile) \in Int
    BY SizesAreNumbers DEF BaselineInv
  <2>3. SaveEvery \in Nat /\ SaveInterval \in Nat
    BY BaselineAssumption
  <2>4. Max({SaveEvery, SaveInterval}) = IF SaveEvery >= SaveInterval THEN SaveEvery ELSE SaveInterval
    BY <2>3 DEF Max
  <2> QED BY <2>1, <2>2, <2>3, <2>4
<1> QED BY <1>1, <1>2, <1>3, PTL DEF BaselineSpec

\* What the file has learned is never traded for less, by any save, kill or
\* restart (save, _load).
THEOREM LearningIsKept == BaselineSpec => FileKeepsLearning
<1>1. BaselineInit => BaselineInv
  BY BaselineStarts
<1>2. BaselineInv /\ [BaselineNext]_baselineVars =>
        BaselineInv' /\ [SamplesIn(baselineFile') >= SamplesIn(baselineFile) \/ blind]_baselineFile
  BY BaselineStep
<1> QED BY <1>1, <1>2, PTL DEF BaselineSpec, FileKeepsLearning

-----------------------------------------------------------------------------
(* The outages of the bus.                                                 *)

\* A median is no more than a limit that most of the numbers keep.
LEMMA MedianIsCommon ==
  ASSUME NEW n \in Nat, n > 0, NEW s \in [1..n -> Int], Len(s) = n, NEW limit \in Int,
         2 * Cardinality({i \in 1..n : s[i] > limit}) < n
  PROVE  TwiceMedian(s) \in Int /\ TwiceMedian(s) <= 2 * limit
<1> DEFINE R == {p \in (1..n) \X (1..n) : s[p[1]] < s[p[2]] \/ (s[p[1]] = s[p[2]] /\ p[1] < p[2])}
           order == InOrder(1..n, R)
           above == {i \in 1..n : s[i] > limit}
           m == n \div 2
<1>1. Orders(R, 1..n)
  <2>1. \A x, y \in 1..n : <<x, y>> \in R <=> s[x] < s[y] \/ (s[x] = s[y] /\ x < y)
    OBVIOUS
  <2>2. \A x \in 1..n : s[x] \in Int
    OBVIOUS
  <2> HIDE DEF R
  <2> QED BY <2>1, <2>2 DEF Orders
<1>2. IsFiniteSet(1..n) /\ Cardinality(1..n) = n
  BY FS_Interval
<1>3. \A k \in 1..n : /\ order[k] \in 1..n
                      /\ IsFiniteSet(AheadOf(1..n, R, order[k]))
                      /\ Cardinality(AheadOf(1..n, R, order[k])) = k - 1
  <2> HIDE DEF R
  <2>1. \A k \in 1..Cardinality(1..n) :
          /\ InOrder(1..n, R)[k] \in 1..n
          /\ IsFiniteSet(AheadOf(1..n, R, InOrder(1..n, R)[k]))
          /\ Cardinality(AheadOf(1..n, R, InOrder(1..n, R)[k])) = k - 1
    <3>1. IsFiniteSet(1..n)
      BY <1>2
    <3> HIDE DEF order, above, m
    <3> QED BY <1>1, <3>1, PlacesAreTaken
  <2> QED BY <1>2, <2>1, Zenon
<1>4. IsFiniteSet(above) /\ Cardinality(above) \in Nat
  BY <1>2, FS_Subset, FS_CardinalityType
<1>5. ASSUME NEW k \in 1..n, 2 * (n - k + 1) >= n
      PROVE  s[order[k]] \in Int /\ s[order[k]] <= limit
  <2> DEFINE before == AheadOf(1..n, R, order[k])
             after == (1..n) \ before
  <2>1. s[order[k]] \in Int
    BY <1>3
  <2>2. SUFFICES ASSUME s[order[k]] > limit PROVE FALSE
    <3> HIDE DEF order
    <3> QED BY <2>1, <2>2
  <2>3. after \subseteq above
    <3> SUFFICES ASSUME NEW y \in after PROVE s[y] > limit
      OBVIOUS
    <3>1. ~(s[y] < s[order[k]])
      BY <1>3 DEF AheadOf
    <3>2. s[y] \in Int
      OBVIOUS
    <3> HIDE DEF order
    <3> QED BY <2>1, <2>2, <3>1, <3>2
  <2>4. Cardinality(after) = n - (k - 1)
    <3>1. before = (1..n) \cap before /\ Cardinality(before) = k - 1
      BY <1>3 DEF AheadOf
    <3> HIDE DEF before
    <3>2. Cardinality(after) = Cardinality(1..n) - Cardinality((1..n) \cap before)
      BY <1>2, FS_Difference, Zenon
    <3>3. Cardinality((1..n) \cap before) = k - 1
      BY <3>1, Zenon
    <3> QED BY <1>2, <3>2, <3>3
  <2>5. Cardinality(after) <= Cardinality(above)
    <3> HIDE DEF after, above
    <3> QED BY <1>4, <2>3, FS_Subset
  <2>6. 2 * Cardinality(above) < n
    OBVIOUS
  <2> HIDE DEF after, above
  <2> QED BY <1>4, <1>5, <2>4, <2>5, <2>6
<1>6. m \in Nat /\ (n = 2 * m \/ n = 2 * m + 1) /\ (n % 2 = 1 <=> n = 2 * m + 1)
  OBVIOUS
<1> HIDE DEF m
<1>7. s[order[m + 1]] \in Int /\ s[order[m + 1]] <= limit
  <2>1. m + 1 \in 1..n /\ 2 * (n - (m + 1) + 1) >= n
    BY <1>6
  <2> HIDE DEF order
  <2> QED BY <1>5, <2>1
<1>8. n % 2 # 1 => s[order[m]] \in Int /\ s[order[m]] <= limit
  <2>1. n % 2 # 1 => m \in 1..n /\ 2 * (n - m + 1) >= n
    BY <1>6
  <2> HIDE DEF order
  <2> QED BY <1>5, <2>1
<1>9. TwiceMedian(s) = IF n % 2 = 1 THEN 2 * s[order[m + 1]] ELSE s[order[m]] + s[order[m + 1]]
  BY Zenon DEF TwiceMedian, m
<1> HIDE DEF order
<1> QED BY <1>7, <1>8, <1>9, SMTT(60)

\* Rounds with a frame leave intervals, up to those the timing needs.
CanInv ==
  /\ DOMAIN lastFrame = {"seen", "age", "data", "dlc"}
  /\ lastFrame.seen \in BOOLEAN /\ lastFrame.age \in Nat
  /\ intervals \in Seq(Nat) /\ distinctTimes \in Nat
  /\ ~lastFrame.seen => distinctTimes = 0
  /\ distinctTimes <= Len(intervals) + 1 \/ Len(intervals) >= TimingSamples

LEMMA LimitIsNumber ==
  /\ Greatest(Periods) \in Nat /\ AgeLimit \in Nat
  /\ AgeLimit = StaleMultiplier * Greatest(Periods) + MinStale + 1
<1>1. Greatest(Periods) \in Periods
  <2>1. \E m \in Periods : \A x \in Periods : m >= x
    <3>1. Periods \in SUBSET Int /\ IsFiniteSet(Periods) /\ Periods # {}
      BY CanAssumption
    <3> QED BY <3>1, Extremes
  <2> QED BY <2>1 DEF Greatest
<1>2. Greatest(Periods) \in Nat /\ StaleMultiplier \in Nat /\ MinStale \in Nat
  BY <1>1, CanAssumption
<1> QED BY <1>2 DEF AgeLimit

LEMMA OlderAge ==
  ASSUME NEW a \in Nat, NEW l \in Nat
  PROVE  Older(a, l) \in Nat
BY DEF Older

LEMMA ObserveKeeps ==
  ASSUME CanInv, NEW data, NEW dlc, ObserveFrame(data, dlc)
  PROVE  CanInv'
<1> DEFINE gap == lastFrame.age
           longer == Append(intervals, gap)
<1>1. /\ intervals' = IF lastFrame.seen /\ gap > 0 THEN WithInterval(gap) ELSE intervals
      /\ lastFrame' = [seen |-> TRUE, age |-> 0, data |-> data, dlc |-> dlc]
      /\ distinctTimes' = IF (lastFrame.seen /\ gap = 0) \/ distinctTimes > TimingSamples
                          THEN distinctTimes ELSE distinctTimes + 1
  BY DEF ObserveFrame
<1>2. IntervalLimit \in Nat /\ TimingSamples \in Nat /\ TimingSamples > 0 /\ TimingSamples <= IntervalLimit
  BY CanAssumption
<1>3. Len(intervals) \in Nat /\ longer \in Seq(Nat) /\ Len(longer) = Len(intervals) + 1
  BY DEF CanInv
<1>4. /\ WithInterval(gap) \in Seq(Nat)
      /\ Len(WithInterval(gap)) = IF Len(intervals) + 1 > IntervalLimit THEN Len(intervals) ELSE Len(intervals) + 1
  <2>1. Tail(longer) \in Seq(Nat) /\ Len(Tail(longer)) = Len(intervals)
    BY <1>3
  <2> HIDE DEF longer
  <2>2. WithInterval(gap) = IF Len(longer) > IntervalLimit THEN Tail(longer) ELSE longer
    BY DEF WithInterval, LastOf, longer
  <2> QED BY <1>3, <2>1, <2>2
<1>5. /\ lastFrame.seen \in BOOLEAN /\ gap \in Nat /\ intervals \in Seq(Nat) /\ distinctTimes \in Nat
      /\ ~lastFrame.seen => distinctTimes = 0
      /\ distinctTimes <= Len(intervals) + 1 \/ Len(intervals) >= TimingSamples
  BY DEF CanInv
<1>6. /\ DOMAIN lastFrame' = {"seen", "age", "data", "dlc"}
      /\ lastFrame'.seen \in BOOLEAN /\ lastFrame'.age \in Nat /\ lastFrame'.seen
  BY <1>1
<1> HIDE DEF gap, longer
<1>7. intervals' \in Seq(Nat) /\ distinctTimes' \in Nat
  BY <1>1, <1>4, <1>5
<1>8. distinctTimes' <= Len(intervals') + 1 \/ Len(intervals') >= TimingSamples
  BY <1>1, <1>2, <1>3, <1>4, <1>5, SMTT(60)
<1> QED BY <1>6, <1>7, <1>8 DEF CanInv

LEMMA CanStepKeeps ==
  ASSUME CanInv, [CanNext]_canVars
  PROVE  CanInv'
<1>1. CASE FrameArrives \/ BurstArrives
  BY <1>1, ObserveKeeps DEF FrameArrives, BurstArrives
<1>2. CASE RoundPasses
  <2> DEFINE a == IF lastFrame.seen THEN Older(lastFrame.age, AgeLimit) ELSE 0
  <2>1. lastFrame' = [lastFrame EXCEPT !.age = a] /\ UNCHANGED <<intervals, distinctTimes>>
    BY <1>2 DEF RoundPasses
  <2>2. a \in Nat
    BY OlderAge, LimitIsNumber DEF CanInv
  <2> HIDE DEF a
  <2> QED BY <2>1, <2>2 DEF CanInv
<1>3. CASE SenderChanges \/ UNCHANGED canVars
  BY <1>3 DEF SenderChanges, canVars, CanInv
<1> QED BY <1>1, <1>2, <1>3 DEF CanNext

\* An outage is noticed for any sender with any periods, multiplier, samples
\* and limits, whatever came before it (CanDiagnosticsEngine.snapshot).
THEOREM OutagesAreNoticed == CanSpec => []SilenceIsNoticed
<1>1. CanInit => CanInv
  BY DEF CanInit, CanInv, NotSeen
<1>2. CanInv => SilenceIsNoticed
  <2> DEFINE G == Greatest(Periods)
             outages == {i \in DOMAIN intervals : intervals[i] > G}
  <2> SUFFICES ASSUME CanInv, lastFrame.seen, lastFrame.age = AgeLimit, distinctTimes > TimingSamples,
                      2 * Cardinality(outages) < Len(intervals)
               PROVE  Dropout
    BY DEF SilenceIsNoticed, CanFindings, BusSilence
  <2>1. /\ intervals \in Seq(Nat) /\ Len(intervals) \in Nat /\ DOMAIN intervals = 1..Len(intervals)
        /\ distinctTimes \in Nat /\ TimingSamples \in Nat /\ TimingSamples > 0
        /\ distinctTimes <= Len(intervals) + 1 \/ Len(intervals) >= TimingSamples
    BY CanAssumption DEF CanInv
  <2>2. Len(intervals) >= TimingSamples
    BY <2>1
  <2>3. TwiceMedian(intervals) \in Int /\ TwiceMedian(intervals) <= 2 * G
    <3>1. G \in Int /\ Len(intervals) > 0 /\ intervals \in [1..Len(intervals) -> Int]
      BY <2>1, <2>2, LimitIsNumber
    <3>2. 2 * Cardinality({i \in 1..Len(intervals) : intervals[i] > G}) < Len(intervals)
      BY <2>1
    <3> HIDE DEF G, outages
    <3> QED BY <2>1, <3>1, <3>2, MedianIsCommon
  <2>4. StaleMultiplier \in Nat /\ MinStale \in Nat
    BY CanAssumption
  <2>5. PICK med \in Int, g \in Nat, k \in Nat :
          med = TwiceMedian(intervals) /\ g = G /\ k = StaleMultiplier
    BY <2>3, <2>4, LimitIsNumber
  <2>6. med <= 2 * g
    BY <2>3, <2>5
  <2>7. med * k <= (2 * g) * k
    BY <2>6
  <2>8. AgeLimit = k * g + MinStale + 1
    BY <2>5, LimitIsNumber
  <2>9. AgeLimit > MinStale /\ 2 * AgeLimit > med * k
    BY <2>4, <2>7, <2>8
  <2> QED BY <2>2, <2>5, <2>9 DEF Dropout, Timed
<1> QED BY <1>1, <1>2, CanStepKeeps, PTL DEF CanSpec

-----------------------------------------------------------------------------
(* The learned transitions: what a window and a template are made of.      *)
Numbers  == Int \cup {Null}
Moments  == [n : Nat, sum : Int, sq : Int]
Measures == [total : Nat, delta : Numbers, range : Int, before : Numbers, lag : Numbers]
Templates == [count : Nat, delta : Moments, absDelta : Moments, range : Moments,
              before : Moments, lag : Moments, sound : BOOLEAN]

\* A frame tells its airflow exactly when its source is live; a stale one
\* stands still.
IsFrame(f) ==
  /\ f.maf \in Numbers /\ f.stale \in BOOLEAN /\ (f.stale <=> f.maf = Null)
  /\ f.stale => f.rpm = 0
  /\ \A e \in EngineStates : f = LiveFrame(e) => f.maf = Maf[e]
IsHistory(hist) ==
  /\ IsFiniteSet(hist)
  /\ \A h \in hist : DOMAIN h = {"age", "frame"} /\ h.age \in Nat /\ IsFrame(h.frame)

LEMMA ScaleIsPositive == MeanScale \in Nat /\ MeanScale > 0
  BY TransitionAssumption

\* The scaled mean is a number, and that of a constant the scaled constant.
LEMMA MeansAreNumbers ==
  ASSUME NEW S, IsFiniteSet(S), S # {}, \A h \in S : h.frame.maf \in Int
  PROVE  ScaledMean(S) \in Int
<1> DEFINE v == [h \in S |-> h.frame.maf]
           total == FoldFunction(+, 0, v)
           size == Cardinality(S)
<1>1. DOMAIN v = S /\ v \in [DOMAIN v -> Int]
  OBVIOUS
<1>2. ScaledMean(S) = (MeanScale * total) \div size
  BY Zenon DEF ScaledMean
<1> HIDE DEF v
<1>3. total \in Int
  <2>1. PICK g : AreSums(g, v) /\ total = g[DOMAIN v]
    BY <1>1, SumsExist
  <2> HIDE DEF total
  <2> QED BY <2>1 DEF AreSums
<1>4. size \in Nat /\ size > 0
  BY FS_CardinalityType, FS_EmptySet
<1>5. MeanScale * total \in Int
  <2> HIDE DEF total
  <2> QED BY <1>3, ScaleIsPositive
<1> HIDE DEF total, size
<1> QED BY <1>2, <1>4, <1>5

LEMMA MeanOfConstant ==
  ASSUME NEW S, IsFiniteSet(S), S # {}, NEW c \in Int, \A h \in S : h.frame.maf = c
  PROVE  ScaledMean(S) = MeanScale * c
<1> DEFINE v == [h \in S |-> h.frame.maf]
           total == FoldFunction(+, 0, v)
           size == Cardinality(S)
<1>1. DOMAIN v = S /\ v \in [DOMAIN v -> Int] /\ \A h \in S : v[h] = c
  OBVIOUS
<1>2. ScaledMean(S) = (MeanScale * total) \div size
  BY Zenon DEF ScaledMean
<1> HIDE DEF v
<1>3. total = c * size
  BY <1>1, SumOfConstant, Zenon
<1>4. size \in Nat /\ size > 0
  BY FS_CardinalityType, FS_EmptySet
<1> HIDE DEF total, size
<1>5. PICK s \in Nat : s = size /\ s > 0
  BY <1>4
<1>6. MeanScale * (c * s) = (MeanScale * c) * s
  BY ScaleIsPositive
<1>7. \A a \in Int : (a * s) \div s = a
  BY <1>5
<1>8. MeanScale * c \in Int
  BY ScaleIsPositive
<1> QED BY <1>2, <1>3, <1>5, <1>6, <1>7, <1>8

LEMMA RangesAreNumbers ==
  ASSUME NEW S \in SUBSET Int, IsFiniteSet(S)
  PROVE  ValueRange(S) \in Int
<1>1. CASE S = {}
  BY <1>1 DEF ValueRange
<1>2. CASE S # {}
  <2>1. Greatest(S) \in Int /\ Least(S) \in Int
    <3>1. (\E m \in S : \A x \in S : m >= x) /\ (\E m \in S : \A x \in S : m <= x)
      BY <1>2, Extremes
    <3> QED BY <3>1 DEF Greatest, Least
  <2> QED BY <1>2, <2>1 DEF ValueRange
<1> QED BY <1>1, <1>2

LEMMA RangeOfTwo ==
  ASSUME NEW a \in Int, NEW b \in Int
  PROVE  ValueRange({a, b}) = Abs(a - b)
<1>1. Greatest({a, b}) = IF a >= b THEN a ELSE b
  BY DEF Greatest
<1>2. Least({a, b}) = IF a >= b THEN b ELSE a
  BY DEF Least
<1> QED BY <1>1, <1>2 DEF ValueRange, Abs

(* The measures of a window.                                               *)
LEMMA SamplesAreMeasurable ==
  ASSUME NEW hist, IsHistory(hist), NEW S, S \subseteq Samples(hist, 0) \cup hist,
         \A h \in S : h.frame.maf # Null
  PROVE  /\ IsFiniteSet(S) /\ \A h \in S : h.frame.maf \in Int /\ h.age \in Int
         /\ {h.frame.maf : h \in S} \in SUBSET Int /\ IsFiniteSet({h.frame.maf : h \in S})
<1>1. S \subseteq hist
  BY DEF Samples, WindowOf
<1>2. IsFiniteSet(S) /\ \A h \in S : h.frame.maf \in Int /\ h.age \in Int
  BY <1>1, FS_Subset DEF IsHistory, IsFrame, Numbers
<1> DEFINE f == [h \in S |-> h.frame.maf]
<1>3. IsFiniteSet({f[h] : h \in S})
  <2> HIDE DEF f
  <2> QED BY <1>2, FiniteImage
<1>4. {f[h] : h \in S} = {h.frame.maf : h \in S}
  OBVIOUS
<1> HIDE DEF f
<1>5. {h.frame.maf : h \in S} \in SUBSET Int
  BY <1>2
<1> QED BY <1>2, <1>3, <1>4, <1>5

LEMMA WindowsAreMeasured ==
  ASSUME NEW hist, IsHistory(hist), NEW age \in Int
  PROVE  WindowMetrics(hist, age) \in Measures
<1> DEFINE ok     == Samples(hist, age)
           before == {h \in ok : h.age > age}
           after  == {h \in ok : h.age <= age}
           delta  == IF before = {} \/ after = {} THEN Null ELSE ScaledMean(after) - ScaledMean(before)
           ans    == IF before = {} THEN {} ELSE Answers(before, after, delta)
           range  == ValueRange({h.frame.maf : h \in ok})
           base   == IF before = {} THEN Null ELSE ScaledMean(before)
           lags   == {age - h.age : h \in ans}
           late    == IF ans = {} THEN Null ELSE Least(lags)
<1>1. /\ ok \subseteq hist /\ \A h \in ok : h.frame.maf # Null
      /\ before \subseteq ok /\ after \subseteq ok
  BY DEF Samples, WindowOf
<1>2. IsFiniteSet(ok) /\ IsFiniteSet(before) /\ IsFiniteSet(after)
  <2> HIDE DEF ok, before, after
  <2> QED BY <1>1, FS_Subset DEF IsHistory
<1>3. \A h \in ok : h.frame.maf \in Int /\ h.age \in Int
  <2> HIDE DEF ok, before, after
  <2> QED BY <1>1 DEF IsHistory, IsFrame, Numbers
<1>4. ans \subseteq after
  BY DEF Answers
<1> HIDE DEF ans
<1>5. before # {} => ScaledMean(before) \in Int
  <2> HIDE DEF before, ok
  <2> QED BY <1>1, <1>2, <1>3, MeansAreNumbers
<1>6. after # {} => ScaledMean(after) \in Int
  <2> HIDE DEF after, ok
  <2> QED BY <1>1, <1>2, <1>3, MeansAreNumbers
<1>7. range \in Int
  <2> DEFINE vals == {h.frame.maf : h \in ok}
             f == [h \in ok |-> h.frame.maf]
  <2>1. IsFiniteSet({f[h] : h \in ok})
    <3> HIDE DEF f, ok
    <3> QED BY <1>2, FiniteImage
  <2>2. {f[h] : h \in ok} = vals
    OBVIOUS
  <2>3. vals \in SUBSET Int
    <3> HIDE DEF ok
    <3> QED BY <1>3
  <2> HIDE DEF f, vals, ok
  <2>4. ValueRange(vals) \in Int
    BY <2>1, <2>2, <2>3, RangesAreNumbers
  <2> QED BY <2>4 DEF vals
<1>8. late \in Numbers
  <2> DEFINE f == [h \in ans |-> age - h.age]
  <2>1. IsFiniteSet(ans)
    <3> HIDE DEF after
    <3> QED BY <1>2, <1>4, FS_Subset
  <2>2. IsFiniteSet({f[h] : h \in ans})
    <3> HIDE DEF f
    <3> QED BY <2>1, FiniteImage
  <2>3. {f[h] : h \in ans} = lags
    OBVIOUS
  <2>4. lags \in SUBSET Int
    BY <1>3, <1>4
  <2>5. ans # {} => lags # {}
    OBVIOUS
  <2> HIDE DEF f, lags
  <2>6. lags # {} => Least(lags) \in Int
    <3>1. lags # {} => \E m \in lags : \A x \in lags : m <= x
      BY <2>2, <2>3, <2>4, Extremes
    <3> QED BY <2>4, <3>1 DEF Least
  <2> QED BY <2>5, <2>6 DEF Numbers
<1>9. Cardinality(ok) \in Nat
  <2> HIDE DEF ok
  <2> QED BY <1>2, FS_CardinalityType
<1>10. WindowMetrics(hist, age) = [total |-> Cardinality(ok), delta |-> delta, range |-> range, before |-> base, lag |-> late]
  BY Zenon DEF WindowMetrics, ans
<1> HIDE DEF ok, before, after, range, late
<1>11. delta \in Numbers /\ base \in Numbers
  BY <1>5, <1>6 DEF Numbers
<1> HIDE DEF delta, base
<1> QED BY <1>7, <1>8, <1>9, <1>10, <1>11 DEF Measures

\* The measures of a start.
Gain  == Maf["run"] - Maf["crank"]
Shift == MeanScale * Gain
IsStart(m) ==
  /\ m.delta = Shift /\ m.range = Abs(Gain) /\ m.before = MeanScale * Maf["crank"]
  /\ m.lag = IF Gain = 0 THEN Null ELSE 0

LEMMA NumbersAreKnown ==
  /\ Maf["crank"] \in Int /\ Maf["run"] \in Int /\ Gain \in Int /\ Shift \in Int
  /\ Abs(Gain) \in Nat /\ Abs(Shift) \in Nat
  /\ MeanScale * Maf["crank"] \in Int /\ MeanScale * Maf["run"] \in Int
  /\ Abs(Shift) = MeanScale * Abs(Gain) /\ (Gain = 0 <=> Shift = 0)
  /\ Shift # Null /\ MeanScale * Maf["crank"] # Null
  /\ MeanScale * Maf["run"] - MeanScale * Maf["crank"] = Shift
<1>1. PICK c \in Int, r \in Int, k \in Nat :
        c = Maf["crank"] /\ r = Maf["run"] /\ k = MeanScale /\ k > 0
  BY TransitionAssumption DEF EngineStates
<1>2. Gain = r - c /\ Shift = k * (r - c)
  BY <1>1 DEF Gain, Shift
<1>3. k * r - k * c = k * (r - c) /\ k * c \in Int /\ k * r \in Int
  OBVIOUS
<1>4. \A d \in Int : /\ k * d \in Int /\ k * (-d) = -(k * d)
                     /\ (d > 0 => k * d > 0) /\ (d < 0 => k * d < 0) /\ k * 0 = 0
  BY <1>1
<1>5. \A d \in Int : Abs(k * d) = k * Abs(d) /\ (d = 0 <=> k * d = 0)
  <2> TAKE d \in Int
  <2> QED BY <1>4 DEF Abs
<1>6. Abs(Gain) \in Nat /\ Abs(Shift) \in Nat
  BY <1>2, <1>4 DEF Abs
<1>7. r - c \in Int
  OBVIOUS
<1> QED BY <1>1, <1>2, <1>3, <1>4, <1>5, <1>6, <1>7, NullAssumption

\* The frame of an event is kept as long as an older one is.
Kept == BeforeRounds + AfterRounds + SlackRounds
HoldsEvent(hist, age) == age <= Kept => \E h \in hist : h.age = age /\ ~h.frame.stale

LEMMA StartsAreMeasured ==
  ASSUME NEW hist, IsHistory(hist), \A h \in hist : h.age <= Kept,
         NEW age \in Int, HoldsEvent(hist, age), ShowsAStart(hist, age)
  PROVE  IsStart(WindowMetrics(hist, age))
<1> DEFINE ok     == Samples(hist, age)
           before == {h \in ok : h.age > age}
           after  == {h \in ok : h.age <= age}
           delta  == IF before = {} \/ after = {} THEN Null ELSE ScaledMean(after) - ScaledMean(before)
           ans    == IF before = {} THEN {} ELSE Answers(before, after, delta)
           range  == ValueRange({h.frame.maf : h \in ok})
           base   == IF before = {} THEN Null ELSE ScaledMean(before)
           lags   == {age - h.age : h \in ans}
           late    == IF ans = {} THEN Null ELSE Least(lags)
           c == Maf["crank"]
           r == Maf["run"]
<1>1. BeforeRounds \in Nat /\ AfterRounds \in Nat /\ Kept \in Nat /\ c \in Int /\ r \in Int
  BY TransitionAssumption DEF EngineStates, Kept
<1>2. \A h \in hist : h.age \in Int /\ h.age <= Kept
  BY DEF IsHistory
<1>3. ok = LiveSamples(hist, age)
  BY DEF Samples, LiveSamples, WindowOf, IsHistory, IsFrame
<1>4. \A h \in ok : h \in hist /\ h.age \in Int /\ h.frame.maf = IF h.age > age THEN c ELSE r
  <2> SUFFICES ASSUME NEW h \in ok
               PROVE  h \in hist /\ h.age \in Int /\ h.frame.maf = IF h.age > age THEN c ELSE r
    OBVIOUS
  <2>1. h \in hist
    BY DEF Samples, WindowOf
  <2>2. h.frame = LiveFrame(IF h.age > age THEN "crank" ELSE "run")
    BY <1>3 DEF ShowsAStart
  <2>3. \A e \in EngineStates : h.frame = LiveFrame(e) => h.frame.maf = Maf[e]
    BY <2>1 DEF IsHistory, IsFrame
  <2>4. h.frame.maf = IF h.age > age THEN c ELSE r
    BY <2>2, <2>3 DEF EngineStates
  <2> QED BY <1>2, <2>1, <2>4
<1>5. \E h \in ok : h.age > age
  BY <1>3 DEF ShowsAStart
<1>6. \E h \in ok : h.age = age
  <2>1. age <= Kept
    BY <1>1, <1>2, <1>4, <1>5
  <2>2. PICK h \in hist : h.age = age /\ ~h.frame.stale
    BY <2>1 DEF HoldsEvent
  <2>3. h \in WindowOf(hist, age)
    BY <1>1, <2>2 DEF WindowOf
  <2>4. h \in LiveSamples(hist, age)
    BY <2>2, <2>3 DEF LiveSamples
  <2> QED BY <1>3, <2>2, <2>4
<1>7. ok \subseteq hist
  BY <1>4
<1>8. WindowMetrics(hist, age) = [total |-> Cardinality(ok), delta |-> delta, range |-> range, before |-> base, lag |-> late]
  BY Zenon DEF WindowMetrics
<1>9. before # {} => ans = {h \in after :
                LET d == Abs(MeanScale * h.frame.maf - ScaledMean(before))
                IN  /\ 20 * d >= MeanScale /\ 2 * d >= MeanScale * ValueRange({b.frame.maf : b \in before})
                    /\ delta = Null \/ 5 * d >= Abs(delta)}
  BY Zenon DEF Answers
<1>10. late = IF ans = {} THEN Null ELSE Least(lags)
  BY Zenon
<1> HIDE DEF ok, ans, late
<1>11. before # {} /\ after # {} /\ \E h \in after : h.age = age
  BY <1>4, <1>5, <1>6
<1>12. (\A h \in before : h.frame.maf = c) /\ (\A h \in after : h.frame.maf = r)
  BY <1>4
<1>13. IsFiniteSet(before) /\ IsFiniteSet(after)
  BY <1>7, FS_Subset DEF IsHistory
<1>14. /\ {h.frame.maf : h \in ok} = {r, c}
       /\ {h.frame.maf : h \in before} = {c, c}
  <2>1. \A h \in ok : h \in before \/ h \in after
    BY <1>4
  <2>2. before \subseteq ok /\ after \subseteq ok
    OBVIOUS
  <2> HIDE DEF before, after
  <2> QED BY <1>11, <1>12, <2>1, <2>2
<1>15. ScaledMean(before) = MeanScale * c /\ ScaledMean(after) = MeanScale * r
  <2> HIDE DEF before, after
  <2> QED BY <1>1, <1>11, <1>12, <1>13, MeanOfConstant
<1>16. range = Abs(r - c) /\ ValueRange({h.frame.maf : h \in before}) = 0
  <2> HIDE DEF before, after
  <2>1. ValueRange({r, c}) = Abs(r - c) /\ ValueRange({c, c}) = Abs(c - c)
    BY <1>1, RangeOfTwo
  <2>2. range = ValueRange({r, c}) /\ ValueRange({h.frame.maf : h \in before}) = ValueRange({c, c})
    BY <1>14, Zenon
  <2>3. Abs(c - c) = 0
    BY <1>1 DEF Abs
  <2> QED BY <2>1, <2>2, <2>3
<1>17. delta = Shift /\ base = MeanScale * c
  <2> HIDE DEF before, after
  <2> QED BY <1>11, <1>15, NumbersAreKnown
<1> HIDE DEF delta, base, range
<1>18. \A h \in after : Abs(MeanScale * h.frame.maf - ScaledMean(before)) = Abs(Shift)
  <2> HIDE DEF before, after
  <2> QED BY <1>12, <1>15, NumbersAreKnown
<1>19. ans = IF Gain = 0 THEN {} ELSE after
  <2> HIDE DEF before, after
  <2>1. PICK k \in Nat, a \in Nat, g \in Nat :
          k = MeanScale /\ a = Abs(Shift) /\ g = Abs(Gain) /\ k > 0 /\ a = k * g /\ (g = 0 <=> Gain = 0)
    <3>1. Abs(Gain) = 0 <=> Gain = 0
      BY NumbersAreKnown DEF Abs
    <3> QED BY <3>1, NumbersAreKnown, ScaleIsPositive
  <2>2. MeanScale * ValueRange({b.frame.maf : b \in before}) = 0
    <3>1. MeanScale * 0 = 0
      BY ScaleIsPositive
    <3> QED BY <1>16, <3>1
  <2>3. 20 * a >= k <=> g # 0
    <3>1. g # 0 => k * g >= k
      BY <2>1
    <3>2. g = 0 => k * g = 0
      BY <2>1
    <3> QED BY <2>1, <3>1, <3>2
  <2>4. 2 * a >= 0 /\ 5 * a >= a
    OBVIOUS
  <2>5. Shift # Null
    BY NumbersAreKnown
  <2> QED BY <1>9, <1>11, <1>17, <1>18, <2>1, <2>2, <2>3, <2>4, <2>5
<1>20. late = IF Gain = 0 THEN Null ELSE 0
  <2>1. Gain = 0 => late = Null
    BY <1>10, <1>19
  <2>2. ASSUME Gain # 0 PROVE late = 0
    <3>1. /\ ans = after /\ ans # {} /\ \A h \in ans : h.age \in Int /\ h.age <= age
          /\ \E h \in ans : h.age = age
      BY <1>4, <1>11, <1>19, <2>2
    <3>2. 0 \in lags /\ \A x \in lags : x \in Int /\ x >= 0
      BY <3>1
    <3> HIDE DEF lags
    <3>3. Least(lags) = 0
      BY <3>2 DEF Least
    <3> QED BY <1>10, <3>1, <3>3
  <2> QED BY <2>1, <2>2
<1> QED BY <1>8, <1>16, <1>17, <1>20 DEF IsStart, Gain

(* What is learned.                                                        *)
\* A template all of whose windows showed starts.
IsSound(t) ==
  /\ t.delta.n = t.count /\ t.delta.sum = t.count * Shift
  /\ t.absDelta.n = t.count /\ t.absDelta.sum = t.count * Abs(Shift)
  /\ t.range.n = t.count /\ t.range.sum = t.count * Abs(Gain)
  /\ t.before.n = t.count /\ t.before.sum = t.count * (MeanScale * Maf["crank"])
  /\ t.lag.sum = 0

KnownTemplates == {t \in Templates : t.sound => IsSound(t)}

LEMMA SamplesAdd ==
  ASSUME NEW s \in Moments, NEW v \in Int
  PROVE  /\ WithSample(s, v) \in Moments
         /\ WithSample(s, v).n = s.n + 1 /\ WithSample(s, v).sum = s.sum + v
<1>1. v * v \in Int
  OBVIOUS
<1>2. s.n \in Nat /\ s.sum \in Int /\ s.sq \in Int
  BY DEF Moments
<1> QED BY <1>1, <1>2 DEF WithSample, Moments

LEMMA WindowsAreLearned ==
  ASSUME NEW t \in KnownTemplates, NEW m \in Measures, NEW u \in BOOLEAN, u => IsStart(m)
  PROVE  /\ WithWindow(t, m, u) \in KnownTemplates
         /\ WithWindow(t, m, u).count = t.count + 1
<1> DEFINE w == WithWindow(t, m, u)
           size == IF m.delta = Null THEN Null ELSE Abs(m.delta)
<1>1. /\ t.count \in Nat /\ t.sound \in BOOLEAN
      /\ t.delta \in Moments /\ t.absDelta \in Moments /\ t.range \in Moments
      /\ t.before \in Moments /\ t.lag \in Moments
  BY DEF KnownTemplates, Templates
<1>2. m.delta \in Numbers /\ m.range \in Int /\ m.before \in Numbers /\ m.lag \in Numbers
  BY DEF Measures
<1>3. size \in Numbers
  BY <1>2 DEF Numbers, Abs
<1>4. \A s \in Moments, v \in Numbers : AddIf(s, v) \in Moments
  BY SamplesAdd DEF AddIf, Numbers
<1>5. w = [count |-> t.count + 1, delta |-> AddIf(t.delta, m.delta),
           absDelta |-> AddIf(t.absDelta, size),
           range |-> WithSample(t.range, m.range), before |-> AddIf(t.before, m.before),
           lag |-> AddIf(t.lag, m.lag), sound |-> t.sound /\ u]
  BY Zenon DEF WithWindow
<1>6. WithSample(t.range, m.range) \in Moments
  BY <1>1, <1>2, SamplesAdd
<1> HIDE DEF w
<1>7. w \in Templates /\ w.count = t.count + 1
  <2> HIDE DEF size
  <2> QED BY <1>1, <1>2, <1>3, <1>4, <1>5, <1>6, SMTT(60) DEF Templates
<1>8. ASSUME w.sound PROVE IsSound(w)
  <2>1. t.sound /\ u
    BY <1>5, <1>8
  <2>2. IsSound(t) /\ IsStart(m)
    BY <2>1 DEF KnownTemplates
  <2>3. size = Abs(Shift)
    BY <2>2, NumbersAreKnown DEF IsStart
  <2> HIDE DEF size
  <2>4. /\ w.delta = WithSample(t.delta, Shift) /\ w.absDelta = WithSample(t.absDelta, Abs(Shift))
        /\ w.range = WithSample(t.range, Abs(Gain)) /\ w.before = WithSample(t.before, MeanScale * Maf["crank"])
    <3>1. Abs(Shift) # Null
      BY NumbersAreKnown, NullAssumption
    <3> QED BY <1>5, <2>2, <2>3, <3>1, NumbersAreKnown DEF IsStart, AddIf
  <2>5. w.lag.sum = 0
    <3>1. m.lag = Null \/ m.lag = 0
      BY <2>2 DEF IsStart
    <3>2. w.lag = AddIf(t.lag, m.lag)
      BY <1>5
    <3>3. m.lag = 0 => w.lag.sum = t.lag.sum + 0
      BY <1>1, <3>2, SamplesAdd, NullAssumption DEF AddIf
    <3> QED BY <2>2, <3>1, <3>2, <3>3 DEF IsSound, AddIf
  <2>6. \A k \in Int : (t.count + 1) * k = t.count * k + k
    BY <1>1
  <2>7. /\ w.delta.n = t.delta.n + 1 /\ w.delta.sum = t.delta.sum + Shift
        /\ w.absDelta.n = t.absDelta.n + 1 /\ w.absDelta.sum = t.absDelta.sum + Abs(Shift)
        /\ w.range.n = t.range.n + 1 /\ w.range.sum = t.range.sum + Abs(Gain)
        /\ w.before.n = t.before.n + 1 /\ w.before.sum = t.before.sum + MeanScale * Maf["crank"]
    <3> HIDE DEF w
    <3>1. \A x \in Moments, v \in Int : WithSample(x, v).n = x.n + 1 /\ WithSample(x, v).sum = x.sum + v
      BY SamplesAdd
    <3>2. Shift \in Int /\ Abs(Shift) \in Int /\ Abs(Gain) \in Int /\ MeanScale * Maf["crank"] \in Int
      BY NumbersAreKnown
    <3>3. PICK c \in Int : c = MeanScale * Maf["crank"]
      BY <3>2
    <3>4. w.before = WithSample(t.before, c)
      BY <2>4, <3>3
    <3>5. w.before.n = t.before.n + 1 /\ w.before.sum = t.before.sum + c
      BY <1>1, <3>1, <3>4
    <3>6. w.before.sum = t.before.sum + MeanScale * Maf["crank"]
      BY <3>3, <3>5
    <3>7. w.delta.n = t.delta.n + 1 /\ w.delta.sum = t.delta.sum + Shift
      BY <1>1, <2>4, <3>1, <3>2
    <3>8. w.absDelta.n = t.absDelta.n + 1 /\ w.absDelta.sum = t.absDelta.sum + Abs(Shift)
      BY <1>1, <2>4, <3>1, <3>2
    <3>9. w.range.n = t.range.n + 1 /\ w.range.sum = t.range.sum + Abs(Gain)
      BY <1>1, <2>4, <3>1, <3>2
    <3> QED BY <3>5, <3>6, <3>7, <3>8, <3>9
  <2>8. /\ w.delta.sum = (t.count + 1) * Shift /\ w.absDelta.sum = (t.count + 1) * Abs(Shift)
        /\ w.range.sum = (t.count + 1) * Abs(Gain)
        /\ w.before.sum = (t.count + 1) * (MeanScale * Maf["crank"])
    BY <2>2, <2>6, <2>7, NumbersAreKnown DEF IsSound
  <2> HIDE DEF w
  <2>9. /\ w.delta.n = w.count /\ w.absDelta.n = w.count /\ w.range.n = w.count /\ w.before.n = w.count
    BY <1>7, <2>2, <2>7 DEF IsSound
  <2>10. w.count = t.count + 1
    BY <1>7
  <2>11. /\ w.delta.sum = w.count * Shift /\ w.absDelta.sum = w.count * Abs(Shift)
         /\ w.range.sum = w.count * Abs(Gain) /\ w.before.sum = w.count * (MeanScale * Maf["crank"])
    BY <2>8, <2>10, Zenon
  <2> QED BY <2>5, <2>9, <2>11, Zenon DEF IsSound
<1>9. w \in KnownTemplates /\ w.count = t.count + 1
  BY <1>7, <1>8 DEF KnownTemplates
<1> QED BY <1>9 DEF w

\* A start is never a reason against a sound template.
LEMMA StartsAreNoReason ==
  ASSUME NEW t \in Templates, IsSound(t), NEW m \in Measures, IsStart(m)
  PROVE  AnomalyReasons(t, m) = {}
<1>1. PICK n \in Nat, a \in Nat, g \in Nat, s \in Int, c \in Int :
        n = t.count /\ a = Abs(Shift) /\ g = Abs(Gain) /\ s = Shift /\ c = MeanScale * Maf["crank"]
  BY NumbersAreKnown DEF Templates
<1>2. PICK k \in Nat : k = MeanScale /\ k > 0
  BY ScaleIsPositive
<1>3. /\ t.delta.n = n /\ t.delta.sum = n * s /\ t.absDelta.n = n /\ t.absDelta.sum = n * a
      /\ t.range.n = n /\ t.range.sum = n * g /\ t.before.n = n /\ t.before.sum = n * c /\ t.lag.sum = 0
  BY <1>1 DEF IsSound
<1>4. /\ m.delta = s /\ m.delta # Null /\ m.range = g /\ m.before = c /\ (m.lag = Null \/ m.lag = 0)
  BY <1>1, NumbersAreKnown DEF IsStart
<1>5. Abs(m.delta) = a
  BY <1>1, <1>4
<1>6. MeanAtLeast(t.absDelta, MeanScale) => n > 0 /\ a >= k
  <2> SUFFICES ASSUME n > 0, n * a >= k * n PROVE a >= k
    BY <1>2, <1>3 DEF MeanAtLeast
  <2>1. a < k => n * a < k * n
    OBVIOUS
  <2> QED BY <2>1
<1>7. MeanAtLeast(t.range, 1) => n > 0 /\ g >= 1
  <2> SUFFICES ASSUME n > 0, n * g >= 1 * n PROVE g >= 1
    BY <1>3 DEF MeanAtLeast
  <2>1. g = 0 => n * g = 0
    OBVIOUS
  <2> QED BY <2>1
<1>8. ~NoResponse(t, m)
  BY <1>2, <1>4, <1>5, <1>6 DEF NoResponse
<1>9. n > 0 /\ a > 0 => n * a > 0
  OBVIOUS
<1>10. n > 0 /\ g > 0 => n * g > 0
  OBVIOUS
<1>11. ~TooSmall(t, m)
  <2>1. 20 * n * a = 20 * (n * a)
    OBVIOUS
  <2> QED BY <1>2, <1>3, <1>5, <1>6, <1>9, <2>1 DEF TooSmall
<1>12. ~TooLarge(t, m)
  <2>1. k * n \in Nat
    OBVIOUS
  <2> QED BY <1>2, <1>3, <1>5, <2>1 DEF TooLarge, Above
<1>13. ~StuckFlat(t, m)
  <2>1. 10 * n * g = 10 * (n * g)
    OBVIOUS
  <2> QED BY <1>3, <1>4, <1>7, <1>10, <2>1 DEF StuckFlat
<1>14. ~WrongWay(t, m)
  <2>1. n > 0 => (n * s < 0 <=> s < 0)
    OBVIOUS
  <2> QED BY <1>3, <1>4, <2>1 DEF WrongWay
<1>15. ~DelayedResponse(t, m)
  <2>1. LagTolerance \in Nat /\ t.lag.n \in Nat
    BY TransitionAssumption DEF Templates, Moments
  <2>2. t.lag.n * 0 = 0 /\ LagTolerance * t.lag.n \in Nat
    BY <2>1
  <2> QED BY <1>3, <1>4, <2>1, <2>2 DEF DelayedResponse, Above
<1>16. ~PersistentOffset(t, m)
  <2>1. k * n \in Nat
    OBVIOUS
  <2>2. Above(t.before, m.before) = 0
    BY <1>3, <1>4 DEF Above
  <2> QED BY <1>2, <1>3, <2>1, <2>2 DEF PersistentOffset, Abs
<1> QED BY <1>8, <1>11, <1>12, <1>13, <1>14, <1>15, <1>16 DEF AnomalyReasons

(* The windows that are over.                                              *)
Causes == {"no_response", "too_small_delta", "too_large_delta", "stuck_flat",
           "wrong_sequence", "delayed_response", "persistent_offset"}
\* What judging may have come to: what it learned is counted, and whatever it
\* found has a cause.
Judgements ==
  {acc \in [template : KnownTemplates, learned : Nat, reasons : SUBSET Causes, cause : {TRUE}] :
     acc.template.count = template.count + acc.learned}

LEMMA JudgingStays ==
  ASSUME NEW hist, IsHistory(hist), \A h \in hist : h.age <= Kept,
         NEW age \in Int, HoldsEvent(hist, age), NEW learns \in BOOLEAN, NEW acc \in Judgements,
         template \in KnownTemplates
  PROVE  Finalized(acc, hist, age, learns) \in Judgements
<1> DEFINE m == WindowMetrics(hist, age)
           r == AnomalyReasons(acc.template, m)
           u == ShowsAStart(hist, age)
           taken == learns /\ r = {}
           learned == WithWindow(acc.template, m, u)
<1>1. m \in Measures /\ u \in BOOLEAN /\ (u => IsStart(m))
  <2>1. u \in BOOLEAN
    BY DEF ShowsAStart
  <2> QED BY <2>1, WindowsAreMeasured, StartsAreMeasured
<1>2. /\ acc.template \in KnownTemplates /\ acc.learned \in Nat /\ acc.reasons \in SUBSET Causes
      /\ acc.cause = TRUE /\ acc.template.count = template.count + acc.learned
      /\ acc = [template |-> acc.template, learned |-> acc.learned, reasons |-> acc.reasons, cause |-> TRUE]
  BY DEF Judgements
<1>3. r \in SUBSET Causes
  BY DEF AnomalyReasons, Causes
<1>4. ~(r # {} /\ u /\ acc.template.sound)
  <2> SUFFICES ASSUME u, acc.template.sound PROVE r = {}
    OBVIOUS
  <2>1. acc.template \in Templates /\ IsSound(acc.template)
    BY <1>2 DEF KnownTemplates
  <2> HIDE DEF m, u
  <2> QED BY <1>1, <2>1, StartsAreNoReason
<1>5. learned \in KnownTemplates /\ learned.count = acc.template.count + 1
  <2> HIDE DEF m, u
  <2> QED BY <1>1, <1>2, WindowsAreLearned
<1>6. Finalized(acc, hist, age, learns) =
        IF m.total < MinWindowSamples THEN acc
        ELSE [template |-> IF taken THEN learned ELSE acc.template,
              learned |-> acc.learned + (IF taken THEN 1 ELSE 0),
              reasons |-> acc.reasons \cup r,
              cause |-> IF r = {} THEN acc.cause ELSE acc.cause /\ ~(u /\ acc.template.sound)]
  BY Zenon DEF Finalized
<1> HIDE DEF m, r, u, learned, taken
<1>7. (IF r = {} THEN acc.cause ELSE acc.cause /\ ~(u /\ acc.template.sound)) = TRUE
  BY <1>2, <1>4
<1>8. acc.template.count \in Nat
  BY <1>2 DEF KnownTemplates, Templates
<1>9. CASE m.total < MinWindowSamples
  BY <1>6, <1>9
<1>10. CASE ~(m.total < MinWindowSamples) /\ taken
  <2>1. Finalized(acc, hist, age, learns) =
          [template |-> learned, learned |-> acc.learned + 1, reasons |-> acc.reasons \cup r, cause |-> TRUE]
    BY <1>6, <1>7, <1>10
  <2>2. learned.count = template.count + (acc.learned + 1)
    <3>1. template.count \in Int
      BY DEF KnownTemplates, Templates
    <3> QED BY <1>2, <1>5, <1>8, <3>1
  <2> QED BY <1>2, <1>3, <1>5, <2>1, <2>2 DEF Judgements
<1>11. CASE ~(m.total < MinWindowSamples) /\ ~taken
  <2>1. Finalized(acc, hist, age, learns) =
          [template |-> acc.template, learned |-> acc.learned + 0, reasons |-> acc.reasons \cup r, cause |-> TRUE]
    BY <1>6, <1>7, <1>11
  <2>2. acc.learned + 0 = acc.learned
    BY <1>2
  <2> QED BY <1>2, <1>3, <2>1, <2>2 DEF Judgements
<1> QED BY <1>9, <1>10, <1>11

LEMMA JudgedStays ==
  ASSUME NEW hist, IsHistory(hist), \A h \in hist : h.age <= Kept,
         NEW due \in SUBSET Int, IsFiniteSet(due), \A age \in due : HoldsEvent(hist, age),
         NEW learns \in BOOLEAN, template \in KnownTemplates
  PROVE  Judged(hist, due, learns) \in Judgements
<1> DEFINE base == [template |-> template, learned |-> 0, reasons |-> {}, cause |-> TRUE]
           Read(x, acc) == Finalized(acc, hist, x, learns)
           pick == [T \in SUBSET due |-> Least(T)]
           next == [p \in due \X Judgements |-> Read(p[1], p[2])]
           Step(iter) == [s \in SUBSET due |->
             IF s = {} THEN base ELSE Finalized(iter[s \ {Least(s)}], hist, Least(s), learns)]
           iter == CHOOSE iter : iter = Step(iter)
<1>1. base \in Judgements
  BY DEF Judgements, KnownTemplates, Templates
<1>2. \A x \in due, acc \in Judgements : Read(x, acc) \in Judgements
  BY JudgingStays
<1>3. \A T \in SUBSET due : T # {} => Least(T) \in T
  <2> SUFFICES ASSUME NEW T \in SUBSET due, T # {} PROVE Least(T) \in T
    OBVIOUS
  <2>1. \E m \in T : \A x \in T : m <= x
    BY Extremes
  <2> QED BY <2>1 DEF Least
<1>4. next \in [due \X Judgements -> Judgements] /\ \A T \in SUBSET due : T # {} => pick[T] \in T
  <2> HIDE DEF Read
  <2> QED BY <1>2, <1>3
<1>5. \A T \in SUBSET due : pick[T] = Least(T)
  OBVIOUS
<1>6. \A x \in due, acc \in Judgements : next[<<x, acc>>] = Finalized(acc, hist, x, learns)
  OBVIOUS
<1>7. Judged(hist, due, learns) = iter[due]
  BY Zenon DEF Judged, MapThenFoldSet
<1> HIDE DEF base, Read, pick, next, iter
<1>8. PICK g \in [SUBSET due -> Judgements] : IsFold(g, due, base, next, pick)
  BY <1>1, <1>4, FoldExists
<1>9. g = Step(g)
  <2>1. ASSUME NEW T \in SUBSET due
        PROVE  g[T] = IF T = {} THEN base ELSE Finalized(g[T \ {Least(T)}], hist, Least(T), learns)
    <3>1. T = {} => g[T] = base
      BY <1>8 DEF IsFold
    <3>2. T # {} => g[T] = next[<<pick[T], g[T \ {pick[T]}]>>]
      BY <1>8 DEF IsFold
    <3>3. g[T \ {Least(T)}] \in Judgements
      BY <1>8
    <3> QED BY <1>3, <1>5, <1>6, <3>1, <3>2, <3>3
  <2> QED BY <1>8, <2>1
<1>10. iter = Step(iter)
  <2> HIDE DEF Step
  <2> QED BY <1>9, Zenon DEF iter
<1>11. iter[{}] \in Judgements
  BY <1>1, <1>10
<1>12. ASSUME NEW T \in SUBSET due, T # {}, iter[T \ {pick[T]}] \in Judgements
       PROVE  iter[T] \in Judgements
  <2>1. iter[T] = Finalized(iter[T \ {Least(T)}], hist, Least(T), learns)
    BY <1>10, <1>12
  <2>2. Least(T) \in due /\ pick[T] = Least(T)
    BY <1>3, <1>5, <1>12
  <2> QED BY <1>2, <1>12, <2>1, <2>2 DEF Read
<1>13. \A T \in SUBSET due : iter[T] \in Judgements
  <2> HIDE DEF Step
  <2> QED BY <1>4, <1>11, <1>12, FoldStays
<1> QED BY <1>7, <1>13

(* The monitor.                                                            *)
TransitionInv ==
  /\ engine \in EngineStates
  /\ IsHistory(history) /\ pending \in SUBSET Int /\ IsFiniteSet(pending)
  /\ \A age \in pending : HoldsEvent(history, age)
  /\ template \in KnownTemplates /\ templateFile.template \in KnownTemplates
  /\ newWindows \in Nat
  /\ template.count = templateFile.template.count + newWindows \/ newWindows >= SaveEveryWindows
  /\ AlarmsHaveACause

LEMMA EmptyIsKnown ==
  EmptyTemplate \in KnownTemplates /\ EmptyTemplate.count = 0 /\ TornFile.template = EmptyTemplate
<1>1. \A k \in Int : 0 * k = 0
  OBVIOUS
<1>2. NoSamples \in Moments /\ NoSamples.n = 0 /\ NoSamples.sum = 0
  BY DEF NoSamples, Moments
<1> QED BY <1>1, <1>2, NumbersAreKnown DEF EmptyTemplate, TornFile, KnownTemplates, Templates, IsSound

LEMMA FramesAreFrames ==
  ASSUME NEW e \in EngineStates, NEW f, f = LiveFrame(e) \/ f = StaleFrame(e)
  PROVE  IsFrame(f)
<1>1. Maf[e] \in Int
  BY TransitionAssumption
<1>2. \A x : LiveFrame(x).maf = Maf[x] /\ LiveFrame(x).stale = FALSE
  BY DEF LiveFrame
<1>3. CASE f = LiveFrame(e)
  <2>1. f.maf = Maf[e] /\ f.stale = FALSE
    BY <1>2, <1>3
  <2> QED BY <1>1, <1>2, <2>1, NullAssumption DEF IsFrame, Numbers
<1>4. CASE f = StaleFrame(e)
  <2> DEFINE live == LiveFrame(e)
  <2>1. DOMAIN live = {"rpm", "maf", "stale", "speed", "throttle", "gear", "fan"}
    BY DEF LiveFrame
  <2> HIDE DEF live
  <2>2. f = [live EXCEPT !.rpm = 0, !.maf = Null, !.stale = TRUE]
    BY <1>4, Zenon DEF StaleFrame, live
  <2>3. f.rpm = 0 /\ f.maf = Null /\ f.stale = TRUE
    BY <2>1, <2>2
  <2> QED BY <1>2, <2>3 DEF IsFrame, Numbers
<1> QED BY <1>3, <1>4

LEMMA AgedIsHistory ==
  ASSUME IsHistory(history)
  PROVE  /\ IsHistory(PrunedHistory(AgedHistory))
         /\ \A e \in EngineStates, a \in Nat : \A f : f = LiveFrame(e) \/ f = StaleFrame(e) =>
              IsHistory(PrunedHistory(AgedHistory \cup {[age |-> a, frame |-> f]}))
<1> DEFINE f == [h \in history |-> [h EXCEPT !.age = @ + 1]]
<1>1. \A h \in history : DOMAIN f[h] = {"age", "frame"} /\ f[h].age \in Nat /\ IsFrame(f[h].frame)
  <2> TAKE h \in history
  <2>1. DOMAIN h = {"age", "frame"} /\ h.age \in Nat /\ IsFrame(h.frame)
    BY DEF IsHistory
  <2>2. f[h] = [h EXCEPT !.age = h.age + 1]
    OBVIOUS
  <2> HIDE DEF f
  <2>3. DOMAIN f[h] = {"age", "frame"} /\ f[h].age \in Nat /\ f[h].frame = h.frame
    BY <2>1, <2>2
  <2> QED BY <2>1, <2>3
<1>2. {f[h] : h \in history} = AgedHistory
  BY Zenon DEF AgedHistory
<1> HIDE DEF f
<1>3. IsFiniteSet({f[h] : h \in history})
  BY FiniteImage DEF IsHistory
<1>4. IsHistory(AgedHistory)
  <2>1. \A k \in AgedHistory : \E h \in history : k = f[h]
    BY <1>2
  <2> QED BY <1>1, <1>2, <1>3, <2>1, ZenonT(60) DEF IsHistory
<1>5. ASSUME NEW S, IsHistory(S) PROVE IsHistory(PrunedHistory(S))
  BY <1>5, FS_Subset DEF IsHistory, PrunedHistory
<1>6. ASSUME NEW e \in EngineStates, NEW a \in Nat, NEW d, d = LiveFrame(e) \/ d = StaleFrame(e)
      PROVE  IsHistory(AgedHistory \cup {[age |-> a, frame |-> d]})
  <2> DEFINE new == [age |-> a, frame |-> d]
  <2>1. IsFrame(d)
    BY <1>6, FramesAreFrames
  <2>2. DOMAIN new = {"age", "frame"} /\ new.age \in Nat /\ IsFrame(new.frame)
    BY <2>1
  <2> HIDE DEF new
  <2>3. IsFiniteSet(AgedHistory \cup {new})
    BY <1>4, FS_AddElement DEF IsHistory
  <2>4. IsHistory(AgedHistory \cup {new})
    BY <1>4, <2>2, <2>3 DEF IsHistory
  <2> QED BY <2>4 DEF new
<1> QED BY <1>4, <1>5, <1>6

\* The frame of an event ages with it.
LEMMA EventsAreHeld ==
  ASSUME IsHistory(history), NEW age \in Int, HoldsEvent(history, age), NEW S, AgedHistory \subseteq S
  PROVE  HoldsEvent(PrunedHistory(S), age + 1)
<1> SUFFICES ASSUME age + 1 <= Kept
             PROVE  \E h \in PrunedHistory(S) : h.age = age + 1 /\ ~h.frame.stale
  BY DEF HoldsEvent
<1>1. age <= Kept
  BY TransitionAssumption DEF Kept
<1>2. PICK h \in history : h.age = age /\ ~h.frame.stale
  BY <1>1 DEF HoldsEvent
<1>3. PICK k : k = [h EXCEPT !.age = h.age + 1]
  OBVIOUS
<1>4. k \in AgedHistory
  BY <1>3, Zenon DEF AgedHistory
<1>5. DOMAIN h = {"age", "frame"}
  BY DEF IsHistory
<1>6. k.age = age + 1 /\ k.frame = h.frame
  BY <1>2, <1>3, <1>5
<1> QED BY <1>2, <1>4, <1>6 DEF PrunedHistory, Kept

\* An engine fires in live frames only.
LEMMA FiresAreLive ==
  ASSUME NEW f, IsFrame(f), "first_fire" \in Segmented(f)
  PROVE  ~f.stale
<1>1. "first_fire" \in EventsBetween(previous.frame, f, previous.age + 1)
  BY DEF Segmented
<1>2. "first_fire" \in Crossings(previous.frame, f)
  BY <1>1, Zenon DEF EventsBetween
<1>3. 450 <= f.rpm
  BY <1>2 DEF Crossings
<1> QED BY <1>3 DEF IsFrame

LEMMA AgesAgeOn ==
  ASSUME NEW S \in SUBSET Int, IsFiniteSet(S), NEW f, \A a \in S : f[a] \in Int
  PROVE  {f[a] : a \in S} \in SUBSET Int /\ IsFiniteSet({f[a] : a \in S})
BY FiniteImage

LEMMA RoundKeeps ==
  ASSUME TransitionInv, NEW e \in EngineStates, engine' = e,
         NEW f, f = LiveFrame(e) \/ f = StaleFrame(e),
         NEW troubled \in BOOLEAN, ObserveRound(f, troubled)
  PROVE  /\ TransitionInv'
         /\ medium = "well" => \/ template'.count - templateFile'.template.count < SaveEveryWindows
                               \/ roundsSinceSave' < TransitionSaveInterval
<1> DEFINE hist   == PrunedHistory(AgedHistory \cup {[age |-> 0, frame |-> f]})
           fires  == IF "first_fire" \in Segmented(f) THEN {0} ELSE {}
           aged   == {age + 1 : age \in pending}
           ages   == aged \cup fires
           due    == {age \in ages : age >= AfterRounds}
           learns == StateAllowsLearning(f, troubled)
           done   == Judged(hist, due, learns)
           count  == newWindows + done.learned
           since  == AtMost(TransitionSaveInterval, roundsSinceSave)
<1>1. /\ history' = hist /\ pending' = {age \in ages : age < AfterRounds}
      /\ template' = done.template /\ verdict' = [reasons |-> done.reasons, cause |-> done.cause]
      /\ WriteIfDue(count, since) /\ medium' = medium
  BY Zenon DEF ObserveRound
<1>2. IsHistory(hist)
  <2>1. IsHistory(history) /\ 0 \in Nat
    BY DEF TransitionInv
  <2> QED BY <2>1, AgedIsHistory, Zenon
<1>13. \A h \in hist : h.age <= Kept
  BY DEF PrunedHistory, Kept
<1>14. \A age \in ages : HoldsEvent(hist, age)
  <2>1. ASSUME NEW age \in aged PROVE HoldsEvent(hist, age)
    <3>1. PICK a \in pending : age = a + 1
      BY <2>1
    <3>2. a \in Int /\ HoldsEvent(history, a) /\ IsHistory(history)
      BY DEF TransitionInv
    <3> QED BY <3>1, <3>2, EventsAreHeld
  <2>2. ASSUME NEW age \in fires PROVE HoldsEvent(hist, age)
    <3> DEFINE new == [age |-> 0, frame |-> f]
    <3>1. "first_fire" \in Segmented(f) /\ age = 0
      BY <2>2
    <3>2. ~f.stale
      BY <3>1, FramesAreFrames, FiresAreLive
    <3>3. new.age = 0 /\ new.frame = f
      OBVIOUS
    <3>4. Kept \in Nat
      BY TransitionAssumption DEF Kept
    <3> HIDE DEF new
    <3>5. new \in hist
      BY <3>3, <3>4 DEF PrunedHistory, Kept, new
    <3> QED BY <3>1, <3>2, <3>3, <3>5 DEF HoldsEvent
  <2> QED BY <2>1, <2>2
<1>15. learns \in BOOLEAN
  BY DEF StateAllowsLearning
<1> HIDE DEF hist, learns, done, since
<1>3. ages \in SUBSET Int /\ IsFiniteSet(ages)
  <2> DEFINE next == [a \in pending |-> a + 1]
  <2>1. {next[a] : a \in pending} = aged /\ \A a \in pending : next[a] \in Int
    BY DEF TransitionInv
  <2>2. fires \in SUBSET Int /\ IsFiniteSet(fires)
    <3>1. fires = {} \/ fires = {0}
      OBVIOUS
    <3>2. IsFiniteSet({0})
      BY FS_Singleton, Zenon
    <3> QED BY <3>1, <3>2, FS_EmptySet
  <2> HIDE DEF next, aged, fires
  <2>3. aged \in SUBSET Int /\ IsFiniteSet(aged)
    BY <2>1, AgesAgeOn DEF TransitionInv
  <2> QED BY <2>2, <2>3, FS_Union
<1> HIDE DEF ages
<1>4. pending' \in SUBSET Int /\ IsFiniteSet(pending') /\ due \in SUBSET Int /\ IsFiniteSet(due)
  BY <1>1, <1>3, FS_Subset
<1>16. /\ \A age \in due : HoldsEvent(hist, age)
       /\ \A age \in pending' : HoldsEvent(hist, age)
  BY <1>1, <1>14
<1>17. \A age \in pending' : HoldsEvent(history', age)
  BY <1>1, <1>16
<1> HIDE DEF due
<1>5. done \in Judgements
  BY <1>2, <1>4, <1>13, <1>15, <1>16, JudgedStays DEF TransitionInv, done
<1>6. /\ done.template \in KnownTemplates /\ done.learned \in Nat /\ done.cause = TRUE
      /\ done.template.count = template.count + done.learned
  BY <1>5 DEF Judgements
<1>7. AlarmsHaveACause'
  BY <1>1, <1>6 DEF AlarmsHaveACause
<1>8. PICK n \in Nat, was \in Nat, file \in Nat :
        n = done.learned /\ was = template.count /\ file = templateFile.template.count
  BY <1>6 DEF TransitionInv, KnownTemplates, Templates
<1>9. count = newWindows + n /\ newWindows \in Nat /\ template'.count = was + n
      /\ (was = file + newWindows \/ newWindows >= SaveEveryWindows)
      /\ SaveEveryWindows \in Nat /\ SaveEveryWindows > 0
  BY <1>1, <1>6, <1>8, TransitionAssumption DEF TransitionInv
<1> HIDE DEF count
<1>10. /\ templateFile'.template \in KnownTemplates /\ newWindows' \in Nat
       /\ template'.count = templateFile'.template.count + newWindows' \/ newWindows' >= SaveEveryWindows
       /\ medium = "well" => \/ template'.count - templateFile'.template.count < SaveEveryWindows
                             \/ roundsSinceSave' < TransitionSaveInterval
  <2>1. CASE count < SaveEveryWindows \/ since < TransitionSaveInterval
    <3>1. newWindows' = count /\ roundsSinceSave' = since /\ templateFile' = templateFile
      BY <1>1, <2>1 DEF WriteIfDue
    <3>2. templateFile'.template.count = file /\ templateFile'.template \in KnownTemplates
      BY <1>8, <3>1 DEF TransitionInv
    <3> QED BY <1>8, <1>9, <2>1, <3>1, <3>2
  <2>2. CASE ~(count < SaveEveryWindows \/ since < TransitionSaveInterval) /\ medium = "well"
    <3>1. newWindows' = 0 /\ templateFile' = [state |-> "whole", template |-> template']
      BY <1>1, <2>2 DEF WriteIfDue
    <3>2. templateFile'.template = template' /\ template' \in KnownTemplates
      BY <1>1, <1>6, <3>1
    <3>3. /\ template'.count = template'.count + 0
          /\ template'.count - template'.count < SaveEveryWindows
      BY <1>9
    <3> QED BY <3>1, <3>2, <3>3
  <2>3. CASE ~(count < SaveEveryWindows \/ since < TransitionSaveInterval) /\ medium # "well"
    <3>1. newWindows' = count /\ templateFile' = IF medium = "full" THEN TornFile ELSE templateFile
      BY <1>1, <2>3 DEF WriteIfDue
    <3>2. templateFile'.template \in KnownTemplates
      BY <3>1, EmptyIsKnown DEF TransitionInv
    <3>3. count >= SaveEveryWindows
      BY <1>8, <1>9, <2>3
    <3> QED BY <1>8, <1>9, <2>3, <3>1, <3>2, <3>3
  <2> QED BY <2>1, <2>2, <2>3
<1>11. engine' \in EngineStates /\ IsHistory(history') /\ template' \in KnownTemplates
  BY <1>1, <1>2, <1>6
<1>12. TransitionInv'
  BY <1>4, <1>7, <1>10, <1>11, <1>17 DEF TransitionInv, IsHistory, IsFrame, HoldsEvent, Kept
<1> QED BY <1>10, <1>12


LEMMA TransitionStepKeeps ==
  ASSUME TransitionInv, [TransitionNext]_transitionVars
  PROVE  /\ TransitionInv'
         /\ medium = "well" /\ medium' = medium /\ (\E h \in history' : h.age = 0) =>
              \/ template'.count - templateFile'.template.count < SaveEveryWindows
              \/ roundsSinceSave' < TransitionSaveInterval
              \/ UNCHANGED transitionVars
<1>1. \A x \in EngineStates : EngineTurns(x) \subseteq EngineStates
  BY DEF EngineTurns, EngineStates
<1>2. CASE Round
  <2>1. PICK e \in EngineTurns(engine), stale \in BOOLEAN, troubled \in BOOLEAN :
          engine' = e /\ ObserveRound(IF stale THEN StaleFrame(e) ELSE LiveFrame(e), troubled)
    BY <1>2, Zenon DEF Round
  <2>2. e \in EngineStates
    BY <1>1 DEF TransitionInv
  <2> DEFINE f == IF stale THEN StaleFrame(e) ELSE LiveFrame(e)
  <2>3. ObserveRound(f, troubled) /\ (f = LiveFrame(e) \/ f = StaleFrame(e))
    BY <2>1
  <2> HIDE DEF f
  <2> QED BY <2>1, <2>2, <2>3, RoundKeeps
<1>3. CASE NoClient
  <2> DEFINE most == BeforeRounds + 2 * AfterRounds + SlackRounds + 1
             next == [a \in pending |-> AtMost(most, a)]
  <2>1. /\ \E e \in EngineTurns(engine) : engine' = e
        /\ history' = PrunedHistory(AgedHistory) /\ pending' = {AtMost(most, age) : age \in pending}
        /\ UNCHANGED <<template, verdict, newWindows, templateFile>>
    BY <1>3, Zenon DEF NoClient
  <2>2. most \in Int /\ pending \in SUBSET Int /\ IsFiniteSet(pending)
    BY TransitionAssumption DEF TransitionInv
  <2>3. {next[a] : a \in pending} = {AtMost(most, age) : age \in pending}
    OBVIOUS
  <2> HIDE DEF most
  <2>4. \A a \in pending : next[a] \in Int
    BY <2>2 DEF AtMost
  <2> HIDE DEF next
  <2>5. pending' \in SUBSET Int /\ IsFiniteSet(pending')
    BY <2>1, <2>2, <2>3, <2>4, AgesAgeOn
  <2>6. engine' \in EngineStates
    BY <1>1, <2>1 DEF TransitionInv
  <2>7. IsHistory(history')
    BY <2>1, AgedIsHistory, Zenon DEF TransitionInv
  <2>10. \A age \in pending' : HoldsEvent(history', age)
    <3> SUFFICES ASSUME NEW a \in pending PROVE HoldsEvent(history', AtMost(most, a))
      BY <2>1, Zenon
    <3>1. a \in Int /\ HoldsEvent(history, a) /\ IsHistory(history)
      BY DEF TransitionInv
    <3>2. HoldsEvent(history', a + 1)
      BY <2>1, <3>1, EventsAreHeld
    <3>3. ~(most <= Kept)
      BY TransitionAssumption DEF most, Kept
    <3> QED BY <2>2, <3>1, <3>2, <3>3 DEF AtMost, HoldsEvent
  <2>8. TransitionInv'
    BY <2>1, <2>5, <2>6, <2>7, <2>10 DEF TransitionInv, AlarmsHaveACause, IsHistory, IsFrame, HoldsEvent, Kept
  <2>9. \A h \in history' : h.age # 0
    <3>1. \A k \in history : DOMAIN k = {"age", "frame"} /\ k.age \in Nat
      BY DEF TransitionInv, IsHistory
    <3>2. \A h \in AgedHistory : \E k \in history : h = [k EXCEPT !.age = k.age + 1]
      BY Zenon DEF AgedHistory
    <3>3. \A k \in history : [k EXCEPT !.age = k.age + 1].age # 0
      BY <3>1
    <3>4. history' \subseteq AgedHistory
      BY <2>1 DEF PrunedHistory
    <3> QED BY <3>2, <3>3, <3>4, Zenon
  <2> QED BY <2>8, <2>9
<1>4. ASSUME NEW file \in FilesAfterKill, HubRestarts(file) PROVE TransitionInv' /\ history' = {}
  <2>1. /\ templateFile' = file /\ template' = file.template /\ history' = {} /\ pending' = {}
        /\ verdict' = [reasons |-> {}, cause |-> TRUE] /\ newWindows' = 0 /\ engine' = engine
    BY <1>4 DEF HubRestarts
  <2>2. file.template \in KnownTemplates
    BY EmptyIsKnown DEF FilesAfterKill, TransitionInv
  <2>3. file.template.count = file.template.count + 0
    BY <2>2 DEF KnownTemplates, Templates
  <2> QED BY <2>1, <2>2, <2>3, FS_EmptySet DEF TransitionInv, IsHistory, AlarmsHaveACause, HoldsEvent
<1>5. CASE MediumChanges
  <2>1. TransitionInv'
    BY <1>5 DEF MediumChanges, TransitionInv, IsHistory, IsFrame, HoldsEvent, Kept, AlarmsHaveACause
  <2> QED BY <1>5, <2>1 DEF MediumChanges
<1>6. CASE UNCHANGED transitionVars
  BY <1>6 DEF transitionVars, TransitionInv, IsHistory, IsFrame, HoldsEvent, Kept, AlarmsHaveACause
<1> QED BY <1>2, <1>3, <1>4, <1>5, <1>6 DEF TransitionNext

LEMMA TransitionsStart == TransitionInit => TransitionInv
<1> SUFFICES ASSUME TransitionInit PROVE TransitionInv
  OBVIOUS
<1>1. EmptyTemplate.count = EmptyTemplate.count + 0
  BY EmptyIsKnown
<1> QED BY <1>1, EmptyIsKnown, FS_EmptySet DEF TransitionInit, TransitionInv, IsHistory, EngineStates, AlarmsHaveACause

\* A vehicle whose airflow follows its engine is accused only with a cause:
\* a window whose live samples do not show a start, accused or learned.  For
\* any airflow, window, tolerance and number of windows, with stale and
\* missing frames anywhere in the windows (VehicleTransitionMonitor._finalize).
THEOREM AccusationsHaveACause == TransitionSpec => []AlarmsHaveACause
<1>1. TransitionInv => AlarmsHaveACause
  BY DEF TransitionInv
<1> QED BY <1>1, TransitionsStart, TransitionStepKeeps, PTL DEF TransitionSpec

\* What is learned reaches the file as soon as it can, for any batch, interval
\* and medium, after failed and cut writes (_save_if_due, _load).
THEOREM LearnedWindowsAreSaved == TransitionSpec => SavedWhenItCan
<1>1. TransitionInv /\ [TransitionNext]_transitionVars =>
        [medium = "well" /\ medium' = medium /\ (\E h \in history' : h.age = 0) =>
           \/ template'.count - templateFile'.template.count < SaveEveryWindows
           \/ roundsSinceSave' < TransitionSaveInterval]_transitionVars
  BY TransitionStepKeeps
<1> QED BY <1>1, TransitionsStart, TransitionStepKeeps, PTL DEF TransitionSpec, SavedWhenItCan
=============================================================================
