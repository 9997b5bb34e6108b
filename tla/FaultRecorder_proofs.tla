------------------------- MODULE FaultRecorder_proofs -------------------------
(***************************************************************************)
(* Safety of the fault recorder for any fingerprints, budget, interval and *)
(* dates.                                                                  *)
(***************************************************************************)
EXTENDS FaultRecorder, FiniteSetTheorems, TLAPS

\* What a write rests on at each of its stages: room for the leftover it may
\* become, its .tmp file, and the event in place.
JobInv ==
  job # None =>
    /\ job.file.json /\ job.file.whole
    /\ job.stage = "write" /\ medium # "readonly" => Cardinality(disk) <= MaxFiles
    /\ job.stage = "replace" => Tmp(job.file) \in disk
    /\ job.stage = "prune" => job.file \in disk

DiskInv == IsFiniteSet(disk) /\ Cardinality(disk) <= MaxFiles + 1 /\ JsonIsWhole

RecorderInv == RecorderTypeOK /\ DiskInv /\ JobInv /\ StatusNamesAnEvent

-----------------------------------------------------------------------------
(* What the steps are built from *)

\* A .tmp file never carries a .json name.
LEMMA TmpType ==
  ASSUME NEW file \in Files
  PROVE  Tmp(file) \in Files /\ Tmp(file).json = FALSE
<1> DEFINE m == [file EXCEPT !.json = FALSE]
<1>1. m \in Files /\ m.json = FALSE
  BY DEF Files
<1>2. Tmp(file) = [m EXCEPT !.whole = FALSE]
  BY DEF Tmp
<1> HIDE DEF m
<1> QED BY <1>1, <1>2 DEF Files

\* Pruning keeps what it is told to keep and never adds a file; unless the
\* medium is read-only it comes down to the budget.
LEMMA PruneBounds ==
  ASSUME IsFiniteSet(disk), NEW keep, NEW kept, Prune(keep, kept)
  PROVE  /\ IsFiniteSet(kept) /\ kept \subseteq disk /\ disk \cap keep \subseteq kept
         /\ Cardinality(kept) \in Nat /\ Cardinality(kept) <= Cardinality(disk)
         /\ medium # "readonly" => Cardinality(kept) <= MaxFiles
<1>1. kept \in SUBSET disk /\ disk \cap keep \subseteq kept
  BY DEF Prune
<1>2. IsFiniteSet(kept) /\ Cardinality(kept) <= Cardinality(disk)
  BY <1>1, FS_Subset
<1>3. Cardinality(kept) \in Nat /\ Cardinality(disk) \in Nat
  BY <1>2, FS_CardinalityType
<1>4. medium # "readonly" => Cardinality(kept) <= MaxFiles
  BY <1>3, FaultRecorderAssumption DEF Prune
<1> QED BY <1>1, <1>2, <1>3, <1>4

\* There is always an id that no file has.
LEMMA FreshId ==
  ASSUME RecorderInv
  PROVE  \E id \in Ids : \A x \in disk : x.id # id
<1> DEFINE Used == {x.id : x \in disk}
           g == [x \in disk |-> x.id]
<1>1. g \in Surjection(disk, Used)
  BY DEF Surjection
<1>2. IsFiniteSet(Used) /\ Cardinality(Used) <= MaxFiles + 1
  <2>1. IsFiniteSet(Used) /\ Cardinality(Used) <= Cardinality(disk)
    <3> HIDE DEF Used, g
    <3> QED BY <1>1, FS_Surjection DEF RecorderInv, DiskInv
  <2>2. Cardinality(Used) \in Nat /\ Cardinality(disk) \in Nat
    BY <2>1, FS_CardinalityType DEF RecorderInv, DiskInv
  <2> QED BY <2>1, <2>2, FaultRecorderAssumption DEF RecorderInv, DiskInv
<1>3. ~(Ids \subseteq Used)
  <2> HIDE DEF Used
  <2>1. SUFFICES ASSUME Ids \subseteq Used PROVE FALSE
    OBVIOUS
  <2>2. Cardinality(Ids) <= Cardinality(Used)
    BY <1>2, <2>1, FS_Subset
  <2> QED BY <1>2, <2>2, FS_CardinalityType, FaultRecorderAssumption
<1> QED BY <1>3

LEMMA NewEventType ==
  ASSUME RecorderInv, NEW f \in Fingerprints, NEW date \in Dates
  PROVE  NewEvent(f, date) \in Files /\ NewEvent(f, date).json = TRUE /\ NewEvent(f, date).whole = TRUE
<1> DEFINE i == CHOOSE id \in Ids : \A x \in disk : x.fault = f /\ x.mtime = date => x.id # id
<1>1. i \in Ids
  BY FreshId
<1>2. NewEvent(f, date) = [id |-> i, mtime |-> date, fault |-> f, json |-> TRUE, whole |-> TRUE]
  BY DEF NewEvent
<1> HIDE DEF i
<1> QED BY <1>1, <1>2 DEF Files

-----------------------------------------------------------------------------
(* One lemma for each step *)

LEMMA BeginKeeps ==
  ASSUME RecorderInv, NEW f \in Fingerprints, BeginEvent(f)
  PROVE  RecorderInv'
<1>1. PICK kept \in SUBSET disk, date \in Dates :
        /\ Prune({}, kept) /\ disk' = kept
        /\ job' = [stage |-> "write", file |-> NewEvent(f, date)]
        /\ UNCHANGED <<medium, elapsed, last>>
  BY DEF BeginEvent
<1>2. /\ IsFiniteSet(kept) /\ Cardinality(kept) \in Nat /\ Cardinality(kept) <= Cardinality(disk)
      /\ medium # "readonly" => Cardinality(kept) <= MaxFiles
  BY <1>1, PruneBounds DEF RecorderInv, DiskInv
<1>3. /\ job'.stage = "write" /\ job'.file \in Files
      /\ job'.file.json = TRUE /\ job'.file.whole = TRUE /\ job' \in Jobs
  BY <1>1, NewEventType DEF Jobs
<1>4. job' # None
  BY <1>3, FaultRecorderAssumption
<1>5. RecorderTypeOK'
  BY <1>1, <1>3 DEF RecorderInv, RecorderTypeOK
<1>6. DiskInv'
  <2>1. Cardinality(disk) \in Nat
    BY FS_CardinalityType DEF RecorderInv, DiskInv
  <2> QED BY <1>1, <1>2, <2>1, FaultRecorderAssumption DEF RecorderInv, DiskInv, JsonIsWhole
<1>7. JobInv'
  BY <1>1, <1>2, <1>3, <1>4 DEF JobInv
<1> QED BY <1>4, <1>5, <1>6, <1>7 DEF RecorderInv, StatusNamesAnEvent

\* A failure ends the job and leaves no last event.
LEMMA FailedKeeps ==
  ASSUME RecorderInv, Failed, disk' \subseteq Files, DiskInv'
  PROVE  RecorderInv'
  BY DEF Failed, RecorderInv, RecorderTypeOK, JobInv, StatusNamesAnEvent

LEMMA AddTmpKeeps ==
  ASSUME RecorderInv, job # None, job.stage = "write", medium # "readonly",
         disk' = disk \cup {Tmp(job.file)}
  PROVE  disk' \subseteq Files /\ DiskInv'
<1>1. job.file \in Files
  BY DEF RecorderInv, RecorderTypeOK, Jobs
<1>2. Tmp(job.file) \in Files /\ Tmp(job.file).json = FALSE
  BY <1>1, TmpType
<1>3. Cardinality(disk) <= MaxFiles /\ IsFiniteSet(disk)
  BY DEF RecorderInv, JobInv, DiskInv
<1>4. IsFiniteSet(disk') /\ Cardinality(disk') <= MaxFiles + 1
  <2> DEFINE file == Tmp(job.file)
  <2> HIDE DEF file
  <2>1. Cardinality(disk) \in Nat
    BY <1>3, FS_CardinalityType
  <2>2. IsFiniteSet(disk \cup {file})
        /\ Cardinality(disk \cup {file}) = IF file \in disk THEN Cardinality(disk) ELSE Cardinality(disk) + 1
    BY <1>3, FS_AddElement
  <2>3. disk' = disk \cup {file}
    BY DEF file
  <2> QED BY <1>3, <2>1, <2>2, <2>3, FaultRecorderAssumption
<1> QED BY <1>2, <1>4 DEF RecorderInv, RecorderTypeOK, DiskInv, JsonIsWhole

LEMMA WriteTmpKeeps ==
  ASSUME RecorderInv, WriteTmp
  PROVE  RecorderInv'
<1>1. CASE medium = "ok" /\ disk' = disk \cup {Tmp(job.file)}
           /\ job' = [job EXCEPT !.stage = "replace"] /\ UNCHANGED <<medium, elapsed, last>>
  <2>1. job \in Jobs /\ job # None /\ job.stage = "write" /\ job.file.json /\ job.file.whole
    BY DEF WriteTmp, RecorderInv, RecorderTypeOK, JobInv
  <2>2. job' \in Jobs /\ job'.stage = "replace" /\ job'.file = job.file
    BY <1>1, <2>1 DEF Jobs
  <2>3. disk' \subseteq Files /\ DiskInv'
    BY <1>1, <2>1, AddTmpKeeps
  <2>4. job' # None
    BY <2>2, FaultRecorderAssumption
  <2>5. JobInv'
    BY <1>1, <2>1, <2>2 DEF JobInv, Tmp
  <2> QED BY <1>1, <2>2, <2>3, <2>4, <2>5 DEF RecorderInv, RecorderTypeOK, StatusNamesAnEvent
<1>2. CASE medium = "full" /\ disk' = disk \cup {Tmp(job.file)} /\ Failed
  BY <1>2, AddTmpKeeps, FailedKeeps DEF WriteTmp
<1>3. CASE UNCHANGED disk /\ Failed
  BY <1>3, FailedKeeps DEF RecorderInv, RecorderTypeOK, DiskInv, JsonIsWhole
<1> QED BY <1>1, <1>2, <1>3 DEF WriteTmp

LEMMA ReplaceKeeps ==
  ASSUME RecorderInv, Replace
  PROVE  RecorderInv'
<1>1. CASE disk' = (disk \ {Tmp(job.file)}) \cup {job.file}
           /\ job' = [job EXCEPT !.stage = "prune"] /\ UNCHANGED <<medium, elapsed, last>>
  <2>1. /\ job \in Jobs /\ job # None /\ job.file.json /\ job.file.whole
        /\ Tmp(job.file) \in disk
    BY DEF Replace, RecorderInv, RecorderTypeOK, JobInv
  <2>2. job' \in Jobs /\ job'.stage = "prune" /\ job'.file = job.file /\ job.file \in Files
    BY <1>1, <2>1 DEF Jobs
  <2>3. job' # None
    BY <2>2, FaultRecorderAssumption
  <2>4. IsFiniteSet(disk \ {Tmp(job.file)}) /\ Cardinality(disk \ {Tmp(job.file)}) = Cardinality(disk) - 1
    BY <2>1, FS_RemoveElement DEF RecorderInv, DiskInv
  <2>5. IsFiniteSet(disk') /\ Cardinality(disk') <= MaxFiles + 1
    <3>1. Cardinality(disk) \in Nat /\ Cardinality(disk) <= MaxFiles + 1
      BY FS_CardinalityType DEF RecorderInv, DiskInv
    <3> DEFINE rest == disk \ {Tmp(job.file)}
    <3>2. IsFiniteSet(rest) /\ Cardinality(rest) = Cardinality(disk) - 1 /\ disk' = rest \cup {job.file}
      BY <1>1, <2>4
    <3> HIDE DEF rest
    <3>3. IsFiniteSet(disk') /\ Cardinality(disk') = IF job.file \in rest THEN Cardinality(rest) ELSE Cardinality(rest) + 1
      BY <3>2, FS_AddElement
    <3> QED BY <3>1, <3>2, <3>3, FaultRecorderAssumption
  <2>6. disk' \subseteq Files /\ DiskInv'
    BY <1>1, <2>1, <2>2, <2>5 DEF RecorderInv, RecorderTypeOK, DiskInv, JsonIsWhole
  <2>7. JobInv'
    BY <1>1, <2>1, <2>2 DEF JobInv
  <2> QED BY <1>1, <2>2, <2>3, <2>6, <2>7 DEF RecorderInv, RecorderTypeOK, StatusNamesAnEvent
<1>2. CASE UNCHANGED disk /\ Failed
  BY <1>2, FailedKeeps DEF RecorderInv, RecorderTypeOK, DiskInv, JsonIsWhole
<1> QED BY <1>1, <1>2 DEF Replace

LEMMA FinishKeeps ==
  ASSUME RecorderInv, Finish
  PROVE  RecorderInv'
<1>1. PICK kept \in SUBSET disk : Prune({job.file}, kept) /\ disk' = kept
  BY DEF Finish
<1>2. /\ job \in Jobs /\ job.file.json /\ job.file \in disk /\ job.file \in Files
      /\ elapsed' = [elapsed EXCEPT ![job.file.fault] = 0]
      /\ last' = job.file /\ job' = None /\ UNCHANGED medium
  BY DEF Finish, RecorderInv, RecorderTypeOK, JobInv, Jobs
<1>3. /\ IsFiniteSet(kept) /\ job.file \in kept
      /\ Cardinality(kept) \in Nat /\ Cardinality(kept) <= Cardinality(disk)
  BY <1>1, <1>2, PruneBounds DEF RecorderInv, DiskInv
<1>4. DiskInv'
  <2>1. Cardinality(disk) \in Nat
    BY FS_CardinalityType DEF RecorderInv, DiskInv
  <2> QED BY <1>1, <1>3, <2>1, FaultRecorderAssumption DEF RecorderInv, DiskInv, JsonIsWhole
<1>5. last' \in Files /\ elapsed' \in [Fingerprints -> 0 .. Never]
  <2>1. job.file.id \in Ids /\ job.file.fault \in Fingerprints
    BY <1>2 DEF Files
  <2>2. 0 \in 0 .. Never
    BY FaultRecorderAssumption DEF Never
  <2> QED BY <1>2, <2>1, <2>2 DEF RecorderInv, RecorderTypeOK
<1>6. RecorderTypeOK'
  BY <1>1, <1>2, <1>5 DEF RecorderInv, RecorderTypeOK
<1>7. StatusNamesAnEvent'
  BY <1>1, <1>2, <1>3 DEF StatusNamesAnEvent
<1> QED BY <1>2, <1>4, <1>6, <1>7 DEF RecorderInv, JobInv

LEMMA TimeOrMediumKeeps ==
  ASSUME RecorderInv, TimePasses \/ MediumChanges
  PROVE  RecorderInv'
<1>1. CASE TimePasses
  <2>1. elapsed' \in [Fingerprints -> 0 .. Never]
    BY <1>1, FaultRecorderAssumption DEF TimePasses, RecorderInv, RecorderTypeOK, Never
  <2> QED BY <1>1, <2>1
          DEF TimePasses, RecorderInv, RecorderTypeOK, DiskInv, JsonIsWhole, JobInv, StatusNamesAnEvent
<1>2. CASE MediumChanges
  BY <1>2 DEF MediumChanges, RecorderInv, RecorderTypeOK, DiskInv, JsonIsWhole, JobInv, StatusNamesAnEvent
<1> QED BY <1>1, <1>2

LEMMA RestartKeeps ==
  ASSUME RecorderInv, RecorderRestart
  PROVE  RecorderInv'
<1>1. disk' \subseteq Files /\ DiskInv'
  <2>1. CASE UNCHANGED disk
    BY <2>1 DEF RecorderInv, RecorderTypeOK, DiskInv, JsonIsWhole
  <2>2. CASE job # None /\ job.stage = "write" /\ medium # "readonly" /\ disk' = disk \cup {Tmp(job.file)}
    BY <2>2, AddTmpKeeps
  <2> QED BY <2>1, <2>2 DEF RecorderRestart
<1>2. elapsed' \in [Fingerprints -> 0 .. Never]
  BY FaultRecorderAssumption DEF RecorderRestart, Never
<1> QED BY <1>1, <1>2 DEF RecorderRestart, RecorderInv, RecorderTypeOK, JobInv, StatusNamesAnEvent

LEMMA StepKeeps == RecorderInv /\ [RecorderNext]_recorderVars => RecorderInv'
<1> SUFFICES ASSUME RecorderInv, [RecorderNext]_recorderVars PROVE RecorderInv'
  OBVIOUS
<1>1. ASSUME NEW f \in Fingerprints, Observe(f) PROVE RecorderInv' \/ UNCHANGED recorderVars
  BY <1>1, BeginKeeps DEF Observe
<1>2. CASE UNCHANGED recorderVars
  BY <1>2 DEF recorderVars, RecorderInv, RecorderTypeOK, DiskInv, JsonIsWhole, JobInv, StatusNamesAnEvent
<1> QED BY <1>1, <1>2, WriteTmpKeeps, ReplaceKeeps, FinishKeeps, TimeOrMediumKeeps, RestartKeeps
        DEF RecorderNext

-----------------------------------------------------------------------------
(***************************************************************************)
(* The inductive invariant of the recorder: what observe has done of a     *)
(* write against what is in the directory.                                 *)
(***************************************************************************)
THEOREM RecorderInvariant == RecorderSpec => []RecorderInv
<1>1. RecorderInit => RecorderInv
  <2>1. IsFiniteSet({}) /\ Cardinality({}) = 0
    BY FS_EmptySet
  <2>2. Never \in 0 .. Never
    BY FaultRecorderAssumption DEF Never
  <2> QED BY <2>1, <2>2, FaultRecorderAssumption
          DEF RecorderInit, RecorderInv, RecorderTypeOK, DiskInv, JsonIsWhole, JobInv, StatusNamesAnEvent
<1> QED BY <1>1, StepKeeps, PTL DEF RecorderSpec

(***************************************************************************)
(* The recorder's state keeps its type: an event always finds an id that   *)
(* no file has (_next_event_id).                                           *)
(***************************************************************************)
THEOREM TypeCorrect == RecorderSpec => []RecorderTypeOK
  BY RecorderInvariant, PTL DEF RecorderInv

(***************************************************************************)
(* Nothing torn is ever under a .json name (the write in observe).         *)
(***************************************************************************)
THEOREM EventsAreWhole == RecorderSpec => []JsonIsWhole
  BY RecorderInvariant, PTL DEF RecorderInv, DiskInv

(***************************************************************************)
(* The directory stays within its budget and one file (_prune_events       *)
(* before and after a write).                                              *)
(***************************************************************************)
THEOREM DirectoryStaysBounded == RecorderSpec => []DirectoryBounded
  BY RecorderInvariant, PTL DEF RecorderInv, DiskInv, DirectoryBounded

(***************************************************************************)
(* The event the status names is in the directory (the keep of the second  *)
(* _prune_events).                                                         *)
(***************************************************************************)
THEOREM LastEventIsThere == RecorderSpec => []StatusNamesAnEvent
  BY RecorderInvariant, PTL DEF RecorderInv
=============================================================================
