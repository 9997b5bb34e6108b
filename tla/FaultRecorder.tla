----------------------------- MODULE FaultRecorder -----------------------------
(***************************************************************************)
(* The hub's fault recorder: one event file per fingerprint of faults and  *)
(* interval, written beside its final name and moved into place, in a      *)
(* directory kept within a budget by removing the files of oldest mtime.   *)
(*                                                                         *)
(* The interval runs on the monotonic clock.  Files are dated by the wall  *)
(* clock, which the GPS clock helper and every boot may move: an event may *)
(* have any date.  The budget is a number of files; the limit in bytes is  *)
(* applied the same way and left out, as are the contents of an event and  *)
(* the rolling buffer of frames.                                           *)
(* The name of a file is its date, its fingerprint and an id that no file  *)
(* with the same two has (the rest of the milliseconds, and a counter).    *)
(***************************************************************************)
EXTENDS Integers, FiniteSets

CONSTANTS Fingerprints, \* of the faults of a frame
          Long,         \* those that make a longer file name than the medium takes
          Ids,          \* what tells events of one date and fingerprint apart
          MaxFiles,     \* max_event_files
          Interval,     \* min_interval_seconds in ticks
          Dates,        \* what the wall clock may show
          None

Files == [id : Ids, mtime : Dates, fault : Fingerprints, json : BOOLEAN, whole : BOOLEAN]
Jobs == [stage : {"write", "replace", "prune"}, file : Files]

ASSUME FaultRecorderAssumption ==
  /\ Long \subseteq Fingerprints
  /\ MaxFiles \in Nat \ {0} /\ Interval \in Nat \ {0} /\ Dates \subseteq Int /\ Dates # {}
  /\ IsFiniteSet(Ids) /\ Cardinality(Ids) > MaxFiles + 1 /\ None \notin Files \cup Jobs

VARIABLES
  disk,     \* the directory
  medium,   \* "ok", "full", or mounted "readonly" until the next boot
  elapsed,  \* ticks since _last_write_by_fingerprint, up to Interval, or Never
  job,      \* the event observe is writing, and how far it is; None between frames
  last      \* _last_event_path; None before the first and while _last_error is set

recorderVars == <<disk, medium, elapsed, job, last>>

Never == Interval + 1

RecorderTypeOK ==
  /\ disk \subseteq Files
  /\ medium \in {"ok", "full", "readonly"}
  /\ elapsed \in [Fingerprints -> 0 .. Never]
  /\ job \in Jobs \cup {None}
  /\ last \in Files \cup {None}

RecorderInit ==
  /\ disk = {} /\ medium \in {"ok", "full"}
  /\ elapsed = [f \in Fingerprints |-> Never] /\ job = None /\ last = None

-----------------------------------------------------------------------------
\* _prune_events: of the other files the oldest go, in any order where mtimes
\* are equal, until the budget holds or one cannot be removed.
Prune(keep, kept) ==
  /\ kept \subseteq disk /\ disk \cap keep \subseteq kept
  /\ IF medium = "readonly" THEN kept = disk
     ELSE /\ Cardinality(kept) = IF Cardinality(disk) < MaxFiles THEN Cardinality(disk) ELSE MaxFiles
          /\ \A gone \in disk \ kept, f \in kept \ keep : gone.mtime <= f.mtime

\* The same event under its name with .tmp.
Tmp(file) == [file EXCEPT !.json = FALSE, !.whole = FALSE]

Failed ==
  /\ job' = None /\ last' = None
  /\ UNCHANGED <<medium, elapsed>>

NewEvent(f, date) ==
  [id |-> CHOOSE id \in Ids : \A x \in disk : x.fault = f /\ x.mtime = date => x.id # id,
   mtime |-> date, fault |-> f, json |-> TRUE, whole |-> TRUE]

\* Mutant: the directory is pruned after a write only.
BeginEvent_noPrune(f) ==
  /\ \E date \in Dates : job' = [stage |-> "write", file |-> NewEvent(f, date)]
  /\ UNCHANGED <<disk, medium, elapsed, last>>

\* _build_event and the first prune; mkdir finds the directory there.
BeginEvent(f) ==
  \E kept \in SUBSET disk, date \in Dates :
    /\ Prune({}, kept) /\ disk' = kept
    /\ job' = [stage |-> "write", file |-> NewEvent(f, date)]
    /\ UNCHANGED <<medium, elapsed, last>>

\* Mutant: what was written once is suppressed for good.
Observe_once(f) ==
  /\ job = None
  /\ \/ elapsed[f] # Never /\ UNCHANGED recorderVars
     \/ elapsed[f] = Never /\ BeginEvent(f)

\* observe on a frame with these faults.
Observe(f) ==
  /\ job = None
  /\ \/ elapsed[f] < Interval /\ UNCHANGED recorderVars
     \/ elapsed[f] >= Interval /\ BeginEvent(f)

\* The fingerprint of all faults of a frame is part of the name.
Named(file) == file.fault \notin Long

\* write_text; a full disk leaves the part that fitted.
WriteTmp ==
  /\ job # None /\ job.stage = "write"
  /\ \/ /\ medium = "ok" /\ Named(job.file) /\ disk' = disk \cup {Tmp(job.file)}
        /\ job' = [job EXCEPT !.stage = "replace"]
        /\ UNCHANGED <<medium, elapsed, last>>
     \/ medium = "full" /\ Named(job.file) /\ disk' = disk \cup {Tmp(job.file)} /\ Failed
     \/ (medium = "readonly" \/ ~Named(job.file)) /\ UNCHANGED disk /\ Failed

\* os.replace
Replace ==
  /\ job # None /\ job.stage = "replace"
  /\ \/ /\ medium # "readonly"
        /\ disk' = (disk \ {Tmp(job.file)}) \cup {job.file}
        /\ job' = [job EXCEPT !.stage = "prune"]
        /\ UNCHANGED <<medium, elapsed, last>>
     \/ medium = "readonly" /\ UNCHANGED disk /\ Failed

\* The second prune and the end of observe.
Finish ==
  /\ job # None /\ job.stage = "prune"
  /\ \E kept \in SUBSET disk : Prune({job.file}, kept) /\ disk' = kept
  /\ elapsed' = [elapsed EXCEPT ![job.file.fault] = 0]
  /\ last' = job.file
  /\ job' = None
  /\ UNCHANGED medium

-----------------------------------------------------------------------------
TimePasses ==
  /\ job = None
  /\ elapsed' = [f \in Fingerprints |->
                   IF elapsed[f] >= Interval THEN elapsed[f] ELSE elapsed[f] + 1]
  /\ UNCHANGED <<disk, medium, job, last>>

\* Others fill the disk and free it; an I/O error remounts it read-only.
MediumChanges ==
  /\ medium # "readonly" /\ medium' \in {"ok", "full", "readonly"}
  /\ UNCHANGED <<disk, elapsed, job, last>>

\* The hub stops anywhere, in the middle of a write too, and starts again.
RecorderRestart ==
  /\ \/ UNCHANGED disk
     \/ job # None /\ job.stage = "write" /\ medium # "readonly" /\ Named(job.file)
        /\ disk' = disk \cup {Tmp(job.file)}
  /\ medium' \in {"ok", "full"}
  /\ elapsed' = [f \in Fingerprints |-> Never] /\ job' = None /\ last' = None

RecorderNext ==
  \/ \E f \in Fingerprints : Observe(f)
  \/ WriteTmp \/ Replace \/ Finish
  \/ TimePasses \/ MediumChanges \/ RecorderRestart

\* The faults stay, time passes between frames, and no step of a write hangs.
RecorderSpec ==
  /\ RecorderInit /\ [][RecorderNext]_recorderVars
  /\ WF_recorderVars(WriteTmp) /\ WF_recorderVars(Replace) /\ WF_recorderVars(Finish)
  /\ SF_recorderVars(TimePasses) /\ \A f \in Fingerprints : SF_recorderVars(Observe(f))

-----------------------------------------------------------------------------
(***************************************************************************)
(* A reader of the directory never finds a torn event under a .json name:  *)
(* not after a crash in a write, a full disk or a remount.                 *)
(***************************************************************************)
JsonIsWhole == \A f \in disk : f.json => f.whole

(***************************************************************************)
(* Whatever fails and however often the hub restarts, the directory is at  *)
(* most one file over its budget: leftovers of failed writes are counted.  *)
(***************************************************************************)
DirectoryBounded == Cardinality(disk) <= MaxFiles + 1

(***************************************************************************)
(* The event the hub's health names as the last one is there to be read,   *)
(* wherever the clock was when it was written, unless an error is reported *)
(* or a newer event is under way.                                          *)
(***************************************************************************)
StatusNamesAnEvent ==
  job = None /\ last # None => last \in disk /\ last.json

(***************************************************************************)
(* A fault that stays is on disk again and again once the disk is well and *)
(* the hub is left running: suppression and pruning together never silence *)
(* it for good, given a fingerprint that fits a file name.                 *)
(***************************************************************************)
AllWell == <>[](medium = "ok") /\ <>[][~RecorderRestart]_recorderVars

Recorded(f) == \E x \in disk : x.fault = f /\ x.json

LastingFaultsAreKept == AllWell => \A f \in Fingerprints \ Long : []<>Recorded(f)
=============================================================================
