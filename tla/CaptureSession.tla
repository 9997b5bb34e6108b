---------------------------- MODULE CaptureSession ----------------------------
(***************************************************************************)
(* Capture sessions (tools/can_reverse_workbench/capture_session.py): runs *)
(* of the commands capture-session and export-session, at the same time    *)
(* over one SQLite database, any of them stopped at any point.  A          *)
(* transaction on the database is one step, except the import of an anchor *)
(* log, which holds the write lock while it reads the log.  Every access   *)
(* needs that lock, as each one first writes the schema's version.  Two    *)
(* runs never export to the same directory at the same time.               *)
(***************************************************************************)
EXTENDS CanLog, ObdAnchors, FiniteSetsExt

CONSTANTS Runs,                  \* runs of a command that may be under way at once
          SessionIds, Dirs,      \* those the commands may be given
          CanLogs, ObdLogs,
          MaxCommands            \* bound of the model: commands run in all

\* A log is a sequence of lines; a line of an anchor log holds finitely many values.
ASSUME SessionAssumption ==
  /\ MaxCommands \in Nat \ {0} /\ Null \notin Dirs
  /\ \A log \in CanLogs :
       /\ log.lines \in Seq(Range(log.lines))
       /\ \A i \in DOMAIN log.lines : log.lines[i].t \in Int \cup {Null}
  /\ \A log \in ObdLogs :
       /\ log \in Seq(Range(log))
       /\ \A i \in DOMAIN log : log[i].form = "signals" => IsFiniteSet(log[i].values)

VARIABLES sessions,   \* id -> the rows of the session in the database, or NoSession
          lock,       \* the run whose transaction holds the write lock, or Null
          jobs,       \* run -> what it is doing
          exports,    \* directory -> file -> what it holds
          commands    \* commands started

sessionVars == <<sessions, lock, jobs, exports, commands>>

NoSession == [exists |-> FALSE]
NewSession(can, obd) ==     \* the logs it is made from are history
  [exists |-> TRUE, frames |-> <<>>, anchors |-> <<>>, seen |-> {}, supported |-> {},
   warnings |-> 0, started |-> Null, ended |-> Null, can |-> can, obd |-> obd]

Idle == [at |-> "idle", dir |-> Null]
\* Mutant: the manifest is written first.
ExportFiles_manifestFirst == <<"manifest", "raw", "guided", "anchors">>
\* The files of an export, in the order they are written.
ExportFiles == <<"raw", "guided", "anchors", "manifest">>
NoFile == [state |-> "none"]
Torn(n) == [state |-> "torn", n |-> n]
Whole(job, content) == [state |-> "whole", n |-> job.n, built |-> job.built, content |-> content]

SessionInit ==
  /\ sessions = [s \in SessionIds |-> NoSession]
  /\ lock = Null
  /\ jobs = [r \in Runs |-> Idle]
  /\ exports = [d \in Dirs |-> [f \in Range(ExportFiles) |-> NoFile]]
  /\ commands = 0

-----------------------------------------------------------------------------
(* The database.                                                           *)
RowTimes(s) == {row.t : row \in Range(s.frames) \cup Range(s.anchors)}
\* Earliest and latest row of the session, in both tables.
WithBounds(s) ==
  [s EXCEPT !.started = IF RowTimes(s) = {} THEN Null ELSE Min(RowTimes(s)),
            !.ended = IF RowTimes(s) = {} THEN Null ELSE Max(RowTimes(s))]

WithCan(s, parsed) ==
  WithBounds([s EXCEPT !.frames = @ \o parsed.frames, !.warnings = @ + parsed.warnings])
WithObd(s, log) ==
  WithBounds([s EXCEPT !.anchors = @ \o Samples(log),
                       !.seen = @ \cup PidsSeen(log), !.supported = @ \cup PidsSupported(log),
                       !.warnings = @ + Cardinality(UndecodedLines(log))])

\* What each file of an export holds; a session that is not there has no rows.
Rows(table, s) == IF s.exists THEN ByTime(s[table]) ELSE <<>>
Guided(s) ==
  [frames |-> Len(s.frames), anchors |-> Len(s.anchors), points |-> Rows("anchors", s),
   seen |-> s.seen, supported |-> s.supported, started |-> s.started, ended |-> s.ended]
Manifest(s) ==
  [frames |-> Len(s.frames), anchors |-> Len(s.anchors),
   supported |-> Cardinality(s.supported), warnings |-> s.warnings]
Rendered(file, s) ==
  CASE file = "raw"      -> Rows("frames", s)
    [] file = "guided"   -> Guided(s)
    [] file = "anchors"  -> Rows("anchors", s)
    [] file = "manifest" -> Manifest(s)
\* The guided session and the manifest are refused for a session there is not.
Refused(file, s) == file \in {"guided", "manifest"} /\ ~s.exists

-----------------------------------------------------------------------------
(* The commands.                                                           *)
Move(r, at) == jobs' = [jobs EXCEPT ![r].at = at]
Ended(r) == jobs' = [jobs EXCEPT ![r] = Idle]
MayWrite(r) == lock \in {Null, r}

Start(r, job) ==
  /\ jobs[r] = Idle /\ commands < MaxCommands
  /\ job.dir = Null \/ \A q \in Runs : jobs[q].dir # job.dir
  /\ jobs' = [jobs EXCEPT ![r] = job]
  /\ commands' = commands + 1
  /\ UNCHANGED <<sessions, lock, exports>>
\* A capture session is exported only when a directory is given.
Build(r) ==
  \E s \in SessionIds, d \in Dirs \cup {Null}, can \in CanLogs, obd \in ObdLogs :
    Start(r, [at |-> "create", session |-> s, dir |-> d, can |-> can, obd |-> obd,
              built |-> TRUE, file |-> 1, content |-> Null, n |-> commands + 1])
Export(r) ==
  \E s \in SessionIds, d \in Dirs :
    Start(r, [at |-> "export", session |-> s, dir |-> d, built |-> FALSE,
              file |-> 1, content |-> Null, n |-> commands + 1])

\* The id is a primary key: a session that exists ends the command.
Create(r) ==
  LET job == jobs[r] IN
  /\ job.at = "create" /\ MayWrite(r)
  /\ IF sessions[job.session].exists
     THEN Ended(r) /\ UNCHANGED sessions
     ELSE /\ Move(r, "can")
          /\ sessions' = [sessions EXCEPT ![job.session] = NewSession(job.can, job.obd)]
  /\ UNCHANGED <<lock, exports, commands>>

ImportCan(r) ==
  LET job == jobs[r] IN
  /\ job.at = "can" /\ MayWrite(r) /\ ~ParseFails(job.can)
  /\ Move(r, "obd")
  /\ sessions' = [sessions EXCEPT ![job.session] = WithCan(@, ParseCanLog(job.can))]
  /\ UNCHANGED <<lock, exports, commands>>

\* The import of the anchors takes the lock with its first row ...
ObdBegins(r) ==
  /\ jobs[r].at = "obd" /\ MayWrite(r)
  /\ lock' = r
  /\ Move(r, "reading")
  /\ UNCHANGED <<sessions, exports, commands>>
\* Mutant: a line that cannot be read ends the import, and what was read stays.
ObdCommits_keepsPart(r) ==
  LET job == jobs[r] IN
  /\ job.at = "reading"
  /\ lock' = Null
  /\ sessions' = [sessions EXCEPT ![job.session] = WithObd(@, SelectSeq(job.obd, LAMBDA i : i.form # "scalar"))]
  /\ IF Unreadable(job.obd) \/ job.dir = Null THEN Ended(r) ELSE Move(r, "export")
  /\ UNCHANGED <<exports, commands>>
\* ... and commits all of them, unless a line raises what nobody catches.
ObdCommits(r) ==
  LET job == jobs[r] IN
  /\ job.at = "reading"
  /\ lock' = Null
  /\ IF Unreadable(job.obd)
     THEN Ended(r) /\ UNCHANGED sessions
     ELSE /\ sessions' = [sessions EXCEPT ![job.session] = WithObd(@, job.obd)]
          /\ IF job.dir = Null THEN Ended(r) ELSE Move(r, "export")
  /\ UNCHANGED <<exports, commands>>

\* A file is rendered, then truncated ...
OpenFile(r) ==
  LET job  == jobs[r]
      file == ExportFiles[job.file]
      s    == sessions[job.session]
  IN
  /\ job.at = "export" /\ MayWrite(r)
  /\ IF Refused(file, s)
     THEN Ended(r) /\ UNCHANGED exports
     ELSE /\ jobs' = [jobs EXCEPT ![r].at = "writing", ![r].content = Rendered(file, s)]
          /\ exports' = [exports EXCEPT ![job.dir][file] = Torn(job.n)]
  /\ UNCHANGED <<sessions, lock, commands>>
\* ... and written.
WriteFile(r) ==
  LET job == jobs[r] IN
  /\ job.at = "writing"
  /\ exports' = [exports EXCEPT ![job.dir][ExportFiles[job.file]] = Whole(job, job.content)]
  /\ IF job.file = Len(ExportFiles) THEN Ended(r)
     ELSE jobs' = [jobs EXCEPT ![r].at = "export", ![r].file = @ + 1, ![r].content = Null]
  /\ UNCHANGED <<sessions, lock, commands>>

\* A command is killed, cannot read or write a file, or has waited too long for
\* the lock: its transaction is rolled back, the file it writes stays torn.
Stops(r) ==
  /\ jobs[r] # Idle
  /\ Ended(r)
  /\ lock' = IF lock = r THEN Null ELSE lock
  /\ UNCHANGED <<sessions, exports, commands>>

SessionNext ==
  \E r \in Runs :
    \/ Build(r) \/ Export(r)
    \/ Create(r) \/ ImportCan(r) \/ ObdBegins(r) \/ ObdCommits(r)
    \/ OpenFile(r) \/ WriteFile(r)
    \/ Stops(r)

SessionSpec == SessionInit /\ [][SessionNext]_sessionVars

-----------------------------------------------------------------------------
Session == {sessions[s] : s \in {i \in SessionIds : sessions[i].exists}}

\* Of each of its two logs a session holds every row once, or nothing at all,
\* however many commands were given its id and wherever they were stopped; of a
\* log that cannot be read to its end it holds nothing.
RowsAreTheLogs ==
  \A s \in Session :
    /\ s.frames = <<>> \/ (~ParseFails(s.can) /\ s.frames = ParseCanLog(s.can).frames)
    /\ (s.anchors = <<>> /\ s.supported = {})
       \/ (/\ ~Unreadable(s.obd) /\ s.anchors = Samples(s.obd) /\ s.supported = PidsSupported(s.obd))

\* The four whole files of one export, and what each tells beside the one before.
OfOneExport(e) == \A f \in Range(ExportFiles) : e[f].state = "whole" /\ e[f].n = e["manifest"].n
TellsNoLess(e) ==
  /\ Len(e["raw"].content) <= e["guided"].content.frames
  /\ e["guided"].content.frames <= e["manifest"].content.frames
  /\ e["guided"].content.anchors <= Len(e["anchors"].content)
  /\ Len(e["anchors"].content) <= e["manifest"].content.anchors
TellsTheSame(e) ==
  /\ {e["manifest"].content.frames, e["guided"].content.frames} = {Len(e["raw"].content)}
  /\ e["manifest"].content.anchors = Len(e["anchors"].content)
  /\ e["guided"].content.points = e["anchors"].content

\* The manifest comes last: beside a whole one no file is of an earlier export.
\* Each file is read from the database by itself, and an import may commit in
\* between: even then no file of one export tells less than those written before
\* it.  The four files of a capture-session agree, whatever the others did.
ExportsAgree ==
  \A d \in Dirs :
    LET e == exports[d] IN
    e["manifest"].state = "whole" =>
      /\ \A f \in Range(ExportFiles) : e[f].state # "none" /\ e[f].n >= e["manifest"].n
      /\ OfOneExport(e) => TellsNoLess(e) /\ (e["manifest"].built => TellsTheSame(e))
===============================================================================
