-------------------------- MODULE OfflineTools_proofs --------------------------
(***************************************************************************)
(* The tools that work on recordings, for any catalog, log and number of   *)
(* sessions: what a session's table and its exports hold (session.py), to  *)
(* which command an answer of the ELM327 is told (elm327.py), how the      *)
(* evidence of a replay weighs in its verdict (diagnostic_replay.py,       *)
(* health_verdict.py, diagnostic_status.py), under which name a field is   *)
(* exported (discovery.py) and what an AI command can change of a report   *)
(* on unknown fields (identity.py).                                        *)
(***************************************************************************)
EXTENDS CaptureSession, ElmCapture, DiagnosticReplay, SignalDiscovery, SignalIdentity, FoldFacts

-----------------------------------------------------------------------------
(* Capture sessions                                                        *)

\* A table in the order of its times is a sequence as long as before.
LEMMA ByTimeRows ==
  ASSUME NEW table, IsSeq(table)
  PROVE  IsSeq(ByTime(table)) /\ Len(ByTime(table)) = Len(table)
<1>1. Len(table) \in Nat /\ DOMAIN table = 1..Len(table)
  BY LenProperties DEF IsSeq
<1>2. PICK order : ByTime(table) = [k \in DOMAIN table |-> table[order[k]]]
  BY Zenon DEF ByTime
<1>3. ByTime(table) = [k \in 1..Len(table) |-> ByTime(table)[k]]
  BY <1>1, <1>2
<1> QED BY <1>1, <1>3, SequenceFromDomain

\* The frames of a log are a sequence.
LEMMA ParsedFrames ==
  ASSUME NEW log, IsSeq(log.lines), \A i \in DOMAIN log.lines : log.lines[i].t \in Int \cup {Null}
  PROVE  IsSeq(ReadLines(log).frames)
<1> DEFINE lines == log.lines
           S == 1..Len(lines)
           Frame == [t : Int, data : {lines[i].data : i \in S}, line : S]
           Stats == [frames : Seq(Frame), implicit : Int, warnings : Int]
           Read(i, stats) == ReadLine(log, stats, i)
           pick == [T \in SUBSET S |-> Max(T)]
           next == [p \in S \X Stats |-> Read(p[1], p[2])]
<1>1. Len(lines) \in Nat /\ DOMAIN lines = S
  BY LenProperties DEF IsSeq
<1>2. IsFiniteSet(S) /\ \A T \in SUBSET S : T # {} => pick[T] \in T /\ Max(T) \in T
  BY <1>1, GreatestIndex
<1>3. ASSUME NEW i \in S, NEW stats \in Stats
      PROVE  Read(i, stats) \in Stats
  <2> DEFINE line == lines[i]
             t == IF line.t = Null THEN stats.implicit + 1 ELSE line.t
             at == [stats EXCEPT !.implicit = t]
  <2>1. t \in Int
    BY <1>1
  <2>2. at \in Stats
    BY <2>1
  <2>3. ASSUME NEW s \in Stats PROVE Warned(s) \in Stats
    <3> DEFINE w == IF s.warnings < MaxWarnings THEN s.warnings + 1 ELSE s.warnings
    <3>1. Warned(s) = [s EXCEPT !.warnings = w]
      BY DEF Warned
    <3>2. w \in Int
      OBVIOUS
    <3> HIDE DEF w
    <3> QED BY <3>1, <3>2
  <2>4. WithFrame(at, line, t, i) \in Stats
    <3>1. [t |-> t, data |-> line.data, line |-> i] \in Frame
      BY <2>1
    <3> HIDE DEF Frame
    <3>2. Append(at.frames, [t |-> t, data |-> line.data, line |-> i]) \in Seq(Frame)
      BY <2>2, <3>1
    <3> HIDE DEF at, t
    <3> QED BY <2>2, <3>2 DEF WithFrame
  <2>5. line.t # Null => WithFrame(stats, line, line.t, i) \in Stats
    <3> SUFFICES ASSUME line.t # Null PROVE WithFrame(stats, line, line.t, i) \in Stats
      OBVIOUS
    <3>1. [t |-> line.t, data |-> line.data, line |-> i] \in Frame
      BY <1>1
    <3> HIDE DEF Frame
    <3>2. Append(stats.frames, [t |-> line.t, data |-> line.data, line |-> i]) \in Seq(Frame)
      BY <3>1
    <3> QED BY <3>2 DEF WithFrame
  <2> HIDE DEF Stats
  <2>6. CsvLine(line, stats, i) \in Stats
    BY <2>3, <2>5 DEF CsvLine
  <2> HIDE DEF at, t
  <2>7. CandumpLine(line, stats, i) \in Stats
    BY <2>1, <2>2, <2>3, <2>4 DEF CandumpLine, at, t
  <2> QED BY <2>6, <2>7 DEF ReadLine
<1>4. NothingParsed \in Stats
  BY DEF NothingParsed
<1>5. next \in [S \X Stats -> Stats]
  BY <1>3
<1> HIDE DEF Stats, Read, pick, next
<1>6. PICK g \in [SUBSET S -> Stats] : IsFold(g, S, NothingParsed, next, pick)
  BY <1>2, <1>4, <1>5, FoldExists
<1> DEFINE indices == [i \in DOMAIN lines |-> i]
           Step(iter) ==
             [s \in SUBSET DOMAIN indices |->
                IF s = {} THEN NothingParsed
                ELSE ReadLine(log, iter[s \ {Max(s)}], indices[Max(s)])]
           iter == CHOOSE iter : iter = Step(iter)
<1>7. ~(log.csv /\ ~log.headed) => ReadLines(log) = iter[DOMAIN indices]
  BY Zenon DEF ReadLines, FoldLeftDomain, FoldLeft, MapThenFoldSet
<1>8. ASSUME NEW T \in SUBSET S, T # {}, NEW h, h[T \ {Max(T)}] \in Stats
      PROVE  next[<<pick[T], h[T \ {pick[T]}]>>] = ReadLine(log, h[T \ {Max(T)}], indices[Max(T)])
  <2>1. pick[T] = Max(T) /\ Max(T) \in S /\ indices[Max(T)] = Max(T)
    BY <1>1, <1>2, <1>8 DEF pick
  <2> HIDE DEF indices
  <2>2. <<Max(T), h[T \ {Max(T)}]>> \in S \X Stats
    BY <1>8, <2>1
  <2> QED BY <2>1, <2>2, Zenon DEF next, Read
<1>9. g = Step(g)
  <2>1. ASSUME NEW T \in SUBSET S
        PROVE  g[T] = IF T = {} THEN NothingParsed
                      ELSE ReadLine(log, g[T \ {Max(T)}], indices[Max(T)])
    <3>1. g[T \ {Max(T)}] \in Stats
      BY <1>6
    <3> HIDE DEF indices
    <3>2. T # {} => g[T] = next[<<pick[T], g[T \ {pick[T]}]>>]
      BY <1>6 DEF IsFold
    <3>3. T = {} => g[T] = NothingParsed
      BY <1>6 DEF IsFold
    <3> QED BY <1>8, <3>1, <3>2, <3>3
  <2>2. DOMAIN indices = S
    BY <1>1
  <2> HIDE DEF indices, S
  <2> QED BY <1>6, <2>1, <2>2
<1>10. iter = Step(iter) /\ DOMAIN indices = S
  BY <1>1, <1>9, Zenon
<1>11. iter[S] \in Stats
  <2> HIDE DEF iter
  <2>1. iter[{}] = NothingParsed
    BY <1>10
  <2>2. ASSUME NEW T \in SUBSET S, T # {}, iter[T \ {pick[T]}] \in Stats
        PROVE  iter[T] \in Stats
    <3>1. iter[T] = ReadLine(log, iter[T \ {Max(T)}], indices[Max(T)])
      BY <1>10, <2>2
    <3>2. pick[T] = Max(T) /\ Max(T) \in S /\ indices[Max(T)] = Max(T)
      BY <1>1, <1>2, <2>2 DEF pick
    <3> HIDE DEF indices
    <3> QED BY <1>3, <2>2, <3>1, <3>2 DEF Read
  <2>3. \A T \in SUBSET S : iter[T] \in Stats
    <3> HIDE DEF indices
    <3> QED BY <1>2, <1>4, <2>1, <2>2, FoldStays
  <2> QED BY <2>3
<1>12. ReadLines(log).frames \in Seq(Frame)
  <2>1. CASE log.csv /\ ~log.headed
    <3>1. Warned(NothingParsed).frames = NothingParsed.frames
      BY DEF Warned, NothingParsed
    <3> QED BY <1>4, <2>1, <3>1 DEF ReadLines, Stats
  <2>2. CASE ~(log.csv /\ ~log.headed)
    <3> HIDE DEF iter, indices
    <3> QED BY <1>7, <1>10, <1>11, <2>2 DEF Stats
  <2> QED BY <2>1, <2>2
<1> QED BY <1>12, SequencesAreSeqs

\* A line that can be decoded holds finitely many values, and the samples of a
\* log are a sequence.
LEMMA SamplesAreSeq ==
  ASSUME NEW obd \in ObdLogs
  PROVE  IsSeq(Samples(obd))
<1>1. ASSUME NEW i \in DecodedLines(obd)
      PROVE  IsFiniteSet(ParseItem(obd[i]).values)
  <2>1. ASSUME NEW payload, DecodeMode01(payload).ok
        PROVE  IsFiniteSet(DecodeMode01(payload).values)
    <3>1. ~Undecoded.ok
      BY DEF Undecoded
    <3>2. IsFiniteSet({}) /\ \A x : IsFiniteSet({x})
      BY FS_EmptySet, FS_Singleton
    <3>3. \A pid, values, supported : Decoded(pid, values, supported).values = values
      BY DEF Decoded
    <3> DEFINE data == StripPrefix(payload)
               pid == data[2]
               rest == SubSeq(data, 3, Len(data))
               whole == SubSeq(rest, 1, StandardPids[pid].length)
    <3>4. DecodeMode01(payload) \in {Undecoded, Decoded(pid, {}, SupportedBy(pid, rest)), Decoded(pid, {}, {}),
                                     Decoded(pid, {<<StandardPids[pid].signal, whole>>}, {})}
      BY Zenon DEF DecodeMode01
    <3> HIDE DEF pid, rest, whole, data
    <3>5. DecodeMode01(payload).values \in {{}, {<<StandardPids[pid].signal, whole>>}}
      BY <2>1, <3>1, <3>3, <3>4
    <3> QED BY <3>2, <3>5
  <2>2. ParseItem(obd[i]).ok /\ i \in DOMAIN obd
    BY DEF DecodedLines, UndecodedLines
  <2>3. obd[i].form = "signals" => IsFiniteSet(obd[i].values)
    BY <2>2, SessionAssumption
  <2> QED BY <2>1, <2>2, <2>3, Zenon DEF ParseItem, Undecoded, Decoded
<1> DEFINE Sample(i, v) == [t |-> obd[i].t, signal |-> v[1], value |-> v[2],
                            pid |-> ParseItem(obd[i]).pid, line |-> i]
           Of(i) == {Sample(i, v) : v \in ParseItem(obd[i]).values}
           OfLine(i) == IF i \notin DecodedLines(obd) THEN <<>> ELSE SetToSeq(Of(i))
           seqs == [i \in DOMAIN obd |-> OfLine(i)]
           V == UNION {Of(i) : i \in DecodedLines(obd)}
<1>2. Len(obd) \in Nat /\ DOMAIN obd = 1..Len(obd)
  BY SessionAssumption, LenProperties
<1>3. ASSUME NEW i \in DOMAIN obd PROVE OfLine(i) \in Seq(V)
  <2>1. i \in DecodedLines(obd) => SetToSeq(Of(i)) \in Seq(V)
    <3> SUFFICES ASSUME i \in DecodedLines(obd) PROVE SetToSeq(Of(i)) \in Seq(V)
      OBVIOUS
    <3>1. IsFiniteSet(Of(i))
      <4> DEFINE from == ParseItem(obd[i]).values
                 image == [v \in from |-> Sample(i, v)]
      <4>1. IsFiniteSet(from) /\ image \in Surjection(from, Of(i))
        BY <1>1 DEF Surjection
      <4> HIDE DEF from, image, Of
      <4> QED BY <4>1, FS_Surjection DEF ExistsSurjection
    <3>2. Of(i) \subseteq V
      OBVIOUS
    <3> HIDE DEF Of, V
    <3> QED BY <3>1, <3>2, EnumerationIsSeq, SeqMonotonic
  <2>2. <<>> \in Seq(V)
    OBVIOUS
  <2> HIDE DEF Of, V
  <2> QED BY <2>1, <2>2
<1>4. Samples(obd) = FlattenSeq(seqs)
  BY Zenon DEF Samples
<1>5. seqs = [i \in 1..Len(obd) |-> seqs[i]] /\ DOMAIN seqs = 1..Len(obd) /\ \A i \in 1..Len(obd) : seqs[i] \in Seq(V)
  <2> HIDE DEF OfLine, V
  <2> QED BY <1>2, <1>3
<1> HIDE DEF seqs, V
<1> QED BY <1>2, <1>4, <1>5, FlattenIsSeq

-----------------------------------------------------------------------------
(* What the records of a session, of a run and of an export hold.          *)

Files == {"raw", "guided", "anchors", "manifest"}
SessionFields == {"exists", "frames", "anchors", "seen", "supported", "warnings",
                  "started", "ended", "can", "obd"}
JobFields == {"at", "session", "dir", "built", "file", "content", "n"}
Building == {"create", "can", "obd", "reading"}
Exporting == {"export", "writing"}

LEMMA ExportFilesAre ==
  /\ Len(ExportFiles) = 4 /\ Range(ExportFiles) = Files
  /\ ExportFiles[1] = "raw" /\ ExportFiles[2] = "guided" /\ ExportFiles[3] = "anchors"
  /\ ExportFiles[4] = "manifest"
  /\ \A f \in Files : \E i \in 1..4 : ExportFiles[i] = f
<1>1. ExportFiles[1] = "raw" /\ ExportFiles[2] = "guided" /\ ExportFiles[3] = "anchors"
      /\ ExportFiles[4] = "manifest" /\ Len(ExportFiles) = 4 /\ DOMAIN ExportFiles = 1..4
  BY DEF ExportFiles
<1>2. 1..4 = {1, 2, 3, 4}
  OBVIOUS
<1>3. Range(ExportFiles) = Files
  <2>1. Range(ExportFiles) = {ExportFiles[i] : i \in {1, 2, 3, 4}}
    BY <1>1, <1>2 DEF Range
  <2> QED BY <1>1, <2>1 DEF Files
<1> QED BY <1>1, <1>2, <1>3 DEF Files

\* An import changes the more of its own table and the figures kept beside them.
LEMMA WithCanFields ==
  ASSUME NEW s, DOMAIN s = SessionFields, NEW parsed
  PROVE  LET t == WithCan(s, parsed) IN
         /\ DOMAIN t = SessionFields /\ t.frames = s.frames \o parsed.frames
         /\ t.exists = s.exists /\ t.anchors = s.anchors /\ t.supported = s.supported
         /\ t.can = s.can /\ t.obd = s.obd
<1> DEFINE more == s.frames \o parsed.frames
           warnings == s.warnings + parsed.warnings
           u == [s EXCEPT !.frames = more, !.warnings = warnings]
           first == IF RowTimes(u) = {} THEN Null ELSE Min(RowTimes(u))
           last == IF RowTimes(u) = {} THEN Null ELSE Max(RowTimes(u))
           t == [u EXCEPT !.started = first, !.ended = last]
<1>1. WithCan(s, parsed) = t
  BY Zenon DEF WithCan, WithBounds
<1> HIDE DEF more, warnings
<1>2. DOMAIN u = SessionFields /\ u.frames = more
      /\ u.exists = s.exists /\ u.anchors = s.anchors /\ u.supported = s.supported
      /\ u.can = s.can /\ u.obd = s.obd
  BY DEF SessionFields
<1> HIDE DEF first, last, u
<1>3. DOMAIN t = SessionFields /\ t.frames = u.frames
      /\ t.exists = u.exists /\ t.anchors = u.anchors /\ t.supported = u.supported
      /\ t.can = u.can /\ t.obd = u.obd
  BY <1>2 DEF SessionFields
<1> HIDE DEF t
<1> QED BY <1>1, <1>2, <1>3 DEF more

LEMMA WithObdFields ==
  ASSUME NEW s, DOMAIN s = SessionFields, NEW log
  PROVE  LET t == WithObd(s, log) IN
         /\ DOMAIN t = SessionFields /\ t.frames = s.frames
         /\ t.anchors = s.anchors \o Samples(log)
         /\ t.supported = s.supported \cup PidsSupported(log)
         /\ t.exists = s.exists /\ t.can = s.can /\ t.obd = s.obd
<1> DEFINE more == s.anchors \o Samples(log)
           supported == s.supported \cup PidsSupported(log)
           seen == s.seen \cup PidsSeen(log)
           warnings == s.warnings + Cardinality(UndecodedLines(log))
           u == [s EXCEPT !.anchors = more, !.seen = seen, !.supported = supported,
                          !.warnings = warnings]
           first == IF RowTimes(u) = {} THEN Null ELSE Min(RowTimes(u))
           last == IF RowTimes(u) = {} THEN Null ELSE Max(RowTimes(u))
           t == [u EXCEPT !.started = first, !.ended = last]
<1>1. WithObd(s, log) = t
  BY Zenon DEF WithObd, WithBounds
<1> HIDE DEF more, seen, supported, warnings
<1>2. DOMAIN u = SessionFields /\ u.frames = s.frames /\ u.anchors = more
      /\ u.supported = supported /\ u.exists = s.exists /\ u.can = s.can /\ u.obd = s.obd
  BY DEF SessionFields
<1> HIDE DEF first, last, u
<1>3. DOMAIN t = SessionFields /\ t.frames = u.frames
      /\ t.exists = u.exists /\ t.anchors = u.anchors /\ t.supported = u.supported
      /\ t.can = u.can /\ t.obd = u.obd
  BY <1>2 DEF SessionFields
<1> HIDE DEF t
<1> QED BY <1>1, <1>2, <1>3 DEF more, supported

-----------------------------------------------------------------------------
(* The inductive invariant.                                                *)

\* What a run is doing is a command, begun as one of those there have been.
IsCommand(job) ==
  /\ job.at \in Building \cup Exporting /\ JobFields \subseteq DOMAIN job
  /\ job.session \in SessionIds /\ job.dir \in Dirs \cup {Null}
  /\ job.built \in BOOLEAN /\ job.file \in 1..4 /\ job.n \in 1..commands
  /\ job.built => {"can", "obd"} \subseteq DOMAIN job /\ job.can \in CanLogs /\ job.obd \in ObdLogs
  /\ job.at \in Building => job.built /\ job.file = 1
  /\ job.at \in Exporting => job.dir \in Dirs
JobsAreCommands ==
  /\ DOMAIN jobs = Runs /\ commands \in Nat
  /\ \A r \in Runs : jobs[r] # Idle => IsCommand(jobs[r])

\* A session is the one its run made from the logs it was given.
Makes(job) == job # Idle /\ job.built /\ job.at # "create"
\* No two runs make one session.
OneMaker ==
  \A q, r \in Runs :
    q # r /\ Makes(jobs[q]) /\ Makes(jobs[r]) => jobs[q].session # jobs[r].session
\* What a session that is being made does not hold yet.
Progress ==
  \A r \in Runs : Makes(jobs[r]) =>
    LET job == jobs[r]
        s   == sessions[job.session]
    IN  /\ s.exists /\ s.can = job.can /\ s.obd = job.obd
        /\ job.at = "can" => s.frames = <<>>
        /\ job.at \in Building => s.anchors = <<>> /\ s.supported = {}

HoldsTheLogs(s) ==
  /\ DOMAIN s = SessionFields /\ s.can \in CanLogs /\ s.obd \in ObdLogs
  /\ s.frames = <<>> \/ (~ParseFails(s.can) /\ s.frames = ParseCanLog(s.can).frames)
  /\ (s.anchors = <<>> /\ s.supported = {})
     \/ (/\ ~Unreadable(s.obd) /\ s.anchors = Samples(s.obd) /\ s.supported = PidsSupported(s.obd))
SessionsHoldTheLogs ==
  /\ DOMAIN sessions = SessionIds
  /\ \A i \in SessionIds : sessions[i].exists => HoldsTheLogs(sessions[i])

DatabaseInv == JobsAreCommands /\ OneMaker /\ Progress /\ SessionsHoldTheLogs

\* One run exports to a directory at a time.
DirsApart == \A q, r \in Runs : q # r /\ jobs[q].dir = jobs[r].dir => jobs[q].dir = Null
\* A file is one of a command there has been.
IsFile(e) ==
  e.state \in {"none", "torn", "whole"} /\ (e.state # "none" => e.n \in 1..commands)
ExportsHoldFiles ==
  /\ DOMAIN exports = Dirs
  /\ \A d \in Dirs : DOMAIN exports[d] = Files /\ \A f \in Files : IsFile(exports[d][f])

\* A file this run has written, and one it has yet to write.
WrittenBy(job, file) ==
  LET e == exports[job.dir][file] IN
  /\ e.state = "whole" /\ e.n = job.n /\ e.built = job.built
  /\ job.built => e.content = Rendered(file, sessions[job.session])
OpenedBy(job, file) ==
  LET e == exports[job.dir][file] IN
  /\ e.state = "torn" /\ e.n = job.n
  /\ job.built => job.content = Rendered(file, sessions[job.session])
Earlier(job, file) ==
  LET e == exports[job.dir][file] IN e.state = "none" \/ e.n < job.n
TimesRise(job) ==
  \A i \in 1..4 :
    /\ i < job.file => WrittenBy(job, ExportFiles[i])
    /\ i > job.file => Earlier(job, ExportFiles[i])
    /\ i = job.file => IF job.at = "writing" THEN OpenedBy(job, ExportFiles[i])
                                             ELSE Earlier(job, ExportFiles[i])
ExportsGoInOrder == \A r \in Runs : jobs[r] # Idle /\ jobs[r].dir # Null => TimesRise(jobs[r])

Agrees(e) ==
  e["manifest"].state = "whole" =>
    /\ \A f \in Files : e[f].state # "none" /\ e[f].n >= e["manifest"].n
    /\ (/\ e["manifest"].built
        /\ \A f \in Files : e[f].state = "whole" /\ e[f].n = e["manifest"].n) => TellsTheSame(e)
FilesAgree == \A d \in Dirs : Agrees(exports[d])

ExportInv == DirsApart /\ ExportsHoldFiles /\ ExportsGoInOrder /\ FilesAgree

SessionInv == DatabaseInv /\ ExportInv

\* It holds at the start, and says what the first property says.
LEMMA SessionInvStart == SessionInit => SessionInv
<1> SUFFICES ASSUME SessionInit PROVE SessionInv
  OBVIOUS
<1>1. \A r \in Runs : jobs[r] = Idle /\ jobs[r].dir = Null
  BY DEF SessionInit, Idle
<1>2. DOMAIN jobs = Runs /\ commands \in Nat /\ DOMAIN sessions = SessionIds
      /\ \A i \in SessionIds : ~sessions[i].exists
  BY DEF SessionInit, NoSession
<1>3. DatabaseInv
  BY <1>1, <1>2 DEF DatabaseInv, JobsAreCommands, OneMaker, Progress, Makes, SessionsHoldTheLogs
<1>4. DOMAIN exports = Dirs
      /\ \A d \in Dirs : DOMAIN exports[d] = Files /\ \A f \in Files : exports[d][f].state = "none"
  BY ExportFilesAre DEF SessionInit, NoFile
<1>5. "manifest" \in Files
  BY DEF Files
<1>6. ExportInv
  BY <1>1, <1>4, <1>5 DEF ExportInv, DirsApart, ExportsHoldFiles, IsFile, ExportsGoInOrder, FilesAgree, Agrees
<1> QED BY <1>3, <1>6 DEF SessionInv

LEMMA SessionInvSays == SessionInv => RowsAreTheLogs
<1>1. SessionsHoldTheLogs => RowsAreTheLogs
  BY DEF SessionsHoldTheLogs, HoldsTheLogs, RowsAreTheLogs, Session
<1> QED BY <1>1 DEF SessionInv, DatabaseInv

\* The rows of a table that a session holds, and what is read of it.
Held(table, s) == IF s.exists THEN Len(s[table]) ELSE 0
LEMMA RowsAreHeld ==
  ASSUME NEW s, s.exists => HoldsTheLogs(s), NEW table \in {"frames", "anchors"}
  PROVE  Held(table, s) \in Nat /\ Len(Rows(table, s)) = Held(table, s)
<1>1. CASE ~s.exists
  BY <1>1 DEF Held, Rows
<1>2. CASE s.exists
  <2>1. IsSeq(<<>>)
    <3>1. <<>> \in Seq({})
      OBVIOUS
    <3> QED BY <3>1, SequencesAreSeqs
  <2>2. IsSeq(s.frames)
    <3>1. IsSeq(ReadLines(s.can).frames)
      BY <1>2, SessionAssumption, ParsedFrames DEF IsSeq, HoldsTheLogs
    <3>2. IsSeq(ParseCanLog(s.can).frames)
      BY <3>1, ByTimeRows DEF ParseCanLog
    <3> QED BY <1>2, <2>1, <3>2 DEF HoldsTheLogs
  <2>3. IsSeq(s.anchors)
    BY <1>2, <2>1, SamplesAreSeq DEF HoldsTheLogs
  <2>4. IsSeq(s[table]) /\ Rows(table, s) = ByTime(s[table]) /\ Held(table, s) = Len(s[table])
    BY <1>2, <2>2, <2>3 DEF Rows, Held
  <2>5. Len(s[table]) \in Nat
    BY <2>4, LenProperties DEF IsSeq
  <2> QED BY <2>4, <2>5, ByTimeRows
<1> QED BY <1>1, <1>2

-----------------------------------------------------------------------------
(* Every step keeps it.                                                    *)

\* A run that goes on to its next step keeps everything else of its command.
LEMMA MoveKeeps ==
  ASSUME JobsAreCommands, NEW r \in Runs, jobs[r] # Idle, NEW at, Move(r, at), at # "idle"
  PROVE  /\ DOMAIN jobs' = Runs /\ \A q \in Runs : q # r => jobs'[q] = jobs[q]
         /\ jobs'[r] # Idle /\ jobs'[r].at = at /\ DOMAIN jobs'[r] = DOMAIN jobs[r]
         /\ jobs'[r].session = jobs[r].session /\ jobs'[r].dir = jobs[r].dir
         /\ jobs'[r].built = jobs[r].built /\ jobs'[r].file = jobs[r].file
         /\ jobs'[r].n = jobs[r].n /\ jobs'[r].content = jobs[r].content
         /\ jobs[r].built => jobs'[r].can = jobs[r].can /\ jobs'[r].obd = jobs[r].obd
<1> DEFINE moved == [jobs[r] EXCEPT !.at = at]
<1>1. IsCommand(jobs[r]) /\ DOMAIN jobs = Runs
  BY DEF JobsAreCommands
<1>2. jobs' = [jobs EXCEPT ![r] = moved]
  BY DEF Move
<1>3. /\ moved.at = at /\ DOMAIN moved = DOMAIN jobs[r]
      /\ moved.session = jobs[r].session /\ moved.dir = jobs[r].dir
      /\ moved.built = jobs[r].built /\ moved.file = jobs[r].file
      /\ moved.n = jobs[r].n /\ moved.content = jobs[r].content
      /\ jobs[r].built => moved.can = jobs[r].can /\ moved.obd = jobs[r].obd
  BY <1>1 DEF IsCommand, JobFields
<1>4. moved # Idle
  BY <1>3 DEF Idle
<1> HIDE DEF moved
<1> QED BY <1>1, <1>2, <1>3, <1>4

\* A run that is over takes nothing with it.
LEMMA EndKeeps ==
  ASSUME SessionInv, NEW r \in Runs, Ended(r), UNCHANGED <<sessions, exports, commands>>
  PROVE  SessionInv'
<1>1. DOMAIN jobs = Runs /\ DOMAIN jobs' = Runs /\ jobs'[r] = Idle
      /\ \A q \in Runs : q # r => jobs'[q] = jobs[q]
  BY DEF SessionInv, DatabaseInv, JobsAreCommands, Ended
<1>2. Idle.dir = Null
  BY DEF Idle
<1>3. \A job : (IsCommand(job) => IsCommand(job)') /\ (Makes(job)' <=> Makes(job))
  BY DEF IsCommand, Makes
<1>4. JobsAreCommands' /\ OneMaker' /\ Progress'
  BY <1>1, <1>3, SMTT(60) DEF SessionInv, DatabaseInv, JobsAreCommands, OneMaker, Progress, Makes
<1>5. SessionsHoldTheLogs'
  BY DEF SessionInv, DatabaseInv, SessionsHoldTheLogs, HoldsTheLogs
<1>6. DirsApart'
  BY <1>1, <1>2 DEF SessionInv, ExportInv, DirsApart
<1>7. ExportsHoldFiles' /\ FilesAgree'
  BY DEF SessionInv, ExportInv, ExportsHoldFiles, IsFile, FilesAgree, Agrees
<1>8. \A job : TimesRise(job)' <=> TimesRise(job)
  BY DEF TimesRise, WrittenBy, OpenedBy, Earlier, Rendered, Rows, Guided, Manifest
<1>9. ExportsGoInOrder'
  BY <1>1, <1>2, <1>8 DEF SessionInv, ExportInv, ExportsGoInOrder
<1> QED BY <1>4, <1>5, <1>6, <1>7, <1>9 DEF SessionInv, DatabaseInv, ExportInv

LEMMA StopsKeeps == ASSUME SessionInv, NEW r \in Runs, Stops(r) PROVE SessionInv'
  BY EndKeeps DEF Stops

\* A command that begins is later than every file there is.
LEMMA StartKeeps ==
  ASSUME SessionInv, NEW r \in Runs, NEW job, Start(r, job),
         job.at \in Building \cup Exporting, JobFields \subseteq DOMAIN job,
         job.session \in SessionIds, job.dir \in Dirs \cup {Null}, job.built \in BOOLEAN,
         job.file = 1, job.n = commands + 1, job.at # "writing",
         job.built => /\ job.at = "create" /\ {"can", "obd"} \subseteq DOMAIN job
                      /\ job.can \in CanLogs /\ job.obd \in ObdLogs,
         ~job.built => job.at = "export" /\ job.dir \in Dirs
  PROVE  SessionInv'
<1>1. DOMAIN jobs = Runs /\ commands \in Nat /\ DOMAIN jobs' = Runs /\ jobs'[r] = job /\ commands' = commands + 1
      /\ (\A q \in Runs : q # r => jobs'[q] = jobs[q]) /\ UNCHANGED <<sessions, exports>>
  BY DEF SessionInv, DatabaseInv, JobsAreCommands, Start
<1>2. \A q \in Runs : jobs[q] # Idle => IsCommand(jobs[q])
  BY DEF SessionInv, DatabaseInv, JobsAreCommands
<1>3. \A j : IsCommand(j) => IsCommand(j)'
  BY <1>1 DEF IsCommand
<1>4. IsCommand(job)'
  BY <1>1 DEF IsCommand, Building, Exporting
<1>5. JobsAreCommands'
  BY <1>1, <1>2, <1>3, <1>4 DEF JobsAreCommands
<1>6. ~Makes(job) /\ \A j : Makes(j)' <=> Makes(j)
  BY DEF Makes
<1>7. OneMaker' /\ Progress'
  BY <1>1, <1>6 DEF SessionInv, DatabaseInv, OneMaker, Progress, Makes
<1>8. SessionsHoldTheLogs'
  BY <1>1 DEF SessionInv, DatabaseInv, SessionsHoldTheLogs, HoldsTheLogs
<1>9. DirsApart'
  BY <1>1 DEF SessionInv, ExportInv, DirsApart, Start
<1>10. ExportsHoldFiles' /\ FilesAgree'
  BY <1>1 DEF SessionInv, ExportInv, ExportsHoldFiles, IsFile, FilesAgree, Agrees
<1>11. \A j : TimesRise(j)' <=> TimesRise(j)
  BY <1>1 DEF TimesRise, WrittenBy, OpenedBy, Earlier, Rendered, Rows, Guided, Manifest
<1>12. job.dir # Null => TimesRise(job)
  <2> SUFFICES ASSUME job.dir # Null PROVE TimesRise(job)
    OBVIOUS
  <2>1. \A f \in Files : IsFile(exports[job.dir][f])
    BY DEF SessionInv, ExportInv, ExportsHoldFiles
  <2>2. \A f \in Files : Earlier(job, f)
    BY <1>1, <2>1 DEF IsFile, Earlier
  <2>3. \A i \in 1..4 : ExportFiles[i] \in Files
    BY ExportFilesAre DEF Files
  <2> QED BY <2>2, <2>3 DEF TimesRise
<1>13. ExportsGoInOrder'
  BY <1>1, <1>11, <1>12 DEF SessionInv, ExportInv, ExportsGoInOrder
<1> QED BY <1>5, <1>7, <1>8, <1>9, <1>10, <1>13 DEF SessionInv, DatabaseInv, ExportInv

LEMMA BuildKeeps == ASSUME SessionInv, NEW r \in Runs, Build(r) PROVE SessionInv'
<1>1. PICK s \in SessionIds, d \in Dirs \cup {Null}, can \in CanLogs, obd \in ObdLogs :
        Start(r, [at |-> "create", session |-> s, dir |-> d, can |-> can, obd |-> obd,
                  built |-> TRUE, file |-> 1, content |-> Null, n |-> commands + 1])
  BY DEF Build
<1> QED BY <1>1, StartKeeps DEF Building, JobFields

LEMMA ExportKeeps == ASSUME SessionInv, NEW r \in Runs, Export(r) PROVE SessionInv'
<1>1. PICK s \in SessionIds, d \in Dirs :
        Start(r, [at |-> "export", session |-> s, dir |-> d, built |-> FALSE,
                  file |-> 1, content |-> Null, n |-> commands + 1])
  BY DEF Export
<1> QED BY <1>1, StartKeeps DEF Exporting, JobFields

\* A run that is left alone, and the session it makes, stay in order.
LEMMA OthersStayInOrder ==
  ASSUME SessionInv, NEW q \in Runs, jobs[q] # Idle, jobs[q].dir # Null, jobs'[q] = jobs[q],
         UNCHANGED exports,
         Makes(jobs[q]) /\ jobs[q].at \in Exporting
           => sessions'[jobs[q].session] = sessions[jobs[q].session]
  PROVE  TimesRise(jobs[q])'
<1>1. TimesRise(jobs[q]) /\ IsCommand(jobs[q])
  BY DEF SessionInv, ExportInv, ExportsGoInOrder, DatabaseInv, JobsAreCommands
<1>2. \A i \in 1..4 : Earlier(jobs[q], ExportFiles[i]) => Earlier(jobs[q], ExportFiles[i])'
  BY DEF Earlier
<1>3. CASE jobs[q].at \in Exporting
  <2>1. jobs[q].built => sessions'[jobs[q].session] = sessions[jobs[q].session]
    BY <1>3 DEF Makes, Exporting
  <2>2. \A file : (WrittenBy(jobs[q], file) => WrittenBy(jobs[q], file)')
                  /\ (OpenedBy(jobs[q], file) => OpenedBy(jobs[q], file)')
    BY <2>1 DEF WrittenBy, OpenedBy, Rendered, Rows, Guided, Manifest
  <2> QED BY <1>1, <1>2, <2>2 DEF TimesRise
<1>4. CASE jobs[q].at \in Building
  <2>1. jobs[q].file = 1 /\ jobs[q].at # "writing"
    BY <1>1, <1>4 DEF IsCommand, Building
  <2> QED BY <1>1, <1>2, <2>1 DEF TimesRise
<1> QED BY <1>1, <1>3, <1>4 DEF IsCommand

\* A step that changes one session, of a run that makes no file, keeps what is
\* said of the exports.
LEMMA ImportKeepsExports ==
  ASSUME SessionInv, NEW r \in Runs, jobs[r] # Idle, NEW at, Move(r, at), at \notin {"idle", "writing"},
         jobs[r].at \in Building, UNCHANGED <<exports, commands>>,
         \A q \in Runs : q # r /\ Makes(jobs[q]) /\ jobs[q].at \in Exporting
            => sessions'[jobs[q].session] = sessions[jobs[q].session]
  PROVE  ExportInv'
<1>1. JobsAreCommands /\ IsCommand(jobs[r]) /\ \A q \in Runs : jobs[q] # Idle => IsCommand(jobs[q])
  BY DEF SessionInv, DatabaseInv, JobsAreCommands
<1>2. /\ DOMAIN jobs' = Runs /\ \A q \in Runs : q # r => jobs'[q] = jobs[q]
      /\ jobs'[r].dir = jobs[r].dir /\ jobs'[r].file = jobs[r].file /\ jobs'[r].n = jobs[r].n
      /\ jobs'[r].at = at
  BY <1>1, MoveKeeps
<1>3. DirsApart'
  BY <1>2 DEF SessionInv, ExportInv, DirsApart
<1>4. ExportsHoldFiles' /\ FilesAgree'
  BY DEF SessionInv, ExportInv, ExportsHoldFiles, IsFile, FilesAgree, Agrees
<1>5. ASSUME NEW q \in Runs, q # r, jobs[q] # Idle, jobs[q].dir # Null
      PROVE  TimesRise(jobs[q])'
  BY <1>2, <1>5, OthersStayInOrder
<1>6. ASSUME jobs[r].dir # Null
      PROVE  TimesRise(jobs[r])'
  <2>1. TimesRise(jobs[r]) /\ jobs[r].file = 1 /\ jobs[r].at # "writing"
    BY <1>1, <1>6 DEF SessionInv, ExportInv, ExportsGoInOrder, IsCommand, Building
  <2>2. \A i \in 1..4 : Earlier(jobs[r], ExportFiles[i])
    BY <2>1 DEF TimesRise
  <2>3. \A i \in 1..4 : Earlier(jobs[r], ExportFiles[i])'
    BY <1>2, <2>2 DEF Earlier
  <2> QED BY <1>2, <2>1, <2>3 DEF TimesRise
<1>7. ExportsGoInOrder'
  BY <1>2, <1>5, <1>6 DEF ExportsGoInOrder
<1> QED BY <1>3, <1>4, <1>7 DEF ExportInv

\* What is said of the other runs when one makes its session, or makes it hold more.
LEMMA ImportKeepsDatabase ==
  ASSUME SessionInv, NEW r \in Runs, jobs[r] # Idle, NEW at, Move(r, at),
         at \in {"can", "obd", "reading", "export"}, jobs[r].at \in Building,
         at = "export" => jobs[r].dir # Null, UNCHANGED commands,
         DOMAIN sessions' = SessionIds,
         \A i \in SessionIds : i # jobs[r].session => sessions'[i] = sessions[i],
         \A q \in Runs : q # r /\ Makes(jobs[q]) => jobs[q].session # jobs[r].session,
         LET s == sessions'[jobs[r].session] IN
           /\ s.exists /\ s.can = jobs[r].can /\ s.obd = jobs[r].obd /\ HoldsTheLogs(s)
           /\ at = "can" => s.frames = <<>>
           /\ at \in Building => s.anchors = <<>> /\ s.supported = {}
  PROVE  DatabaseInv'
<1>1. JobsAreCommands /\ IsCommand(jobs[r]) /\ \A q \in Runs : jobs[q] # Idle => IsCommand(jobs[q])
  BY DEF SessionInv, DatabaseInv, JobsAreCommands
<1>2. /\ DOMAIN jobs' = Runs /\ \A q \in Runs : q # r => jobs'[q] = jobs[q]
      /\ jobs'[r] # Idle /\ jobs'[r].at = at /\ DOMAIN jobs'[r] = DOMAIN jobs[r]
      /\ jobs'[r].session = jobs[r].session /\ jobs'[r].dir = jobs[r].dir
      /\ jobs'[r].built = jobs[r].built /\ jobs'[r].file = jobs[r].file
      /\ jobs'[r].n = jobs[r].n
      /\ jobs[r].built => jobs'[r].can = jobs[r].can /\ jobs'[r].obd = jobs[r].obd
  BY <1>1, MoveKeeps
<1>3. jobs[r].built /\ jobs[r].file = 1
  BY <1>1 DEF IsCommand
<1>4. \A job : IsCommand(job)' <=> IsCommand(job)
  BY DEF IsCommand
<1>5. IsCommand(jobs'[r])
  BY <1>1, <1>2, <1>3 DEF IsCommand, Building, Exporting
<1>6. JobsAreCommands'
  BY <1>1, <1>2, <1>4, <1>5 DEF JobsAreCommands
<1>7. OneMaker'
  BY <1>2 DEF SessionInv, DatabaseInv, OneMaker, Makes
<1>8. ASSUME NEW q \in Runs, q # r, Makes(jobs[q])
      PROVE  sessions'[jobs[q].session] = sessions[jobs[q].session]
  BY <1>1, <1>8 DEF IsCommand, Makes
<1>9. Progress'
  <2> SUFFICES ASSUME NEW q \in Runs, Makes(jobs'[q])
               PROVE  LET job == jobs'[q]
                          s   == sessions'[job.session]
                      IN  /\ s.exists /\ s.can = job.can /\ s.obd = job.obd
                          /\ job.at = "can" => s.frames = <<>>
                          /\ job.at \in Building => s.anchors = <<>> /\ s.supported = {}
    BY DEF Progress, Makes
  <2>1. CASE q = r
    BY <1>2, <1>3, <2>1
  <2>2. CASE q # r
    BY <1>2, <1>8, <2>2 DEF SessionInv, DatabaseInv, Progress
  <2> QED BY <2>1, <2>2
<1>10. SessionsHoldTheLogs'
  BY DEF SessionInv, DatabaseInv, SessionsHoldTheLogs, HoldsTheLogs
<1> QED BY <1>6, <1>7, <1>9, <1>10 DEF DatabaseInv

LEMMA CreateKeeps == ASSUME SessionInv, NEW r \in Runs, Create(r) PROVE SessionInv'
<1> DEFINE id == jobs[r].session
<1>1. jobs[r].at = "create" /\ jobs[r] # Idle /\ UNCHANGED <<exports, commands>>
  BY DEF Create, Idle
<1>2. CASE sessions[id].exists
  <2>1. Ended(r) /\ UNCHANGED sessions
    BY <1>2 DEF Create
  <2> QED BY <1>1, <2>1, EndKeeps
<1>3. CASE ~sessions[id].exists
  <2>1. Move(r, "can") /\ sessions' = [sessions EXCEPT ![id] = NewSession(jobs[r].can, jobs[r].obd)]
    BY <1>3 DEF Create
  <2>2. IsCommand(jobs[r]) /\ \A q \in Runs : jobs[q] # Idle => IsCommand(jobs[q])
    BY <1>1 DEF SessionInv, DatabaseInv, JobsAreCommands
  <2>3. DOMAIN sessions = SessionIds /\ id \in SessionIds
    BY <2>2 DEF SessionInv, DatabaseInv, SessionsHoldTheLogs, IsCommand
  <2>4. ASSUME NEW q \in Runs, q # r, Makes(jobs[q])
        PROVE  jobs[q].session # id
    BY <1>3, <2>4 DEF SessionInv, DatabaseInv, Progress
  <2>5. DOMAIN sessions' = SessionIds /\ sessions'[id] = NewSession(jobs[r].can, jobs[r].obd)
        /\ \A i \in SessionIds : i # id => sessions'[i] = sessions[i]
    BY <2>1, <2>3
  <2>6. jobs[r].can \in CanLogs /\ jobs[r].obd \in ObdLogs
    BY <1>1, <2>2 DEF IsCommand, Building
  <2>7. LET s == sessions'[id] IN
        /\ s.exists /\ s.can = jobs[r].can /\ s.obd = jobs[r].obd /\ HoldsTheLogs(s)
        /\ s.frames = <<>> /\ s.anchors = <<>> /\ s.supported = {}
    BY <2>5, <2>6 DEF NewSession, HoldsTheLogs, SessionFields
  <2>8. jobs[r].at \in Building
    BY <1>1 DEF Building
  <2>9. DatabaseInv'
    BY <1>1, <2>1, <2>4, <2>5, <2>7, <2>8, ImportKeepsDatabase
  <2>10. \A q \in Runs : q # r /\ Makes(jobs[q]) => sessions'[jobs[q].session] = sessions[jobs[q].session]
    BY <2>2, <2>4, <2>5 DEF Makes, IsCommand
  <2>11. ExportInv'
    BY <1>1, <2>1, <2>8, <2>10, ImportKeepsExports
  <2> QED BY <2>9, <2>11 DEF SessionInv
<1> QED BY <1>2, <1>3

\* What an import step of a run finds: its own session, that nobody else makes.
LEMMA Importing ==
  ASSUME SessionInv, NEW r \in Runs, jobs[r].at \in {"can", "obd", "reading"}
  PROVE  LET id == jobs[r].session
             s  == sessions[id]
         IN /\ jobs[r] # Idle /\ jobs[r].at \in Building /\ id \in SessionIds
            /\ DOMAIN sessions = SessionIds
            /\ s.exists /\ s.can = jobs[r].can /\ s.obd = jobs[r].obd /\ HoldsTheLogs(s)
            /\ jobs[r].at = "can" => s.frames = <<>>
            /\ s.anchors = <<>> /\ s.supported = {}
            /\ \A q \in Runs : q # r /\ Makes(jobs[q]) => jobs[q].session # id /\ jobs[q].session \in SessionIds
<1>1. jobs[r] # Idle /\ jobs[r].at \in Building /\ jobs[r].at # "create"
  BY DEF Idle, Building
<1>2. IsCommand(jobs[r]) /\ \A q \in Runs : jobs[q] # Idle => IsCommand(jobs[q])
  BY <1>1 DEF SessionInv, DatabaseInv, JobsAreCommands
<1>3. jobs[r].session \in SessionIds /\ Makes(jobs[r])
  BY <1>1, <1>2 DEF IsCommand, Makes
<1>4. \A q \in Runs : q # r /\ Makes(jobs[q]) => jobs[q].session # jobs[r].session /\ jobs[q].session \in SessionIds
  BY <1>2, <1>3 DEF SessionInv, DatabaseInv, OneMaker, Makes, IsCommand
<1>5. LET s == sessions[jobs[r].session] IN
      /\ s.exists /\ s.can = jobs[r].can /\ s.obd = jobs[r].obd
      /\ jobs[r].at = "can" => s.frames = <<>>
      /\ s.anchors = <<>> /\ s.supported = {}
  BY <1>1, <1>3 DEF SessionInv, DatabaseInv, Progress
<1> QED BY <1>1, <1>3, <1>4, <1>5 DEF SessionInv, DatabaseInv, SessionsHoldTheLogs

LEMMA ImportCanKeeps == ASSUME SessionInv, NEW r \in Runs, ImportCan(r) PROVE SessionInv'
<1> DEFINE id == jobs[r].session
           s == sessions[id]
           t == WithCan(s, ParseCanLog(jobs[r].can))
<1>1. /\ jobs[r].at = "can" /\ ~ParseFails(jobs[r].can) /\ Move(r, "obd")
      /\ sessions' = [sessions EXCEPT ![id] = t] /\ UNCHANGED <<exports, commands>>
  BY DEF ImportCan
<1>2. /\ jobs[r] # Idle /\ jobs[r].at \in Building /\ id \in SessionIds
      /\ DOMAIN sessions = SessionIds
      /\ s.exists /\ s.can = jobs[r].can /\ s.obd = jobs[r].obd /\ HoldsTheLogs(s)
      /\ s.frames = <<>> /\ s.anchors = <<>> /\ s.supported = {}
      /\ \A q \in Runs : q # r /\ Makes(jobs[q]) => jobs[q].session # id /\ jobs[q].session \in SessionIds
  BY <1>1, Importing
<1>3. IsSeq(ParseCanLog(jobs[r].can).frames)
  <2>1. jobs[r].can \in CanLogs
    BY <1>2 DEF HoldsTheLogs
  <2>2. IsSeq(ReadLines(jobs[r].can).frames)
    BY <2>1, SessionAssumption, ParsedFrames DEF IsSeq
  <2> QED BY <2>2, ByTimeRows DEF ParseCanLog
<1>4. /\ DOMAIN t = SessionFields /\ t.frames = s.frames \o ParseCanLog(jobs[r].can).frames
      /\ t.exists = s.exists /\ t.anchors = s.anchors /\ t.supported = s.supported
      /\ t.can = s.can /\ t.obd = s.obd
  <2>1. DOMAIN s = SessionFields
    BY <1>2 DEF HoldsTheLogs
  <2> HIDE DEF s
  <2> QED BY <2>1, WithCanFields
<1>5. t.frames = ParseCanLog(jobs[r].can).frames
  BY <1>2, <1>3, <1>4, ConcatEmptySeq DEF IsSeq
<1>6. DOMAIN sessions' = SessionIds /\ sessions'[id] = t
      /\ \A i \in SessionIds : i # id => sessions'[i] = sessions[i]
  BY <1>1, <1>2
<1> HIDE DEF t
<1>7. /\ t.exists /\ t.can = jobs[r].can /\ t.obd = jobs[r].obd /\ HoldsTheLogs(t)
      /\ t.anchors = <<>> /\ t.supported = {}
  BY <1>1, <1>2, <1>4, <1>5 DEF HoldsTheLogs
<1>8. DatabaseInv'
  BY <1>1, <1>2, <1>6, <1>7, ImportKeepsDatabase
<1>9. ExportInv'
  BY <1>1, <1>2, <1>6, ImportKeepsExports
<1> QED BY <1>8, <1>9 DEF SessionInv

LEMMA ObdBeginsKeeps == ASSUME SessionInv, NEW r \in Runs, ObdBegins(r) PROVE SessionInv'
<1>1. jobs[r].at = "obd" /\ Move(r, "reading") /\ UNCHANGED <<sessions, exports, commands>>
  BY DEF ObdBegins
<1>2. LET id == jobs[r].session
          s  == sessions[id]
      IN /\ jobs[r] # Idle /\ jobs[r].at \in Building /\ DOMAIN sessions = SessionIds
         /\ s.exists /\ s.can = jobs[r].can /\ s.obd = jobs[r].obd /\ HoldsTheLogs(s)
         /\ s.anchors = <<>> /\ s.supported = {}
         /\ \A q \in Runs : q # r /\ Makes(jobs[q]) => jobs[q].session # id
  BY <1>1, Importing
<1>3. DatabaseInv'
  BY <1>1, <1>2, ImportKeepsDatabase
<1>4. ExportInv'
  BY <1>1, <1>2, ImportKeepsExports
<1> QED BY <1>3, <1>4 DEF SessionInv

LEMMA ObdCommitsKeeps == ASSUME SessionInv, NEW r \in Runs, ObdCommits(r) PROVE SessionInv'
<1> DEFINE id == jobs[r].session
           s == sessions[id]
           t == WithObd(s, jobs[r].obd)
<1>1. jobs[r].at = "reading" /\ UNCHANGED <<exports, commands>>
  BY DEF ObdCommits
<1>2. CASE Unreadable(jobs[r].obd)
  <2>1. Ended(r) /\ UNCHANGED sessions
    BY <1>2 DEF ObdCommits
  <2> QED BY <1>1, <2>1, EndKeeps
<1>3. CASE ~Unreadable(jobs[r].obd)
  <2>1. /\ sessions' = [sessions EXCEPT ![id] = t]
        /\ IF jobs[r].dir = Null THEN Ended(r) ELSE Move(r, "export")
    BY <1>3 DEF ObdCommits
  <2>2. /\ jobs[r] # Idle /\ jobs[r].at \in Building /\ id \in SessionIds
        /\ DOMAIN sessions = SessionIds
        /\ s.exists /\ s.can = jobs[r].can /\ s.obd = jobs[r].obd /\ HoldsTheLogs(s)
        /\ s.anchors = <<>> /\ s.supported = {}
        /\ \A q \in Runs : q # r /\ Makes(jobs[q]) => jobs[q].session # id /\ jobs[q].session \in SessionIds
    BY <1>1, Importing
  <2>3. IsSeq(Samples(jobs[r].obd))
    BY <2>2, SamplesAreSeq DEF HoldsTheLogs
  <2>4. /\ DOMAIN t = SessionFields /\ t.frames = s.frames
        /\ t.anchors = s.anchors \o Samples(jobs[r].obd)
        /\ t.supported = s.supported \cup PidsSupported(jobs[r].obd)
        /\ t.exists = s.exists /\ t.can = s.can /\ t.obd = s.obd
    BY <2>2, WithObdFields, ZenonT(60) DEF HoldsTheLogs
  <2>5. t.anchors = Samples(jobs[r].obd) /\ t.supported = PidsSupported(jobs[r].obd)
    BY <2>2, <2>3, <2>4, ConcatEmptySeq DEF IsSeq
  <2>6. DOMAIN sessions' = SessionIds /\ sessions'[id] = t
        /\ \A i \in SessionIds : i # id => sessions'[i] = sessions[i]
    BY <2>1, <2>2
  <2> HIDE DEF t
  <2>7. t.exists /\ t.can = jobs[r].can /\ t.obd = jobs[r].obd /\ HoldsTheLogs(t)
    BY <1>3, <2>2, <2>4, <2>5 DEF HoldsTheLogs
  <2>8. CASE jobs[r].dir # Null
    <3>1. Move(r, "export") /\ "export" \notin Building
      BY <2>1, <2>8 DEF Building
    <3>2. DatabaseInv'
      BY <1>1, <2>2, <2>6, <2>7, <2>8, <3>1, ImportKeepsDatabase
    <3>3. ExportInv'
      BY <1>1, <2>2, <2>6, <3>1, ImportKeepsExports
    <3> QED BY <3>2, <3>3 DEF SessionInv
  <2>9. CASE jobs[r].dir = Null
    <3>1. DOMAIN jobs = Runs /\ DOMAIN jobs' = Runs /\ jobs'[r] = Idle
          /\ \A q \in Runs : q # r => jobs'[q] = jobs[q]
      BY <2>1, <2>9 DEF SessionInv, DatabaseInv, JobsAreCommands, Ended
    <3>2. \A job : (IsCommand(job) => IsCommand(job)') /\ (Makes(job)' <=> Makes(job))
      BY <1>1 DEF IsCommand, Makes
    <3>3. \A q \in Runs : q # r /\ Makes(jobs[q]) => sessions'[jobs[q].session] = sessions[jobs[q].session]
      BY <2>2, <2>6
    <3>4. JobsAreCommands' /\ OneMaker' /\ Progress'
      <4>1. JobsAreCommands /\ OneMaker /\ Progress
        BY DEF SessionInv, DatabaseInv
      <4>2. ~Makes(Idle)
        BY DEF Makes
      <4>3. JobsAreCommands'
        BY <1>1, <3>1, <3>2, <4>1 DEF JobsAreCommands
      <4>4. \A q \in Runs : Makes(jobs'[q]) => q # r /\ jobs'[q] = jobs[q] /\ Makes(jobs[q])
        BY <3>1, <4>2
      <4>5. OneMaker'
        <5>1. \A q \in Runs : Makes(jobs[q])' => jobs'[q] = jobs[q] /\ Makes(jobs[q])
          BY <3>2, <4>4 DEF Makes
        <5> QED BY <4>1, <5>1 DEF OneMaker
      <4>6. Progress'
        <5>1. \A q \in Runs : Makes(jobs[q])' =>
                /\ jobs'[q] = jobs[q] /\ Makes(jobs[q])
                /\ sessions'[jobs[q].session] = sessions[jobs[q].session]
          BY <3>3, <4>4 DEF Makes
        <5> QED BY <4>1, <5>1 DEF Progress
      <4> QED BY <4>3, <4>5, <4>6
    <3>5. SessionsHoldTheLogs'
      BY <2>6, <2>7 DEF SessionInv, DatabaseInv, SessionsHoldTheLogs, HoldsTheLogs
    <3>6. ExportInv'
      <4>1. Idle.dir = Null
        BY DEF Idle
      <4>2. DirsApart'
        BY <3>1, <4>1 DEF SessionInv, ExportInv, DirsApart
      <4>3. ExportsHoldFiles' /\ FilesAgree'
        BY <1>1 DEF SessionInv, ExportInv, ExportsHoldFiles, IsFile, FilesAgree, Agrees
      <4>4. ASSUME NEW q \in Runs, q # r, jobs[q] # Idle, jobs[q].dir # Null
            PROVE  TimesRise(jobs[q])'
        BY <1>1, <3>1, <3>3, <4>4, OthersStayInOrder
      <4>5. ExportsGoInOrder'
        BY <3>1, <4>1, <4>4 DEF ExportsGoInOrder
      <4> QED BY <4>2, <4>3, <4>5 DEF ExportInv
    <3> QED BY <3>4, <3>5, <3>6 DEF SessionInv, DatabaseInv
  <2> QED BY <2>8, <2>9
<1> QED BY <1>2, <1>3

\* What a step of an export finds: the file it is at, in a directory of its own.
LEMMA ExportingFinds ==
  ASSUME SessionInv, NEW r \in Runs, jobs[r].at \in Exporting
  PROVE  LET job == jobs[r] IN
         /\ job # Idle /\ IsCommand(job) /\ TimesRise(job) /\ job.dir \in Dirs /\ job.dir # Null
         /\ ExportFiles[job.file] \in Files
         /\ \A q \in Runs : q # r => jobs[q].dir # job.dir
         /\ \A i \in 1..4 : i # job.file => ExportFiles[i] # ExportFiles[job.file]
<1>1. jobs[r] # Idle
  BY DEF Idle, Exporting
<1>2. IsCommand(jobs[r])
  BY <1>1 DEF SessionInv, DatabaseInv, JobsAreCommands
<1>3. jobs[r].dir \in Dirs /\ jobs[r].dir # Null /\ jobs[r].file \in 1..4
  BY <1>2, SessionAssumption DEF IsCommand
<1>4. TimesRise(jobs[r])
  BY <1>1, <1>3 DEF SessionInv, ExportInv, ExportsGoInOrder
<1>5. \A q \in Runs : q # r => jobs[q].dir # jobs[r].dir
  BY <1>3 DEF SessionInv, ExportInv, DirsApart
<1>6. \A i, j \in 1..4 : ExportFiles[i] \in Files /\ (i # j => ExportFiles[i] # ExportFiles[j])
  BY ExportFilesAre DEF Files
<1> QED BY <1>1, <1>2, <1>3, <1>4, <1>5, <1>6

\* A step of an export leaves the database alone, and the other runs and directories.
LEMMA ExportStepKeeps ==
  ASSUME SessionInv, NEW r \in Runs, jobs[r].at \in Exporting, UNCHANGED <<sessions, commands>>,
         NEW file, file = ExportFiles[jobs[r].file], NEW content, IsFile(content),
         exports' = [exports EXCEPT ![jobs[r].dir][file] = content],
         DOMAIN jobs' = Runs, \A q \in Runs : q # r => jobs'[q] = jobs[q],
         jobs'[r] = Idle \/
           (/\ jobs'[r] # Idle /\ IsCommand(jobs'[r]) /\ jobs'[r].at \in Exporting
            /\ jobs'[r].dir = jobs[r].dir /\ jobs'[r].session = jobs[r].session
            /\ jobs'[r].built = jobs[r].built /\ TimesRise(jobs[r])'
            /\ jobs'[r].built => jobs'[r].can = jobs[r].can /\ jobs'[r].obd = jobs[r].obd),
         Agrees(exports'[jobs[r].dir])
  PROVE  SessionInv'
<1> DEFINE job == jobs[r]
<1>1. /\ job # Idle /\ IsCommand(job) /\ job.dir \in Dirs /\ job.dir # Null /\ file \in Files
      /\ \A q \in Runs : q # r => jobs[q].dir # job.dir
  BY ExportingFinds
<1>2. \A j : (IsCommand(j)' <=> IsCommand(j)) /\ (Makes(j)' <=> Makes(j))
  BY DEF IsCommand, Makes
<1>3. JobsAreCommands'
  BY <1>2 DEF SessionInv, DatabaseInv, JobsAreCommands
<1>4. Makes(jobs'[r]) => Makes(job)
  BY <1>1 DEF Makes, Exporting
<1>5. OneMaker'
  <2>1. \A q \in Runs : Makes(jobs'[q]) => Makes(jobs[q]) /\ jobs'[q].session = jobs[q].session
    BY <1>4 DEF Makes
  <2> QED BY <2>1, <1>2 DEF SessionInv, DatabaseInv, OneMaker, Makes
<1>6. Progress'
  <2> SUFFICES ASSUME NEW q \in Runs, Makes(jobs'[q])
               PROVE  LET j == jobs'[q]
                          s == sessions[j.session]
                      IN  /\ s.exists /\ s.can = j.can /\ s.obd = j.obd
                          /\ j.at = "can" => s.frames = <<>>
                          /\ j.at \in Building => s.anchors = <<>> /\ s.supported = {}
    BY DEF Progress, Makes
  <2>1. CASE q = r
    <3>1. jobs'[r].at \notin Building /\ jobs'[r].at # "can" /\ jobs'[r].session = job.session
          /\ jobs'[r].can = job.can /\ jobs'[r].obd = job.obd
      BY <2>1 DEF Makes, Building, Exporting
    <3>2. Makes(job)
      BY <1>4, <2>1
    <3> QED BY <2>1, <3>1, <3>2 DEF SessionInv, DatabaseInv, Progress
  <2>2. CASE q # r
    BY <2>2 DEF SessionInv, DatabaseInv, Progress
  <2> QED BY <2>1, <2>2
<1>7. SessionsHoldTheLogs'
  BY DEF SessionInv, DatabaseInv, SessionsHoldTheLogs, HoldsTheLogs
<1>8. DirsApart'
  <2>1. Idle.dir = Null
    BY DEF Idle
  <2> QED BY <2>1 DEF SessionInv, ExportInv, DirsApart
<1>9. /\ DOMAIN exports' = Dirs /\ \A d \in Dirs : DOMAIN exports'[d] = Files
      /\ \A d \in Dirs : d # job.dir => exports'[d] = exports[d]
      /\ exports'[job.dir][file] = content
      /\ \A f \in Files : f # file => exports'[job.dir][f] = exports[job.dir][f]
  BY <1>1 DEF SessionInv, ExportInv, ExportsHoldFiles
<1>10. ExportsHoldFiles'
  <2>1. \A e : IsFile(e)' <=> IsFile(e)
    BY DEF IsFile
  <2> QED BY <1>1, <1>9, <2>1 DEF SessionInv, ExportInv, ExportsHoldFiles
<1>11. FilesAgree'
  BY <1>9 DEF SessionInv, ExportInv, FilesAgree
<1>12. ASSUME NEW q \in Runs, q # r, jobs[q] # Idle, jobs[q].dir # Null
       PROVE  TimesRise(jobs[q])'
  <2>1. TimesRise(jobs[q]) /\ IsCommand(jobs[q])
    BY <1>12 DEF SessionInv, ExportInv, ExportsGoInOrder, DatabaseInv, JobsAreCommands
  <2>2. exports'[jobs[q].dir] = exports[jobs[q].dir]
    BY <1>1, <1>9, <1>12, <2>1 DEF IsCommand
  <2>3. jobs'[q] = jobs[q]
    BY <1>12
  <2>4. \A f : /\ WrittenBy(jobs[q], f) => WrittenBy(jobs[q], f)'
               /\ OpenedBy(jobs[q], f) => OpenedBy(jobs[q], f)'
               /\ Earlier(jobs[q], f) => Earlier(jobs[q], f)'
    BY <2>2, <2>3 DEF WrittenBy, OpenedBy, Earlier, Rendered, Rows, Guided, Manifest
  <2> QED BY <2>1, <2>3, <2>4 DEF TimesRise
<1>13. ExportsGoInOrder'
  BY <1>12 DEF ExportsGoInOrder
<1> QED BY <1>3, <1>5, <1>6, <1>7, <1>8, <1>10, <1>11, <1>13 DEF SessionInv, DatabaseInv, ExportInv

\* A file of an export that is not the manifest: a manifest there is is older.
LEMMA OlderManifest ==
  ASSUME SessionInv, NEW r \in Runs, jobs[r].at \in Exporting, jobs[r].file # 4,
         NEW file, file = ExportFiles[jobs[r].file], NEW content, content.state # "none",
         content.n = jobs[r].n,
         exports' = [exports EXCEPT ![jobs[r].dir][file] = content]
  PROVE  Agrees(exports'[jobs[r].dir])
<1> DEFINE job == jobs[r]
           e == exports[job.dir]
           new == exports'[job.dir]
<1>1. /\ IsCommand(job) /\ TimesRise(job) /\ job.dir \in Dirs /\ file \in Files
      /\ \A i \in 1..4 : i # job.file => ExportFiles[i] # file
  BY ExportingFinds
<1>2. Earlier(job, "manifest") /\ file # "manifest"
  BY <1>1, ExportFilesAre DEF TimesRise, IsCommand
<1>3. new[file] = content /\ \A f \in Files : f # file => new[f] = e[f]
  BY <1>1 DEF SessionInv, ExportInv, ExportsHoldFiles
<1>4. "manifest" \in Files /\ job.n \in Int /\ \A f \in Files : IsFile(e[f])
  BY <1>1 DEF Files, SessionInv, ExportInv, ExportsHoldFiles, IsCommand
<1>5. new["manifest"] = e["manifest"] /\ (new["manifest"].state = "whole" => e["manifest"].n < job.n)
  BY <1>2, <1>3, <1>4 DEF Earlier
<1>6. new["manifest"].state = "whole" =>
        /\ e["manifest"].n \in Int /\ \A f \in Files : e[f].state # "none" /\ e[f].n >= e["manifest"].n
  <2>1. Agrees(e)
    BY <1>1 DEF SessionInv, ExportInv, FilesAgree
  <2>2. commands \in Nat /\ IsFile(e["manifest"])
    BY <1>4 DEF SessionInv, DatabaseInv, JobsAreCommands
  <2> HIDE DEF e, new
  <2> QED BY <1>5, <2>1, <2>2 DEF Agrees, IsFile
<1> SUFFICES ASSUME new["manifest"].state = "whole" PROVE Agrees(new)
  BY DEF Agrees
<1> HIDE DEF new, e
<1>7. content.n = job.n /\ job.n > e["manifest"].n
  BY <1>4, <1>5, <1>6
<1>8. \A f \in Files : new[f].state # "none" /\ new[f].n >= new["manifest"].n
  BY <1>3, <1>4, <1>5, <1>6, <1>7
<1>9. new[file].n # new["manifest"].n
  BY <1>3, <1>4, <1>5, <1>6, <1>7
<1> QED BY <1>1, <1>8, <1>9 DEF Agrees

LEMMA OpenFileKeeps == ASSUME SessionInv, NEW r \in Runs, OpenFile(r) PROVE SessionInv'
<1> DEFINE job == jobs[r]
           file == ExportFiles[job.file]
           shown == Rendered(file, sessions[job.session])
<1>1. job.at = "export" /\ job.at \in Exporting /\ UNCHANGED <<sessions, commands>>
  BY DEF OpenFile, Exporting
<1>2. CASE Refused(file, sessions[job.session])
  BY <1>1, <1>2, EndKeeps DEF OpenFile
<1>3. CASE ~Refused(file, sessions[job.session])
  <2>1. /\ jobs' = [jobs EXCEPT ![r].at = "writing", ![r].content = shown]
        /\ exports' = [exports EXCEPT ![job.dir][file] = Torn(job.n)]
    BY <1>3, Zenon DEF OpenFile
  <2>2. /\ job # Idle /\ IsCommand(job) /\ TimesRise(job) /\ job.dir \in Dirs /\ job.dir # Null
        /\ file \in Files /\ DOMAIN jobs = Runs
        /\ \A i \in 1..4 : i # job.file => ExportFiles[i] # file
    BY <1>1, ExportingFinds DEF SessionInv, DatabaseInv, JobsAreCommands
  <2> HIDE DEF shown
  <2> DEFINE next == [job EXCEPT !.at = "writing", !.content = shown]
  <2>3. DOMAIN jobs' = Runs /\ jobs'[r] = next /\ \A q \in Runs : q # r => jobs'[q] = jobs[q]
    BY <2>1, <2>2
  <2>4. /\ next.at = "writing" /\ next.content = shown /\ DOMAIN next = DOMAIN job
        /\ next.dir = job.dir /\ next.session = job.session /\ next.built = job.built
        /\ next.n = job.n /\ next.file = job.file
        /\ job.built => next.can = job.can /\ next.obd = job.obd
    BY <2>2 DEF IsCommand, JobFields
  <2> HIDE DEF next
  <2>5. next # Idle /\ IsCommand(next) /\ next.at \in Exporting
    BY <2>2, <2>4 DEF Idle, IsCommand, Exporting, Building
  <2>6. Torn(job.n).state = "torn" /\ Torn(job.n).n = job.n /\ IsFile(Torn(job.n))
    BY <2>2 DEF Torn, IsFile, IsCommand
  <2>7. exports'[job.dir][file] = Torn(job.n)
        /\ \A f \in Files : f # file => exports'[job.dir][f] = exports[job.dir][f]
    BY <2>1, <2>2 DEF SessionInv, ExportInv, ExportsHoldFiles
  <2>8. TimesRise(jobs[r])'
    <3>1. \A f \in Files : f # file =>
            /\ WrittenBy(job, f) => WrittenBy(job, f)'
            /\ Earlier(job, f) => Earlier(job, f)'
      BY <1>1, <2>3, <2>4, <2>7 DEF WrittenBy, Earlier, Rendered, Rows, Guided, Manifest
    <3>2. OpenedBy(job, file)'
      <4>1. ExportFiles[job.file]' = ExportFiles[job.file]
        BY <2>3, <2>4
      <4>2. Rendered(file, sessions[job.session])' = shown
        BY <1>1, <2>3, <2>4 DEF shown, Rendered, Rows, Guided, Manifest
      <4> QED BY <2>3, <2>4, <2>6, <2>7, <4>1, <4>2 DEF OpenedBy
    <3>3. \A i \in 1..4 : ExportFiles[i] \in Files
      BY ExportFilesAre DEF Files
    <3> QED BY <2>2, <2>3, <2>4, <3>1, <3>2, <3>3 DEF TimesRise, IsCommand
  <2>9. Agrees(exports'[job.dir])
    <3>1. CASE job.file = 4
      <4>1. file = "manifest"
        BY <3>1, ExportFilesAre
      <4> QED BY <2>6, <2>7, <4>1 DEF Agrees
    <3>2. CASE job.file # 4
      <4> HIDE DEF file
      <4> QED BY <1>1, <2>1, <2>6, <3>2, OlderManifest DEF file
    <3> QED BY <3>1, <3>2
  <2>10. jobs'[r] # Idle /\ IsCommand(jobs'[r]) /\ jobs'[r].at \in Exporting
         /\ jobs'[r].dir = job.dir /\ jobs'[r].session = job.session /\ jobs'[r].built = job.built
         /\ (jobs'[r].built => jobs'[r].can = job.can /\ jobs'[r].obd = job.obd)
    BY <2>3, <2>4, <2>5
  <2> QED BY <1>1, <2>1, <2>3, <2>6, <2>8, <2>9, <2>10, ExportStepKeeps
<1> QED BY <1>2, <1>3

LEMMA WriteFileKeeps == ASSUME SessionInv, NEW r \in Runs, WriteFile(r) PROVE SessionInv'
<1> DEFINE job == jobs[r]
           file == ExportFiles[job.file]
           s == sessions[job.session]
           content == Whole(job, job.content)
<1>1. /\ job.at = "writing" /\ job.at \in Exporting /\ UNCHANGED <<sessions, commands>>
      /\ exports' = [exports EXCEPT ![job.dir][file] = content]
      /\ IF job.file = 4 THEN Ended(r)
         ELSE jobs' = [jobs EXCEPT ![r].at = "export", ![r].file = @ + 1, ![r].content = Null]
  BY ExportFilesAre DEF WriteFile, Exporting
<1>2. /\ job # Idle /\ IsCommand(job) /\ TimesRise(job) /\ job.dir \in Dirs /\ job.dir # Null
      /\ file \in Files /\ DOMAIN jobs = Runs /\ job.file \in 1..4
      /\ \A i \in 1..4 : i # job.file => ExportFiles[i] # file
  BY <1>1, ExportingFinds DEF SessionInv, DatabaseInv, JobsAreCommands, IsCommand
<1>3. content.state = "whole" /\ content.n = job.n /\ content.built = job.built
      /\ content.content = job.content /\ IsFile(content)
  BY <1>2 DEF Whole, IsFile, IsCommand
<1>4. exports'[job.dir][file] = content
      /\ \A f \in Files : f # file => exports'[job.dir][f] = exports[job.dir][f]
  BY <1>1, <1>2 DEF SessionInv, ExportInv, ExportsHoldFiles
<1>5. OpenedBy(job, file) /\ \A i \in 1..4 : i < job.file => WrittenBy(job, ExportFiles[i])
  BY <1>1, <1>2 DEF TimesRise
<1> HIDE DEF content
<1>6. CASE job.file = 4
  <2>1. file = "manifest" /\ ExportFiles[1] = "raw" /\ ExportFiles[2] = "guided" /\ ExportFiles[3] = "anchors"
    BY <1>6, ExportFilesAre
  <2>2. WrittenBy(job, "raw") /\ WrittenBy(job, "guided") /\ WrittenBy(job, "anchors")
    BY <1>5, <1>6, <2>1
  <2> DEFINE e == exports'[job.dir]
  <2>3. /\ e["manifest"] = content
        /\ \A f \in {"raw", "guided", "anchors"} :
             /\ e[f].state = "whole" /\ e[f].n = job.n
             /\ job.built => e[f].content = Rendered(f, s)
        /\ job.built => content.content = Rendered("manifest", s)
    <3>1. \A f \in Files : f # file => e[f] = exports[job.dir][f]
      BY <1>4
    <3>2. e["manifest"] = content /\ (job.built => content.content = Rendered("manifest", s))
      BY <1>3, <1>4, <1>5, <2>1 DEF OpenedBy
    <3>3. \A f \in {"raw", "guided", "anchors"} : f \in Files /\ f # file /\ WrittenBy(job, f)
      BY <2>1, <2>2 DEF Files
    <3>4. \A f \in {"raw", "guided", "anchors"} :
            /\ e[f].state = "whole" /\ e[f].n = job.n
            /\ job.built => e[f].content = Rendered(f, s)
      <4> HIDE DEF e, file
      <4> QED BY <3>1, <3>3 DEF WrittenBy
    <3> QED BY <3>2, <3>4
  <2>4. job.built => Len(Rows("frames", s)) = Len(s.frames) /\ Len(Rows("anchors", s)) = Len(s.anchors)
    <3> SUFFICES ASSUME job.built
                 PROVE  Len(Rows("frames", s)) = Len(s.frames) /\ Len(Rows("anchors", s)) = Len(s.anchors)
      OBVIOUS
    <3>1. Makes(job)
      BY <1>1, <1>2 DEF Makes
    <3>2. s.exists /\ HoldsTheLogs(s)
      BY <1>2, <3>1 DEF SessionInv, DatabaseInv, Progress, SessionsHoldTheLogs, IsCommand
    <3>3. Held("frames", s) = Len(s.frames) /\ Held("anchors", s) = Len(s.anchors)
      BY <3>2 DEF Held
    <3> HIDE DEF s, job
    <3> QED BY <3>2, <3>3, RowsAreHeld
  <2>5. /\ Rendered("raw", s) = Rows("frames", s) /\ Rendered("anchors", s) = Rows("anchors", s)
        /\ Rendered("guided", s).frames = Len(s.frames) /\ Rendered("guided", s).points = Rows("anchors", s)
        /\ Rendered("manifest", s).frames = Len(s.frames) /\ Rendered("manifest", s).anchors = Len(s.anchors)
    BY DEF Rendered, Guided, Manifest
  <2>6. job.n \in Int
    BY <1>2 DEF IsCommand
  <2>7. Agrees(e)
    <3> HIDE DEF e, s, job
    <3> QED BY <1>3, <2>3, <2>4, <2>5, <2>6 DEF Agrees, TellsTheSame, Files
  <2>8. jobs'[r] = Idle /\ DOMAIN jobs' = Runs /\ \A q \in Runs : q # r => jobs'[q] = jobs[q]
    BY <1>1, <1>2, <1>6 DEF Ended
  <2> QED BY <1>1, <1>3, <2>7, <2>8, ExportStepKeeps
<1>7. CASE job.file # 4
  <2> DEFINE place == job.file + 1
             next == [job EXCEPT !.at = "export", !.file = place, !.content = Null]
  <2>1. jobs' = [jobs EXCEPT ![r] = next]
    BY <1>1, <1>7, Zenon
  <2> HIDE DEF place
  <2>2. /\ next.at = "export" /\ DOMAIN next = DOMAIN job
        /\ next.dir = job.dir /\ next.session = job.session /\ next.built = job.built
        /\ next.n = job.n /\ next.file = place
        /\ job.built => next.can = job.can /\ next.obd = job.obd
    BY <1>2 DEF IsCommand, JobFields
  <2>3. DOMAIN jobs' = Runs /\ jobs'[r] = next /\ \A q \in Runs : q # r => jobs'[q] = jobs[q]
    BY <1>2, <2>1
  <2> HIDE DEF next
  <2>4. place \in 1..4 /\ place = job.file + 1
    BY <1>2, <1>7 DEF place
  <2>5. next # Idle /\ IsCommand(next) /\ next.at \in Exporting
    BY <1>2, <2>2, <2>4 DEF Idle, IsCommand, Exporting, Building
  <2>11. sessions'[jobs'[r].session] = sessions[job.session]
    BY <1>1, <2>2, <2>3
  <2>10. \A f \in Files : f # file => exports'[jobs'[r].dir][f] = exports[job.dir][f]
    BY <1>4, <2>2, <2>3
  <2>12. jobs'[r].n = job.n /\ jobs'[r].built = job.built /\ jobs'[r].dir = job.dir
    BY <2>2, <2>3
  <2>13. \A f : Rendered(f, sessions[jobs[r].session])' = Rendered(f, sessions[job.session])
    BY <2>11 DEF Rendered, Rows, Guided, Manifest
  <2>6. TimesRise(jobs[r])'
    <3>1. \A f \in Files : f # file =>
            /\ WrittenBy(job, f) => WrittenBy(job, f)'
            /\ Earlier(job, f) => Earlier(job, f)'
      BY <2>12, <2>13, <2>10 DEF WrittenBy, Earlier
    <3>2. ASSUME NEW f, f = file PROVE WrittenBy(job, f)'
      <4>1. job.built => job.content = Rendered(f, sessions[job.session])
        BY <1>5, <3>2 DEF OpenedBy
      <4>2. Rendered(f, sessions[jobs[r].session])' = Rendered(f, sessions[job.session])
        BY <2>13
      <4>3. exports'[jobs'[r].dir][f] = content
        BY <1>4, <2>12, <3>2
      <4> QED BY <1>3, <2>12, <4>1, <4>2, <4>3 DEF WrittenBy
    <3>3. \A i \in 1..4 : ExportFiles[i] \in Files
      BY ExportFilesAre DEF Files
    <3>4. \A i \in 1..4 : i < place => WrittenBy(job, ExportFiles[i])'
      BY <1>2, <1>5, <2>4, <3>1, <3>2, <3>3
    <3>5. \A i \in 1..4 : i > job.file => Earlier(job, ExportFiles[i])'
      BY <1>2, <3>1, <3>3 DEF TimesRise
    <3> QED BY <1>2, <2>2, <2>3, <2>4, <3>4, <3>5 DEF TimesRise
  <2>7. Agrees(exports'[job.dir])
    <3>1. content.state # "none"
      BY <1>3
    <3> HIDE DEF file
    <3> QED BY <1>1, <1>3, <1>7, <3>1, OlderManifest DEF file
  <2>8. jobs'[r] # Idle /\ IsCommand(jobs'[r]) /\ jobs'[r].at \in Exporting
         /\ jobs'[r].dir = job.dir /\ jobs'[r].session = job.session /\ jobs'[r].built = job.built
         /\ (jobs'[r].built => jobs'[r].can = job.can /\ jobs'[r].obd = job.obd)
    BY <2>2, <2>3, <2>5
  <2> QED BY <1>1, <1>3, <2>3, <2>6, <2>7, <2>8, ExportStepKeeps
<1> QED BY <1>6, <1>7

LEMMA SessionStepKeeps == SessionInv /\ [SessionNext]_sessionVars => SessionInv'
<1> SUFFICES ASSUME SessionInv, [SessionNext]_sessionVars PROVE SessionInv'
  OBVIOUS
<1>1. CASE SessionNext
  BY <1>1, BuildKeeps, ExportKeeps, CreateKeeps, ImportCanKeeps, ObdBeginsKeeps, ObdCommitsKeeps,
     OpenFileKeeps, WriteFileKeeps, StopsKeeps DEF SessionNext
<1>2. CASE UNCHANGED sessionVars
  <2>1. UNCHANGED <<sessions, jobs, exports, commands>>
    BY <1>2 DEF sessionVars
  <2>2. DatabaseInv'
    BY <2>1 DEF SessionInv, DatabaseInv, JobsAreCommands, IsCommand, OneMaker, Progress, Makes,
                SessionsHoldTheLogs, HoldsTheLogs
  <2>3. ExportInv'
    <3>1. \A job : TimesRise(job)' <=> TimesRise(job)
      BY <2>1 DEF TimesRise, WrittenBy, OpenedBy, Earlier, Rendered, Rows, Guided, Manifest
    <3> QED BY <2>1, <3>1 DEF SessionInv, ExportInv, DirsApart, ExportsHoldFiles, IsFile, ExportsGoInOrder, FilesAgree, Agrees
  <2> QED BY <2>2, <2>3 DEF SessionInv
<1> QED BY <1>1, <1>2

-----------------------------------------------------------------------------
(* Every file of an export, of whatever command, tells no less than those  *)
(* before it: while they are read the session only comes to hold more.     *)

\* What the first n files of an export tell, beside what the session holds: rows
\* in the first, frames and anchors in the second, anchors in the third, frames
\* and anchors in the fourth.
Chain(raw, frames, anchors, samples, inAll, anchorsInAll, n, held, heldAnchors) ==
  /\ held \in Nat /\ heldAnchors \in Nat
  /\ n >= 1 => raw \in Nat /\ raw <= held
  /\ n >= 2 => /\ frames \in Nat /\ raw <= frames /\ frames <= held
               /\ anchors \in Nat /\ anchors <= heldAnchors
  /\ n >= 3 => samples \in Nat /\ anchors <= samples /\ samples <= heldAnchors
  /\ n >= 4 => /\ inAll \in Nat /\ frames <= inAll /\ inAll <= held
               /\ anchorsInAll \in Nat /\ samples <= anchorsInAll /\ anchorsInAll <= heldAnchors

\* What file i of its export tells: the file a job is about to write is rendered.
FileTells(job, i) ==
  IF i = job.file /\ job.at = "writing" THEN job.content
  ELSE exports[job.dir][ExportFiles[i]].content
Reads(job) == IF job.at = "writing" THEN job.file ELSE job.file - 1
InChain(job) ==
  Chain(Len(FileTells(job, 1)), FileTells(job, 2).frames, FileTells(job, 2).anchors, Len(FileTells(job, 3)),
        FileTells(job, 4).frames, FileTells(job, 4).anchors, Reads(job),
        Held("frames", sessions[job.session]), Held("anchors", sessions[job.session]))
JobsTellMore == \A r \in Runs : jobs[r].at \in Exporting => InChain(jobs[r])
FilesTellMore ==
  \A d \in Dirs : (\A f \in Files : exports[d][f].state = "whole" /\ exports[d][f].n = exports[d]["manifest"].n)
                    => TellsNoLess(exports[d])
TellInv == JobsTellMore /\ FilesTellMore

LEMMA TellInvSays == SessionInv /\ TellInv => ExportsAgree
<1> SUFFICES ASSUME SessionInv, TellInv, NEW d \in Dirs,
                    exports[d]["manifest"].state = "whole"
             PROVE  LET e == exports[d] IN
                    /\ \A f \in Files : e[f].state # "none" /\ e[f].n >= e["manifest"].n
                    /\ OfOneExport(e) => TellsNoLess(e) /\ (e["manifest"].built => TellsTheSame(e))
  BY ExportFilesAre, Zenon DEF ExportsAgree
<1>1. Agrees(exports[d])
  BY DEF SessionInv, ExportInv, FilesAgree
<1>2. OfOneExport(exports[d]) =>
        \A f \in Files : exports[d][f].state = "whole" /\ exports[d][f].n = exports[d]["manifest"].n
  BY ExportFilesAre, Zenon DEF OfOneExport
<1> QED BY <1>1, <1>2 DEF Agrees, TellInv, FilesTellMore

LEMMA TellInvStart == SessionInit => TellInv
<1>1. SessionInit => \A r \in Runs : jobs[r].at \notin Exporting
  BY DEF SessionInit, Idle, Exporting
<1>2. SessionInit => \A d \in Dirs : exports[d]["manifest"].state = "none"
  BY ExportFilesAre DEF SessionInit, NoFile, Files
<1>3. "manifest" \in Files
  BY DEF Files
<1> QED BY <1>1, <1>2, <1>3 DEF TellInv, JobsTellMore, FilesTellMore

\* In every step a session keeps what it holds.
LEMMA SessionsGrow ==
  ASSUME SessionInv, SessionInv', [SessionNext]_sessionVars, NEW i \in SessionIds
  PROVE  \A table \in {"frames", "anchors"} :
           /\ Held(table, sessions[i]) \in Nat /\ Held(table, sessions'[i]) \in Nat
           /\ Held(table, sessions[i]) <= Held(table, sessions'[i])
<1>1. (sessions[i].exists => HoldsTheLogs(sessions[i])) /\ (sessions'[i].exists => HoldsTheLogs(sessions'[i]))
  BY DEF SessionInv, DatabaseInv, SessionsHoldTheLogs, HoldsTheLogs
<1>2. \A table \in {"frames", "anchors"} :
        Held(table, sessions[i]) \in Nat /\ Held(table, sessions'[i]) \in Nat
  BY <1>1, RowsAreHeld
<1>3. CASE sessions'[i] = sessions[i]
  BY <1>2, <1>3
<1>4. ASSUME NEW r \in Runs, Create(r), sessions'[i] # sessions[i]
      PROVE  ~sessions[i].exists
  BY <1>4 DEF Create, SessionInv, DatabaseInv, SessionsHoldTheLogs
<1>5. ASSUME NEW r \in Runs, ImportCan(r), sessions'[i] # sessions[i]
      PROVE  sessions[i].frames = <<>> /\ sessions[i].anchors = <<>>
  <2>1. jobs[r].at = "can" /\ sessions' = [sessions EXCEPT ![jobs[r].session] = WithCan(@, ParseCanLog(jobs[r].can))]
    BY <1>5 DEF ImportCan
  <2>2. jobs[r].session = i
    BY <1>5, <2>1 DEF SessionInv, DatabaseInv, SessionsHoldTheLogs
  <2> QED BY <2>1, <2>2, Importing
<1>6. ASSUME NEW r \in Runs, ObdCommits(r), sessions'[i] # sessions[i]
      PROVE  sessions'[i].frames = sessions[i].frames /\ sessions'[i].exists /\ sessions[i].anchors = <<>>
  <2>1. jobs[r].at = "reading" /\ (sessions' = sessions \/
          sessions' = [sessions EXCEPT ![jobs[r].session] = WithObd(@, jobs[r].obd)])
    BY <1>6 DEF ObdCommits
  <2>2. sessions' = [sessions EXCEPT ![jobs[r].session] = WithObd(@, jobs[r].obd)]
    BY <1>6, <2>1
  <2>3. jobs[r].session = i
    BY <1>6, <2>2 DEF SessionInv, DatabaseInv, SessionsHoldTheLogs
  <2>4. sessions[i].exists /\ HoldsTheLogs(sessions[i]) /\ sessions[i].anchors = <<>> /\ DOMAIN sessions = SessionIds
    BY <2>1, <2>3, Importing
  <2>5. sessions'[i] = WithObd(sessions[i], jobs[r].obd)
    BY <2>2, <2>3, <2>4
  <2>6. DOMAIN sessions[i] = SessionFields
    BY <2>4 DEF HoldsTheLogs
  <2>7. LET s == WithObd(sessions[i], jobs[r].obd) IN s.frames = sessions[i].frames /\ s.exists = sessions[i].exists
    BY <2>6, WithObdFields
  <2> QED BY <2>4, <2>5, <2>7
<1>7. ASSUME sessions'[i] # sessions[i]
      PROVE  \E r \in Runs : Create(r) \/ ImportCan(r) \/ ObdCommits(r)
  <2>1. SessionNext
    BY <1>7 DEF sessionVars
  <2>2. PICK r \in Runs : \/ Build(r) \/ Export(r)
                          \/ Create(r) \/ ImportCan(r) \/ ObdBegins(r) \/ ObdCommits(r)
                          \/ OpenFile(r) \/ WriteFile(r)
                          \/ Stops(r)
    BY <2>1 DEF SessionNext
  <2>3. ~Build(r) /\ ~Export(r)
    BY <1>7 DEF Build, Export, Start
  <2>4. ~ObdBegins(r) /\ ~OpenFile(r) /\ ~WriteFile(r) /\ ~Stops(r)
    BY <1>7 DEF ObdBegins, OpenFile, WriteFile, Stops
  <2> QED BY <2>2, <2>3, <2>4
<1>8. \A table \in {"frames", "anchors"} :
        sessions'[i] # sessions[i] =>
          Held(table, sessions[i]) = 0 \/ Held(table, sessions[i]) = Held(table, sessions'[i])
  <2>1. \A s : (~s.exists => Held("frames", s) = 0 /\ Held("anchors", s) = 0)
               /\ (s.frames = <<>> => Held("frames", s) = 0) /\ (s.anchors = <<>> => Held("anchors", s) = 0)
    BY DEF Held
  <2>2. \A s, t : (s.frames = t.frames /\ t.exists) => Held("frames", s) \in {0, Held("frames", t)}
    BY DEF Held
  <2> QED BY <1>4, <1>5, <1>6, <1>7, <2>1, <2>2
<1> QED BY <1>2, <1>3, <1>8

LEMMA ChainGrows ==
  ASSUME NEW a, NEW b, NEW c, NEW d, NEW e, NEW f, NEW n \in Int, NEW held, NEW heldAnchors,
         Chain(a, b, c, d, e, f, n, held, heldAnchors),
         NEW more \in Nat, NEW moreAnchors \in Nat, held <= more, heldAnchors <= moreAnchors
  PROVE  Chain(a, b, c, d, e, f, n, more, moreAnchors)
  BY DEF Chain

\* A run that is left alone keeps its chain.
LEMMA OthersKeepChain ==
  ASSUME SessionInv, SessionInv', [SessionNext]_sessionVars, TellInv,
         NEW q \in Runs, jobs[q].at \in Exporting, jobs'[q] = jobs[q],
         exports'[jobs[q].dir] = exports[jobs[q].dir]
  PROVE  InChain(jobs[q])'
<1> DEFINE job == jobs[q]
<1>1. IsCommand(job) /\ InChain(job)
  BY ExportingFinds DEF TellInv, JobsTellMore
<1>2. job.session \in SessionIds /\ Reads(job) \in Int
  BY <1>1 DEF IsCommand, Reads
<1>3. \A table \in {"frames", "anchors"} :
        /\ Held(table, sessions'[job.session]) \in Nat
        /\ Held(table, sessions[job.session]) <= Held(table, sessions'[job.session])
  BY <1>2, SessionsGrow
<1>4. /\ FileTells(jobs[q], 1)' = FileTells(job, 1) /\ FileTells(jobs[q], 2)' = FileTells(job, 2)
      /\ FileTells(jobs[q], 3)' = FileTells(job, 3) /\ FileTells(jobs[q], 4)' = FileTells(job, 4)
  BY DEF FileTells
<1>5. Reads(jobs[q])' = Reads(job) /\ jobs'[q].session = job.session
  BY DEF Reads
<1>6. Chain(Len(FileTells(job, 1)), FileTells(job, 2).frames, FileTells(job, 2).anchors, Len(FileTells(job, 3)),
            FileTells(job, 4).frames, FileTells(job, 4).anchors, Reads(job),
            Held("frames", sessions'[job.session]), Held("anchors", sessions'[job.session]))
  <2> HIDE DEF job
  <2> QED BY <1>1, <1>2, <1>3, ChainGrows DEF InChain
<1> HIDE DEF job
<1> QED BY <1>4, <1>5, <1>6, Zenon DEF InChain, Held

\* A run that begins to export has read nothing.
LEMMA NothingRead ==
  ASSUME SessionInv', NEW r \in Runs, jobs'[r].at = "export", jobs'[r].file = 1
  PROVE  InChain(jobs[r])'
<1>1. jobs'[r] # Idle /\ IsCommand(jobs[r])'
  BY DEF SessionInv, DatabaseInv, JobsAreCommands, Idle
<1>2. jobs'[r].session \in SessionIds
  BY <1>1 DEF IsCommand
<1>3. sessions'[jobs'[r].session].exists => HoldsTheLogs(sessions'[jobs'[r].session])
  BY <1>2 DEF SessionInv, DatabaseInv, SessionsHoldTheLogs, HoldsTheLogs
<1>4. \A table \in {"frames", "anchors"} : Held(table, sessions'[jobs'[r].session]) \in Nat
  BY <1>3, RowsAreHeld
<1>5. Reads(jobs[r])' = 0
  BY DEF Reads
<1> QED BY <1>4, <1>5 DEF InChain, Chain, Held

\* A file that is rendered continues the chain.
LEMMA OpenFileTells ==
  ASSUME SessionInv, SessionInv', TellInv, NEW r \in Runs, OpenFile(r)
  PROVE  TellInv'
<1> DEFINE job == jobs[r]
           file == ExportFiles[job.file]
           s == sessions[job.session]
           shown == Rendered(file, s)
<1>1. job.at = "export" /\ job.at \in Exporting /\ UNCHANGED <<sessions, commands>>
  BY DEF OpenFile, Exporting
<1>2. /\ job # Idle /\ IsCommand(job) /\ job.dir \in Dirs /\ job.session \in SessionIds
      /\ file \in Files /\ DOMAIN jobs = Runs /\ job.file \in 1..4
      /\ \A q \in Runs : q # r => jobs[q].dir # job.dir
      /\ \A i \in 1..4 : i # job.file => ExportFiles[i] # file
  BY <1>1, ExportingFinds DEF SessionInv, DatabaseInv, JobsAreCommands, IsCommand
<1>3. [SessionNext]_sessionVars
  BY DEF SessionNext
<1>4. \A q \in Runs : jobs[q].at \in Exporting => jobs[q].dir \in Dirs
  BY ExportingFinds
<1>5. CASE Refused(file, s)
  <2>1. Ended(r) /\ UNCHANGED exports
    BY <1>5 DEF OpenFile
  <2>2. jobs'[r].at \notin Exporting /\ \A q \in Runs : q # r => jobs'[q] = jobs[q]
    BY <1>2, <2>1 DEF Ended, Idle, Exporting
  <2>3. \A q \in Runs : jobs[q].at \in Exporting /\ q # r => InChain(jobs[q])'
    BY <1>3, <2>1, <2>2, OthersKeepChain
  <2>4. FilesTellMore'
    BY <2>1 DEF TellInv, FilesTellMore, TellsNoLess
  <2> QED BY <2>2, <2>3, <2>4 DEF TellInv, JobsTellMore
<1>6. CASE ~Refused(file, s)
  <2>1. /\ jobs' = [jobs EXCEPT ![r].at = "writing", ![r].content = shown]
        /\ exports' = [exports EXCEPT ![job.dir][file] = Torn(job.n)]
    BY <1>6, Zenon DEF OpenFile
  <2> HIDE DEF shown
  <2> DEFINE next == [job EXCEPT !.at = "writing", !.content = shown]
  <2>2. jobs'[r] = next /\ \A q \in Runs : q # r => jobs'[q] = jobs[q]
    BY <1>2, <2>1
  <2>3. /\ next.at = "writing" /\ next.content = shown /\ next.dir = job.dir
        /\ next.session = job.session /\ next.file = job.file
    BY <1>2 DEF IsCommand, JobFields
  <2> HIDE DEF next
  <2>4. /\ DOMAIN exports = Dirs /\ DOMAIN exports[job.dir] = Files
        /\ exports'[job.dir][file] = Torn(job.n)
        /\ \A f \in Files : f # file => exports'[job.dir][f] = exports[job.dir][f]
        /\ \A d \in Dirs : d # job.dir => exports'[d] = exports[d]
    BY <1>2, <2>1 DEF SessionInv, ExportInv, ExportsHoldFiles
  <2>5. ASSUME NEW q \in Runs, q # r, jobs[q].at \in Exporting
        PROVE  InChain(jobs[q])'
    BY <1>2, <1>3, <1>4, <2>2, <2>4, <2>5, OthersKeepChain
  <2>6. FilesTellMore'
    <3>1. exports'[job.dir][file].state # "whole"
      BY <2>4 DEF Torn
    <3> QED BY <1>2, <2>4, <3>1 DEF TellInv, FilesTellMore, TellsNoLess
  <2>7. InChain(jobs[r])'
    <3>1. \A i \in 1..4 : FileTells(jobs[r], i)' = IF i = job.file THEN shown ELSE FileTells(job, i)
      <4>1. \A i \in 1..4 : ExportFiles[i] \in Files
        BY ExportFilesAre DEF Files
      <4> QED BY <1>1, <1>2, <2>2, <2>3, <2>4, <4>1 DEF FileTells
    <3>2. Reads(job) = job.file - 1 /\ Reads(jobs[r])' = job.file
      BY <1>1, <2>2, <2>3 DEF Reads
    <3>3. s.exists => HoldsTheLogs(s)
      BY <1>2 DEF SessionInv, DatabaseInv, SessionsHoldTheLogs
    <3> DEFINE F == Held("frames", s)
               A == Held("anchors", s)
    <3>4. F \in Nat /\ A \in Nat /\ Len(Rows("frames", s)) = F /\ Len(Rows("anchors", s)) = A
      <4> HIDE DEF s
      <4> QED BY <3>3, RowsAreHeld
    <3>5. /\ file = "raw" => Len(shown) = F
          /\ file = "anchors" => Len(shown) = A
          /\ file \in {"guided", "manifest"} => shown.frames = F /\ shown.anchors = A
      <4>1. file \in {"guided", "manifest"} => s.exists
        BY <1>6 DEF Refused
      <4>2. s.exists => F = Len(s.frames) /\ A = Len(s.anchors)
        BY DEF Held
      <4> HIDE DEF s, F, A, file
      <4> QED BY <3>4, <4>1, <4>2 DEF shown, Rendered, Guided, Manifest
    <3>6. Held("frames", sessions'[jobs'[r].session]) = F /\ Held("anchors", sessions'[jobs'[r].session]) = A
      BY <1>1, <2>2, <2>3
    <3>7. Chain(Len(FileTells(job, 1)), FileTells(job, 2).frames, FileTells(job, 2).anchors, Len(FileTells(job, 3)),
                FileTells(job, 4).frames, FileTells(job, 4).anchors, job.file - 1, F, A)
      BY <1>1, <3>2 DEF TellInv, JobsTellMore, InChain
    <3> DEFINE T(i) == IF i = job.file THEN shown ELSE FileTells(job, i)
    <3>8. Chain(Len(T(1)), T(2).frames, T(2).anchors, Len(T(3)), T(4).frames, T(4).anchors, job.file, F, A)
      <4> HIDE DEF s, F, A, shown
      <4>1. CASE job.file = 1
        BY <3>4, <3>5, <3>7, <4>1, ExportFilesAre DEF Chain
      <4>2. CASE job.file = 2
        BY <3>4, <3>5, <3>7, <4>2, ExportFilesAre DEF Chain
      <4>3. CASE job.file = 3
        BY <3>4, <3>5, <3>7, <4>3, ExportFilesAre DEF Chain
      <4>4. CASE job.file = 4
        BY <3>4, <3>5, <3>7, <4>4, ExportFilesAre DEF Chain
      <4> QED BY <1>2, <4>1, <4>2, <4>3, <4>4
    <3>9. /\ FileTells(jobs[r], 1)' = T(1) /\ FileTells(jobs[r], 2)' = T(2)
          /\ FileTells(jobs[r], 3)' = T(3) /\ FileTells(jobs[r], 4)' = T(4)
      BY <3>1
    <3> HIDE DEF T, F, A, s, job
    <3> QED BY <3>2, <3>6, <3>8, <3>9, Zenon DEF InChain, Held
  <2> QED BY <2>2, <2>5, <2>6, <2>7 DEF TellInv, JobsTellMore
<1> QED BY <1>5, <1>6

\* What is written is what was rendered.
LEMMA WriteFileTells ==
  ASSUME SessionInv, SessionInv', TellInv, NEW r \in Runs, WriteFile(r)
  PROVE  TellInv'
<1> DEFINE job == jobs[r]
           file == ExportFiles[job.file]
           written == Whole(job, job.content)
           e == exports'[job.dir]
<1>1. /\ job.at = "writing" /\ job.at \in Exporting /\ UNCHANGED <<sessions, commands>>
      /\ exports' = [exports EXCEPT ![job.dir][file] = written]
      /\ IF job.file = 4 THEN Ended(r)
         ELSE jobs' = [jobs EXCEPT ![r].at = "export", ![r].file = @ + 1, ![r].content = Null]
  BY ExportFilesAre DEF WriteFile, Exporting
<1>2. /\ job # Idle /\ IsCommand(job) /\ TimesRise(job) /\ job.dir \in Dirs /\ job.session \in SessionIds
      /\ file \in Files /\ DOMAIN jobs = Runs /\ job.file \in 1..4
      /\ \A q \in Runs : q # r => jobs[q].dir # job.dir
      /\ \A i \in 1..4 : i # job.file => ExportFiles[i] # file
  BY <1>1, ExportingFinds DEF SessionInv, DatabaseInv, JobsAreCommands, IsCommand
<1>3. [SessionNext]_sessionVars
  BY DEF SessionNext
<1>4. \A q \in Runs : jobs[q].at \in Exporting => jobs[q].dir \in Dirs
  BY ExportingFinds
<1>5. written.state = "whole" /\ written.n = job.n /\ written.content = job.content
  BY DEF Whole
<1>6. /\ DOMAIN exports = Dirs /\ DOMAIN exports[job.dir] = Files
      /\ e[file] = written /\ \A f \in Files : f # file => e[f] = exports[job.dir][f]
      /\ \A d \in Dirs : d # job.dir => exports'[d] = exports[d]
  BY <1>1, <1>2 DEF SessionInv, ExportInv, ExportsHoldFiles
<1>7. \A i \in 1..4 : e[ExportFiles[i]].content = FileTells(job, i)
  <2>1. \A i \in 1..4 : ExportFiles[i] \in Files
    BY ExportFilesAre DEF Files
  <2> HIDE DEF written, e
  <2> QED BY <1>1, <1>2, <1>5, <1>6, <2>1 DEF FileTells
<1>8. Chain(Len(FileTells(job, 1)), FileTells(job, 2).frames, FileTells(job, 2).anchors, Len(FileTells(job, 3)),
            FileTells(job, 4).frames, FileTells(job, 4).anchors, job.file,
            Held("frames", sessions[job.session]), Held("anchors", sessions[job.session]))
  BY <1>1 DEF TellInv, JobsTellMore, InChain, Reads
<1> HIDE DEF written
<1>9. \A q \in Runs : q # r => jobs'[q] = jobs[q]
  BY <1>1, <1>2 DEF Ended
<1>10. ASSUME NEW q \in Runs, q # r, jobs[q].at \in Exporting
       PROVE  InChain(jobs[q])'
  BY <1>2, <1>3, <1>4, <1>6, <1>9, <1>10, OthersKeepChain
<1>11. CASE job.file = 4
  <2>1. jobs'[r].at \notin Exporting
    BY <1>1, <1>2, <1>11 DEF Ended, Idle, Exporting
  <2>2. TellsNoLess(e)
    <3>1. /\ e["raw"].content = FileTells(job, 1) /\ e["guided"].content = FileTells(job, 2)
          /\ e["anchors"].content = FileTells(job, 3) /\ e["manifest"].content = FileTells(job, 4)
      BY <1>7, ExportFilesAre
    <3>2. job.file >= 1 /\ job.file >= 2 /\ job.file >= 3 /\ job.file >= 4
      BY <1>11
    <3> HIDE DEF e, job
    <3> QED BY <1>8, <3>1, <3>2 DEF TellsNoLess, Chain
  <2>3. FilesTellMore'
    <3>1. ASSUME NEW d \in Dirs, d # job.dir,
                 \A f \in Files : exports'[d][f].state = "whole" /\ exports'[d][f].n = exports'[d]["manifest"].n
          PROVE  TellsNoLess(exports'[d])
      <4>1. exports'[d] = exports[d]
        BY <1>6, <3>1
      <4> HIDE DEF job, e
      <4> QED BY <3>1, <4>1 DEF TellInv, FilesTellMore
    <3>2. \A x : TellsNoLess(x)' <=> TellsNoLess(x)
      BY DEF TellsNoLess
    <3> QED BY <2>2, <3>1, <3>2 DEF FilesTellMore
  <2> QED BY <1>9, <1>10, <2>1, <2>3 DEF TellInv, JobsTellMore
<1>12. CASE job.file # 4
  <2> DEFINE place == job.file + 1
             next == [job EXCEPT !.at = "export", !.file = place, !.content = Null]
  <2>1. jobs' = [jobs EXCEPT ![r] = next]
    BY <1>1, <1>12, Zenon
  <2> HIDE DEF place
  <2>2. /\ next.at = "export" /\ next.dir = job.dir /\ next.session = job.session /\ next.file = place
    BY <1>2 DEF IsCommand, JobFields
  <2>3. jobs'[r] = next
    BY <1>2, <2>1
  <2> HIDE DEF next
  <2>4. InChain(jobs[r])'
    <3>1. Reads(jobs[r])' = job.file
      BY <1>2, <2>2, <2>3 DEF Reads, place
    <3>2. /\ FileTells(jobs[r], 1)' = FileTells(job, 1) /\ FileTells(jobs[r], 2)' = FileTells(job, 2)
          /\ FileTells(jobs[r], 3)' = FileTells(job, 3) /\ FileTells(jobs[r], 4)' = FileTells(job, 4)
      <4>1. \A i \in 1..4 : FileTells(jobs[r], i)' = e[ExportFiles[i]].content
        BY <2>2, <2>3 DEF FileTells
      <4> HIDE DEF e
      <4> QED BY <1>7, <4>1
    <3>3. sessions'[jobs'[r].session] = sessions[job.session]
      BY <1>1, <2>2, <2>3
    <3> HIDE DEF job
    <3> QED BY <1>8, <3>1, <3>2, <3>3, Zenon DEF InChain, Held
  <2>5. FilesTellMore'
    <3>1. Earlier(job, "manifest") /\ file # "manifest" /\ "manifest" \in Files
      BY <1>2, <1>12, ExportFilesAre DEF TimesRise, IsCommand, Files
    <3>2. IsFile(exports[job.dir]["manifest"]) /\ job.n \in Int /\ commands \in Nat
      BY <1>2, <3>1 DEF SessionInv, ExportInv, ExportsHoldFiles, DatabaseInv, JobsAreCommands, IsCommand
    <3>3. e["manifest"].state # "whole" \/ e[file].n # e["manifest"].n
      BY <1>5, <1>6, <3>1, <3>2 DEF Earlier, IsFile
    <3> HIDE DEF file
    <3> QED BY <1>2, <1>6, <3>1, <3>3 DEF TellInv, FilesTellMore, TellsNoLess
  <2> QED BY <1>9, <1>10, <2>4, <2>5 DEF TellInv, JobsTellMore
<1> QED BY <1>11, <1>12

LEMMA TellStepKeeps ==
  SessionInv /\ SessionInv' /\ TellInv /\ [SessionNext]_sessionVars => TellInv'
<1> SUFFICES ASSUME SessionInv, SessionInv', TellInv, [SessionNext]_sessionVars
             PROVE  TellInv'
  OBVIOUS
<1>1. DOMAIN jobs = Runs
  BY DEF SessionInv, DatabaseInv, JobsAreCommands
<1>2. ASSUME UNCHANGED exports,
             \A q \in Runs : jobs'[q].at \in Exporting =>
                jobs'[q] = jobs[q] \/ (jobs'[q].at = "export" /\ jobs'[q].file = 1)
      PROVE  TellInv'
  <2>1. FilesTellMore'
    BY <1>2 DEF TellInv, FilesTellMore, TellsNoLess
  <2>2. JobsTellMore'
    BY <1>2, OthersKeepChain, NothingRead DEF JobsTellMore
  <2> QED BY <2>1, <2>2 DEF TellInv
<1>3. CASE UNCHANGED sessionVars
  BY <1>2, <1>3 DEF sessionVars
<1>4. ASSUME NEW r \in Runs, Build(r) \/ Export(r)
      PROVE  TellInv'
  <2>1. ASSUME NEW job, Start(r, job), job.file = 1, job.at \in {"create", "export"}
        PROVE  TellInv'
    BY <1>1, <1>2, <2>1 DEF Start, Exporting
  <2>2. CASE Build(r)
    <3>1. PICK s \in SessionIds, d \in Dirs \cup {Null}, can \in CanLogs, obd \in ObdLogs :
            Start(r, [at |-> "create", session |-> s, dir |-> d, can |-> can, obd |-> obd,
                      built |-> TRUE, file |-> 1, content |-> Null, n |-> commands + 1])
      BY <2>2 DEF Build
    <3> QED BY <2>1, <3>1
  <2>3. CASE Export(r)
    <3>1. PICK s \in SessionIds, d \in Dirs :
            Start(r, [at |-> "export", session |-> s, dir |-> d, built |-> FALSE,
                      file |-> 1, content |-> Null, n |-> commands + 1])
      BY <2>3 DEF Export
    <3> QED BY <2>1, <3>1
  <2> QED BY <1>4, <2>2, <2>3
<1>5. ASSUME NEW r \in Runs, NEW at, Move(r, at), at \notin Exporting \cup {"idle"},
             UNCHANGED exports, jobs[r] # Idle
      PROVE  TellInv'
  BY <1>1, <1>2, <1>5, MoveKeeps DEF Exporting, SessionInv, DatabaseInv
<1>6. ASSUME NEW r \in Runs, Ended(r), UNCHANGED exports
      PROVE  TellInv'
  BY <1>1, <1>2, <1>6 DEF Ended, Idle, Exporting
<1>7. ASSUME NEW r \in Runs, Create(r) PROVE TellInv'
  <2>1. (Ended(r) \/ Move(r, "can")) /\ UNCHANGED exports /\ jobs[r] # Idle
    BY <1>7 DEF Create, Idle
  <2> QED BY <1>5, <1>6, <2>1 DEF Exporting
<1>8. ASSUME NEW r \in Runs, ImportCan(r) PROVE TellInv'
  <2>1. Move(r, "obd") /\ UNCHANGED exports /\ jobs[r] # Idle
    BY <1>8 DEF ImportCan, Idle
  <2> QED BY <1>5, <2>1 DEF Exporting
<1>9. ASSUME NEW r \in Runs, ObdBegins(r) PROVE TellInv'
  <2>1. Move(r, "reading") /\ UNCHANGED exports /\ jobs[r] # Idle
    BY <1>9 DEF ObdBegins, Idle
  <2> QED BY <1>5, <2>1 DEF Exporting
<1>10. ASSUME NEW r \in Runs, ObdCommits(r) PROVE TellInv'
  <2>1. (Ended(r) \/ Move(r, "export")) /\ UNCHANGED exports /\ jobs[r].at = "reading" /\ jobs[r] # Idle
    BY <1>10 DEF ObdCommits, Idle
  <2>2. CASE Move(r, "export")
    <3>1. JobsAreCommands /\ IsCommand(jobs[r])
      BY <2>1 DEF SessionInv, DatabaseInv, JobsAreCommands
    <3>2. jobs[r].file = 1
      BY <2>1, <3>1 DEF IsCommand, Building
    <3> QED BY <1>2, <2>1, <2>2, <3>1, <3>2, MoveKeeps
  <2> QED BY <1>6, <2>1, <2>2
<1>11. ASSUME NEW r \in Runs, Stops(r) PROVE TellInv'
  BY <1>6, <1>11 DEF Stops
<1> QED BY <1>3, <1>4, <1>7, <1>8, <1>9, <1>10, <1>11, OpenFileTells, WriteFileTells DEF SessionNext

\* Whatever commands run at once and wherever they are stopped: a session in the
\* database (capture_session.py) holds each of its logs whole or not at all.
THEOREM SessionsHoldWholeLogs == SessionSpec => []RowsAreTheLogs
<1>1. SessionSpec => []SessionInv
  BY SessionInvStart, SessionStepKeeps, PTL DEF SessionSpec
<1> QED BY <1>1, SessionInvSays, PTL

\* The files beside a whole manifest are of its export or a later one.  The four
\* files of one export, read one by one while other commands import, tell no less
\* the later they are written; those of one capture-session tell the same rows.
THEOREM ExportsTellOneSession == SessionSpec => []ExportsAgree
<1>1. SessionSpec => [](SessionInv /\ TellInv)
  BY SessionInvStart, SessionStepKeeps, TellInvStart, TellStepKeeps, PTL DEF SessionSpec
<1> QED BY <1>1, TellInvSays, PTL

-----------------------------------------------------------------------------
(* The ELM327: answers on their way                                        *)

\* The commands that the answers in a text were given to.
Numbers(s) == {s[i].n : i \in {j \in DOMAIN s : s[j].kind = "header"}}
AllBefore(A, B) == \A a \in A, b \in B : a < b
\* The adapter answers in the order it was asked.
InTurn(s) == \A i, j \in DOMAIN s :
               i < j /\ s[i].kind = "header" /\ s[j].kind = "header" => s[i].n < s[j].n

Told == {i \in DOMAIN rows : rows[i].answer # Null}
ToldNumbers == {rows[i].answer.n : i \in Told}

\* What has been read, what has arrived and what is to be sent are answers in
\* this order, all of them later than the ones that are in the log.
ElmInv ==
  /\ polled \in Nat /\ IsSeq(rows)
  /\ IsSeq(text) /\ IsSeq(wire) /\ IsSeq(sending)
  /\ Numbers(text) \cup Numbers(wire) \cup Numbers(sending) \cup ToldNumbers \subseteq 0..polled
  /\ AllBefore(ToldNumbers, Numbers(text) \cup Numbers(wire) \cup Numbers(sending))
  /\ AllBefore(Numbers(text), Numbers(wire) \cup Numbers(sending))
  /\ AllBefore(Numbers(wire), Numbers(sending))
  /\ InTurn(sending)
  /\ RowsTellNewAnswers

\* Answers of two texts are those of both.
LEMMA ConcatNumbers ==
  ASSUME NEW s, IsSeq(s), NEW t, IsSeq(t)
  PROVE  Numbers(s \o t) \subseteq Numbers(s) \cup Numbers(t)
<1> SUFFICES ASSUME NEW i \in DOMAIN (s \o t), (s \o t)[i].kind = "header"
             PROVE  (s \o t)[i].n \in Numbers(s) \cup Numbers(t)
  BY DEF Numbers
<1>1. /\ DOMAIN s = 1..Len(s) /\ DOMAIN t = 1..Len(t) /\ Len(s) \in Nat /\ Len(t) \in Nat
      /\ i \in 1..(Len(s) + Len(t))
      /\ (s \o t)[i] = IF i <= Len(s) THEN s[i] ELSE t[i - Len(s)]
  BY ConcatSeqs
<1>2. CASE i <= Len(s)
  BY <1>1, <1>2 DEF Numbers
<1>3. CASE ~(i <= Len(s))
  <2>1. i - Len(s) \in DOMAIN t /\ (s \o t)[i] = t[i - Len(s)]
    BY <1>1, <1>3
  <2> QED BY <2>1 DEF Numbers
<1> QED BY <1>2, <1>3

\* What is said to a command, by itself or after what is still to be said.
LEMMA AnswersInTurn ==
  ASSUME NEW pid, NEW n \in Nat, NEW a \in Answers(pid, n)
  PROVE  IsSeq(a) /\ InTurn(a) /\ Numbers(a) \subseteq {n}
<1>1. a \in {<<Piece("chatter"), Prompt>>, <<>>, <<Header(pid, n), Rest(pid, n), Prompt>>,
             <<Piece("negative"), Prompt>>}
  BY DEF Answers
<1>2. Piece("chatter").kind = "chatter" /\ Piece("negative").kind = "negative" /\ Prompt.kind = "prompt"
      /\ Header(pid, n).kind = "header" /\ Header(pid, n).n = n /\ Rest(pid, n).kind = "rest"
  BY DEF Piece, Prompt, Header, Rest
<1>3. \A x, y, z : IsSeq(<<>>) /\ IsSeq(<<x, y>>) /\ IsSeq(<<x, y, z>>)
  <2> SUFFICES ASSUME NEW x, NEW y, NEW z PROVE IsSeq(<<>>) /\ IsSeq(<<x, y>>) /\ IsSeq(<<x, y, z>>)
    OBVIOUS
  <2>1. <<>> \in Seq({}) /\ <<x, y>> \in Seq({x, y}) /\ <<x, y, z>> \in Seq({x, y, z})
    OBVIOUS
  <2> QED BY <2>1, SequencesAreSeqs
<1>4. \A i \in DOMAIN a : a[i].kind = "header" => i = 1 /\ a[i].n = n
  BY <1>1, <1>2
<1>5. InTurn(a)
  BY <1>4 DEF InTurn
<1>6. Numbers(a) \subseteq {n}
  BY <1>4 DEF Numbers
<1>7. IsSeq(a)
  BY <1>1, <1>3
<1> QED BY <1>5, <1>6, <1>7

LEMMA RepliesInTurn ==
  ASSUME ElmInv, NEW pid, NEW reply \in Replies(pid, polled + 1)
  PROVE  /\ IsSeq(reply) /\ InTurn(reply)
         /\ Numbers(reply) \subseteq Numbers(sending) \cup {polled + 1}
<1>1. CASE reply \in {sending \o a : a \in Answers(pid, polled + 1)}
  <2>1. PICK a \in Answers(pid, polled + 1) : reply = sending \o a
    BY <1>1
  <2>2. IsSeq(a) /\ InTurn(a) /\ Numbers(a) \subseteq {polled + 1} /\ IsSeq(sending) /\ InTurn(sending)
    BY AnswersInTurn DEF ElmInv
  <2>3. Numbers(sending) \subseteq 0..polled /\ polled \in Nat
    BY DEF ElmInv
  <2>4. /\ DOMAIN sending = 1..Len(sending) /\ DOMAIN a = 1..Len(a) /\ Len(sending) \in Nat /\ Len(a) \in Nat
        /\ DOMAIN reply = 1..(Len(sending) + Len(a)) /\ IsSeq(reply)
        /\ \A i \in 1..(Len(sending) + Len(a)) :
             reply[i] = IF i <= Len(sending) THEN sending[i] ELSE a[i - Len(sending)]
    BY <2>1, <2>2, ConcatSeqs
  <2>5. ASSUME NEW i \in DOMAIN reply, NEW j \in DOMAIN reply, i < j,
               reply[i].kind = "header", reply[j].kind = "header"
        PROVE  reply[i].n < reply[j].n
    <3>1. CASE j <= Len(sending)
      BY <2>2, <2>4, <2>5, <3>1 DEF InTurn
    <3>2. CASE i > Len(sending)
      <4>1. i - Len(sending) \in DOMAIN a /\ j - Len(sending) \in DOMAIN a /\ i - Len(sending) < j - Len(sending)
            /\ reply[i] = a[i - Len(sending)] /\ reply[j] = a[j - Len(sending)]
        BY <2>4, <2>5, <3>2
      <4> QED BY <2>2, <2>5, <4>1 DEF InTurn
    <3>3. CASE i <= Len(sending) /\ j > Len(sending)
      <4>1. reply[i] = sending[i] /\ i \in DOMAIN sending /\ reply[j] = a[j - Len(sending)] /\ j - Len(sending) \in DOMAIN a
        BY <2>4, <3>3
      <4>2. reply[i].n \in Numbers(sending) /\ reply[j].n \in Numbers(a)
        BY <2>5, <4>1 DEF Numbers
      <4> QED BY <2>2, <2>3, <4>2
    <3> QED BY <2>4, <3>1, <3>2, <3>3
  <2>6. InTurn(reply)
    BY <2>5 DEF InTurn
  <2>7. Numbers(reply) \subseteq Numbers(sending) \cup Numbers(a)
    BY <2>1, <2>2, ConcatNumbers
  <2> QED BY <2>2, <2>4, <2>6, <2>7
<1>2. CASE reply = <<Piece("negative"), Prompt>>
  <2>1. reply[1].kind = "negative" /\ reply[2].kind = "prompt" /\ DOMAIN reply = {1, 2}
    BY <1>2 DEF Piece, Prompt
  <2>2. reply \in Seq({Piece("negative"), Prompt})
    BY <1>2
  <2> QED BY <2>1, <2>2, SequencesAreSeqs DEF InTurn, Numbers
<1> QED BY <1>1, <1>2 DEF Replies

-----------------------------------------------------------------------------
(* Every step keeps the answers in order.                                  *)

\* The answer a row tells has its header in what was read.
LEMMA RowTells ==
  ASSUME NEW read, IsSeq(read), Row(read).answer # Null
  PROVE  /\ Row(read).answer.n \in Numbers(read) /\ Row(read).answer.pid = asked
         /\ Row(read).pid = asked /\ Row(read).n = polled
<1> DEFINE at == {i \in DOMAIN read : read[i].kind = "header" /\ read[i].pid = asked}
           i == AnswerAt(read, asked)
<1>1. Row(read).pid = asked /\ Row(read).n = polled
      /\ Row(read).answer = IF Decodes(read, i) THEN [pid |-> read[i].pid, n |-> read[i].n] ELSE Null
  BY DEF Row
<1>2. Decodes(read, i)
  BY <1>1
<1>3. at # {} /\ i = CHOOSE k \in at : \A j \in at : k <= j
  BY <1>2 DEF Decodes, AnswerAt
<1>4. \E k \in at : \A j \in at : k <= j
  <2>1. DOMAIN read = 1..Len(read) /\ Len(read) \in Nat
    BY LenProperties DEF IsSeq
  <2>2. IsFiniteSet(1..Len(read)) /\ 1..Len(read) \in SUBSET Int /\ at \in SUBSET (1..Len(read))
    BY <2>1, FS_Interval
  <2> HIDE DEF at
  <2> QED BY <1>3, <2>2, Extremes
<1>5. i \in at
  <2> HIDE DEF at
  <2> QED BY <1>3, <1>4
<1>6. read[i].n \in Numbers(read) /\ read[i].pid = asked
  BY <1>5 DEF Numbers
<1>7. Row(read).answer = [pid |-> read[i].pid, n |-> read[i].n]
  BY <1>1, <1>2
<1> HIDE DEF i
<1> QED BY <1>1, <1>6, <1>7

\* The end of a poll logs an answer that is later than those in the log, and
\* earlier than those to come.
LEMMA EndPollTells ==
  ASSUME ElmInv, NEW read, IsSeq(read), EndPoll(read), polled' = polled,
         NEW rest, rest \subseteq Numbers(wire) \cup Numbers(sending),
         Numbers(read) \subseteq Numbers(text) \cup Numbers(wire), AllBefore(Numbers(read), rest)
  PROVE  /\ IsSeq(rows') /\ text' = <<>> /\ RowsTellNewAnswers'
         /\ ToldNumbers' \subseteq 0..polled /\ AllBefore(ToldNumbers', rest)
<1>1. /\ polled \in Nat /\ IsSeq(rows) /\ RowsTellNewAnswers
      /\ Numbers(text) \cup Numbers(wire) \cup ToldNumbers \subseteq 0..polled
      /\ AllBefore(ToldNumbers, rest) /\ AllBefore(ToldNumbers, Numbers(read))
  BY DEF ElmInv, AllBefore
<1>2. text' = <<>> /\ (rows' = rows \/ rows' = Append(rows, Row(read)))
  BY Zenon DEF EndPoll
<1>3. CASE rows' = rows
  <2>1. RowsTellNewAnswers' /\ ToldNumbers' = ToldNumbers
    BY <1>1, <1>3 DEF RowsTellNewAnswers, ToldNumbers, Told
  <2> QED BY <1>1, <1>2, <1>3, <2>1
<1>4. CASE rows' = Append(rows, Row(read))
  <2> DEFINE row == Row(read)
             last == Len(rows) + 1
  <2>1. /\ IsSeq(rows') /\ Len(rows) \in Nat /\ DOMAIN rows = 1..Len(rows) /\ DOMAIN rows' = 1..last
        /\ \A i \in 1..Len(rows) : rows'[i] = rows[i]
        /\ rows'[last] = row
    BY <1>1, <1>4, AppendSeqs
  <2>2. row.answer # Null => row.answer.n \in Numbers(read) /\ row.answer.pid = row.pid /\ row.n = polled
    BY RowTells
  <2> HIDE DEF row
  <2>3. ASSUME NEW i \in Told'
        PROVE  \/ i \in Told /\ rows'[i] = rows[i]
               \/ i = last /\ rows'[i] = row /\ row.answer # Null
    BY <2>1 DEF Told
  <2>4. ASSUME NEW i \in Told'
        PROVE  rows'[i].answer.pid = rows'[i].pid /\ rows'[i].answer.n <= rows'[i].n
               /\ rows'[i].answer.n \in ToldNumbers \cup Numbers(read)
    <3>1. CASE i \in Told /\ rows'[i] = rows[i]
      BY <1>1, <3>1 DEF RowsTellNewAnswers, Told, ToldNumbers
    <3>2. CASE i = last /\ rows'[i] = row /\ row.answer # Null
      BY <1>1, <2>2, <3>2
    <3> QED BY <2>3, <3>1, <3>2
  <2>5. ASSUME NEW i \in Told', NEW j \in Told', i < j
        PROVE  rows'[i].answer.n < rows'[j].answer.n
    <3>0. i \in 1..last /\ j \in 1..last /\ i # last
      BY <2>1, <2>5 DEF Told
    <3>1. i \in Told /\ rows'[i] = rows[i]
      BY <2>3, <3>0
    <3>2. CASE j \in Told /\ rows'[j] = rows[j]
      BY <1>1, <2>5, <3>1, <3>2 DEF RowsTellNewAnswers, Told
    <3>3. CASE j = last /\ rows'[j] = row /\ row.answer # Null
      BY <1>1, <2>2, <3>1, <3>3 DEF AllBefore, ToldNumbers
    <3> QED BY <2>3, <3>2, <3>3
  <2>6. RowsTellNewAnswers'
    BY <2>4, <2>5 DEF RowsTellNewAnswers, Told
  <2>7. ToldNumbers' \subseteq ToldNumbers \cup Numbers(read)
    BY <2>4 DEF ToldNumbers
  <2>8. AllBefore(ToldNumbers', rest)
    BY <1>1, <2>7 DEF AllBefore
  <2> QED BY <1>1, <1>2, <2>1, <2>6, <2>7, <2>8
<1> QED BY <1>2, <1>3, <1>4

LEMMA EmptyHasNone == Numbers(<<>>) = {} /\ IsSeq(<<>>) /\ InTurn(<<>>)
<1>1. <<>> \in Seq({})
  OBVIOUS
<1>2. DOMAIN <<>> = {}
  OBVIOUS
<1>3. IsSeq(<<>>)
  BY <1>1, SequencesAreSeqs
<1>4. Numbers(<<>>) = {} /\ InTurn(<<>>)
  BY <1>2, Zenon DEF Numbers, InTurn
<1> QED BY <1>3, <1>4

LEMMA AdapterSendsKeeps == ASSUME ElmInv, AdapterSends PROVE ElmInv'
<1>1. /\ sending # <<>> /\ wire' = Append(wire, Head(sending)) /\ sending' = Tail(sending)
      /\ UNCHANGED <<polled, text, rows>>
  BY DEF AdapterSends
<1>2. IsSeq(wire) /\ IsSeq(sending) /\ IsSeq(text) /\ IsSeq(rows) /\ polled \in Nat /\ InTurn(sending)
  BY DEF ElmInv
<1>3. /\ IsSeq(sending') /\ Len(sending) \in Nat \ {0} /\ DOMAIN sending = 1..Len(sending)
      /\ Head(sending) = sending[1] /\ DOMAIN sending' = 1..(Len(sending) - 1)
      /\ \A i \in 1..(Len(sending) - 1) : sending'[i] = sending[i + 1]
  BY <1>1, <1>2, HeadTailSeqs
<1>4. /\ IsSeq(wire') /\ Len(wire) \in Nat /\ DOMAIN wire = 1..Len(wire) /\ DOMAIN wire' = 1..(Len(wire) + 1)
      /\ \A i \in 1..Len(wire) : wire'[i] = wire[i]
      /\ wire'[Len(wire) + 1] = sending[1]
  BY <1>1, <1>2, <1>3, AppendSeqs
<1>5. ASSUME NEW i \in DOMAIN sending', sending'[i].kind = "header"
      PROVE  sending'[i].n \in Numbers(sending) /\ (sending[1].kind = "header" => sending[1].n < sending'[i].n)
  <2>1. i + 1 \in DOMAIN sending /\ 1 \in DOMAIN sending /\ 1 < i + 1 /\ sending'[i] = sending[i + 1]
    BY <1>3
  <2> QED BY <1>2, <1>5, <2>1 DEF Numbers, InTurn
<1>6. Numbers(sending') \subseteq Numbers(sending)
  BY <1>5 DEF Numbers
<1>7. \A n \in Numbers(wire') : n \in Numbers(wire) \/ (sending[1].kind = "header" /\ n = sending[1].n /\ n \in Numbers(sending))
  <2> SUFFICES ASSUME NEW i \in DOMAIN wire', wire'[i].kind = "header"
               PROVE  LET n == wire'[i].n IN
                      n \in Numbers(wire) \/ (sending[1].kind = "header" /\ n = sending[1].n /\ n \in Numbers(sending))
    BY DEF Numbers
  <2>1. CASE i \in 1..Len(wire)
    BY <1>4, <2>1 DEF Numbers
  <2>2. CASE i = Len(wire) + 1
    BY <1>3, <1>4, <2>2 DEF Numbers
  <2> QED BY <1>4, <2>1, <2>2
<1>8. AllBefore(Numbers(wire'), Numbers(sending'))
  <2>1. AllBefore(Numbers(wire), Numbers(sending))
    BY DEF ElmInv
  <2>2. sending[1].kind = "header" => \A n \in Numbers(sending') : sending[1].n < n
    BY <1>5 DEF Numbers
  <2> QED BY <1>6, <1>7, <2>1, <2>2 DEF AllBefore
<1>9. InTurn(sending')
  <2> SUFFICES ASSUME NEW i \in DOMAIN sending', NEW j \in DOMAIN sending', i < j,
                      sending'[i].kind = "header", sending'[j].kind = "header"
               PROVE  sending'[i].n < sending'[j].n
    BY DEF InTurn
  <2>1. i + 1 \in DOMAIN sending /\ j + 1 \in DOMAIN sending /\ i + 1 < j + 1
        /\ sending'[i] = sending[i + 1] /\ sending'[j] = sending[j + 1]
    BY <1>3
  <2> QED BY <1>2, <2>1 DEF InTurn
<1>10. ToldNumbers' = ToldNumbers /\ RowsTellNewAnswers' /\ Numbers(text') = Numbers(text)
  BY <1>1 DEF ElmInv, ToldNumbers, Told, RowsTellNewAnswers
<1>11. Numbers(wire') \subseteq Numbers(wire) \cup Numbers(sending)
  BY <1>7
<1>12. /\ Numbers(text) \cup Numbers(wire) \cup Numbers(sending) \cup ToldNumbers \subseteq 0..polled
       /\ AllBefore(ToldNumbers, Numbers(text) \cup Numbers(wire) \cup Numbers(sending))
       /\ AllBefore(Numbers(text), Numbers(wire) \cup Numbers(sending))
  BY DEF ElmInv
<1>13. /\ AllBefore(ToldNumbers, Numbers(text) \cup Numbers(wire') \cup Numbers(sending'))
       /\ AllBefore(Numbers(text), Numbers(wire') \cup Numbers(sending'))
  BY <1>6, <1>11, <1>12 DEF AllBefore
<1>14. /\ polled' = polled /\ IsSeq(text') /\ IsSeq(rows')
       /\ Numbers(text') = Numbers(text) /\ Numbers(wire)' = Numbers(wire') /\ Numbers(sending)' = Numbers(sending')
       /\ Numbers(text)' = Numbers(text') /\ InTurn(sending)' = InTurn(sending')
  BY <1>1, <1>2 DEF IsSeq, Numbers, InTurn
<1> QED BY <1>1, <1>2, <1>3, <1>4, <1>6, <1>8, <1>9, <1>10, <1>11, <1>12, <1>13, <1>14 DEF ElmInv, AllBefore, IsSeq

\* What is left when an end of a poll has taken what was read.
LEMMA ElmInvAfterPoll ==
  ASSUME ElmInv, polled' = polled, IsSeq(rows'), text' = <<>>, RowsTellNewAnswers',
         ToldNumbers' \subseteq 0..polled, IsSeq(wire'), sending' = sending,
         Numbers(wire') \subseteq Numbers(wire),
         AllBefore(ToldNumbers', Numbers(wire') \cup Numbers(sending))
  PROVE  ElmInv'
<1>1. /\ polled \in Nat /\ IsSeq(sending) /\ InTurn(sending)
      /\ Numbers(wire) \cup Numbers(sending) \subseteq 0..polled
      /\ AllBefore(Numbers(wire), Numbers(sending))
  BY DEF ElmInv
<1>2. Numbers(text') = {} /\ IsSeq(text')
  BY EmptyHasNone
<1>3. /\ AllBefore(ToldNumbers', Numbers(text') \cup Numbers(wire') \cup Numbers(sending'))
      /\ AllBefore(Numbers(text'), Numbers(wire') \cup Numbers(sending'))
      /\ AllBefore(Numbers(wire'), Numbers(sending'))
  BY <1>1, <1>2 DEF AllBefore
<1>4. Numbers(text') \cup Numbers(wire') \cup Numbers(sending') \cup ToldNumbers' \subseteq 0..polled'
  BY <1>1, <1>2
<1>5. IsSeq(sending') /\ InTurn(sending')
  BY <1>1
<1> QED BY <1>1, <1>2, <1>3, <1>4, <1>5 DEF ElmInv, Numbers, IsSeq, AllBefore, InTurn

LEMMA ReadChunkKeeps == ASSUME ElmInv, ReadChunk PROVE ElmInv'
<1> DEFINE read == text \o wire
<1>1. wire' = <<>> /\ UNCHANGED <<polled, sending>>
  BY DEF ReadChunk
<1>2. IsSeq(text) /\ IsSeq(wire) /\ IsSeq(rows) /\ IsSeq(sending) /\ polled \in Nat
  BY DEF ElmInv
<1>3. IsSeq(read) /\ Numbers(read) \subseteq Numbers(text) \cup Numbers(wire)
  BY <1>2, ConcatSeqs, ConcatNumbers
<1>4. Numbers(wire') = {} /\ IsSeq(wire')
  BY <1>1, EmptyHasNone
<1>5. AllBefore(Numbers(read), Numbers(sending))
  BY <1>3 DEF ElmInv, AllBefore
<1>6. CASE Prompt \in Range(wire)
  <2>1. EndPoll(read)
    BY <1>6, Zenon DEF ReadChunk
  <2> HIDE DEF read
  <2>2. /\ IsSeq(rows') /\ text' = <<>> /\ RowsTellNewAnswers'
        /\ ToldNumbers' \subseteq 0..polled /\ AllBefore(ToldNumbers', Numbers(sending))
    BY <1>1, <1>3, <1>5, <2>1, EndPollTells
  <2>3. AllBefore(ToldNumbers', Numbers(wire') \cup Numbers(sending))
    BY <1>4, <2>2
  <2> QED BY <1>1, <1>4, <2>2, <2>3, ElmInvAfterPoll
<1>7. CASE Prompt \notin Range(wire)
  <2>1. text' = read /\ rows' = rows
    BY <1>7, Zenon DEF ReadChunk
  <2> HIDE DEF read
  <2>2. ToldNumbers' = ToldNumbers /\ RowsTellNewAnswers'
    BY <2>1 DEF ElmInv, ToldNumbers, Told, RowsTellNewAnswers
  <2>3. /\ Numbers(text) \cup Numbers(wire) \cup Numbers(sending) \cup ToldNumbers \subseteq 0..polled
        /\ AllBefore(ToldNumbers, Numbers(text) \cup Numbers(wire) \cup Numbers(sending))
        /\ InTurn(sending)
    BY DEF ElmInv
  <2>4. /\ AllBefore(ToldNumbers', Numbers(text') \cup Numbers(wire') \cup Numbers(sending'))
        /\ AllBefore(Numbers(text'), Numbers(wire') \cup Numbers(sending'))
        /\ AllBefore(Numbers(wire'), Numbers(sending'))
        /\ Numbers(text') \cup Numbers(wire') \cup Numbers(sending') \cup ToldNumbers' \subseteq 0..polled'
    BY <1>1, <1>3, <1>4, <1>5, <2>1, <2>2, <2>3 DEF AllBefore
  <2>5. IsSeq(text') /\ IsSeq(sending') /\ InTurn(sending') /\ IsSeq(rows')
    BY <1>1, <1>2, <1>3, <2>1, <2>3
  <2> QED BY <1>1, <1>2, <1>4, <2>2, <2>4, <2>5 DEF ElmInv, Numbers, IsSeq, AllBefore, InTurn
<1> QED BY <1>6, <1>7

\* A poll that ends without what has arrived.
LEMMA PollEndsKeeps ==
  ASSUME ElmInv, NEW read, read \in {text, <<>>}, EndPoll(read), UNCHANGED <<polled, wire, sending>>
  PROVE  ElmInv'
<1>1. IsSeq(read) /\ Numbers(read) \subseteq Numbers(text)
  BY EmptyHasNone DEF ElmInv
<1>2. AllBefore(Numbers(read), Numbers(wire) \cup Numbers(sending))
  BY <1>1 DEF ElmInv, AllBefore
<1>3. /\ IsSeq(rows') /\ text' = <<>> /\ RowsTellNewAnswers'
      /\ ToldNumbers' \subseteq 0..polled /\ AllBefore(ToldNumbers', Numbers(wire) \cup Numbers(sending))
  <2> DEFINE rest == Numbers(wire) \cup Numbers(sending)
  <2>1. Numbers(read) \subseteq Numbers(text) \cup Numbers(wire) /\ rest \subseteq Numbers(wire) \cup Numbers(sending)
    BY <1>1
  <2>2. AllBefore(Numbers(read), rest)
    BY <1>2
  <2> HIDE DEF rest
  <2>3. /\ IsSeq(rows') /\ text' = <<>> /\ RowsTellNewAnswers'
        /\ ToldNumbers' \subseteq 0..polled /\ AllBefore(ToldNumbers', rest)
    BY <1>1, <2>1, <2>2, EndPollTells
  <2> QED BY <2>3 DEF rest
<1>4. IsSeq(wire')
  BY DEF ElmInv
<1> QED BY <1>3, <1>4, ElmInvAfterPoll

LEMMA UnpluggedKeeps == ASSUME ElmInv, Unplugged PROVE ElmInv'
<1>1. wire' = <<>> /\ sending' = <<>> /\ UNCHANGED <<polled, text, rows>>
  BY DEF Unplugged
<1>2. Numbers(wire') = {} /\ Numbers(sending') = {} /\ IsSeq(wire') /\ IsSeq(sending') /\ InTurn(sending')
  BY <1>1, EmptyHasNone
<1>3. ToldNumbers' = ToldNumbers /\ RowsTellNewAnswers' /\ Numbers(text') = Numbers(text)
  BY <1>1 DEF ElmInv, ToldNumbers, Told, RowsTellNewAnswers
<1>4. /\ Numbers(text) \cup ToldNumbers \subseteq 0..polled /\ AllBefore(ToldNumbers, Numbers(text))
      /\ polled' \in Nat /\ IsSeq(text') /\ IsSeq(rows')
  BY <1>1 DEF ElmInv, AllBefore
<1>5. /\ AllBefore(ToldNumbers', Numbers(text') \cup Numbers(wire') \cup Numbers(sending'))
      /\ AllBefore(Numbers(text'), Numbers(wire') \cup Numbers(sending'))
      /\ AllBefore(Numbers(wire'), Numbers(sending'))
      /\ Numbers(text') \cup Numbers(wire') \cup Numbers(sending') \cup ToldNumbers' \subseteq 0..polled'
  BY <1>1, <1>2, <1>3, <1>4 DEF AllBefore
<1> QED BY <1>2, <1>3, <1>4, <1>5 DEF ElmInv, Numbers, IsSeq, AllBefore, InTurn

LEMMA SendKeeps == ASSUME ElmInv, Send PROVE ElmInv'
<1>1. /\ polled' = polled + 1 /\ UNCHANGED <<text, rows, wire>>
      /\ sending' = sending \/ \E pid : sending' \in Replies(pid, polled + 1)
  BY Zenon DEF Send
<1>2. IsSeq(sending') /\ InTurn(sending') /\ Numbers(sending') \subseteq Numbers(sending) \cup {polled + 1}
  BY <1>1, RepliesInTurn DEF ElmInv
<1>3. ToldNumbers' = ToldNumbers /\ RowsTellNewAnswers' /\ Numbers(text') = Numbers(text) /\ Numbers(wire') = Numbers(wire)
  BY <1>1 DEF ElmInv, ToldNumbers, Told, RowsTellNewAnswers
<1>4. /\ Numbers(text) \cup Numbers(wire) \cup Numbers(sending) \cup ToldNumbers \subseteq 0..polled
      /\ AllBefore(ToldNumbers, Numbers(text) \cup Numbers(wire) \cup Numbers(sending))
      /\ AllBefore(Numbers(text), Numbers(wire) \cup Numbers(sending))
      /\ AllBefore(Numbers(wire), Numbers(sending)) /\ polled \in Nat
  BY DEF ElmInv
<1>5. polled' \in Nat /\ IsSeq(text') /\ IsSeq(rows') /\ IsSeq(wire')
  BY <1>1, <1>4 DEF ElmInv
<1>6. /\ AllBefore(ToldNumbers', Numbers(text') \cup Numbers(wire') \cup Numbers(sending'))
      /\ AllBefore(Numbers(text'), Numbers(wire') \cup Numbers(sending'))
      /\ AllBefore(Numbers(wire'), Numbers(sending'))
  BY <1>2, <1>3, <1>4 DEF AllBefore
<1>7. Numbers(text') \cup Numbers(wire') \cup Numbers(sending') \cup ToldNumbers' \subseteq 0..polled'
  BY <1>1, <1>2, <1>3, <1>4
<1> QED BY <1>2, <1>3, <1>5, <1>6, <1>7 DEF ElmInv, Numbers, IsSeq, AllBefore, InTurn

LEMMA QuietKeeps == ASSUME ElmInv, UNCHANGED <<polled, text, wire, sending, rows>> PROVE ElmInv'
  BY DEF ElmInv, Numbers, IsSeq, AllBefore, InTurn, ToldNumbers, Told, RowsTellNewAnswers

LEMMA ElmStepKeeps == ElmInv /\ [ElmNext]_elmVars => ElmInv'
<1> SUFFICES ASSUME ElmInv, [ElmNext]_elmVars PROVE ElmInv'
  OBVIOUS
<1>1. CASE AdapterSends \/ Unplugged \/ Send \/ ReadChunk
  BY <1>1, AdapterSendsKeeps, UnpluggedKeeps, SendKeeps, ReadChunkKeeps
<1>2. CASE TimesOut
  BY <1>2, PollEndsKeeps DEF TimesOut
<1>3. CASE ReadFails
  <2>1. UNCHANGED <<polled, wire, sending>> /\ (EndPoll(<<>>) \/ UNCHANGED <<text, rows>>)
    BY <1>3, Zenon DEF ReadFails
  <2> QED BY <2>1, PollEndsKeeps, QuietKeeps
<1>4. CASE DurationPasses \/ CaptureStops \/ UNCHANGED elmVars
  BY <1>4, QuietKeeps DEF DurationPasses, CaptureStops, elmVars
<1> QED BY <1>1, <1>2, <1>3, <1>4 DEF ElmNext

\* However late the adapter is, a row of the log (elm327.py) tells the answer to
\* its own PID, and no answer is logged twice or out of order.
THEOREM AnswersAreNew == ElmSpec => []RowsTellNewAnswers
<1>1. ElmInit => ElmInv
  <2> SUFFICES ASSUME ElmInit PROVE ElmInv
    OBVIOUS
  <2>1. polled = 0 /\ rows = <<>> /\ text = <<>> /\ wire = <<>> /\ sending = <<>>
    BY DEF ElmInit
  <2>2. Told = {} /\ ToldNumbers = {}
    BY <2>1 DEF Told, ToldNumbers
  <2>3. RowsTellNewAnswers
    BY <2>2 DEF RowsTellNewAnswers, Told
  <2> QED BY <2>1, <2>2, <2>3, EmptyHasNone DEF ElmInv, AllBefore
<1>2. ElmInv => RowsTellNewAnswers
  BY DEF ElmInv
<1> QED BY <1>1, <1>2, ElmStepKeeps, PTL DEF ElmSpec

-----------------------------------------------------------------------------
(* The replay: numbers                                                     *)

\* A quotient grows with what is divided.
LEMMA QuotientGrows ==
  ASSUME NEW a \in Int, NEW b \in Int, a <= b, NEW m \in Nat \ {0}
  PROVE  a \div m \in Int /\ b \div m \in Int /\ a \div m <= b \div m
<1> DEFINE p == a \div m
           q == b \div m
<1>1. p \in Int /\ q \in Int /\ m * p <= a /\ b < m * q + m
  OBVIOUS
<1> HIDE DEF p, q
<1>2. m * p < m * q + m
  BY <1>1
<1>3. CASE p > q
  <2>1. p - q - 1 \in Nat
    BY <1>1, <1>3
  <2>2. m * (p - q - 1) >= 0
    BY <2>1
  <2>3. m * (p - q - 1) = m * p - m * q - m
    BY <1>1
  <2> QED BY <1>1, <1>2, <2>2, <2>3
<1> QED BY <1>1, <1>3 DEF p, q

\* A rounded quotient is a number and grows with what is divided.
LEMMA RoundedGrows ==
  ASSUME NEW a \in Int, NEW b \in Int, a <= b, NEW m \in Nat \ {0}
  PROVE  Rounded(a, m) \in Int /\ Rounded(b, m) \in Int /\ Rounded(a, m) <= Rounded(b, m)
<1>1. 2 * a + m \in Int /\ 2 * b + m \in Int /\ 2 * a + m <= 2 * b + m /\ 2 * m \in Nat \ {0}
  OBVIOUS
<1> QED BY <1>1, QuotientGrows DEF Rounded

\* A share grows with what there is.
LEMMA ShareGrows ==
  ASSUME NEW a \in Int, NEW b \in Int, a <= b, NEW enough \in Nat \ {0}
  PROVE  Share(a, enough) \in Int /\ Share(b, enough) \in Int /\ Share(a, enough) <= Share(b, enough)
<1>1. /\ (1000 * a) \div enough \in Int /\ (1000 * b) \div enough \in Int
      /\ (1000 * a) \div enough <= (1000 * b) \div enough
  BY QuotientGrows
<1>2. a < enough => (1000 * a) \div enough <= 1000
  <2>1. SUFFICES ASSUME a < enough PROVE (1000 * a) \div enough <= (1000 * enough) \div enough
    <3>1. (1000 * enough) \div enough = 1000
      OBVIOUS
    <3> QED BY <3>1
  <2> QED BY <2>1, QuotientGrows
<1> QED BY <1>1, <1>2 DEF Share

-----------------------------------------------------------------------------
(* Severities                                                              *)

Severities == {"ok", "info", "warning", "error"}

\* The worst severity is one of those there are, and none is worse.
LEMMA WorstIsWorst ==
  ASSUME NEW findings, \A f \in findings : f.severity \in Severities, NEW fallback \in Severities
  PROVE  LET worst == WorstSeverity(findings, fallback)
         IN  /\ worst \in {f.severity : f \in findings} \cup {fallback}
             /\ \A s \in {f.severity : f \in findings} \cup {fallback} :
                  SeverityOrder[worst] >= SeverityOrder[s]
<1> DEFINE all == {f.severity : f \in findings} \cup {fallback}
<1>1. all \subseteq Severities /\ fallback \in all
  OBVIOUS
<1> HIDE DEF all
<1>2. \E s \in all : \A x \in all : SeverityOrder[s] >= SeverityOrder[x]
  <2>1. CASE "error" \in all
    BY <1>1, <2>1 DEF Severities, SeverityOrder
  <2>2. CASE "error" \notin all /\ "warning" \in all
    BY <1>1, <2>2 DEF Severities, SeverityOrder
  <2>3. CASE "error" \notin all /\ "warning" \notin all /\ "info" \in all
    BY <1>1, <2>3 DEF Severities, SeverityOrder
  <2>4. CASE "error" \notin all /\ "warning" \notin all /\ "info" \notin all
    BY <1>1, <2>4 DEF Severities, SeverityOrder
  <2> QED BY <2>1, <2>2, <2>3, <2>4
<1>3. WorstSeverity(findings, fallback) =
        CHOOSE s \in all : \A x \in all : SeverityOrder[s] >= SeverityOrder[x]
  BY DEF WorstSeverity, all
<1> QED BY <1>2, <1>3 DEF all

\* There are gravest findings of every number up to all of them.
LEMMA GravestExist ==
  ASSUME NEW findings, IsFiniteSet(findings),
         \A f \in findings : f.severity \in Severities /\ f.confidence \in Int
  PROVE  \A n \in Nat : n <= Cardinality(findings) =>
           \E some \in SUBSET findings : /\ Cardinality(some) = n
                                         /\ \A f \in some, g \in findings \ some : ~Graver(g, f)
<1> DEFINE Gravest(A) == \A f \in A, g \in findings \ A : ~Graver(g, f)
           Good == {n \in Nat : n <= Cardinality(findings) =>
                      \E A \in SUBSET findings : Cardinality(A) = n /\ Gravest(A)}
<1>1. 0 \in Good
  BY FS_EmptySet
<1>2. ASSUME NEW n \in Nat, n \in Good PROVE n + 1 \in Good
  <2> SUFFICES ASSUME n + 1 <= Cardinality(findings)
               PROVE  \E A \in SUBSET findings : Cardinality(A) = n + 1 /\ Gravest(A)
    OBVIOUS
  <2>1. Cardinality(findings) \in Nat
    BY FS_CardinalityType
  <2>2. PICK A \in SUBSET findings : Cardinality(A) = n /\ Gravest(A)
    BY <1>2, <2>1
  <2> DEFINE rest == findings \ A
             Rank(f) == SeverityOrder[f.severity]
  <2>3. IsFiniteSet(A) /\ IsFiniteSet(rest) /\ rest # {}
    BY <2>1, <2>2, FS_Subset
  <2>4. \A f \in findings : Rank(f) \in 0..3 /\ f.confidence \in Int
    BY DEF Severities, SeverityOrder
  <2>5. PICK r \in {Rank(f) : f \in rest} : \A x \in {Rank(f) : f \in rest} : r >= x
    <3>1. {Rank(f) : f \in rest} \in SUBSET Int /\ {Rank(f) : f \in rest} # {}
      BY <2>3, <2>4
    <3>2. IsFiniteSet({Rank(f) : f \in rest})
      <4> DEFINE rank == [f \in rest |-> Rank(f)]
      <4>1. {Rank(f) : f \in rest} = {rank[f] : f \in rest}
        OBVIOUS
      <4> HIDE DEF Rank, rest, rank
      <4> QED BY <2>3, <4>1, FiniteImage
    <3> HIDE DEF Rank, rest
    <3> QED BY <3>1, <3>2, Extremes
  <2> DEFINE top == {f \in rest : Rank(f) = r}
  <2>6. PICK c \in {f.confidence : f \in top} : \A x \in {f.confidence : f \in top} : c >= x
    <3>1. {f.confidence : f \in top} \in SUBSET Int /\ {f.confidence : f \in top} # {}
      BY <2>4, <2>5
    <3>2. IsFiniteSet(top)
      BY <2>3, FS_Subset
    <3>3. IsFiniteSet({f.confidence : f \in top})
      <4> DEFINE sure == [f \in top |-> f.confidence]
      <4>1. {f.confidence : f \in top} = {sure[f] : f \in top}
        OBVIOUS
      <4> HIDE DEF top, sure
      <4>2. IsFiniteSet({sure[f] : f \in top})
        BY <3>2, FiniteImage
      <4> QED BY <4>1, <4>2, Zenon
    <3> HIDE DEF top
    <3> QED BY <3>1, <3>3, Extremes
  <2>7. PICK h \in top : h.confidence = c
    BY <2>6
  <2>8. \A g \in rest : ~Graver(g, h)
    <3> SUFFICES ASSUME NEW g \in rest, Graver(g, h) PROVE FALSE
      OBVIOUS
    <3>1. Rank(g) <= r /\ Rank(h) = r /\ r \in Int /\ Rank(g) \in Int
      BY <2>4, <2>5, <2>7
    <3>2. g.severity = h.severity /\ g.confidence > h.confidence
      BY <3>1 DEF Graver
    <3>3. g \in top
      BY <3>1, <3>2
    <3>4. c >= g.confidence
      <4> HIDE DEF top
      <4> QED BY <2>6, <3>3
    <3>5. g \in findings /\ h \in findings
      BY <2>7
    <3> QED BY <2>4, <2>7, <3>2, <3>4, <3>5
  <2>9. h \in rest /\ Cardinality(A \cup {h}) = n + 1
    BY <2>2, <2>3, FS_AddElement
  <2>10. Gravest(A \cup {h})
    BY <2>2, <2>8
  <2> HIDE DEF Gravest
  <2> QED BY <2>9, <2>10
<1> HIDE DEF Good
<1>3. \A n \in Nat : n \in Good
  BY <1>1, <1>2, NatInductionOnSets
<1> QED BY <1>3 DEF Good

\* A status carries findings of the frame only.
LEMMA CarriedAreFound ==
  ASSUME NEW findings, IsFiniteSet(findings),
         \A f \in findings : f.severity \in Severities /\ f.confidence \in Int
  PROVE  ActiveFindings(findings) \subseteq findings
<1>1. Carried(findings) \in Nat /\ Carried(findings) <= Cardinality(findings)
  <2>1. Cardinality(findings) \in Nat /\ MaxActiveFindings \in Nat
    BY FS_CardinalityType, StatusAssumption
  <2> QED BY <2>1, LesserAndGreater DEF Carried
<1>2. \E some \in SUBSET findings :
        /\ Cardinality(some) = Carried(findings)
        /\ \A f \in some, g \in findings \ some : ~Graver(g, f)
  BY <1>1, GravestExist
<1> QED BY <1>2, Zenon DEF ActiveFindings

-----------------------------------------------------------------------------
(* The verdict                                                             *)

\* When a verdict speaks well of the vehicle.
LEMMA GoodVerdict ==
  ASSUME NEW e
  PROVE  VerdictOk(e) <=>
           /\ Worst(e) \notin {"warning", "error"}
           /\ ~e.quality.linkStale /\ FALSE \notin Configured(e.quality)
           /\ ~(CoverageScore(e.coverage) < 450) /\ ~(Confidence(e) < 550)
           /\ ~(ModelApplicability(e) < 450)
           /\ ~NotReady(e.baseline) /\ ~NotReady(e.transition)
<1>1. VerdictOk(e) <=> AbstainReasons(e) = {} /\ Worst(e) \notin {"warning", "error"}
  BY DEF VerdictOk, Verdict
<1> HIDE DEF Worst, Configured, CoverageScore, Confidence, ModelApplicability, NotReady
<1>2. AbstainReasons(e) = {} /\ Worst(e) \notin {"warning", "error"} <=>
           /\ Worst(e) \notin {"warning", "error"}
           /\ ~e.quality.linkStale /\ FALSE \notin Configured(e.quality)
           /\ ~(CoverageScore(e.coverage) < 450) /\ ~(Confidence(e) < 550)
           /\ ~(ModelApplicability(e) < 450)
           /\ ~NotReady(e.baseline) /\ ~NotReady(e.transition)
  <2> DEFINE strong == Worst(e) \in {"warning", "error"}
             Holds(r) ==
               \/ r = "health_stale" /\ e.quality.linkStale
               \/ r = "capture_degraded" /\ FALSE \in Configured(e.quality)
               \/ /\ ~strong
                  /\ \/ r = "coverage_too_low" /\ CoverageScore(e.coverage) < 450
                     \/ r = "confidence_too_low" /\ Confidence(e) < 550
                     \/ r = "vehicle_profile_unknown" /\ ModelApplicability(e) < 450
                     \/ r = "baseline_not_ready" /\ NotReady(e.baseline)
                     \/ r = "transition_baseline_not_ready" /\ NotReady(e.transition)
             all == {"health_stale", "capture_degraded", "coverage_too_low", "confidence_too_low",
                     "vehicle_profile_unknown", "baseline_not_ready", "transition_baseline_not_ready"}
  <2>1. AbstainReasons(e) = {r \in all : Holds(r)}
    BY Zenon DEF AbstainReasons
  <2>2. /\ Holds("health_stale") <=> e.quality.linkStale
        /\ Holds("capture_degraded") <=> FALSE \in Configured(e.quality)
        /\ ~strong => /\ Holds("coverage_too_low") <=> CoverageScore(e.coverage) < 450
                      /\ Holds("confidence_too_low") <=> Confidence(e) < 550
                      /\ Holds("vehicle_profile_unknown") <=> ModelApplicability(e) < 450
                      /\ Holds("baseline_not_ready") <=> NotReady(e.baseline)
                      /\ Holds("transition_baseline_not_ready") <=> NotReady(e.transition)
    <3> HIDE DEF strong
    <3> QED OBVIOUS
  <2> HIDE DEF Holds
  <2>3. (\A r \in all : ~Holds(r)) <=>
          /\ ~Holds("health_stale") /\ ~Holds("capture_degraded") /\ ~Holds("coverage_too_low")
          /\ ~Holds("confidence_too_low") /\ ~Holds("vehicle_profile_unknown")
          /\ ~Holds("baseline_not_ready") /\ ~Holds("transition_baseline_not_ready")
    OBVIOUS
  <2>4. {r \in all : Holds(r)} = {} <=> \A r \in all : ~Holds(r)
    OBVIOUS
  <2>5. AbstainReasons(e) = {} /\ ~strong <=> ~strong /\ \A r \in all : ~Holds(r)
    BY <2>1, <2>4, Zenon
  <2> QED BY <2>2, <2>3, <2>5, ZenonT(60)
<1> QED BY <1>1, <1>2

Sources == {"gpsOk", "canOk", "serialOk"}

\* Evidence that can be scored, and evidence that is at most as strong as other.
IsEvidence(e) ==
  /\ IsFiniteSet(e.coverage.contexts) /\ e.coverage.frames \in Int /\ e.coverage.duration \in Int
  /\ \A m \in {e.baseline, e.transition} : m.ready \in Nat /\ m.models \in Int
NoMoreThan(w, e) ==
  /\ w.quality = e.quality /\ w.severity = e.severity /\ w.active = e.active
  /\ w.profileKnown = e.profileKnown
  /\ w.coverage.contexts \subseteq e.coverage.contexts
  /\ w.coverage.frames <= e.coverage.frames /\ w.coverage.duration = e.coverage.duration
  /\ \A s \in Sources : w.coverage.seen[s] \in {e.coverage.seen[s], e.coverage.seen[s] \cup {FALSE}}
  /\ w.baseline.enabled = e.baseline.enabled /\ w.baseline.models = e.baseline.models
  /\ w.baseline.ready <= e.baseline.ready
  /\ w.transition.enabled = e.transition.enabled /\ w.transition.models = e.transition.models
  /\ w.transition.ready <= e.transition.ready

\* A source that was lost for some frames scores no better.
LEMMA LostSourceScoresLess ==
  ASSUME NEW seen, NEW lost \in {seen, seen \cup {FALSE}}
  PROVE  /\ SourceScore[SourceStatus(seen)] \in Int /\ SourceScore[SourceStatus(lost)] \in Int
         /\ SourceScore[SourceStatus(lost)] <= SourceScore[SourceStatus(seen)]
<1> DEFINE known == seen \ {Null}
           told == lost \ {Null}
<1>1. told \in {known, known \cup {FALSE}}
  BY FrameAssumption
<1> HIDE DEF known, told
<1> DEFINE Grade(k) == CASE k = {} -> "not_used" [] k = {TRUE} -> "good" [] k = {FALSE} -> "degraded"
                         [] OTHER -> "partial"
<1>2. SourceStatus(seen) = Grade(known) /\ SourceStatus(lost) = Grade(told)
  BY DEF SourceStatus, known, told
<1>3. \A k : /\ k = {} => Grade(k) = "not_used"
             /\ k = {TRUE} => Grade(k) = "good"
             /\ k = {FALSE} => Grade(k) = "degraded"
             /\ k # {} /\ k # {TRUE} /\ k # {FALSE} => Grade(k) = "partial"
  OBVIOUS
<1> HIDE DEF Grade
<1>4. /\ SourceScore["good"] = 1000 /\ SourceScore["partial"] = 600
      /\ SourceScore["degraded"] = 200 /\ SourceScore["not_used"] = 500
  BY DEF SourceScore
<1>5. CASE known = {}
  <2>1. told = {} \/ told = {FALSE}
    BY <1>1, <1>5
  <2>2. SourceStatus(seen) = "not_used" /\ SourceStatus(lost) \in {"not_used", "degraded"}
    BY <1>2, <1>3, <1>5, <2>1, Zenon
  <2> QED BY <1>4, <2>2
<1>6. CASE known = {TRUE}
  <2>1. told = {TRUE} \/ (told # {} /\ told # {TRUE} /\ told # {FALSE})
    BY <1>1, <1>6
  <2>2. SourceStatus(seen) = "good" /\ SourceStatus(lost) \in {"good", "partial"}
    BY <1>2, <1>3, <1>6, <2>1, Zenon
  <2> QED BY <1>4, <2>2
<1>7. CASE known = {FALSE}
  <2>1. told = {FALSE}
    BY <1>1, <1>7
  <2>2. SourceStatus(seen) = "degraded" /\ SourceStatus(lost) \in {"degraded"}
    BY <1>2, <1>3, <1>7, <2>1, Zenon
  <2> QED BY <1>4, <2>2
<1>8. CASE known # {} /\ known # {TRUE} /\ known # {FALSE}
  <2>1. told # {} /\ told # {TRUE} /\ told # {FALSE}
    BY <1>1, <1>8
  <2>2. SourceStatus(seen) = "partial" /\ SourceStatus(lost) \in {"partial"}
    BY <1>2, <1>3, <1>8, <2>1, Zenon
  <2> QED BY <1>4, <2>2
<1> QED BY <1>5, <1>6, <1>7, <1>8

\* Less seen, less covered.
LEMMA LessIsCoveredLess ==
  ASSUME NEW e, NEW w, IsEvidence(e), IsEvidence(w), NoMoreThan(w, e)
  PROVE  /\ CoverageScore(e.coverage) \in Int /\ CoverageScore(w.coverage) \in Int
         /\ CoverageScore(w.coverage) <= CoverageScore(e.coverage)
         /\ CoverageConfidence(e.coverage) \in Int /\ CoverageConfidence(w.coverage) \in Int
         /\ CoverageConfidence(w.coverage) <= CoverageConfidence(e.coverage)
<1> DEFINE c == e.coverage
           d == w.coverage
           Score(x, s) == SourceScore[SourceStatus(x.seen[s])]
           Contexts(x) == Share(Cardinality(x.contexts), Cardinality(ExpectedContexts))
           Length(x) == Max({Share(x.frames, EnoughFrames), Share(x.duration, EnoughDuration)})
<1>1. SourceCoverage(c) \in Int /\ SourceCoverage(d) \in Int /\ SourceCoverage(d) <= SourceCoverage(c)
  <2>1. \A s \in Sources : Score(c, s) \in Int /\ Score(d, s) \in Int /\ Score(d, s) <= Score(c, s)
    <3> TAKE s \in Sources
    <3>1. d.seen[s] \in {c.seen[s], c.seen[s] \cup {FALSE}}
      BY DEF NoMoreThan
    <3> QED BY <3>1, LostSourceScoresLess
  <2> DEFINE Total(x) == Score(x, "gpsOk") + Score(x, "canOk") + Score(x, "serialOk")
  <2>2. Total(c) \in Int /\ Total(d) \in Int /\ Total(d) <= Total(c)
    <3> HIDE DEF Score
    <3> QED BY <2>1 DEF Sources
  <2>3. SourceCoverage(c) = Rounded(Total(c), 3) /\ SourceCoverage(d) = Rounded(Total(d), 3)
    BY DEF SourceCoverage
  <2> HIDE DEF Total
  <2> QED BY <2>2, <2>3, RoundedGrows
<1>2. Contexts(c) \in Int /\ Contexts(d) \in Int /\ Contexts(d) <= Contexts(c)
  <2>1. Cardinality(ExpectedContexts) \in Nat \ {0}
    BY VerdictAssumption, FS_EmptySet, FS_CardinalityType
  <2>2. /\ Cardinality(c.contexts) \in Int /\ Cardinality(d.contexts) \in Int
        /\ Cardinality(d.contexts) <= Cardinality(c.contexts)
    BY FS_CardinalityType, FS_Subset DEF NoMoreThan, IsEvidence
  <2> QED BY <2>1, <2>2, ShareGrows
<1>3. Length(c) \in Int /\ Length(d) \in Int /\ Length(d) <= Length(c)
  <2> DEFINE sf(x) == Share(x.frames, EnoughFrames)
             sd(x) == Share(x.duration, EnoughDuration)
  <2>1. sf(c) \in Int /\ sf(d) \in Int /\ sf(d) <= sf(c)
    BY ShareGrows, VerdictAssumption DEF IsEvidence, NoMoreThan
  <2>2. sd(c) \in Int /\ sd(d) = sd(c)
    BY ShareGrows, VerdictAssumption DEF IsEvidence, NoMoreThan
  <2>3. Length(c) = Max({sf(c), sd(c)}) /\ Length(d) = Max({sf(d), sd(d)})
    OBVIOUS
  <2> HIDE DEF sf, sd, Length
  <2> QED BY <2>1, <2>2, <2>3, LesserAndGreater
<1>4. \A x : RawCoverage(x) = 45 * Contexts(x) + 35 * Length(x) + 20 * SourceCoverage(x)
  BY DEF RawCoverage
<1> HIDE DEF Contexts, Length, c, d
<1>5. RawCoverage(c) \in Int /\ RawCoverage(d) \in Int /\ RawCoverage(d) <= RawCoverage(c)
  BY <1>1, <1>2, <1>3, <1>4
<1>6. CoverageScore(c) \in Int /\ CoverageScore(d) \in Int /\ CoverageScore(d) <= CoverageScore(c)
  BY <1>5, RoundedGrows DEF CoverageScore
<1>7. /\ CoverageConfidence(c) \in Int /\ CoverageConfidence(d) \in Int
      /\ CoverageConfidence(d) <= CoverageConfidence(c)
  <2> DEFINE n(x) == 7 * RawCoverage(x) + 300 * SourceCoverage(x)
  <2>1. n(c) \in Int /\ n(d) \in Int /\ n(d) <= n(c)
    BY <1>1, <1>5
  <2>2. CoverageConfidence(c) = Rounded(n(c), 1000) /\ CoverageConfidence(d) = Rounded(n(d), 1000)
    BY DEF CoverageConfidence
  <2> HIDE DEF n
  <2> QED BY <2>1, <2>2, RoundedGrows
<1> QED BY <1>6, <1>7 DEF c, d

\* Fewer models ready apply less.
LEMMA FewerModelsApplyLess ==
  ASSUME NEW e, NEW w, IsEvidence(e), IsEvidence(w), NoMoreThan(w, e)
  PROVE  /\ ModelApplicability(e) \in Int /\ ModelApplicability(w) \in Int
         /\ ModelApplicability(w) <= ModelApplicability(e)
<1> DEFINE Known(x) == IF x.profileKnown THEN 10000 ELSE 0
           Baseline(x) == (12000 * x.baseline.ready) \div Max({x.baseline.models, 1})
           Transition(x) == (8000 * x.transition.ready) \div Max({x.transition.models, 1})
           Sum(x) == 70000 + Known(x) + Baseline(x) + Transition(x)
<1>1. \A m \in Int : Max({m, 1}) \in Nat \ {0}
  BY LesserAndGreater
<1>2. Baseline(e) \in Int /\ Baseline(w) \in Int /\ Baseline(w) <= Baseline(e)
  <2>1. /\ e.baseline.ready \in Nat /\ w.baseline.ready \in Nat /\ w.baseline.ready <= e.baseline.ready
        /\ w.baseline.models = e.baseline.models /\ e.baseline.models \in Int
    BY DEF IsEvidence, NoMoreThan
  <2>2. PICK m \in Nat \ {0} : m = Max({e.baseline.models, 1})
    BY <1>1, <2>1
  <2>3. 12000 * e.baseline.ready \in Int /\ 12000 * w.baseline.ready \in Int
        /\ 12000 * w.baseline.ready <= 12000 * e.baseline.ready
    BY <2>1
  <2> QED BY <2>1, <2>2, <2>3, QuotientGrows
<1>3. Transition(e) \in Int /\ Transition(w) \in Int /\ Transition(w) <= Transition(e)
  <2>1. /\ e.transition.ready \in Nat /\ w.transition.ready \in Nat
        /\ w.transition.ready <= e.transition.ready
        /\ w.transition.models = e.transition.models /\ e.transition.models \in Int
    BY DEF IsEvidence, NoMoreThan
  <2>2. PICK m \in Nat \ {0} : m = Max({e.transition.models, 1})
    BY <1>1, <2>1
  <2>3. 8000 * e.transition.ready \in Int /\ 8000 * w.transition.ready \in Int
        /\ 8000 * w.transition.ready <= 8000 * e.transition.ready
    BY <2>1
  <2> QED BY <2>1, <2>2, <2>3, QuotientGrows
<1>4. Known(e) \in Int /\ Known(w) = Known(e)
  BY DEF NoMoreThan
<1> HIDE DEF Known, Baseline, Transition
<1>5. Sum(e) \in Int /\ Sum(w) \in Int /\ Sum(w) <= Sum(e)
  BY <1>2, <1>3, <1>4
<1>6. ModelApplicability(e) = Rounded(Sum(e), 100) /\ ModelApplicability(w) = Rounded(Sum(w), 100)
  BY DEF ModelApplicability, Known, Baseline, Transition
<1> HIDE DEF Sum
<1> QED BY <1>5, <1>6, RoundedGrows

\* What counts against weaker evidence is at least what counts against stronger.
LEMMA PenaltiesGrow ==
  ASSUME NEW e, NEW w, IsEvidence(e), IsEvidence(w), NoMoreThan(w, e)
  PROVE  Penalties(e) \in Int /\ Penalties(w) \in Int /\ Penalties(w) >= Penalties(e)
<1> DEFINE s(x) == CoverageScore(x.coverage)
           Cover(x) == PenaltyIf(s(x) < 450, 180) + PenaltyIf(s(x) \in 450..699, 80)
           Reported(x) == PenaltyIf(x.quality.linkStale, 250)
                        + PenaltyIf(FALSE \in Configured(x.quality), 120)
                        + PenaltyIf(~x.profileKnown, 60)
           Models(x) == PenaltyIf(NotReady(x.baseline), 80) + PenaltyIf(NotReady(x.transition), 60)
           Missed(x) == PenaltyIf("cold_start" \in MissingContexts(x.coverage), 50)
                          + PenaltyIf("heavy_load" \in MissingContexts(x.coverage), 40)
<1>1. Cover(e) \in Int /\ Cover(w) \in Int /\ Cover(w) >= Cover(e)
  <2>1. s(e) \in Int /\ s(w) \in Int /\ s(w) <= s(e)
    BY LessIsCoveredLess
  <2> HIDE DEF s
  <2> QED BY <2>1 DEF PenaltyIf
<1>2. Reported(e) \in Int /\ Reported(w) = Reported(e)
  <2>1. w.quality = e.quality /\ w.profileKnown = e.profileKnown
    BY DEF NoMoreThan
  <2> QED BY <2>1 DEF PenaltyIf
<1>3. Models(e) \in Int /\ Models(w) \in Int /\ Models(w) >= Models(e)
  <2>1. (NotReady(e.baseline) => NotReady(w.baseline)) /\ (NotReady(e.transition) => NotReady(w.transition))
    BY DEF NotReady, NoMoreThan, IsEvidence
  <2> QED BY <2>1 DEF PenaltyIf
<1>4. Missed(e) \in Int /\ Missed(w) \in Int /\ Missed(w) >= Missed(e)
  <2>1. MissingContexts(e.coverage) \subseteq MissingContexts(w.coverage)
    BY DEF MissingContexts, NoMoreThan
  <2> QED BY <2>1 DEF PenaltyIf
<1>5. \A x : Penalties(x) = Reported(x) + Models(x) + Cover(x) + Missed(x)
  <2> TAKE x
  <2> DEFINE p1 == PenaltyIf(x.quality.linkStale, 250)
             p2 == PenaltyIf(FALSE \in Configured(x.quality), 120)
             p3 == PenaltyIf(~x.profileKnown, 60)
             p4 == PenaltyIf(NotReady(x.baseline), 80)
             p5 == PenaltyIf(NotReady(x.transition), 60)
             p6 == PenaltyIf(s(x) < 450, 180)
             p7 == PenaltyIf(s(x) \in 450..699, 80)
             p8 == PenaltyIf("cold_start" \in MissingContexts(x.coverage), 50)
             p9 == PenaltyIf("heavy_load" \in MissingContexts(x.coverage), 40)
  <2>1. /\ p1 \in Int /\ p2 \in Int /\ p3 \in Int /\ p4 \in Int /\ p5 \in Int
        /\ p6 \in Int /\ p7 \in Int /\ p8 \in Int /\ p9 \in Int
    BY DEF PenaltyIf
  <2>2. Penalties(x) = p1 + p2 + p3 + p4 + p5 + p6 + p7 + p8 + p9
    BY Zenon DEF Penalties
  <2>3. Reported(x) = p1 + p2 + p3 /\ Models(x) = p4 + p5 /\ Cover(x) = p6 + p7 /\ Missed(x) = p8 + p9
    OBVIOUS
  <2> HIDE DEF p1, p2, p3, p4, p5, p6, p7, p8, p9, Reported, Models, Cover, Missed
  <2> QED BY <2>1, <2>2, <2>3
<1> HIDE DEF Cover, Reported, Models, Missed
<1> QED BY <1>1, <1>2, <1>3, <1>4, <1>5

\* Nor is it trusted more.
LEMMA LessIsTrustedLess ==
  ASSUME NEW e, NEW w, IsEvidence(e), IsEvidence(w), NoMoreThan(w, e)
  PROVE  Confidence(e) \in Int /\ Confidence(w) \in Int /\ Confidence(w) <= Confidence(e)
<1> DEFINE Trust(x) == SourceTrust(x.quality)
           Consistency(x) == EvidenceConsistency(Worst(x), Cardinality(x.active), x.quality)
           Base(x) == 40 * Trust(x) + 25 * CoverageConfidence(x.coverage)
                        + 20 * ModelApplicability(x) + 15 * Consistency(x)
           Net(x) == Base(x) - 100 * Penalties(x)
           Clamped(c) == Max({0, Min({1000, c})})
<1>1. Trust(e) \in Int /\ Trust(w) = Trust(e)
  <2> DEFINE used == {s \in Sources : e.quality[s] # Null}
             good == {s \in used : e.quality[s]}
             n == 1000 * (Cardinality(good) + (IF e.quality.linkStale THEN 0 ELSE 1))
             d == Cardinality(used) + 1
  <2>1. IsFiniteSet(Sources)
    <3>1. Sources = {"gpsOk"} \cup {"canOk"} \cup {"serialOk"}
      BY DEF Sources
    <3> QED BY <3>1, FS_Singleton, FS_Union
  <2>2. Cardinality(good) \in Nat /\ Cardinality(used) \in Nat
    BY <2>1, FS_Subset, FS_CardinalityType
  <2>3. n \in Int /\ d \in Nat \ {0}
    BY <2>2
  <2>4. Trust(e) = Rounded(n, d)
    BY Zenon DEF SourceTrust, Sources
  <2>5. w.quality = e.quality
    BY DEF NoMoreThan
  <2> HIDE DEF n, d
  <2>6. Rounded(n, d) \in Int
    BY <2>3, RoundedGrows
  <2> QED BY <2>4, <2>5, <2>6
<1>2. Consistency(e) \in Int /\ Consistency(w) = Consistency(e)
  <2>1. w.quality = e.quality /\ w.active = e.active /\ w.severity = e.severity
    BY DEF NoMoreThan
  <2>2. \A worst, count, q : EvidenceConsistency(worst, count, q) \in Int
    <3> TAKE worst, count, q
    <3>1. CASE worst \in {"error", "warning", "info"}
      BY <3>1 DEF EvidenceConsistency
    <3>2. CASE worst \notin {"error", "warning", "info"}
      BY <3>2 DEF EvidenceConsistency
    <3> QED BY <3>1, <3>2
  <2> QED BY <2>1, <2>2 DEF Worst
<1>3. /\ CoverageConfidence(e.coverage) \in Int /\ CoverageConfidence(w.coverage) \in Int
      /\ CoverageConfidence(w.coverage) <= CoverageConfidence(e.coverage)
  BY LessIsCoveredLess
<1>4. /\ ModelApplicability(e) \in Int /\ ModelApplicability(w) \in Int
      /\ ModelApplicability(w) <= ModelApplicability(e)
  BY FewerModelsApplyLess
<1>5. Penalties(e) \in Int /\ Penalties(w) \in Int /\ Penalties(w) >= Penalties(e)
  BY PenaltiesGrow
<1> HIDE DEF Trust, Consistency
<1>6. Net(e) \in Int /\ Net(w) \in Int /\ Net(w) <= Net(e)
  BY <1>1, <1>2, <1>3, <1>4, <1>5
<1>7. \A x : Confidence(x) = Clamped(Rounded(Net(x), 100))
  BY DEF Confidence, Trust, Consistency
<1> HIDE DEF Net
<1>8. /\ Rounded(Net(e), 100) \in Int /\ Rounded(Net(w), 100) \in Int
      /\ Rounded(Net(w), 100) <= Rounded(Net(e), 100)
  BY <1>6, RoundedGrows
<1>9. \A a, b \in Int : a <= b => Clamped(a) \in Int /\ Clamped(b) \in Int /\ Clamped(a) <= Clamped(b)
  <2>1. \A c \in Int : Min({1000, c}) = (IF 1000 <= c THEN 1000 ELSE c)
    BY DEF Min
  <2>2. \A c \in Int : Max({0, c}) = (IF 0 >= c THEN 0 ELSE c)
    BY LesserAndGreater
  <2>3. \A c \in Int : Clamped(c) = IF c >= 1000 THEN 1000 ELSE IF c <= 0 THEN 0 ELSE c
    BY <2>1, <2>2
  <2> HIDE DEF Clamped
  <2> QED BY <2>3
<1> HIDE DEF Clamped
<1> QED BY <1>7, <1>8, <1>9

\* No verdict speaks well on weaker evidence and not on stronger: whatever is
\* taken away, in as many respects at once as one likes (_confidence_score,
\* _abstain, _verdict).
THEOREM WeakerIsNotBetter ==
  ASSUME NEW e, NEW w, IsEvidence(e), IsEvidence(w), NoMoreThan(w, e), VerdictOk(w)
  PROVE  VerdictOk(e)
<1>1. Worst(w) = Worst(e) /\ w.quality = e.quality
  BY DEF Worst, NoMoreThan
<1>2. /\ CoverageScore(e.coverage) \in Int /\ CoverageScore(w.coverage) \in Int
      /\ CoverageScore(w.coverage) <= CoverageScore(e.coverage)
  BY LessIsCoveredLess
<1>3. Confidence(e) \in Int /\ Confidence(w) \in Int /\ Confidence(w) <= Confidence(e)
  BY LessIsTrustedLess
<1>4. /\ ModelApplicability(e) \in Int /\ ModelApplicability(w) \in Int
      /\ ModelApplicability(w) <= ModelApplicability(e)
  BY FewerModelsApplyLess
<1>5. (NotReady(e.baseline) => NotReady(w.baseline)) /\ (NotReady(e.transition) => NotReady(w.transition))
  BY DEF NotReady, NoMoreThan, IsEvidence
<1>6. /\ Worst(w) \notin {"warning", "error"}
      /\ ~w.quality.linkStale /\ FALSE \notin Configured(w.quality)
      /\ ~(CoverageScore(w.coverage) < 450) /\ ~(Confidence(w) < 550)
      /\ ~(ModelApplicability(w) < 450) /\ ~NotReady(w.baseline) /\ ~NotReady(w.transition)
  BY GoodVerdict
<1>7. ~(CoverageScore(e.coverage) < 450) /\ ~(Confidence(e) < 550) /\ ~(ModelApplicability(e) < 450)
  BY <1>2, <1>3, <1>4, <1>6
<1> QED BY <1>1, <1>5, <1>6, <1>7, GoodVerdict

-----------------------------------------------------------------------------
(* The status of a frame                                                   *)

Found(findings) ==
  /\ IsFiniteSet(findings)
  /\ \A f \in findings : f.severity \in Severities /\ f.confidence \in Int

\* What the monitors find in a frame is finite, and graded.
LEMMA FrameFindings ==
  ASSUME NEW frame \in Frames, NEW history, NEW now,
         NEW baseline \in {{}, {BaselineFinding}}, NEW transitions \in {{}, {TransitionFinding}}
  PROVE  Found(CollectFindings(SignalFaults(history, frame, baseline, now), frame, baseline, transitions))
<1> DEFINE rules == RuleFaults(history, frame.speed, now)
           bus == frame.can.findings
           used == IF frame.can.enabled THEN bus ELSE {}
           disagrees == IF SpeedDisagrees(frame)
                        THEN {SignalFault("speedKph", "source_disagreement", "warning")} ELSE {}
<1>1. \A f, g : Found(f) /\ Found(g) => Found(f \cup g)
  BY FS_Union DEF Found
<1>2. Found({})
  BY FS_EmptySet DEF Found
<1>3. Found(bus)
  BY FrameAssumption DEF Found, Severities
<1>4. \A source, subject, code, severity, c :
        severity \in Severities /\ c \in Int => Found({Finding(source, subject, code, severity, c)})
  <2> TAKE source, subject, code, severity, c
  <2>1. /\ Finding(source, subject, code, severity, c).severity = severity
        /\ Finding(source, subject, code, severity, c).confidence = c
    BY DEF Finding
  <2>2. IsFiniteSet({Finding(source, subject, code, severity, c)})
    BY FS_Singleton
  <2> QED BY <2>1, <2>2 DEF Found
<1>5. \A f : Found(f) => Found(PassedOn(f))
  BY FS_Subset DEF Found, PassedOn
<1>6. Found(baseline) /\ Found(transitions)
  BY <1>2, <1>4 DEF BaselineFinding, TransitionFinding, Severities
<1>7. Found(disagrees)
  <2>1. Found({SignalFault("speedKph", "source_disagreement", "warning")})
    BY <1>4 DEF SignalFault, Severities
  <2> QED BY <1>2, <2>1
<1>8. Found(StaleFaults(frame))
  <2>1. /\ Found({Finding("canLive", "can", "source_stale", "warning", 0)})
        /\ Found({Finding("serialVehicleInputs", "serial", "source_stale", "warning", 0)})
    BY <1>4 DEF Severities
  <2> QED BY <1>1, <1>2, <2>1 DEF StaleFaults
<1>9. Found(rules)
  <2> DEFINE a == SignalFault("speedKph", "out_of_range", "error")
             b == SignalFault("speedKph", "impossible_jump", "warning")
             c == SignalFault("speedKph", "noisy_or_flapping", "warning")
  <2>1. Found({a}) /\ Found({b}) /\ Found({c})
    BY <1>4 DEF SignalFault, Severities
  <2>2. rules \subseteq {a} \cup {b} \cup {c}
    BY DEF RuleFaults
  <2> HIDE DEF rules, a, b, c
  <2>3. Found({a} \cup {b} \cup {c})
    BY <1>1, <2>1
  <2> QED BY <2>2, <2>3, FS_Subset DEF Found
<1>10. Found(PassedOn(used)) /\ Found(PassedOn(baseline))
  BY <1>2, <1>3, <1>5, <1>6
<1>11. SignalFaults(history, frame, baseline, now) =
         rules \cup StaleFaults(frame) \cup PassedOn(used) \cup PassedOn(baseline) \cup disagrees
  BY DEF SignalFaults
<1> HIDE DEF rules, used, disagrees
<1>12. Found(rules \cup StaleFaults(frame) \cup PassedOn(used) \cup PassedOn(baseline) \cup disagrees)
  BY <1>1, <1>7, <1>8, <1>9, <1>10
<1>13. Found(SignalFaults(history, frame, baseline, now))
  BY <1>11, <1>12
<1> QED BY <1>1, <1>3, <1>6, <1>13 DEF CollectFindings

\* The status of a frame tells the worst of all findings, and of the capture
\* what it is.
LEMMA StatusTells ==
  ASSUME NEW frame \in Frames, NEW findings, Found(findings), ~frame.stale
  PROVE  LET status == Status(frame, findings)
         IN  /\ status.active = ActiveFindings(findings)
             /\ status.severity \in Severities
             /\ findings # {} => status.severity = WorstSeverity(findings, "ok")
<1> DEFINE worst == WorstSeverity(findings, "ok")
           quality == CaptureQuality(frame)
           told(ok, severity, status) ==
             [ok |-> ok, severity |-> severity, status |-> status,
              active |-> ActiveFindings(findings), quality |-> quality]
<1>1. worst \in Severities
  BY WorstIsWorst DEF Found, Severities
<1>2. Status(frame, findings) =
        IF findings # {}
        THEN IF worst \in {"warning", "error"} THEN told(FALSE, worst, "anomaly_detected")
             ELSE told(TRUE, worst, "limited")
        ELSE IF FALSE \in {quality.canOk, quality.serialOk} THEN told(TRUE, "info", "limited")
        ELSE told(TRUE, "ok", "nominal")
  BY Zenon DEF Status
<1> HIDE DEF worst, quality
<1>3. CASE findings # {}
  <2>1. CASE worst \in {"warning", "error"}
    <3>1. Status(frame, findings) = told(FALSE, worst, "anomaly_detected")
      BY <1>2, <1>3, <2>1, Zenon
    <3> QED BY <1>1, <3>1 DEF worst
  <2>2. CASE worst \notin {"warning", "error"}
    <3>1. Status(frame, findings) = told(TRUE, worst, "limited")
      BY <1>2, <1>3, <2>2, Zenon
    <3> QED BY <1>1, <3>1 DEF worst
  <2> QED BY <2>1, <2>2
<1>4. CASE findings = {}
  <2>1. CASE FALSE \in {quality.canOk, quality.serialOk}
    <3>1. Status(frame, findings) = told(TRUE, "info", "limited")
      BY <1>2, <1>4, <2>1, Zenon
    <3> QED BY <3>1, <1>4 DEF Severities
  <2>2. CASE FALSE \notin {quality.canOk, quality.serialOk}
    <3>1. Status(frame, findings) = told(TRUE, "ok", "nominal")
      BY <1>2, <1>4, <2>2, Zenon
    <3> QED BY <3>1, <1>4 DEF Severities
  <2> QED BY <2>1, <2>2
<1> QED BY <1>3, <1>4

\* No source of a frame is lost when none of its capture is degraded.
LEMMA NothingLost ==
  ASSUME NEW frame \in Frames, ~VerdictQuality(frame).linkStale,
         FALSE \notin Configured(VerdictQuality(frame))
  PROVE  /\ ~frame.stale
         /\ \A s \in {frame.can, frame.serial} : s.enabled => ~s.stale
         /\ frame.gps.present => frame.gps.fix /\ ~frame.gps.stale
<1> DEFINE q == VerdictQuality(frame)
           gpsOk == IF frame.gps.present THEN frame.gps.fix /\ ~frame.gps.stale ELSE Null
           canOk == IF frame.can.enabled
                    THEN ~frame.can.stale /\ \A f \in frame.can.findings : ~Serious(f) ELSE Null
           serialOk == IF frame.serial.enabled THEN ~frame.serial.stale ELSE Null
<1>1. q.gpsOk = gpsOk /\ q.canOk = canOk /\ q.serialOk = serialOk /\ q.linkStale = frame.stale
  BY DEF VerdictQuality, CaptureQuality
<1>2. \A s \in Sources : q[s] # Null => q[s] # FALSE
  BY DEF Configured, Sources
<1>3. gpsOk # FALSE /\ canOk # FALSE /\ serialOk # FALSE
  <2>1. \A s \in Sources : q[s] # FALSE
    BY <1>2, FrameAssumption
  <2> HIDE DEF gpsOk, canOk, serialOk, q
  <2> QED BY <1>1, <2>1 DEF Sources
<1>4. /\ frame.gps.fix \in BOOLEAN /\ frame.gps.stale \in BOOLEAN /\ frame.can.stale \in BOOLEAN
      /\ frame.serial.stale \in BOOLEAN
  BY FrameAssumption
<1>5. ~frame.stale
  BY <1>1
<1>6. frame.gps.present => frame.gps.fix /\ ~frame.gps.stale
  BY <1>3, <1>4
<1>7. frame.can.enabled => ~frame.can.stale
  BY <1>3, <1>4
<1>8. frame.serial.enabled => ~frame.serial.stale
  BY <1>3, <1>4
<1> QED BY <1>5, <1>6, <1>7, <1>8

\* What a good verdict says of the last frame and of what was seen.
LEMMA GoodIsEarned ==
  ASSUME NEW e, IsEvidence(e), NEW frame \in Frames, NEW findings, Found(findings), VerdictOk(e),
         e.quality = VerdictQuality(frame), e.severity = Status(frame, findings).severity,
         e.active = Status(frame, findings).active, e.baseline.enabled, e.transition.enabled
  PROVE  /\ \A f \in findings : ~Serious(f)
         /\ ~frame.stale
         /\ \A s \in {frame.can, frame.serial} : s.enabled => ~s.stale
         /\ frame.gps.present => frame.gps.fix /\ ~frame.gps.stale
         /\ CoverageScore(e.coverage) >= 450
         /\ e.baseline.ready > 0 /\ e.transition.ready > 0
<1>1. /\ Worst(e) \notin {"warning", "error"}
      /\ ~e.quality.linkStale /\ FALSE \notin Configured(e.quality)
      /\ ~(CoverageScore(e.coverage) < 450)
      /\ ~NotReady(e.baseline) /\ ~NotReady(e.transition)
  BY GoodVerdict
<1>2. /\ ~frame.stale
      /\ \A s \in {frame.can, frame.serial} : s.enabled => ~s.stale
      /\ frame.gps.present => frame.gps.fix /\ ~frame.gps.stale
  BY <1>1, NothingLost
<1>3. CoverageScore(e.coverage) \in Int
  <2>1. NoMoreThan(e, e)
    BY DEF NoMoreThan, IsEvidence
  <2> QED BY <2>1, LessIsCoveredLess
<1>4. e.baseline.ready > 0 /\ e.transition.ready > 0
  BY <1>1 DEF NotReady, IsEvidence
<1>5. \A f \in findings : ~Serious(f)
  <2> SUFFICES ASSUME NEW f \in findings, Serious(f) PROVE FALSE
    OBVIOUS
  <2>1. /\ e.active = ActiveFindings(findings) /\ e.severity \in Severities
        /\ e.severity = WorstSeverity(findings, "ok")
    BY <1>2, StatusTells
  <2>2. SeverityOrder[e.severity] >= SeverityOrder[f.severity]
    BY <2>1, WorstIsWorst DEF Found, Severities
  <2>3. \A g \in e.active : g.severity \in Severities
    BY <2>1, CarriedAreFound DEF Found
  <2>4. Worst(e) \in Severities /\ SeverityOrder[Worst(e)] >= SeverityOrder[e.severity]
    BY <2>1, <2>3, WorstIsWorst DEF Worst
  <2> QED BY <1>1, <2>1, <2>2, <2>4 DEF Serious, Severities, SeverityOrder
<1> QED BY <1>1, <1>2, <1>3, <1>4, <1>5

-----------------------------------------------------------------------------
(* The replay                                                              *)

FilesInv ==
  /\ files = [enriched |-> files.enriched, tmp |-> files.tmp, report |-> files.report,
              run |-> files.run]
  /\ files.run \in Nat /\ done \in Nat /\ length \in Nat
  /\ replayStage = "reading" =>
       files.tmp = [run |-> files.run, frames |-> done] /\ done <= length
TallyInv ==
  /\ tally = [counts |-> tally.counts, severities |-> tally.severities, first |-> tally.first,
              contexts |-> tally.contexts, rpm |-> tally.rpm, seen |-> tally.seen,
              start |-> tally.start, end |-> tally.end]
  /\ IsFiniteSet(tally.contexts)
  /\ DOMAIN tally.seen = Sources
  /\ tally.start # Null => tally.start \in Int /\ tally.end \in Int
ReadyInv == ready.baseline \in Nat /\ ready.transition \in Nat
LastInv == lastState.frame \in Frames /\ Found(lastState.findings)
OutcomeInv ==
  /\ replayStage # "idle" => outcome.verdict = "none"
  /\ outcome.verdict \in {"healthy", "probably_healthy"} => VerdictOk(Evidence)
ReplayInv == FilesInv /\ TallyInv /\ ReadyInv /\ LastInv /\ OutcomeInv

\* The evidence of a replay can be scored.
LEMMA EvidenceIsMeasured ==
  ASSUME ReplayInv
  PROVE  IsEvidence(Evidence) /\ Evidence.baseline.enabled /\ Evidence.transition.enabled
<1>1. Duration \in Int
  <2>1. CASE tally.start = Null
    BY <2>1 DEF Duration
  <2>2. CASE tally.start # Null
    <3>1. tally.end - tally.start \in Int
      BY <2>2 DEF ReplayInv, TallyInv
    <3>2. Duration = Max({0, tally.end - tally.start})
      BY <2>2 DEF Duration
    <3> QED BY <3>1, <3>2, LesserAndGreater
  <2> QED BY <2>1, <2>2
<1>2. /\ Evidence.coverage.contexts = tally.contexts /\ Evidence.coverage.frames = done
      /\ Evidence.coverage.duration = Duration
      /\ Evidence.baseline = [enabled |-> TRUE, ready |-> ready.baseline, models |-> BaselineModels]
      /\ Evidence.transition = [enabled |-> TRUE, ready |-> ready.transition, models |-> TransitionModels]
  BY DEF Evidence
<1>3. BaselineModels \in Int /\ TransitionModels \in Int
  BY ReplayAssumption
<1> QED BY <1>1, <1>2, <1>3 DEF IsEvidence, ReplayInv, FilesInv, TallyInv, ReadyInv

LEMMA ReplayStarts ==
  ReplayInit => ReplayInv
<1> SUFFICES ASSUME ReplayInit PROVE ReplayInv
  OBVIOUS
<1> USE DEF ReplayInit
<1>1. FilesInv
  BY DEF FilesInv
<1>2. TallyInv
  BY FS_EmptySet DEF TallyInv, NoTally, Sources
<1>3. ReadyInv
  BY DEF ReadyInv
<1>4. LastInv
  BY FrameAssumption, FS_EmptySet DEF LastInv, NoLastState, Found
<1>5. OutcomeInv
  BY DEF OutcomeInv, NoOutcome, Untold
<1> QED BY <1>1, <1>2, <1>3, <1>4, <1>5 DEF ReplayInv

LEMMA LoadKeeps ==
  ASSUME ReplayInv, NEW n \in 0..(MaxFrames - files.run), NEW sidecar, Load(n, sidecar)
  PROVE  ReplayInv' /\ files'.enriched = files.enriched
<1> USE DEF Load
<1>1. FilesInv' /\ files'.enriched = files.enriched
  <2>1. n \in Nat
    BY ReplayAssumption DEF ReplayInv, FilesInv
  <2>2. files' = [enriched |-> files.enriched, tmp |-> [run |-> files.run + 1, frames |-> 0],
                  report |-> files.report, run |-> files.run + 1]
    BY DEF ReplayInv, FilesInv
  <2>3. files.run + 1 \in Nat
    BY DEF ReplayInv, FilesInv
  <2>4. /\ files'.run = files.run + 1 /\ files'.tmp = [run |-> files.run + 1, frames |-> 0]
        /\ files'.enriched = files.enriched /\ files'.report = files.report
        /\ done' = 0 /\ length' = n
    BY <2>2
  <2>5. files' = [enriched |-> files'.enriched, tmp |-> files'.tmp, report |-> files'.report,
                  run |-> files'.run]
    BY <2>2
  <2> HIDE DEF Load
  <2> QED BY <2>1, <2>3, <2>4, <2>5 DEF FilesInv
<1>2. TallyInv'
  BY FS_EmptySet DEF TallyInv, NoTally, Sources
<1>3. ReadyInv'
  BY DEF ReadyInv
<1>4. LastInv'
  BY FrameAssumption, FS_EmptySet DEF LastInv, NoLastState, Found
<1>5. OutcomeInv'
  BY DEF OutcomeInv, NoOutcome, Untold
<1> QED BY <1>1, <1>2, <1>3, <1>4, <1>5 DEF ReplayInv

\* One frame: the tally keeps its shape, and the findings are those of the frame.
LEMMA HandleKeeps ==
  ASSUME ReplayInv, NEW frame \in Frames,
         NEW baseline \in {{}, {BaselineFinding}}, NEW transitions \in {{}, {TransitionFinding}},
         NEW learned \in [baseline : 0..BaselineModels, transition : 0..TransitionModels],
         Handle(frame, baseline, transitions, learned)
  PROVE  ReplayInv' /\ files'.enriched = files.enriched
<1> DEFINE now == Timestamp(frame, done)
           faults == SignalFaults(speeds, frame, baseline, now)
           findings == CollectFindings(faults, frame, baseline, transitions)
           status == Status(frame, findings)
<1>1. /\ replayStage = "reading" /\ done < length /\ replayStage' = "reading" /\ length' = length
      /\ lastState' = [seen |-> TRUE, findings |-> findings, frame |-> frame]
      /\ tally' = Counted(tally, frame, status, now)
      /\ ready' = learned /\ done' = done + 1
      /\ files' = [files EXCEPT !.tmp.frames = @ + 1] /\ outcome' = outcome
  BY DEF Handle
<1>2. FilesInv' /\ files'.enriched = files.enriched
  <2>1. /\ files.tmp = [run |-> files.run, frames |-> done]
        /\ files = [enriched |-> files.enriched, tmp |-> files.tmp, report |-> files.report,
                    run |-> files.run]
        /\ done \in Nat /\ length \in Nat /\ files.run \in Nat
    BY <1>1 DEF ReplayInv, FilesInv
  <2>2. files' = [enriched |-> files.enriched, tmp |-> [run |-> files.run, frames |-> done + 1],
                  report |-> files.report, run |-> files.run]
    BY <1>1, <2>1
  <2> QED BY <1>1, <2>1, <2>2 DEF FilesInv
<1>3. TallyInv'
  <2>1. now \in Int
    <3>1. done \in Int /\ FramePeriod \in Int /\ WallEpoch \in Int
      BY ReplayAssumption DEF ReplayInv, FilesInv
    <3>2. CASE frame.t # Null
      BY <3>2, FrameAssumption DEF Timestamp
    <3>3. CASE frame.t = Null
      <4>1. now = WallEpoch + done * FramePeriod
        BY <3>3 DEF Timestamp
      <4> HIDE DEF now
      <4> QED BY <3>1, <4>1
    <3> QED BY <3>2, <3>3
  <2>2. IsFiniteSet(ContextsOf(tally.rpm, frame))
    <3>1. IsFiniteSet({OperatingState(frame.speed, frame.rpm)})
      BY FS_Singleton
    <3>2. IsFiniteSet(Warmth(frame))
      BY FS_EmptySet, FS_Singleton DEF Warmth
    <3>3. IsFiniteSet(IF Started(tally.rpm, frame) THEN {"startup"} \cup Warmth(frame) ELSE {})
      BY <3>2, FS_EmptySet, FS_Singleton, FS_Union
    <3>4. IsFiniteSet(IF frame.load # Null /\ frame.load >= 70 THEN {"heavy_load"} ELSE {})
      BY FS_EmptySet, FS_Singleton
    <3> QED BY <3>1, <3>3, <3>4, FS_Union DEF ContextsOf
  <2> HIDE DEF now, status
  <2>3. \E counts, severities, first, rpm :
          tally' = [counts |-> counts, severities |-> severities, first |-> first,
                    contexts |-> tally.contexts \cup ContextsOf(tally.rpm, frame), rpm |-> rpm,
                    seen |-> [s \in DOMAIN tally.seen |-> tally.seen[s] \cup {status.quality[s]}],
                    start |-> IF tally.start = Null THEN now ELSE tally.start, end |-> now]
    <3>1. tally = [counts |-> tally.counts, severities |-> tally.severities, first |-> tally.first,
                   contexts |-> tally.contexts, rpm |-> tally.rpm, seen |-> tally.seen,
                   start |-> tally.start, end |-> tally.end]
      BY DEF ReplayInv, TallyInv
    <3> DEFINE counts == [tally.counts EXCEPT ![status.status] = @ + 1]
               severities == tally.severities \cup {status.severity}
               first == IF status.status = "anomaly_detected" /\ tally.first = Null THEN done ELSE tally.first
               contexts == tally.contexts \cup ContextsOf(tally.rpm, frame)
               rpm == IF frame.rpm # Null THEN frame.rpm ELSE tally.rpm
               seen == [s \in DOMAIN tally.seen |-> tally.seen[s] \cup {status.quality[s]}]
               start == IF tally.start = Null THEN now ELSE tally.start
    <3>2. tally' = [tally EXCEPT !.counts = counts, !.severities = severities, !.first = first,
                                 !.contexts = contexts, !.rpm = rpm, !.seen = seen,
                                 !.start = start, !.end = now]
      BY <1>1, Zenon DEF Counted
    <3> HIDE DEF counts, severities, first, contexts, rpm, seen, start
    <3>3. tally' = [counts |-> counts, severities |-> severities, first |-> first,
                    contexts |-> contexts, rpm |-> rpm, seen |-> seen, start |-> start, end |-> now]
      BY <3>1, <3>2
    <3> QED BY <3>3, Zenon DEF contexts, seen, start
  <2>4. /\ tally'.contexts = tally.contexts \cup ContextsOf(tally.rpm, frame)
        /\ DOMAIN tally'.seen = DOMAIN tally.seen
        /\ tally'.start = (IF tally.start = Null THEN now ELSE tally.start) /\ tally'.end = now
        /\ tally' = [counts |-> tally'.counts, severities |-> tally'.severities, first |-> tally'.first,
                     contexts |-> tally'.contexts, rpm |-> tally'.rpm, seen |-> tally'.seen,
                     start |-> tally'.start, end |-> tally'.end]
    BY <2>3
  <2>5. IsFiniteSet(tally'.contexts)
    <3>1. IsFiniteSet(tally.contexts)
      BY DEF ReplayInv, TallyInv
    <3>2. IsFiniteSet(tally.contexts \cup ContextsOf(tally.rpm, frame))
      BY <2>2, <3>1, FS_Union
    <3> QED BY <2>4, <3>2
  <2>6. tally'.start \in Int /\ tally'.end \in Int
    BY <2>1, <2>4 DEF ReplayInv, TallyInv
  <2> QED BY <2>4, <2>5, <2>6 DEF ReplayInv, TallyInv
<1>4. ReadyInv'
  BY <1>1, ReplayAssumption DEF ReadyInv
<1>5. LastInv'
  <2>1. Found(findings)
    BY FrameFindings
  <2> HIDE DEF findings
  <2> QED BY <1>1, <2>1 DEF LastInv
<1>6. OutcomeInv'
  BY <1>1 DEF ReplayInv, OutcomeInv
<1> QED BY <1>2, <1>3, <1>4, <1>5, <1>6 DEF ReplayInv

\* The actions that end a replay, or do not begin one, leave its evidence.
LEMMA OthersKeep ==
  ASSUME ReplayInv,
         \/ LoadFails
         \/ \E ok \in BOOLEAN : WriteFails(ok) \/ Finish(ok) \/ Report(ok)
         \/ Killed
         \/ UNCHANGED replayVars
  PROVE  ReplayInv' /\ (files'.enriched # files.enriched =>
                          files'.enriched = [run |-> files.run, frames |-> length])
<1>1. UNCHANGED <<length, done, tally, lastState, speeds, ready, candidate>>
  BY DEF LoadFails, WriteFails, Finish, Report, Killed, replayVars
<1>2. TallyInv' /\ ReadyInv' /\ LastInv' /\ Evidence' = Evidence
  BY <1>1 DEF ReplayInv, TallyInv, ReadyInv, LastInv, Evidence, Duration
<1>3. CASE UNCHANGED replayVars
  <2>1. FilesInv' /\ files' = files
    BY <1>3 DEF replayVars, ReplayInv, FilesInv
  <2>2. OutcomeInv'
    BY <1>2, <1>3 DEF replayVars, ReplayInv, OutcomeInv
  <2> QED BY <1>2, <2>1, <2>2 DEF ReplayInv
<1>4. CASE LoadFails
  <2>1. FilesInv' /\ files'.enriched = files.enriched
    BY <1>4 DEF LoadFails, ReplayInv, FilesInv
  <2>2. OutcomeInv'
    BY <1>4 DEF LoadFails, OutcomeInv, Failure, Untold
  <2> QED BY <1>2, <2>1, <2>2 DEF ReplayInv
<1>5. ASSUME NEW ok \in BOOLEAN, WriteFails(ok)
      PROVE  ReplayInv' /\ files'.enriched = files.enriched
  <2>1. FilesInv' /\ files'.enriched = files.enriched
    BY <1>5 DEF WriteFails, ReplayInv, FilesInv
  <2>2. OutcomeInv'
    BY <1>5 DEF WriteFails, OutcomeInv, Failure, Untold
  <2> QED BY <1>2, <2>1, <2>2 DEF ReplayInv
<1>6. ASSUME NEW ok \in BOOLEAN, Finish(ok)
      PROVE  ReplayInv' /\ (files'.enriched # files.enriched =>
                              files'.enriched = [run |-> files.run, frames |-> length])
  <2>1. files.tmp = [run |-> files.run, frames |-> length]
    BY <1>6 DEF Finish, ReplayInv, FilesInv
  <2>2. FilesInv' /\ (files'.enriched = files.enriched \/ files'.enriched = files.tmp)
    BY <1>6 DEF Finish, ReplayInv, FilesInv
  <2>3. OutcomeInv'
    BY <1>2, <1>6 DEF Finish, ReplayInv, OutcomeInv, Failure, Untold
  <2> QED BY <1>2, <2>1, <2>2, <2>3 DEF ReplayInv
<1>7. ASSUME NEW ok \in BOOLEAN, Report(ok)
      PROVE  ReplayInv' /\ files'.enriched = files.enriched
  <2>1. FilesInv' /\ files'.enriched = files.enriched
    BY <1>7 DEF Report, ReplayInv, FilesInv
  <2>2. replayStage' = "idle" /\ outcome'.verdict \in {FinalVerdict, "failed"}
    BY <1>7 DEF Report, Failure, Untold
  <2>3. FinalVerdict \in {"healthy", "probably_healthy"} => VerdictOk(Evidence)
    BY DEF FinalVerdict, VerdictOk
  <2>4. OutcomeInv'
    BY <1>2, <2>2, <2>3 DEF OutcomeInv
  <2> QED BY <1>2, <2>1, <2>4 DEF ReplayInv
<1>8. CASE Killed
  <2>1. FilesInv' /\ files' = files
    BY <1>8 DEF Killed, ReplayInv, FilesInv
  <2>2. OutcomeInv'
    BY <1>8 DEF Killed, OutcomeInv, Failure, Untold
  <2> QED BY <1>2, <2>1, <2>2 DEF ReplayInv
<1> QED BY <1>3, <1>4, <1>5, <1>6, <1>7, <1>8

LEMMA ReplayStep ==
  ASSUME ReplayInv, [ReplayNext]_replayVars
  PROVE  ReplayInv' /\ (files'.enriched # files.enriched =>
                          files'.enriched = [run |-> files.run, frames |-> length])
<1>1. ASSUME NEW n \in 0..(MaxFrames - files.run), NEW sidecar \in Sidecars, Load(n, sidecar)
      PROVE  ReplayInv' /\ files'.enriched = files.enriched
  BY <1>1, LoadKeeps
<1>2. ASSUME NEW frame \in Frames, NEW baseline \in {{}, {BaselineFinding}},
             NEW transitions \in {{}, {TransitionFinding}},
             NEW learned \in [baseline : 0..BaselineModels, transition : 0..TransitionModels],
             Handle(frame, baseline, transitions, learned)
      PROVE  ReplayInv' /\ files'.enriched = files.enriched
  BY <1>2, HandleKeeps
<1> QED BY <1>1, <1>2, OthersKeep, Zenon DEF ReplayNext

\* The enriched log under its final name is whole, of every replay and
\* whatever fails (run_diagnostic_replay).
THEOREM EnrichedLogsAreWhole == ReplaySpec => EnrichedIsWhole
<1>1. ReplayInit => ReplayInv
  BY ReplayStarts
<1>2. ReplayInv /\ [ReplayNext]_replayVars =>
        ReplayInv' /\ (files'.enriched # files.enriched =>
                         files'.enriched = [run |-> files.run, frames |-> length])
  BY ReplayStep
<1> QED BY <1>1, <1>2, PTL DEF ReplaySpec, EnrichedIsWhole

\* What praise is earned by, for every log and every report told of it: every
\* finding of the last frame and its sources, what was seen and what the
\* monitors knew; nothing of the frames before the last, which the verdict
\* does not judge (build_diagnostic_status, _abstain, _verdict).
THEOREM PraiseIsOfTheLastFrame == ReplaySpec => []PraiseNeedsASoundEnd
<1>1. ReplayInit => ReplayInv
  BY ReplayStarts
<1>2. ReplayInv /\ [ReplayNext]_replayVars => ReplayInv'
  BY ReplayStep
<1>3. ReplayInv => PraiseNeedsASoundEnd
  <2> SUFFICES ASSUME ReplayInv, outcome.verdict \in {"healthy", "probably_healthy"}
               PROVE  /\ \A f \in lastState.findings : ~Serious(f)
                      /\ ~lastState.frame.stale
                      /\ \A s \in {lastState.frame.can, lastState.frame.serial} : s.enabled => ~s.stale
                      /\ lastState.frame.gps.present => lastState.frame.gps.fix /\ ~lastState.frame.gps.stale
                      /\ CoverageScore(Evidence.coverage) >= 450
                      /\ ready.baseline > 0 /\ ready.transition > 0
    BY DEF PraiseNeedsASoundEnd
  <2>1. VerdictOk(Evidence) /\ lastState.frame \in Frames /\ Found(lastState.findings)
    BY DEF ReplayInv, OutcomeInv, LastInv
  <2>2. IsEvidence(Evidence) /\ Evidence.baseline.enabled /\ Evidence.transition.enabled
    BY EvidenceIsMeasured
  <2>3. /\ Evidence.quality = VerdictQuality(lastState.frame)
        /\ Evidence.severity = Status(lastState.frame, lastState.findings).severity
        /\ Evidence.active = Status(lastState.frame, lastState.findings).active
        /\ Evidence.baseline.ready = ready.baseline /\ Evidence.transition.ready = ready.transition
    BY DEF Evidence
  <2> QED BY <2>1, <2>2, <2>3, GoodIsEarned
<1> QED BY <1>1, <1>2, <1>3, PTL DEF ReplaySpec

\* Weaker evidence in one respect is no stronger.
LEMMA WeakerIsNoMore ==
  ASSUME ReplayInv, NEW e \in Weaker(Evidence)
  PROVE  IsEvidence(e) /\ NoMoreThan(e, Evidence)
<1> DEFINE d == Evidence
<1>1. /\ d = [coverage |-> d.coverage, quality |-> d.quality, severity |-> d.severity,
              active |-> d.active, profileKnown |-> d.profileKnown, baseline |-> d.baseline,
              transition |-> d.transition]
      /\ d.coverage = [contexts |-> d.coverage.contexts, frames |-> d.coverage.frames,
                       duration |-> d.coverage.duration, seen |-> d.coverage.seen]
      /\ d.baseline = [enabled |-> d.baseline.enabled, ready |-> d.baseline.ready,
                       models |-> d.baseline.models]
      /\ d.transition = [enabled |-> d.transition.enabled, ready |-> d.transition.ready,
                         models |-> d.transition.models]
  BY DEF Evidence
<1>2. IsEvidence(d) /\ DOMAIN d.coverage.seen = Sources /\ d.coverage.frames \in Nat
  BY EvidenceIsMeasured DEF Evidence, ReplayInv, TallyInv, FilesInv
<1> HIDE DEF d
<1>3. NoMoreThan(d, d)
  BY <1>2 DEF NoMoreThan, IsEvidence
<1>4. ASSUME NEW c \in d.coverage.contexts, e = [d EXCEPT !.coverage.contexts = @ \ {c}]
      PROVE  IsEvidence(e) /\ NoMoreThan(e, d)
  <2>1. /\ e.coverage.contexts = d.coverage.contexts \ {c} /\ e.coverage.frames = d.coverage.frames
        /\ e.coverage.duration = d.coverage.duration /\ e.coverage.seen = d.coverage.seen
        /\ e.quality = d.quality /\ e.severity = d.severity /\ e.active = d.active
        /\ e.profileKnown = d.profileKnown /\ e.baseline = d.baseline /\ e.transition = d.transition
    BY <1>1, <1>4
  <2>2. IsFiniteSet(e.coverage.contexts)
    BY <1>2, <2>1, FS_RemoveElement DEF IsEvidence
  <2> QED BY <1>2, <1>3, <2>1, <2>2 DEF IsEvidence, NoMoreThan
<1>5. ASSUME e = [d EXCEPT !.coverage.frames = Max({0, @ - 1})]
      PROVE  IsEvidence(e) /\ NoMoreThan(e, d)
  <2> DEFINE fewer == Max({0, d.coverage.frames - 1})
  <2>1. fewer \in Int /\ fewer <= d.coverage.frames
    BY <1>2, LesserAndGreater
  <2>2. e = [d EXCEPT !.coverage.frames = fewer]
    BY <1>5
  <2> HIDE DEF fewer
  <2>3. /\ e.coverage.contexts = d.coverage.contexts /\ e.coverage.frames = fewer
        /\ e.coverage.duration = d.coverage.duration /\ e.coverage.seen = d.coverage.seen
        /\ e.quality = d.quality /\ e.severity = d.severity /\ e.active = d.active
        /\ e.profileKnown = d.profileKnown /\ e.baseline = d.baseline /\ e.transition = d.transition
    BY <1>1, <2>2
  <2> QED BY <1>2, <1>3, <2>1, <2>3 DEF IsEvidence, NoMoreThan
<1>6. ASSUME NEW s \in Sources, e = [d EXCEPT !.coverage.seen[s] = @ \cup {FALSE}]
      PROVE  IsEvidence(e) /\ NoMoreThan(e, d)
  <2>1. /\ e.coverage.contexts = d.coverage.contexts /\ e.coverage.frames = d.coverage.frames
        /\ e.coverage.duration = d.coverage.duration
        /\ e.coverage.seen = [d.coverage.seen EXCEPT ![s] = @ \cup {FALSE}]
        /\ e.quality = d.quality /\ e.severity = d.severity /\ e.active = d.active
        /\ e.profileKnown = d.profileKnown /\ e.baseline = d.baseline /\ e.transition = d.transition
    BY <1>1, <1>6
  <2>2. \A x \in Sources : e.coverage.seen[x] \in {d.coverage.seen[x], d.coverage.seen[x] \cup {FALSE}}
    BY <1>2, <2>1
  <2> QED BY <1>2, <1>3, <2>1, <2>2 DEF IsEvidence, NoMoreThan
<1>7. ASSUME e = [d EXCEPT !.baseline.ready = Max({0, @ - 1})]
      PROVE  IsEvidence(e) /\ NoMoreThan(e, d)
  <2> DEFINE fewer == Max({0, d.baseline.ready - 1})
  <2>1. fewer \in Nat /\ fewer <= d.baseline.ready
    <3>1. PICK r \in Nat : r = d.baseline.ready
      BY <1>2 DEF IsEvidence
    <3>2. Max({0, r - 1}) = IF 0 >= r - 1 THEN 0 ELSE r - 1
      BY LesserAndGreater
    <3> QED BY <3>1, <3>2
  <2>2. e = [d EXCEPT !.baseline.ready = fewer]
    BY <1>7
  <2> HIDE DEF fewer
  <2>3. /\ e.baseline.enabled = d.baseline.enabled /\ e.baseline.ready = fewer
        /\ e.baseline.models = d.baseline.models /\ e.transition = d.transition
        /\ e.quality = d.quality /\ e.severity = d.severity /\ e.active = d.active
        /\ e.profileKnown = d.profileKnown /\ e.coverage = d.coverage
    BY <1>1, <2>2
  <2> QED BY <1>2, <1>3, <2>1, <2>3 DEF IsEvidence, NoMoreThan
<1>8. ASSUME e = [d EXCEPT !.transition.ready = Max({0, @ - 1})]
      PROVE  IsEvidence(e) /\ NoMoreThan(e, d)
  <2> DEFINE fewer == Max({0, d.transition.ready - 1})
  <2>1. fewer \in Nat /\ fewer <= d.transition.ready
    <3>1. PICK r \in Nat : r = d.transition.ready
      BY <1>2 DEF IsEvidence
    <3>2. Max({0, r - 1}) = IF 0 >= r - 1 THEN 0 ELSE r - 1
      BY LesserAndGreater
    <3> QED BY <3>1, <3>2
  <2>2. e = [d EXCEPT !.transition.ready = fewer]
    BY <1>8
  <2> HIDE DEF fewer
  <2>3. /\ e.transition.enabled = d.transition.enabled /\ e.transition.ready = fewer
        /\ e.transition.models = d.transition.models /\ e.baseline = d.baseline
        /\ e.quality = d.quality /\ e.severity = d.severity /\ e.active = d.active
        /\ e.profileKnown = d.profileKnown /\ e.coverage = d.coverage
    BY <1>1, <2>2
  <2> QED BY <1>2, <1>3, <2>1, <2>3 DEF IsEvidence, NoMoreThan
<1>9. e \in Weaker(d)
  BY DEF d
<1> QED BY <1>2, <1>4, <1>5, <1>6, <1>7, <1>8, <1>9 DEF Weaker, d

\* Less evidence never helps, in any state of any replay (_confidence_score,
\* _abstain, _verdict).
THEOREM LessEvidenceNeverHelps == ReplaySpec => []LessNeverHelps
<1>1. ReplayInit => ReplayInv
  BY ReplayStarts
<1>2. ReplayInv /\ [ReplayNext]_replayVars => ReplayInv'
  BY ReplayStep
<1>3. ReplayInv => LessNeverHelps
  BY EvidenceIsMeasured, WeakerIsNoMore, WeakerIsNotBetter DEF LessNeverHelps
<1> QED BY <1>1, <1>2, <1>3, PTL DEF ReplaySpec
-----------------------------------------------------------------------------
(* Rankings.                                                               *)

\* Before is a strict order, and of two different keys one is before the other.
LEMMA KeysAreOrdered ==
  ASSUME NEW n \in Nat
  PROVE  /\ \A k \in [1..n -> Int] : ~Before(k, k)
         /\ \A k, l \in [1..n -> Int] : k # l => Before(k, l) \/ Before(l, k)
         /\ \A k, l, m \in [1..n -> Int] : Before(k, l) /\ Before(l, m) => Before(k, m)
<1>1. ASSUME NEW k \in [1..n -> Int] PROVE ~Before(k, k)
  BY DEF Before
<1>2. ASSUME NEW k \in [1..n -> Int], NEW l \in [1..n -> Int], k # l
      PROVE  Before(k, l) \/ Before(l, k)
  <2> DEFINE D == {i \in 1..n : k[i] # l[i]}
  <2>1. D # {}
    BY <1>2
  <2>2. IsFiniteSet(1..n) /\ D \in SUBSET (1..n) /\ 1..n \in SUBSET Int
    BY FS_Interval
  <2>3. PICK i \in D : \A x \in D : i <= x
    <3> HIDE DEF D
    <3> QED BY <2>1, <2>2, Extremes
  <2>4. i \in 1..n /\ k[i] # l[i] /\ k[i] \in Int /\ l[i] \in Int
    OBVIOUS
  <2>5. \A j \in 1..(i - 1) : k[j] = l[j]
    <3> SUFFICES ASSUME NEW j \in 1..(i - 1) PROVE k[j] = l[j]
      OBVIOUS
    <3>1. j \in 1..n /\ ~(i <= j)
      BY <2>4
    <3> QED BY <2>3, <3>1
  <2>6. k[i] > l[i] \/ l[i] > k[i]
    BY <2>4
  <2>7. DOMAIN k = 1..n /\ DOMAIN l = 1..n
    OBVIOUS
  <2> HIDE DEF D
  <2> QED BY <2>4, <2>5, <2>6, <2>7 DEF Before
<1>3. ASSUME NEW k \in [1..n -> Int], NEW l \in [1..n -> Int], NEW m \in [1..n -> Int],
             Before(k, l), Before(l, m)
      PROVE  Before(k, m)
  <2>1. PICK i \in 1..n : k[i] > l[i] /\ \A x \in 1..(i - 1) : k[x] = l[x]
    BY <1>3 DEF Before
  <2>2. PICK j \in 1..n : l[j] > m[j] /\ \A x \in 1..(j - 1) : l[x] = m[x]
    BY <1>3 DEF Before
  <2>3. /\ k[i] \in Int /\ l[i] \in Int /\ m[i] \in Int
        /\ k[j] \in Int /\ l[j] \in Int /\ m[j] \in Int
    OBVIOUS
  <2>4. CASE i < j
    <3>1. i \in 1..(j - 1) /\ \A x \in 1..(i - 1) : x \in 1..(j - 1)
      BY <2>4
    <3>2. k[i] > m[i] /\ \A x \in 1..(i - 1) : k[x] = m[x]
      BY <2>1, <2>2, <3>1
    <3> QED BY <3>2 DEF Before
  <2>5. CASE i = j
    <3>1. k[i] > m[i] /\ \A x \in 1..(i - 1) : k[x] = m[x]
      BY <2>1, <2>2, <2>3, <2>5
    <3> QED BY <3>1 DEF Before
  <2>6. CASE j < i
    <3>1. j \in 1..(i - 1) /\ \A x \in 1..(j - 1) : x \in 1..(i - 1)
      BY <2>6
    <3>2. k[j] > m[j] /\ \A x \in 1..(j - 1) : k[x] = m[x]
      BY <2>1, <2>2, <2>3, <3>1
    <3> QED BY <3>2 DEF Before
  <2> QED BY <2>4, <2>5, <2>6
<1> QED BY <1>1, <1>2, <1>3

AreKeys(keys, n, w) == keys \in [1..n -> [1..w -> Int]]

IsRanking(ranked, list, keys, n) ==
  /\ DOMAIN ranked = 1..n
  /\ \A k \in 1..n : \E i, f \in 1..n :
       /\ ranked[k] = list[i] /\ ranked[1] = list[f] /\ keys[i][1] <= keys[f][1]
  /\ \A i \in 1..n : \E k \in 1..n : ranked[k] = list[i]

\* A ranked list holds what the list held, all of it, and nothing in it has a larger first
\* number in its key than what comes first.
LEMMA RankedHoldsTheList ==
  ASSUME NEW n \in Nat, NEW w \in Nat, NEW list, DOMAIN list = 1..n,
         NEW keys, AreKeys(keys, n, w), w > 0
  PROVE  IsRanking(Ranked(list, keys), list, keys, n)
<1>0. keys \in [1..n -> [1..w -> Int]]
  BY DEF AreKeys
<1> DEFINE R == KeyOrder(keys)
           order == InOrder(1..n, R)
<1>1. \A i, j : <<i, j>> \in R <=> /\ i \in 1..n /\ j \in 1..n
                                   /\ Before(keys[i], keys[j]) \/ (keys[i] = keys[j] /\ i < j)
  BY <1>0 DEF KeyOrder
<1> HIDE DEF R
<1>2. Orders(R, 1..n)
  <2>1. ASSUME NEW i \in 1..n PROVE <<i, i>> \notin R
    <3>1. ~Before(keys[i], keys[i])
      <4>1. keys[i] \in [1..w -> Int]
        BY <1>0
      <4>2. \A k \in [1..w -> Int] : ~Before(k, k)
        BY KeysAreOrdered
      <4> QED BY <4>1, <4>2
    <3>2. <<i, i>> \in R => Before(keys[i], keys[i]) \/ i < i
      BY <1>1
    <3> QED BY <3>1, <3>2
  <2>2. ASSUME NEW i \in 1..n, NEW j \in 1..n, i # j PROVE <<i, j>> \in R \/ <<j, i>> \in R
    <3>1. keys[i] # keys[j] => Before(keys[i], keys[j]) \/ Before(keys[j], keys[i])
      BY <1>0, KeysAreOrdered
    <3>2. i < j \/ j < i
      BY <2>2
    <3> QED BY <1>1, <3>1, <3>2
  <2>3. ASSUME NEW i \in 1..n, NEW j \in 1..n, NEW m \in 1..n, <<i, j>> \in R, <<j, m>> \in R
        PROVE  <<i, m>> \in R
    <3>1. Before(keys[i], keys[j]) /\ Before(keys[j], keys[m]) => Before(keys[i], keys[m])
      BY <1>0, KeysAreOrdered
    <3>2. i < j /\ j < m => i < m
      OBVIOUS
    <3> QED BY <1>1, <2>3, <3>1, <3>2
  <2> QED BY <2>1, <2>2, <2>3, Zenon DEF Orders
<1>3. IsFiniteSet(1..n) /\ Cardinality(1..n) = n
  BY FS_Interval
<1>4. \A k \in 1..n : /\ order[k] \in 1..n
                      /\ IsFiniteSet(AheadOf(1..n, R, order[k]))
                      /\ Cardinality(AheadOf(1..n, R, order[k])) = k - 1
  BY <1>2, <1>3, PlacesAreTaken
<1>o. \A i \in 1..n : \E k \in 1..n : order[k] = i
  <2> SUFFICES ASSUME NEW i \in 1..n PROVE \E k \in 1..n : order[k] = i
    OBVIOUS
  <2> DEFINE S == 1..n
  <2>1. IsFiniteSet(S) /\ Orders(R, S) /\ i \in S
    BY <1>2, <1>3
  <2> HIDE DEF S
  <2>2. \E k \in 1..Cardinality(S) : InOrder(S, R)[k] = i
    BY <2>1, AllArePlaced
  <2> QED BY <1>3, <2>2 DEF S
<1> HIDE DEF order
<1>5. Ranked(list, keys) = [k \in 1..n |-> list[order[k]]]
  BY Zenon DEF Ranked, order, R
<1>6. ASSUME NEW k \in 1..n PROVE keys[order[k]][1] <= keys[order[1]][1]
  <2>1. 1 \in 1..n /\ order[1] \in 1..n /\ order[k] \in 1..n
    BY <1>4
  <2>2. Cardinality(AheadOf(1..n, R, order[1])) = 0
    BY <1>4, <2>1
  <2>3. AheadOf(1..n, R, order[1]) = {}
    BY <1>4, <2>1, <2>2, FS_EmptySet
  <2>4. <<order[k], order[1]>> \notin R
    BY <2>1, <2>3 DEF AheadOf
  <2>5. order[k] = order[1] \/ <<order[1], order[k]>> \in R
    BY <1>2, <2>1, <2>4 DEF Orders
  <2>6. keys[order[k]] \in [1..w -> Int] /\ keys[order[1]] \in [1..w -> Int] /\ 1 \in 1..w
    BY <1>0, <2>1, SMTT(60)
  <2>7. ASSUME Before(keys[order[1]], keys[order[k]])
        PROVE  keys[order[k]][1] <= keys[order[1]][1]
    <3> DEFINE a == keys[order[1]]
               b == keys[order[k]]
    <3>1. PICK i \in 1..w : a[i] > b[i] /\ \A j \in 1..(i - 1) : a[j] = b[j]
      BY <2>6, <2>7 DEF Before
    <3>2. a[1] \in Int /\ b[1] \in Int
      BY <2>6
    <3>3. i = 1 \/ 1 \in 1..(i - 1)
      OBVIOUS
    <3> HIDE DEF a, b
    <3>4. b[1] <= a[1]
      BY <3>1, <3>2, <3>3
    <3> QED BY <3>4 DEF a, b
  <2>8. keys[order[k]] = keys[order[1]] => keys[order[k]][1] <= keys[order[1]][1]
    BY <2>6
  <2> QED BY <1>1, <2>5, <2>7, <2>8
<1>7. ASSUME NEW k \in 1..n
      PROVE  \E i, f \in 1..n : /\ Ranked(list, keys)[k] = list[i]
                                /\ Ranked(list, keys)[1] = list[f]
                                /\ keys[i][1] <= keys[f][1]
  <2>1. 1 \in 1..n
    OBVIOUS
  <2> QED BY <1>4, <1>5, <1>6, <2>1
<1>8. \A i \in 1..n : \E k \in 1..n : Ranked(list, keys)[k] = list[i]
  <2> SUFFICES ASSUME NEW i \in 1..n PROVE \E k \in 1..n : Ranked(list, keys)[k] = list[i]
    OBVIOUS
  <2>1. PICK k \in 1..n : order[k] = i
    BY <1>o
  <2>2. Ranked(list, keys)[k] = list[order[k]]
    BY <1>5
  <2> QED BY <2>1, <2>2
<1> QED BY <1>5, <1>7, <1>8 DEF IsRanking

-----------------------------------------------------------------------------
(* Signal discovery.                                                       *)

\* What a frame may hold, and what was measured on it for a target.
IsField(f) ==
  f.can \in CanIds /\ f.spec.length \in Nat /\ \A t \in Targets : IsMeasured(f.of[t])
AreFields(list) == DOMAIN list = 1..FieldCount /\ \A i \in 1..FieldCount : IsField(list[i])

LEMMA ScoresAreNumbers ==
  ASSUME NEW f, IsField(f), NEW t \in Targets
  PROVE  /\ ScoreCandidate(f, t).can = f.can /\ ScoreCandidate(f, t).spec = f.spec
         /\ ScoreCandidate(f, t).confidence \in Int
         /\ ScoreCandidate(f, t).key \in [1..4 -> Int]
         /\ ScoreCandidate(f, t).key[1] = ScoreCandidate(f, t).confidence
         /\ ScoreCandidate(f, t).verified =>
              /\ f.of[t].anchors >= 2 /\ f.of[t].spread
              /\ AntiCounterScore(f.series, f.spec.length) > 5
<1> DEFINE m == f.of[t]
           calibration == Calibrate(m)
           correlation == CombinedCorrelation(m, calibration.correlation)
           antiCounter == AntiCounterScore(f.series, f.spec.length)
           w == Weights(m)
           sum == w.correlation * correlation
                    + 100 * (w.anchors * calibration.score + w.physical * m.physical
                             + w.smoothness * m.smoothness + w.refresh * m.refresh
                             + w.variation * m.variation + w.antiCounter * antiCounter
                             + w.shape * m.shape + w.resolution * m.resolution)
           confidence == sum \div WeightSum(w)
           stages == Stages(m, correlation, antiCounter)
           score == ScoreCandidate(f, t)
<1>1. /\ m.anchors \in Nat /\ m.spread \in BOOLEAN
      /\ m.fit \in Int /\ m.correlation \in Int /\ m.window \in Int /\ m.physical \in Int
      /\ m.smoothness \in Int /\ m.refresh \in Int /\ m.variation \in Int /\ m.shape \in Int
      /\ m.resolution \in Int
  <2>1. IsMeasured(m)
    BY DEF IsField
  <2> HIDE DEF m
  <2>2. \A name \in Scores : m[name] \in Int
    BY <2>1 DEF IsMeasured
  <2> QED BY <2>1, <2>2 DEF IsMeasured, Scores
<1>2. f.can \in CanIds /\ f.spec.length \in Int
  BY DEF IsField
<1> HIDE DEF m
<1>3. calibration.score \in Int /\ calibration.correlation \in Int
      /\ (calibration.verified => m.anchors >= 2 /\ m.spread)
  BY <1>1 DEF Calibrate
<1>4. antiCounter \in Int
  BY DEF AntiCounterScore
<1>5. score = [signal |-> t, can |-> f.can, spec |-> f.spec, confidence |-> confidence,
               key |-> <<confidence, m.resolution, m.shape, f.spec.length>>,
               verified |-> CandidateDecision(stages, confidence)]
  BY Zenon DEF ScoreCandidate, m
<1> HIDE DEF calibration, antiCounter, score
<1>6. correlation \in Int
  BY <1>1, <1>3, DiscoveryAssumption DEF CombinedCorrelation
<1> HIDE DEF correlation
<1>7. /\ w.anchors \in Int /\ w.correlation \in Int /\ w.physical \in Int /\ w.smoothness \in Int
      /\ w.refresh \in Int /\ w.variation \in Int /\ w.antiCounter \in Int /\ w.shape \in Int
      /\ w.resolution \in Int /\ WeightSum(w) \in Nat \ {0}
  BY DiscoveryAssumption, <1>1, SMTT(30) DEF Weights, WeightSum
<1> HIDE DEF w
<1>8. sum \in Int
  <2> DEFINE a == w.correlation * correlation
             b == w.anchors * calibration.score
             c == w.physical * m.physical
             d == w.smoothness * m.smoothness
             e == w.refresh * m.refresh
             g == w.variation * m.variation
             h == w.antiCounter * antiCounter
             j == w.shape * m.shape
             k == w.resolution * m.resolution
  <2>1. a \in Int /\ b \in Int /\ c \in Int
    BY <1>1, <1>3, <1>6, <1>7
  <2>2. d \in Int /\ e \in Int /\ g \in Int
    BY <1>1, <1>7
  <2>3. h \in Int /\ j \in Int /\ k \in Int
    BY <1>1, <1>4, <1>7
  <2> HIDE DEF a, b, c, d, e, g, h, j, k
  <2>4. a + 100 * (b + c + d + e + g + h + j + k) \in Int
    BY <2>1, <2>2, <2>3
  <2> QED BY <2>4 DEF a, b, c, d, e, g, h, j, k
<1> HIDE DEF sum
<1>9. confidence \in Int
  BY <1>7, <1>8
<1> HIDE DEF confidence
<1>10. CandidateDecision(stages, confidence) => stages.scaling /\ stages.bitAnalysis
  <2>1. DOMAIN stages = {"bitAnalysis", "correlation", "scaling", "validation"}
    BY DEF Stages
  <2> HIDE DEF stages
  <2> QED BY <2>1 DEF CandidateDecision
<1>11. /\ stages.scaling => calibration.verified
       /\ stages.bitAnalysis => antiCounter >= 50
  <2> DEFINE valid == Passed(45 * m.physical + 30 * m.smoothness + 25 * m.variation)
             enough == Passed(correlation)
  <2>1. stages = [bitAnalysis |-> antiCounter >= 50, correlation |-> enough,
                  scaling |-> Calibrate(m).verified, validation |-> valid]
    BY Zenon DEF Stages
  <2> HIDE DEF stages, valid, enough
  <2>2. stages.scaling = Calibrate(m).verified /\ stages.bitAnalysis = (antiCounter >= 50)
    BY <2>1, Zenon
  <2> QED BY <2>2, Zenon DEF calibration
<1> HIDE DEF stages
<1>12. antiCounter >= 50 => antiCounter > 5
  BY <1>4
<1>13. <<confidence, m.resolution, m.shape, f.spec.length>> \in [1..4 -> Int]
  BY <1>1, <1>2, <1>9
<1>14. score.verified => calibration.verified /\ antiCounter > 5
  BY <1>5, <1>10, <1>11, <1>12
<1>15. score.verified => m.anchors >= 2 /\ m.spread /\ antiCounter > 5
  BY <1>3, <1>14
<1>16. /\ score.can = f.can /\ score.spec = f.spec /\ score.confidence = confidence
       /\ score.key = <<confidence, m.resolution, m.shape, f.spec.length>>
  BY <1>5
<1> QED BY <1>9, <1>13, <1>15, <1>16 DEF m, antiCounter, score

LEMMA RankingsAreRanked ==
  ASSUME AreFields(fields), NEW t \in Targets
  PROVE  \E n \in Nat :
           /\ DOMAIN Ranking(t) = 1..n
           /\ Ranking(t) = <<>> <=> n = 0
           /\ \A k \in 1..n :
                /\ \E i \in 1..FieldCount : Ranking(t)[k] = ScoreCandidate(fields[i], t)
                /\ Ranking(t)[k].confidence <= Ranking(t)[1].confidence
<1> DEFINE places == {i \in DOMAIN fields : PassesFilters(fields[i].series)}
           chosen == Chosen(fields, places)
           scores == [i \in DOMAIN chosen |-> ScoreCandidate(chosen[i], t)]
           keys == [i \in DOMAIN scores |-> scores[i].key]
           n == Cardinality(places)
           top == Min({MaxCandidates, n})
           ranked == Ranked(scores, keys)
<1>1. FieldCount \in Nat /\ MaxCandidates \in Nat
  BY DiscoveryAssumption, FieldsAssumption
<1>2. places \in SUBSET (1..FieldCount)
  BY DEF AreFields
<1> HIDE DEF places
<1>3. n \in Nat /\ DOMAIN chosen = 1..n /\ \A k \in 1..n : \E i \in places : chosen[k] = fields[i]
  <2>1. IsFiniteSet(1..FieldCount) /\ \A i \in 1..FieldCount : i \in Int
    BY <1>1, FS_Interval
  <2>2. IsFiniteSet(places) /\ \A i \in places : i \in Int
    BY <1>2, <2>1, FS_Subset
  <2> QED BY <2>2, ChosenAreThose
<1> HIDE DEF chosen, n
<1>4. \A k \in 1..n : \E i \in 1..FieldCount :
        IsField(fields[i]) /\ scores[k] = ScoreCandidate(fields[i], t)
  BY <1>2, <1>3 DEF AreFields
<1>5. DOMAIN scores = 1..n /\ DOMAIN keys = 1..n
  BY <1>3
<1> HIDE DEF scores
<1>6. ASSUME NEW k \in 1..n
      PROVE  keys[k] \in [1..4 -> Int] /\ keys[k][1] = scores[k].confidence
  <2>1. PICK i \in 1..FieldCount : IsField(fields[i]) /\ scores[k] = ScoreCandidate(fields[i], t)
    BY <1>4
  <2>2. scores[k].key \in [1..4 -> Int] /\ scores[k].key[1] = scores[k].confidence
    BY <2>1, ScoresAreNumbers
  <2> QED BY <1>5, <2>2
<1>7. AreKeys(keys, n, 4)
  BY <1>5, <1>6 DEF AreKeys
<1> HIDE DEF keys
<1>8. /\ DOMAIN ranked = 1..n
      /\ \A k \in 1..n : \E i, f \in 1..n :
           /\ ranked[k] = scores[i] /\ ranked[1] = scores[f] /\ keys[i][1] <= keys[f][1]
  <2>1. PICK w \in Nat : w = 4
    OBVIOUS
  <2>2. AreKeys(keys, n, w) /\ w > 0
    BY <1>7, <2>1
  <2>3. n \in Nat /\ DOMAIN scores = 1..n
    BY <1>3, <1>5
  <2>4. IsRanking(ranked, scores, keys, n)
    BY <2>2, <2>3, RankedHoldsTheList
  <2> HIDE DEF ranked
  <2> QED BY <2>4 DEF IsRanking
<1> HIDE DEF ranked
<1>9. top \in 0..n
  <2>1. top = IF MaxCandidates <= n THEN MaxCandidates ELSE n
    BY <1>1, <1>3 DEF Min
  <2> QED BY <1>1, <1>3, <2>1
<1>10. Ranking(t) = SubSeq(ranked, 1, top)
  <2>1. Ranking(t) = SubSeq(ranked, 1, Min({MaxCandidates, Len(scores)}))
    BY Zenon DEF Ranking, ranked, keys, scores, chosen, places
  <2>2. Len(scores) = n
    BY <1>3, <1>5
  <2> QED BY <2>1, <2>2
<1> HIDE DEF top
<1>11. SubSeq(ranked, 1, top) = [k \in 1..top |-> ranked[k]]
  BY <1>9, <1>3
<1>12. Ranking(t) = [k \in 1..top |-> ranked[k]]
  BY <1>10, <1>11
<1>13. ASSUME NEW k \in 1..top
       PROVE  /\ \E i \in 1..FieldCount : Ranking(t)[k] = ScoreCandidate(fields[i], t)
              /\ Ranking(t)[k].confidence <= Ranking(t)[1].confidence
  <2>1. k \in 1..n /\ 1 \in 1..top
    BY <1>3, <1>9
  <2>2. PICK i \in 1..n, f \in 1..n :
          ranked[k] = scores[i] /\ ranked[1] = scores[f] /\ keys[i][1] <= keys[f][1]
    BY <1>8, <2>1
  <2>3. ranked[k].confidence <= ranked[1].confidence
    BY <1>6, <2>2
  <2>4. Ranking(t)[k] = ranked[k] /\ Ranking(t)[1] = ranked[1]
    BY <1>12, <2>1
  <2>5. \E j \in 1..FieldCount : scores[i] = ScoreCandidate(fields[j], t)
    BY <1>4
  <2> QED BY <2>2, <2>3, <2>4, <2>5
<1>14. DOMAIN Ranking(t) = 1..top /\ (Ranking(t) = <<>> <=> top = 0)
  <2>1. top \in Nat
    BY <1>3, <1>9
  <2> QED BY <1>12, <2>1
<1>15. top \in Nat
  BY <1>3, <1>9
<1> QED BY <1>13, <1>14, <1>15

\* Once there is a dictionary, it and the analysis are what the fields give.
DiscoveryInv ==
  /\ AreFields(fields)
  /\ analysis # Null => analysis = Analysis
  /\ exported # Null => analysis # Null /\ exported = Dictionary(analysis.top)

LEMMA DiscoveryInitHolds == DiscoveryInit => DiscoveryInv
<1> SUFFICES ASSUME DiscoveryInit PROVE DiscoveryInv
  OBVIOUS
<1> DEFINE places == 1..FieldCount
<1>1. PICK spec \in [places -> Specs], can \in [places -> CanIds], m \in [places -> Measurements] :
        fields = [i \in places |-> [can |-> can[i], spec |-> spec[i], series |-> m[i].series, of |-> m[i].of]]
  BY Zenon DEF DiscoveryInit
<1>2. ASSUME NEW i \in places PROVE IsField(fields[i])
  <2>1. fields[i] = [can |-> can[i], spec |-> spec[i], series |-> m[i].series, of |-> m[i].of]
    BY <1>1
  <2>2. spec[i] \in Specs /\ can[i] \in CanIds /\ m[i] \in Measurements
    BY <1>1
  <2>3. \A s \in Specs : s.length \in Nat
    <3> SUFFICES ASSUME NEW s \in Specs PROVE s.length \in Nat
      OBVIOUS
    <3>1. s \in EnumeratedSpecs(Payload)
      BY DiscoveryAssumption, SMTT(60)
    <3>2. PICK l \in FieldLengths :
            s \in {[start |-> b, length |-> l, endian |-> e, signed |-> g] :
                   b \in {j \in 0..(8 * Payload - l) : j % StartStep(l) = 0},
                   e \in {"big", "little"}, g \in BOOLEAN}
      BY <3>1 DEF EnumeratedSpecs
    <3>3. s.length = l
      BY <3>2
    <3> QED BY <3>3 DEF FieldLengths
  <2>4. \A t \in Targets : IsMeasured(m[i].of[t])
    BY <2>2, DiscoveryAssumption, SMTT(60)
  <2> QED BY <2>1, <2>2, <2>3, <2>4 DEF IsField
<1>3. DOMAIN fields = 1..FieldCount
  BY <1>1
<1> QED BY <1>2, <1>3 DEF DiscoveryInit, DiscoveryInv, AreFields

LEMMA DiscoveryNextHolds == DiscoveryInv /\ [DiscoveryNext]_discoveryVars => DiscoveryInv'
<1> SUFFICES ASSUME DiscoveryInv, [DiscoveryNext]_discoveryVars PROVE DiscoveryInv'
  OBVIOUS
<1>1. fields' = fields /\ Analysis' = Analysis /\ AreFields(fields)' 
  <2>1. fields' = fields
    BY Zenon DEF DiscoveryNext, AnalyzeFrames, BuildSignalDictionary, discoveryVars
  <2>2. Analysis' = Analysis
    BY <2>1, Zenon DEF Analysis, Ranking
  <2> QED BY <2>1, <2>2 DEF DiscoveryInv, AreFields, IsField
<1>2. CASE AnalyzeFrames
  <2>1. analysis = Null /\ analysis' = Analysis /\ exported' = exported
    BY <1>2 DEF AnalyzeFrames
  <2> QED BY <1>1, <2>1 DEF DiscoveryInv
<1>3. CASE BuildSignalDictionary
  <2>1. analysis # Null /\ analysis' = analysis /\ exported' = Dictionary(analysis.top)
    BY <1>3 DEF BuildSignalDictionary
  <2>2. Dictionary(analysis.top)' = Dictionary(analysis.top)
    BY <2>1, Zenon DEF Dictionary, Exportable
  <2> QED BY <1>1, <2>1, <2>2 DEF DiscoveryInv
<1>4. CASE UNCHANGED discoveryVars
  <2>1. analysis' = analysis /\ exported' = exported
    BY <1>4 DEF discoveryVars
  <2>2. Dictionary(analysis.top)' = Dictionary(analysis.top)
    BY <2>1, Zenon DEF Dictionary, Exportable
  <2> QED BY <1>1, <2>1, <2>2 DEF DiscoveryInv
<1> QED BY <1>2, <1>3, <1>4 DEF DiscoveryNext

\* Whatever was measured on however many fields, a signal of the exported
\* dictionary has its scale from two anchors that spread, is no counter, tops its
\* ranking and is what the decisions and the packets say; the other signals with a
\* candidate are told as rejected (analyze_frames, build_signal_dictionary).
THEOREM ExportedNamesAreEarned == DiscoverySpec => []NamesAreEarned
<1>1. DiscoveryInv => NamesAreEarned
  <2> SUFFICES ASSUME DiscoveryInv, exported # Null PROVE NamesAreEarned
    BY DEF NamesAreEarned
  <2> DEFINE rankings == [t \in Targets |-> Ranking(t)]
             top == [t \in {u \in Targets : rankings[u] # <<>>} |-> rankings[t][1]]
             signals == [t \in Exportable(top) |-> top[t]]
  <2>1. /\ analysis.rankings = rankings
        /\ analysis.decisions = [t \in Targets |-> SignalDecision(rankings[t])]
        /\ analysis.packets = [c \in CanIds |-> AssignedSignals(rankings, c)]
        /\ analysis.top = top
    BY DEF DiscoveryInv, Analysis
  <2>2. AreFields(fields) /\ exported = Dictionary(analysis.top)
    BY DEF DiscoveryInv
  <2>3. exported.signals = signals /\ exported.rejected = DOMAIN top \ Exportable(top)
    BY <2>1, <2>2 DEF Dictionary
  <2>4. DOMAIN top = {u \in Targets : rankings[u] # <<>>}
        /\ \A t \in DOMAIN top : top[t] = rankings[t][1]
    OBVIOUS
  <2>5. \A t \in Targets : rankings[t] = Ranking(t)
    OBVIOUS
  <2> HIDE DEF rankings, top
  <2>6. DOMAIN signals = Exportable(top) /\ \A t \in Exportable(top) : signals[t] = top[t]
    OBVIOUS
  <2> HIDE DEF signals
  <2>7. Exportable(top) \subseteq DOMAIN top /\ \A t \in Exportable(top) : top[t].verified
    BY DEF Exportable
  <2>8. ASSUME NEW t \in Exportable(top)
        PROVE  LET c == exported.signals[t] IN
               /\ \E i \in DOMAIN fields :
                    /\ fields[i].can = c.can /\ fields[i].spec = c.spec
                    /\ fields[i].of[t].anchors >= 2 /\ fields[i].of[t].spread
                    /\ AntiCounterScore(fields[i].series, c.spec.length) > 5
               /\ \A i \in DOMAIN analysis.rankings[t] :
                    analysis.rankings[t][i].confidence <= c.confidence
               /\ analysis.decisions[t] = "verified" /\ t \in analysis.packets[c.can]
    <3>1. t \in Targets /\ rankings[t] # <<>> /\ rankings[t] = Ranking(t)
      BY <2>4, <2>5, <2>7, <2>8
    <3> DEFINE c == Ranking(t)[1]
    <3>2. exported.signals[t] = c /\ c.verified
      BY <2>3, <2>4, <2>6, <2>7, <2>8, <3>1
    <3>3. PICK n \in Nat :
            /\ DOMAIN Ranking(t) = 1..n
            /\ Ranking(t) = <<>> <=> n = 0
            /\ \A k \in 1..n :
                 /\ \E i \in 1..FieldCount : Ranking(t)[k] = ScoreCandidate(fields[i], t)
                 /\ Ranking(t)[k].confidence <= Ranking(t)[1].confidence
      BY <2>2, <3>1, RankingsAreRanked
    <3>4. 1 \in 1..n
      BY <3>1, <3>3
    <3>5. PICK i \in 1..FieldCount : c = ScoreCandidate(fields[i], t)
      BY <3>3, <3>4
    <3>6. i \in DOMAIN fields /\ IsField(fields[i])
      BY <2>2 DEF AreFields
    <3> DEFINE f == fields[i]
    <3>7. /\ c.can = f.can /\ c.spec = f.spec
          /\ f.of[t].anchors >= 2 /\ f.of[t].spread
          /\ AntiCounterScore(f.series, f.spec.length) > 5
      BY <3>1, <3>2, <3>5, <3>6, ScoresAreNumbers
    <3>8. c.can \in CanIds
      BY <3>6, <3>7 DEF IsField
    <3>9. analysis.decisions[t] = "verified"
      BY <2>1, <3>1, <3>2 DEF SignalDecision
    <3>10. t \in analysis.packets[c.can]
      <4>1. t \in AssignedSignals(rankings, c.can)
        BY <3>1, <3>2, <3>3, <3>4 DEF AssignedSignals
      <4> HIDE DEF c
      <4> QED BY <2>1, <3>8, <4>1
    <3>11. \A k \in DOMAIN analysis.rankings[t] : analysis.rankings[t][k].confidence <= c.confidence
      BY <2>1, <3>1, <3>3
    <3> HIDE DEF c
    <3> QED BY <3>2, <3>6, <3>7, <3>9, <3>10, <3>11
  <2>9. DOMAIN exported.signals \cup exported.rejected = {t \in Targets : analysis.decisions[t] # "unknown"}
    <3>1. DOMAIN exported.signals \cup exported.rejected = DOMAIN top
      BY <2>3, <2>6, <2>7
    <3>2. \A t \in Targets : analysis.decisions[t] # "unknown" <=> rankings[t] # <<>>
      BY <2>1 DEF SignalDecision
    <3> QED BY <2>4, <3>1, <3>2
  <2>10. DOMAIN exported.signals = Exportable(top)
    BY <2>3, <2>6
  <2> QED BY <2>8, <2>9, <2>10, Zenon DEF NamesAreEarned
<1> QED BY <1>1, DiscoveryInitHolds, DiscoveryNextHolds, PTL DEF DiscoverySpec
-----------------------------------------------------------------------------
(* The identity report.                                                    *)

AreFound ==
  /\ DOMAIN found = 1..FieldCount
  /\ \A i \in 1..FieldCount :
       found[i].spec.start \in Nat /\ found[i].spec.length \in Nat /\ IsSeen(found[i].seen)

\* A field under any class and name, with what its own measurements make of it;
\* one that they reject keeps its class and name.
Reading(i, class, name) ==
  [id |-> i, can |-> found[i].can, spec |-> found[i].spec, evidence |-> EvidenceOf(found[i]),
   class |-> class, confidence |-> Hypothesis(i).confidence, name |-> name,
   status |-> Hypothesis(i).status]
AiNames ==
  {name \in UNION {{r.suggestions[i].name : i \in DOMAIN r.suggestions} : r \in Responses} : name # Null}
Names == {Hypothesis(i).name : i \in 1..FieldCount} \cup AiNames
Readings ==
  {h \in {Reading(i, class, name) : i \in 1..FieldCount, class \in Classes, name \in Names} :
     h.status = "rejected" => h = Hypothesis(h.id)}

LEMMA EvidenceIsNumbers ==
  ASSUME AreFound, NEW i \in 1..FieldCount
  PROVE  /\ EvidenceOf(found[i]).seen = found[i].seen
         /\ EvidenceOf(found[i]).counter \in Int /\ EvidenceOf(found[i]).checksum \in Int
<1> DEFINE f == found[i]
           counter == Clamp(100 - AntiCounterScore(f.seen.series, f.spec.length))
<1>1. \A x \in Int : Clamp(x) \in Int
  <2> SUFFICES ASSUME NEW x \in Int PROVE Clamp(x) \in Int
    OBVIOUS
  <2>1. Min({100, x}) \in Int
    <3>1. PICK c \in Int : c = 100
      OBVIOUS
    <3>2. Min({c, x}) = IF c <= x THEN c ELSE x
      BY LesserAndGreater
    <3> QED BY <3>1, <3>2
  <2> HIDE DEF Min
  <2>2. Max({0, Min({100, x})}) \in Int
    BY <2>1, LesserAndGreater
  <2> QED BY <2>2 DEF Clamp
<1>2. counter \in Int
  <2>1. 100 - AntiCounterScore(f.seen.series, f.spec.length) \in Int
    BY DEF AntiCounterScore
  <2> QED BY <1>1, <2>1
<1> HIDE DEF counter
<1>3. /\ f.seen.entropy \in Int /\ f.seen.cardinality \in Int /\ f.seen.smooth \in Int
      /\ f.seen.correlation \in Int
  BY DEF AreFound, IsSeen
<1> HIDE DEF f
<1>4. ChecksumScore(f, counter) \in Int
  <2> DEFINE e == f.seen
             like == IF f.spec.length \in {8, 16, 24, 32} THEN 100 ELSE 70
             a == Clamp((100 * (e.entropy - 70)) \div 30)
             b == Clamp((100 * (e.cardinality - 45)) \div 40)
             c == Clamp((100 * e.correlation) \div 60)
             sum == 34 * a + 28 * b + 20 * (100 - e.smooth) + 18 * (100 - c)
  <2>1. a \in Int /\ b \in Int /\ c \in Int
    BY <1>1, <1>3
  <2>2. e.smooth \in Int /\ like \in Int
    BY <1>3
  <2>3. ChecksumScore(f, counter) = IF e.switch >= 60 \/ counter >= 70 THEN 0 ELSE Clamp((like * sum) \div 10000)
    BY SMTT(60) DEF ChecksumScore
  <2> HIDE DEF a, b, c, like, e
  <2>4. sum \in Int
    BY <2>1, <2>2
  <2> HIDE DEF sum
  <2>5. like * sum \in Int
    BY <2>2, <2>4
  <2>6. (like * sum) \div 10000 \in Int
    BY <2>5
  <2>7. Clamp((like * sum) \div 10000) \in Int
    BY <1>1, <2>6
  <2> QED BY <2>3, <2>7
<1>5. EvidenceOf(f) = [seen |-> f.seen, counter |-> counter, checksum |-> ChecksumScore(f, counter)]
  BY Zenon DEF EvidenceOf, counter
<1> QED BY <1>2, <1>4, <1>5 DEF f

LEMMA HypothesesAreReadings ==
  ASSUME AreFound, NEW i \in 1..FieldCount
  PROVE  /\ Hypothesis(i) \in Readings
         /\ Hypothesis(i).confidence \in Int /\ Hypothesis(i).status \in DOMAIN StatusRank
         /\ IsName(Hypothesis(i).name)
<1> DEFINE f == found[i]
           e == EvidenceOf(f)
           class == Classify(e)
           confidence == DeterministicConfidence(class, e)
           name == [text |-> SuggestedName(class, f), suffixes |-> <<>>]
           status == SafetyPolicy(class, confidence, e)
           h == Hypothesis(i)
<1>1. h = [id |-> i, can |-> f.can, spec |-> f.spec, evidence |-> e, class |-> class,
           confidence |-> confidence, name |-> name, status |-> status]
  BY Zenon DEF Hypothesis
<1>2. e.seen = f.seen /\ e.counter \in Int /\ e.checksum \in Int
  BY EvidenceIsNumbers
<1>3. /\ e.seen.unique \in Int /\ e.seen.cardinality \in Int /\ e.seen.smooth \in Int
      /\ e.seen.rate \in Int /\ e.seen.correlation \in Int /\ e.seen.event \in Int
      /\ e.seen.switch \in Int /\ e.seen.signal.class \in Classes \cup {Null}
  <2>1. IsSeen(e.seen)
    BY <1>2 DEF AreFound
  <2> HIDE DEF e
  <2> QED BY <2>1 DEF IsSeen
<1>4. class \in Classes
  <2> HIDE DEF e
  <2> QED BY <1>2, <1>3 DEF Classify, Classes, Measured, Artefacts
<1>5. confidence \in Int
  <2> HIDE DEF e, class
  <2> QED BY <1>2, <1>3, SMTT(60) DEF DeterministicConfidence
<1>6. status \in DOMAIN StatusRank
  <2> HIDE DEF e, class, confidence
  <2> QED BY DEF SafetyPolicy, StatusRank
<1>7. IsName(name)
  <2>1. <<>> \in Seq(Nat)
    OBVIOUS
  <2> HIDE DEF e, class
  <2> QED BY <2>1 DEF IsName
<1> HIDE DEF f, e, class, confidence, name, status, h
<1>8. h.name \in Names /\ h.name = name /\ h.class = class /\ h.status = status
      /\ h.confidence = confidence /\ h.id = i
  BY <1>1 DEF Names, h
<1>9. h = Reading(i, class, name)
  BY <1>1, <1>8 DEF Reading, f, e, h
<1>10. h \in Readings
  BY <1>4, <1>8, <1>9 DEF Readings, h
<1> QED BY <1>5, <1>6, <1>7, <1>8, <1>10 DEF h

\* What the sorts compare are numbers.
LEMMA KeysAreNumbers ==
  ASSUME AreFound, NEW h \in Readings
  PROVE  /\ ReportKey(h) \in [1..9 -> Int]
         /\ RejectedKey(h) \in [1..1 -> Int]
         /\ PreferenceKey(h) \in [1..8 -> Int]
<1>1. PICK i \in 1..FieldCount, class \in Classes, name \in Names : h = Reading(i, class, name)
  BY DEF Readings
<1>2. /\ h.status = Hypothesis(i).status /\ h.evidence = EvidenceOf(found[i])
      /\ h.spec = found[i].spec /\ h.confidence = Hypothesis(i).confidence
  BY <1>1 DEF Reading
<1>3. StatusRank[h.status] \in Int /\ h.confidence \in Int
  <2>1. h.confidence \in Int /\ h.status \in DOMAIN StatusRank
    BY <1>2, HypothesesAreReadings
  <2> QED BY <2>1 DEF StatusRank
<1>4. h.evidence.seen = found[i].seen /\ h.evidence.counter \in Int /\ h.evidence.checksum \in Int
  BY <1>2, EvidenceIsNumbers
<1>5. /\ h.evidence.seen.unique \in Int /\ h.evidence.seen.correlation \in Int
      /\ h.evidence.seen.event \in Int /\ h.evidence.seen.range \in Int
  <2>1. IsSeen(h.evidence.seen)
    BY <1>4 DEF AreFound
  <2> QED BY <2>1 DEF IsSeen
<1>6. h.spec.length \in Nat
  BY <1>2 DEF AreFound
<1>7. Percent(ByteAligned(h.spec)) \in Int /\ Percent(~h.spec.signed) \in Int
  BY DEF Percent
<1>8. Max({h.evidence.seen.correlation, h.evidence.seen.event}) \in Int
  BY <1>5, LesserAndGreater
<1>9. ReportKey(h) \in [1..9 -> Int]
  <2> DEFINE a == StatusRank[h.status]
             b == Max({h.evidence.seen.correlation, h.evidence.seen.event})
             c == Percent(ByteAligned(h.spec))
             d == Percent(~h.spec.signed)
             k == h.evidence.seen.unique
             l == -h.spec.length
  <2>1. a \in Int /\ b \in Int /\ c \in Int /\ d \in Int /\ k \in Int /\ l \in Int
    BY <1>3, <1>5, <1>6, <1>7, <1>8
  <2>2. ReportKey(h) = <<a, b, k, c, d, l, h.confidence, h.evidence.counter, h.evidence.checksum>>
    BY Zenon DEF ReportKey
  <2> HIDE DEF a, b, c, d, k, l
  <2> QED BY <1>3, <1>4, <2>1, <2>2
<1>10. RejectedKey(h) \in [1..1 -> Int]
  <2> DEFINE S == {100 * h.evidence.counter, 100 * h.evidence.checksum, h.confidence}
  <2>1. S \in SUBSET Int /\ IsFiniteSet(S) /\ S # {}
    <3>1. S \in SUBSET Int /\ S # {}
      BY <1>3, <1>4
    <3>2. IsFiniteSet({100 * h.evidence.counter}) /\ IsFiniteSet({100 * h.evidence.checksum})
          /\ IsFiniteSet({h.confidence})
      BY FS_Singleton
    <3>3. S = {100 * h.evidence.counter} \cup {100 * h.evidence.checksum} \cup {h.confidence}
      OBVIOUS
    <3>4. IsFiniteSet({100 * h.evidence.counter} \cup {100 * h.evidence.checksum})
      BY <3>2, FS_Union
    <3> DEFINE U == {100 * h.evidence.counter} \cup {100 * h.evidence.checksum}
    <3>5. S = U \cup {h.confidence}
      BY <3>3
    <3> HIDE DEF S, U
    <3>6. IsFiniteSet(S)
      BY <3>2, <3>4, <3>5, FS_Union DEF U
    <3> QED BY <3>1, <3>6
  <2> HIDE DEF S
  <2>2. Max(S) \in Int
    <3>1. \E m \in S : \A x \in S : m >= x
      BY <2>1, Extremes
    <3> QED BY <2>1, <3>1 DEF Max
  <2>3. RejectedKey(h) = <<Max(S)>>
    BY Zenon DEF RejectedKey, S
  <2> QED BY <2>2, <2>3
<1>11. Surplus(h) \in Int
  <2> DEFINE fewer == {b \in 0..h.spec.length : 2^b < h.evidence.seen.range + 1}
             needed == BitsNeeded(h.evidence.seen.range, h.spec.length)
  <2>1. Cardinality(fewer) \in Nat
    <3>1. IsFiniteSet(0..h.spec.length) /\ fewer \subseteq 0..h.spec.length
      BY <1>6, FS_Interval, SMTT(30)
    <3> HIDE DEF fewer
    <3> QED BY <3>1, FS_Subset, FS_CardinalityType
  <2> HIDE DEF fewer
  <2>2. PICK zero \in Int, one \in Int : zero = 0 /\ one = 1
    OBVIOUS
  <2>3. needed \in Int
    <3>1. needed = Max({one, Cardinality(fewer)})
      BY <2>2, Zenon DEF BitsNeeded, fewer
    <3>2. Cardinality(fewer) \in Int
      BY <2>1
    <3> QED BY <3>1, <3>2, LesserAndGreater
  <2> HIDE DEF needed
  <2>4. h.spec.length - needed - 2 \in Int
    BY <1>6, <2>3
  <2>5. Surplus(h) = Max({zero, h.spec.length - needed - 2})
    BY <2>2, Zenon DEF Surplus, needed
  <2> QED BY <2>4, <2>5, LesserAndGreater
<1>12. PreferenceKey(h) \in [1..8 -> Int]
  <2> DEFINE c == Percent(ByteAligned(h.spec))
             d == Percent(~h.spec.signed)
             k == h.evidence.seen.unique
             l == -h.spec.length
             m == -Surplus(h)
             a == h.evidence.seen.correlation
             b == h.evidence.seen.range
  <2>1. a \in Int /\ b \in Int /\ c \in Int /\ d \in Int /\ k \in Int /\ l \in Int /\ m \in Int
    BY <1>5, <1>6, <1>7, <1>11
  <2>2. PreferenceKey(h) = <<c, d, k, a, h.confidence, l, m, b>>
    BY Zenon DEF PreferenceKey
  <2> HIDE DEF a, b, c, d, k, l, m
  <2> QED BY <1>3, <2>1, <2>2
<1> QED BY <1>9, <1>10, <1>12

\* Filters, sorts and selections take their elements from their lists.
LEMMA ChosenStay ==
  ASSUME NEW V, NEW list \in Seq(V), NEW places \in SUBSET DOMAIN list
  PROVE  /\ Chosen(list, places) \in Seq(V)
         /\ \A k \in DOMAIN Chosen(list, places) : \E i \in places : Chosen(list, places)[k] = list[i]
         /\ \A i \in places : \E k \in DOMAIN Chosen(list, places) : Chosen(list, places)[k] = list[i]
<1>1. IsFiniteSet(places) /\ \A i \in places : i \in Int
  <2>1. DOMAIN list = 1..Len(list) /\ Len(list) \in Nat
    OBVIOUS
  <2>2. IsFiniteSet(DOMAIN list) /\ \A i \in DOMAIN list : i \in Int
    BY <2>1, FS_Interval
  <2> QED BY <2>2, FS_Subset
<1> DEFINE n == Cardinality(places)
<1>2. /\ n \in Nat /\ DOMAIN Chosen(list, places) = 1..n
      /\ \A k \in 1..n : \E i \in places : Chosen(list, places)[k] = list[i]
      /\ \A i \in places : \E k \in 1..n : Chosen(list, places)[k] = list[i]
  BY <1>1, ChosenAreThose
<1>3. Chosen(list, places) = [k \in 1..n |-> Chosen(list, places)[k]]
  <2>1. PICK order : Chosen(list, places) = [k \in 1..n |-> list[order[k]]]
    BY Zenon DEF Chosen
  <2> HIDE DEF n
  <2> QED BY <2>1
<1> HIDE DEF n
<1>4. \A k \in 1..n : Chosen(list, places)[k] \in V
  BY <1>2
<1>5. Chosen(list, places) \in [1..n -> V]
  BY <1>3, <1>4
<1>6. Chosen(list, places) \in Seq(V)
  BY <1>2, <1>5, SeqDef
<1> QED BY <1>2, <1>6

\* The list in another order: as long, and each holds what the other holds.
IsReordering(sorted, list, V) ==
  /\ sorted \in Seq(V) /\ Len(sorted) = Len(list)
  /\ \A k \in 1..Len(list) : \E i \in 1..Len(list) : sorted[k] = list[i]
  /\ \A i \in 1..Len(list) : \E k \in 1..Len(list) : sorted[k] = list[i]

LEMMA RankedStay ==
  ASSUME NEW V, NEW list \in Seq(V), NEW w \in Nat \ {0},
         NEW keys, AreKeys(keys, Len(list), w)
  PROVE  IsReordering(Ranked(list, keys), list, V)
<1> DEFINE n == Len(list)
<1>1. n \in Nat /\ DOMAIN list = 1..n /\ \A i \in 1..n : list[i] \in V
  OBVIOUS
<1> HIDE DEF n
<1>2. IsRanking(Ranked(list, keys), list, keys, n)
  <2>1. AreKeys(keys, n, w) /\ w \in Nat /\ w > 0
    BY DEF n
  <2> QED BY <1>1, <2>1, RankedHoldsTheList
<1>3. Ranked(list, keys) = [k \in 1..n |-> Ranked(list, keys)[k]]
  <2>1. PICK order : Ranked(list, keys) = [k \in DOMAIN list |-> list[order[k]]]
    BY Zenon DEF Ranked
  <2> QED BY <1>1, <2>1
<1>4. Ranked(list, keys) \in [1..n -> V]
  BY <1>1, <1>2, <1>3 DEF IsRanking
<1>5. Ranked(list, keys) \in Seq(V)
  BY <1>1, <1>4, SeqDef
<1>6. Len(Ranked(list, keys)) = n
  BY <1>1, <1>4, <1>5
<1> QED BY <1>2, <1>5, <1>6 DEF IsRanking, IsReordering, n

LEMMA AddedStay ==
  ASSUME NEW V, NEW selected \in Seq(V), NEW list \in Seq(V), NEW limit \in Int
  PROVE  AddItems(selected, list, limit) \in Seq(V)
<1> DEFINE places == {i \in DOMAIN list : list[i] \notin Range(selected)}
           new == Chosen(list, places)
           room == Min({limit - Len(selected), Len(new)})
           taken == Max({0, room})
<1>1. new \in Seq(V) /\ Len(new) \in Nat
  <2>1. places \in SUBSET DOMAIN list
    OBVIOUS
  <2> HIDE DEF places
  <2>2. new \in Seq(V)
    BY <2>1, ChosenStay
  <2> QED BY <2>2
<1> HIDE DEF new
<1>2. room \in Int /\ room <= Len(new)
  <2>1. limit - Len(selected) \in Int
    OBVIOUS
  <2> DEFINE left == limit - Len(selected)
             all == Len(new)
  <2>2. left \in Int /\ all \in Int /\ room = Min({left, all})
    BY <1>1, <2>1
  <2> HIDE DEF left, room
  <2>3. room = IF left <= all THEN left ELSE all
    <3> HIDE DEF all
    <3> QED BY <2>2, LesserAndGreater
  <2> QED BY <2>2, <2>3
<1> HIDE DEF room
<1>3. taken \in 0..Len(new)
  <2>1. PICK zero \in Int : zero = 0
    OBVIOUS
  <2>2. taken = Max({zero, room})
    BY <2>1
  <2>3. taken = IF zero >= room THEN zero ELSE room
    BY <1>2, <2>2, LesserAndGreater
  <2> HIDE DEF taken
  <2> QED BY <1>1, <1>2, <2>1, <2>3
<1>4. AddItems(selected, list, limit) = selected \o SubSeq(new, 1, taken)
  BY Zenon DEF AddItems, taken, room, new
<1> HIDE DEF taken
<1>5. SubSeq(new, 1, taken) \in Seq(V)
  BY <1>1, <1>3
<1> QED BY <1>4, <1>5

LEMMA SelectedStay ==
  ASSUME AreFound, NEW all \in Seq(Readings), NEW size \in Nat
  PROVE  SelectHypotheses(all, size) \in Seq(Readings)
<1> DEFINE keys == [i \in DOMAIN all |-> ReportKey(all[i])]
           ranked == Ranked(all, keys)
           With(statuses) == Chosen(ranked, {i \in DOMAIN ranked : ranked[i].status \in statuses})
           useful == Max({1, (82 * size) \div 100})
           wrong == Max({useful, (96 * size) \div 100})
           first == AddItems(<<>>, With({"probable", "candidate"}), useful)
           refused == With({"rejected"})
           worst == [i \in DOMAIN refused |-> RejectedKey(refused[i])]
           rejected == AddItems(first, Ranked(refused, worst), wrong)
<1>1. ranked \in Seq(Readings)
  <2>1. PICK w \in Nat \ {0} : w = 9
    OBVIOUS
  <2>2. AreKeys(keys, Len(all), w)
    <3>1. \A i \in DOMAIN all : keys[i] \in [1..9 -> Int]
      BY KeysAreNumbers
    <3>2. DOMAIN all = 1..Len(all) /\ keys \in [DOMAIN all -> [1..9 -> Int]]
      BY <3>1
    <3> QED BY <2>1, <3>2 DEF AreKeys
  <2> HIDE DEF keys
  <2> QED BY <2>2, RankedStay DEF IsReordering
<1> HIDE DEF ranked, keys
<1>2. \A statuses : With(statuses) \in Seq(Readings)
  <2> SUFFICES ASSUME NEW statuses PROVE With(statuses) \in Seq(Readings)
    OBVIOUS
  <2> DEFINE places == {i \in DOMAIN ranked : ranked[i].status \in statuses}
  <2>1. places \in SUBSET DOMAIN ranked
    OBVIOUS
  <2> HIDE DEF places
  <2>2. Chosen(ranked, places) \in Seq(Readings)
    BY <1>1, <2>1, ChosenStay
  <2> QED BY <2>2 DEF places
<1>3. useful \in Int /\ wrong \in Int
  <2>1. PICK one \in Int : one = 1
    OBVIOUS
  <2>2. (82 * size) \div 100 \in Int /\ (96 * size) \div 100 \in Int
    OBVIOUS
  <2>3. useful = Max({one, (82 * size) \div 100})
    BY <2>1
  <2>4. useful \in Int
    BY <2>2, <2>3, LesserAndGreater
  <2> HIDE DEF useful
  <2>5. wrong \in Int
    BY <2>2, <2>4, LesserAndGreater
  <2> QED BY <2>4, <2>5
<1>4. refused \in Seq(Readings) /\ With({"probable", "candidate"}) \in Seq(Readings) /\ With({"unknown"}) \in Seq(Readings)
  BY <1>2
<1> DEFINE vague == With({"unknown"})
           fit == With({"probable", "candidate"})
<1>5. vague \in Seq(Readings) /\ fit \in Seq(Readings)
  BY <1>4
<1> HIDE DEF refused, useful, wrong, fit, vague
<1>6. Ranked(refused, worst) \in Seq(Readings)
  <2>1. PICK w \in Nat \ {0} : w = 1
    OBVIOUS
  <2>2. AreKeys(worst, Len(refused), w)
    <3>1. \A i \in DOMAIN refused : worst[i] \in [1..1 -> Int]
      BY <1>4, KeysAreNumbers
    <3>2. DOMAIN refused = 1..Len(refused) /\ worst \in [DOMAIN refused -> [1..1 -> Int]]
      BY <1>4, <3>1
    <3> QED BY <2>1, <3>2 DEF AreKeys
  <2> HIDE DEF worst
  <2> QED BY <1>4, <2>2, RankedStay DEF IsReordering
<1> DEFINE sorted == Ranked(refused, worst)
           start == AddItems(<<>>, fit, useful)
           middle == AddItems(start, sorted, wrong)
           end == AddItems(middle, vague, size)
           filled == AddItems(end, ranked, size)
<1>7. sorted \in Seq(Readings)
  BY <1>6
<1> HIDE DEF sorted
<1>8. start \in Seq(Readings)
  <2>1. <<>> \in Seq(Readings)
    OBVIOUS
  <2> QED BY <1>3, <1>5, <2>1, AddedStay
<1> HIDE DEF start
<1>9. middle \in Seq(Readings)
  BY <1>3, <1>7, <1>8, AddedStay
<1> HIDE DEF middle
<1>10. end \in Seq(Readings)
  BY <1>5, <1>9, AddedStay
<1> HIDE DEF end
<1>11. filled \in Seq(Readings)
  BY <1>1, <1>10, AddedStay
<1>12. SelectHypotheses(all, size) = IF size = 0 \/ Len(all) <= size THEN ranked ELSE filled
  BY Zenon DEF SelectHypotheses, end, middle, start, sorted, vague, fit, refused, useful, wrong, ranked, keys
<1> QED BY <1>1, <1>11, <1>12

\* A suggestion names a reading and classes it; the rest stays what was measured.
LEMMA MergedIsAReading ==
  ASSUME AreFound, NEW h \in Readings, h.status # "rejected",
         NEW s, s.name # Null => s.name \in AiNames
  PROVE  MergeSuggestion(h, s) \in Readings
<1>1. PICK i \in 1..FieldCount, class \in Classes, name \in Names : h = Reading(i, class, name)
  BY DEF Readings
<1> DEFINE c == IF s.class \in Classes \ Artefacts THEN s.class ELSE h.class
           m == IF s.name = Null THEN h.name ELSE s.name
           g == MergeSuggestion(h, s)
<1>2. h.class = class /\ h.name = name
  BY <1>1 DEF Reading
<1>3. c \in Classes /\ m \in Names
  BY <1>2 DEF Names
<1>4. g = [h EXCEPT !.class = c, !.name = m]
  BY DEF MergeSuggestion
<1> HIDE DEF c, m, g
<1>5. g = Reading(i, c, m) /\ g.status = h.status
  BY <1>1, <1>4 DEF Reading
<1>6. g \in Readings
  BY <1>3, <1>5 DEF Readings
<1> QED BY <1>6 DEF g

LEMMA SuggestedStay ==
  ASSUME AreFound, NEW list \in Seq(Readings), NEW r \in Responses
  PROVE  ApplySuggestions(list, r.suggestions) \in Seq(Readings)
<1> DEFINE said == r.suggestions
           n == Len(said)
           m == Len(list)
           V == [1..m -> Readings]
           Merged(l, s) == [k \in DOMAIN l |->
                              IF l[k].id = s.id /\ l[k].status # "rejected"
                              THEN MergeSuggestion(l[k], s) ELSE l[k]]
           next == [p \in (1..n) \X V |-> Merged(p[2], said[p[1]])]
           Step(f) == [T \in SUBSET DOMAIN said |->
                         IF T = {} THEN list ELSE Merged(f[T \ {Max(T)}], said[Max(T)])]
           iter == CHOOSE iter : iter = Step(iter)
<1>1. n \in Nat /\ DOMAIN said = 1..n /\ \A i \in 1..n : said[i].name # Null => said[i].name \in AiNames
  <2>1. n \in Nat /\ DOMAIN said = 1..n
    BY IdentityAssumption DEF IsSuggested
  <2>2. \A i \in DOMAIN said : said[i].name # Null => said[i].name \in AiNames
    BY DEF AiNames
  <2> QED BY <2>1, <2>2
<1>2. m \in Nat /\ list \in V
  OBVIOUS
<1>3. ApplySuggestions(list, said) = iter[DOMAIN said]
  BY Zenon DEF ApplySuggestions, FoldLeft, MapThenFoldSet
<1>4. ASSUME NEW l \in V, NEW i \in 1..n PROVE Merged(l, said[i]) \in V
  <2> SUFFICES ASSUME NEW k \in 1..m, l[k].status # "rejected"
               PROVE  MergeSuggestion(l[k], said[i]) \in Readings
    OBVIOUS
  <2> QED BY <1>1, MergedIsAReading
<1> HIDE DEF said, n, m, V
<1>5. next \in [(1..n) \X V -> V]
  <2> HIDE DEF Merged
  <2> QED BY <1>4
<1> HIDE DEF iter, Merged
<1>6. PICK g \in [SUBSET (1..n) -> V] : IsListFold(g, n, list, next)
  <2> HIDE DEF next
  <2> QED BY <1>1, <1>2, <1>5, ListFoldExists
<1>7. g = Step(g)
  <2>1. ASSUME NEW T \in SUBSET (1..n), T # {}
        PROVE  g[T] = Merged(g[T \ {Max(T)}], said[Max(T)])
    <3>1. Max(T) \in 1..n /\ g[T \ {Max(T)}] \in V
      BY <1>1, <2>1, GreatestIndex
    <3>2. g[T] = next[<<Max(T), g[T \ {Max(T)}]>>]
      <4> HIDE DEF next
      <4> QED BY <1>6, <2>1, Zenon DEF IsListFold
    <3> QED BY <3>1, <3>2
  <2>2. g = [T \in SUBSET (1..n) |-> g[T]]
    OBVIOUS
  <2>3. g[{}] = list
    <3> HIDE DEF next
    <3> QED BY <1>6, Zenon DEF IsListFold
  <2> QED BY <1>1, <2>1, <2>2, <2>3, Zenon
<1>8. iter = Step(iter)
  <2> HIDE DEF Step
  <2> QED BY <1>7, Zenon DEF iter
<1> DEFINE Good == {T \in SUBSET (1..n) : iter[T] \in V}
<1>9. {} \in Good
  BY <1>1, <1>2, <1>8
<1>10. ASSUME NEW T \in SUBSET (1..n), T # {}, T \ {Max(T)} \in Good PROVE T \in Good
  <2>1. Max(T) \in 1..n /\ iter[T \ {Max(T)}] \in V
    BY <1>1, <1>10, GreatestIndex
  <2>2. iter[T] = Merged(iter[T \ {Max(T)}], said[Max(T)])
    BY <1>1, <1>8, <1>10, Zenon
  <2>3. iter[T] \in V
    BY <1>4, <2>1, <2>2
  <2> QED BY <2>3
<1>11. 1..n \in Good
  <2> HIDE DEF Good
  <2> QED BY <1>1, <1>9, <1>10, ListInduction
<1>12. iter[DOMAIN said] \in V
  BY <1>1, <1>11
<1> QED BY <1>2, <1>3, <1>12, SeqDef DEF V, said

\* What is kept of the probable readings: they are probable readings of the
\* list, and each of those is kept or is told by one that is.
KeptOf(list, kept) ==
  /\ \A g \in Range(kept) : g \in Range(list) /\ g.status = "probable"
  /\ \A h \in Range(list) :
       h.status = "probable" => \E g \in Range(kept) : g = h \/ SameIdentity(h, g)

LEMMA DedupedTells ==
  ASSUME AreFound, NEW list \in Seq(Readings)
  PROVE  Deduped(list) \in Seq(Readings) /\ KeptOf(list, Deduped(list))
<1> DEFINE places == {i \in DOMAIN list : list[i].status = "probable"}
           probable == Chosen(list, places)
           keys == [i \in DOMAIN probable |-> PreferenceKey(probable[i])]
           ranked == Ranked(probable, keys)
           n == Len(ranked)
           V == Seq(Readings)
           Kept(kept, h) == IF \E g \in Range(kept) : SameIdentity(h, g) THEN kept ELSE Append(kept, h)
           next == [p \in (1..n) \X V |-> Kept(p[2], ranked[p[1]])]
           Step(f) == [T \in SUBSET DOMAIN ranked |->
                         IF T = {} THEN <<>> ELSE Kept(f[T \ {Max(T)}], ranked[Max(T)])]
           iter == CHOOSE iter : iter = Step(iter)
<1>1. /\ probable \in Seq(Readings)
      /\ \A k \in DOMAIN probable : \E i \in places : probable[k] = list[i]
      /\ \A i \in places : \E k \in DOMAIN probable : probable[k] = list[i]
  <2>1. places \in SUBSET DOMAIN list
    OBVIOUS
  <2> HIDE DEF places
  <2> QED BY <2>1, ChosenStay
<1>2. Deduped(list) = iter[DOMAIN ranked]
  BY Zenon DEF Deduped, FoldLeft, MapThenFoldSet
<1> HIDE DEF probable, iter
<1>3. /\ ranked \in Seq(Readings) /\ n = Len(probable)
      /\ \A k \in 1..n : \E i \in DOMAIN probable : ranked[k] = probable[i]
      /\ \A i \in DOMAIN probable : \E k \in 1..n : ranked[k] = probable[i]
  <2>1. PICK w \in Nat \ {0} : w = 8
    OBVIOUS
  <2>2. AreKeys(keys, Len(probable), w)
    <3>1. \A i \in DOMAIN probable : keys[i] \in [1..8 -> Int]
      BY <1>1, KeysAreNumbers
    <3>2. DOMAIN probable = 1..Len(probable) /\ keys \in [DOMAIN probable -> [1..8 -> Int]]
      BY <1>1, <3>1
    <3> QED BY <2>1, <3>2 DEF AreKeys
  <2> HIDE DEF keys
  <2>3. DOMAIN probable = 1..Len(probable)
    BY <1>1
  <2> DEFINE m == Len(probable)
             sorted == Ranked(probable, keys)
  <2>4. probable \in Seq(Readings)
    BY <1>1
  <2>5. ranked = sorted /\ n = Len(sorted) /\ m = Len(probable) /\ DOMAIN probable = 1..m
    BY <2>3
  <2> HIDE DEF V, next, Kept, Step, places, ranked, n, m
  <2>6. IsReordering(sorted, probable, Readings)
    BY <2>2, <2>4, RankedStay, Zenon
  <2> HIDE DEF sorted
  <2> QED BY <2>5, <2>6 DEF IsReordering
<1> HIDE DEF ranked, keys
<1>4. n \in Nat /\ DOMAIN ranked = 1..n /\ \A i \in 1..n : ranked[i] \in Readings
  BY <1>3
<1> HIDE DEF n
<1>5. /\ \A k \in 1..n : ranked[k] \in Range(list) /\ ranked[k].status = "probable"
      /\ \A h \in Range(list) : h.status = "probable" => \E k \in 1..n : ranked[k] = h
  <2>1. \A i \in places : list[i] \in Range(list) /\ list[i].status = "probable"
    BY DEF Range
  <2>2. \A h \in Range(list) : h.status = "probable" => \E i \in places : list[i] = h
    BY DEF Range
  <2> HIDE DEF places
  <2>3. ASSUME NEW k \in 1..n PROVE \E i \in places : ranked[k] = list[i]
    <3>1. PICK j \in DOMAIN probable : ranked[k] = probable[j]
      BY <1>3, Zenon
    <3>2. PICK i \in places : probable[j] = list[i]
      BY <1>1, Zenon
    <3> QED BY <3>1, <3>2
  <2>4. ASSUME NEW i \in places PROVE \E k \in 1..n : ranked[k] = list[i]
    <3>1. PICK j \in DOMAIN probable : probable[j] = list[i]
      BY <1>1, Zenon
    <3>2. PICK k \in 1..n : ranked[k] = probable[j]
      BY <1>3, Zenon
    <3> QED BY <3>1, <3>2
  <2> QED BY <2>1, <2>2, <2>3, <2>4
<1> HIDE DEF places
<1>6. ASSUME NEW kept \in V, NEW k \in 1..n
      PROVE  /\ Kept(kept, ranked[k]) \in V
             /\ \A g \in Range(kept) : g \in Range(Kept(kept, ranked[k]))
             /\ \A g \in Range(Kept(kept, ranked[k])) : g \in Range(kept) \/ g = ranked[k]
             /\ \E g \in Range(Kept(kept, ranked[k])) : g = ranked[k] \/ SameIdentity(ranked[k], g)
  <2>1. CASE \E g \in Range(kept) : SameIdentity(ranked[k], g)
    BY <2>1
  <2>2. CASE ~ \E g \in Range(kept) : SameIdentity(ranked[k], g)
    <3> DEFINE h == ranked[k]
               more == Append(kept, h)
    <3>1. h \in Readings /\ Kept(kept, h) = more
      BY <1>4, <2>2
    <3> HIDE DEF h
    <3>2. more \in Seq(Readings) /\ Len(more) = Len(kept) + 1 /\ more[Len(kept) + 1] = h
          /\ \A i \in 1..Len(kept) : more[i] = kept[i]
      BY <3>1
    <3>3. DOMAIN more = 1..(Len(kept) + 1) /\ DOMAIN kept = 1..Len(kept) /\ Len(kept) \in Nat
      BY <3>2
    <3> HIDE DEF more
    <3>4. /\ \A g \in Range(kept) : g \in Range(more)
          /\ \A g \in Range(more) : g \in Range(kept) \/ g = h
          /\ h \in Range(more)
      BY <3>2, <3>3 DEF Range
    <3> HIDE DEF Kept
    <3> QED BY <3>1, <3>2, <3>4 DEF h
  <2> QED BY <2>1, <2>2
<1> HIDE DEF Kept
<1>7. <<>> \in V /\ Range(<<>>) = {}
  BY DEF Range
<1> HIDE DEF V
<1>8. next \in [(1..n) \X V -> V]
  BY <1>6
<1>9. PICK g \in [SUBSET (1..n) -> V] : IsListFold(g, n, <<>>, next)
  <2> HIDE DEF next
  <2> QED BY <1>4, <1>7, <1>8, ListFoldExists
<1>10. g = Step(g)
  <2>1. ASSUME NEW T \in SUBSET (1..n), T # {}
        PROVE  g[T] = Kept(g[T \ {Max(T)}], ranked[Max(T)])
    <3>1. Max(T) \in 1..n /\ g[T \ {Max(T)}] \in V
      BY <1>4, <2>1, GreatestIndex
    <3>2. g[T] = next[<<Max(T), g[T \ {Max(T)}]>>]
      <4> HIDE DEF next
      <4> QED BY <1>9, <2>1, Zenon DEF IsListFold
    <3> QED BY <3>1, <3>2
  <2>2. g = [T \in SUBSET (1..n) |-> g[T]]
    OBVIOUS
  <2>3. g[{}] = <<>>
    <3> HIDE DEF next
    <3> QED BY <1>9, Zenon DEF IsListFold
  <2> QED BY <1>4, <2>1, <2>2, <2>3, Zenon
<1>11. iter = Step(iter)
  <2> HIDE DEF Step
  <2> QED BY <1>10, Zenon DEF iter
<1> DEFINE Tells(T) ==
             /\ iter[T] \in V
             /\ \A g1 \in Range(iter[T]) : \E i \in T : g1 = ranked[i]
             /\ \A i \in T : \E g1 \in Range(iter[T]) : g1 = ranked[i] \/ SameIdentity(ranked[i], g1)
           Good == {T \in SUBSET (1..n) : Tells(T)}
<1>12. {} \in Good
  <2>1. iter[{}] = <<>>
    BY <1>4, <1>11, Zenon
  <2> QED BY <1>7, <2>1
<1>13. ASSUME NEW T \in SUBSET (1..n), T # {}, T \ {Max(T)} \in Good PROVE T \in Good
  <2> DEFINE U == T \ {Max(T)}
  <2>1. Max(T) \in T /\ Max(T) \in 1..n /\ Tells(U)
    BY <1>4, <1>13, GreatestIndex
  <2>2. iter[T] = Kept(iter[U], ranked[Max(T)])
    BY <1>4, <1>11, <1>13, Zenon
  <2>3. \A i \in T : i \in U \/ i = Max(T)
    OBVIOUS
  <2>4. \A i \in U : i \in T
    OBVIOUS
  <2> HIDE DEF U
  <2> DEFINE last == Max(T)
             kept == iter[U]
             now == iter[T]
  <2>5. kept \in V /\ last \in 1..n /\ now = Kept(kept, ranked[last])
    BY <2>1, <2>2
  <2>6. /\ now \in V
        /\ \A g1 \in Range(kept) : g1 \in Range(now)
        /\ \A g1 \in Range(now) : g1 \in Range(kept) \/ g1 = ranked[last]
        /\ \E g1 \in Range(now) : g1 = ranked[last] \/ SameIdentity(ranked[last], g1)
    <3> HIDE DEF last, kept, now
    <3> QED BY <1>6, <2>5
  <2>7. /\ \A g1 \in Range(kept) : \E i \in U : g1 = ranked[i]
        /\ \A i \in U : \E g1 \in Range(kept) : g1 = ranked[i] \/ SameIdentity(ranked[i], g1)
    BY <2>1
  <2>8. last \in T /\ \A i \in T : i \in U \/ i = last
    BY <2>1, <2>3
  <2> HIDE DEF last, kept
  <2>9. /\ \A g1 \in Range(now) : \E i \in T : g1 = ranked[i]
        /\ \A i \in T : \E g1 \in Range(now) : g1 = ranked[i] \/ SameIdentity(ranked[i], g1)
    <3> HIDE DEF now
    <3> QED BY <2>4, <2>6, <2>7, <2>8
  <2> QED BY <2>6, <2>9
<1>14. 1..n \in Good
  <2> HIDE DEF Good
  <2> QED BY <1>4, <1>12, <1>13, ListInduction
<1>15. Tells(1..n) /\ Deduped(list) = iter[1..n]
  BY <1>2, <1>4, <1>14
<1> HIDE DEF iter
<1> QED BY <1>5, <1>15, SMTT(60) DEF KeptOf, V

\* The names that may be exported: those of the readings, with a suffix.
ExportNames == {[name EXCEPT !.suffixes = Append(@, k)] : name \in Names, k \in Nat} \cup Names

LEMMA NamesAreNames ==
  ASSUME AreFound, NEW name \in Names
  PROVE  IsName(name)
<1>1. CASE name \in AiNames
  <2>1. PICK r \in Responses : \E i \in DOMAIN r.suggestions : name = r.suggestions[i].name /\ name # Null
    BY <1>1 DEF AiNames
  <2>2. IsSuggested(r.suggestions)
    BY IdentityAssumption
  <2> QED BY <2>1, <2>2 DEF IsSuggested
<1>2. CASE name \in {Hypothesis(i).name : i \in 1..FieldCount}
  <2>1. PICK i \in 1..FieldCount : name = Hypothesis(i).name
    BY <1>2
  <2> QED BY <2>1, HypothesesAreReadings
<1> QED BY <1>1, <1>2 DEF Names

\* More suffixes than names in use: one of them is free.
LEMMA UniqueIsFree ==
  ASSUME AreFound, NEW name \in Names, NEW used, IsFiniteSet(used)
  PROVE  UniqueName(name, used) \in ExportNames /\ UniqueName(name, used) \notin used
<1> DEFINE Suffixed(k) == IF k = 1 THEN name ELSE [name EXCEPT !.suffixes = Append(@, k)]
           m == Cardinality(used)
           free == {k \in 1..(m + 1) : Suffixed(k) \notin used}
           f == [k \in 1..(m + 1) |-> Suffixed(k)]
<1>1. m \in Nat
  BY FS_CardinalityType
<1>2. name.suffixes \in Seq(Nat) /\ "suffixes" \in DOMAIN name
  BY NamesAreNames DEF IsName
<1>3. \A k, l \in Nat : Suffixed(k) = Suffixed(l) => k = l
  <2> DEFINE s == name.suffixes
             Longer(k) == Append(s, k)
  <2>1. \A k \in Nat : Suffixed(k).suffixes = IF k = 1 THEN s ELSE Longer(k)
    BY <1>2
  <2>2. \A k \in Nat : Len(Longer(k)) = Len(s) + 1 /\ Longer(k)[Len(s) + 1] = k
    BY <1>2
  <2>3. Len(s) \in Nat
    BY <1>2
  <2> HIDE DEF Suffixed, Longer, s
  <2>4. \A k, l \in Nat : Suffixed(k) = Suffixed(l) =>
          (IF k = 1 THEN s ELSE Longer(k)) = (IF l = 1 THEN s ELSE Longer(l))
    BY <2>1
  <2>5. \A k \in Nat : Longer(k) # s
    BY <2>2, <2>3
  <2>6. \A k, l \in Nat : Longer(k) = Longer(l) => k = l
    BY <2>2
  <2> QED BY <2>4, <2>5, <2>6
<1> HIDE DEF m
<1>4. free # {}
  <2> SUFFICES ASSUME free = {} PROVE FALSE
    OBVIOUS
  <2>1. \A k \in 1..(m + 1) : Suffixed(k) \in used
    OBVIOUS
  <2> HIDE DEF Suffixed
  <2>2. f \in Injection(1..(m + 1), used)
    BY <1>1, <1>3, <2>1 DEF Injection, IsInjective
  <2> HIDE DEF f
  <2>3. Cardinality(1..(m + 1)) <= Cardinality(used)
    <3> DEFINE S == 1..(m + 1)
    <3> HIDE DEF S
    <3>1. f \in Injection(S, used)
      BY <2>2 DEF S
    <3>2. Cardinality(S) <= Cardinality(used)
      BY <3>1, FS_Injection
    <3> QED BY <3>2 DEF S
  <2>4. Cardinality(1..(m + 1)) = m + 1
    BY <1>1, FS_Interval
  <2> QED BY <1>1, <2>3, <2>4 DEF m
<1> HIDE DEF Suffixed
<1>5. Min(free) \in free
  <2>1. free \in SUBSET Int /\ IsFiniteSet(free)
    <3>1. IsFiniteSet(1..(m + 1))
      BY <1>1, FS_Interval
    <3> QED BY <1>1, <3>1, FS_Subset
  <2> HIDE DEF free
  <2>2. \E x \in free : \A y \in free : x <= y
    BY <1>4, <2>1, Extremes
  <2> QED BY <2>2 DEF Min
<1>6. UniqueName(name, used) = Suffixed(Min(free))
  BY Zenon DEF UniqueName, Suffixed, free, m
<1> DEFINE k == Min(free)
<1>7. k \in Nat /\ Suffixed(k) \notin used
  BY <1>1, <1>5
<1> HIDE DEF k
<1>8. Suffixed(k) \in ExportNames
  BY <1>7 DEF ExportNames, Suffixed
<1> QED BY <1>6, <1>7, <1>8 DEF k

\* The diagnostic candidates as a whole are what was kept, under some name each.
LEMMA ExportedAreKept ==
  ASSUME AreFound, NEW kept \in Seq(Readings)
  PROVE  LET c == FoldLeft(Exported, [name \in {} |-> Null], kept)
         IN  {c[name] : name \in DOMAIN c} = Range(kept)
<1> DEFINE n == Len(kept)
           AsMap(names) == [names -> Readings]
           V == UNION {AsMap(names) : names \in {u \in SUBSET ExportNames : IsFiniteSet(u)}}
           none == [name \in {} |-> Null]
           next == [p \in (1..n) \X V |-> Exported(p[2], kept[p[1]])]
           Step(f) == [T \in SUBSET DOMAIN kept |->
                         IF T = {} THEN none ELSE Exported(f[T \ {Max(T)}], kept[Max(T)])]
           iter == CHOOSE iter : iter = Step(iter)
           Values(c) == {c[name] : name \in DOMAIN c}
<1>1. n \in Nat /\ DOMAIN kept = 1..n /\ \A i \in 1..n : kept[i] \in Readings
  OBVIOUS
<1>2. FoldLeft(Exported, none, kept) = iter[DOMAIN kept]
  BY Zenon DEF FoldLeft, MapThenFoldSet
<1> HIDE DEF iter, n
<1>3. ASSUME NEW c \in V, NEW h \in Readings
      PROVE  Exported(c, h) \in V /\ Values(Exported(c, h)) = Values(c) \cup {h}
  <2> DEFINE used == DOMAIN c
             name == UniqueName(h.name, used)
             all == used \cup {name}
             d == Exported(c, h)
  <2>1. used \in SUBSET ExportNames /\ IsFiniteSet(used) /\ c \in [used -> Readings]
    OBVIOUS
  <2>2. h.name \in Names
    BY DEF Readings, Reading
  <2>3. d = [x \in all |-> IF x = name THEN h ELSE c[x]]
    BY Zenon DEF Exported
  <2> HIDE DEF used
  <2>4. name \in ExportNames /\ name \notin used
    BY <2>1, <2>2, UniqueIsFree
  <2>5. IsFiniteSet(all)
    BY <2>1, FS_AddElement
  <2> HIDE DEF name, d
  <2>6. d \in [all -> Readings] /\ all \in SUBSET ExportNames
    BY <2>1, <2>3, <2>4
  <2>7. d \in V
    BY <2>5, <2>6
  <2>8. DOMAIN c = used /\ DOMAIN d = all /\ d[name] = h /\ \A x \in used : d[x] = c[x]
    BY <2>1, <2>3, <2>4
  <2>9. Values(d) = Values(c) \cup {h}
    BY <2>8
  <2> HIDE DEF V, Values
  <2> QED BY <2>7, <2>9 DEF d
<1>4. none \in V /\ Values(none) = {}
  <2>1. none \in AsMap({}) /\ {} \in SUBSET ExportNames /\ IsFiniteSet({})
    BY FS_EmptySet
  <2> QED BY <2>1
<1> HIDE DEF V, none, Values
<1>5. next \in [(1..n) \X V -> V]
  BY <1>1, <1>3
<1>6. PICK g \in [SUBSET (1..n) -> V] : IsListFold(g, n, none, next)
  <2> HIDE DEF next
  <2> QED BY <1>1, <1>4, <1>5, ListFoldExists
<1>7. g = Step(g)
  <2>1. ASSUME NEW T \in SUBSET (1..n), T # {}
        PROVE  g[T] = Exported(g[T \ {Max(T)}], kept[Max(T)])
    <3>1. Max(T) \in 1..n /\ g[T \ {Max(T)}] \in V
      BY <1>1, <2>1, GreatestIndex
    <3>2. g[T] = next[<<Max(T), g[T \ {Max(T)}]>>]
      <4> HIDE DEF next
      <4> QED BY <1>6, <2>1, Zenon DEF IsListFold
    <3> QED BY <3>1, <3>2
  <2>2. g = [T \in SUBSET (1..n) |-> g[T]]
    OBVIOUS
  <2>3. g[{}] = none
    <3> HIDE DEF next
    <3> QED BY <1>6, Zenon DEF IsListFold
  <2> QED BY <1>1, <2>1, <2>2, <2>3, Zenon
<1>8. iter = Step(iter)
  <2> HIDE DEF Step
  <2> QED BY <1>7, Zenon DEF iter
<1> DEFINE Good == {T \in SUBSET (1..n) : iter[T] \in V /\ Values(iter[T]) = {kept[i] : i \in T}}
<1>9. {} \in Good
  <2>1. iter[{}] = none
    BY <1>1, <1>8, Zenon
  <2> QED BY <1>4, <2>1
<1>10. ASSUME NEW T \in SUBSET (1..n), T # {}, T \ {Max(T)} \in Good PROVE T \in Good
  <2> DEFINE U == T \ {Max(T)}
  <2>1. Max(T) \in T /\ Max(T) \in 1..n /\ iter[U] \in V /\ Values(iter[U]) = {kept[i] : i \in U}
    BY <1>1, <1>10, GreatestIndex
  <2>2. iter[T] = Exported(iter[U], kept[Max(T)])
    BY <1>1, <1>8, <1>10, Zenon
  <2>3. iter[T] \in V /\ Values(iter[T]) = Values(iter[U]) \cup {kept[Max(T)]}
    <3> DEFINE c == iter[U]
               h == kept[Max(T)]
    <3>1. c \in V /\ h \in Readings /\ iter[T] = Exported(c, h)
      BY <1>1, <2>1, <2>2
    <3>2. Exported(c, h) \in V /\ Values(Exported(c, h)) = Values(c) \cup {h}
      <4> HIDE DEF c, h, next, Step, Good
      <4> QED BY <1>3, <3>1
    <3> QED BY <3>1, <3>2
  <2>4. {kept[i] : i \in U} \cup {kept[Max(T)]} = {kept[i] : i \in T}
    BY <2>1
  <2> QED BY <2>1, <2>3, <2>4
<1>11. 1..n \in Good
  <2> HIDE DEF Good
  <2> QED BY <1>1, <1>9, <1>10, ListInduction
<1>12. Values(iter[1..n]) = {kept[i] : i \in 1..n}
  BY <1>11
<1>13. Values(FoldLeft(Exported, none, kept)) = Range(kept)
  BY <1>1, <1>2, <1>12 DEF Range
<1> QED BY <1>13 DEF Values, none

\* Every hypothesis of a report is a reading, and what was exported from it tells
\* its probable ones.
IdentityInv ==
  /\ AreFound
  /\ report # Null => report.list \in Seq(Readings)
  /\ candidates # Null =>
       /\ report # Null
       /\ \E kept \in Seq(Readings) :
            /\ KeptOf(report.list, kept)
            /\ {candidates[name] : name \in DOMAIN candidates} = Range(kept)

LEMMA IdentityInit_Inv == IdentityInit => IdentityInv
<1> SUFFICES ASSUME IdentityInit PROVE IdentityInv
  OBVIOUS
<1> DEFINE places == 1..FieldCount
<1>1. PICK can \in [places -> Packets], spec \in [places -> FieldSpecs], seen \in [places -> Profiles] :
        found = [i \in places |-> [can |-> can[i], spec |-> spec[i], seen |-> seen[i]]]
  BY DEF IdentityInit
<1>2. AreFound
  <2>1. DOMAIN found = places /\ \A i \in places : found[i].spec = spec[i] /\ found[i].seen = seen[i]
    BY <1>1
  <2>2. \A i \in places : IsSeen(seen[i])
    BY IdentityAssumption
  <2>3. \A i \in places : spec[i].start \in Nat /\ spec[i].length \in Nat
    BY IdentityAssumption
  <2> QED BY <2>1, <2>2, <2>3 DEF AreFound
<1>3. report = Null /\ candidates = Null
  BY DEF IdentityInit
<1> QED BY <1>2, <1>3 DEF IdentityInv

\* What depends on the fields alone.
LEMMA SameFound ==
  ASSUME found' = found
  PROVE  /\ AreFound => AreFound'
         /\ Readings' = Readings
<1>1. AreFound => AreFound'
  BY DEF AreFound
<1>2. ASSUME NEW i PROVE Hypothesis(i)' = Hypothesis(i)
  BY DEF Hypothesis
<1>3. ASSUME NEW i, NEW class, NEW name PROVE Reading(i, class, name)' = Reading(i, class, name)
  BY <1>2 DEF Reading
<1>4. Names' = Names
  BY <1>2 DEF Names, AiNames
<1>5. Readings' = Readings
  BY <1>2, <1>3, <1>4 DEF Readings
<1> QED BY <1>1, <1>5

LEMMA IdentityNext_Inv == IdentityInv /\ [IdentityNext]_identityVars => IdentityInv'
<1> SUFFICES ASSUME IdentityInv, [IdentityNext]_identityVars PROVE IdentityInv'
  OBVIOUS
<1>0. found' = found /\ AreFound
  BY DEF IdentityInv, IdentityNext, BuildReport, BuildCandidates, identityVars
<1>1. AreFound' /\ Readings' = Readings
  BY <1>0, SameFound
<1>2. CASE BuildReport
  <2>1. PICK r \in Responses, size \in ReportSizes :
          LET all == Chosen([i \in DOMAIN found |-> Hypothesis(i)], {i \in DOMAIN found : IsCandidate(found[i])})
              list == SelectHypotheses(all, size)
          IN  report' = IF r.object THEN [made |-> TRUE, list |-> ApplySuggestions(list, r.suggestions)]
                        ELSE NoReport
    BY <1>2, Zenon DEF BuildReport
  <2> DEFINE each == [i \in DOMAIN found |-> Hypothesis(i)]
             places == {i \in DOMAIN found : IsCandidate(found[i])}
             all == Chosen(each, places)
             list == SelectHypotheses(all, size)
             said == ApplySuggestions(list, r.suggestions)
  <2>2. report' = IF r.object THEN [made |-> TRUE, list |-> said] ELSE NoReport
    BY <2>1
  <2>3. each \in Seq(Readings) /\ places \in SUBSET DOMAIN each
    <3>1. DOMAIN found = 1..FieldCount /\ FieldCount \in Nat
      BY <1>0, FieldsAssumption DEF AreFound
    <3>2. \A i \in 1..FieldCount : Hypothesis(i) \in Readings
      BY <1>0, HypothesesAreReadings
    <3>3. each \in [1..FieldCount -> Readings]
      BY <3>1, <3>2
    <3> QED BY <3>1, <3>3, SeqDef
  <2> HIDE DEF each, places
  <2>4. all \in Seq(Readings)
    BY <2>3, ChosenStay
  <2> HIDE DEF all
  <2>5. list \in Seq(Readings)
    <3>1. size \in Nat
      BY IdentityAssumption
    <3> QED BY <1>0, <2>4, <3>1, SelectedStay
  <2> HIDE DEF list
  <2>6. said \in Seq(Readings)
    BY <1>0, <2>5, SuggestedStay
  <2> HIDE DEF said
  <2>7. report'.list \in Seq(Readings)
    <3>1. CASE r.object
      BY <2>2, <2>6, <3>1
    <3>2. CASE ~r.object
      <4>1. report'.list = <<>>
        BY <2>2, <3>2 DEF NoReport
      <4> QED BY <4>1
    <3> QED BY <3>1, <3>2
  <2>8. candidates' = Null
    BY <1>2 DEF BuildReport, IdentityInv
  <2> QED BY <1>1, <2>7, <2>8 DEF IdentityInv
<1>3. CASE BuildCandidates
  <2> DEFINE kept == Deduped(report.list)
  <2>1. /\ report # Null /\ report' = report
        /\ candidates' = FoldLeft(Exported, [name \in {} |-> Null], kept)
    BY <1>3, Zenon DEF BuildCandidates
  <2>2. report.list \in Seq(Readings)
    BY <2>1 DEF IdentityInv
  <2>3. kept \in Seq(Readings) /\ KeptOf(report.list, kept)
    BY <1>0, <2>2, DedupedTells
  <2> HIDE DEF kept
  <2>4. {candidates'[name] : name \in DOMAIN candidates'} = Range(kept)
    BY <1>0, <2>1, <2>3, ExportedAreKept
  <2>5. KeptOf(report'.list, kept)
    BY <2>1, <2>3
  <2> QED BY <1>1, <2>1, <2>2, <2>3, <2>4, <2>5 DEF IdentityInv
<1>4. CASE UNCHANGED identityVars
  <2>1. report' = report /\ candidates' = candidates
    BY <1>4 DEF identityVars
  <2> QED BY <1>1, <2>1 DEF IdentityInv
<1> QED BY <1>2, <1>3, <1>4 DEF IdentityNext

LEMMA IdentityInv_Promotes == IdentityInv => AiCannotPromote
<1> SUFFICES ASSUME IdentityInv PROVE AiCannotPromote
  OBVIOUS
<1>1. ASSUME report # Null, NEW h \in Range(report.list)
      PROVE  /\ h \in Readings /\ h.status = Hypothesis(h.id).status
             /\ Hypothesis(h.id).status = "rejected" => h = Hypothesis(h.id)
  <2>1. h \in Readings
    BY <1>1 DEF IdentityInv, Range
  <2>2. PICK i \in 1..FieldCount, class \in Classes, name \in Names : h = Reading(i, class, name)
    BY <2>1 DEF Readings
  <2>3. h.id = i /\ h.status = Hypothesis(i).status
    BY <2>2 DEF Reading
  <2> QED BY <2>1, <2>3 DEF Readings
<1> DEFINE told == {candidates[name] : name \in DOMAIN candidates}
<1>2. ASSUME candidates # Null
      PROVE  /\ told \subseteq {h \in Range(report.list) : h.status = "probable"}
             /\ \A h \in Range(report.list) :
                  h.status = "probable" => \E g \in told : g.can = h.can /\ (g = h \/ Overlap(g.spec, h.spec))
  <2>1. PICK kept \in Seq(Readings) : KeptOf(report.list, kept) /\ told = Range(kept)
    BY <1>2 DEF IdentityInv
  <2> HIDE DEF told
  <2>2. told \subseteq {h \in Range(report.list) : h.status = "probable"}
    BY <2>1 DEF KeptOf
  <2>3. ASSUME NEW h \in Range(report.list), h.status = "probable"
        PROVE  \E g \in told : g.can = h.can /\ (g = h \/ Overlap(g.spec, h.spec))
    <3>1. PICK g \in told : g = h \/ SameIdentity(h, g)
      BY <2>1, <2>3 DEF KeptOf
    <3>2. CASE g = h
      BY <3>1, <3>2
    <3>3. CASE SameIdentity(h, g)
      <4>1. h.can = g.can /\ Overlap(h.spec, g.spec)
        BY <3>3 DEF SameIdentity
      <4>2. {g.spec.start, h.spec.start} = {h.spec.start, g.spec.start}
            /\ {g.spec.start + g.spec.length, h.spec.start + h.spec.length}
               = {h.spec.start + h.spec.length, g.spec.start + g.spec.length}
        OBVIOUS
      <4>3. Overlap(g.spec, h.spec)
        BY <4>1, <4>2, Zenon DEF Overlap
      <4> QED BY <4>1, <4>3
    <3> QED BY <3>1, <3>2, <3>3
  <2> QED BY <2>2, <2>3
<1> QED BY <1>1, <1>2, Zenon DEF AiCannotPromote

\* Whatever an AI command suggests, the status of a hypothesis is what its own
\* measurements make of it, what they reject keeps its class, and the export
\* holds the probable ones, each itself or told by one that overlaps it.
THEOREM SuggestionsCannotPromote == IdentitySpec => []AiCannotPromote
<1>1. IdentitySpec => []IdentityInv
  BY IdentityInit_Inv, IdentityNext_Inv, PTL DEF IdentitySpec
<1> QED BY <1>1, IdentityInv_Promotes, PTL
===============================================================================
