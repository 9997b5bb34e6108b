-------------------------------- MODULE CanLog --------------------------------
(***************************************************************************)
(* A raw CAN log, candump or CSV, as frames in the order of their times    *)
(* (tools/can_reverse_workbench/parser.py).  A log is [csv, headed, lines];*)
(* a line has a form, a time or Null, and a payload: "frame" is one that   *)
(* can be read, "badData" has an odd or a wrong payload, "short" stops     *)
(* after its time, "noise" is anything else.  Times are whole microseconds.*)
(***************************************************************************)
EXTENDS OptionalValues, Sequences, SequencesExt

CONSTANT MaxWarnings      \* those of a log that are kept

ASSUME CanLogAssumption == MaxWarnings \in Nat \ {0}

\* Rows by time, and by the order they came in where times are the same.
ByTime(rows) ==
  LET Earlier(i, j) == rows[i].t < rows[j].t \/ (rows[i].t = rows[j].t /\ i < j)
      order == SetToSortSeq(DOMAIN rows, Earlier)
  IN  [k \in DOMAIN rows |-> rows[order[k]]]

NothingParsed == [frames |-> <<>>, implicit |-> 0, warnings |-> 0]
Warned(stats) == [stats EXCEPT !.warnings = IF @ < MaxWarnings THEN @ + 1 ELSE @]
WithFrame(stats, line, t, i) ==
  [stats EXCEPT !.frames = Append(@, [t |-> t, data |-> line.data, line |-> i])]

\* A frame without a time comes a microsecond after the last time there was,
\* that of a frame whose payload was bad included.
CandumpLine(line, stats, i) ==
  LET t  == IF line.t = Null THEN stats.implicit + 1 ELSE line.t
      at == [stats EXCEPT !.implicit = t]
  IN  CASE line.form = "comment" -> stats
        [] line.form = "frame"   -> WithFrame(at, line, t, i)
        [] line.form = "badData" -> Warned(at)
        [] OTHER                 -> Warned(stats)
\* A CSV row needs its time.
CsvLine(line, stats, i) ==
  IF line.form = "frame" /\ line.t # Null THEN WithFrame(stats, line, line.t, i) ELSE Warned(stats)
ReadLine(log, stats, i) ==
  IF log.csv THEN CsvLine(log.lines[i], stats, i) ELSE CandumpLine(log.lines[i], stats, i)

\* Without a known header no row of a CSV log is read.
ReadLines(log) ==
  IF log.csv /\ ~log.headed THEN Warned(NothingParsed)
  ELSE FoldLeftDomain(LAMBDA stats, i : ReadLine(log, stats, i), NothingParsed, log.lines)

\* A CSV row that stops after its time raises what the parser does not catch.
ParseFails(log) ==
  /\ log.csv /\ log.headed
  /\ \E i \in DOMAIN log.lines : log.lines[i].form = "short" /\ log.lines[i].t # Null
ParseCanLog(log) ==
  [frames |-> ByTime(ReadLines(log).frames), warnings |-> ReadLines(log).warnings]
===============================================================================
