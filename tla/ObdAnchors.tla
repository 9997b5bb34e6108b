------------------------------ MODULE ObdAnchors ------------------------------
(***************************************************************************)
(* OBD Mode 01 answers and the lines of an anchor log                      *)
(* (tools/can_reverse_workbench/obd_anchors.py).  A payload is a sequence  *)
(* of bytes; the value a PID decodes to is told by the bytes it is made    *)
(* from.  A line of a log is a record with the keys its form has.          *)
(***************************************************************************)
EXTENDS OptionalValues, Sequences, FiniteSets, SequencesExt

CONSTANT StandardPids     \* PID -> [signal, length]: the decoders there are

ASSUME ObdAssumption ==
  \A pid \in DOMAIN StandardPids : pid \in 0..255 /\ StandardPids[pid].length \in {1, 2}

ModeOne == 65              \* 0x41, which opens every answer
SupportedPages == {0, 32, 64, 96, 128, 160, 192}

\* What a line comes to: nothing usable, or the PID (Null for a plain signal),
\* its values and the PIDs it reports as supported.
Undecoded == [ok |-> FALSE]
Decoded(pid, values, supported) ==
  [ok |-> TRUE, pid |-> pid, values |-> values, supported |-> supported]

\* A single-frame length byte before the answer is dropped, and what is past it.
StripPrefix(data) ==
  IF Len(data) >= 3 /\ data[1] <= 7 /\ Len(data) >= data[1] + 1 /\ data[2] = ModeOne
  THEN SubSeq(data, 2, data[1] + 1) ELSE data

\* Bit i, the first one high, says that the PID i + 1 past the page is there.
SupportedBy(page, data) ==
  {page + i + 1 : i \in {j \in 0..31 : (data[1 + (j \div 8)] \div 2^(7 - (j % 8))) % 2 = 1}}

DecodeMode01(payload) ==
  LET data == StripPrefix(payload)
      pid  == data[2]
      rest == SubSeq(data, 3, Len(data))
  IN  IF Len(data) < 2 \/ data[1] # ModeOne THEN Undecoded
      ELSE IF pid \in SupportedPages
      THEN IF Len(rest) < 4 THEN Undecoded ELSE Decoded(pid, {}, SupportedBy(pid, rest))
      ELSE IF pid \notin DOMAIN StandardPids THEN Decoded(pid, {}, {})
      ELSE IF Len(rest) < StandardPids[pid].length THEN Undecoded
      ELSE Decoded(pid, {<<StandardPids[pid].signal, SubSeq(rest, 1, StandardPids[pid].length)>>}, {})

\* A line with none of the forms, or with one that cannot be read, is Undecoded.
ParseItem(item) ==
  CASE item.form = "response" -> DecodeMode01(item.bytes)
    [] item.form = "pidData"  -> DecodeMode01(<<ModeOne, item.pid>> \o item.bytes)
    [] item.form = "signals"  -> Decoded(Null, item.values, {})
    [] OTHER                  -> Undecoded

-----------------------------------------------------------------------------
(* A whole log in memory, as a guided session is built from it.            *)
Comments(log) == {i \in DOMAIN log : log[i].form = "comment"}
\* JSON that is no object at all raises what neither reader of a log catches.
Unreadable(log) == \E i \in DOMAIN log : log[i].form = "scalar"
UndecodedLines(log) ==
  {i \in DOMAIN log : i \notin Comments(log) /\ ~ParseItem(log[i]).ok}
DecodedLines(log) == DOMAIN log \ (Comments(log) \cup UndecodedLines(log))

PidsSeen(log) == {ParseItem(log[i]).pid : i \in DecodedLines(log)} \ {Null}
PidsSupported(log) == UNION {ParseItem(log[i]).supported : i \in DecodedLines(log)}
\* The samples, line by line.
Samples(log) ==
  LET OfLine(i) ==
        IF i \notin DecodedLines(log) THEN <<>>
        ELSE SetToSeq({[t |-> log[i].t, signal |-> v[1], value |-> v[2],
                        pid |-> ParseItem(log[i]).pid, line |-> i] : v \in ParseItem(log[i]).values})
  IN  FlattenSeq([i \in DOMAIN log |-> OfLine(i)])
===============================================================================
