----------------------------- MODULE SignalDecoder -----------------------------
(***************************************************************************)
(* Decoding CAN signals by a dictionary: fields of a payload               *)
(* (tools/can_reverse_workbench/bitfield.py), the frames that carry them   *)
(* and the replay of a recorded log as live values (bbb_decoder.py).       *)
(* A field is [start, length, endian, signed]; a signal is a field with    *)
(* the identifier it is in and the conditions on the payload.  Scale and   *)
(* offset are left out: a value is the raw number.                         *)
(***************************************************************************)
EXTENDS OptionalValues, Sequences, SequencesExt, Functions

CONSTANTS Dictionaries,      \* name -> signal
          RecordedLogs,      \* frames [t, id, data] in the order of their times
          Repeats,           \* whether the replay starts again at its end
          StaleAfter,        \* time after the end of a log that is not repeated
          MaxReplayTime      \* bound of the model

\* parse_can_log gives the frames in the order of their times; a payload is bytes.
ASSUME DecoderAssumption ==
  /\ Repeats \subseteq BOOLEAN /\ StaleAfter \in Nat /\ MaxReplayTime \in Nat
  /\ \A frames \in RecordedLogs :
       /\ Len(frames) \in Nat /\ DOMAIN frames = 1..Len(frames)
       /\ \A i \in DOMAIN frames : frames[i].t \in Int /\ frames[i].data \in Seq(0..255)
       /\ \A i, j \in DOMAIN frames : i <= j => frames[i].t <= frames[j].t

-----------------------------------------------------------------------------
(* Fields.                                                                 *)
Fits(data, start, length) == start >= 0 /\ length > 0 /\ start + length <= 8 * Len(data)

\* What shifting by n places multiplies by.
Pow2[n \in Nat] == IF n = 0 THEN 1 ELSE 2 * Pow2[n - 1]

\* The bits of a field, most significant bit of a byte first or last.
BigBit(data, i) == (data[1 + (i \div 8)] \div Pow2[7 - (i % 8)]) % 2
\* Mutant: the bits of a byte are taken the other way round.
LittleBit_msbFirst(data, i) == (data[1 + (i \div 8)] \div Pow2[7 - (i % 8)]) % 2
LittleBit(data, i) == (data[1 + (i \div 8)] \div Pow2[i % 8]) % 2

ThenByte(raw, byte) == 256 * raw + byte
FromBytes(bytes, endian) ==
  FoldLeft(ThenByte, 0, IF endian = "big" THEN bytes ELSE Reverse(bytes))
ThenBit(raw, bit) == 2 * raw + bit
ExtractBigBits(data, start, length) ==
  FoldLeft(ThenBit, 0, [k \in 1..length |-> BigBit(data, start + k - 1)])
ExtractLittleBits(data, start, length) ==
  FoldFunction(+, 0, [k \in 1..length |-> LittleBit(data, start + k - 1) * Pow2[k - 1]])
SignExtend(raw, length) == IF raw >= Pow2[length - 1] THEN raw - Pow2[length] ELSE raw
\* Whole bytes are read as a number, other fields bit by bit.
ExtractSignalValue(data, f) ==
  LET raw == IF f.start % 8 = 0 /\ f.length % 8 = 0
             THEN FromBytes(SubSeq(data, 1 + (f.start \div 8), (f.start + f.length) \div 8), f.endian)
             ELSE IF f.endian = "big" THEN ExtractBigBits(data, f.start, f.length)
             ELSE ExtractLittleBits(data, f.start, f.length)
  IN  IF f.signed THEN SignExtend(raw, f.length) ELSE raw

-----------------------------------------------------------------------------
(* A dictionary, and the frames it decodes.                                *)
ValidField(f) ==
  /\ f.length \in 1..32 /\ f.start \in Nat /\ f.endian \in {"big", "little"} /\ f.signed \in BOOLEAN
ValidSignal(s) ==
  /\ ValidField(s)
  /\ \A c \in s.when : c.start \in Nat /\ c.length \in 1..32 /\ c.value \in Nat
\* Loading refuses an empty dictionary and one with a bad entry.
ValidDictionary(d) == DOMAIN d # {} /\ \A name \in DOMAIN d : ValidSignal(d[name])

ConditionsMatch(when, data) ==
  \A c \in when :
    /\ Fits(data, c.start, c.length)
    /\ ExtractSignalValue(data, [start |-> c.start, length |-> c.length,
                                 endian |-> "big", signed |-> FALSE]) = c.value
Carries(frame, s) ==
  /\ frame.id = s.id /\ Fits(frame.data, s.start, s.length) /\ ConditionsMatch(s.when, frame.data)
DecodeFrame(d, frame) ==
  [name \in {m \in DOMAIN d : Carries(frame, d[m])} |-> ExtractSignalValue(frame.data, d[name])]
\* The newer values first.
Updated(latest, decoded) ==
  [name \in DOMAIN decoded \cup DOMAIN latest |->
     IF name \in DOMAIN decoded THEN decoded[name] ELSE latest[name]]

-----------------------------------------------------------------------------
(* The replay of a log.                                                    *)
VARIABLES dictionary, log, repeat,   \* as loaded
          clock, started,            \* the monotonic clock, and when this pass began
          index,                     \* frames of this pass handled
          latest,                    \* values of this pass
          asOf                       \* time in the log of the last snapshot, or Null

decoderVars == <<dictionary, log, repeat, clock, started, index, latest, asOf>>

NoValues == [name \in {} |-> 0]
\* A dictionary that is not valid, or an empty log, is refused at the start.
DecoderInit ==
  /\ dictionary \in {d \in Dictionaries : ValidDictionary(d)}
  /\ log \in RecordedLogs \ {<<>>}
  /\ repeat \in Repeats
  /\ clock = 0 /\ started = 0 /\ index = 0 /\ latest = NoValues /\ asOf = Null

LogStart == log[1].t
LogEnd == log[Len(log)].t
ReplayTime == LogStart + (clock - started)

\* The frames after the first done of them, up to the first that is later than t.
Due(done, t) == {i \in (done + 1)..Len(log) : \A j \in (done + 1)..i : log[j].t <= t}
\* They are decoded one after another, each on top of the values so far.
DecodedTo(done, values, t) ==
  [index |-> done + Cardinality(Due(done, t)),
   latest |-> MapThenFoldSet(LAMBDA decoded, v : Updated(v, decoded), values,
                             LAMBDA i : DecodeFrame(dictionary, log[i]), Max, Due(done, t))]

Shows(at, start, t) ==
  /\ index' = at.index /\ latest' = at.latest /\ started' = start /\ asOf' = t
  /\ UNCHANGED <<dictionary, log, repeat, clock>>

\* Mutant: a new pass begins with the values of the last one.
Snapshot_keepsValues ==
  IF ReplayTime > LogEnd /\ repeat THEN Shows(DecodedTo(0, latest, LogStart), clock, LogStart)
  ELSE Shows(DecodedTo(index, latest, ReplayTime), started, ReplayTime)
\* Past the end a repeated log starts again, with nothing of the pass before;
\* frames of its end that no snapshot came to are left out.
Snapshot ==
  IF ReplayTime > LogEnd /\ repeat THEN Shows(DecodedTo(0, NoValues, LogStart), clock, LogStart)
  ELSE Shows(DecodedTo(index, latest, ReplayTime), started, ReplayTime)

TimePasses ==
  /\ clock < MaxReplayTime
  /\ clock' = clock + 1
  /\ UNCHANGED <<dictionary, log, repeat, started, index, latest, asOf>>

DecoderNext == Snapshot \/ TimePasses

DecoderSpec == DecoderInit /\ [][DecoderNext]_decoderVars

\* The hub takes the values of a source that is not stale.
ReplayStale == ~repeat /\ ReplayTime > LogEnd + StaleAfter

-----------------------------------------------------------------------------
\* A payload as one number, and a field cut out of it.
PayloadNumber(data, endian) ==
  LET place(i) == IF endian = "big" THEN Len(data) - i ELSE i - 1
  IN  FoldFunction(+, 0, [i \in DOMAIN data |-> data[i] * Pow2[8 * place(i)]])
FieldOf(data, f) ==
  LET shift == IF f.endian = "big" THEN 8 * Len(data) - f.start - f.length ELSE f.start
      raw   == (PayloadNumber(data, f.endian) \div Pow2[shift]) % Pow2[f.length]
  IN  IF f.signed /\ raw * 2 >= Pow2[f.length] THEN raw - Pow2[f.length] ELSE raw

\* Byte by byte or bit by bit, in either order, a field is the same piece of the
\* payload read as one number.
FieldsAreExact ==
  \A name \in DOMAIN dictionary, i \in DOMAIN log :
    LET f == dictionary[name] IN
    Fits(log[i].data, f.start, f.length) =>
      ExtractSignalValue(log[i].data, f) = FieldOf(log[i].data, f)

\* What is shown of a signal is the newest value at or before the time of the
\* snapshot in this pass of the log: none of a later frame, none of the pass before.
ShowsThisPass ==
  asOf # Null =>
    \A name \in DOMAIN dictionary :
      LET carriers == {i \in DOMAIN log : log[i].t <= asOf /\ Carries(log[i], dictionary[name])}
      IN  IF carriers = {} THEN name \notin DOMAIN latest
          ELSE /\ name \in DOMAIN latest
               /\ latest[name] = ExtractSignalValue(log[Max(carriers)].data, dictionary[name])
===============================================================================
