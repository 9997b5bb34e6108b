------------------------------ MODULE ElmCapture ------------------------------
(***************************************************************************)
(* Polling a vehicle through an ELM327 adapter                             *)
(* (tools/can_reverse_workbench/elm327.py).  The capture writes a command  *)
(* and reads until a prompt or a timeout; what comes later stays in the    *)
(* port and is read as the answer to the next command.                     *)
(* The adapter is external: it answers, says that there is no data, says   *)
(* nothing, or is late; a command that reaches it at work is answered      *)
(* after the first one or breaks it off.  An answer is in two pieces, the  *)
(* first with its header; its payload never spells another header.         *)
(***************************************************************************)
EXTENDS OptionalValues, Sequences, FiniteSets, SequencesExt

CONSTANTS Pids,             \* the PIDs to poll, in the order of a cycle
          Supported,        \* those the vehicle reports
          InitCommands,     \* how many AT commands come first
          SupportedFilter,  \* the vehicle is asked what it supports
          IncludeErrors,    \* rows without an answer are written too
          MaxPolls          \* bound of the model: commands of a capture

ASSUME ElmAssumption ==
  /\ Pids # <<>> /\ InitCommands \in Nat /\ MaxPolls \in Nat /\ MaxPolls > InitCommands + 1
  /\ {SupportedFilter, IncludeErrors} \subseteq BOOLEAN

VARIABLES
  capture,   \* "idle", "awaiting", "ended" or "failed"
  polled,    \* commands sent; the last one is the one awaited
  asked,     \* its PID, Null for an AT command
  text,      \* what was read since
  active,    \* the cycle, Null as long as the vehicle is to be asked what it supports
  turn,      \* position in it
  expired,   \* the duration has passed
  rows,      \* rows of the log
  errors,    \* polls without an answer
  wire,      \* pieces that have arrived and are not read
  sending,   \* pieces the adapter has yet to send
  plugged    \* the adapter is there

elmVars == <<capture, polled, asked, text, active, turn, expired, rows, errors,
             wire, sending, plugged>>

ElmInit ==
  /\ capture = "idle" /\ polled = 0 /\ asked = Null /\ text = <<>>
  /\ active = (IF SupportedFilter THEN Null ELSE Pids) /\ turn = 1 /\ expired = FALSE
  /\ rows = <<>> /\ errors = 0
  /\ wire = <<>> /\ sending = <<>> /\ plugged = TRUE

-----------------------------------------------------------------------------
(* What comes over the wire.                                               *)
Piece(kind) == [kind |-> kind]
Header(pid, n) == [kind |-> "header", pid |-> pid, n |-> n]
Rest(pid, n) == [kind |-> "rest", pid |-> pid, n |-> n]
Prompt == Piece("prompt")

\* What the adapter may say to the n-th command.
Answers(pid, n) ==
  IF pid = Null THEN {<<Piece("chatter"), Prompt>>, <<>>}
  ELSE {<<Header(pid, n), Rest(pid, n), Prompt>>, <<Piece("negative"), Prompt>>, <<>>}
\* To a command that reaches it at work: both answers, or neither.
Replies(pid, n) ==
  {sending \o a : a \in Answers(pid, n)}
    \cup (IF sending = <<>> THEN {} ELSE {<<Piece("negative"), Prompt>>})

AdapterSends ==
  /\ plugged /\ sending # <<>>
  /\ wire' = Append(wire, Head(sending))
  /\ sending' = Tail(sending)
  /\ UNCHANGED <<capture, polled, asked, text, active, turn, expired, rows, errors, plugged>>
Unplugged ==
  /\ plugged
  /\ plugged' = FALSE /\ sending' = <<>> /\ wire' = <<>>
  /\ UNCHANGED <<capture, polled, asked, text, active, turn, expired, rows, errors>>

-----------------------------------------------------------------------------
(* The lines of a text, and the answer to a PID that is in it.             *)
\* Mutant: any Mode 01 answer will do.
AnswerAt_anyPid(read, pid) ==
  LET at == {i \in DOMAIN read : read[i].kind = "header"}
  IN  IF at = {} THEN 0 ELSE CHOOSE i \in at : \A j \in at : i <= j
\* The first line with the header of the PID, 0 if there is none.
AnswerAt(read, pid) ==
  LET at == {i \in DOMAIN read : read[i].kind = "header" /\ read[i].pid = pid}
  IN  IF at = {} THEN 0 ELSE CHOOSE i \in at : \A j \in at : i <= j
\* It decodes if it is all there; a part of it is an error like any other.
Decodes(read, i) ==
  i # 0 /\ i < Len(read) /\ read[i + 1] = [read[i] EXCEPT !.kind = "rest"]

Row(read) ==
  LET i == AnswerAt(read, asked)
  IN  [pid |-> asked, n |-> polled,
       answer |-> IF Decodes(read, i) THEN [pid |-> read[i].pid, n |-> read[i].n] ELSE Null]

\* The PIDs polled: those the vehicle reports, or all if that leaves none.
FilterSupported(known) ==
  LET filtered == SelectSeq(Pids, LAMBDA pid : pid \in known)
  IN  IF filtered = <<>> THEN Pids ELSE filtered

-----------------------------------------------------------------------------
(* One poll after the other.                                               *)
SupportPage == 0
Initialized == polled >= InitCommands
NextPid ==
  IF ~Initialized THEN Null ELSE IF active = Null THEN SupportPage ELSE active[turn]
InCycle == Initialized /\ active # Null

\* The end of a poll: the row it makes, and the turn of the next PID.  The
\* answer to what is supported is always a row, and never an error.
EndPoll(read) ==
  LET row == Row(read) IN
  /\ capture' = "idle" /\ text' = <<>>
  /\ IF asked = Null THEN UNCHANGED <<active, turn, rows, errors>>
     ELSE IF active = Null
     THEN /\ rows' = Append(rows, row)
          /\ active' = IF row.answer # Null THEN FilterSupported(Supported) ELSE Pids
          /\ UNCHANGED <<turn, errors>>
     ELSE /\ rows' = IF row.answer # Null \/ IncludeErrors THEN Append(rows, row) ELSE rows
          /\ errors' = IF row.answer = Null THEN errors + 1 ELSE errors
          /\ turn' = (turn % Len(active)) + 1
          /\ UNCHANGED active

\* A command that cannot be written fails the setup; a poll makes a row like a timeout.
Send ==
  /\ capture = "idle" /\ polled < MaxPolls
  /\ InCycle => ~expired
  /\ polled' = polled + 1 /\ asked' = NextPid
  /\ capture' = IF plugged \/ NextPid # Null THEN "awaiting" ELSE "failed"
  /\ IF plugged THEN sending' \in Replies(NextPid, polled + 1) ELSE UNCHANGED sending
  /\ UNCHANGED <<text, active, turn, expired, rows, errors, wire, plugged>>

\* All there is to read is read; a prompt anywhere in it ends the answer.
ReadChunk ==
  /\ capture = "awaiting" /\ wire # <<>>
  /\ wire' = <<>>
  /\ IF Prompt \in Range(wire) THEN EndPoll(text \o wire)
     ELSE text' = text \o wire /\ UNCHANGED <<capture, active, turn, rows, errors>>
  /\ UNCHANGED <<polled, asked, expired, sending, plugged>>

\* Mutant: the wait starts again whenever nothing has come.
TimesOut_waitsOn ==
  /\ capture = "awaiting" /\ text # <<>>
  /\ EndPoll(text)
  /\ UNCHANGED <<polled, asked, expired, wire, sending, plugged>>
TimesOut ==
  /\ capture = "awaiting"
  /\ EndPoll(text)
  /\ UNCHANGED <<polled, asked, expired, wire, sending, plugged>>

\* A read that fails loses what was read before it, and fails the setup.
ReadFails ==
  /\ capture = "awaiting" /\ ~plugged
  /\ IF asked = Null
     THEN capture' = "failed" /\ UNCHANGED <<text, active, turn, rows, errors>>
     ELSE EndPoll(<<>>)
  /\ UNCHANGED <<polled, asked, expired, wire, sending, plugged>>

DurationPasses ==
  /\ InCycle /\ ~expired
  /\ expired' = TRUE
  /\ UNCHANGED <<capture, polled, asked, text, active, turn, rows, errors, wire, sending, plugged>>
CaptureStops ==
  /\ capture = "idle" /\ InCycle /\ expired
  /\ capture' = "ended"
  /\ UNCHANGED <<polled, asked, text, active, turn, expired, rows, errors, wire, sending, plugged>>

ElmNext ==
  \/ AdapterSends \/ Unplugged
  \/ Send \/ ReadChunk \/ TimesOut \/ ReadFails
  \/ DurationPasses \/ CaptureStops

ElmSpec == ElmInit /\ [][ElmNext]_elmVars

\* The program goes on.
ElmProgress == Send \/ ReadChunk \/ TimesOut \/ CaptureStops

-----------------------------------------------------------------------------
\* However late the adapter is, a value is logged under the PID it answers, and
\* no answer is logged twice or out of order.
RowsTellNewAnswers ==
  LET told == {i \in DOMAIN rows : rows[i].answer # Null}
  IN  /\ \A i \in told : rows[i].answer.pid = rows[i].pid /\ rows[i].answer.n <= rows[i].n
      /\ \A i, j \in told : i < j => rows[i].answer.n < rows[j].answer.n

\* A capture with a duration that has begun ends, also with an adapter that is silent or gone.
CaptureEnds == polled > 0 ~> capture \in {"ended", "failed"}
===============================================================================
