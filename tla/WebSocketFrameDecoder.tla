------------------------- MODULE WebSocketFrameDecoder -------------------------
(***************************************************************************)
(* The decoder of WebSocket frames in the display                          *)
(* (src/data/WebSocketFrameDecoder.cpp).  The peer sends a stream of       *)
(* frames; the socket cuts its bytes anywhere and feeds them piece by      *)
(* piece.  A frame of the peer is [fin, opcode, ext, mask, payload]: ext   *)
(* holds the bytes of an extended length, as the peer declares it.         *)
(***************************************************************************)
EXTENDS Integers, Sequences, SequencesExt

CONSTANTS MaxPayload, MaxBuffer,      \* kMaxPayloadBytes, kMaxBufferBytes
          Streams                     \* sequences of frames of a peer

Byte == 0..255
\* What the peer declares, as far as three bytes can say it.
Declared(f) ==
  CASE Len(f.ext) = 0 -> Len(f.payload)
    [] Len(f.ext) = 2 -> 256 * f.ext[1] + f.ext[2]
    [] Len(f.ext) = 8 -> 256 * (256 * f.ext[6] + f.ext[7]) + f.ext[8]
TooLong(f) == Declared(f) > MaxPayload \/ (Len(f.ext) = 8 /\ \E i \in 1..5 : f.ext[i] # 0)
\* A frame that is not refused for its length has the length it declares.
IsSent(f) ==
  /\ f.fin \in BOOLEAN /\ f.opcode \in 0..15
  /\ f.ext \in Seq(Byte) /\ Len(f.ext) \in {0, 2, 8}
  /\ f.mask \in Seq(Byte) /\ Len(f.mask) \in {0, 4}
  /\ f.payload \in Seq(Byte) /\ (Len(f.ext) = 0 => Len(f.payload) <= 125)
  /\ TooLong(f) \/ Declared(f) = Len(f.payload)

ASSUME FrameDecoderAssumption ==
  /\ MaxPayload \in Nat \ {0} /\ MaxPayload <= 65536
  /\ MaxBuffer \in Nat /\ MaxBuffer >= MaxPayload + 14
ASSUME StreamsAssumption ==
  \A frames \in Streams : frames \in Seq(Range(frames)) /\ \A i \in DOMAIN frames : IsSent(frames[i])

VARIABLES stream,     \* what the peer sends on this connection
          fed,        \* bytes of it that were fed
          decoder,    \* [buffer, fragment, isText, closed, failed]
          told        \* the events of this connection so far

frameVars == <<stream, fed, decoder, told>>

-----------------------------------------------------------------------------
(* The peer.                                                               *)
Xor(a, b) ==
  LET bit(w) == IF (a \div w) % 2 = (b \div w) % 2 THEN 0 ELSE w
  IN  bit(1) + bit(2) + bit(4) + bit(8) + bit(16) + bit(32) + bit(64) + bit(128)
Masked(payload, mask) ==
  IF mask = <<>> THEN payload ELSE [i \in DOMAIN payload |-> Xor(payload[i], mask[1 + ((i - 1) % 4)])]
Encoded(f) ==
  <<(IF f.fin THEN 128 ELSE 0) + f.opcode,
    (IF f.mask = <<>> THEN 0 ELSE 128)
      + (CASE f.ext = <<>> -> Len(f.payload) [] Len(f.ext) = 2 -> 126 [] OTHER -> 127)>>
    \o f.ext \o f.mask \o Masked(f.payload, f.mask)
Bytes == FlattenSeq([i \in DOMAIN stream |-> Encoded(stream[i])])

-----------------------------------------------------------------------------
(* Decoding.                                                               *)
FreshDecoder ==
  [buffer |-> <<>>, fragment |-> <<>>, isText |-> FALSE, closed |-> FALSE, failed |-> FALSE]
Failed(d) == [FreshDecoder EXCEPT !.failed = TRUE]

\* Mutant: a length of 64 bits is truncated to 32 before it is compared.
LengthOf_int(bytes) ==
  FoldLeft(LAMBDA n, b : 256 * n + b, 0, SubSeq(bytes, IF Len(bytes) = 8 THEN 5 ELSE 1, Len(bytes)))
\* One more byte of an extended length; how far beyond every limit it is makes
\* no difference.
WithByte(length, b) == IF length > 65536 THEN length ELSE 256 * length + b
LengthOf(bytes) == FoldLeft(WithByte, 0, bytes)

\* What the first bytes of the buffer say: that more are needed, or where the
\* mask begins and how long the payload is.
FrameHeader(buffer) ==
  IF Len(buffer) < 2 THEN [complete |-> FALSE]
  ELSE LET short == buffer[2] % 128
           ext   == CASE short = 126 -> 2 [] short = 127 -> 8 [] OTHER -> 0
       IN  IF Len(buffer) < 2 + ext THEN [complete |-> FALSE]
           ELSE [complete |-> TRUE, fin |-> buffer[1] >= 128, opcode |-> buffer[1] % 16,
                 masked |-> buffer[2] >= 128, offset |-> 2 + ext,
                 length |-> IF ext = 0 THEN short ELSE LengthOf(SubSeq(buffer, 3, 2 + ext))]

Event(type, payload) == [type |-> type, payload |-> payload]
NoFragment(d) == [d EXCEPT !.fragment = <<>>, !.isText = FALSE]

\* The frame that has been taken from the buffer: [d, events].
Taken(d, events, h, payload) ==
  CASE h.opcode = 0 /\ d.isText ->
         IF Len(d.fragment) + Len(payload) > MaxPayload THEN [d |-> Failed(d), events |-> events]
         ELSE IF h.fin
         THEN [d |-> NoFragment(d), events |-> Append(events, Event("text", d.fragment \o payload))]
         ELSE [d |-> [d EXCEPT !.fragment = @ \o payload], events |-> events]
    [] h.opcode = 1 /\ h.fin -> [d |-> NoFragment(d), events |-> Append(events, Event("text", payload))]
    [] h.opcode = 1 /\ ~h.fin -> [d |-> [d EXCEPT !.fragment = payload, !.isText = TRUE], events |-> events]
    [] h.opcode = 8 -> [d |-> [d EXCEPT !.buffer = <<>>, !.closed = TRUE],
                        events |-> Append(events, Event("close", payload))]
    [] h.opcode = 9 -> [d |-> d, events |-> Append(events, Event("ping", payload))]
    [] OTHER -> [d |-> d, events |-> events]

\* One round of the loop over the buffer, on [d, events]; nothing changes any
\* more when the buffer begins with no whole frame.
DecodeFirst(s) ==
  LET h     == FrameHeader(s.d.buffer)
      start == h.offset + (IF h.masked THEN 4 ELSE 0)
      end   == start + h.length
  IN  IF s.d.failed \/ s.d.closed \/ ~h.complete THEN s
      ELSE IF h.length > MaxPayload THEN [d |-> Failed(s.d), events |-> s.events]
      ELSE IF Len(s.d.buffer) < end THEN s
      ELSE Taken([s.d EXCEPT !.buffer = SubSeq(@, end + 1, Len(@))], s.events, h,
                 Masked(SubSeq(s.d.buffer, start + 1, end), SubSeq(s.d.buffer, h.offset + 1, start)))
\* A frame has two bytes or more, so there are fewer frames than bytes.
DecodeBuffered(d, events) ==
  LET after[k \in 0..Len(d.buffer)] ==
        IF k = 0 THEN [d |-> d, events |-> events] ELSE DecodeFirst(after[k - 1])
  IN  after[Len(d.buffer)]

\* One slice of the bytes goes into the buffer, as many as it has room for.
FeedSlice(s) ==
  LET room == MaxBuffer - Len(s.d.buffer)
      take == IF room < Len(s.rest) THEN room ELSE Len(s.rest)
      next == DecodeBuffered([s.d EXCEPT !.buffer = @ \o SubSeq(s.rest, 1, take)], s.events)
  IN  IF s.d.failed \/ s.d.closed \/ s.rest = <<>> THEN s
      ELSE IF room <= 0 THEN [s EXCEPT !.d = Failed(@)]
      ELSE [d |-> next.d, events |-> next.events, rest |-> SubSeq(s.rest, take + 1, Len(s.rest))]
Fed(d, events, data) ==
  LET after[k \in 0..Len(data)] ==
        IF k = 0 THEN [d |-> d, events |-> events, rest |-> data] ELSE FeedSlice(after[k - 1])
  IN  after[Len(data)]

-----------------------------------------------------------------------------
FrameInit == stream \in Streams /\ fed = 0 /\ decoder = FreshDecoder /\ told = <<>>

Feed ==
  \E n \in 1..(Len(Bytes) - fed) :
    LET next == Fed(decoder, told, SubSeq(Bytes, fed + 1, fed + n)) IN
    /\ fed' = fed + n
    /\ decoder' = next.d /\ told' = next.events
    /\ UNCHANGED stream

\* A new connection of the client begins with reset().
Reset ==
  /\ fed > 0
  /\ fed' = 0 /\ decoder' = FreshDecoder /\ told' = <<>>
  /\ UNCHANGED stream

FrameNext == Feed \/ Reset

FrameSpec == FrameInit /\ [][FrameNext]_frameVars

-----------------------------------------------------------------------------
\* What a whole frame adds to m, which has read what comes before it.
Understood(m, f) ==
  CASE f.opcode = 1 /\ f.fin -> [m EXCEPT !.events = Append(@, Event("text", f.payload)), !.part = <<>>]
    [] f.opcode = 1 /\ ~f.fin -> [m EXCEPT !.part = <<f.payload>>]
    [] f.opcode = 0 /\ m.part # <<>> ->
         IF Len(m.part[1] \o f.payload) > MaxPayload THEN [m EXCEPT !.over = "failed"]
         ELSE IF f.fin THEN [m EXCEPT !.events = Append(@, Event("text", m.part[1] \o f.payload)), !.part = <<>>]
         ELSE [m EXCEPT !.part = <<@[1] \o f.payload>>]
    [] f.opcode = 9 -> [m EXCEPT !.events = Append(@, Event("ping", f.payload))]
    [] f.opcode = 8 -> [m EXCEPT !.events = Append(@, Event("close", f.payload)), !.over = "closed"]
    [] OTHER -> m
\* What frame after frame of the stream means, with its first `here` bytes here:
\* a frame that declares too much is refused as soon as its length is there, and
\* so is a message grown too long; nothing is read after that or after a close.
Meant(here, m, f) ==
  LET end == m.at + Len(Encoded(f))
  IN  IF m.over # "no" THEN m
      ELSE IF here < m.at + 2 + Len(f.ext) THEN [m EXCEPT !.over = "waits"]
      ELSE IF TooLong(f) THEN [m EXCEPT !.over = "failed"]
      ELSE IF here < end THEN [m EXCEPT !.over = "waits"]
      ELSE Understood([m EXCEPT !.at = end], f)
Meanings(here) ==
  LET upTo[k \in 0..Len(stream)] ==
        IF k = 0 THEN [at |-> 0, over |-> "no", part |-> <<>>, events |-> <<>>]
        ELSE Meant(here, upTo[k - 1], stream[k])
  IN  upTo

\* Wherever the bytes are cut, and whatever their declared lengths, the events
\* are those of the frames sent: none lost, early, joined or of another
\* connection; the limits refuse what exceeds them and nothing else, and what is
\* buffered is what a frame still lacks (WebSocketFrameDecoder::feed, decodeBuffered).
EventsIgnoreCuts ==
  LET m == Meanings(fed)[Len(stream)] IN
  /\ told = m.events
  /\ decoder.failed <=> m.over = "failed"
  /\ decoder.closed <=> m.over = "closed"
  /\ m.over \notin {"failed", "closed"} => decoder.buffer = SubSeq(Bytes, m.at + 1, fed)

\* What is left of an unfinished frame leaves room in the buffer, as a comment of
\* feed says: no peer that goes on is refused for want of it.
LeftoverHasRoom ==
  ~decoder.failed /\ ~decoder.closed => Len(decoder.buffer) < MaxBuffer
================================================================================
