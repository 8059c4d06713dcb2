---------------------------- MODULE FramedChannel ---------------------------
(***************************************************************************)
(* Length-prefix framing over a byte stream (fungi-transport, framed.rs):  *)
(* one direction, from the `send` of one FramedChannel to the `recv` of    *)
(* the other.  The stream carries bytes in order and accepts and yields    *)
(* them in pieces of any size; every await of `write_all` and `read` is a  *)
(* point where the caller may drop the future, so every piece is a step.   *)
(*                                                                         *)
(* Bytes are digits of a number system with Base digits (256 in the code)  *)
(* and HeaderLen of them make the big-endian prefix (4 in the code).       *)
(***************************************************************************)
EXTENDS Integers, Sequences

CONSTANTS
  Base, HeaderLen,     \* the byte alphabet and the length of the prefix
  Payloads,            \* what the application sends: sequences of bytes
  SendMax, RecvMax,    \* max_msg_len of the two ends
  PipeCap,             \* bytes the stream buffers
  MaxSends             \* bound: calls of send

Byte == 0 .. Base - 1

\* len >> 8k, for every k.
Shifted(len) ==
  LET quotient[k \in 0 .. HeaderLen] == IF k = 0 THEN len ELSE quotient[k - 1] \div Base
  IN  quotient

\* HeaderLen digits hold it: at most u32::MAX in the code.
Fits(len) == len \in Nat /\ Shifted(len)[HeaderLen] = 0

ASSUME FramingAssumption ==
  /\ Base \in Nat \ {0, 1} /\ HeaderLen \in Nat \ {0} /\ PipeCap \in Nat \ {0}
  /\ Fits(SendMax) /\ Fits(RecvMax)   \* the assertion in `new`
  /\ Payloads \subseteq Seq(Byte) /\ MaxSends \in Nat

VARIABLES
  sends,      \* calls of send so far
  sending,    \* the sender's future: none, or the message and the bytes it has left
  closed,     \* the sending end has dropped its channel
  pipe,       \* bytes in the stream
  reset,      \* the stream has reported a reset: what it holds is never read
  recving,    \* a recv future exists
  header,     \* the filled part of FramedChannel.header
  allocated,  \* FramedChannel.payload.len()
  payload,    \* the filled part of FramedChannel.payload
  poisoned,   \* FramedChannel.poisoned
  sent,       \* history: messages whose frames are whole, up to the first torn one
  torn,       \* history: a send ended with part of its frame written
  late,       \* history: messages whose frames were written whole after that
  received,   \* history: what recv returned
  sawClosed   \* history: recv returned Closed

sender   == <<sends, sending, closed, sent, torn, late>>
frame    == <<header, allocated, payload, poisoned>>
receiver == <<recving, frame, received, sawClosed, reset>>
vars     == <<sender, pipe, receiver>>

Idle == [msg |-> <<>>, rest |-> <<>>, busy |-> FALSE]

Init ==
  /\ sends = 0 /\ sending = Idle /\ closed = FALSE
  /\ sent = <<>> /\ torn = FALSE /\ late = <<>>
  /\ pipe = <<>> /\ reset = FALSE
  /\ recving = FALSE /\ received = <<>> /\ sawClosed = FALSE
  /\ header = <<>> /\ allocated = 0 /\ payload = <<>> /\ poisoned = FALSE

(***************************************************************************)
(* The prefix.                                                             *)
(***************************************************************************)
\* Seeded fault: least significant byte first.
PrefixReversed(len) == [i \in 1 .. HeaderLen |-> Shifted(len)[i - 1] % Base]

\* u32::to_be_bytes
Prefix(len) == [i \in 1 .. HeaderLen |-> Shifted(len)[HeaderLen - i] % Base]

\* u32::from_be_bytes
Length(bytes) ==
  LET value[i \in 0 .. Len(bytes)] == IF i = 0 THEN 0 ELSE value[i - 1] * Base + bytes[i]
  IN  value[Len(bytes)]

Frame(m) == Prefix(Len(m)) \o m

(***************************************************************************)
(* The sender.                                                             *)
(***************************************************************************)
\* A message over the limit is refused (TooLarge) before a byte is written.
Send(m) ==
  /\ ~sending.busy /\ ~closed /\ sends < MaxSends
  /\ Len(m) <= SendMax
  /\ sends' = sends + 1
  /\ sending' = [msg |-> m, rest |-> Frame(m), busy |-> TRUE]
  /\ UNCHANGED <<closed, sent, torn, late, pipe, receiver>>

\* One write of write_all: some of the bytes left, as many as the stream takes.
Write(n) ==
  /\ sending.busy
  /\ n \in 1 .. Len(sending.rest) /\ Len(pipe) + n <= PipeCap
  /\ pipe' = pipe \o SubSeq(sending.rest, 1, n)
  /\ sending' = [sending EXCEPT !.rest = SubSeq(@, n + 1, Len(@))]
  /\ LET whole == n = Len(sending.rest)
     IN  /\ sent' = IF whole /\ ~torn THEN Append(sent, sending.msg) ELSE sent
         /\ late' = IF whole /\ torn THEN Append(late, sending.msg) ELSE late
  /\ UNCHANGED <<sends, closed, torn, receiver>>

\* Everything is written and flushed: Ok.
SendDone ==
  /\ sending.busy /\ sending.rest = <<>>
  /\ sending' = Idle
  /\ UNCHANGED <<sends, closed, sent, torn, late, pipe, receiver>>

\* The frame of the current send is on the stream in part.
HalfWritten ==
  sending.busy /\ Len(sending.rest) \in 1 .. HeaderLen + Len(sending.msg) - 1

\* The future is dropped, or the stream reports an error: what is written stays.
SendAborts ==
  /\ sending.busy
  /\ torn' = (torn \/ HalfWritten)
  /\ sending' = Idle
  /\ UNCHANGED <<sends, closed, sent, late, pipe, receiver>>

\* The sending end drops its channel: the stream ends after what it holds.
Close ==
  /\ ~sending.busy /\ ~closed
  /\ closed' = TRUE
  /\ UNCHANGED <<sends, sending, sent, torn, late, pipe, receiver>>

(***************************************************************************)
(* The receiver.                                                           *)
(***************************************************************************)
\* recv is called; a poisoned channel answers Closed at once.
Recv ==
  /\ ~recving
  /\ recving' = ~poisoned
  /\ sawClosed' = (sawClosed \/ poisoned)
  /\ UNCHANGED <<sender, pipe, frame, received, reset>>

\* Seeded fault: the partial frame lives in the future.
RecvLosesFrame ==
  /\ recving
  /\ recving' = FALSE
  /\ header' = <<>> /\ payload' = <<>> /\ allocated' = 0
  /\ UNCHANGED <<sender, pipe, poisoned, received, sawClosed, reset>>

\* The future is dropped at an await, or the stream reports an error that does
\* not say that the peer is gone; the partial frame stays in the channel.
RecvAborts ==
  /\ recving
  /\ recving' = FALSE
  /\ UNCHANGED <<sender, pipe, frame, received, sawClosed, reset>>

\* The stream reports that it was reset, which recv answers with Closed: the
\* channel is not poisoned and keeps its partial frame, and the bytes on their
\* way are lost.  The sender may not know yet.
ReadReset ==
  /\ recving /\ ~reset
  /\ reset' = TRUE /\ sawClosed' = TRUE /\ recving' = FALSE
  /\ UNCHANGED <<sender, pipe, frame, received>>

\* One read into the unfilled part of a buffer of `size` bytes.
Reads(n, filled, size) ==
  /\ recving /\ ~reset /\ n \in 1 .. size - Len(filled) /\ n <= Len(pipe)
  /\ pipe' = SubSeq(pipe, n + 1, Len(pipe))

Deliver(m) ==
  /\ received' = Append(received, m)
  /\ recving' = FALSE
  /\ header' = <<>> /\ payload' = <<>> /\ allocated' = 0

\* Seeded fault: the announced length is not checked against the limit.
AnyLengthAllowed(len) == TRUE

LengthAllowed(len) == len <= RecvMax

\* A read into the header; once it is full the length is checked and the
\* payload sized, and an empty message is complete, all before the next await.
ReadHeader(n) ==
  LET filled == header \o SubSeq(pipe, 1, n)
      len    == Length(filled)
  IN  /\ Len(header) < HeaderLen
      /\ Reads(n, header, HeaderLen)
      /\ \/ /\ Len(filled) < HeaderLen
            /\ header' = filled
            /\ UNCHANGED <<recving, allocated, payload, poisoned, received>>
         \/ /\ Len(filled) = HeaderLen /\ ~LengthAllowed(len)
            /\ header' = filled /\ poisoned' = TRUE /\ recving' = FALSE
            /\ UNCHANGED <<allocated, payload, received>>
         \/ /\ Len(filled) = HeaderLen /\ LengthAllowed(len) /\ len > 0
            /\ header' = filled /\ allocated' = len
            /\ UNCHANGED <<recving, payload, poisoned, received>>
         \/ /\ Len(filled) = HeaderLen /\ len = 0
            /\ Deliver(<<>>)
            /\ UNCHANGED poisoned
      /\ UNCHANGED <<sender, sawClosed, reset>>

\* A read into the payload, which may complete the message.
ReadPayload(n) ==
  LET filled == payload \o SubSeq(pipe, 1, n)
  IN  /\ Len(header) = HeaderLen
      /\ Reads(n, payload, allocated)
      /\ \/ /\ Len(filled) < allocated
            /\ payload' = filled
            /\ UNCHANGED <<recving, header, allocated, received>>
         \/ /\ Len(filled) = allocated
            /\ Deliver(filled)
      /\ UNCHANGED <<sender, poisoned, sawClosed, reset>>

\* Seeded fault: a truncated frame is reported, and reported again.
TruncationForgotten == FALSE

\* Inside a frame the end of the stream is a truncation.
Truncated == header # <<>>

\* A read of zero bytes: a clean close between frames, else a truncation, an
\* error that poisons the channel.
ReadEnd ==
  /\ recving /\ (reset \/ (closed /\ pipe = <<>>))
  /\ recving' = FALSE
  /\ poisoned' = (poisoned \/ Truncated)
  /\ sawClosed' = (sawClosed \/ header = <<>>)
  /\ UNCHANGED <<sender, pipe, header, allocated, payload, received, reset>>

Read == \E n \in 1 .. PipeCap : ReadHeader(n) \/ ReadPayload(n)

SenderNext ==
  \/ \E m \in Payloads : Send(m)
  \/ \E n \in 1 .. PipeCap : Write(n)
  \/ SendDone \/ SendAborts \/ Close

ReceiverNext == Recv \/ RecvAborts \/ ReadReset \/ ReadEnd \/ Read

Next == SenderNext \/ ReceiverNext

Spec == Init /\ [][Next]_vars

(***************************************************************************)
(* Properties.                                                             *)
(***************************************************************************)
\* Types, and the receiver never holds a buffer larger than its limit,
\* whatever the stream announces: the limit is tested before the allocation.
TypeOK ==
  /\ sending.busy \in BOOLEAN /\ sending.rest \in Seq(Byte) /\ closed \in BOOLEAN
  /\ pipe \in Seq(Byte) /\ Len(pipe) <= PipeCap
  /\ recving \in BOOLEAN /\ poisoned \in BOOLEAN /\ sawClosed \in BOOLEAN
  /\ header \in Seq(Byte) /\ Len(header) <= HeaderLen
  /\ allocated \in 0 .. RecvMax
  /\ payload \in Seq(Byte) /\ Len(payload) <= allocated
  /\ torn \in BOOLEAN /\ reset \in BOOLEAN
  /\ \A i \in 1 .. Len(received) : received[i] \in Seq(Byte)

\* recv returns the messages sent, whole, in order, none twice and none skipped,
\* however the stream cuts them and wherever recv futures are dropped, up to
\* the first frame a dropped or failed send left half-written (cancel safety of
\* recv, doc of framed.rs).
Intact ==
  /\ \A i \in 1 .. Len(received) : i <= Len(sent) => received[i] = sent[i]
  /\ ~torn => Len(received) <= Len(sent)

\* The messages ms, numbered as they were sent, `before` others ahead of them.
Numbered(ms, before) == {<<before + i, ms[i]>> : i \in 1 .. Len(ms)}

\* The contract of channel.rs.  The messages taken are those whose frames were
\* written whole; those behind a torn frame are taken and lost.  Poison and a reset
\* are how the direction breaks, a torn frame is how it is garbled.
Contract == INSTANCE ChannelContract WITH
  Messages <- (1 .. MaxSends) \X Payloads,
  accepted <- Numbered(sent, 0) \cup Numbered(late, Len(sent)),
  inFlight <- IF poisoned \/ reset THEN {}
              ELSE {<<i, sent[i]>> : i \in Len(received) + 1 .. Len(sent)},
  received <- [i \in 1 .. Len(received) |-> <<i, received[i]>>],
  broken   <- poisoned \/ reset,
  ended    <- sawClosed,
  garbled  <- torn

\* FramedChannel implements the contract.  While no send was cut off halfway recv
\* returns what was sent and nothing else, and dropped recv futures lose nothing.
\* Behind a torn frame it may return anything, but only when it has returned every
\* message sent before.  Nothing follows a Closed, a refusal of the stream or a
\* reset, torn or not; and a Closed comes when every whole frame ahead of a torn
\* one has been received, or the stream was refused or reset.
ImplementsContract == Contract!Spec
=============================================================================
