------------------------------- MODULE Frames -------------------------------
(***************************************************************************)
(* internal/lingmaipc/transport.go: frames read off the runtime's pipe or  *)
(* websocket.  A frame is a header, lines with its body's length among     *)
(* them, an empty line and the body.  A pipe delivers any number of bytes, *)
(* and a websocket message need not be one frame: both readers must find   *)
(* the frames again, wherever the stream is cut.                           *)
(*                                                                         *)
(* A token is a header line's text, a line break or a character of a body. *)
(***************************************************************************)
EXTENDS Integers, SequencesExt

CONSTANTS MaxFrames, Bodies  \* Bodies: sequences of tokens; a body may have line breaks

Token == {"length", "other", "break", "char"} \X Nat
Length(n) == <<"length", n>>
Other == <<"other", 0>>       \* another header line
Break == <<"break", 0>>

ASSUME FramesAssumption == MaxFrames \in Nat /\ Bodies \subseteq Seq(Token)

VARIABLES
  transport,  \* "pipe" or "websocket"
  sent,       \* the frames the runtime writes: [before, body] (before: header lines first)
  wire,       \* tokens not yet delivered
  buffer,     \* tokens delivered and not yet read
  frames,     \* bodies read
  reader      \* "reading", "failed" or "ended"

framesVars == <<transport, sent, wire, buffer, frames, reader>>

\* The runtime gives the length first or last, or by mistake not at all.
Encoded(frame) ==
  LET length == <<Length(Len(frame.body)), Break>>
      other == <<Other, Break>>
      header == CASE frame.header = "plain" -> length
                  [] frame.header = "first" -> length \o other
                  [] frame.header = "last" -> other \o length
                  [] frame.header = "without" -> other
  IN  header \o <<Break>> \o frame.body

FramesInit ==
  /\ transport \in {"pipe", "websocket"}
  /\ sent \in UNION {[1..n -> [header : {"plain", "first", "last", "without"}, body : Bodies]] : n \in 0..MaxFrames}
  /\ wire = FlattenSeq([i \in DOMAIN sent |-> Encoded(sent[i])])
  /\ buffer = <<>> /\ frames = <<>> /\ reader = "reading"

-----------------------------------------------------------------------------

IsLength(token) == token[1] = "length"

\* The frame at the head of the buffer, given where its header's last line break
\* is and which of the length lines counts.
Cut(end, pick(_)) ==
  LET lengths == {i \in 1..end : IsLength(buffer[i])} IN
  IF lengths = {} THEN [kind |-> "error"]
  ELSE LET n == buffer[pick(lengths)][2] IN
       IF Len(buffer) - end < n THEN [kind |-> "more"]
       ELSE [kind |-> "frame", body |-> SubSeq(buffer, end + 1, end + n),
             rest |-> SubSeq(buffer, end + n + 1, Len(buffer))]

\* Line by line to the first empty line; the last length given counts.
framedReader ==
  LET empty == {i \in DOMAIN buffer : buffer[i] = Break /\ (i = 1 \/ buffer[i - 1] = Break)}
  IN  IF empty = {} THEN [kind |-> "more"] ELSE Cut(Min(empty), Max)

\* Up to the first two line breaks together; the first length given counts.
tryReadBufferedFrame ==
  LET two == {i \in 1..(Len(buffer) - 1) : buffer[i] = Break /\ buffer[i + 1] = Break}
  IN  IF two = {} THEN [kind |-> "more"] ELSE Cut(Min(two) + 1, Min)

Reading == IF transport = "pipe" THEN framedReader ELSE tryReadBufferedFrame

\* Mutant: what came behind the frame is thrown away.
ReadFrameAlone ==
  /\ reader = "reading" /\ Reading.kind = "frame"
  /\ frames' = Append(frames, Reading.body)
  /\ buffer' = <<>>
  /\ UNCHANGED <<transport, sent, wire, reader>>

\* The read loop takes a frame and asks for the next.
ReadFrame ==
  /\ reader = "reading" /\ Reading.kind = "frame"
  /\ frames' = Append(frames, Reading.body)
  /\ buffer' = Reading.rest
  /\ UNCHANGED <<transport, sent, wire, reader>>

\* The loop ends with the error.
ReadFails ==
  /\ reader = "reading" /\ Reading.kind = "error"
  /\ reader' = "failed"
  /\ UNCHANGED <<transport, sent, wire, buffer, frames>>

\* A read of the pipe, or a message of the websocket.
ReadMessage ==
  /\ reader = "reading" /\ Reading.kind = "more"
  /\ \E n \in 1..Len(wire) :
       /\ buffer' = buffer \o SubSeq(wire, 1, n)
       /\ wire' = SubSeq(wire, n + 1, Len(wire))
  /\ UNCHANGED <<transport, sent, frames, reader>>

\* The runtime has closed its end.
ReadEnds ==
  /\ reader = "reading" /\ Reading.kind = "more" /\ wire = <<>>
  /\ reader' = "ended"
  /\ UNCHANGED <<transport, sent, wire, buffer, frames>>

FramesNext == ReadFrame \/ ReadFails \/ ReadMessage \/ ReadEnds

FramesSpec == FramesInit /\ [][FramesNext]_framesVars

-----------------------------------------------------------------------------

\* However the stream is cut, and whatever a body holds, either reader gives the
\* read loop the bodies the runtime wrote, whole and in order; it fails at the
\* first frame without a length, and only there.
FramesAsSent ==
  LET wrong == SelectInSeq(sent, LAMBDA f : f.header = "without")
      good == [i \in 1..(IF wrong = 0 THEN Len(sent) ELSE wrong - 1) |-> sent[i].body]
  IN  /\ IsPrefix(frames, good)
      /\ reader # "reading" => frames = good /\ (reader = "failed" <=> wrong > 0)
=============================================================================
