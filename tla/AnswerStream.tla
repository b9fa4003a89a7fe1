---------------------------- MODULE AnswerStream ----------------------------
(***************************************************************************)
(* internal/httpapi/server.go: what the streaming handlers write for one   *)
(* request, in each of the three formats, from the deltas of a generation  *)
(* and its result; toolStreamFilter, which keeps action blocks out of the  *)
(* text; and the part of service.go and toolemulation.go that decides what *)
(* the result says of those deltas.                                        *)
(*                                                                         *)
(* A delta is one of a few kinds of text.  "half" is a prefix of the       *)
(* opening ```json action, "action" its rest with the block; "fence" is a  *)
(* whole block that opens with ```json and a line break, indented; "json"  *)
(* is an object that begins with {"tool" or {"name", outside any fence.    *)
(***************************************************************************)
EXTENDS Integers, Sequences, FiniteSets, SequencesExt

CONSTANTS
  MaxDeltas,  \* bound on the deltas of one request
  MaxCalls,   \* bound on the tool calls of one answer
  Held        \* text the filter holds back (96 runes in the code)

(* The longest opening is no longer than the tail and the next delta.      *)
ASSUME StreamAssumption ==
  MaxDeltas \in Nat /\ MaxCalls \in Nat \ {0} /\ Held \in Nat \ {0}

VARIABLES
  req,        \* format and options of the request
  text,       \* text deltas of the generation
  firstLen,   \* how many were the first prompt's, once there is a second
  thoughts,   \* number of thinking deltas
  thought,    \* result.ThoughtText is not blank
  filter,     \* toolStreamFilter: buffer, blocked
  thinkingOpen, textOpen,     \* handleAnthropicStream
  pendingText,                \* handleOpenAIResponsesStream
  out,        \* events written
  phase       \* "streaming", "answered", "failed", "cut"

genVars == <<req, text, firstLen, thoughts, thought>>
writerVars == <<filter, thinkingOpen, textOpen, pendingText>>
vars == <<genVars, writerVars, out, phase>>

Kinds == {"word", "blank", "half", "action", "fence", "json"}
Shows == Kinds \cup {"thought"}   \* what may be written as text
Formats == {"anthropic", "openai", "responses", "hosted"}
Requests == [format : Formats, tools : BOOLEAN, reasoning : BOOLEAN, aggregate : BOOLEAN]
NoSecond == -1

\* shouldAggregateToolStream asks for tools too.
Sensible(r) == (r.aggregate => r.tools) /\ (r.format = "hosted" => r.tools /\ ~r.aggregate)

-----------------------------------------------------------------------------
(* Events.  An item is a content block (Anthropic), an output item         *)
(* (Responses) or, without start and stop, what a chunk's delta names.     *)

Event(what, index, item, content) ==
  [what |-> what, index |-> index, item |-> item, content |-> content]
Start(index, item) == Event("start", index, item, <<>>)
Delta(index, item, content) == Event("delta", index, item, content)
Stop(index, item) == Event("stop", index, item, <<>>)
Finish(output) == Event("finish", 0, "none", output)
Error == Event("error", 0, "none", <<>>)

Block(index, item, content) == <<Start(index, item), Delta(index, item, content), Stop(index, item)>>
If(cond, events) == IF cond THEN events ELSE <<>>
Blank(s) == \A i \in DOMAIN s : s[i] = "blank"

TypeOK ==
  /\ req \in Requests /\ Sensible(req)
  /\ text \in Seq(Kinds) /\ Len(text) <= MaxDeltas
  /\ firstLen \in NoSecond .. Len(text)
  /\ thoughts \in 0 .. MaxDeltas /\ thought \in BOOLEAN /\ thinkingOpen \in BOOLEAN /\ textOpen \in BOOLEAN
  /\ filter \in [buffer : Seq(Shows), blocked : BOOLEAN]
  /\ ~filter.blocked => \A i \in 1 .. Len(filter.buffer) - Held : filter.buffer[i] = "blank"
  /\ pendingText \in Seq(Seq(Kinds))
  /\ out \in Seq([what : {"start", "delta", "stop", "finish", "error"}, index : Nat,
                  item : {"thinking", "text", "tool", "none"}, content : Seq(Shows \cup {"thinking", "text", "tool", "call"})])
  /\ phase \in {"streaming", "answered", "failed", "cut"}

Init ==
  /\ req \in {r \in Requests : Sensible(r)}
  /\ text = <<>> /\ firstLen = NoSecond /\ thoughts = 0 /\ thought = FALSE
  /\ filter = [buffer |-> <<>>, blocked |-> FALSE]
  /\ thinkingOpen = FALSE /\ textOpen = FALSE
  /\ pendingText = <<>>
  /\ out = <<>> /\ phase = "streaming"

-----------------------------------------------------------------------------
(* toolStreamFilter *)

MarkerAt(s, i) == s[i] = "json" \/ (s[i] = "half" /\ i < Len(s) /\ s[i + 1] = "action")

(* actionBlockStartIndex, from 1; Len + 1 when there is no marker.         *)
MarkerStart(s) ==
  LET at == {i \in DOMAIN s : MarkerAt(s, i)}
  IN IF at = {} THEN Len(s) + 1 ELSE CHOOSE i \in at : \A j \in at : i <= j

(* looksLikeActionPrefix, of a buffer without a marker.                    *)
ActionPrefix(s) ==
  \/ Blank(s)
  \/ s[Len(s)] = "half" /\ Blank(Front(s))

\* Mutant: the tail is forgotten once the rest is out.
PushForgets(delta) ==
  LET s == Append(filter.buffer, delta)
  IN IF Len(s) <= Held THEN [emit |-> <<>>, buffer |-> s, blocked |-> FALSE]
     ELSE [emit |-> SubSeq(s, 1, Len(s) - Held), buffer |-> <<>>, blocked |-> FALSE]

(* Push: what it emits (nothing is <<>>) and leaves behind.                *)
Push(delta) ==
  LET s == Append(filter.buffer, delta)
      start == MarkerStart(s)
      held == IF ActionPrefix(s) \/ Len(s) <= Held THEN Len(s) ELSE Held
      safe == Len(s) - held
  IN CASE ~req.tools -> [emit |-> <<delta>>, buffer |-> <<>>, blocked |-> FALSE]
       [] req.tools /\ filter.blocked -> [emit |-> <<>>, buffer |-> s, blocked |-> TRUE]
       [] req.tools /\ ~filter.blocked /\ start <= Len(s) ->
            [emit |-> SubSeq(s, 1, start - 1), buffer |-> SubSeq(s, start, Len(s)), blocked |-> TRUE]
       [] OTHER -> [emit |-> SubSeq(s, 1, safe), buffer |-> SubSeq(s, safe + 1, Len(s)), blocked |-> FALSE]

Flush == IF filter.blocked THEN <<>> ELSE filter.buffer

-----------------------------------------------------------------------------
(* What the result says: toolemulation.ParseActionBlocks (findActionOpenings *)
(* knows ```json action and ```json with a line break) and                 *)
(* Service.applyToolEmulation.                                             *)

InBlock(s, i) ==
  \/ s[i] = "fence"
  \/ s[i] = "half" /\ i < Len(s) /\ s[i + 1] = "action"
  \/ s[i] = "action" /\ i > 1 /\ s[i - 1] = "half"
HasBlock(s) == \E i \in DOMAIN s : InBlock(s, i)
Blocks(s) == Cardinality({i \in DOMAIN s : InBlock(s, i) /\ s[i] # "action"})
Remaining(s) ==
  LET kept == SelectSeq([i \in DOMAIN s |-> <<s[i], InBlock(s, i)>>], LAMBDA p : ~p[2])
  IN [i \in DOMAIN kept |-> kept[i][1]]

First == IF firstLen = NoSecond THEN text ELSE SubSeq(text, 1, firstLen)
Second == IF firstLen = NoSecond THEN <<>> ELSE SubSeq(text, firstLen + 1, Len(text))

(* The results the deltas may end in: the calls parsed from the first      *)
(* prompt's text, else from the second's, equal ones merged; without any,  *)
(* perhaps native calls, or inferred ones, which replace the text.         *)
Results ==
  LET parsed == IF HasBlock(First) THEN First ELSE Second
  IN IF ~req.tools THEN {[text |-> text, calls |-> 0]}
     ELSE IF HasBlock(parsed)
       THEN {[text |-> Remaining(parsed), calls |-> n] : n \in 1 .. Blocks(parsed)}
       ELSE {[text |-> First, calls |-> n] : n \in 0 .. MaxCalls}
            \cup {[text |-> <<>>, calls |-> n] : n \in 1 .. MaxCalls}

Tools(from, n) == FlattenSeq([i \in 1 .. n |-> Block(from + i - 1, "tool", <<"call">>)])

-----------------------------------------------------------------------------
(* handleAnthropicStream *)

TextIndex == IF req.reasoning THEN 1 ELSE 0

ThinkingEvents ==
  If(~thinkingOpen, <<Start(0, "thinking")>>) \o <<Delta(0, "thinking", <<"thinking">>)>>

TextEvents(delta) ==
  If(delta # <<>>,
     If(thinkingOpen, <<Stop(0, "thinking")>>) \o If(~textOpen, <<Start(TextIndex, "text")>>)
       \o <<Delta(TextIndex, "text", delta)>>)

\* Mutant: the position of the text is not counted.
ToolIndexIgnoresText(hasText) == 1

ToolIndex(hasText) == IF hasText THEN TextIndex + 1 ELSE 1

(* The stream's end: the filter's rest unless tools are called, the open   *)
(* blocks' stops, and the tool blocks.                                     *)
AnthropicEnd(result) ==
  LET rest == IF result.calls = 0 THEN Flush ELSE <<>>
      hasText == textOpen \/ rest # <<>>
  IN TextEvents(rest)
       \o If(thinkingOpen /\ rest = <<>>, <<Stop(0, "thinking")>>)
       \o If(hasText, <<Stop(TextIndex, "text")>>)
       \o Tools(ToolIndex(hasText), result.calls)
       \o <<Finish(<<>>)>>

(* With LINGMA_AGGREGATE_TOOL_STREAM everything is written at the end.     *)
AnthropicAggregated(result) ==
  LET think == req.reasoning /\ thought
      speak == ~Blank(result.text)
      at == IF think THEN 1 ELSE 0
  IN If(think, Block(0, "thinking", <<"thinking">>))
       \o If(speak, Block(at, "text", result.text))
       \o Tools(IF speak THEN at + 1 ELSE at, result.calls)
       \o <<Finish(<<>>)>>

(* writeAnthropicHostedToolStream: one tool block, nothing generated.      *)
HostedAnswer ==
  /\ phase = "streaming" /\ req.format = "hosted"
  /\ out' = Tools(0, 1) \o <<Finish(<<>>)>>
  /\ phase' = "answered"
  /\ UNCHANGED <<genVars, writerVars>>

-----------------------------------------------------------------------------
(* handleOpenAIStream: chunks, without starts and stops. *)

ToolChunks(n) == [i \in 1 .. n |-> Delta(i - 1, "tool", <<"call">>)]

OpenAIEnd(result) ==
  If(result.calls = 0 /\ Flush # <<>>, <<Delta(0, "text", Flush)>>) \o ToolChunks(result.calls) \o <<Finish(<<>>)>>

OpenAIAggregated(result) ==
  If(result.text # <<>>, <<Delta(0, "text", result.text)>>) \o ToolChunks(result.calls) \o <<Finish(<<>>)>>

-----------------------------------------------------------------------------
(* handleOpenAIResponsesStream *)

(* responseTextForResponses, up to surrounding blanks.                     *)
ResponseText(result) == IF result.calls > 0 \/ Blank(result.text) THEN <<>> ELSE result.text

(* buildOpenAIResponseBody: the kinds of the items of the final response.  *)
ResponseOutput(result, reasoningEmitted) ==
  If(reasoningEmitted /\ thought, <<"thinking">>) \o If(ResponseText(result) # <<>>, <<"text">>)
    \o [i \in 1 .. result.calls |-> "tool"]

\* Mutant: the message's place is not counted.
CompletedAtZero(result, messageStarted, reasoningEmitted) ==
  LET at == IF reasoningEmitted THEN 1 ELSE 0
      speak == ResponseText(result) # <<>>
  IN If(speak /\ ~messageStarted, <<Start(at, "text")>>)
       \o If(speak, <<Stop(at, "text")>>)
       \o Tools(0, result.calls)
       \o <<Finish(ResponseOutput(result, reasoningEmitted))>>

(* writeOpenAIResponseStreamCompleted                                      *)
Completed(result, messageStarted, reasoningEmitted) ==
  LET at == IF reasoningEmitted THEN 1 ELSE 0
      speak == ResponseText(result) # <<>>
  IN If(speak /\ ~messageStarted, <<Start(at, "text")>>)
       \o If(speak, <<Stop(at, "text")>>)
       \o Tools(IF speak THEN at + 1 ELSE at, result.calls)
       \o <<Finish(ResponseOutput(result, reasoningEmitted))>>

(* Everything was buffered: reasoning, message, then the rest.             *)
ResponsesEnd(result) ==
  LET reasoned == req.reasoning /\ thought /\ thoughts > 0
      at == IF reasoned THEN 1 ELSE 0
      deltas == IF result.calls > 0 THEN <<>>
                ELSE pendingText \o If(Flush # <<>>, <<Flush>>)
  IN If(reasoned, Block(0, "thinking", <<"thinking">>))
       \o If(deltas # <<>>, <<Start(at, "text")>>)
       \o [i \in DOMAIN deltas |-> Delta(at, "text", deltas[i])]
       \o Completed(result, deltas # <<>>, reasoned)

ResponsesAggregated(result) == Completed(result, FALSE, req.reasoning /\ thought)

-----------------------------------------------------------------------------
(* The generation and the handler's loop *)

Generating == phase = "streaming" /\ req.format # "hosted"
Received == Len(text) + thoughts

(* A delta is pushed to the filter, and what that emits is written, or,    *)
(* for the Responses format, kept until the result is known.               *)
Show(delta) ==
  LET pushed == Push(delta)
      shown == pushed.emit # <<>>
  IN /\ filter' = [buffer |-> pushed.buffer, blocked |-> pushed.blocked]
     /\ out' = out \o CASE req.format = "anthropic" -> TextEvents(pushed.emit)
                        [] req.format = "openai" -> If(shown, <<Delta(0, "text", pushed.emit)>>)
                        [] OTHER -> <<>>
     /\ thinkingOpen' = (thinkingOpen /\ ~shown)
     /\ textOpen' = (textOpen \/ (shown /\ req.format = "anthropic"))
     /\ pendingText' = pendingText \o If(shown /\ req.format = "responses", <<pushed.emit>>)

Hide == UNCHANGED <<writerVars, out>>

(* A thinking delta, from IPC.  The OpenAI handler does not look at the    *)
(* type, so it is text there; to the others a blank one is nothing.        *)
Think ==
  /\ Generating /\ Received < MaxDeltas
  /\ thoughts' = thoughts + 1
  /\ thought' = (thought \/ firstLen = NoSecond)
  /\ CASE req.format = "openai" /\ ~req.aggregate -> Show("thought")
       [] req.format = "anthropic" /\ req.reasoning /\ ~req.aggregate ->
            /\ out' = out \o ThinkingEvents
            /\ thinkingOpen' = TRUE
            /\ UNCHANGED <<filter, textOpen, pendingText>>
       [] OTHER -> Hide
  /\ UNCHANGED <<req, text, firstLen, phase>>

Speak(delta) ==
  /\ Generating /\ Received < MaxDeltas
  /\ text' = Append(text, delta)
  /\ IF req.aggregate THEN Hide ELSE Show(delta)
  /\ UNCHANGED <<req, firstLen, thoughts, thought, phase>>

(* applyToolEmulation prompts a second time, on the same stream (IPC).     *)
PromptAgain ==
  /\ Generating /\ req.tools /\ firstLen = NoSecond /\ ~HasBlock(text)
  /\ firstLen' = Len(text)
  /\ UNCHANGED <<req, text, thoughts, thought, writerVars, out, phase>>

Succeed(result) ==
  /\ Generating
  /\ out' = out \o CASE req.format = "anthropic" -> IF req.aggregate THEN AnthropicAggregated(result) ELSE AnthropicEnd(result)
                     [] req.format = "openai" -> IF req.aggregate THEN OpenAIAggregated(result) ELSE OpenAIEnd(result)
                     [] OTHER -> IF req.aggregate THEN ResponsesAggregated(result) ELSE ResponsesEnd(result)
  /\ phase' = "answered"
  /\ UNCHANGED <<genVars, writerVars>>

(* An error event ends the stream, whatever is open.                       *)
Fail ==
  /\ Generating
  /\ out' = Append(out, Error)
  /\ phase' = "failed"
  /\ UNCHANGED <<genVars, writerVars>>

(* The context is done, or a write failed: the handler returns.            *)
Leave ==
  /\ phase = "streaming"
  /\ phase' = "cut"
  /\ UNCHANGED <<genVars, writerVars, out>>

Over == phase # "streaming" /\ UNCHANGED vars

Next ==
  \/ Think
  \/ \E delta \in Kinds : Speak(delta)
  \/ \E result \in Results : Succeed(result)
  \/ PromptAgain \/ HostedAnswer \/ Fail \/ Leave \/ Over

Spec == Init /\ [][Next]_vars
-----------------------------------------------------------------------------
Is(what) == {j \in DOMAIN out : out[j].what = what}
At(what, index) == {j \in Is(what) : out[j].index = index}

(* The block that event j may go on with.                                  *)
OpenAt(j) ==
  \E s \in Is("start") :
    /\ s < j /\ out[s].index = out[j].index /\ out[s].item = out[j].item
    /\ \A t \in At("stop", out[j].index) : t < s \/ t >= j

(* What was written as text, and that without the thoughts.                *)
Written ==
  FlattenSeq([j \in DOMAIN out |-> If(out[j].what = "delta" /\ out[j].item = "text", out[j].content)])
WrittenText == FlattenSeq([i \in DOMAIN Written |-> If(Written[i] # "thought", <<Written[i]>>)])
CallsTools == \E j \in DOMAIN out : out[j].item = "tool"

(* Safety: blocks and items are used as they were announced.  A delta or a *)
(* stop belongs to one that is open; an index names one item, though       *)
(* thinking may be reopened; a finished stream ends with everything        *)
(* stopped.  A Responses message of blanks only is the exception: it is    *)
(* started and never done (server.go 946-1142, 1550-1594, 2520-2602).      *)
BlockProtocol ==
  req.format # "openai" =>
    /\ \A j \in Is("delta") \cup Is("stop") : OpenAt(j)
    /\ \A i, j \in Is("start") :
         i # j /\ out[i].index = out[j].index => out[i].item = "thinking" /\ out[j].item = "thinking"
    /\ \A f \in Is("finish") :
         /\ f = Len(out)
         /\ \A s \in Is("start") :
              \/ \E t \in At("stop", out[s].index) : t > s
              \/ req.format = "responses" /\ out[s].item = "text" /\ Blank(First)

(* Safety: the text is shown in order and without gaps, and an answer that *)
(* calls no tool and holds no marker is shown whole; but no marker of the  *)
(* filter reaches the client, however deltas cut it, not even by way of    *)
(* the rest flushed at the end, unless, in the OpenAI format, a thought    *)
(* comes between its halves.  So the client sees one kind only of the      *)
(* blocks that calls are parsed from: an indented one that opens with      *)
(* ```json and a line break.  That is an opening to the parser             *)
(* (toolemulation.go 796) and no marker to the filter (server.go           *)
(* 1661-1666), though README.md line 897 says that parsed blocks are       *)
(* filtered.                                                               *)
ShownInOrder ==
  ~req.aggregate =>
    /\ IsPrefix(WrittenText, text)
    /\ phase = "answered" /\ ~CallsTools /\ ~filter.blocked => WrittenText = text
    /\ req.tools => \A i \in DOMAIN Written :
                      ~MarkerAt(Written, i) /\ (InBlock(Written, i) => Written[i] = "fence")

(* Safety: the final response lists the items that were streamed, each at  *)
(* its index (server.go 2364-2404, 2520-2602).                             *)
CompletedMatchesItems ==
  req.format = "responses" /\ ~req.aggregate =>
    \A f \in Is("finish") :
      /\ Cardinality(Is("stop")) = Len(out[f].content)
      /\ \A t \in Is("stop") : out[t].index < Len(out[f].content) /\ out[f].content[out[t].index + 1] = out[t].item

(* README.md line 897: incremental streaming with tools filters the action *)
(* blocks parsed into tool calls.  So an answer that calls no tool is      *)
(* shown whole.                                                            *)
OnlyParsedBlocksFiltered ==
  phase = "answered" /\ req.format = "anthropic" /\ ~req.aggregate /\ ~CallsTools => WrittenText = text
=============================================================================
