---------------------------- MODULE Conversation ----------------------------
(***************************************************************************)
(* internal/httpapi/server.go, internal/service/service.go: from a chat    *)
(* request in one of three formats to what the upstream is told.           *)
(*                                                                         *)
(* A client keeps a conversation and sends all of it each time.  A text is *)
(* a sequence of marks, the pieces a client wrote; BlankMark is a piece of *)
(* white space, or an image that cannot be loaded.  Calls are their ids; a *)
(* call without a name or an id is left out, and so are sampling           *)
(* parameters and the wording of prompts.                                  *)
(***************************************************************************)
EXTENDS Integers, SequencesExt

CONSTANTS MaxTurns, MaxCallsPerTurn  \* bounds on the conversation

ASSUME ConversationAssumption == MaxTurns \in Nat /\ MaxCallsPerTurn \in Nat

\* The elements that pass a test.
Only(s, Test(_)) == FlattenSeq([i \in DOMAIN s |-> IF Test(s[i]) THEN <<s[i]>> ELSE <<>>])

BlankMark == <<>>
System == <<0, 1>>   \* the mark of the system prompt
Context == <<0, 2>>  \* and of what the IPC backend says of an image
NonBlank(marks) == Only(marks, LAMBDA m : m # BlankMark)

VARIABLES conv, system

conversationVars == <<conv, system>>

-----------------------------------------------------------------------------
(* A client's conversation.  A turn's marks are pairs: turn and place.     *)

Turn(who, texts, images, results, calls) ==
  [who |-> who, texts |-> texts, images |-> images, results |-> results, calls |-> calls]

OpenCalls == IF conv = <<>> THEN <<>> ELSE Last(conv).calls

Pieces(places) == {<<>>} \cup {<<m>> : m \in {BlankMark} \cup {<<Len(conv) + 1, p>> : p \in places}}

\* A user writes, shows an image, or their client answers the last turn's calls.
UserTurn ==
  \E texts \in Pieces({1}), images \in Pieces({2}) :
    \E results \in [DOMAIN OpenCalls -> BOOLEAN] :
      /\ texts # <<>> \/ images # <<>> \/ OpenCalls # <<>>
      /\ conv' = Append(conv, Turn("user", texts, images,
           [i \in DOMAIN OpenCalls |->
              [id |-> OpenCalls[i],
               text |-> <<IF results[i] THEN <<Len(conv) + 1, 2 + i>> ELSE BlankMark>>]], <<>>))

AssistantTurn ==
  \E texts \in {<<>>, << <<Len(conv) + 1, 1>> >>}, calls \in 0..MaxCallsPerTurn :
    /\ texts # <<>> \/ calls > 0
    /\ conv' = Append(conv, Turn("assistant", texts, <<>>, <<>>,
         [i \in 1..calls |-> <<Len(conv) + 1, i>>]))

ConversationInit ==
  /\ conv = <<>>
  /\ system \in {<<>>, <<System>>}

ConversationNext ==
  /\ Len(conv) < MaxTurns
  /\ \/ UserTurn
     \/ AssistantTurn /\ (conv # <<>> => Last(conv).who = "user")
  /\ UNCHANGED system

ConversationSpec == ConversationInit /\ [][ConversationNext]_conversationVars

-----------------------------------------------------------------------------
(* The three formats.  A message has content blocks; OpenAI puts calls and *)
(* a result's call beside the content, Responses makes each an item.       *)

ContentBlock(type, mark, id, content) == [type |-> type, mark |-> mark, id |-> id, content |-> content]
ContentBlocks(type, marks) == [i \in DOMAIN marks |-> ContentBlock(type, marks[i], <<>>, <<>>)]
Each(s, Op(_)) == [i \in DOMAIN s |-> Op(s[i])]

Wire(role, content, id, calls) == [role |-> role, content |-> content, id |-> id, calls |-> calls]

\* A user message has the results first, as the API asks for.
AnthropicMessage(turn) ==
  LET result(r) == ContentBlock("tool_result", BlankMark, r.id, ContentBlocks("text", r.text))
      use(id) == ContentBlock("tool_use", BlankMark, id, <<>>)
  IN  Wire(turn.who,
           Each(turn.results, result) \o ContentBlocks("text", turn.texts)
             \o ContentBlocks("image", turn.images) \o Each(turn.calls, use), <<>>, <<>>)

OpenAIMessages(turn) ==
  LET result(r) == Wire("tool", ContentBlocks("text", r.text), r.id, <<>>)
      content == ContentBlocks("text", turn.texts) \o ContentBlocks("image_url", turn.images)
  IN  Each(turn.results, result)
        \o IF content = <<>> /\ turn.calls = <<>> THEN <<>>
           ELSE <<Wire(turn.who, content, <<>>, turn.calls)>>

ResponsesItems(turn) ==
  LET output(r) == Wire("function_call_output", ContentBlocks("text", r.text), r.id, <<>>)
      call(id) == Wire("function_call", <<>>, id, <<>>)
      content == ContentBlocks("input_text", turn.texts) \o ContentBlocks("input_image", turn.images)
  IN  Each(turn.results, output)
        \o (IF content = <<>> THEN <<>> ELSE <<Wire(turn.who, content, <<>>, <<>>)>>)
        \o Each(turn.calls, call)

-----------------------------------------------------------------------------
(* server.go: the request in the proxy's own form *)

OfType(blocks, types) == Only(blocks, LAMBDA b : b.type \in types)
Marks(blocks) == Each(blocks, LAMBDA b : b.mark)
extractText(blocks) == NonBlank(Marks(OfType(blocks, {"text"})))
extractImages(blocks, type) == NonBlank(Marks(OfType(blocks, {type})))

Message(role, text, images, id, calls) ==
  [role |-> role, text |-> text, images |-> images, id |-> id, calls |-> calls]

\* A message that says nothing is left out.
Unless(condition, message) == IF condition THEN <<>> ELSE <<message>>

extractAnthropicUserContent(message) ==
  LET text == extractText(message.content)
      images == extractImages(message.content, "image")
      result(b) == Unless(extractText(b.content) = <<>>,
                          Message("tool", extractText(b.content), <<>>, b.id, <<>>))
  IN  Unless(text = <<>> /\ images = <<>>, Message("user", text, images, <<>>, <<>>))
        \o FlattenSeq(Each(OfType(message.content, {"tool_result"}), result))

extractAnthropicAssistantContent(message) ==
  LET text == extractText(message.content)
      calls == Each(OfType(message.content, {"tool_use"}), LAMBDA b : b.id)
  IN  Unless(text = <<>> /\ calls = <<>>, Message("assistant", text, <<>>, <<>>, calls))

normalizeAnthropicRequest(messages) ==
  LET normalize(m) == CASE m.role = "user" -> extractAnthropicUserContent(m)
                        [] m.role = "assistant" -> extractAnthropicAssistantContent(m)
                        [] OTHER -> <<>>
  IN  FlattenSeq(Each(messages, normalize))

normalizeOpenAIRequest(messages) ==
  LET normalize(m) ==
        LET text == extractText(m.content)
            images == extractImages(m.content, "image_url")
        IN  CASE m.role = "user" ->
                   Unless(text = <<>> /\ images = <<>>, Message("user", text, images, <<>>, <<>>))
              [] m.role = "assistant" ->
                   Unless(text = <<>> /\ m.calls = <<>>, Message("assistant", text, <<>>, <<>>, m.calls))
              [] m.role = "tool" ->
                   Unless(text = <<>> \/ m.id = <<>>, Message("tool", text, <<>>, m.id, <<>>))
              [] OTHER -> <<>>
  IN  FlattenSeq(Each(messages, normalize))

\* Mutant: images are not known.
normalizeResponsesText(blocks) ==
  LET known == OfType(blocks, {"input_text", "output_text", "text"})
  IN  IF known = <<>> THEN blocks ELSE Each(known, LAMBDA b : [b EXCEPT !.type = "text"])

\* The content as it is when no block of it is known.
normalizeResponsesContent(blocks) ==
  LET known == OfType(blocks, {"input_text", "output_text", "text", "input_image", "image_url"})
      rename(b) == [b EXCEPT !.type = IF @ \in {"input_image", "image_url"} THEN "image_url" ELSE "text"]
  IN  IF known = <<>> THEN blocks ELSE Each(known, rename)

\* Mutant: only messages and outputs are known.
responsesInputWithoutCalls(items) ==
  LET convert(item) ==
        IF item.role = "function_call" THEN <<>>
        ELSE IF item.role = "function_call_output" THEN <<[item EXCEPT !.role = "tool"]>>
        ELSE <<[item EXCEPT !.content = normalizeResponsesContent(@)]>>
  IN  FlattenSeq(Each(items, convert))

responsesInputToMessages(items) ==
  LET convert(item) ==
        IF item.role = "function_call" THEN <<Wire("assistant", <<>>, <<>>, <<item.id>>)>>
        ELSE IF item.role = "function_call_output"
        THEN Unless(extractText(item.content) = <<>>, [item EXCEPT !.role = "tool"])
        ELSE LET content == normalizeResponsesContent(item.content)
             IN  Unless(extractText(content) = <<>> /\ extractImages(content, "image_url") = <<>>,
                        [item EXCEPT !.content = content])
  IN  FlattenSeq(Each(items, convert))

ClientFormats == {"anthropic", "openai", "responses"}

\* The whole conversation as a client of this format sends it, as the proxy takes it.
Messages(format) ==
  CASE format = "anthropic" -> normalizeAnthropicRequest(Each(conv, AnthropicMessage))
    [] format = "openai" -> normalizeOpenAIRequest(FlattenSeq(Each(conv, OpenAIMessages)))
    [] format = "responses" ->
         normalizeOpenAIRequest(responsesInputToMessages(FlattenSeq(Each(conv, ResponsesItems))))

-----------------------------------------------------------------------------
(* service.go: what the upstream is told *)

Request(format) == [system |-> system, messages |-> Messages(format)]

\* Where the last message with the property is, or 0.
LastWhere(messages, Test(_)) == SelectLastInSeq(messages, Test)

IsUser(message) == message.role = "user"
HasImages(message) == message.role = "user" /\ message.images # <<>>
requestHasImages(req) == \E i \in DOMAIN req.messages : HasImages(req.messages[i])
extractLastUserImages(messages) ==
  LET i == LastWhere(messages, HasImages) IN IF i = 0 THEN <<>> ELSE messages[i].images

\* Mutant: only what the user and the assistant say.
filteredWithoutTools(messages) ==
  LET asText(m) == [role |-> m.role, text |-> m.text]
  IN  Each(Only(messages, LAMBDA m : m.text # <<>> /\ m.role # "tool"), asText)

\* A tool's result is put to the model as a user's message; a turn that only
\* calls tools is left out.
filteredMessages(messages) ==
  LET asText(m) == [role |-> IF m.role = "tool" THEN "user" ELSE m.role, text |-> m.text]
  IN  Each(Only(messages, LAMBDA m : m.text # <<>>), asText)

\* The question about an image that comes without one: the last thing the user
\* said before it, or the system prompt, or a fixed question (no marks).
imagePromptFallback(req, index) ==
  LET earlier == LastWhere(SubSeq(req.messages, 1, index - 1), LAMBDA m : IsUser(m) /\ m.text # <<>>)
  IN  IF earlier > 0 THEN req.messages[earlier].text ELSE req.system

Refused == [system |-> <<>>, entries |-> <<>>]

\* In reuse mode the session has the rest.
buildLingmaPrompt(req, mode) ==
  LET messages == filteredMessages(req.messages)
      image == LastWhere(req.messages, HasImages)
      question == [role |-> "user", text |-> imagePromptFallback(req, image)]
      entries == IF LastWhere(messages, IsUser) > 0 THEN messages
                 ELSE IF image > 0 THEN Append(messages, question)
                 ELSE <<>>
  IN  IF entries = <<>> THEN Refused
      ELSE IF mode = "reuse" THEN [Refused EXCEPT !.entries = <<entries[LastWhere(entries, IsUser)]>>]
      ELSE [system |-> req.system, entries |-> entries]

\* The structured messages, for a remote request without tools.
remoteMessagesFromRequest(req) ==
  Unless(req.system = <<>>, Message("system", req.system, <<>>, <<>>, <<>>))
    \o Only(req.messages, LAMBDA m : m.text # <<>> \/ m.images # <<>> \/ m.calls # <<>>)

\* remote/client.go; images never come this far.
projectMessages(messages) ==
  Each(messages, LAMBDA m : Wire(m.role, ContentBlocks("text", m.text), m.id, m.calls))

\* For the IPC backend to say what is on the latest image.
requestForImageContext(req) ==
  LET i == LastWhere(req.messages, HasImages)
      m == req.messages[i]
      question == IF m.text = <<>> THEN imagePromptFallback(req, i) ELSE m.text
  IN  [system |-> <<>>,
       messages |-> <<Message("user", question, m.images, <<>>, <<>>)>>]

\* What it said goes to the end of what the user said last.
requestWithImageContext(req) ==
  LET last == LastWhere(req.messages, IsUser)
      without == [i \in DOMAIN req.messages |-> [req.messages[i] EXCEPT !.images = <<>>]]
  IN  [req EXCEPT !.messages =
         IF last = 0 THEN Append(without, Message("user", <<Context>>, <<>>, <<>>, <<>>))
         ELSE [without EXCEPT ![last].text = Append(@, Context)]]

Texts(messages) == FlattenSeq([i \in DOMAIN messages |-> messages[i].text])

\* The text that the model that answers is told by the remote backend: with tools
\* in a prompt, images described by the IPC backend; without, in structured
\* messages, or in the IPC backend's own prompt when there are images.
generateRemoteInternal(req, tools) ==
  LET images == requestHasImages(req)
      prompt == buildLingmaPrompt(IF images /\ tools THEN requestWithImageContext(req) ELSE req, "fresh")
      sent == projectMessages(remoteMessagesFromRequest(req))
  IN  IF tools \/ images \/ prompt = Refused THEN Texts(prompt.entries)
      ELSE FlattenSeq(Each(sent, LAMBDA m : extractText(m.content)))

-----------------------------------------------------------------------------
(* Properties *)

\* What the conversation says, in the order it was said; an Anthropic user's
\* own words come before the results of the same message.
Said(format) ==
  LET results(turn) == NonBlank(FlattenSeq([i \in DOMAIN turn.results |-> turn.results[i].text]))
      words(turn) == NonBlank(turn.texts)
      say(turn) == IF format = "anthropic" THEN words(turn) \o results(turn)
                   ELSE results(turn) \o words(turn)
  IN  FlattenSeq(Each(conv, say))

\* Whatever the format, the blanks, the tool turns and the images, everything
\* that was said reaches the model that answers once and in order, with tools and
\* without, with images and without, by either backend.  Only a conversation in
\* which nobody asked anything is refused.
NothingLost ==
  LET said(marks) == Only(marks, LAMBDA m : m \notin {Context, System}) IN
  conv # <<>> => \A format \in ClientFormats :
    LET req == Request(format)
        asked == \E i \in DOMAIN req.messages : req.messages[i].role \in {"user", "tool"}
        prompt == buildLingmaPrompt(req, "fresh")
    IN  /\ asked <=> prompt # Refused
        /\ asked => said(Texts(prompt.entries)) = Said(format)
        /\ \A tools \in BOOLEAN :
             LET told == generateRemoteInternal(req, tools) IN
             /\ asked => said(told) = Said(format)
             /\ Contains(told, Context) <=> tools /\ requestHasImages(req)

\* The three formats are three ways to say the same: the prompt is the same
\* from each, but that an Anthropic user's words come before the results of the
\* same message; and so is the question put to the IPC backend about an image.
FormatsAgree ==
  LET mixed == \E i \in DOMAIN conv : NonBlank(conv[i].texts) # <<>> /\ conv[i].results # <<>>
      agreeing == IF mixed THEN ClientFormats \ {"anthropic"} ELSE ClientFormats
  IN  conv # <<>> => \A f, g \in agreeing :
        /\ \A mode \in {"fresh", "reuse"} : buildLingmaPrompt(Request(f), mode) = buildLingmaPrompt(Request(g), mode)
        /\ extractLastUserImages(Messages(f)) = extractLastUserImages(Messages(g))
        /\ requestHasImages(Request(f)) =>
             /\ requestForImageContext(Request(f)) = requestForImageContext(Request(g))
             /\ extractLastUserImages(requestForImageContext(Request(f)).messages) = extractLastUserImages(Messages(f))

\* In the structured messages a result follows the message with its call, with
\* nothing but calls and results, and an Anthropic user's own words, between.
ResultsFollowCalls ==
  \A format \in ClientFormats :
    LET sent == projectMessages(remoteMessagesFromRequest(Request(format))) IN
    \A j \in DOMAIN sent : sent[j].role = "tool" =>
      \E i \in 1..(j - 1) :
        /\ Contains(sent[i].calls, sent[j].id)
        /\ \A k \in (i + 1)..(j - 1) :
             \/ sent[k].role = "tool"
             \/ sent[k].role = "assistant" /\ sent[k].content = <<>>
             \/ format = "anthropic" /\ sent[k].role = "user" /\ k = i + 1
=============================================================================
