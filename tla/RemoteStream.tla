---------------------------- MODULE RemoteStream ----------------------------
(***************************************************************************)
(* internal/remote/client.go: the event stream of one remote chat.  Text   *)
(* is passed on as it comes and gathered; tool calls come in fragments,    *)
(* interleaved, and are put together when the stream ends.                 *)
(*                                                                         *)
(* Upstream's calls have arguments of ArgumentPieces pieces; text pieces   *)
(* are numbered.                                                           *)
(***************************************************************************)
EXTENDS Integers, SequencesExt

CONSTANTS StreamCalls, ArgumentPieces, MaxText  \* indices of calls; bounds

ASSUME FragmentAssumption == ArgumentPieces \in Nat

VARIABLES
  toCome,   \* index -> fragments not yet sent of the call, in order
  sentText, \* pieces of text sent
  firsts,   \* history: the first fragments of the calls, in the order they came
  passed,   \* pieces given to onDelta
  order, states,  \* remoteToolCallBuffer
  result    \* what ChatStream returns: its kind, text and calls

streamVars == <<toCome, sentText, firsts, passed, order, states, result>>

\* The elements of a sequence that are to keep, as FlattenSeq can say it.
Those(s, keep(_)) == FlattenSeq([k \in DOMAIN s |-> IF keep(s[k]) THEN <<s[k]>> ELSE <<>>])

Unknown == ""
Fragment(index, id, name, piece) == [index |-> index, id |-> id, name |-> name, piece |-> piece]
State(id, name, arguments) == [id |-> id, name |-> name, arguments |-> arguments]

Open == [kind |-> "open", text |-> 0, calls |-> <<>>]

\* The first fragment names the call, with or without a piece of its arguments;
\* upstream may say the id in every fragment, in the first or never, and may
\* leave the name out altogether.
Fragments(index, name, ids, early) ==
  LET id(k) == IF ids = "all" \/ (ids = "first" /\ k = 1) THEN "id" ELSE Unknown
      pieces == IF early THEN ArgumentPieces ELSE ArgumentPieces + 1
  IN  [k \in 1..pieces |->
         Fragment(index, id(k), IF k = 1 THEN name ELSE Unknown, IF early THEN k ELSE k - 1)]

StreamInit ==
  /\ \E name \in [StreamCalls -> {"tool", Unknown}], ids \in {"all", "first", "never"}, early \in BOOLEAN :
       toCome = [i \in StreamCalls |-> Fragments(i, name[i], ids, early)]
  /\ sentText = 0 /\ firsts = <<>> /\ passed = <<>>
  /\ order = <<>> /\ states = [i \in StreamCalls |-> State(Unknown, Unknown, <<>>)]
  /\ result = Open

-----------------------------------------------------------------------------

\* Mutant: a name or an id that is not said again is forgotten.
GivenNow(new, old) == new

\* What is not given leaves what is known.
Given(new, old) == IF new = Unknown THEN old ELSE new

AddOne(buffer, fragment) ==
  LET i == fragment.index
      state == buffer.states[i]
  IN  [order |-> IF Contains(buffer.order, i) THEN buffer.order ELSE Append(buffer.order, i),
       states |-> [buffer.states EXCEPT ![i] =
         State(Given(fragment.id, state.id), Given(fragment.name, state.name),
               IF fragment.piece = 0 THEN state.arguments ELSE Append(state.arguments, fragment.piece))]]

\* The fragments of one event.
Add(fragments) ==
  LET buffer == FoldLeft(AddOne, [order |-> order, states |-> states], fragments)
  IN  order' = buffer.order /\ states' = buffer.states

AllPieces == [k \in 1..ArgumentPieces |-> k]

\* Arguments that are not an object are passed on as they are; a call without a
\* name is no call; one without an id is given a new one.
Calls ==
  LET call(i) == [index |-> i, id |-> Given(states[i].id, "new"),
                  arguments |-> states[i].arguments, parsed |-> states[i].arguments \in {<<>>, AllPieces}]
      named == Those(order, LAMBDA i : states[i].name # Unknown)
  IN  [k \in DOMAIN named |-> call(named[k])]

\* An event with text, with fragments of up to two calls, or both.
StreamEvent ==
  /\ result = Open
  /\ \E text \in {0, 1}, indices \in BoundedSeq(StreamCalls, 2) :
       LET fragments == [k \in DOMAIN indices |-> Head(toCome[indices[k]])] IN
       /\ text = 1 \/ indices # <<>>
       /\ sentText + text <= MaxText
       /\ IsInjective(indices) /\ \A k \in DOMAIN indices : toCome[indices[k]] # <<>>
       /\ Add(fragments)
       /\ toCome' = [i \in StreamCalls |-> IF Contains(indices, i) THEN Tail(toCome[i]) ELSE toCome[i]]
       /\ firsts' = firsts \o Those(fragments, LAMBDA f :
                      \A k \in DOMAIN firsts : firsts[k].index # f.index)
       /\ sentText' = sentText + text
       /\ passed' = IF text = 1 THEN Append(passed, sentText') ELSE passed
  /\ UNCHANGED result

\* [DONE], or the end of the response without it: the answer is what came.
StreamEnds ==
  /\ result = Open
  /\ result' = [kind |-> "answer", text |-> Len(passed), calls |-> Calls]
  /\ UNCHANGED <<toCome, sentText, firsts, passed, order, states>>

\* An event with a status of 400 or more, one that is not JSON, or a response
\* that is cut off.
StreamFails ==
  /\ result = Open
  /\ result' = [Open EXCEPT !.kind = "error"]
  /\ UNCHANGED <<toCome, sentText, firsts, passed, order, states>>

StreamNext == StreamEvent \/ StreamEnds \/ StreamFails

StreamSpec == StreamInit /\ [][StreamNext]_streamVars

-----------------------------------------------------------------------------

\* The answer has the text that was passed on, and every call upstream named, in
\* the order of their first fragments and with the pieces of its arguments in
\* order, whatever came between them: all of them, or, when the stream ended
\* early, the first ones and not taken for an object.
AnswerAsStreamed ==
  /\ passed = [k \in 1..sentText |-> k]
  /\ result.kind = "answer" =>
       /\ result.text = sentText
       /\ LET expected == Those(firsts, LAMBDA f : f.name = "tool") IN
          /\ Len(result.calls) = Len(expected)
          /\ \A k \in DOMAIN result.calls :
               LET call == result.calls[k]
                   left == Len(toCome[call.index])
               IN  /\ call.index = expected[k].index
                   /\ call.id = IF expected[k].id = Unknown THEN "new" ELSE expected[k].id
                   /\ call.arguments = [n \in 1..(ArgumentPieces - left) |-> n]
                   /\ left = 0 => call.parsed
                   /\ call.parsed => left = 0 \/ call.arguments = <<>>
=============================================================================
