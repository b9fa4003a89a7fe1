--------------------------- MODULE RemoteFallback ---------------------------
(***************************************************************************)
(* internal/service/service.go: one chat request on the remote backend.    *)
(* It is tried with the requested model and then, if the upstream fails in *)
(* a way that says so and nothing was produced yet, with the models that   *)
(* follow it in the fallback list.                                         *)
(*                                                                         *)
(* A name is what a client or a configuration writes; Canonical is what    *)
(* normalizeModelForBackend makes of it.  A delta is the model that sent   *)
(* it.  An image request goes through the IPC backend (see IpcSession).    *)
(***************************************************************************)
EXTENDS Integers, SequencesExt

CONSTANTS
  Names,      \* model names, aliases and the empty name among them
  NoName,     \* the empty name, and any blank one
  Canonical,  \* name to model
  DefaultModel, DefaultFallback,
  MaxConfigured, \* bound on the configured fallback list
  MaxDeltas   \* bound on the deltas of one request

ASSUME FallbackAssumption ==
  /\ NoName \in Names /\ DefaultModel \in Names
  /\ Canonical \in [Names -> Names] /\ Canonical[NoName] = NoName
  /\ \A n \in Names : Canonical[Canonical[n]] = Canonical[n]
  /\ \A n \in Names : Canonical[n] = NoName => n = NoName
  /\ Canonical[DefaultModel] # NoName
  /\ DefaultFallback \in Seq(Names)
  /\ MaxConfigured \in Nat /\ MaxDeltas \in Nat

Requests == [model : Names, stream : BOOLEAN, images : BOOLEAN, tools : BOOLEAN]
Configs == [fallback : BOOLEAN, models : BoundedSeq(Names, MaxConfigured), timeout : BOOLEAN]

\* isRemoteFallbackError reads the kind off the error's text.
FallbackErrors == {"deadline", "status 429", "status 5xx", "connection reset", "unexpected eof"}
OtherErrors == {"canceled", "status 4xx", "sse status", "connection refused"}
LocalErrors == {"empty user message", "image context"}

VARIABLES
  request, config,
  step,       \* where generateRemoteInternal is
  attempts, current, \* the models to try, and the one being tried
  expired, cancelled, \* the attempt's deadline; the request's own context
  emitted,    \* this attempt produced text
  shown,      \* the deltas passed on to the client
  failure,    \* the last error
  result      \* the model that answered, and whether with tool calls

vars == <<request, config, step, attempts, current, expired, cancelled, emitted, shown, failure, result>>

NoResult == [model |-> NoName, calls |-> FALSE]

TypeOK ==
  /\ request \in Requests
  /\ config \in Configs
  /\ step \in {"route", "ipc", "images", "chat", "retry", "emulate", "hint", "returned"}
  /\ attempts \in Seq(Names)
  /\ current \in IF attempts = <<>> THEN {0} ELSE DOMAIN attempts
  /\ expired \in BOOLEAN /\ cancelled \in BOOLEAN /\ emitted \in BOOLEAN
  /\ shown \in Seq(Names) /\ Len(shown) <= MaxDeltas
  /\ failure \in {"none"} \cup FallbackErrors \cup OtherErrors \cup LocalErrors
  /\ result \in [model : Names, calls : BOOLEAN]

Init ==
  /\ request \in Requests
  /\ config \in Configs
  /\ step = "route"
  /\ attempts = <<>> /\ current = 0
  /\ expired = FALSE /\ cancelled = FALSE /\ emitted = FALSE
  /\ shown = <<>>
  /\ failure = "none"
  /\ result = NoResult

-----------------------------------------------------------------------------
(* The models to try *)

FallbackList == IF config.models = <<>> THEN DefaultFallback ELSE config.models

AddModel(out, name) ==
  IF Canonical[name] = NoName \/ Contains(out, Canonical[name]) THEN out ELSE Append(out, Canonical[name])

(* Models in the order first named, without blanks.                        *)
FallbackModels == FoldLeft(AddModel, <<>>, FallbackList)

After(list, model) ==
  IF Contains(list, model) THEN SubSeq(list, SelectInSeq(list, LAMBDA m : m = model) + 1, Len(list)) ELSE list

\* Mutant: the models before the requested one are tried too.
AttemptModelsAll(primary) ==
  <<primary>> \o (IF config.fallback THEN Remove(FallbackModels, primary) ELSE <<>>)

AttemptModels(primary) ==
  <<primary>> \o (IF config.fallback THEN After(FallbackModels, primary) ELSE <<>>)

Primary == Canonical[IF request.model = NoName THEN DefaultModel ELSE request.model]

-----------------------------------------------------------------------------
Return(error) ==
  /\ step' = "returned"
  /\ failure' = error

RouteToIpc ==
  /\ step = "route" /\ request.images /\ ~request.tools
  /\ step' = "ipc"
  /\ UNCHANGED <<request, config, attempts, current, expired, cancelled, emitted, shown, failure, result>>

IpcEnds ==
  /\ step = "ipc"
  /\ step' = "returned"
  /\ UNCHANGED <<request, config, attempts, current, expired, cancelled, emitted, shown, failure, result>>

(* With tools, IPC only describes the images, which the remote prompt then *)
(* holds as text.                                                          *)
ExtractImages ==
  /\ step = "route" /\ request.images /\ request.tools
  /\ step' = "images"
  /\ UNCHANGED <<request, config, attempts, current, expired, cancelled, emitted, shown, failure, result>>

ImagesExtracted ==
  /\ step = "images"
  /\ request' = [request EXCEPT !.images = FALSE]
  /\ step' = "route"
  /\ UNCHANGED <<config, attempts, current, expired, cancelled, emitted, shown, failure, result>>

ImagesFailed ==
  /\ step = "images"
  /\ Return("image context")
  /\ UNCHANGED <<request, config, attempts, current, expired, cancelled, emitted, shown, result>>

EmptyPrompt ==
  /\ step = "route" /\ ~request.images
  /\ Return("empty user message")
  /\ UNCHANGED <<request, config, attempts, current, expired, cancelled, emitted, shown, result>>

StartAttempts ==
  /\ step = "route" /\ ~request.images
  /\ attempts' = AttemptModels(Primary)
  /\ current' = 1
  /\ step' = "chat"
  /\ UNCHANGED <<request, config, expired, cancelled, emitted, shown, failure, result>>

-----------------------------------------------------------------------------
Calling == step \in {"chat", "retry", "hint"}

\* Mutant: only the first attempt has a deadline.
ExpireFirst ==
  /\ Calling /\ config.timeout /\ ~expired /\ current = 1
  /\ expired' = TRUE
  /\ UNCHANGED <<request, config, step, attempts, current, cancelled, emitted, shown, failure, result>>

(* The attempt's deadline, which its later calls share.                    *)
Expire ==
  /\ Calling /\ config.timeout /\ ~expired
  /\ expired' = TRUE
  /\ UNCHANGED <<request, config, step, attempts, current, cancelled, emitted, shown, failure, result>>

Cancel ==
  /\ step # "returned" /\ ~cancelled
  /\ cancelled' = TRUE
  /\ UNCHANGED <<request, config, step, attempts, current, expired, emitted, shown, failure, result>>

(* Text from the upstream; a client that asked for no stream sees nothing, *)
(* yet the attempt counts as begun.                                        *)
Delta ==
  /\ step = "chat" /\ Len(shown) < MaxDeltas
  /\ emitted' = TRUE
  /\ shown' = IF request.stream THEN Append(shown, attempts[current]) ELSE shown
  /\ UNCHANGED <<request, config, step, attempts, current, expired, cancelled, failure, result>>

(* How the upstream call may fail.                                         *)
Failures ==
  (FallbackErrors \ {"deadline"}) \cup (OtherErrors \ {"canceled"})
    \cup (IF expired THEN {"deadline"} ELSE {}) \cup (IF cancelled THEN {"canceled"} ELSE {})

MayFallBack(error) == current < Len(attempts) /\ ~emitted /\ error \in FallbackErrors

TryNext(error) ==
  /\ current' = current + 1
  /\ failure' = error
  /\ expired' = FALSE /\ emitted' = FALSE
  /\ UNCHANGED <<request, config, step, attempts, cancelled, shown, result>>

\* Mutant: the output is not asked about.
NextModelAfterOutput ==
  \E error \in Failures :
    step = "chat" /\ current < Len(attempts) /\ error \in FallbackErrors /\ TryNext(error)

NextModel == \E error \in Failures : step = "chat" /\ MayFallBack(error) /\ TryNext(error)

GiveUp ==
  \E error \in Failures :
    /\ step = "chat" /\ ~MayFallBack(error)
    /\ Return(error)
    /\ UNCHANGED <<request, config, attempts, current, expired, cancelled, emitted, shown, result>>

(* An answer: with tool calls, or text alone.  Text that announces a tool  *)
(* is asked for once more; tools asked for are then looked for in the text.*)
ChatAnswered ==
  /\ step = "chat"
  /\ \E calls \in BOOLEAN, announces \in BOOLEAN :
       /\ calls => request.tools
       /\ result' = [model |-> attempts[current], calls |-> calls]
       /\ step' = IF ~request.tools THEN "returned"
                  ELSE IF ~calls /\ announces THEN "retry" ELSE "emulate"
  /\ failure' = "none"
  /\ UNCHANGED <<request, config, attempts, current, expired, cancelled, emitted, shown>>

(* Only tool calls replace the first answer; an error is ignored.          *)
RetryEnds ==
  /\ step = "retry"
  /\ \E calls \in BOOLEAN :
       /\ result' = [result EXCEPT !.calls = calls]
       /\ emitted' = IF calls THEN FALSE ELSE emitted
  /\ step' = "emulate"
  /\ UNCHANGED <<request, config, attempts, current, expired, cancelled, shown, failure>>

(* Action blocks in the text, no reason to insist, or a second prompt.     *)
Emulate ==
  /\ step = "emulate"
  /\ \/ result' = [result EXCEPT !.calls = TRUE] /\ step' = "returned"
     \/ UNCHANGED result /\ step' \in {"returned", "hint"}
  /\ UNCHANGED <<request, config, attempts, current, expired, cancelled, emitted, shown, failure>>

HintEnds ==
  /\ step = "hint"
  /\ \E calls \in BOOLEAN : result' = [result EXCEPT !.calls = @ \/ calls]
  /\ step' = "returned"
  /\ UNCHANGED <<request, config, attempts, current, expired, cancelled, emitted, shown, failure>>

-----------------------------------------------------------------------------
LocalStep ==
  RouteToIpc \/ IpcEnds \/ ExtractImages \/ ImagesExtracted \/ ImagesFailed
    \/ EmptyPrompt \/ StartAttempts \/ Emulate

CallEnds == NextModel \/ GiveUp \/ ChatAnswered \/ RetryEnds \/ HintEnds

Returned == step = "returned" /\ UNCHANGED vars

Next == LocalStep \/ CallEnds \/ Delta \/ Expire \/ Cancel \/ Returned

Spec == Init /\ [][Next]_vars

(* Fairness.  The timer of an attempt fires, and a call whose context is   *)
(* done ends; an upstream may otherwise stay silent.  IPC requests end     *)
(* (IpcSession).                                                           *)
FairSpec ==
  /\ Spec
  /\ WF_vars(LocalStep) /\ WF_vars(Expire)
  /\ WF_vars((expired \/ cancelled) /\ CallEnds)

-----------------------------------------------------------------------------
(* Safety: all text the client is shown comes from one model, and a result *)
(* names that model (service.go 421-432, 459-468).                         *)
AnswerFromOneModel ==
  /\ \A i, j \in DOMAIN shown : shown[i] = shown[j]
  /\ \A i \in DOMAIN shown : result.model \in {NoName, shown[i]}

Tried == {attempts[i] : i \in 1 .. current}

(* Safety: a model tried after the first is configured after the requested *)
(* one, if that is configured at all, and none is tried twice, however     *)
(* often and under whatever alias the list names it (service.go 726-778).  *)
FirstIndex(model) == SelectInSeq(config.models, LAMBDA n : Canonical[n] = model)

InOrder ==
  config.models # <<>> =>
    \A i \in 2 .. Len(attempts) :
      /\ config.fallback
      /\ FirstIndex(attempts[i]) > FirstIndex(attempts[i - 1])
      /\ \A j \in 1 .. i - 1 : attempts[j] # attempts[i]

(* Safety: a request that produced nothing fails with an error of a        *)
(* fallback kind only when every model configured after the requested one  *)
(* was tried (service.go 416-434).                                         *)
NoneLeftOut ==
  step = "returned" /\ failure \in FallbackErrors /\ ~emitted /\ config.fallback =>
    \A i \in DOMAIN config.models :
      \/ Canonical[config.models[i]] \in Tried \cup {NoName}
      \/ FirstIndex(Canonical[config.models[i]]) < FirstIndex(Primary)

(* Safety: the attempts are the configured models after the requested one, *)
(* each once, in order, and none left out (service.go 416-434, 726-778).   *)
AttemptsAsConfigured == InOrder /\ NoneLeftOut

(* Liveness: with a request timeout every request ends, after however many *)
(* attempts (service.go 421-434).                                          *)
RequestEnds == config.timeout /\ step = "chat" ~> step = "returned"
=============================================================================
