----------------------------- MODULE ChatGate -----------------------------
(***************************************************************************)
(* internal/httpapi/server.go: the execution slots of the chat endpoints,  *)
(* the handler of one request each, the goroutine GenerateStream starts    *)
(* for a streaming one, and Server.Shutdown.                               *)
(*                                                                         *)
(* A delta is the number it has among its request's.  What the generation  *)
(* itself does is in IpcSession and RemoteFallback; here it sends deltas   *)
(* and ends.                                                               *)
(***************************************************************************)
EXTENDS Integers, Sequences, FiniteSets

CONSTANTS
  Requests,   \* chat requests, one handler goroutine each
  Streams,    \* those that ask for a stream
  Slots,      \* capacity of Server.sem
  EventCap,   \* capacity of the event channel (256 in the code)
  MaxDeltas   \* bound on the deltas of one answer

ASSUME GateAssumption ==
  /\ IsFiniteSet(Requests) /\ Streams \subseteq Requests
  /\ Slots \in Nat \ {0} /\ EventCap \in Nat \ {0} /\ MaxDeltas \in Nat

VARIABLES
  handler,    \* where each handler is
  slots,      \* tokens in Server.sem
  left,       \* requests whose client went away, or was cut off
  ctxDone,    \* requests whose context is done
  gen,        \* where each generation is
  made,       \* deltas it produced
  events, eventsClosed, done, \* the two channels from generation to handler
  eventsNil, doneNil,         \* channels the handler has set to nil
  written,    \* deltas handed to the response writer
  server      \* "up", "draining" in http.Shutdown, "forced", "closed"

handlerVars == <<handler, slots, left, ctxDone, eventsNil, doneNil, written>>
genVars == <<gen, made, events, eventsClosed, done>>
vars == <<handlerVars, genVars, server>>

TypeOK ==
  /\ handler \in [Requests -> {"idle", "waiting", "held", "inline", "streaming", "writing", "answered", "returned"}]
  /\ slots \in 0 .. Slots
  /\ left \subseteq Requests /\ ctxDone \subseteq Requests
  /\ gen \in [Requests -> {"none", "running", "sending", "ending", "ended"}]
  /\ made \in [Requests -> 0 .. MaxDeltas]
  /\ events \in [Requests -> Seq(1 .. MaxDeltas)]
  /\ \A r \in Requests : Len(events[r]) <= EventCap
  /\ eventsClosed \subseteq Requests
  /\ done \in [Requests -> {"empty", "result", "taken"}]
  /\ eventsNil \subseteq Requests /\ doneNil \subseteq Requests
  /\ written \in [Requests -> Seq(1 .. MaxDeltas)]
  /\ server \in {"up", "draining", "forced", "closed"}

Init ==
  /\ handler = [r \in Requests |-> "idle"]
  /\ slots = 0
  /\ left = {} /\ ctxDone = {}
  /\ gen = [r \in Requests |-> "none"]
  /\ made = [r \in Requests |-> 0]
  /\ events = [r \in Requests |-> <<>>]
  /\ eventsClosed = {}
  /\ done = [r \in Requests |-> "empty"]
  /\ eventsNil = {} /\ doneNil = {}
  /\ written = [r \in Requests |-> <<>>]
  /\ server = "up"

-----------------------------------------------------------------------------
Goto(r, step) == handler' = [handler EXCEPT ![r] = step]
Holds(r) == handler[r] \in {"held", "inline", "streaming", "writing"}
Ended(r) == handler[r] \in {"answered", "returned"}

\* Mutant: the handler returns without its release.
ExitKeepsSlot(r, how) ==
  /\ Goto(r, how)
  /\ ctxDone' = ctxDone \cup {r}
  /\ UNCHANGED <<slots, left, written, genVars, server>>

(* The handler returns: deferred release, and net/http cancels its context. *)
Exit(r, how) ==
  /\ Goto(r, how)
  /\ slots' = IF slots > 0 THEN slots - 1 ELSE slots
  /\ ctxDone' = ctxDone \cup {r}
  /\ UNCHANGED <<left, written, genVars, server>>

Arrive(r) ==
  /\ handler[r] = "idle" /\ server = "up"
  /\ Goto(r, "waiting")
  /\ UNCHANGED <<slots, left, ctxDone, eventsNil, doneNil, written, genVars, server>>

ClientLeaves(r) ==
  /\ ~Ended(r) /\ handler[r] # "idle"
  /\ left' = left \cup {r}
  /\ ctxDone' = ctxDone \cup {r}
  /\ UNCHANGED <<handler, slots, eventsNil, doneNil, written, genVars, server>>

(* acquire: a token, or the context's end; both may be ready.              *)
Acquire(r) ==
  /\ handler[r] = "waiting" /\ slots < Slots
  /\ slots' = slots + 1
  /\ Goto(r, "held")
  /\ UNCHANGED <<left, ctxDone, eventsNil, doneNil, written, genVars, server>>

\* Mutant: the deferred release comes before the check, so it runs here too.
WaitCancelledReleases(r) ==
  /\ handler[r] = "waiting" /\ r \in ctxDone
  /\ Exit(r, "returned")
  /\ UNCHANGED <<eventsNil, doneNil>>

WaitCancelled(r) ==
  /\ handler[r] = "waiting" /\ r \in ctxDone
  /\ Goto(r, "returned")
  /\ UNCHANGED <<slots, left, ctxDone, eventsNil, doneNil, written, genVars, server>>

(* A body that does not decode or normalise is answered with an error.     *)
Refuse(r) ==
  /\ handler[r] = "held"
  /\ Exit(r, "answered")
  /\ UNCHANGED <<eventsNil, doneNil>>

(* Service.Generate runs in the handler.                                   *)
StartInline(r) ==
  /\ handler[r] = "held" /\ r \notin Streams
  /\ Goto(r, "inline")
  /\ gen' = [gen EXCEPT ![r] = "running"]
  /\ UNCHANGED <<slots, left, ctxDone, eventsNil, doneNil, written, made, events, eventsClosed, done, server>>

InlineDone(r) ==
  /\ handler[r] = "inline"
  /\ Goto(r, "answered")
  /\ slots' = IF slots > 0 THEN slots - 1 ELSE slots
  /\ ctxDone' = ctxDone \cup {r}
  /\ gen' = [gen EXCEPT ![r] = "ended"]
  /\ UNCHANGED <<left, eventsNil, doneNil, written, made, events, eventsClosed, done, server>>

StartStream(r) ==
  /\ handler[r] = "held" /\ r \in Streams
  /\ Goto(r, "streaming")
  /\ gen' = [gen EXCEPT ![r] = "running"]
  /\ UNCHANGED <<slots, left, ctxDone, eventsNil, doneNil, written, made, events, eventsClosed, done, server>>

-----------------------------------------------------------------------------
(* The goroutine of GenerateStream *)

(* onDelta: the select between the event channel and the context.          *)
NewDelta(r) ==
  /\ gen[r] = "running" /\ r \in Streams
  /\ made[r] < MaxDeltas
  /\ made' = [made EXCEPT ![r] = @ + 1]
  /\ gen' = [gen EXCEPT ![r] = "sending"]
  /\ UNCHANGED <<handlerVars, events, eventsClosed, done, server>>

SendDelta(r) ==
  /\ gen[r] = "sending" /\ Len(events[r]) < EventCap
  /\ events' = [events EXCEPT ![r] = Append(@, made[r])]
  /\ gen' = [gen EXCEPT ![r] = "running"]
  /\ UNCHANGED <<handlerVars, made, eventsClosed, done, server>>

\* Mutant: the send is tried again, whatever the context says.
SendAgain(r) == gen[r] = "sending" /\ r \in ctxDone /\ UNCHANGED vars

DropDelta(r) ==
  /\ gen[r] = "sending" /\ r \in ctxDone
  /\ gen' = [gen EXCEPT ![r] = "running"]
  /\ UNCHANGED <<handlerVars, made, events, eventsClosed, done, server>>

(* The generation returned, with a result or an error.                     *)
CloseEvents(r) ==
  /\ gen[r] = "running" /\ r \in Streams
  /\ eventsClosed' = eventsClosed \cup {r}
  /\ gen' = [gen EXCEPT ![r] = "ending"]
  /\ UNCHANGED <<handlerVars, made, events, done, server>>

SendResult(r) ==
  /\ gen[r] = "ending"
  /\ done' = [done EXCEPT ![r] = "result"]
  /\ gen' = [gen EXCEPT ![r] = "ended"]
  /\ UNCHANGED <<handlerVars, made, events, eventsClosed, server>>

-----------------------------------------------------------------------------
(* The handler's select loop *)

TakeDelta(r) ==
  /\ handler[r] = "streaming" /\ events[r] # <<>>
  /\ events' = [events EXCEPT ![r] = Tail(@)]
  /\ written' = [written EXCEPT ![r] = Append(@, Head(events[r]))]
  /\ Goto(r, "writing")
  /\ UNCHANGED <<slots, left, ctxDone, eventsNil, doneNil, gen, made, eventsClosed, done, server>>

(* The write came back: the client reads, or the kernel buffers it.         *)
DeltaWritten(r) ==
  /\ handler[r] = "writing"
  /\ Goto(r, "streaming")
  /\ UNCHANGED <<slots, left, ctxDone, eventsNil, doneNil, written, genVars, server>>

WriteFailed(r) ==
  /\ handler[r] = "writing" /\ r \in left
  /\ Exit(r, "returned")
  /\ UNCHANGED <<eventsNil, doneNil>>

EventsDrained(r) ==
  /\ handler[r] = "streaming" /\ r \in eventsClosed \ eventsNil /\ events[r] = <<>>
  /\ eventsNil' = eventsNil \cup {r}
  /\ UNCHANGED <<handler, slots, left, ctxDone, doneNil, written, genVars, server>>

TakeResult(r) ==
  /\ handler[r] = "streaming" /\ done[r] = "result"
  /\ done' = [done EXCEPT ![r] = "taken"]
  /\ doneNil' = doneNil \cup {r}
  /\ UNCHANGED <<handler, slots, left, ctxDone, eventsNil, written, gen, made, events, eventsClosed, server>>

ContextDone(r) ==
  /\ handler[r] = "streaming" /\ r \in ctxDone
  /\ Exit(r, "returned")
  /\ UNCHANGED <<eventsNil, doneNil>>

\* Mutant: the loop ends when either channel is used up.
AnswerEarly(r) ==
  /\ handler[r] = "streaming" /\ r \in eventsNil \cup doneNil
  /\ Exit(r, "answered")
  /\ UNCHANGED <<eventsNil, doneNil>>

(* Both channels are nil: the closing events are written.                  *)
Answer(r) ==
  /\ handler[r] = "streaming" /\ r \in eventsNil \cap doneNil
  /\ Exit(r, "answered")
  /\ UNCHANGED <<eventsNil, doneNil>>

-----------------------------------------------------------------------------
(* Server.Shutdown: http.Shutdown waits for the handlers until its context *)
(* is done, then http.Close cuts the connections; Service.Close is last.   *)

Shutdown ==
  /\ server = "up"
  /\ server' = "draining"
  /\ UNCHANGED <<handlerVars, genVars>>

Serving == {r \in Requests : ~Ended(r) /\ handler[r] # "idle"}

\* Mutant: the connections stay open, http.Close is left out.
ForceCloseSkipped ==
  /\ server = "draining" /\ Serving # {}
  /\ server' = "forced"
  /\ UNCHANGED <<handlerVars, genVars>>

ForceClose ==
  /\ server = "draining" /\ Serving # {}
  /\ server' = "forced"
  /\ left' = left \cup Serving
  /\ ctxDone' = ctxDone \cup Serving
  /\ UNCHANGED <<handler, slots, eventsNil, doneNil, written, genVars>>

\* Mutant: Service.Close is not waited for the handlers.
CloseServiceAtOnce ==
  /\ server \in {"draining", "forced"}
  /\ server' = "closed"
  /\ UNCHANGED <<handlerVars, genVars>>

CloseService ==
  /\ \/ server = "forced"
     \/ server = "draining" /\ Serving = {}
  /\ server' = "closed"
  /\ UNCHANGED <<handlerVars, genVars>>

-----------------------------------------------------------------------------
HandlerStep(r) ==
  \/ WaitCancelled(r) \/ Refuse(r) \/ StartInline(r) \/ StartStream(r) \/ InlineDone(r)
  \/ TakeDelta(r) \/ WriteFailed(r) \/ EventsDrained(r) \/ TakeResult(r)
  \/ ContextDone(r) \/ Answer(r)

GenStep(r) == NewDelta(r) \/ SendDelta(r) \/ DropDelta(r) \/ CloseEvents(r) \/ SendResult(r)

Finished ==
  /\ server = "closed" /\ Serving = {}
  /\ \A r \in Requests : gen[r] \in {"none", "ended"}
  /\ UNCHANGED vars

Next ==
  \/ \E r \in Requests : Arrive(r) \/ ClientLeaves(r) \/ Acquire(r) \/ DeltaWritten(r) \/ HandlerStep(r) \/ GenStep(r)
  \/ Shutdown \/ ForceClose \/ CloseService
  \/ Finished

Spec == Init /\ [][Next]_vars

(* Fairness.  Goroutines run, the generation ends by itself (see the       *)
(* modules of the two backends), the runtime serves the senders blocked on *)
(* a channel in turn, and both callers of Shutdown give it a deadline.     *)
(* Nothing bounds a write to a client that has stopped reading: that it    *)
(* reads on or goes away is a hypothesis of the properties that need it.   *)
Fairness ==
  /\ \A r \in Requests : WF_vars(HandlerStep(r)) /\ WF_vars(GenStep(r)) /\ SF_vars(Acquire(r))
  /\ WF_vars(ForceClose) /\ WF_vars(CloseService)

ClientsRead == \A r \in Requests : WF_vars(DeltaWritten(r))

FairSpec == Spec /\ Fairness

-----------------------------------------------------------------------------
(* Safety: a token is in the semaphore for each handler past acquire that  *)
(* has not returned: a slot is neither lost nor given back twice           *)
(* (server.go 697-701, 891-905).                                           *)
SlotsMatchHolders == slots = Cardinality({r \in Requests : Holds(r)})

(* Safety: a client that got a streamed answer's end got all its deltas,   *)
(* in order, and the final result; only the client's leaving or a forced   *)
(* shutdown ends a request otherwise (server.go 946-1046).                 *)
CompleteAnswer ==
  \A r \in Requests :
    /\ handler[r] = "answered" /\ gen[r] # "none" /\ r \in Streams =>
         /\ r \in doneNil
         /\ r \in left \/ written[r] = [i \in 1 .. made[r] |-> i]
    /\ handler[r] = "returned" => r \in left

(* Safety: the service is closed under a running handler only when the     *)
(* shutdown deadline cut that handler's client off (server.go 184-198).    *)
ClosedAfterHandlers ==
  server = "closed" => \A r \in Serving : r \in left

(* Liveness: while clients read, a request waiting for a slot is served or *)
(* leaves, and a generation ends, also one whose handler has gone          *)
(* (server.go 891-898, service.go 348-366).                                *)
WaiterServed ==
  ClientsRead => \A r \in Requests : handler[r] = "waiting" ~> handler[r] # "waiting"
GenerationEnds ==
  ClientsRead => \A r \in Requests : gen[r] = "running" ~> gen[r] = "ended"

(* Liveness: Shutdown closes the service and no handler is left behind,    *)
(* not even one whose client has stopped reading (server.go 184-198).      *)
ShutdownEnds == server = "draining" ~> server = "closed" /\ Serving = {}
=============================================================================
