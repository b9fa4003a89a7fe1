----------------------------- MODULE IpcClient -----------------------------
(***************************************************************************)
(* internal/lingmaipc/client.go: one JSON-RPC connection to the local      *)
(* Lingma / QoderCN runtime, shared by every request of the proxy.         *)
(*                                                                         *)
(* Goroutines: callers of Client.Request, subscribers (one Subscribe, one  *)
(* Send of session/prompt, a receive loop, the deferred cancel), the       *)
(* connection's readLoop, and callers of Client.Close.  A critical section *)
(* of pendingMu is one step.  subsMu is held for reading through a whole   *)
(* broadcast, whose channel sends may block; its write sections are single *)
(* steps that wait for the broadcast to end.                               *)
(*                                                                         *)
(* A caller stands for the id buildRequest gives its only request, and a   *)
(* notification for the number of notifications read before it, plus one.  *)
(***************************************************************************)
EXTENDS Integers, Sequences, FiniteSets

CONSTANTS
  Callers,      \* goroutines in Client.Request, one call each
  Subscribers,  \* goroutines in Service.runPromptLocked, one subscription each
  Closers,      \* goroutines that call Client.Close, the read loop apart
  SubCap,       \* capacity of a subscription channel (2048 in the code)
  MaxNotes,     \* bound on the notifications the runtime sends
  ReadLoop      \* the read loop, as the goroutine that runs Close

ASSUME IpcAssumption ==
  /\ SubCap \in Nat \ {0}
  /\ MaxNotes \in Nat
  /\ ReadLoop \notin Closers

VARIABLES
  callPc, callRes,  \* where each call is, and what Request returned
  pending,          \* Client.pending: calls whose id is registered
  respCh,           \* each call's one-slot channel: "open", or what was put in it
  written,          \* calls whose frame the runtime received
  subPc,            \* where each subscriber is
  subs,             \* Client.subs: registered subscriptions
  subQ,             \* each subscription channel's buffer
  subClosed,        \* subscriptions whose channel is closed
  seen,             \* last notification each subscriber took, or missed by arriving late
  notes,            \* notifications read so far
  rlPc, rlTo, rlId, \* readLoop: where it is, whom it still sends to, whom it answers
  rlAnswer,         \* the notification being broadcast carries an id
  closePc,          \* progress of closeOnce.Do
  waitClose,        \* goroutines inside Client.Close
  closed,           \* Client.closed is closed
  transport, peer,  \* our end and the runtime's end of the connection
  closeErr,         \* Client.closeErr: "none" or "stored"
  panicked          \* a send on, or a close of, a closed channel

callVars == <<callPc, callRes, pending, respCh, written>>
subVars  == <<subPc, subs, subQ, subClosed, seen>>
loopVars == <<notes, rlPc, rlTo, rlId, rlAnswer>>
closeVars == <<closePc, waitClose, closed, transport, closeErr>>
vars == <<callVars, subVars, loopVars, closeVars, peer, panicked>>

NoCall == "no call"

TypeCalls ==
  /\ callPc \in [Callers -> {"idle", "registered", "waiting", "returned"}]
  /\ callRes \in [Callers -> {"none", "reply", "eof", "ctx", "closeErr", "writeErr"}]
  /\ pending \subseteq Callers
  /\ respCh \in [Callers -> {"open", "reply", "eof"}]
  /\ written \subseteq Callers

TypeSubs ==
  /\ subPc \in [Subscribers -> {"idle", "subscribed", "listening", "delivering", "cancelling", "done"}]
  /\ subs \subseteq Subscribers
  /\ subQ \in [Subscribers -> Seq(Nat)]
  /\ \A s \in Subscribers : Len(subQ[s]) <= SubCap
  /\ subClosed \subseteq Subscribers
  /\ seen \in [Subscribers -> Nat]

TypeLoop ==
  /\ notes \in Nat
  /\ rlPc \in {"read", "broadcast", "respond", "deliver", "closing", "done"}
  /\ rlTo \subseteq Subscribers
  /\ rlId \in Callers \cup {NoCall}
  /\ rlAnswer \in BOOLEAN

TypeClose ==
  /\ closePc \in {"unused", "signalled", "transportClosed", "pendingFailed", "done"}
  /\ waitClose \subseteq Closers \cup {ReadLoop}
  /\ closed \in BOOLEAN
  /\ transport \in {"open", "closed"}
  /\ peer \in {"up", "down"}
  /\ closeErr \in {"none", "stored"}
  /\ panicked \in BOOLEAN

(* Types, and no subscription buffers more than its channel's capacity     *)
(* (client.go 183-189, 304-310).                                           *)
TypeOK == TypeCalls /\ TypeSubs /\ TypeLoop /\ TypeClose

Init ==
  /\ callPc = [c \in Callers |-> "idle"]
  /\ callRes = [c \in Callers |-> "none"]
  /\ pending = {}
  /\ respCh = [c \in Callers |-> "open"]
  /\ written = {}
  /\ subPc = [s \in Subscribers |-> "idle"]
  /\ subs = {}
  /\ subQ = [s \in Subscribers |-> <<>>]
  /\ subClosed = {}
  /\ seen = [s \in Subscribers |-> 0]
  /\ notes = 0
  /\ rlPc = "read"
  /\ rlTo = {}
  /\ rlId = NoCall
  /\ rlAnswer = FALSE
  /\ closePc = "unused"
  /\ waitClose = {}
  /\ closed = FALSE
  /\ transport = "open"
  /\ peer = "up"
  /\ closeErr = "none"
  /\ panicked = FALSE

-----------------------------------------------------------------------------
(* Transport.  A write fails once our end is closed; after the runtime has *)
(* gone it may still succeed, into the socket's buffer.                    *)

CanWrite == transport = "open"
CanFailWrite == transport = "closed" \/ peer = "down"

PeerDown ==
  /\ peer = "up"
  /\ peer' = "down"
  /\ UNCHANGED <<callVars, subVars, loopVars, closeVars, panicked>>

-----------------------------------------------------------------------------
(* Client.Request.  A context may be done at any time: the HTTP client goes *)
(* away, or the deadline passes.                                           *)

Register(c) ==
  /\ callPc[c] = "idle"
  /\ callPc' = [callPc EXCEPT ![c] = "registered"]
  /\ pending' = pending \cup {c}
  /\ UNCHANGED <<callRes, respCh, written, subVars, loopVars, closeVars, peer, panicked>>

RequestWritten(c) ==
  /\ callPc[c] = "registered"
  /\ CanWrite
  /\ callPc' = [callPc EXCEPT ![c] = "waiting"]
  /\ written' = IF peer = "up" THEN written \cup {c} ELSE written
  /\ UNCHANGED <<callRes, pending, respCh, subVars, loopVars, closeVars, peer, panicked>>

Return(c, res) ==
  /\ callPc' = [callPc EXCEPT ![c] = "returned"]
  /\ callRes' = [callRes EXCEPT ![c] = res]
  /\ UNCHANGED <<respCh, written, subVars, loopVars, closeVars, peer, panicked>>

RequestWriteFailed(c) ==
  /\ callPc[c] = "registered"
  /\ CanFailWrite
  /\ pending' = pending \ {c}
  /\ Return(c, "writeErr")

\* Mutant: a call that gives up leaves its id registered.
RequestCtxDoneLeaky(c) ==
  /\ callPc[c] = "waiting"
  /\ UNCHANGED pending
  /\ Return(c, "ctx")

RequestCtxDone(c) ==
  /\ callPc[c] = "waiting"
  /\ pending' = pending \ {c}
  /\ Return(c, "ctx")

RequestClosed(c) ==
  /\ callPc[c] = "waiting"
  /\ closed
  /\ pending' = pending
  /\ Return(c, IF closeErr = "none" THEN "eof" ELSE "closeErr")

RequestAnswered(c) ==
  /\ callPc[c] = "waiting"
  /\ respCh[c] # "open"
  /\ pending' = pending
  /\ Return(c, respCh[c])

-----------------------------------------------------------------------------
(* Client.Subscribe, Client.Send and the receive loop of runPromptLocked   *)

SubsReadLocked == rlPc = "broadcast"

Subscribe(s) ==
  /\ subPc[s] = "idle"
  /\ ~SubsReadLocked
  /\ subPc' = [subPc EXCEPT ![s] = "subscribed"]
  /\ subs' = subs \cup {s}
  /\ seen' = [seen EXCEPT ![s] = notes]
  /\ UNCHANGED <<callVars, subQ, subClosed, loopVars, closeVars, peer, panicked>>

PromptSent(s) ==
  /\ subPc[s] = "subscribed"
  /\ CanWrite
  /\ subPc' = [subPc EXCEPT ![s] = "listening"]
  /\ UNCHANGED <<callVars, subs, subQ, subClosed, seen, loopVars, closeVars, peer, panicked>>

(* runPromptLocked is about to return: its deferred cancel is still to run. *)
LeaveLoop(s) == subPc' = [subPc EXCEPT ![s] = "cancelling"]

PromptSendFailed(s) ==
  /\ subPc[s] = "subscribed"
  /\ CanFailWrite
  /\ LeaveLoop(s)
  /\ UNCHANGED <<callVars, subs, subQ, subClosed, seen, loopVars, closeVars, peer, panicked>>

(* One notification is taken: it is another request's and is skipped, or a *)
(* chunk that onDelta forwards, or this request's chat_finish.             *)
TakeNote(s) ==
  /\ subPc[s] = "listening"
  /\ subQ[s] # <<>>
  /\ subQ' = [subQ EXCEPT ![s] = Tail(@)]
  /\ seen' = [seen EXCEPT ![s] = Head(subQ[s])]
  /\ \/ UNCHANGED subPc
     \/ subPc' = [subPc EXCEPT ![s] = "delivering"]
     \/ LeaveLoop(s)
  /\ UNCHANGED <<callVars, subs, subClosed, loopVars, closeVars, peer, panicked>>

(* onDelta returns: the event channel had room, or the context is done.    *)
DeltaForwarded(s) ==
  /\ subPc[s] = "delivering"
  /\ subPc' = [subPc EXCEPT ![s] = "listening"]
  /\ UNCHANGED <<callVars, subs, subQ, subClosed, seen, loopVars, closeVars, peer, panicked>>

StreamClosed(s) ==
  /\ subPc[s] = "listening"
  /\ subQ[s] = <<>>
  /\ s \in subClosed
  /\ LeaveLoop(s)
  /\ UNCHANGED <<callVars, subs, subQ, subClosed, seen, loopVars, closeVars, peer, panicked>>

\* Mutant: the receive loop has no case for the context.
PromptCtxIgnored(s) == FALSE

PromptCtxDone(s) ==
  /\ subPc[s] = "listening"
  /\ LeaveLoop(s)
  /\ UNCHANGED <<callVars, subs, subQ, subClosed, seen, loopVars, closeVars, peer, panicked>>

(* The function Subscribe returned: remove and close under subsMu, unless  *)
(* closeAllSubs already has.                                               *)
Cancel(s) ==
  /\ subPc[s] = "cancelling"
  /\ ~SubsReadLocked
  /\ subPc' = [subPc EXCEPT ![s] = "done"]
  /\ subs' = subs \ {s}
  /\ subClosed' = IF s \in subs THEN subClosed \cup {s} ELSE subClosed
  /\ panicked' = (panicked \/ s \in subs \cap subClosed)
  /\ UNCHANGED <<callVars, subQ, seen, loopVars, closeVars, peer>>

-----------------------------------------------------------------------------
(* Client.readLoop and broadcast *)

\* Mutant: the answered id stays registered.
ReadReplyKeepsId(c) ==
  /\ rlPc = "read" /\ transport = "open" /\ peer = "up"
  /\ c \in written \cap pending
  /\ rlPc' = "deliver"
  /\ rlId' = c
  /\ UNCHANGED <<callVars, subVars, notes, rlTo, rlAnswer, closeVars, peer, panicked>>

(* A frame with the id of call c and no method: lookup and delete are one  *)
(* section of pendingMu, the send that follows is outside it.  An id that  *)
(* is not registered is skipped.                                           *)
ReadReply(c) ==
  /\ rlPc = "read" /\ transport = "open" /\ peer = "up"
  /\ c \in written \cap pending
  /\ pending' = pending \ {c}
  /\ rlPc' = "deliver"
  /\ rlId' = c
  /\ UNCHANGED <<callPc, callRes, respCh, written, subVars, notes, rlTo, rlAnswer, closeVars, peer, panicked>>

DeliverReply ==
  /\ rlPc = "deliver"
  /\ respCh' = [respCh EXCEPT ![rlId] = "reply"]
  /\ panicked' = (panicked \/ respCh[rlId] # "open")
  /\ rlPc' = "read"
  /\ rlId' = NoCall
  /\ UNCHANGED <<callPc, callRes, pending, written, subVars, notes, rlTo, rlAnswer, closeVars, peer>>

(* A frame with a method: broadcast takes subsMu for reading.              *)
ReadNote(answer) ==
  /\ rlPc = "read" /\ transport = "open" /\ peer = "up"
  /\ notes < MaxNotes
  /\ notes' = notes + 1
  /\ rlPc' = "broadcast"
  /\ rlTo' = subs
  /\ rlAnswer' = answer
  /\ UNCHANGED <<callVars, subVars, rlId, closeVars, peer, panicked>>

Put(s, q) ==
  /\ rlPc = "broadcast" /\ s \in rlTo
  /\ subQ' = [subQ EXCEPT ![s] = q]
  /\ rlTo' = rlTo \ {s}
  /\ panicked' = (panicked \/ s \in subClosed)
  /\ UNCHANGED <<callVars, subPc, subs, subClosed, seen, notes, rlPc, rlId, rlAnswer, closeVars, peer>>

\* Mutants: no bound; a full subscription is skipped.
PushUnbounded(s) == Put(s, Append(subQ[s], notes))
PushOrDrop(s) == Put(s, IF Len(subQ[s]) < SubCap THEN Append(subQ[s], notes) ELSE subQ[s])

(* ch <- notification blocks while the subscription's buffer is full.      *)
Push(s) == Len(subQ[s]) < SubCap /\ Put(s, Append(subQ[s], notes))

BroadcastDone ==
  /\ rlPc = "broadcast" /\ rlTo = {}
  /\ rlPc' = IF rlAnswer THEN "respond" ELSE "read"
  /\ UNCHANGED <<callVars, subVars, notes, rlTo, rlId, rlAnswer, closeVars, peer, panicked>>

(* sendEmptyResponse: its error is dropped.                                *)
RespondEmpty ==
  /\ rlPc = "respond"
  /\ rlPc' = "read"
  /\ UNCHANGED <<callVars, subVars, notes, rlTo, rlId, rlAnswer, closeVars, peer, panicked>>

(* ReadFrame fails, with EOF only when the runtime closed its end, or a    *)
(* frame does not decode: the loop returns into its deferred Close.        *)
ReadFailed ==
  /\ rlPc = "read"
  /\ \/ peer = "down" /\ UNCHANGED closeErr
     \/ closeErr' = "stored"
  /\ rlPc' = "closing"
  /\ waitClose' = waitClose \cup {ReadLoop}
  /\ UNCHANGED <<callVars, subVars, notes, rlTo, rlId, rlAnswer, closePc, closed, transport, peer, panicked>>

-----------------------------------------------------------------------------
(* Client.Close: the first caller runs the four steps, the others wait     *)

CloseCalled(k) ==
  /\ waitClose' = waitClose \cup {k}
  /\ k \notin waitClose
  /\ UNCHANGED <<callVars, subVars, loopVars, closePc, closed, transport, closeErr, peer, panicked>>

CloseSignal ==
  /\ closePc = "unused" /\ waitClose # {}
  /\ closePc' = "signalled"
  /\ closed' = TRUE
  /\ UNCHANGED <<callVars, subVars, loopVars, waitClose, transport, closeErr, peer, panicked>>

\* Mutant: Close leaves the transport open.
CloseTransportSkipped ==
  /\ closePc = "signalled"
  /\ closePc' = "transportClosed"
  /\ UNCHANGED <<callVars, subVars, loopVars, waitClose, closed, transport, closeErr, peer, panicked>>

CloseTransport ==
  /\ closePc = "signalled"
  /\ closePc' = "transportClosed"
  /\ transport' = "closed"
  /\ closeErr' \in {closeErr, "stored"}
  /\ UNCHANGED <<callVars, subVars, loopVars, waitClose, closed, peer, panicked>>

FailPending ==
  /\ closePc = "transportClosed"
  /\ closePc' = "pendingFailed"
  /\ respCh' = [c \in Callers |-> IF c \in pending THEN "eof" ELSE respCh[c]]
  /\ panicked' = (panicked \/ \E c \in pending : respCh[c] # "open")
  /\ pending' = {}
  /\ UNCHANGED <<callPc, callRes, written, subVars, loopVars, waitClose, closed, transport, closeErr, peer>>

\* Mutant: the subscriptions are forgotten but their channels left open.
CloseAllSubsForgets ==
  /\ closePc = "pendingFailed"
  /\ ~SubsReadLocked
  /\ closePc' = "done"
  /\ subs' = {}
  /\ UNCHANGED <<callVars, subPc, subQ, subClosed, seen, loopVars, waitClose, closed, transport, closeErr, peer, panicked>>

CloseAllSubs ==
  /\ closePc = "pendingFailed"
  /\ ~SubsReadLocked
  /\ closePc' = "done"
  /\ subClosed' = subClosed \cup subs
  /\ panicked' = (panicked \/ subs \cap subClosed # {})
  /\ subs' = {}
  /\ UNCHANGED <<callVars, subPc, subQ, seen, loopVars, waitClose, closed, transport, closeErr, peer>>

(* Once the steps are done every goroutine in Close goes on: the read loop *)
(* ends, another closer may call again later.                              *)
CloseReturned(k) ==
  /\ closePc = "done" /\ k \in waitClose
  /\ waitClose' = waitClose \ {k}
  /\ rlPc' = IF k = ReadLoop THEN "done" ELSE rlPc
  /\ UNCHANGED <<callVars, subVars, notes, rlTo, rlId, rlAnswer, closePc, closed, transport, closeErr, peer, panicked>>

-----------------------------------------------------------------------------
CallerStep(c) ==
  RequestWritten(c) \/ RequestWriteFailed(c) \/ RequestClosed(c) \/ RequestAnswered(c)

SubscriberStep(s) ==
  PromptSent(s) \/ PromptSendFailed(s) \/ TakeNote(s) \/ DeltaForwarded(s) \/ StreamClosed(s)

LoopStep ==
  \/ DeliverReply \/ (\E s \in Subscribers : Push(s)) \/ BroadcastDone \/ RespondEmpty

CloseStep == CloseSignal \/ CloseTransport \/ FailPending

(* The connection is closed and nobody is inside the client any more.      *)
Quiescent ==
  /\ rlPc = "done" /\ waitClose = {}
  /\ \A c \in Callers : callPc[c] = "returned"
  /\ \A s \in Subscribers : subPc[s] = "done"

Next ==
  \/ \E c \in Callers : Register(c) \/ CallerStep(c) \/ RequestCtxDone(c) \/ ReadReply(c)
  \/ \E s \in Subscribers : Subscribe(s) \/ SubscriberStep(s) \/ PromptCtxDone(s) \/ Cancel(s)
  \/ \E answer \in BOOLEAN : ReadNote(answer)
  \/ LoopStep
  \/ ReadFailed
  \/ \E k \in Closers : CloseCalled(k)
  \/ CloseStep
  \/ \E k \in Closers \cup {ReadLoop} : CloseReturned(k)
  \/ CloseAllSubs
  \/ PeerDown
  \/ Quiescent /\ UNCHANGED vars

Spec == Init /\ [][Next]_vars

(***************************************************************************)
(* Fairness.  Running goroutines are scheduled, the runtime keeps draining *)
(* its end, the HTTP client reads its stream or goes away (onDelta comes   *)
(* back), and a read on a lost connection fails.  That a context has a     *)
(* deadline is a hypothesis of the properties that need one.  subsMu is an *)
(* RWMutex that lets no new reader in while a writer waits: a writer that  *)
(* finds the lock free again and again gets it, hence strong fairness.     *)
(* Nothing makes the runtime answer.                                       *)
(***************************************************************************)
Fairness ==
  /\ \A c \in Callers : WF_vars(CallerStep(c))
  /\ \A s \in Subscribers : WF_vars(SubscriberStep(s)) /\ SF_vars(Cancel(s))
  /\ WF_vars(LoopStep)
  /\ WF_vars((transport = "closed" \/ peer = "down") /\ ReadFailed)
  /\ WF_vars(CloseStep) /\ SF_vars(CloseAllSubs)
  /\ \A k \in Closers \cup {ReadLoop} : WF_vars(CloseReturned(k))

FairSpec == Spec /\ Fairness

-----------------------------------------------------------------------------
(* Safety: NoPanic.  readLoop and failPending race for a call's channel,   *)
(* cancel and closeAllSubs for a subscription's; whatever the order, no    *)
(* channel is sent to or closed twice, which would crash the process       *)
(* (client.go 276-284, 191-197, 312-329).                                  *)
NoPanic == ~panicked

(* Safety: EveryNoteInOrder.  A subscription's buffer holds consecutive    *)
(* notifications from the first one after those its subscriber has taken,  *)
(* and while it is registered nothing broadcast since it subscribed is     *)
(* missing: a reply assembled from chunks has no gap (client.go 304-310).  *)
Owed(s) == IF rlPc = "broadcast" /\ s \in rlTo THEN 1 ELSE 0

EveryNoteInOrder ==
  \A s \in Subscribers :
    /\ \A i \in 1 .. Len(subQ[s]) : subQ[s][i] = seen[s] + i
    /\ s \in subs => seen[s] + Len(subQ[s]) + Owed(s) = notes

(* Safety: NoStrandedSubscriber.  When Close has finished, every prompt    *)
(* loop still waiting for notifications has had its channel closed: none   *)
(* waits on a connection that will never speak again.  It rests on the     *)
(* order transport.Close, closeAllSubs: a later Subscribe finds its Send   *)
(* refused (client.go 212-225, 183-189).                                   *)
NoStrandedSubscriber ==
  closePc = "done" =>
    \A s \in Subscribers : subPc[s] \in {"listening", "delivering"} => s \in subClosed

(* Safety: PendingTidy.  A registered id belongs to a call still in        *)
(* progress, except for calls that Client.closed woke before failPending   *)
(* ran; after Close only calls about to have their write refused are left. *)
(* The table of a long-lived connection does not leak (client.go 140-158). *)
PendingTidy ==
  \A c \in pending :
    \/ callPc[c] = "registered"
    \/ callPc[c] = "waiting" /\ closePc \notin {"pendingFailed", "done"}
    \/ callPc[c] = "returned" /\ closePc \in {"signalled", "transportClosed"}

(* Liveness: a call whose context has a deadline returns.                  *)
RequestReturns ==
  \A c \in Callers :
    WF_vars(RequestCtxDone(c)) => (callPc[c] = "registered" ~> callPc[c] = "returned")

(* Liveness: a prompt loop whose context has a deadline gets through its   *)
(* deferred cancel and returns.                                            *)
PromptReturns ==
  \A s \in Subscribers :
    WF_vars(PromptCtxDone(s)) => (subPc[s] = "subscribed" ~> subPc[s] = "done")

(* Liveness: losing the runtime releases every call and every prompt loop, *)
(* with a deadline or without, and the read loop ends.                     *)
LossReleasesAll ==
  /\ \A c \in Callers : (peer = "down" /\ callPc[c] = "waiting") ~> callPc[c] = "returned"
  /\ \A s \in Subscribers : (peer = "down" /\ subPc[s] = "listening") ~> subPc[s] = "done"
  /\ peer = "down" ~> rlPc = "done"

(* Liveness: Client.Close comes back to whoever called it; the service     *)
(* calls it with its own mutex held (service.go 1142-1163).                *)
CloseReturns == \A k \in Closers : k \in waitClose ~> k \notin waitClose

(* Liveness: nobody waits for ever: not a call with a deadline, nobody at  *)
(* all once the runtime is lost, and not whoever closes the client         *)
(* (client.go 153-173, 212-225, 256-262).                                  *)
NobodyWaitsForever == RequestReturns /\ LossReleasesAll /\ CloseReturns
=============================================================================
