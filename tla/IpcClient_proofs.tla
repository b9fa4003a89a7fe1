-------------------------- MODULE IpcClient_proofs --------------------------
(* Inductive invariant of IpcClient and the safety theorems it gives, for  *)
(* every number of goroutines and every buffer capacity.                   *)
EXTENDS IpcClient, TLAPS

(* A registered call's channel is still empty, and so is the channel of    *)
(* the call the read loop is about to answer, which is no longer           *)
(* registered: deliverer and failPending can never both hold a call.       *)
CallInv ==
  /\ \A c \in Callers : callPc[c] = "idle" => respCh[c] = "open" /\ c \notin pending
  /\ \A c \in pending : respCh[c] = "open"
  /\ rlPc = "deliver" =>
       /\ rlId \in Callers \ pending
       /\ respCh[rlId] = "open" /\ callPc[rlId] # "idle"

(* A subscription is registered, or closed, or not there; while a          *)
(* broadcast runs the subscriptions it has still to serve stay registered. *)
SubInv ==
  /\ subs \cap subClosed = {}
  /\ \A s \in Subscribers :
       /\ subPc[s] \in {"idle", "done"} => s \notin subs
       /\ subPc[s] = "idle" => s \notin subClosed /\ subQ[s] = <<>>
       /\ subPc[s] \in {"subscribed", "listening", "delivering"} => s \in subs \cup subClosed
  /\ rlPc = "broadcast" => rlTo \subseteq subs
  /\ rlPc # "broadcast" => rlTo = {}

(* Close's steps come in order, and the read loop is in Close only after   *)
(* it has left its loop.                                                   *)
CloseInv ==
  /\ closed <=> closePc # "unused"
  /\ closePc \in {"transportClosed", "pendingFailed", "done"} => transport = "closed"
  /\ ReadLoop \in waitClose => rlPc = "closing"

IInv == TypeOK /\ NoPanic /\ CallInv /\ SubInv /\ CloseInv
          /\ PendingTidy /\ NoStrandedSubscriber /\ EveryNoteInOrder

-----------------------------------------------------------------------------
(* A fresh connection, as Connect returns it (client.go 118-133).          *)
LEMMA InitIInv == Init => IInv
<1> SUFFICES ASSUME Init PROVE IInv
  OBVIOUS
<1> USE IpcAssumption DEF Init
<1>1. TypeCalls /\ TypeLoop /\ TypeClose
  BY DEF TypeCalls, TypeLoop, TypeClose, NoCall
<1>2. TypeSubs
  BY DEF TypeSubs
<1>3. NoPanic /\ CallInv /\ SubInv /\ CloseInv /\ PendingTidy /\ NoStrandedSubscriber
  BY DEF NoPanic, CallInv, SubInv, CloseInv, PendingTidy, NoStrandedSubscriber
<1>4. EveryNoteInOrder
  BY DEF EveryNoteInOrder
<1>5. QED BY <1>1, <1>2, <1>3, <1>4 DEF IInv, TypeOK

USE DEF callVars, subVars, loopVars, closeVars

(* Frames.  Only these steps change the calls' variables;                  *)
LEMMA CallFrame ==
  [Next]_vars =>
    \/ \E c \in Callers : Register(c) \/ CallerStep(c) \/ RequestCtxDone(c) \/ ReadReply(c)
    \/ DeliverReply
    \/ FailPending
    \/ UNCHANGED callVars
BY DEF Next, vars, Subscribe, SubscriberStep, PromptSent, PromptSendFailed, TakeNote, DeltaForwarded,
   StreamClosed, PromptCtxDone, Cancel, LoopStep, Push, Put, BroadcastDone, RespondEmpty, ReadNote,
   ReadFailed, CloseCalled, CloseStep, CloseSignal, CloseTransport, CloseReturned, CloseAllSubs, PeerDown

(* only these the subscriptions';                                          *)
LEMMA SubFrame ==
  [Next]_vars =>
    \/ \E s \in Subscribers : Subscribe(s) \/ SubscriberStep(s) \/ PromptCtxDone(s) \/ Cancel(s) \/ Push(s)
    \/ CloseAllSubs
    \/ UNCHANGED subVars
BY DEF Next, vars, Register, CallerStep, RequestWritten, RequestWriteFailed, RequestCtxDone, RequestClosed,
   RequestAnswered, Return, ReadReply, DeliverReply, LoopStep, BroadcastDone, RespondEmpty, ReadNote,
   ReadFailed, CloseCalled, CloseStep, CloseSignal, CloseTransport, FailPending, CloseReturned, PeerDown

(* only these the read loop's;                                            *)
LEMMA LoopFrame ==
  [Next]_vars =>
    \/ \E c \in Callers : ReadReply(c)
    \/ \E answer \in BOOLEAN : ReadNote(answer)
    \/ LoopStep
    \/ ReadFailed
    \/ CloseReturned(ReadLoop)
    \/ UNCHANGED loopVars
BY DEF Next, vars, Register, CallerStep, RequestWritten, RequestWriteFailed, RequestCtxDone, RequestClosed,
   RequestAnswered, Return, Subscribe, SubscriberStep, PromptSent, PromptSendFailed, TakeNote, DeltaForwarded,
   StreamClosed, PromptCtxDone, Cancel, CloseCalled, CloseStep, CloseSignal, CloseTransport, FailPending,
   CloseReturned, CloseAllSubs, PeerDown

(* only these Close's.                                                     *)
LEMMA CloseFrame ==
  [Next]_vars =>
    \/ ReadFailed
    \/ \E k \in Closers : CloseCalled(k)
    \/ CloseStep
    \/ \E k \in Closers \cup {ReadLoop} : CloseReturned(k)
    \/ CloseAllSubs
    \/ UNCHANGED closeVars
BY DEF Next, vars, Register, CallerStep, RequestWritten, RequestWriteFailed, RequestCtxDone, RequestClosed,
   RequestAnswered, Return, ReadReply, Subscribe, SubscriberStep, PromptSent, PromptSendFailed, TakeNote,
   DeltaForwarded, StreamClosed, PromptCtxDone, Cancel, LoopStep, DeliverReply, Push, Put, BroadcastDone,
   RespondEmpty, ReadNote, PeerDown

-----------------------------------------------------------------------------
(* Typing, one group of variables at a time: the calls,                    *)
LEMMA TypeCallsStep == TypeOK /\ [Next]_vars => TypeCalls'
<1> SUFFICES ASSUME TypeOK, [Next]_vars PROVE TypeCalls'
  OBVIOUS
<1> USE DEF TypeOK, TypeCalls
<1>1. ASSUME NEW c \in Callers, Register(c) \/ CallerStep(c) \/ RequestCtxDone(c) \/ ReadReply(c)
      PROVE TypeCalls'
  BY <1>1 DEF Register, CallerStep, RequestWritten, RequestWriteFailed, RequestCtxDone,
     RequestClosed, RequestAnswered, ReadReply, Return
<1>2. CASE DeliverReply
  BY <1>2 DEF DeliverReply
<1>3. CASE FailPending
  BY <1>3 DEF FailPending
<1>4. CASE UNCHANGED callVars
  BY <1>4
<1>5. QED
  BY <1>1, <1>2, <1>3, <1>4, CallFrame

(* the subscriptions, whose buffers never outgrow their channel,           *)
LEMMA TypeSubsStep == TypeOK /\ [Next]_vars => TypeSubs'
<1> SUFFICES ASSUME TypeOK, [Next]_vars PROVE TypeSubs'
  OBVIOUS
<1> USE DEF TypeOK, TypeSubs
<1>1. ASSUME NEW s \in Subscribers, Subscribe(s) \/ PromptCtxDone(s) \/ Cancel(s)
      PROVE TypeSubs'
  BY <1>1 DEF Subscribe, PromptCtxDone, Cancel, LeaveLoop, TypeLoop
<1>2. ASSUME NEW s \in Subscribers, PromptSent(s) \/ PromptSendFailed(s) \/ DeltaForwarded(s) \/ StreamClosed(s)
      PROVE TypeSubs'
  BY <1>2 DEF PromptSent, PromptSendFailed, DeltaForwarded, StreamClosed, LeaveLoop
<1>3. ASSUME NEW s \in Subscribers, TakeNote(s)
      PROVE TypeSubs'
  <2>1. /\ Head(subQ[s]) \in Nat
        /\ Tail(subQ[s]) \in Seq(Nat)
        /\ Len(Tail(subQ[s])) <= SubCap
    BY <1>3, IpcAssumption DEF TakeNote
  <2>2. /\ seen' \in [Subscribers -> Nat]
        /\ subQ' \in [Subscribers -> Seq(Nat)]
        /\ \A t \in Subscribers : Len(subQ'[t]) <= SubCap
    BY <1>3, <2>1 DEF TakeNote
  <2>3. QED BY <1>3, <2>2 DEF TakeNote, LeaveLoop
<1>4. ASSUME NEW s \in Subscribers, Push(s)
      PROVE TypeSubs'
  <2>1. /\ Append(subQ[s], notes) \in Seq(Nat)
        /\ Len(Append(subQ[s], notes)) <= SubCap
    BY <1>4, IpcAssumption DEF Push, TypeLoop
  <2>2. /\ subQ' \in [Subscribers -> Seq(Nat)]
        /\ \A t \in Subscribers : Len(subQ'[t]) <= SubCap
    BY <1>4, <2>1 DEF Push, Put
  <2>3. QED BY <1>4, <2>2 DEF Push, Put
<1>5. CASE CloseAllSubs
  BY <1>5 DEF CloseAllSubs
<1>6. CASE UNCHANGED subVars
  BY <1>6
<1>7. QED
  BY <1>1, <1>2, <1>3, <1>4, <1>5, <1>6, SubFrame DEF SubscriberStep

(* the read loop,                                                         *)
LEMMA TypeLoopStep == TypeOK /\ [Next]_vars => TypeLoop'
<1> SUFFICES ASSUME TypeOK, [Next]_vars PROVE TypeLoop'
  OBVIOUS
<1> USE DEF TypeOK, TypeLoop
<1>1. ASSUME NEW c \in Callers, ReadReply(c)
      PROVE TypeLoop'
  BY <1>1 DEF ReadReply
<1>2. ASSUME NEW answer \in BOOLEAN, ReadNote(answer)
      PROVE TypeLoop'
  BY <1>2 DEF ReadNote, TypeSubs
<1>3. CASE LoopStep
  BY <1>3 DEF LoopStep, DeliverReply, Push, Put, BroadcastDone, RespondEmpty
<1>4. CASE ReadFailed \/ CloseReturned(ReadLoop)
  BY <1>4 DEF ReadFailed, CloseReturned
<1>5. CASE UNCHANGED loopVars
  BY <1>5
<1>6. QED
  BY <1>1, <1>2, <1>3, <1>4, <1>5, LoopFrame

(* Close and the two ends of the connection.                               *)
LEMMA TypeCloseStep == TypeOK /\ [Next]_vars => TypeClose'
<1> SUFFICES ASSUME TypeOK, [Next]_vars PROVE TypeClose'
  OBVIOUS
<1> USE DEF TypeOK, TypeClose
<1>1. peer' \in {"up", "down"}
  BY DEF Next, vars, Register, CallerStep, RequestWritten, RequestWriteFailed, RequestCtxDone, RequestClosed,
     RequestAnswered, Return, ReadReply, Subscribe, SubscriberStep, PromptSent, PromptSendFailed, TakeNote,
     DeltaForwarded, StreamClosed, PromptCtxDone, Cancel, LoopStep, DeliverReply, Push, Put, BroadcastDone,
     RespondEmpty, ReadNote, ReadFailed, CloseCalled, CloseStep, CloseSignal, CloseTransport, FailPending,
     CloseReturned, CloseAllSubs, PeerDown
<1>2. panicked' \in BOOLEAN
  BY DEF Next, vars, Register, CallerStep, RequestWritten, RequestWriteFailed, RequestCtxDone, RequestClosed,
     RequestAnswered, Return, ReadReply, Subscribe, SubscriberStep, PromptSent, PromptSendFailed, TakeNote,
     DeltaForwarded, StreamClosed, PromptCtxDone, Cancel, LoopStep, DeliverReply, Push, Put, BroadcastDone,
     RespondEmpty, ReadNote, ReadFailed, CloseCalled, CloseStep, CloseSignal, CloseTransport, FailPending,
     CloseReturned, CloseAllSubs, PeerDown
<1>3. ASSUME NEW k \in Closers \cup {ReadLoop}, CloseReturned(k) \/ (k \in Closers /\ CloseCalled(k))
      PROVE TypeClose'
  BY <1>1, <1>2, <1>3 DEF CloseReturned, CloseCalled
<1>4. CASE ReadFailed \/ CloseStep \/ CloseAllSubs
  BY <1>1, <1>2, <1>4 DEF ReadFailed, CloseStep, CloseSignal, CloseTransport, FailPending, CloseAllSubs
<1>5. CASE UNCHANGED closeVars
  BY <1>1, <1>2, <1>5
<1>6. QED
  BY <1>3, <1>4, <1>5, CloseFrame

(* Together: every step keeps the types.                                   *)
LEMMA TypeStep == TypeOK /\ [Next]_vars => TypeOK'
BY TypeCallsStep, TypeSubsStep, TypeLoopStep, TypeCloseStep DEF TypeOK

-----------------------------------------------------------------------------
(* The strengthening is preserved, part by part.  CallInv: only the read   *)
(* loop's lookup-and-delete and failPending take an id out and then send.  *)
LEMMA CallInvStep == TypeOK /\ CallInv /\ [Next]_vars => CallInv'
<1> SUFFICES ASSUME TypeOK, CallInv, [Next]_vars PROVE CallInv'
  OBVIOUS
<1> USE DEF TypeOK, TypeCalls, CallInv
<1>1. ASSUME NEW c \in Callers, Register(c)
      PROVE CallInv'
  BY <1>1 DEF Register
<1>2. ASSUME NEW c \in Callers, RequestWritten(c)
      PROVE CallInv'
  BY <1>2 DEF RequestWritten
<1>3. ASSUME NEW c \in Callers,
             RequestWriteFailed(c) \/ RequestClosed(c) \/ RequestAnswered(c) \/ RequestCtxDone(c)
      PROVE CallInv'
  BY <1>3 DEF RequestWriteFailed, RequestClosed, RequestAnswered, RequestCtxDone, Return
<1>4. ASSUME NEW c \in Callers, ReadReply(c)
      PROVE CallInv'
  BY <1>4 DEF ReadReply
<1>5. CASE DeliverReply
  BY <1>5 DEF DeliverReply
<1>6. CASE FailPending
  BY <1>6 DEF FailPending
<1>7. CASE UNCHANGED callVars /\ UNCHANGED loopVars
  BY <1>7
<1>8. CASE UNCHANGED callVars /\ ~UNCHANGED loopVars
  <2>1. rlPc' # "deliver"
    BY <1>8, LoopFrame DEF ReadReply, ReadNote, LoopStep, DeliverReply, Push, Put, BroadcastDone,
       RespondEmpty, ReadFailed, CloseReturned
  <2>2. QED BY <1>8, <2>1
<1>9. QED
  BY <1>1, <1>2, <1>3, <1>4, <1>5, <1>6, <1>7, <1>8, CallFrame DEF CallerStep

(* SubInv: subsMu keeps cancel and closeAllSubs out of a broadcast.         *)
LEMMA SubInvStep == TypeOK /\ SubInv /\ CloseInv /\ [Next]_vars => SubInv'
<1> SUFFICES ASSUME TypeOK, SubInv, CloseInv, [Next]_vars PROVE SubInv'
  OBVIOUS
<1> USE DEF TypeOK, TypeSubs, TypeLoop, SubInv
<1>1. ASSUME NEW s \in Subscribers, Subscribe(s)
      PROVE SubInv'
  BY <1>1 DEF Subscribe, SubsReadLocked
<1>2. ASSUME NEW s \in Subscribers,
             PromptSent(s) \/ PromptSendFailed(s) \/ DeltaForwarded(s) \/ StreamClosed(s) \/ PromptCtxDone(s)
      PROVE SubInv'
  BY <1>2 DEF PromptSent, PromptSendFailed, DeltaForwarded, StreamClosed, PromptCtxDone, LeaveLoop
<1>3. ASSUME NEW s \in Subscribers, TakeNote(s)
      PROVE SubInv'
  BY <1>3 DEF TakeNote, LeaveLoop
<1>4. ASSUME NEW s \in Subscribers, Cancel(s)
      PROVE SubInv'
  BY <1>4 DEF Cancel, SubsReadLocked
<1>5. ASSUME NEW s \in Subscribers, Push(s)
      PROVE SubInv'
  BY <1>5 DEF Push, Put
<1>6. CASE CloseAllSubs
  BY <1>6 DEF CloseAllSubs, SubsReadLocked
<1>7. CASE UNCHANGED subVars /\ UNCHANGED loopVars
  BY <1>7
<1>8. CASE UNCHANGED subVars /\ ~UNCHANGED loopVars
  <2>1. rlPc' = "broadcast" => rlTo' \subseteq subs
    BY <1>8, LoopFrame DEF ReadReply, ReadNote, LoopStep, DeliverReply, Push, Put, BroadcastDone,
       RespondEmpty, ReadFailed, CloseReturned
  <2>2. rlPc' # "broadcast" => rlTo' = {}
    BY <1>8, LoopFrame DEF CloseInv, ReadReply, ReadNote, LoopStep, DeliverReply, Push, Put, BroadcastDone,
       RespondEmpty, ReadFailed, CloseReturned
  <2>3. QED BY <1>8, <2>1, <2>2
<1>9. QED
  BY <1>1, <1>2, <1>3, <1>4, <1>5, <1>6, <1>7, <1>8, SubFrame DEF SubscriberStep

(* CloseInv: closeOnce runs the four steps once, in their order.            *)
LEMMA CloseInvStep == TypeOK /\ CloseInv /\ [Next]_vars => CloseInv'
<1> SUFFICES ASSUME TypeOK, CloseInv, [Next]_vars PROVE CloseInv'
  OBVIOUS
<1> USE DEF TypeOK, TypeClose, CloseInv
<1>1. CASE CloseStep
  BY <1>1 DEF CloseStep, CloseSignal, CloseTransport, FailPending
<1>2. CASE CloseAllSubs \/ ReadFailed
  BY <1>2 DEF CloseAllSubs, ReadFailed
<1>3. ASSUME NEW k \in Closers, CloseCalled(k)
      PROVE CloseInv'
  BY <1>3, IpcAssumption DEF CloseCalled
<1>4. ASSUME NEW k \in Closers \cup {ReadLoop}, CloseReturned(k)
      PROVE CloseInv'
  BY <1>4 DEF CloseReturned
<1>5. CASE UNCHANGED closeVars /\ UNCHANGED loopVars
  BY <1>5
<1>6. CASE UNCHANGED closeVars /\ ~UNCHANGED loopVars
  <2>1. rlPc # "closing" \/ rlPc' = rlPc
    BY <1>6, <1>2, LoopFrame DEF ReadReply, ReadNote, LoopStep, DeliverReply, Push, Put, BroadcastDone,
       RespondEmpty, ReadFailed, CloseReturned
  <2>2. QED BY <1>6, <2>1
<1>7. QED BY <1>1, <1>2, <1>3, <1>4, <1>5, <1>6, CloseFrame

-----------------------------------------------------------------------------
(* What the strengthening is for.  No channel is sent to or closed twice.  *)
LEMMA NoPanicStep == TypeOK /\ CallInv /\ SubInv /\ NoPanic /\ [Next]_vars => NoPanic'
<1> SUFFICES ASSUME TypeOK, CallInv, SubInv, NoPanic, [Next]_vars PROVE NoPanic'
  OBVIOUS
<1> USE DEF NoPanic
<1>1. CASE DeliverReply
  BY <1>1 DEF DeliverReply, CallInv
<1>2. CASE FailPending
  BY <1>2 DEF FailPending, CallInv
<1>3. ASSUME NEW s \in Subscribers, Cancel(s) \/ Push(s)
      PROVE NoPanic'
  BY <1>3 DEF Cancel, Push, Put, SubInv
<1>4. CASE CloseAllSubs
  BY <1>4 DEF CloseAllSubs, SubInv
<1>5. QED
  BY <1>1, <1>2, <1>3, <1>4 DEF Next, vars, Register, CallerStep, RequestWritten, RequestWriteFailed,
     RequestCtxDone, RequestClosed, RequestAnswered, Return, ReadReply, Subscribe, SubscriberStep,
     PromptSent, PromptSendFailed, TakeNote, DeltaForwarded, StreamClosed, PromptCtxDone, LoopStep,
     BroadcastDone, RespondEmpty, ReadNote, ReadFailed, CloseCalled, CloseStep, CloseSignal,
     CloseTransport, CloseReturned, PeerDown

(* The pending table holds no abandoned id.                                *)
LEMMA PendingTidyStep == TypeOK /\ CallInv /\ CloseInv /\ PendingTidy /\ [Next]_vars => PendingTidy'
<1> SUFFICES ASSUME TypeOK, CallInv, CloseInv, PendingTidy, [Next]_vars PROVE PendingTidy'
  OBVIOUS
<1> USE DEF PendingTidy, TypeOK, TypeCalls
<1>1. ASSUME NEW c \in Callers, Register(c)
      PROVE PendingTidy'
  BY <1>1 DEF Register
<1>2. ASSUME NEW c \in Callers, RequestWritten(c)
      PROVE PendingTidy'
  BY <1>2 DEF RequestWritten, CanWrite, CloseInv
<1>3. ASSUME NEW c \in Callers,
             RequestWriteFailed(c) \/ RequestClosed(c) \/ RequestAnswered(c) \/ RequestCtxDone(c)
      PROVE PendingTidy'
  BY <1>3 DEF RequestWriteFailed, RequestClosed, RequestAnswered, RequestCtxDone, Return, CallInv, CloseInv,
     TypeClose
<1>4. ASSUME NEW c \in Callers, ReadReply(c)
      PROVE PendingTidy'
  BY <1>4 DEF ReadReply
<1>5. CASE DeliverReply
  BY <1>5 DEF DeliverReply
<1>6. CASE FailPending
  BY <1>6 DEF FailPending
<1>7. CASE UNCHANGED callVars /\ UNCHANGED closeVars
  BY <1>7
<1>8. CASE UNCHANGED callVars /\ ~UNCHANGED closeVars
  BY <1>8, CloseFrame DEF ReadFailed, CloseCalled, CloseStep, CloseSignal, CloseTransport, FailPending,
     CloseReturned, CloseAllSubs
<1>9. QED
  BY <1>1, <1>2, <1>3, <1>4, <1>5, <1>6, <1>7, <1>8, CallFrame DEF CallerStep

(* Close leaves no prompt loop listening.                                  *)
LEMMA StrandedStep ==
  TypeOK /\ SubInv /\ CloseInv /\ NoStrandedSubscriber /\ [Next]_vars => NoStrandedSubscriber'
<1> SUFFICES ASSUME TypeOK, SubInv, CloseInv, NoStrandedSubscriber, [Next]_vars
             PROVE NoStrandedSubscriber'
  OBVIOUS
<1> USE DEF NoStrandedSubscriber, TypeOK, TypeSubs
<1>1. ASSUME NEW s \in Subscribers, Subscribe(s) \/ Cancel(s)
      PROVE NoStrandedSubscriber'
  BY <1>1 DEF Subscribe, Cancel
<1>2. ASSUME NEW s \in Subscribers, PromptSent(s)
      PROVE NoStrandedSubscriber'
  BY <1>2 DEF PromptSent, CanWrite, CloseInv
<1>3. ASSUME NEW s \in Subscribers,
             PromptSendFailed(s) \/ TakeNote(s) \/ DeltaForwarded(s) \/ StreamClosed(s) \/ PromptCtxDone(s)
      PROVE NoStrandedSubscriber'
  BY <1>3 DEF PromptSendFailed, TakeNote, DeltaForwarded, StreamClosed, PromptCtxDone, LeaveLoop
<1>4. ASSUME NEW s \in Subscribers, Push(s)
      PROVE NoStrandedSubscriber'
  BY <1>4 DEF Push, Put
<1>5. CASE CloseAllSubs
  BY <1>5 DEF CloseAllSubs, SubInv
<1>6. CASE UNCHANGED subVars /\ UNCHANGED closeVars
  BY <1>6
<1>7. CASE UNCHANGED subVars /\ ~UNCHANGED closeVars
  BY <1>7, <1>5, CloseFrame DEF ReadFailed, CloseCalled, CloseStep, CloseSignal, CloseTransport, FailPending,
     CloseReturned
<1>8. QED
  BY <1>1, <1>2, <1>3, <1>4, <1>5, <1>6, <1>7, SubFrame DEF SubscriberStep

(* Broadcast loses, repeats and reorders nothing.                           *)
LEMMA InOrderStep ==
  TypeOK /\ SubInv /\ CloseInv /\ EveryNoteInOrder /\ [Next]_vars => EveryNoteInOrder'
<1> SUFFICES ASSUME TypeOK, SubInv, CloseInv, EveryNoteInOrder, [Next]_vars PROVE EveryNoteInOrder'
  OBVIOUS
<1> USE DEF EveryNoteInOrder, Owed, TypeOK, TypeSubs, TypeLoop
<1>1. ASSUME NEW s \in Subscribers, Subscribe(s)
      PROVE EveryNoteInOrder'
  <2>1. /\ subQ[s] = <<>> /\ rlPc # "broadcast"
        /\ seen' = [seen EXCEPT ![s] = notes]
        /\ subs' = subs \cup {s}
        /\ UNCHANGED <<subQ, notes, rlPc, rlTo>>
    BY <1>1 DEF Subscribe, SubsReadLocked, SubInv
  <2>2. ASSUME NEW t \in Subscribers, t # s
        PROVE /\ \A i \in 1 .. Len(subQ'[t]) : subQ'[t][i] = seen'[t] + i
              /\ t \in subs' => seen'[t] + Len(subQ'[t]) + Owed(t)' = notes'
    BY <2>1, <2>2
  <2>3. seen'[s] = notes /\ Len(subQ'[s]) = 0 /\ Owed(s)' = 0 /\ notes' = notes
    BY <2>1
  <2>4. /\ \A i \in 1 .. Len(subQ'[s]) : subQ'[s][i] = seen'[s] + i
        /\ s \in subs' => seen'[s] + Len(subQ'[s]) + Owed(s)' = notes'
    BY <2>3
  <2>5. QED BY <2>2, <2>4
<1>2. ASSUME NEW s \in Subscribers,
             PromptSent(s) \/ PromptSendFailed(s) \/ DeltaForwarded(s) \/ StreamClosed(s) \/ PromptCtxDone(s)
             \/ Cancel(s)
      PROVE EveryNoteInOrder'
  BY <1>2 DEF PromptSent, PromptSendFailed, DeltaForwarded, StreamClosed, PromptCtxDone, Cancel, LeaveLoop
<1>3. ASSUME NEW s \in Subscribers, TakeNote(s)
      PROVE EveryNoteInOrder'
  <2>1. /\ Len(subQ[s]) \in Nat \ {0}
        /\ Head(subQ[s]) = subQ[s][1]
        /\ Len(Tail(subQ[s])) = Len(subQ[s]) - 1
        /\ \A i \in 1 .. Len(Tail(subQ[s])) : Tail(subQ[s])[i] = subQ[s][i + 1]
    BY <1>3 DEF TakeNote
  <2>2. Head(subQ[s]) = seen[s] + 1
    BY <2>1
  <2>3. /\ subQ' = [subQ EXCEPT ![s] = Tail(subQ[s])]
        /\ seen' = [seen EXCEPT ![s] = seen[s] + 1]
        /\ UNCHANGED <<subs, notes, rlPc, rlTo>>
    BY <1>3, <2>2 DEF TakeNote
  <2>4. ASSUME NEW t \in Subscribers, t # s
        PROVE /\ \A i \in 1 .. Len(subQ'[t]) : subQ'[t][i] = seen'[t] + i
              /\ t \in subs' => seen'[t] + Len(subQ'[t]) + Owed(t)' = notes'
    BY <2>3, <2>4
  <2>5. \A i \in 1 .. Len(Tail(subQ[s])) : Tail(subQ[s])[i] = seen[s] + 1 + i
    BY <2>1
  <2>6. /\ \A i \in 1 .. Len(subQ'[s]) : subQ'[s][i] = seen'[s] + i
        /\ s \in subs' => seen'[s] + Len(subQ'[s]) + Owed(s)' = notes'
    BY <2>1, <2>3, <2>5
  <2>7. QED BY <2>4, <2>6
<1>4. ASSUME NEW s \in Subscribers, Push(s)
      PROVE EveryNoteInOrder'
  <2> DEFINE q == Append(subQ[s], notes)
  <2>1. /\ Len(q) = Len(subQ[s]) + 1
        /\ q[Len(subQ[s]) + 1] = notes
        /\ \A i \in 1 .. Len(subQ[s]) : q[i] = subQ[s][i]
    OBVIOUS
  <2>2. /\ rlPc = "broadcast" /\ s \in rlTo /\ s \in subs
        /\ subQ' = [subQ EXCEPT ![s] = q]
        /\ rlTo' = rlTo \ {s}
        /\ UNCHANGED <<subs, seen, notes, rlPc>>
    BY <1>4 DEF Push, Put, SubInv
  <2>3. seen[s] + Len(subQ[s]) + 1 = notes
    BY <2>2
  <2>4. \A i \in 1 .. Len(q) : q[i] = seen[s] + i
    <3>1. Len(subQ[s]) \in Nat /\ seen[s] \in Nat
      OBVIOUS
    <3>2. \A i \in 1 .. Len(subQ[s]) : q[i] = seen[s] + i
      BY <2>1
    <3>3. \A i \in 1 .. Len(q) : i \in 1 .. Len(subQ[s]) \/ i = Len(subQ[s]) + 1
      BY <2>1, <3>1
    <3> HIDE DEF q
    <3>4. q[Len(subQ[s]) + 1] = seen[s] + (Len(subQ[s]) + 1)
      BY <2>1, <2>3, <3>1
    <3>5. QED BY <3>2, <3>3, <3>4
  <2> HIDE DEF q
  <2>5. ASSUME NEW t \in Subscribers, t # s
        PROVE /\ \A i \in 1 .. Len(subQ'[t]) : subQ'[t][i] = seen'[t] + i
              /\ t \in subs' => seen'[t] + Len(subQ'[t]) + Owed(t)' = notes'
    BY <2>2, <2>5
  <2>6. /\ \A i \in 1 .. Len(subQ'[s]) : subQ'[s][i] = seen'[s] + i
        /\ s \in subs' => seen'[s] + Len(subQ'[s]) + Owed(s)' = notes'
    BY <2>1, <2>2, <2>3, <2>4
  <2>7. QED BY <2>5, <2>6
<1>5. CASE CloseAllSubs
  BY <1>5 DEF CloseAllSubs
<1>6. CASE UNCHANGED subVars /\ UNCHANGED loopVars
  BY <1>6
<1>7. CASE UNCHANGED subVars /\ ~UNCHANGED loopVars
  <2>1. ASSUME NEW answer \in BOOLEAN, ReadNote(answer)
        PROVE EveryNoteInOrder'
    BY <1>7, <2>1 DEF ReadNote
  <2>2. CASE rlTo = {} /\ rlTo' = {} /\ notes' = notes
    BY <1>7, <2>2
  <2>3. QED
    BY <1>7, <2>1, <2>2, LoopFrame DEF SubInv, CloseInv, ReadReply, LoopStep, DeliverReply, Push, Put, BroadcastDone,
       RespondEmpty, ReadFailed, CloseReturned
<1>8. QED
  BY <1>1, <1>2, <1>3, <1>4, <1>5, <1>6, <1>7, SubFrame DEF SubscriberStep

-----------------------------------------------------------------------------
(* The inductive invariant holds in every reachable state.                 *)
THEOREM Invariance == Spec => []IInv
<1>1. IInv /\ [Next]_vars => IInv'
  BY TypeStep, CallInvStep, SubInvStep, CloseInvStep, NoPanicStep, PendingTidyStep, StrandedStep,
     InOrderStep DEF IInv
<1>2. QED BY InitIInv, <1>1, PTL DEF Spec

(* Types, with the bound on every subscription's buffer.                    *)
THEOREM TypeCorrect == Spec => []TypeOK
<1>1. IInv => TypeOK BY DEF IInv
<1>2. QED BY Invariance, <1>1, PTL

(* No interleaving of replies, cancellations, Subscribe/cancel and Close   *)
(* sends on or closes a closed channel: the proxy does not crash there.    *)
THEOREM NoPanicTheorem == Spec => []NoPanic
<1>1. IInv => NoPanic BY DEF IInv
<1>2. QED BY Invariance, <1>1, PTL

(* Every subscriber gets every notification broadcast while it is           *)
(* registered, once and in order (client.go 183-189, 304-310).              *)
THEOREM InOrderTheorem == Spec => []EveryNoteInOrder
<1>1. IInv => EveryNoteInOrder BY DEF IInv
<1>2. QED BY Invariance, <1>1, PTL

(* After Close no prompt loop waits on a channel nobody will close.         *)
THEOREM NoStrandedTheorem == Spec => []NoStrandedSubscriber
<1>1. IInv => NoStrandedSubscriber BY DEF IInv
<1>2. QED BY Invariance, <1>1, PTL

(* No call leaves its id behind in the pending table (client.go 140-158).   *)
THEOREM PendingTidyTheorem == Spec => []PendingTidy
<1>1. IInv => PendingTidy BY DEF IInv
<1>2. QED BY Invariance, <1>1, PTL
=============================================================================
