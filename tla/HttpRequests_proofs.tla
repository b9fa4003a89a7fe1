------------------------ MODULE HttpRequests_proofs ------------------------
(* The requests of the HTTP server: the slots and goroutines they hold     *)
(* (ChatGate) and the conversations they carry (Conversation).             *)
EXTENDS ChatGate, Conversation, FoldTheorems, FiniteSetTheorems, SequenceTheorems, TLAPS

(***************************************************************************)
(* ChatGate: its inductive invariant and the safety theorems it gives, for *)
(* any number of requests, any number of slots and any channel capacity.   *)
(***************************************************************************)
Holders == {r \in Requests : Holds(r)}

(* A context ends when the client goes, is cut off or has its answer; a    *)
(* handler gives up only then; and a forced shutdown cuts off everybody.   *)
CutInv ==
  \A r \in Requests :
    /\ r \in ctxDone => r \in left \/ Ended(r)
    /\ handler[r] = "returned" => r \in left
    /\ server \in {"forced", "closed"} => handler[r] = "idle" \/ Ended(r) \/ r \in left

(* The generation and its handler: nothing is made before the generation   *)
(* begins, its channels end with it, and the handler drops a channel only  *)
(* when it is used up.                                                     *)
StageInv ==
  \A r \in Requests :
    /\ handler[r] \in {"idle", "waiting", "held"} => gen[r] = "none"
    /\ handler[r] = "inline" => r \notin Streams
    /\ gen[r] = "none" => made[r] = 0 /\ events[r] = <<>> /\ written[r] = <<>>
    /\ gen[r] = "sending" => made[r] > 0
    /\ r \in eventsClosed => gen[r] \in {"ending", "ended"}
    /\ done[r] # "empty" => gen[r] = "ended"
    /\ r \in eventsNil => r \in eventsClosed /\ events[r] = <<>>
    /\ r \in doneNil => done[r] = "taken"
    /\ handler[r] = "answered" /\ gen[r] # "none" /\ r \in Streams => r \in eventsNil \cap doneNil

(* How many deltas of the request are on their way or written.             *)
Sent(r) == IF gen[r] = "sending" THEN made[r] - 1 ELSE made[r]

(* The deltas after the k-th, in order.                                    *)
RunFrom(s, k) == \A i \in 1 .. Len(s) : s[i] = k + i

(* While the client is there, what is written and what is in the channel   *)
(* are the deltas sent so far, in order.                                   *)
Order(r) ==
  /\ Len(written[r]) + Len(events[r]) = Sent(r)
  /\ RunFrom(written[r], 0)
  /\ RunFrom(events[r], Len(written[r]))

(* While its client is there, a stream is written in order.                *)
OrderInv == \A r \in Streams : r \notin left => Order(r)

(* The inductive invariant.                                                *)
IInv == TypeOK /\ SlotsMatchHolders /\ CutInv /\ StageInv /\ OrderInv
-----------------------------------------------------------------------------
(* A run stays one when the next number is appended,                       *)
LEMMA AppendRun ==
  ASSUME NEW s \in Seq(Nat), NEW k \in Nat, RunFrom(s, k)
  PROVE  /\ Len(Append(s, k + Len(s) + 1)) = Len(s) + 1
         /\ RunFrom(Append(s, k + Len(s) + 1), k)
<1> DEFINE q == Append(s, k + Len(s) + 1)
<1>1. /\ Len(s) \in Nat /\ Len(q) = Len(s) + 1 /\ q[Len(s) + 1] = k + Len(s) + 1
      /\ \A i \in 1 .. Len(s) : q[i] = s[i]
  OBVIOUS
<1> HIDE DEF q
<1>2. \A i \in 1 .. Len(q) : i \in 1 .. Len(s) \/ i = Len(s) + 1
  BY <1>1
<1>3. \A i \in 1 .. Len(s) : q[i] = k + i
  BY <1>1 DEF RunFrom
<1>4. q[Len(s) + 1] = k + (Len(s) + 1)
  BY <1>1
<1>5. RunFrom(q, k)
  BY <1>2, <1>3, <1>4 DEF RunFrom
<1>6. QED BY <1>1, <1>5 DEF q

(* and when its first, the number after k, is taken off.                   *)
LEMMA TailRun ==
  ASSUME NEW s \in Seq(Nat), NEW k \in Nat, RunFrom(s, k), s # <<>>
  PROVE  /\ Head(s) = k + 1 /\ Len(Tail(s)) = Len(s) - 1
         /\ RunFrom(Tail(s), k + 1)
<1>1. /\ Len(s) \in Nat /\ Len(s) >= 1 /\ Head(s) = s[1]
      /\ Len(Tail(s)) = Len(s) - 1
      /\ \A i \in 1 .. Len(s) - 1 : Tail(s)[i] = s[i + 1]
  OBVIOUS
<1>2. \A i \in 1 .. Len(s) - 1 : s[i + 1] = k + (i + 1)
  BY <1>1 DEF RunFrom
<1>3. \A i \in 1 .. Len(s) - 1 : Tail(s)[i] = (k + 1) + i
  BY <1>1, <1>2
<1>4. s[1] = k + 1
  BY <1>1 DEF RunFrom
<1>5. QED BY <1>1, <1>3, <1>4 DEF RunFrom

-----------------------------------------------------------------------------
(* The server has just been started and nothing has arrived.               *)
LEMMA InitIInv == Init => IInv
<1> SUFFICES ASSUME Init PROVE IInv
  OBVIOUS
<1> USE GateAssumption DEF Init
<1>1. TypeOK
  BY DEF TypeOK
<1>2. SlotsMatchHolders
  <2>1. Holders = {}
    BY DEF Holders, Holds
  <2>2. QED BY <2>1, FS_EmptySet DEF SlotsMatchHolders, Holders
<1>3. CutInv /\ StageInv
  BY DEF CutInv, StageInv, Ended
<1>4. OrderInv
  BY DEF OrderInv, Order, RunFrom, Sent
<1>5. QED BY <1>1, <1>2, <1>3, <1>4 DEF IInv

USE DEF handlerVars, genVars

(* Every action keeps the types and the bounds.                             *)
LEMMA TypeStep == IInv /\ [Next]_vars => TypeOK'
<1> SUFFICES ASSUME IInv, [Next]_vars PROVE TypeOK'
  OBVIOUS
<1> USE GateAssumption DEF IInv, TypeOK
<1>1. ASSUME NEW r \in Requests, Arrive(r) PROVE TypeOK'
  BY <1>1 DEF Arrive, Goto
<1>2. ASSUME NEW r \in Requests, ClientLeaves(r) PROVE TypeOK'
  BY <1>2 DEF ClientLeaves
<1>3. ASSUME NEW r \in Requests, Acquire(r) PROVE TypeOK'
  BY <1>3 DEF Acquire, Goto
<1>4. ASSUME NEW r \in Requests, WaitCancelled(r) PROVE TypeOK'
  BY <1>4 DEF WaitCancelled, Goto
<1>5. ASSUME NEW r \in Requests, Refuse(r) PROVE TypeOK'
  BY <1>5 DEF Refuse, Exit, Goto
<1>6. ASSUME NEW r \in Requests, StartInline(r) PROVE TypeOK'
  BY <1>6 DEF StartInline, Goto
<1>7. ASSUME NEW r \in Requests, StartStream(r) PROVE TypeOK'
  BY <1>7 DEF StartStream, Goto
<1>8. ASSUME NEW r \in Requests, InlineDone(r) PROVE TypeOK'
  BY <1>8 DEF InlineDone, Goto
<1>9. ASSUME NEW r \in Requests, NewDelta(r) PROVE TypeOK'
  BY <1>9 DEF NewDelta
<1>10. ASSUME NEW r \in Requests, SendDelta(r) PROVE TypeOK'
  <2>1. made[r] \in 1 .. MaxDeltas
    BY <1>10 DEF SendDelta, StageInv
  <2>2. /\ Append(events[r], made[r]) \in Seq(1 .. MaxDeltas)
        /\ Len(Append(events[r], made[r])) = Len(events[r]) + 1
    BY <2>1
  <2>3. QED BY <1>10, <2>2 DEF SendDelta
<1>11. ASSUME NEW r \in Requests, DropDelta(r) PROVE TypeOK'
  BY <1>11 DEF DropDelta
<1>12. ASSUME NEW r \in Requests, CloseEvents(r) PROVE TypeOK'
  BY <1>12 DEF CloseEvents
<1>13. ASSUME NEW r \in Requests, SendResult(r) PROVE TypeOK'
  BY <1>13 DEF SendResult
<1>14. ASSUME NEW r \in Requests, TakeDelta(r) PROVE TypeOK'
  BY <1>14 DEF TakeDelta, Goto
<1>15. ASSUME NEW r \in Requests, DeltaWritten(r) PROVE TypeOK'
  BY <1>15 DEF DeltaWritten, Goto
<1>16. ASSUME NEW r \in Requests, WriteFailed(r) PROVE TypeOK'
  BY <1>16 DEF WriteFailed, Exit, Goto
<1>17. ASSUME NEW r \in Requests, EventsDrained(r) PROVE TypeOK'
  BY <1>17 DEF EventsDrained
<1>18. ASSUME NEW r \in Requests, TakeResult(r) PROVE TypeOK'
  BY <1>18 DEF TakeResult
<1>19. ASSUME NEW r \in Requests, ContextDone(r) PROVE TypeOK'
  BY <1>19 DEF ContextDone, Exit, Goto
<1>20. ASSUME NEW r \in Requests, Answer(r) PROVE TypeOK'
  BY <1>20 DEF Answer, Exit, Goto
<1>21. CASE Shutdown
  BY <1>21 DEF Shutdown
<1>22. CASE ForceClose
  BY <1>22 DEF ForceClose, Serving
<1>23. CASE CloseService
  BY <1>23 DEF CloseService, Serving
<1>24. CASE UNCHANGED vars
  BY <1>24 DEF vars
<1>25. QED
  BY <1>1, <1>2, <1>3, <1>4, <1>5, <1>6, <1>7, <1>8, <1>9, <1>10, <1>11, <1>12, <1>13, <1>14, <1>15, <1>16, <1>17, <1>18, <1>19, <1>20, <1>21, <1>22, <1>23, <1>24 DEF Next, HandlerStep, GenStep, Finished

(* Contexts and cut-off clients.                                            *)
LEMMA CutStep == IInv /\ [Next]_vars => CutInv'
<1> SUFFICES ASSUME IInv, [Next]_vars PROVE CutInv'
  OBVIOUS
<1> USE GateAssumption DEF IInv, TypeOK, CutInv, Ended
<1>1. ASSUME NEW r \in Requests, Arrive(r) PROVE CutInv'
  BY <1>1 DEF Arrive, Goto
<1>2. ASSUME NEW r \in Requests, ClientLeaves(r) PROVE CutInv'
  BY <1>2 DEF ClientLeaves
<1>3. ASSUME NEW r \in Requests, Acquire(r) PROVE CutInv'
  BY <1>3 DEF Acquire, Goto
<1>4. ASSUME NEW r \in Requests, WaitCancelled(r) PROVE CutInv'
  BY <1>4 DEF WaitCancelled, Goto
<1>5. ASSUME NEW r \in Requests, Refuse(r) PROVE CutInv'
  BY <1>5 DEF Refuse, Exit, Goto
<1>6. ASSUME NEW r \in Requests, StartInline(r) PROVE CutInv'
  BY <1>6 DEF StartInline, Goto
<1>7. ASSUME NEW r \in Requests, StartStream(r) PROVE CutInv'
  BY <1>7 DEF StartStream, Goto
<1>8. ASSUME NEW r \in Requests, InlineDone(r) PROVE CutInv'
  BY <1>8 DEF InlineDone, Goto
<1>9. ASSUME NEW r \in Requests, NewDelta(r) PROVE CutInv'
  BY <1>9 DEF NewDelta
<1>10. ASSUME NEW r \in Requests, SendDelta(r) PROVE CutInv'
  BY <1>10 DEF SendDelta
<1>11. ASSUME NEW r \in Requests, DropDelta(r) PROVE CutInv'
  BY <1>11 DEF DropDelta
<1>12. ASSUME NEW r \in Requests, CloseEvents(r) PROVE CutInv'
  BY <1>12 DEF CloseEvents
<1>13. ASSUME NEW r \in Requests, SendResult(r) PROVE CutInv'
  BY <1>13 DEF SendResult
<1>14. ASSUME NEW r \in Requests, TakeDelta(r) PROVE CutInv'
  BY <1>14 DEF TakeDelta, Goto
<1>15. ASSUME NEW r \in Requests, DeltaWritten(r) PROVE CutInv'
  BY <1>15 DEF DeltaWritten, Goto
<1>16. ASSUME NEW r \in Requests, WriteFailed(r) PROVE CutInv'
  BY <1>16 DEF WriteFailed, Exit, Goto
<1>17. ASSUME NEW r \in Requests, EventsDrained(r) PROVE CutInv'
  BY <1>17 DEF EventsDrained
<1>18. ASSUME NEW r \in Requests, TakeResult(r) PROVE CutInv'
  BY <1>18 DEF TakeResult
<1>19. ASSUME NEW r \in Requests, ContextDone(r) PROVE CutInv'
  BY <1>19 DEF ContextDone, Exit, Goto
<1>20. ASSUME NEW r \in Requests, Answer(r) PROVE CutInv'
  BY <1>20 DEF Answer, Exit, Goto
<1>21. CASE Shutdown
  BY <1>21 DEF Shutdown
<1>22. CASE ForceClose
  BY <1>22 DEF ForceClose, Serving
<1>23. CASE CloseService
  BY <1>23 DEF CloseService, Serving
<1>24. CASE UNCHANGED vars
  BY <1>24 DEF vars
<1>25. QED
  BY <1>1, <1>2, <1>3, <1>4, <1>5, <1>6, <1>7, <1>8, <1>9, <1>10, <1>11, <1>12, <1>13, <1>14, <1>15, <1>16, <1>17, <1>18, <1>19, <1>20, <1>21, <1>22, <1>23, <1>24 DEF Next, HandlerStep, GenStep, Finished

(* The stages of a generation and its handler.                              *)
LEMMA StageStep == IInv /\ [Next]_vars => StageInv'
<1> SUFFICES ASSUME IInv, [Next]_vars PROVE StageInv'
  OBVIOUS
<1> USE GateAssumption DEF IInv, TypeOK, StageInv
<1>1. ASSUME NEW r \in Requests, Arrive(r) PROVE StageInv'
  BY <1>1 DEF Arrive, Goto
<1>2. ASSUME NEW r \in Requests, ClientLeaves(r) PROVE StageInv'
  BY <1>2 DEF ClientLeaves
<1>3. ASSUME NEW r \in Requests, Acquire(r) PROVE StageInv'
  BY <1>3 DEF Acquire, Goto
<1>4. ASSUME NEW r \in Requests, WaitCancelled(r) PROVE StageInv'
  BY <1>4 DEF WaitCancelled, Goto
<1>5. ASSUME NEW r \in Requests, Refuse(r) PROVE StageInv'
  BY <1>5 DEF Refuse, Exit, Goto
<1>6. ASSUME NEW r \in Requests, StartInline(r) PROVE StageInv'
  BY <1>6 DEF StartInline, Goto
<1>7. ASSUME NEW r \in Requests, StartStream(r) PROVE StageInv'
  BY <1>7 DEF StartStream, Goto
<1>8. ASSUME NEW r \in Requests, InlineDone(r) PROVE StageInv'
  BY <1>8 DEF InlineDone, Goto
<1>9. ASSUME NEW r \in Requests, NewDelta(r) PROVE StageInv'
  BY <1>9 DEF NewDelta
<1>10. ASSUME NEW r \in Requests, SendDelta(r) PROVE StageInv'
  BY <1>10 DEF SendDelta
<1>11. ASSUME NEW r \in Requests, DropDelta(r) PROVE StageInv'
  BY <1>11 DEF DropDelta
<1>12. ASSUME NEW r \in Requests, CloseEvents(r) PROVE StageInv'
  BY <1>12 DEF CloseEvents
<1>13. ASSUME NEW r \in Requests, SendResult(r) PROVE StageInv'
  BY <1>13 DEF SendResult
<1>14. ASSUME NEW r \in Requests, TakeDelta(r) PROVE StageInv'
  BY <1>14 DEF TakeDelta, Goto
<1>15. ASSUME NEW r \in Requests, DeltaWritten(r) PROVE StageInv'
  BY <1>15 DEF DeltaWritten, Goto
<1>16. ASSUME NEW r \in Requests, WriteFailed(r) PROVE StageInv'
  BY <1>16 DEF WriteFailed, Exit, Goto
<1>17. ASSUME NEW r \in Requests, EventsDrained(r) PROVE StageInv'
  BY <1>17 DEF EventsDrained
<1>18. ASSUME NEW r \in Requests, TakeResult(r) PROVE StageInv'
  BY <1>18 DEF TakeResult
<1>19. ASSUME NEW r \in Requests, ContextDone(r) PROVE StageInv'
  BY <1>19 DEF ContextDone, Exit, Goto
<1>20. ASSUME NEW r \in Requests, Answer(r) PROVE StageInv'
  BY <1>20 DEF Answer, Exit, Goto
<1>21. CASE Shutdown
  BY <1>21 DEF Shutdown
<1>22. CASE ForceClose
  BY <1>22 DEF ForceClose, Serving
<1>23. CASE CloseService
  BY <1>23 DEF CloseService, Serving
<1>24. CASE UNCHANGED vars
  BY <1>24 DEF vars
<1>25. QED
  BY <1>1, <1>2, <1>3, <1>4, <1>5, <1>6, <1>7, <1>8, <1>9, <1>10, <1>11, <1>12, <1>13, <1>14, <1>15, <1>16, <1>17, <1>18, <1>19, <1>20, <1>21, <1>22, <1>23, <1>24 DEF Next, HandlerStep, GenStep, Finished

(* The semaphore counts the handlers that hold a slot: a handler that       *)
(* gives its slot back was counted.                                         *)
LEMMA HoldersFinite == IsFiniteSet(Holders) /\ Cardinality(Holders) \in Nat
BY GateAssumption, FS_Subset, FS_CardinalityType DEF Holders

(* A step by which a holder stops holding counts its slot back.            *)
LEMMA SlotReturned ==
  ASSUME IInv, NEW r \in Requests, Holds(r), Holders' = Holders \ {r},
         slots' = IF slots > 0 THEN slots - 1 ELSE slots
  PROVE  SlotsMatchHolders'
<1>1. r \in Holders /\ slots = Cardinality(Holders)
  BY DEF Holders, IInv, SlotsMatchHolders
<1>2. Cardinality(Holders \ {r}) = slots - 1
  BY <1>1, HoldersFinite, FS_RemoveElement
<1>3. slots > 0
  BY <1>1, HoldersFinite, FS_EmptySet
<1>4. slots' = Cardinality(Holders')
  BY <1>2, <1>3
<1>5. QED BY <1>4 DEF SlotsMatchHolders, Holders

(* Every step keeps the count of slots equal to the holders.               *)
LEMMA SlotsStep == IInv /\ [Next]_vars => SlotsMatchHolders'
<1> SUFFICES ASSUME IInv, [Next]_vars PROVE SlotsMatchHolders'
  OBVIOUS
<1> USE DEF IInv, TypeOK, Holds
<1>1. ASSUME NEW r \in Requests, Acquire(r) PROVE SlotsMatchHolders'
  <2>1. r \notin Holders /\ Holders' = Holders \cup {r} /\ slots' = slots + 1
    BY <1>1 DEF Acquire, Goto, Holders
  <2>2. slots' = Cardinality(Holders')
    BY <2>1, HoldersFinite, FS_AddElement DEF SlotsMatchHolders, Holders
  <2>3. QED BY <2>2 DEF SlotsMatchHolders, Holders
<1>2. ASSUME NEW r \in Requests, Refuse(r) \/ InlineDone(r) \/ WriteFailed(r) \/ ContextDone(r) \/ Answer(r)
      PROVE SlotsMatchHolders'
  <2>1. /\ Holds(r)
        /\ \A q \in Requests : q # r => handler'[q] = handler[q]
        /\ handler'[r] \in {"answered", "returned"}
        /\ slots' = IF slots > 0 THEN slots - 1 ELSE slots
    BY <1>2 DEF Refuse, InlineDone, WriteFailed, ContextDone, Answer, Exit, Goto
  <2>2. Holders' = Holders \ {r}
    BY <2>1 DEF Holders
  <2>3. QED BY <2>1, <2>2, SlotReturned
<1>3. CASE slots' = slots /\ \A r \in Requests : Holds(r)' <=> Holds(r)
  <2>1. Holders' = Holders
    BY <1>3 DEF Holders
  <2>2. QED BY <1>3, <2>1 DEF SlotsMatchHolders, Holders
<1>4. ASSUME NEW r \in Requests,
             Arrive(r) \/ WaitCancelled(r) \/ StartInline(r) \/ StartStream(r) \/ TakeDelta(r) \/ DeltaWritten(r)
      PROVE SlotsMatchHolders'
  BY <1>3, <1>4 DEF Arrive, WaitCancelled, StartInline, StartStream, TakeDelta, DeltaWritten, Goto
<1>5. ASSUME NEW r \in Requests, ClientLeaves(r) \/ EventsDrained(r) \/ TakeResult(r) \/ GenStep(r)
      PROVE SlotsMatchHolders'
  BY <1>3, <1>5 DEF ClientLeaves, EventsDrained, TakeResult, GenStep, NewDelta, SendDelta, DropDelta,
     CloseEvents, SendResult
<1>6. CASE Shutdown \/ ForceClose \/ CloseService \/ UNCHANGED vars
  BY <1>3, <1>6 DEF Shutdown, ForceClose, CloseService, vars
<1>7. QED
  BY <1>1, <1>2, <1>4, <1>5, <1>6 DEF Next, HandlerStep, Finished

(* What is written and what is in the channel.  A delta is sent behind the *)
(* ones before it, taken from the front, and dropped only once the client  *)
(* has gone.                                                               *)
LEMMA OrderStep == IInv /\ [Next]_vars => OrderInv'
<1> SUFFICES ASSUME IInv, [Next]_vars, NEW r \in Streams, r \notin left' PROVE Order(r)'
  BY DEF OrderInv, Order
<1> USE GateAssumption DEF IInv, TypeOK
<1>1. r \in Requests /\ r \notin left
  BY DEF Next, HandlerStep, GenStep, Finished, vars, Exit, Arrive, ClientLeaves, Acquire, WaitCancelled, Refuse,
     StartInline, StartStream, InlineDone, NewDelta, SendDelta, DropDelta, CloseEvents, SendResult, TakeDelta,
     DeltaWritten, WriteFailed, EventsDrained, TakeResult, ContextDone, Answer, Shutdown, ForceClose, CloseService
<1>2. Order(r)
  BY <1>1 DEF OrderInv
<1>3. /\ written \in [Requests -> Seq(Nat)] /\ events \in [Requests -> Seq(Nat)]
      /\ made \in [Requests -> Nat]
  OBVIOUS
<1>4. /\ written' \in [Requests -> Seq(Nat)] /\ events' \in [Requests -> Seq(Nat)]
      /\ made' \in [Requests -> Nat]
  BY TypeStep, SMTT(30)
<1> HIDE GateAssumption DEF IInv, TypeOK
<1>5. CASE SendDelta(r)
  <2>1. /\ gen[r] = "sending" /\ gen'[r] = "running" /\ events'[r] = Append(events[r], made[r])
        /\ written'[r] = written[r] /\ made'[r] = made[r]
    BY <1>1, <1>5 DEF SendDelta, IInv, TypeOK
  <2>2. made[r] = Len(written[r]) + Len(events[r]) + 1
    <3>1. Len(written[r]) + Len(events[r]) = made[r] - 1
      BY <1>2, <2>1 DEF Order, Sent
    <3>2. QED BY <1>1, <1>3, <3>1
  <2>3. /\ Len(events'[r]) = Len(events[r]) + 1
        /\ RunFrom(events'[r], Len(written[r]))
    <3>1. events[r] \in Seq(Nat) /\ Len(written[r]) \in Nat /\ RunFrom(events[r], Len(written[r]))
      BY <1>1, <1>2, <1>3 DEF Order
    <3>2. events'[r] = Append(events[r], Len(written[r]) + Len(events[r]) + 1)
      BY <2>1, <2>2
    <3>3. QED BY <3>1, <3>2, AppendRun
  <2>4. Len(written'[r]) + Len(events'[r]) = Sent(r)'
    <3>1. Sent(r)' = made[r]
      BY <2>1 DEF Sent
    <3>2. QED BY <1>1, <1>3, <1>4, <2>1, <2>2, <2>3, <3>1
  <2>5. QED BY <1>2, <2>1, <2>3, <2>4 DEF Order, RunFrom
<1>6. CASE TakeDelta(r)
  <2>1. /\ events[r] # <<>> /\ events'[r] = Tail(events[r])
        /\ written'[r] = Append(written[r], Head(events[r]))
        /\ made'[r] = made[r] /\ gen'[r] = gen[r]
    BY <1>1, <1>6 DEF TakeDelta, IInv, TypeOK
  <2>2. /\ Head(events[r]) = 0 + Len(written[r]) + 1
        /\ Len(events'[r]) = Len(events[r]) - 1
        /\ RunFrom(events'[r], Len(written[r]) + 1)
    <3>1. events[r] \in Seq(Nat) /\ Len(written[r]) \in Nat /\ RunFrom(events[r], Len(written[r]))
      BY <1>1, <1>2, <1>3 DEF Order
    <3>2. QED BY <2>1, <3>1, TailRun
  <2>3. /\ Len(written'[r]) = Len(written[r]) + 1
        /\ RunFrom(written'[r], 0)
    <3>1. written[r] \in Seq(Nat) /\ RunFrom(written[r], 0)
      BY <1>1, <1>2, <1>3 DEF Order
    <3>2. written'[r] = Append(written[r], 0 + Len(written[r]) + 1)
      BY <2>1, <2>2
    <3>3. QED BY <3>1, <3>2, AppendRun
  <2>4. Len(written'[r]) + Len(events'[r]) = Sent(r)'
    <3>1. Sent(r)' = Sent(r) /\ Len(written[r]) + Len(events[r]) = Sent(r)
      BY <1>2, <2>1 DEF Order, Sent
    <3>2. QED BY <1>1, <1>3, <1>4, <2>2, <2>3, <3>1
  <2>5. QED BY <2>2, <2>3, <2>4 DEF Order, RunFrom
<1>7. CASE NewDelta(r)
  <2>1. /\ gen[r] = "running" /\ gen'[r] = "sending" /\ made'[r] = made[r] + 1
        /\ events'[r] = events[r] /\ written'[r] = written[r]
    BY <1>1, <1>7 DEF NewDelta, IInv, TypeOK
  <2>2. Len(written'[r]) + Len(events'[r]) = Sent(r)'
    BY <1>1, <1>2, <1>3, <1>4, <2>1 DEF Order, Sent
  <2>3. QED BY <1>2, <2>1, <2>2 DEF Order, RunFrom
<1>8. CASE /\ events'[r] = events[r] /\ written'[r] = written[r] /\ made'[r] = made[r]
           /\ gen'[r] = "sending" <=> gen[r] = "sending"
  BY <1>2, <1>8 DEF Order, Sent, RunFrom
<1>9. ~DropDelta(r) /\ ~InlineDone(r)
  BY <1>1 DEF DropDelta, CutInv, StageInv, Ended, InlineDone, IInv, TypeOK
<1>10. ASSUME NEW q \in Requests,
              Arrive(q) \/ ClientLeaves(q) \/ Acquire(q) \/ WaitCancelled(q) \/ Refuse(q) \/ WriteFailed(q)
                \/ EventsDrained(q) \/ TakeResult(q) \/ ContextDone(q) \/ Answer(q) \/ DeltaWritten(q)
       PROVE Order(r)'
  BY <1>8, <1>10 DEF Arrive, ClientLeaves, Acquire, WaitCancelled, Refuse, WriteFailed, EventsDrained, TakeResult,
     ContextDone, Answer, DeltaWritten, Exit
<1>11. ASSUME NEW q \in Requests, StartInline(q) \/ StartStream(q) \/ InlineDone(q) \/ CloseEvents(q) \/ SendResult(q)
       PROVE Order(r)'
  <2>1. gen'[r] = "sending" <=> gen[r] = "sending"
    <3>1. gen \in [Requests -> {"none", "running", "sending", "ending", "ended"}]
      BY DEF IInv, TypeOK
    <3>2. InlineDone(q) => q # r
      BY <1>9
    <3>3. StartInline(q) \/ StartStream(q) => gen[q] = "none"
      BY DEF StartInline, StartStream, IInv, StageInv
    <3>4. QED BY <1>1, <1>11, <3>1, <3>2, <3>3 DEF StartInline, StartStream, InlineDone, CloseEvents, SendResult
  <2>2. QED BY <1>8, <1>11, <2>1 DEF StartInline, StartStream, InlineDone, CloseEvents, SendResult
<1>12. ASSUME NEW q \in Requests, q # r, NewDelta(q) \/ SendDelta(q) \/ DropDelta(q) \/ TakeDelta(q)
       PROVE Order(r)'
  BY <1>1, <1>8, <1>12 DEF NewDelta, SendDelta, DropDelta, TakeDelta, IInv, TypeOK
<1>13. CASE Shutdown \/ ForceClose \/ CloseService \/ UNCHANGED vars
  BY <1>8, <1>13 DEF Shutdown, ForceClose, CloseService, vars
<1>14. QED
  BY <1>1, <1>5, <1>6, <1>7, <1>9, <1>10, <1>11, <1>12, <1>13 DEF Next, HandlerStep, GenStep, Finished

-----------------------------------------------------------------------------
(* The inductive invariant holds in every reachable state.                 *)
THEOREM Invariance == Spec => []IInv
<1>1. IInv /\ [Next]_vars => IInv'
  BY TypeStep, SlotsStep, CutStep, StageStep, OrderStep DEF IInv
<1>2. QED BY InitIInv, <1>1, PTL DEF Spec

(* Types, with the bound on the event channel.                              *)
THEOREM TypeCorrect == Spec => []TypeOK
<1>1. IInv => TypeOK BY DEF IInv
<1>2. QED BY Invariance, <1>1, PTL

(* Slots are neither lost nor given back twice: the semaphore's count is   *)
(* that of the handlers past acquire (server.go 697-701, 891-905).         *)
THEOREM SlotsTheorem == Spec => []SlotsMatchHolders
<1>1. IInv => SlotsMatchHolders BY DEF IInv
<1>2. QED BY Invariance, <1>1, PTL

(* An answered stream has all its deltas, in order, and its result         *)
(* (server.go 946-1046).                                                   *)
THEOREM CompleteTheorem == Spec => []CompleteAnswer
<1>1. IInv => CompleteAnswer
  <2> SUFFICES ASSUME IInv, NEW r \in Requests PROVE
        /\ handler[r] = "answered" /\ gen[r] # "none" /\ r \in Streams =>
             /\ r \in doneNil
             /\ r \in left \/ written[r] = [i \in 1 .. made[r] |-> i]
        /\ handler[r] = "returned" => r \in left
    BY DEF CompleteAnswer
  <2>1. handler[r] = "returned" => r \in left
    BY DEF IInv, CutInv
  <2>2. ASSUME handler[r] = "answered", gen[r] # "none", r \in Streams, r \notin left
        PROVE  written[r] = [i \in 1 .. made[r] |-> i]
    <3>1. gen[r] = "ended" /\ events[r] = <<>>
      BY <2>2 DEF IInv, StageInv
    <3>2. Len(written[r]) + Len(events[r]) = made[r] /\ RunFrom(written[r], 0)
      BY <2>2, <3>1 DEF IInv, OrderInv, Order, Sent
    <3>3. /\ written \in [Requests -> Seq(1 .. MaxDeltas)] /\ made \in [Requests -> Nat]
          /\ Len(events[r]) = 0
      BY GateAssumption, <3>1 DEF IInv, TypeOK
    <3>4. Len(written[r]) = made[r]
      BY <3>2, <3>3
    <3>5. \A i \in 1 .. made[r] : written[r][i] = i
      BY <3>2, <3>3, <3>4 DEF RunFrom
    <3>6. QED BY <3>3, <3>4, <3>5
  <2>3. QED BY <2>1, <2>2 DEF IInv, StageInv
<1>2. QED BY Invariance, <1>1, PTL

(* The service is closed only under handlers whose client the shutdown     *)
(* deadline cut off (server.go 184-198).                                   *)
THEOREM ClosedTheorem == Spec => []ClosedAfterHandlers
<1>1. IInv => ClosedAfterHandlers
  BY DEF IInv, CutInv, ClosedAfterHandlers, Serving
<1>2. QED BY Invariance, <1>1, PTL

(***************************************************************************)
(* Conversation: the messages of a turn and what is in them, for any       *)
(* number of turns, texts, images, calls and results. Every request is a   *)
(* spread of the conversation, each turn replaced by its own messages, so  *)
(* what a request keeps is a fact about one turn at a time.                *)
(***************************************************************************)
TurnMarks == (Nat \ {0}) \X Nat
(* The marks of a request, and those of a client's pieces, some blank.     *)
AllMarks == TurnMarks \cup {System, Context}
TurnPieces == TurnMarks \cup {BlankMark}
AllPieces == AllMarks \cup {BlankMark}

(* The system prompt, the context of an image and the blank differ from    *)
(* every mark of a turn and from each other.                               *)
LEMMA MarkFacts ==
  /\ BlankMark \notin AllMarks /\ System \notin TurnMarks /\ Context \notin TurnMarks /\ System # Context
  /\ TurnMarks \subseteq AllMarks /\ TurnMarks \subseteq TurnPieces /\ TurnPieces \subseteq AllPieces
  /\ AllMarks \subseteq AllPieces /\ BlankMark \in TurnPieces /\ BlankMark \in AllPieces
<1>1. \A m \in TurnMarks : m # <<>> /\ m # <<0, 1>> /\ m # <<0, 2>>
  BY DEF TurnMarks
<1>2. <<0, 1>> # <<>> /\ <<0, 2>> # <<>> /\ <<0, 1>> # <<0, 2>>
  OBVIOUS
<1>3. QED
  BY <1>1, <1>2 DEF AllMarks, TurnPieces, AllPieces, BlankMark, System, Context

(* The marks that are not blank.                                           *)
NotBlank == [m \in AllPieces |-> IF m # BlankMark THEN <<m>> ELSE <<>>]

(* Keeping what is not blank, as a spread.                                 *)
LEMMA NotBlankSpreads ==
  Spreads(NotBlank, TurnPieces, TurnMarks) /\ Spreads(NotBlank, AllPieces, AllMarks)
<1>1. ASSUME NEW m \in AllPieces PROVE NotBlank[m] = (IF m # BlankMark THEN <<m>> ELSE <<>>)
  BY DEF NotBlank
<1>2. \A m \in TurnPieces : m # BlankMark => m \in TurnMarks
  BY DEF TurnPieces
<1>3. \A m \in AllPieces : m # BlankMark => m \in AllMarks
  BY DEF AllPieces
<1>4. ASSUME NEW m \in TurnPieces PROVE NotBlank[m] \in Seq(TurnMarks)
  <2>1. CASE m = BlankMark
    BY <1>1, <2>1, MarkFacts, NoneType
  <2>2. CASE m # BlankMark
    BY <1>1, <1>2, <2>2, MarkFacts, OneType
  <2>3. QED
    BY <2>1, <2>2
<1>5. ASSUME NEW m \in AllPieces PROVE NotBlank[m] \in Seq(AllMarks)
  <2>1. CASE m = BlankMark
    BY <1>1, <2>1, NoneType
  <2>2. CASE m # BlankMark
    BY <1>1, <1>3, <2>2, OneType
  <2>3. QED
    BY <2>1, <2>2
<1>6. QED
  BY <1>4, <1>5 DEF Spreads

LEMMA NonBlankIs ==
  ASSUME NEW s \in Seq(AllPieces)
  PROVE  NonBlank(s) = Spread(NotBlank, s)
<1> DEFINE E == [i \in DOMAIN s |-> IF s[i] # BlankMark THEN <<s[i]>> ELSE <<>>]
<1>1. Follows(E, NotBlank, s, AllPieces)
  BY DEF Follows, NotBlank
<1>2. FlattenSeq(E) = Spread(NotBlank, s)
  <2> HIDE DEF E
  <2>1. QED
    BY <1>1, SpreadFollows
<1>3. NonBlank(s) = FlattenSeq(E)
  BY DEF NonBlank, Only
<1>4. QED
  BY <1>2, <1>3, Zenon

LEMMA NonBlankType ==
  ASSUME NEW s \in Seq(TurnPieces)
  PROVE  s \in Seq(AllPieces) /\ NonBlank(s) \in Seq(TurnMarks)
<1>1. s \in Seq(AllPieces)
  BY MarkFacts, SeqMonotonic
<1>2. QED
  BY <1>1, NonBlankIs, NotBlankSpreads, SpreadType

(* Marks that are not blank stay as they are.                              *)
LEMMA NonBlankSame ==
  ASSUME NEW s \in Seq(AllMarks)
  PROVE  NonBlank(s) = s
<1>1. s \in Seq(AllPieces)
  BY MarkFacts, SeqMonotonic
<1>2. \A m \in AllMarks : NotBlank[m] = <<m>>
  BY MarkFacts DEF NotBlank
<1>3. QED
  BY <1>1, <1>2, NonBlankIs, SpreadAll

(* The blocks of a message, and the marks of one type of them.             *)
Kinds == {"text", "image", "image_url", "input_text", "input_image", "output_text", "tool_result", "tool_use"}
(* Content blocks, and those without blocks inside.                        *)
PlainBlocks == [type : Kinds, mark : AllPieces, id : AllPieces, content : {<<>>}]
Blocks == [type : Kinds, mark : AllPieces, id : AllPieces, content : Seq(PlainBlocks)]

LEMMA PlainAreBlocks == PlainBlocks \subseteq Blocks
BY <<>> \in Seq(PlainBlocks) DEF PlainBlocks, Blocks

(* The blocks of some types; their marks; the marks of one type.           *)
BlocksOf(types) == [b \in Blocks |-> IF b.type \in types THEN <<b>> ELSE <<>>]
MarkOf == [b \in Blocks |-> <<b.mark>>]
MarksOf(type) == [b \in Blocks |-> IF b.type = type /\ b.mark # BlankMark THEN <<b.mark>> ELSE <<>>]

(* Their types, and what the code extracts as spreads of them.             *)
LEMMA BlockSpreads ==
  ASSUME NEW types, NEW type
  PROVE  Spreads(BlocksOf(types), Blocks, Blocks) /\ Spreads(MarkOf, Blocks, AllPieces) /\ Spreads(MarksOf(type), Blocks, AllMarks)
<1>1. \A b \in Blocks : b.mark \in AllPieces
  BY DEF Blocks
<1>2. \A b \in Blocks : b.mark # BlankMark => b.mark \in AllMarks
  BY <1>1 DEF AllPieces
<1>3. \A b \in Blocks : BlocksOf(types)[b] \in Seq(Blocks)
  BY DEF BlocksOf
<1>4. \A b \in Blocks : MarkOf[b] \in Seq(AllPieces)
  BY <1>1 DEF MarkOf
<1>5. \A b \in Blocks : MarksOf(type)[b] \in Seq(AllMarks)
  BY <1>2 DEF MarksOf
<1>6. QED
  BY <1>3, <1>4, <1>5 DEF Spreads

LEMMA OfTypeIs ==
  ASSUME NEW types, NEW s \in Seq(Blocks)
  PROVE  OfType(s, types) = Spread(BlocksOf(types), s)
<1> DEFINE E == [i \in DOMAIN s |-> IF s[i].type \in types THEN <<s[i]>> ELSE <<>>]
<1>1. Follows(E, BlocksOf(types), s, Blocks)
  BY DEF Follows, BlocksOf
<1>2. FlattenSeq(E) = Spread(BlocksOf(types), s)
  <2> HIDE DEF E
  <2>1. QED
    BY <1>1, SpreadFollows
<1>3. OfType(s, types) = FlattenSeq(E)
  BY DEF OfType, Only
<1>4. QED
  BY <1>2, <1>3, Zenon

LEMMA MarksAre ==
  ASSUME NEW s \in Seq(Blocks)
  PROVE  Marks(s) = Spread(MarkOf, s)
<1>1. OneEach(MarkOf, Blocks)
  BY DEF OneEach, MarkOf
<1>2. FollowsOne(Marks(s), MarkOf, s, Blocks)
  BY DEF FollowsOne, MarkOf, Marks, Each
<1>3. QED
  BY <1>1, <1>2, EachIsSpread, Zenon

LEMMA MarksOfType ==
  ASSUME NEW type, NEW s \in Seq(Blocks)
  PROVE  NonBlank(Marks(OfType(s, {type}))) = Spread(MarksOf(type), s)
<1> DEFINE F == BlocksOf({type})
           G == Composed(F, MarkOf, Blocks)
           t == Spread(F, s)
<1>1. Spreads(F, Blocks, Blocks) /\ Spreads(MarkOf, Blocks, AllPieces)
  BY BlockSpreads
<1>2. Spreads(NotBlank, AllPieces, AllMarks)
  BY NotBlankSpreads
<1>3. OfType(s, {type}) = t /\ t \in Seq(Blocks)
  BY <1>1, OfTypeIs, SpreadType, Zenon
<1>4. Marks(t) = Spread(MarkOf, t)
  BY <1>3, MarksAre, Zenon
<1> HIDE DEF F
<1>5. Spreads(G, Blocks, AllPieces)
  BY <1>1, ComposedSpreads, Zenon
<1>6. SpreadChains(F, MarkOf, Blocks, s)
  BY <1>1, SpreadTwice, Zenon
<1>7. Spread(MarkOf, t) = Spread(G, s)
  BY <1>6, Zenon DEF SpreadChains
<1> HIDE DEF G, t
<1>8. SpreadChains(G, NotBlank, Blocks, s)
  BY <1>2, <1>5, SpreadTwice, Zenon
<1>9. Marks(t) \in Seq(AllPieces)
  BY <1>4, <1>5, <1>7, SpreadType, Zenon
<1>10. NonBlank(Marks(t)) = Spread(Composed(G, NotBlank, Blocks), s)
  BY <1>4, <1>7, <1>8, <1>9, NonBlankIs, Zenon DEF SpreadChains
<1>11. ASSUME NEW b \in Blocks PROVE Composed(G, NotBlank, Blocks)[b] = MarksOf(type)[b]
  <2>1. b.mark \in AllPieces
    BY DEF Blocks
  <2>2. MarkOf[b] = <<b.mark>> /\ F[b] = (IF b.type = type THEN <<b>> ELSE <<>>)
    BY DEF MarkOf, F, BlocksOf
  <2>3. Spread(MarkOf, <<b>>) = <<b.mark>>
    BY <1>1, <2>2, SpreadOne, Zenon
  <2>4. G[b] = (IF b.type = type THEN <<b.mark>> ELSE <<>>)
    <3>1. G[b] = Spread(MarkOf, F[b])
      BY DEF G, Composed
    <3>2. QED
      BY <2>2, <2>3, <3>1, SpreadNone, Zenon
  <2>5. Spread(NotBlank, <<b.mark>>) = NotBlank[b.mark]
    BY <1>2, <2>1, SpreadOne, ZenonT(60)
  <2>6. Composed(G, NotBlank, Blocks)[b] = Spread(NotBlank, G[b])
    BY DEF Composed
  <2>7. Spread(NotBlank, G[b]) = (IF b.type = type THEN NotBlank[b.mark] ELSE <<>>)
    BY <2>4, <2>5, SpreadNone, Zenon
  <2>8. QED
    BY <2>1, <2>6, <2>7 DEF NotBlank, MarksOf
<1>12. Agree(Composed(G, NotBlank, Blocks), MarksOf(type), Blocks)
  BY <1>11, Zenon DEF Agree
<1>14. Spread(Composed(G, NotBlank, Blocks), s) = Spread(MarksOf(type), s)
  BY <1>12, SpreadSame, Zenon
<1>13. QED
  BY <1>3, <1>10, <1>14, Zenon

LEMMA TextIs == ASSUME NEW s \in Seq(Blocks) PROVE extractText(s) = Spread(MarksOf("text"), s)
BY MarksOfType, Zenon DEF extractText

LEMMA ImagesAre == ASSUME NEW s \in Seq(Blocks), NEW type PROVE extractImages(s, type) = Spread(MarksOf(type), s)
BY MarksOfType, Zenon DEF extractImages

(* A block for each mark, and what is taken from them.                     *)
BlockOf(type) == [m \in AllPieces |-> <<ContentBlock(type, m, <<>>, <<>>)>>]

(* The blocks a client makes of texts or images have only those: what is   *)
(* extracted of their type is what was put in, and of another nothing.     *)
LEMMA BlockOfType ==
  ASSUME NEW type \in Kinds
  PROVE  Spreads(BlockOf(type), AllPieces, PlainBlocks) /\ Spreads(BlockOf(type), AllPieces, Blocks)
<1>1. \A m \in AllPieces : ContentBlock(type, m, <<>>, <<>>) \in PlainBlocks
  BY MarkFacts DEF ContentBlock, PlainBlocks, BlankMark
<1>2. \A m \in AllPieces : BlockOf(type)[m] = <<ContentBlock(type, m, <<>>, <<>>)>>
  BY DEF BlockOf
<1>3. \A m \in AllPieces : BlockOf(type)[m] \in Seq(PlainBlocks)
  BY <1>1, <1>2, OneType
<1>4. \A m \in AllPieces : BlockOf(type)[m] \in Seq(Blocks)
  BY <1>1, <1>2, PlainAreBlocks, OneType
<1>5. QED
  BY <1>3, <1>4, Zenon DEF Spreads

LEMMA ContentBlocksAre ==
  ASSUME NEW type \in Kinds, NEW s \in Seq(AllPieces)
  PROVE  /\ ContentBlocks(type, s) = Spread(BlockOf(type), s)
         /\ ContentBlocks(type, s) \in Seq(PlainBlocks) /\ ContentBlocks(type, s) \in Seq(Blocks)
<1>1. OneEach(BlockOf(type), AllPieces)
  BY DEF OneEach, BlockOf
<1>2. FollowsOne(ContentBlocks(type, s), BlockOf(type), s, AllPieces)
  BY DEF FollowsOne, BlockOf, ContentBlocks
<1>3. ContentBlocks(type, s) = Spread(BlockOf(type), s)
  BY <1>1, <1>2, EachIsSpread, Zenon
<1>4. QED
  BY <1>3, BlockOfType, SpreadType, Zenon

LEMMA BlockMarks ==
  ASSUME NEW type \in Kinds, NEW m \in AllPieces, NEW other \in Kinds
  PROVE  Spread(MarksOf(other), BlockOf(type)[m]) = (IF type = other THEN NotBlank[m] ELSE <<>>)
<1> DEFINE b == ContentBlock(type, m, <<>>, <<>>)
<1>1. b \in Blocks
  BY MarkFacts, PlainAreBlocks DEF ContentBlock, PlainBlocks, BlankMark
<1>2. BlockOf(type)[m] = <<b>>
  BY DEF BlockOf
<1>3. Spread(MarksOf(other), <<b>>) = MarksOf(other)[b]
  BY <1>1, BlockSpreads, SpreadOne, Zenon
<1>4. b.type = type /\ b.mark = m
  BY DEF ContentBlock
<1>5. MarksOf(other)[b] = (IF type = other THEN NotBlank[m] ELSE <<>>)
  <2> HIDE DEF b
  <2>1. QED
    BY <1>1, <1>4 DEF MarksOf, NotBlank
<1>6. QED
  BY <1>2, <1>3, <1>5, Zenon

LEMMA MarksOfBlocks ==
  ASSUME NEW type \in Kinds, NEW s \in Seq(AllPieces)
  PROVE  Spread(MarksOf(type), ContentBlocks(type, s)) = NonBlank(s)
<1>1. Spreads(BlockOf(type), AllPieces, Blocks) /\ Spreads(MarksOf(type), Blocks, AllMarks)
  BY BlockOfType, BlockSpreads, Zenon
<1>2. Composes(BlockOf(type), MarksOf(type), NotBlank, AllPieces)
  BY BlockMarks, Zenon DEF Composes
<1>3. Gives(BlockOf(type), MarksOf(type), s, Spread(NotBlank, s))
  BY <1>1, <1>2, SpreadComposed, Zenon
<1>4. ContentBlocks(type, s) = Spread(BlockOf(type), s)
  BY ContentBlocksAre, Zenon
<1>5. QED
  BY <1>3, <1>4, NonBlankIs, Zenon DEF Gives

LEMMA NoMarksOfBlocks ==
  ASSUME NEW type \in Kinds, NEW other \in Kinds, type # other, NEW s \in Seq(AllPieces)
  PROVE  Spread(MarksOf(other), ContentBlocks(type, s)) = <<>>
<1>1. Spreads(BlockOf(type), AllPieces, Blocks) /\ Spreads(MarksOf(other), Blocks, AllMarks)
  BY BlockOfType, BlockSpreads, Zenon
<1>2. Cancels(BlockOf(type), MarksOf(other), AllPieces)
  BY BlockMarks, Zenon DEF Cancels
<1>3. Gives(BlockOf(type), MarksOf(other), s, <<>>)
  BY <1>1, <1>2, SpreadCancelled, Zenon
<1>4. ContentBlocks(type, s) = Spread(BlockOf(type), s)
  BY ContentBlocksAre, Zenon
<1>5. QED
  BY <1>3, <1>4, Zenon DEF Gives

LEMMA NoBlocksOfBlocks ==
  ASSUME NEW type \in Kinds, NEW types, type \notin types, NEW s \in Seq(AllPieces)
  PROVE  Spread(BlocksOf(types), ContentBlocks(type, s)) = <<>>
<1>1. Spreads(BlockOf(type), AllPieces, Blocks) /\ Spreads(BlocksOf(types), Blocks, Blocks)
  BY BlockOfType, BlockSpreads, Zenon
<1>2. ASSUME NEW m \in AllPieces PROVE Spread(BlocksOf(types), BlockOf(type)[m]) = <<>>
  <2> DEFINE b == ContentBlock(type, m, <<>>, <<>>)
  <2>1. b \in Blocks
    BY MarkFacts, PlainAreBlocks DEF ContentBlock, PlainBlocks, BlankMark
  <2>2. BlockOf(type)[m] = <<b>>
    BY DEF BlockOf
  <2>3. Spread(BlocksOf(types), <<b>>) = BlocksOf(types)[b]
    BY <1>1, <2>1, SpreadOne, Zenon
  <2>4. b.type = type
    BY DEF ContentBlock
  <2>5. BlocksOf(types)[b] = <<>>
    <3> HIDE DEF b
    <3>1. QED
      BY <2>1, <2>4 DEF BlocksOf
  <2>6. QED
    BY <2>2, <2>3, <2>5, Zenon
<1>3. Cancels(BlockOf(type), BlocksOf(types), AllPieces)
  BY <1>2, Zenon DEF Cancels
<1>4. Gives(BlockOf(type), BlocksOf(types), s, <<>>)
  BY <1>1, <1>3, SpreadCancelled, Zenon
<1>5. ContentBlocks(type, s) = Spread(BlockOf(type), s)
  BY ContentBlocksAre, Zenon
<1>6. QED
  BY <1>4, <1>5, Zenon DEF Gives

(* Turns.                                                                  *)
Results == [id : TurnMarks, text : Seq(TurnPieces)]
(* The turns of a conversation.                                            *)
UserTurns == [who : {"user"}, texts : Seq(TurnPieces), images : Seq(TurnPieces), results : Seq(Results), calls : {<<>>}]
AssistantTurns == [who : {"assistant"}, texts : Seq(TurnPieces), images : {<<>>}, results : {<<>>}, calls : Seq(TurnMarks)]
Turns == UserTurns \cup AssistantTurns

(* The parts of a turn.                                                    *)
LEMMA TurnTypes ==
  ASSUME NEW t \in Turns
  PROVE  /\ t.texts \in Seq(TurnPieces) /\ t.images \in Seq(TurnPieces)
         /\ t.texts \in Seq(AllPieces) /\ t.images \in Seq(AllPieces)
         /\ t.results \in Seq(Results) /\ t.calls \in Seq(TurnMarks)
         /\ (t.who = "user" /\ t.calls = <<>>) \/ (t.who = "assistant" /\ t.images = <<>> /\ t.results = <<>>)
<1>1. <<>> \in Seq(TurnPieces) /\ <<>> \in Seq(Results) /\ <<>> \in Seq(TurnMarks)
  BY NoneType
<1>2. /\ t.texts \in Seq(TurnPieces) /\ t.images \in Seq(TurnPieces)
      /\ t.results \in Seq(Results) /\ t.calls \in Seq(TurnMarks)
  BY <1>1 DEF Turns, UserTurns, AssistantTurns
<1>3. (t.who = "user" /\ t.calls = <<>>) \/ (t.who = "assistant" /\ t.images = <<>> /\ t.results = <<>>)
  BY DEF Turns, UserTurns, AssistantTurns
<1>4. QED
  BY <1>2, <1>3, NonBlankType, Zenon

(* The messages of a request.                                              *)
Roles == {"user", "assistant", "tool", "system", "function_call", "function_call_output"}
(* Messages of any kind; and those a turn makes, which say or do           *)
(* something.                                                              *)
AllMessages == [role : Roles, text : Seq(AllMarks), images : Seq(AllMarks), id : AllPieces, calls : Seq(AllMarks)]

Speaks(m) ==
  /\ m.role = "user" => (m.text # <<>> \/ m.images # <<>>) /\ m.calls = <<>>
  /\ m.role = "tool" => m.text # <<>> /\ m.images = <<>> /\ m.calls = <<>>
  /\ m.role = "assistant" => m.images = <<>> /\ (m.text # <<>> \/ m.calls # <<>>)

TurnMessages ==
  {m \in [role : {"user", "tool", "assistant"}, text : Seq(TurnMarks), images : Seq(TurnMarks),
          id : TurnPieces, calls : Seq(TurnMarks)] : Speaks(m)}

LEMMA TurnMessagesAre == TurnMessages \subseteq AllMessages
<1> SUFFICES ASSUME NEW m \in TurnMessages PROVE m \in AllMessages
  OBVIOUS
<1>1. \A s \in Seq(TurnMarks) : s \in Seq(AllMarks)
  BY MarkFacts, SeqMonotonic
<1>2. \A s \in TurnPieces : s \in AllPieces
  BY MarkFacts
<1>3. m \in [role : {"user", "tool", "assistant"}, text : Seq(TurnMarks), images : Seq(TurnMarks),
               id : TurnPieces, calls : Seq(TurnMarks)]
  BY DEF TurnMessages
<1>4. m.text \in Seq(AllMarks) /\ m.images \in Seq(AllMarks) /\ m.calls \in Seq(AllMarks) /\ m.id \in AllPieces
  BY <1>1, <1>2, <1>3
<1>5. m = [role |-> m.role, text |-> m.text, images |-> m.images, id |-> m.id, calls |-> m.calls] /\ m.role \in Roles
  BY <1>3 DEF Roles
<1>6. QED
  BY <1>4, <1>5 DEF AllMessages

(* Such messages from their fields.                                        *)
LEMMA MessageType ==
  ASSUME NEW role \in {"user", "tool", "assistant"}, NEW text \in Seq(TurnMarks), NEW images \in Seq(TurnMarks),
         NEW id \in TurnPieces, NEW calls \in Seq(TurnMarks), Speaks(Message(role, text, images, id, calls))
  PROVE  Message(role, text, images, id, calls) \in TurnMessages
BY DEF Message, TurnMessages

(* A message or none.                                                      *)
LEMMA UnlessType ==
  ASSUME NEW S, NEW c \in BOOLEAN, NEW m, ~c => m \in S
  PROVE  Unless(c, m) \in Seq(S)
BY NoneType, OneType DEF Unless

(* What a turn comes to, whatever the format.                              *)
UserPart(t) ==
  Unless(NonBlank(t.texts) = <<>> /\ NonBlank(t.images) = <<>>,
         Message("user", NonBlank(t.texts), NonBlank(t.images), <<>>, <<>>))
(* What an assistant's turn becomes, its calls with the text or apart, and *)
(* what results and calls become.                                          *)
AnswerPart(t) ==
  Unless(NonBlank(t.texts) = <<>> /\ t.calls = <<>>, Message("assistant", NonBlank(t.texts), <<>>, <<>>, t.calls))
SayPart(t) ==
  Unless(NonBlank(t.texts) = <<>>, Message("assistant", NonBlank(t.texts), <<>>, <<>>, <<>>))
ToolPart == [r \in Results |-> Unless(NonBlank(r.text) = <<>>, Message("tool", NonBlank(r.text), <<>>, r.id, <<>>))]
CallPart == [id \in TurnMarks |-> <<Message("assistant", <<>>, <<>>, <<>>, <<id>>)>>]

(* The messages of a turn in each client format: the results follow the    *)
(* user's words in the format that keeps them in one message.              *)
PartsOf(format) == [t \in Turns |->
  IF t.who = "user"
  THEN IF format = "anthropic" THEN UserPart(t) \o Spread(ToolPart, t.results)
       ELSE Spread(ToolPart, t.results) \o UserPart(t)
  ELSE IF format = "responses" THEN SayPart(t) \o Spread(CallPart, t.calls) ELSE AnswerPart(t)]

(* Types of results and of the parts above.                                *)
LEMMA ResultTypes ==
  ASSUME NEW r \in Results
  PROVE  r.id \in TurnMarks /\ r.id # <<>> /\ r.id \in TurnPieces /\ r.id \in AllPieces
         /\ r.text \in Seq(TurnPieces) /\ r.text \in Seq(AllPieces) /\ NonBlank(r.text) \in Seq(TurnMarks)
<1>1. r.id \in TurnMarks /\ r.text \in Seq(TurnPieces)
  BY DEF Results
<1>2. r.id # <<>>
  BY <1>1, MarkFacts DEF BlankMark
<1>3. QED
  BY <1>1, <1>2, NonBlankType, MarkFacts

LEMMA PartTypes ==
  /\ Spreads(ToolPart, Results, TurnMessages) /\ Spreads(CallPart, TurnMarks, TurnMessages)
  /\ \A t \in Turns : /\ t.who = "user" => UserPart(t) \in Seq(TurnMessages)
                      /\ AnswerPart(t) \in Seq(TurnMessages) /\ SayPart(t) \in Seq(TurnMessages)
<1>0. <<>> \in Seq(TurnMarks) /\ <<>> \in TurnPieces
  BY NoneType, MarkFacts DEF BlankMark
<1>1. ASSUME NEW r \in Results PROVE ToolPart[r] \in Seq(TurnMessages)
  <2> DEFINE x == NonBlank(r.text)
             m == Message("tool", x, <<>>, r.id, <<>>)
  <2>1. x \in Seq(TurnMarks) /\ r.id \in TurnPieces
    BY ResultTypes
  <2> HIDE DEF x
  <2>2. x # <<>> => Speaks(m)
    BY DEF Speaks, Message
  <2>3. x # <<>> => m \in TurnMessages
    BY <1>0, <2>1, <2>2, MessageType
  <2>4. Unless(x = <<>>, m) \in Seq(TurnMessages)
    <3> HIDE DEF m
    <3>1. QED
      BY <2>3, UnlessType
  <2>5. QED
    BY <2>4 DEF x, ToolPart
<1>2. ASSUME NEW id \in TurnMarks PROVE CallPart[id] \in Seq(TurnMessages)
  <2> DEFINE m == Message("assistant", <<>>, <<>>, <<>>, <<id>>)
  <2>1. Speaks(m) /\ <<id>> \in Seq(TurnMarks)
    BY OneType DEF Speaks, Message
  <2>2. m \in TurnMessages
    BY <1>0, <2>1, MessageType
  <2>3. CallPart[id] = <<m>>
    BY DEF CallPart
  <2>4. QED
    BY <2>2, <2>3, OneType, Zenon
<1>3. ASSUME NEW t \in Turns
      PROVE  /\ t.who = "user" => UserPart(t) \in Seq(TurnMessages)
             /\ AnswerPart(t) \in Seq(TurnMessages) /\ SayPart(t) \in Seq(TurnMessages)
  <2> DEFINE x == NonBlank(t.texts)
             y == NonBlank(t.images)
             c == t.calls
  <2>1. x \in Seq(TurnMarks) /\ y \in Seq(TurnMarks) /\ c \in Seq(TurnMarks)
    BY TurnTypes, NonBlankType
  <2> HIDE DEF x, y, c
  <2>2. UserPart(t) \in Seq(TurnMessages)
    <3> DEFINE m == Message("user", x, y, <<>>, <<>>)
    <3>1. ~(x = <<>> /\ y = <<>>) => Speaks(m)
      BY DEF Speaks, Message
    <3>2. ~(x = <<>> /\ y = <<>>) => m \in TurnMessages
      BY <1>0, <2>1, <3>1, MessageType
    <3> HIDE DEF m
    <3>3. Unless(x = <<>> /\ y = <<>>, m) \in Seq(TurnMessages)
      BY <3>2, UnlessType
    <3>4. QED
      BY <3>3 DEF m, x, y, UserPart
  <2>3. AnswerPart(t) \in Seq(TurnMessages)
    <3> DEFINE m == Message("assistant", x, <<>>, <<>>, c)
    <3>1. ~(x = <<>> /\ c = <<>>) => Speaks(m)
      BY DEF Speaks, Message
    <3>2. ~(x = <<>> /\ c = <<>>) => m \in TurnMessages
      BY <1>0, <2>1, <3>1, MessageType
    <3> HIDE DEF m
    <3>3. Unless(x = <<>> /\ c = <<>>, m) \in Seq(TurnMessages)
      BY <3>2, UnlessType
    <3>4. QED
      BY <3>3 DEF m, x, c, AnswerPart
  <2>4. SayPart(t) \in Seq(TurnMessages)
    <3> DEFINE m == Message("assistant", x, <<>>, <<>>, <<>>)
    <3>1. x # <<>> => Speaks(m)
      BY DEF Speaks, Message
    <3>2. x # <<>> => m \in TurnMessages
      BY <1>0, <2>1, <3>1, MessageType
    <3> HIDE DEF m
    <3>3. Unless(x = <<>>, m) \in Seq(TurnMessages)
      BY <3>2, UnlessType
    <3>4. QED
      BY <3>3 DEF m, x, SayPart
  <2>5. QED
    BY <2>2, <2>3, <2>4
<1>4. QED
  BY <1>1, <1>2, <1>3 DEF Spreads

LEMMA PartsOfType ==
  ASSUME NEW format
  PROVE  Spreads(PartsOf(format), Turns, TurnMessages)
<1> SUFFICES ASSUME NEW t \in Turns PROVE PartsOf(format)[t] \in Seq(TurnMessages)
  BY DEF Spreads
<1>1. t.results \in Seq(Results) /\ t.calls \in Seq(TurnMarks) /\ (t.who = "user" \/ t.who = "assistant")
  BY TurnTypes
<1>2. Spread(ToolPart, t.results) \in Seq(TurnMessages) /\ Spread(CallPart, t.calls) \in Seq(TurnMessages)
  BY <1>1, PartTypes, SpreadType, Zenon
<1>3. AnswerPart(t) \in Seq(TurnMessages) /\ SayPart(t) \in Seq(TurnMessages)
  BY PartTypes
<1>4. t.who = "user" => UserPart(t) \in Seq(TurnMessages)
  BY PartTypes
<1>5. SayPart(t) \o Spread(CallPart, t.calls) \in Seq(TurnMessages)
  BY <1>2, <1>3, JoinType, Zenon
<1>6. t.who = "user" => UserPart(t) \o Spread(ToolPart, t.results) \in Seq(TurnMessages)
                         /\ Spread(ToolPart, t.results) \o UserPart(t) \in Seq(TurnMessages)
  BY <1>2, <1>4, JoinType, Zenon
<1>7. QED
  BY <1>3, <1>5, <1>6, Zenon DEF PartsOf

(* The Anthropic format.                                                   *)
ResultBlock == [r \in Results |-> <<ContentBlock("tool_result", BlankMark, r.id, ContentBlocks("text", r.text))>>]
(* Calls as blocks of Anthropic's format.                                  *)
UseBlock == [id \in TurnMarks |-> <<ContentBlock("tool_use", BlankMark, id, <<>>)>>]

(* Anthropic's blocks, made of results and calls.                          *)
LEMMA AnthropicBlocks ==
  /\ \A r \in Results : ContentBlock("tool_result", BlankMark, r.id, ContentBlocks("text", r.text)) \in Blocks
  /\ \A id \in TurnMarks : ContentBlock("tool_use", BlankMark, id, <<>>) \in Blocks
  /\ Spreads(ResultBlock, Results, Blocks) /\ Spreads(UseBlock, TurnMarks, Blocks)
<1>1. ASSUME NEW r \in Results
      PROVE  ContentBlock("tool_result", BlankMark, r.id, ContentBlocks("text", r.text)) \in Blocks
  <2>1. r.id \in AllPieces /\ r.text \in Seq(AllPieces)
    BY ResultTypes
  <2>2. "text" \in Kinds
    BY DEF Kinds
  <2>3. ContentBlocks("text", r.text) \in Seq(PlainBlocks)
    BY <2>1, <2>2, ContentBlocksAre, Zenon
  <2>4. BlankMark \in AllPieces
    BY MarkFacts
  <2>5. PICK c, id : c = ContentBlocks("text", r.text) /\ id = r.id
    OBVIOUS
  <2>6. ContentBlock("tool_result", BlankMark, id, c) \in Blocks
    BY <2>1, <2>3, <2>4, <2>5 DEF ContentBlock, Blocks, Kinds
  <2>7. QED
    BY <2>5, <2>6, Zenon
<1>2. ASSUME NEW id \in TurnMarks PROVE ContentBlock("tool_use", BlankMark, id, <<>>) \in Blocks
  <2>1. BlankMark \in AllPieces /\ id \in AllPieces /\ <<>> \in Seq(PlainBlocks)
    BY MarkFacts, NoneType
  <2>2. QED
    BY <2>1 DEF ContentBlock, Blocks, Kinds
<1>3. ASSUME NEW r \in Results PROVE ResultBlock[r] \in Seq(Blocks)
  BY <1>1, OneType DEF ResultBlock
<1>4. ASSUME NEW id \in TurnMarks PROVE UseBlock[id] \in Seq(Blocks)
  BY <1>2, OneType DEF UseBlock
<1>5. QED
  BY <1>1, <1>2, <1>3, <1>4 DEF Spreads

LEMMA EachResultBlock ==
  ASSUME NEW t \in Turns
  PROVE  LET result(r) == ContentBlock("tool_result", BlankMark, r.id, ContentBlocks("text", r.text))
             use(id) == ContentBlock("tool_use", BlankMark, id, <<>>)
         IN  Each(t.results, result) = Spread(ResultBlock, t.results) /\ Each(t.calls, use) = Spread(UseBlock, t.calls)
<1> DEFINE E == [i \in DOMAIN t.results |->
                   ContentBlock("tool_result", BlankMark, t.results[i].id, ContentBlocks("text", t.results[i].text))]
           D == [i \in DOMAIN t.calls |-> ContentBlock("tool_use", BlankMark, t.calls[i], <<>>)]
<1>1. t.results \in Seq(Results) /\ t.calls \in Seq(TurnMarks)
  BY TurnTypes
<1>2. OneEach(ResultBlock, Results) /\ OneEach(UseBlock, TurnMarks)
  BY DEF OneEach, ResultBlock, UseBlock
<1>3. FollowsOne(E, ResultBlock, t.results, Results) /\ FollowsOne(D, UseBlock, t.calls, TurnMarks)
  BY DEF FollowsOne, ResultBlock, UseBlock
<1>4. E = Spread(ResultBlock, t.results)
  <2> HIDE DEF E
  <2>1. QED
    BY <1>1, <1>2, <1>3, EachIsSpread, Zenon
<1>5. D = Spread(UseBlock, t.calls)
  <2> HIDE DEF D
  <2>1. QED
    BY <1>1, <1>2, <1>3, EachIsSpread, Zenon
<1>6. QED
  BY <1>4, <1>5 DEF Each

(* Plain blocks are blocks; a list of values keeps none of another kind.   *)
LEMMA PlainSeq == ASSUME NEW s \in Seq(PlainBlocks) PROVE s \in Seq(Blocks)
BY PlainAreBlocks, SeqMonotonic

(* Nothing joined is nothing added.                                        *)
Nones(s) == s \o <<>> = s /\ <<>> \o s = s /\ <<>> \o <<>> = <<>>

LEMMA NonesOf == ASSUME NEW S, NEW s \in Seq(S) PROVE Nones(s)
BY EmptyList DEF IsList, Nones

(* What is taken of the blocks for results and calls.                      *)
LEMMA ResultBlockPasses ==
  ASSUME NEW types, NEW type
  PROVE  /\ type # "tool_result" => Cancels(ResultBlock, MarksOf(type), Results)
         /\ type # "tool_use" => Cancels(UseBlock, MarksOf(type), TurnMarks)
         /\ "tool_result" \notin types => Cancels(ResultBlock, BlocksOf(types), Results)
         /\ "tool_use" \notin types => Cancels(UseBlock, BlocksOf(types), TurnMarks)
         /\ "tool_result" \in types => Composes(ResultBlock, BlocksOf(types), ResultBlock, Results)
         /\ "tool_use" \in types => Composes(UseBlock, BlocksOf(types), UseBlock, TurnMarks)
<1>1. ASSUME NEW r \in Results
      PROVE  /\ type # "tool_result" => Spread(MarksOf(type), ResultBlock[r]) = <<>>
             /\ Spread(BlocksOf(types), ResultBlock[r]) = IF "tool_result" \in types THEN ResultBlock[r] ELSE <<>>
  <2> DEFINE b == ContentBlock("tool_result", BlankMark, r.id, ContentBlocks("text", r.text))
  <2>1. ResultBlock[r] = <<b>>
    BY DEF ResultBlock
  <2>2. b \in Blocks
    BY AnthropicBlocks
  <2>3. b.type = "tool_result" /\ b.mark = BlankMark
    BY DEF ContentBlock
  <2> HIDE DEF b
  <2>4. MarksOf(type)[b] = <<>> /\ BlocksOf(types)[b] = IF "tool_result" \in types THEN <<b>> ELSE <<>>
    BY <2>2, <2>3 DEF MarksOf, BlocksOf
  <2>5. Spread(MarksOf(type), <<b>>) = MarksOf(type)[b]
    BY <2>2, BlockSpreads, SpreadOne, Zenon
  <2>6. Spread(BlocksOf(types), <<b>>) = BlocksOf(types)[b]
    BY <2>2, BlockSpreads, SpreadOne, Zenon
  <2>7. QED
    BY <2>1, <2>4, <2>5, <2>6, Zenon
<1>2. ASSUME NEW r \in TurnMarks
      PROVE  /\ type # "tool_use" => Spread(MarksOf(type), UseBlock[r]) = <<>>
             /\ Spread(BlocksOf(types), UseBlock[r]) = IF "tool_use" \in types THEN UseBlock[r] ELSE <<>>
  <2> DEFINE b == ContentBlock("tool_use", BlankMark, r, <<>>)
  <2>1. UseBlock[r] = <<b>>
    BY DEF UseBlock
  <2>2. b \in Blocks
    BY AnthropicBlocks
  <2>3. b.type = "tool_use" /\ b.mark = BlankMark
    BY DEF ContentBlock
  <2> HIDE DEF b
  <2>4. MarksOf(type)[b] = <<>> /\ BlocksOf(types)[b] = IF "tool_use" \in types THEN <<b>> ELSE <<>>
    BY <2>2, <2>3 DEF MarksOf, BlocksOf
  <2>5. Spread(MarksOf(type), <<b>>) = MarksOf(type)[b]
    BY <2>2, BlockSpreads, SpreadOne, Zenon
  <2>6. Spread(BlocksOf(types), <<b>>) = BlocksOf(types)[b]
    BY <2>2, BlockSpreads, SpreadOne, Zenon
  <2>7. QED
    BY <2>1, <2>4, <2>5, <2>6, Zenon
<1>3. QED
  BY <1>1, <1>2, Zenon DEF Cancels, Composes

(* What is extracted from blocks of results and calls.                     *)
LEMMA AnthropicPasses ==
  ASSUME NEW r \in Seq(Results), NEW c \in Seq(TurnMarks), NEW type \in {"text", "image"}
  PROVE  /\ Spread(MarksOf(type), Spread(ResultBlock, r)) = <<>> /\ Spread(MarksOf(type), Spread(UseBlock, c)) = <<>>
         /\ Spread(BlocksOf({"tool_result"}), Spread(ResultBlock, r)) = Spread(ResultBlock, r)
         /\ Spread(BlocksOf({"tool_use"}), Spread(ResultBlock, r)) = <<>>
         /\ Spread(BlocksOf({"tool_result"}), Spread(UseBlock, c)) = <<>>
         /\ Spread(BlocksOf({"tool_use"}), Spread(UseBlock, c)) = Spread(UseBlock, c)
<1> DEFINE tr == {"tool_result"}
           tu == {"tool_use"}
<1>1. /\ Cancels(ResultBlock, MarksOf(type), Results) /\ Cancels(UseBlock, MarksOf(type), TurnMarks)
      /\ Composes(ResultBlock, BlocksOf(tr), ResultBlock, Results) /\ Cancels(ResultBlock, BlocksOf(tu), Results)
      /\ Cancels(UseBlock, BlocksOf(tr), TurnMarks) /\ Composes(UseBlock, BlocksOf(tu), UseBlock, TurnMarks)
  <2>1. type # "tool_result" /\ type # "tool_use" /\ "tool_result" \in tr /\ "tool_use" \in tu
        /\ "tool_result" \notin tu /\ "tool_use" \notin tr
    OBVIOUS
  <2> HIDE DEF tr, tu
  <2>2. QED
    BY <2>1, ResultBlockPasses
<1>2. Spreads(ResultBlock, Results, Blocks) /\ Spreads(UseBlock, TurnMarks, Blocks)
  BY AnthropicBlocks
<1> HIDE DEF tr, tu
<1>3. /\ Spreads(MarksOf(type), Blocks, AllMarks) /\ Spreads(BlocksOf(tr), Blocks, Blocks)
      /\ Spreads(BlocksOf(tu), Blocks, Blocks)
  BY BlockSpreads
<1>4. Gives(ResultBlock, MarksOf(type), r, <<>>)
  BY <1>1, <1>2, <1>3, SpreadCancelled, Zenon
<1>5. Gives(UseBlock, MarksOf(type), c, <<>>)
  BY <1>1, <1>2, <1>3, SpreadCancelled, Zenon
<1>6. Gives(ResultBlock, BlocksOf(tr), r, Spread(ResultBlock, r))
  BY <1>1, <1>2, <1>3, SpreadComposed, Zenon
<1>7. Gives(ResultBlock, BlocksOf(tu), r, <<>>)
  BY <1>1, <1>2, <1>3, SpreadCancelled, Zenon
<1>8. Gives(UseBlock, BlocksOf(tr), c, <<>>)
  BY <1>1, <1>2, <1>3, SpreadCancelled, Zenon
<1>9. Gives(UseBlock, BlocksOf(tu), c, Spread(UseBlock, c))
  BY <1>1, <1>2, <1>3, SpreadComposed, Zenon
<1>10. QED
  BY <1>4, <1>5, <1>6, <1>7, <1>8, <1>9, Zenon DEF Gives, tr, tu

(* The content of an Anthropic message.                                    *)
AnthropicContent(t) ==
  ((Spread(ResultBlock, t.results) \o ContentBlocks("text", t.texts)) \o ContentBlocks("image", t.images))
    \o Spread(UseBlock, t.calls)

(* The wire message of a turn, and what each extraction takes from it:     *)
(* texts, images, results and calls, each whole.                           *)
LEMMA AnthropicContentIs ==
  ASSUME NEW t \in Turns
  PROVE  AnthropicMessage(t) = Wire(t.who, AnthropicContent(t), <<>>, <<>>)
BY EachResultBlock, Zenon DEF AnthropicMessage, AnthropicContent

LEMMA AnthropicTakes ==
  ASSUME NEW t \in Turns
  PROVE  LET c == AnthropicContent(t)
         IN  /\ extractText(c) = NonBlank(t.texts) /\ extractImages(c, "image") = NonBlank(t.images)
             /\ OfType(c, {"tool_result"}) = Spread(ResultBlock, t.results)
             /\ OfType(c, {"tool_use"}) = Spread(UseBlock, t.calls)
<1> DEFINE A == Spread(ResultBlock, t.results)
           B == ContentBlocks("text", t.texts)
           C == ContentBlocks("image", t.images)
           D == Spread(UseBlock, t.calls)
           c == ((A \o B) \o C) \o D
           tr == {"tool_result"}
           tu == {"tool_use"}
<1>1. t.results \in Seq(Results) /\ t.calls \in Seq(TurnMarks) /\ t.texts \in Seq(AllPieces) /\ t.images \in Seq(AllPieces)
      /\ t.texts \in Seq(TurnPieces) /\ t.images \in Seq(TurnPieces)
  BY TurnTypes
<1>2. "text" \in Kinds /\ "image" \in Kinds /\ "text" \in {"text", "image"} /\ "image" \in {"text", "image"}
      /\ "text" # "image" /\ "image" # "text" /\ "text" \notin tr /\ "image" \notin tr /\ "text" \notin tu /\ "image" \notin tu
  BY DEF Kinds
<1>3. A \in Seq(Blocks) /\ D \in Seq(Blocks)
  BY <1>1, AnthropicBlocks, SpreadType, Zenon
<1>4. B \in Seq(Blocks) /\ C \in Seq(Blocks)
  BY <1>1, <1>2, ContentBlocksAre, Zenon
<1>5. /\ Spread(MarksOf("text"), A) = <<>> /\ Spread(MarksOf("text"), D) = <<>>
      /\ Spread(MarksOf("image"), A) = <<>> /\ Spread(MarksOf("image"), D) = <<>>
      /\ Spread(BlocksOf(tr), A) = A /\ Spread(BlocksOf(tu), A) = <<>>
      /\ Spread(BlocksOf(tr), D) = <<>> /\ Spread(BlocksOf(tu), D) = D
  BY <1>1, <1>2, AnthropicPasses, Zenon
<1>6. /\ Spread(MarksOf("text"), B) = NonBlank(t.texts) /\ Spread(MarksOf("image"), C) = NonBlank(t.images)
  BY <1>1, <1>2, MarksOfBlocks, Zenon
<1>7. /\ Spread(MarksOf("text"), C) = <<>> /\ Spread(MarksOf("image"), B) = <<>>
  BY <1>1, <1>2, NoMarksOfBlocks, Zenon
<1> HIDE DEF tr, tu
<1>8. /\ Spread(BlocksOf(tr), B) = <<>> /\ Spread(BlocksOf(tr), C) = <<>>
      /\ Spread(BlocksOf(tu), B) = <<>> /\ Spread(BlocksOf(tu), C) = <<>>
  BY <1>1, <1>2, NoBlocksOfBlocks, Zenon
<1> HIDE DEF A, B, C, D
<1>9. c \in Seq(Blocks)
  BY <1>3, <1>4, JoinType, Zenon
<1>10. Nones(NonBlank(t.texts)) /\ Nones(NonBlank(t.images)) /\ Nones(A) /\ Nones(D)
  BY <1>1, <1>3, NonBlankType, NonesOf, Zenon
<1>11. ASSUME NEW G, NEW T, Spreads(G, Blocks, T)
       PROVE  Spread(G, c) = ((Spread(G, A) \o Spread(G, B)) \o Spread(G, C)) \o Spread(G, D)
  <2>1. SplitsInFour(G, A, B, C, D)
    BY <1>3, <1>4, <1>11, SpreadJoinFour, Zenon
  <2>2. QED
    BY <2>1, Zenon DEF SplitsInFour
<1>12. /\ Spreads(MarksOf("text"), Blocks, AllMarks) /\ Spreads(MarksOf("image"), Blocks, AllMarks)
       /\ Spreads(BlocksOf(tr), Blocks, Blocks) /\ Spreads(BlocksOf(tu), Blocks, Blocks)
  BY BlockSpreads
<1> HIDE DEF c
<1>13. Spread(MarksOf("text"), c) = NonBlank(t.texts)
  <2>1. Spread(MarksOf("text"), c) = ((<<>> \o NonBlank(t.texts)) \o <<>>) \o <<>>
    BY <1>5, <1>6, <1>7, <1>11, <1>12, Zenon
  <2>2. QED
    BY <2>1, <1>10, Zenon DEF Nones
<1>14. Spread(MarksOf("image"), c) = NonBlank(t.images)
  <2>1. Spread(MarksOf("image"), c) = ((<<>> \o <<>>) \o NonBlank(t.images)) \o <<>>
    BY <1>5, <1>6, <1>7, <1>11, <1>12, Zenon
  <2>2. QED
    BY <2>1, <1>10, Zenon DEF Nones
<1>15. Spread(BlocksOf(tr), c) = A
  <2>1. Spread(BlocksOf(tr), c) = ((A \o <<>>) \o <<>>) \o <<>>
    BY <1>5, <1>8, <1>11, <1>12, Zenon
  <2>2. QED
    BY <2>1, <1>10, Zenon DEF Nones
<1>16. Spread(BlocksOf(tu), c) = D
  <2>1. Spread(BlocksOf(tu), c) = ((<<>> \o <<>>) \o <<>>) \o D
    BY <1>5, <1>8, <1>11, <1>12, Zenon
  <2>2. QED
    BY <2>1, <1>10, Zenon DEF Nones
<1>17. extractText(c) = NonBlank(t.texts)
  BY <1>9, <1>13, TextIs, Zenon
<1>18. extractImages(c, "image") = NonBlank(t.images)
  BY <1>9, <1>14, ImagesAre, Zenon
<1>19. OfType(c, tr) = A /\ OfType(c, tu) = D
  BY <1>9, <1>15, <1>16, OfTypeIs, Zenon
<1>20. AnthropicContent(t) = c
  BY Zenon DEF c, A, B, C, D, AnthropicContent
<1>21. QED
  BY <1>17, <1>18, <1>19, <1>20, Zenon DEF tr, tu, A, D

(* The results of an Anthropic message, and its calls.                     *)
ResultMessage == [b \in Blocks |->
  Unless(extractText(b.content) = <<>>, Message("tool", extractText(b.content), <<>>, b.id, <<>>))]
(* The id of a block.                                                      *)
IdOf == [b \in Blocks |-> <<b.id>>]

(* Types of what is extracted.                                             *)
LEMMA TextType == ASSUME NEW s \in Seq(Blocks) PROVE extractText(s) \in Seq(AllMarks)
BY TextIs, BlockSpreads, SpreadType, Zenon

LEMMA ImagesType == ASSUME NEW s \in Seq(Blocks), NEW type PROVE extractImages(s, type) \in Seq(AllMarks)
<1>1. Spreads(MarksOf(type), Blocks, AllMarks)
  BY BlockSpreads
<1>2. Spread(MarksOf(type), s) \in Seq(AllMarks)
  BY <1>1, SpreadType, Zenon
<1>3. QED
  BY <1>2, ImagesAre

(* A message from its fields.                                              *)
LEMMA AnyMessage ==
  ASSUME NEW role \in Roles, NEW text \in Seq(AllMarks), NEW images \in Seq(AllMarks), NEW id \in AllPieces,
         NEW calls \in Seq(AllMarks)
  PROVE  Message(role, text, images, id, calls) \in AllMessages
BY DEF Message, AllMessages

(* The roles.                                                              *)
LEMMA RolesAre ==
  "user" \in Roles /\ "tool" \in Roles /\ "assistant" \in Roles /\ "system" \in Roles
  /\ "function_call" \in Roles /\ "function_call_output" \in Roles
BY DEF Roles

(* The message a block of a result becomes is the part of the result; the  *)
(* ids of the calls' blocks are the calls.                                 *)
LEMMA ResultMessageType == Spreads(ResultMessage, Blocks, AllMessages) /\ Spreads(IdOf, Blocks, AllPieces)
<1>1. ASSUME NEW b \in Blocks PROVE ResultMessage[b] \in Seq(AllMessages)
  <2> DEFINE x == extractText(b.content)
             m == Message("tool", x, <<>>, b.id, <<>>)
  <2>1. b.content \in Seq(PlainBlocks) /\ b.id \in AllPieces
    BY DEF Blocks
  <2>2. x \in Seq(AllMarks)
    BY <2>1, PlainSeq, TextType
  <2>3. m \in AllMessages
    <3> HIDE DEF x
    <3>1. QED
      BY <2>1, <2>2, NoneType, RolesAre, AnyMessage
  <2> HIDE DEF m
  <2>4. Unless(x = <<>>, m) \in Seq(AllMessages)
    <3> HIDE DEF x
    <3>1. QED
      BY <2>3, UnlessType
  <2>5. QED
    BY <2>4 DEF m, ResultMessage
<1>2. ASSUME NEW b \in Blocks PROVE IdOf[b] \in Seq(AllPieces)
  <2>1. b.id \in AllPieces
    BY DEF Blocks
  <2>2. QED
    BY <2>1, OneType DEF IdOf
<1>3. QED
  BY <1>1, <1>2 DEF Spreads

LEMMA ResultPasses == Composes(ResultBlock, ResultMessage, ToolPart, Results) /\ Restores(UseBlock, IdOf, TurnMarks)
<1>1. ASSUME NEW r \in Results PROVE Spread(ResultMessage, ResultBlock[r]) = ToolPart[r]
  <2> DEFINE y == ContentBlocks("text", r.text)
             b == ContentBlock("tool_result", BlankMark, r.id, y)
  <2>1. ResultBlock[r] = <<b>>
    BY DEF ResultBlock
  <2>2. b \in Blocks
    BY AnthropicBlocks
  <2>3. b.content = y /\ b.id = r.id
    BY DEF ContentBlock
  <2>4. Spread(ResultMessage, <<b>>) = ResultMessage[b]
    BY <2>2, ResultMessageType, SpreadOne, Zenon
  <2>5. "text" \in Kinds /\ r.text \in Seq(AllPieces)
    BY ResultTypes DEF Kinds
  <2>6. y \in Seq(Blocks)
    BY <2>5, ContentBlocksAre
  <2>7. Spread(MarksOf("text"), y) = NonBlank(r.text)
    BY <2>5, MarksOfBlocks, Zenon
  <2>8. extractText(y) = NonBlank(r.text)
    BY <2>6, <2>7, TextIs, Zenon
  <2> HIDE DEF b, y
  <2>9. ResultMessage[b] = ToolPart[r]
    BY <2>2, <2>3, <2>8, Zenon DEF ResultMessage, ToolPart
  <2>10. QED
    BY <2>1, <2>4, <2>9, Zenon
<1>2. ASSUME NEW id \in TurnMarks PROVE Spread(IdOf, UseBlock[id]) = <<id>>
  <2> DEFINE b == ContentBlock("tool_use", BlankMark, id, <<>>)
  <2>1. UseBlock[id] = <<b>>
    BY DEF UseBlock
  <2>2. b \in Blocks
    BY AnthropicBlocks
  <2>3. b.id = id
    BY DEF ContentBlock
  <2> HIDE DEF b
  <2>4. Spread(IdOf, <<b>>) = IdOf[b]
    BY <2>2, ResultMessageType, SpreadOne, Zenon
  <2>5. IdOf[b] = <<id>>
    BY <2>2, <2>3, Zenon DEF IdOf
  <2>6. QED
    BY <2>1, <2>4, <2>5, Zenon
<1>3. QED
  BY <1>1, <1>2, Zenon DEF Composes, Restores

(* A turn in Anthropic's format becomes its parts,                         *)
LEMMA AnthropicParts ==
  ASSUME NEW t \in Turns
  PROVE  LET w == AnthropicMessage(t)
         IN  /\ w.role = t.who
             /\ t.who = "user" => extractAnthropicUserContent(w) = PartsOf("anthropic")[t]
             /\ t.who = "assistant" => extractAnthropicAssistantContent(w) = PartsOf("anthropic")[t]
<1> DEFINE w == AnthropicMessage(t)
           c == AnthropicContent(t)
           A == Spread(ResultBlock, t.results)
           D == Spread(UseBlock, t.calls)
           E == [i \in DOMAIN A |->
                  Unless(extractText(A[i].content) = <<>>, Message("tool", extractText(A[i].content), <<>>, A[i].id, <<>>))]
           I == [i \in DOMAIN D |-> D[i].id]
<1>1. w.role = t.who /\ w.content = c
  BY AnthropicContentIs DEF Wire
<1>2. /\ extractText(c) = NonBlank(t.texts) /\ extractImages(c, "image") = NonBlank(t.images)
      /\ OfType(c, {"tool_result"}) = A /\ OfType(c, {"tool_use"}) = D
  BY AnthropicTakes, Zenon
<1>3. t.results \in Seq(Results) /\ t.calls \in Seq(TurnMarks)
  BY TurnTypes
<1>4. A \in Seq(Blocks) /\ D \in Seq(Blocks)
  BY <1>3, AnthropicBlocks, SpreadType, Zenon
<1>5. Gives(ResultBlock, ResultMessage, t.results, Spread(ToolPart, t.results))
  BY <1>3, AnthropicBlocks, ResultMessageType, ResultPasses, SpreadComposed, Zenon
<1>6. Gives(UseBlock, IdOf, t.calls, t.calls)
  BY <1>3, AnthropicBlocks, ResultMessageType, ResultPasses, SpreadRestored, Zenon
<1> HIDE DEF w, c
<1>7. FlattenSeq(E) = Spread(ToolPart, t.results)
  <2>1. Spread(ResultMessage, A) = Spread(ToolPart, t.results)
    BY <1>5, Zenon DEF Gives
  <2> HIDE DEF A
  <2>2. Follows(E, ResultMessage, A, Blocks)
    BY DEF Follows, ResultMessage
  <2> HIDE DEF E
  <2>3. FlattenSeq(E) = Spread(ResultMessage, A)
    BY <1>4, <2>2, SpreadFollows, Zenon
  <2>4. QED
    BY <2>1, <2>3, Zenon
<1>8. I = t.calls
  <2>1. Spread(IdOf, D) = t.calls
    BY <1>6, Zenon DEF Gives
  <2>2. OneEach(IdOf, Blocks)
    BY DEF OneEach, IdOf
  <2> HIDE DEF D
  <2>3. FollowsOne(I, IdOf, D, Blocks)
    BY DEF FollowsOne, IdOf
  <2> HIDE DEF I
  <2>4. I = Spread(IdOf, D)
    BY <1>4, <2>2, <2>3, EachIsSpread, Zenon
  <2>5. QED
    BY <2>1, <2>4, Zenon
<1>9. extractAnthropicUserContent(w) = UserPart(t) \o FlattenSeq(E)
  <2> HIDE DEF A
  <2>1. QED
    BY <1>1, <1>2, Zenon DEF extractAnthropicUserContent, UserPart, Each
<1>10. extractAnthropicAssistantContent(w) = AnswerPart(t)
  <2>1. Each(OfType(w.content, {"tool_use"}), LAMBDA b : b.id) = t.calls
    <3> HIDE DEF D
    <3>1. QED
      BY <1>1, <1>2, <1>8, Zenon DEF Each
  <2>2. QED
    BY <1>1, <1>2, <2>1, Zenon DEF extractAnthropicAssistantContent, AnswerPart
<1>11. PartsOf("anthropic")[t] = IF t.who = "user" THEN UserPart(t) \o Spread(ToolPart, t.results) ELSE AnswerPart(t)
  BY DEF PartsOf
<1>12. "user" # "assistant"
  OBVIOUS
<1>13. QED
  BY <1>1, <1>7, <1>9, <1>10, <1>11, <1>12, Zenon DEF w

(* and a conversation the spread of them.                                  *)
LEMMA AnthropicIs ==
  ASSUME NEW s \in Seq(Turns)
  PROVE  normalizeAnthropicRequest(Each(s, AnthropicMessage)) = Spread(PartsOf("anthropic"), s)
<1> DEFINE N(m) == CASE m.role = "user" -> extractAnthropicUserContent(m)
                     [] m.role = "assistant" -> extractAnthropicAssistantContent(m)
                     [] OTHER -> <<>>
           E == [i \in DOMAIN s |-> N(AnthropicMessage(s[i]))]
<1>1. ASSUME NEW t \in Turns PROVE N(AnthropicMessage(t)) = PartsOf("anthropic")[t]
  <2>1. (t.who = "user" \/ t.who = "assistant") /\ "user" # "assistant"
    BY TurnTypes
  <2>2. AnthropicMessage(t).role = t.who
    BY AnthropicParts
  <2>3. CASE t.who = "user"
    BY <2>2, <2>3, AnthropicParts
  <2>4. CASE t.who = "assistant"
    BY <2>2, <2>4, AnthropicParts
  <2>5. QED
    BY <2>1, <2>3, <2>4
<1> HIDE DEF N
<1>2. Follows(E, PartsOf("anthropic"), s, Turns)
  BY <1>1, Zenon DEF Follows
<1>3. FlattenSeq(E) = Spread(PartsOf("anthropic"), s)
  <2> HIDE DEF E
  <2>1. QED
    BY <1>2, SpreadFollows, Zenon
<1>4. normalizeAnthropicRequest(Each(s, AnthropicMessage)) = FlattenSeq(E)
  BY DEF normalizeAnthropicRequest, Each, N
<1>5. QED
  BY <1>3, <1>4, Zenon

(* The OpenAI format.                                                      *)
Wires == [role : Roles, content : Seq(Blocks), id : AllPieces, calls : Seq(TurnMarks)]

(* What a wire message of OpenAI's format becomes.                         *)
OpenAIPart == [m \in Wires |->
  IF m.role = "user"
  THEN Unless(extractText(m.content) = <<>> /\ extractImages(m.content, "image_url") = <<>>,
              Message("user", extractText(m.content), extractImages(m.content, "image_url"), <<>>, <<>>))
  ELSE IF m.role = "assistant"
  THEN Unless(extractText(m.content) = <<>> /\ m.calls = <<>>,
              Message("assistant", extractText(m.content), <<>>, <<>>, m.calls))
  ELSE IF m.role = "tool"
  THEN Unless(extractText(m.content) = <<>> \/ m.id = <<>>, Message("tool", extractText(m.content), <<>>, m.id, <<>>))
  ELSE <<>>]

(* Types of these.                                                         *)
LEMMA CallsType == ASSUME NEW s \in Seq(TurnMarks) PROVE s \in Seq(AllMarks)
BY MarkFacts, SeqMonotonic

LEMMA OpenAIPartType == Spreads(OpenAIPart, Wires, AllMessages)
<1> SUFFICES ASSUME NEW m \in Wires PROVE OpenAIPart[m] \in Seq(AllMessages)
  BY DEF Spreads
<1> DEFINE x == extractText(m.content)
           y == extractImages(m.content, "image_url")
           u == Message("user", x, y, <<>>, <<>>)
           a == Message("assistant", x, <<>>, <<>>, m.calls)
           l == Message("tool", x, <<>>, m.id, <<>>)
<1>1. m.content \in Seq(Blocks) /\ m.calls \in Seq(AllMarks) /\ m.id \in AllPieces
  BY CallsType DEF Wires
<1>2. x \in Seq(AllMarks) /\ y \in Seq(AllMarks)
  BY <1>1, TextType, ImagesType, Zenon
<1> HIDE DEF x, y
<1>3. <<>> \in Seq(AllMarks) /\ <<>> \in AllPieces
  BY NoneType, MarkFacts DEF BlankMark
<1>4. u \in AllMessages /\ a \in AllMessages /\ l \in AllMessages
  BY <1>1, <1>2, <1>3, RolesAre, AnyMessage
<1> HIDE DEF u, a, l
<1>5. /\ Unless(x = <<>> /\ y = <<>>, u) \in Seq(AllMessages)
      /\ Unless(x = <<>> /\ m.calls = <<>>, a) \in Seq(AllMessages)
      /\ Unless(x = <<>> \/ m.id = <<>>, l) \in Seq(AllMessages)
  BY <1>4, UnlessType
<1>6. <<>> \in Seq(AllMessages)
  BY NoneType
<1>7. OpenAIPart[m] = IF m.role = "user" THEN Unless(x = <<>> /\ y = <<>>, u)
                      ELSE IF m.role = "assistant" THEN Unless(x = <<>> /\ m.calls = <<>>, a)
                      ELSE IF m.role = "tool" THEN Unless(x = <<>> \/ m.id = <<>>, l)
                      ELSE <<>>
  BY DEF OpenAIPart, x, y, u, a, l
<1>8. QED
  BY <1>5, <1>6, <1>7, Zenon

(* The request is the spread of the wire messages.                         *)
LEMMA OpenAIIs ==
  ASSUME NEW s \in Seq(Wires)
  PROVE  normalizeOpenAIRequest(s) = Spread(OpenAIPart, s)
<1> DEFINE N(m) ==
             LET text == extractText(m.content)
                 images == extractImages(m.content, "image_url")
             IN  CASE m.role = "user" ->
                        Unless(text = <<>> /\ images = <<>>, Message("user", text, images, <<>>, <<>>))
                   [] m.role = "assistant" ->
                        Unless(text = <<>> /\ m.calls = <<>>, Message("assistant", text, <<>>, <<>>, m.calls))
                   [] m.role = "tool" ->
                        Unless(text = <<>> \/ m.id = <<>>, Message("tool", text, <<>>, m.id, <<>>))
                   [] OTHER -> <<>>
           E == [i \in DOMAIN s |-> N(s[i])]
<1>1. ASSUME NEW m \in Wires PROVE N(m) = OpenAIPart[m]
  <2>1. CASE m.role = "user"
    BY <2>1 DEF OpenAIPart
  <2>2. CASE m.role = "assistant"
    BY <2>2 DEF OpenAIPart
  <2>3. CASE m.role = "tool"
    BY <2>3 DEF OpenAIPart
  <2>4. CASE m.role \notin {"user", "assistant", "tool"}
    BY <2>4 DEF OpenAIPart
  <2>5. QED
    BY <2>1, <2>2, <2>3, <2>4
<1>2. normalizeOpenAIRequest(s) = FlattenSeq(E)
  BY DEF normalizeOpenAIRequest, Each
<1> HIDE DEF N
<1>3. Follows(E, OpenAIPart, s, Wires)
  BY <1>1, Zenon DEF Follows
<1>4. FlattenSeq(E) = Spread(OpenAIPart, s)
  <2> HIDE DEF E
  <2>1. QED
    BY <1>3, SpreadFollows, Zenon
<1>5. QED
  BY <1>2, <1>4, Zenon

(* A wire message from its fields.                                         *)
LEMMA WireType ==
  ASSUME NEW role \in Roles, NEW content \in Seq(Blocks), NEW id \in AllPieces, NEW calls \in Seq(TurnMarks)
  PROVE  Wire(role, content, id, calls) \in Wires
BY DEF Wire, Wires

(* Texts and images in one content.                                        *)
TwoInOne(c, tx, x, ty, y) ==
  c \in Seq(Blocks) /\ Spread(MarksOf(tx), c) = NonBlank(x) /\ Spread(MarksOf(ty), c) = NonBlank(y)

(* Content of two types of blocks gives back each.                         *)
LEMMA ContentTakes ==
  ASSUME NEW x \in Seq(AllPieces), NEW y \in Seq(AllPieces), NEW tx \in Kinds, NEW ty \in Kinds, tx # ty
  PROVE  TwoInOne(ContentBlocks(tx, x) \o ContentBlocks(ty, y), tx, x, ty, y)
<1> DEFINE A == ContentBlocks(tx, x)
           B == ContentBlocks(ty, y)
<1>1. A \in Seq(Blocks) /\ B \in Seq(Blocks)
  BY ContentBlocksAre, Zenon
<1>2. Spread(MarksOf(tx), A) = NonBlank(x) /\ Spread(MarksOf(ty), B) = NonBlank(y)
  BY MarksOfBlocks, Zenon
<1>3. Spread(MarksOf(ty), A) = <<>> /\ Spread(MarksOf(tx), B) = <<>>
  BY NoMarksOfBlocks, Zenon
<1> HIDE DEF A, B
<1>4. A \o B \in Seq(Blocks)
  BY <1>1, JoinType, Zenon
<1>5. SpreadSplits(MarksOf(tx), A, B) /\ SpreadSplits(MarksOf(ty), A, B)
  BY <1>1, BlockSpreads, SpreadJoin, Zenon
<1>6. Spread(MarksOf(tx), A) \in Seq(AllMarks) /\ Spread(MarksOf(ty), B) \in Seq(AllMarks)
  BY <1>1, BlockSpreads, SpreadType, Zenon
<1>7. Nones(Spread(MarksOf(tx), A)) /\ Nones(Spread(MarksOf(ty), B))
  BY <1>6, NonesOf, Zenon
<1>8. Spread(MarksOf(tx), A \o B) = NonBlank(x)
  BY <1>2, <1>3, <1>5, <1>7, Zenon DEF SpreadSplits, Nones
<1>9. Spread(MarksOf(ty), A \o B) = NonBlank(y)
  BY <1>2, <1>3, <1>5, <1>7, Zenon DEF SpreadSplits, Nones
<1>10. QED
  BY <1>4, <1>8, <1>9, Zenon DEF A, B, TwoInOne

(* The wire message of a result.                                           *)
OutputWire(role) == [r \in Results |-> <<Wire(role, ContentBlocks("text", r.text), r.id, <<>>)>>]

(* Its text, its type and what it becomes.                                 *)
LEMMA ResultContent ==
  ASSUME NEW r \in Results
  PROVE  ContentBlocks("text", r.text) \in Seq(Blocks) /\ extractText(ContentBlocks("text", r.text)) = NonBlank(r.text)
<1>1. "text" \in Kinds /\ r.text \in Seq(AllPieces)
  BY ResultTypes DEF Kinds
<1>2. ContentBlocks("text", r.text) \in Seq(Blocks)
  BY <1>1, ContentBlocksAre, Zenon
<1>3. Spread(MarksOf("text"), ContentBlocks("text", r.text)) = NonBlank(r.text)
  BY <1>1, MarksOfBlocks, Zenon
<1>4. QED
  BY <1>2, <1>3, TextIs, Zenon

LEMMA OutputWires ==
  ASSUME NEW role \in Roles
  PROVE  /\ \A r \in Results : Wire(role, ContentBlocks("text", r.text), r.id, <<>>) \in Wires
         /\ Spreads(OutputWire(role), Results, Wires)
<1>1. ASSUME NEW r \in Results PROVE Wire(role, ContentBlocks("text", r.text), r.id, <<>>) \in Wires
  <2>1. ContentBlocks("text", r.text) \in Seq(Blocks) /\ r.id \in AllPieces /\ <<>> \in Seq(TurnMarks)
    BY ResultContent, ResultTypes, NoneType
  <2>2. QED
    BY <2>1, WireType, Zenon
<1>2. \A r \in Results : OutputWire(role)[r] = <<Wire(role, ContentBlocks("text", r.text), r.id, <<>>)>>
  BY DEF OutputWire
<1>3. \A r \in Results : OutputWire(role)[r] \in Seq(Wires)
  BY <1>1, <1>2, OneType, Zenon
<1>4. QED
  BY <1>1, <1>3, Zenon DEF Spreads

LEMMA OutputParts == Composes(OutputWire("tool"), OpenAIPart, ToolPart, Results)
<1> SUFFICES ASSUME NEW r \in Results PROVE Spread(OpenAIPart, OutputWire("tool")[r]) = ToolPart[r]
  BY DEF Composes
<1> DEFINE c == ContentBlocks("text", r.text)
           w == Wire("tool", c, r.id, <<>>)
<1>1. OutputWire("tool")[r] = <<w>>
  BY DEF OutputWire
<1>2. w \in Wires
  BY RolesAre, OutputWires
<1>3. Spread(OpenAIPart, <<w>>) = OpenAIPart[w]
  BY <1>2, OpenAIPartType, SpreadOne, Zenon
<1>4. extractText(c) = NonBlank(r.text) /\ r.id # <<>>
  BY ResultContent, ResultTypes
<1>5. w.role = "tool" /\ w.content = c /\ w.id = r.id
  BY DEF Wire
<1> HIDE DEF w, c
<1>6. OpenAIPart[w] = Unless(NonBlank(r.text) = <<>> \/ r.id = <<>>, Message("tool", NonBlank(r.text), <<>>, r.id, <<>>))
  BY <1>2, <1>4, <1>5 DEF OpenAIPart
<1>7. OpenAIPart[w] = Unless(NonBlank(r.text) = <<>>, Message("tool", NonBlank(r.text), <<>>, r.id, <<>>))
  <2>1. (NonBlank(r.text) = <<>> \/ r.id = <<>>) <=> NonBlank(r.text) = <<>>
    BY <1>4
  <2>2. QED
    BY <1>6, <2>1, Zenon DEF Unless
<1>8. QED
  BY <1>1, <1>3, <1>7, Zenon DEF ToolPart

(* A user's or an assistant's message.                                     *)
LEMMA SpokenPart ==
  ASSUME NEW t \in Turns, NEW c \in Seq(Blocks), extractText(c) = NonBlank(t.texts),
         extractImages(c, "image_url") = NonBlank(t.images)
  PROVE  LET w == Wire(t.who, c, <<>>, t.calls)
         IN  w \in Wires /\ OpenAIPart[w] = IF t.who = "user" THEN UserPart(t) ELSE AnswerPart(t)
<1> DEFINE w == Wire(t.who, c, <<>>, t.calls)
<1>1. t.calls \in Seq(TurnMarks) /\ (t.who = "user" \/ t.who = "assistant")
  BY TurnTypes
<1>2. t.who \in Roles /\ <<>> \in AllPieces
  BY <1>1, RolesAre, MarkFacts DEF BlankMark
<1>3. w \in Wires
  BY <1>1, <1>2, WireType
<1>4. w.role = t.who /\ w.content = c /\ w.calls = t.calls
  BY DEF Wire
<1> HIDE DEF w
<1>5. t.who = "user" => OpenAIPart[w] = UserPart(t)
  BY <1>3, <1>4 DEF OpenAIPart, UserPart
<1>6. t.who = "assistant" => OpenAIPart[w] = AnswerPart(t)
  BY <1>3, <1>4 DEF OpenAIPart, AnswerPart
<1>7. "user" # "assistant"
  OBVIOUS
<1>8. QED
  BY <1>1, <1>3, <1>5, <1>6, <1>7, Zenon DEF w

(* Nothing is extracted from empty content.                                *)
LEMMA EmptyContent ==
  extractText(<<>>) = <<>> /\ \A type : extractImages(<<>>, type) = <<>>
<1>1. <<>> \in Seq(Blocks)
  BY NoneType
<1>2. extractText(<<>>) = Spread(MarksOf("text"), <<>>)
  BY <1>1, TextIs, Zenon
<1>3. \A type : extractImages(<<>>, type) = Spread(MarksOf(type), <<>>)
  BY <1>1, ImagesAre
<1>4. QED
  BY <1>2, <1>3, SpreadNone

(* The last wire message of a turn, with its words and calls, if any, and  *)
(* what it becomes.                                                        *)
OpenAILast(t) ==
  LET content == ContentBlocks("text", t.texts) \o ContentBlocks("image_url", t.images)
  IN  IF content = <<>> /\ t.calls = <<>> THEN <<>> ELSE <<Wire(t.who, content, <<>>, t.calls)>>

LEMMA OpenAILastIs ==
  ASSUME NEW t \in Turns
  PROVE  /\ OpenAILast(t) \in Seq(Wires)
         /\ Spread(OpenAIPart, OpenAILast(t)) = IF t.who = "user" THEN UserPart(t) ELSE AnswerPart(t)
<1> DEFINE c == ContentBlocks("text", t.texts) \o ContentBlocks("image_url", t.images)
           w == Wire(t.who, c, <<>>, t.calls)
           r == IF t.who = "user" THEN UserPart(t) ELSE AnswerPart(t)
<1>1. t.texts \in Seq(AllPieces) /\ t.images \in Seq(AllPieces) /\ (t.who = "user" => t.calls = <<>>)
      /\ (t.who = "user" \/ t.who = "assistant")
  BY TurnTypes
<1>2. "text" \in Kinds /\ "image_url" \in Kinds /\ "text" # "image_url"
  BY DEF Kinds
<1>3. c \in Seq(Blocks) /\ Spread(MarksOf("text"), c) = NonBlank(t.texts) /\ Spread(MarksOf("image_url"), c) = NonBlank(t.images)
  <2>1. TwoInOne(c, "text", t.texts, "image_url", t.images)
    BY <1>1, <1>2, ContentTakes, Zenon
  <2>2. QED
    BY <2>1, Zenon DEF TwoInOne
<1> HIDE DEF c
<1>4. extractText(c) = NonBlank(t.texts) /\ extractImages(c, "image_url") = NonBlank(t.images)
  BY <1>3, TextIs, ImagesAre, Zenon
<1>5. w \in Wires /\ OpenAIPart[w] = r
  BY <1>3, <1>4, SpokenPart, Zenon
<1>6. OpenAILast(t) = IF c = <<>> /\ t.calls = <<>> THEN <<>> ELSE <<w>>
  BY Zenon DEF OpenAILast, c
<1> HIDE DEF w
<1>7. CASE c = <<>> /\ t.calls = <<>>
  <2>1. OpenAILast(t) = <<>>
    BY <1>6, <1>7, Zenon
  <2>2. NonBlank(t.texts) = <<>> /\ NonBlank(t.images) = <<>>
    BY <1>4, <1>7, EmptyContent
  <2>3. r = <<>>
    BY <1>7, <2>2, Zenon DEF UserPart, AnswerPart, Unless
  <2>4. QED
    BY <2>1, <2>3, SpreadNone, NoneType, Zenon
<1>8. CASE ~(c = <<>> /\ t.calls = <<>>)
  <2>1. OpenAILast(t) = <<w>>
    BY <1>6, <1>8, Zenon
  <2>2. Spread(OpenAIPart, <<w>>) = OpenAIPart[w]
    BY <1>5, OpenAIPartType, SpreadOne, Zenon
  <2>3. QED
    BY <1>5, <2>1, <2>2, OneType, Zenon
<1>9. QED
  BY <1>7, <1>8, Zenon

(* A turn in OpenAI's format becomes its parts, and a conversation the     *)
(* spread of them.                                                         *)
OpenAIMessagesOf == [t \in Turns |-> OpenAIMessages(t)]

(* The wire messages of results, as a spread.                              *)
LEMMA OutputsAre ==
  ASSUME NEW role \in Roles, NEW s \in Seq(Results)
  PROVE  LET result(r) == Wire(role, ContentBlocks("text", r.text), r.id, <<>>)
         IN  Each(s, result) = Spread(OutputWire(role), s)
<1> DEFINE E == [i \in DOMAIN s |-> Wire(role, ContentBlocks("text", s[i].text), s[i].id, <<>>)]
<1>1. OneEach(OutputWire(role), Results)
  BY DEF OneEach, OutputWire
<1>2. FollowsOne(E, OutputWire(role), s, Results)
  BY DEF FollowsOne, OutputWire
<1>3. E = Spread(OutputWire(role), s)
  <2> HIDE DEF E
  <2>1. QED
    BY <1>1, <1>2, EachIsSpread, Zenon
<1>4. QED
  BY <1>3 DEF Each

LEMMA OpenAIParts ==
  ASSUME NEW t \in Turns
  PROVE  /\ OpenAIMessages(t) \in Seq(Wires)
         /\ Spread(OpenAIPart, OpenAIMessages(t)) = PartsOf("openai")[t]
<1> DEFINE A == Spread(OutputWire("tool"), t.results)
           B == OpenAILast(t)
           r == IF t.who = "user" THEN UserPart(t) ELSE AnswerPart(t)
           p == Spread(ToolPart, t.results)
<1>1. t.results \in Seq(Results) /\ (t.who = "user" \/ (t.who = "assistant" /\ t.results = <<>>)) /\ "user" # "assistant"
  BY TurnTypes
<1>2. OpenAIMessages(t) = A \o B
  BY <1>1, RolesAre, OutputsAre, Zenon DEF OpenAIMessages, OpenAILast
<1>3. Spreads(OutputWire("tool"), Results, Wires)
  BY RolesAre, OutputWires
<1>4. A \in Seq(Wires)
  BY <1>1, <1>3, SpreadType, Zenon
<1>5. B \in Seq(Wires) /\ Spread(OpenAIPart, B) = r
  BY OpenAILastIs, Zenon
<1>6. Gives(OutputWire("tool"), OpenAIPart, t.results, p)
  BY <1>1, <1>3, OpenAIPartType, OutputParts, SpreadComposed, Zenon
<1>7. Spread(OpenAIPart, A) = p
  BY <1>6, Zenon DEF Gives
<1>13. p \in Seq(TurnMessages)
  BY <1>1, PartTypes, SpreadType, Zenon
<1> HIDE DEF A, B
<1>8. SpreadSplits(OpenAIPart, A, B)
  BY <1>4, <1>5, OpenAIPartType, SpreadJoin, Zenon
<1>9. Spread(OpenAIPart, A \o B) = p \o r
  BY <1>5, <1>7, <1>8, Zenon DEF SpreadSplits
<1>10. p \o r = PartsOf("openai")[t]
  <2>1. PartsOf("openai")[t] = IF t.who = "user" THEN p \o UserPart(t) ELSE AnswerPart(t)
    BY DEF PartsOf
  <2>2. t.who = "assistant" => p = <<>>
    BY <1>1, SpreadNone, Zenon
  <2>3. AnswerPart(t) \in Seq(TurnMessages)
    BY PartTypes
  <2>4. Nones(AnswerPart(t))
    BY <2>3, NonesOf, Zenon
  <2> HIDE DEF p
  <2>5. QED
    BY <1>1, <2>1, <2>2, <2>4, Zenon DEF Nones
<1>11. A \o B \in Seq(Wires)
  BY <1>4, <1>5, JoinType, Zenon
<1>12. QED
  BY <1>2, <1>9, <1>10, <1>11, Zenon

LEMMA OpenAIMessagesAre ==
  ASSUME NEW s \in Seq(Turns)
  PROVE  normalizeOpenAIRequest(FlattenSeq(Each(s, OpenAIMessages))) = Spread(PartsOf("openai"), s)
<1> DEFINE E == [i \in DOMAIN s |-> OpenAIMessages(s[i])]
           x == Spread(OpenAIMessagesOf, s)
<1>1. Spreads(OpenAIMessagesOf, Turns, Wires)
  BY OpenAIParts, Zenon DEF Spreads, OpenAIMessagesOf
<1>2. Composes(OpenAIMessagesOf, OpenAIPart, PartsOf("openai"), Turns)
  BY OpenAIParts, Zenon DEF Composes, OpenAIMessagesOf
<1>3. Follows(E, OpenAIMessagesOf, s, Turns)
  BY DEF Follows, OpenAIMessagesOf
<1>4. FlattenSeq(E) = x
  <2> HIDE DEF E
  <2>1. QED
    BY <1>3, SpreadFollows, Zenon
<1>5. x \in Seq(Wires)
  BY <1>1, SpreadType, Zenon
<1>6. Gives(OpenAIMessagesOf, OpenAIPart, s, Spread(PartsOf("openai"), s))
  BY <1>1, <1>2, OpenAIPartType, SpreadComposed, Zenon
<1>7. Spread(OpenAIPart, x) = Spread(PartsOf("openai"), s)
  BY <1>6, Zenon DEF Gives
<1>8. Each(s, OpenAIMessages) = E
  BY DEF Each
<1> HIDE DEF E, x
<1>9. QED
  BY <1>4, <1>5, <1>7, <1>8, OpenAIIs, Zenon

(* The Responses format.                                                   *)
AsContent(b) == [b EXCEPT !.type = IF @ \in {"input_image", "image_url"} THEN "image_url" ELSE "text"]
(* Blocks of the Responses format renamed to those of OpenAI's.            *)
Renamed == [b \in Blocks |-> <<AsContent(b)>>]
KnownKinds == {"input_text", "output_text", "text", "input_image", "image_url"}

(* The renamed block.                                                      *)
LEMMA AsContentIs ==
  ASSUME NEW b \in Blocks
  PROVE  /\ AsContent(b) \in Blocks /\ Renamed[b] = <<AsContent(b)>> /\ AsContent(b).mark = b.mark
         /\ AsContent(b).type = (IF b.type \in {"input_image", "image_url"} THEN "image_url" ELSE "text")
<1>1. b = [type |-> b.type, mark |-> b.mark, id |-> b.id, content |-> b.content]
      /\ b.mark \in AllPieces /\ b.id \in AllPieces /\ b.content \in Seq(PlainBlocks)
  BY DEF Blocks
<1> DEFINE k == IF b.type \in {"input_image", "image_url"} THEN "image_url" ELSE "text"
<1>2. k \in Kinds
  BY DEF Kinds
<1>3. AsContent(b) = [type |-> k, mark |-> b.mark, id |-> b.id, content |-> b.content]
  BY <1>1 DEF AsContent
<1> HIDE DEF k
<1>4. AsContent(b) \in Blocks /\ AsContent(b).mark = b.mark /\ AsContent(b).type = k
  BY <1>1, <1>2, <1>3 DEF Blocks
<1>5. Renamed[b] = <<AsContent(b)>>
  BY DEF Renamed
<1>6. QED
  BY <1>4, <1>5 DEF k

LEMMA RenamedType == Spreads(Renamed, Blocks, Blocks)
BY AsContentIs, OneType, Zenon DEF Spreads

(* Content is renamed, unless no block of it is known.                     *)
LEMMA NormalContent ==
  ASSUME NEW s \in Seq(Blocks)
  PROVE  LET known == Spread(BlocksOf(KnownKinds), s)
         IN  /\ normalizeResponsesContent(s) = (IF known = <<>> THEN s ELSE Spread(Renamed, known))
             /\ normalizeResponsesContent(s) \in Seq(Blocks)
<1> DEFINE known == Spread(BlocksOf(KnownKinds), s)
           E == [i \in DOMAIN known |-> AsContent(known[i])]
<1>1. OfType(s, KnownKinds) = known
  BY OfTypeIs, Zenon
<1>2. known \in Seq(Blocks)
  BY BlockSpreads, SpreadType, Zenon
<1>3. normalizeResponsesContent(s) = (IF known = <<>> THEN s ELSE E)
  <2> DEFINE k == OfType(s, KnownKinds)
  <2>1. normalizeResponsesContent(s) = IF k = <<>> THEN s ELSE [i \in DOMAIN k |-> AsContent(k[i])]
    BY DEF normalizeResponsesContent, KnownKinds, Each, AsContent
  <2> HIDE DEF known
  <2>2. k = known
    BY <1>1, Zenon DEF known
  <2>3. QED
    BY <2>1, <2>2, Zenon
<1> HIDE DEF known
<1>4. OneEach(Renamed, Blocks)
  BY DEF OneEach, Renamed
<1>5. FollowsOne(E, Renamed, known, Blocks)
  BY DEF FollowsOne, Renamed
<1>6. E = Spread(Renamed, known)
  <2> HIDE DEF E
  <2>1. QED
    BY <1>2, <1>4, <1>5, EachIsSpread, Zenon
<1>7. Spread(Renamed, known) \in Seq(Blocks)
  BY <1>2, RenamedType, SpreadType, Zenon
<1>8. QED
  BY <1>3, <1>6, <1>7, Zenon DEF known

(* What is renamed is taken as text or as an image.                        *)
LEMMA RenamedMarks ==
  ASSUME NEW type \in KnownKinds, NEW kind \in Kinds,
         kind = (IF type \in {"input_image", "image_url"} THEN "image_url" ELSE "text"),
         NEW other \in {"text", "image_url"}, NEW m \in AllPieces
  PROVE  Spread(MarksOf(other), Spread(Renamed, BlockOf(type)[m])) = (IF kind = other THEN NotBlank[m] ELSE <<>>)
<1> DEFINE b == ContentBlock(type, m, <<>>, <<>>)
           a == AsContent(b)
<1>1. b \in Blocks
  BY MarkFacts, PlainAreBlocks DEF ContentBlock, PlainBlocks, BlankMark, KnownKinds, Kinds
<1>2. BlockOf(type)[m] = <<b>>
  BY DEF BlockOf
<1>3. b.type = type /\ b.mark = m
  BY DEF ContentBlock
<1> HIDE DEF b
<1>4. a \in Blocks /\ Renamed[b] = <<a>> /\ a.mark = m /\ a.type = kind
  BY <1>1, <1>3, AsContentIs
<1> HIDE DEF a
<1>5. Spread(Renamed, <<b>>) = <<a>>
  BY <1>1, <1>4, RenamedType, SpreadOne, ZenonT(60)
<1>6. Spread(MarksOf(other), <<a>>) = MarksOf(other)[a]
  BY <1>4, BlockSpreads, SpreadOne, ZenonT(60)
<1>7. MarksOf(other)[a] = (IF kind = other THEN NotBlank[m] ELSE <<>>)
  BY <1>4 DEF MarksOf, NotBlank
<1>8. QED
  BY <1>2, <1>5, <1>6, <1>7, Zenon

(* Known blocks are all kept.                                              *)
LEMMA KnownKept ==
  ASSUME NEW type \in KnownKinds, NEW s \in Seq(AllPieces)
  PROVE  Spread(BlocksOf(KnownKinds), ContentBlocks(type, s)) = ContentBlocks(type, s)
<1>0. type \in Kinds
  BY DEF KnownKinds, Kinds
<1>1. Spreads(BlockOf(type), AllPieces, Blocks) /\ Spreads(BlocksOf(KnownKinds), Blocks, Blocks)
  BY <1>0, BlockOfType, BlockSpreads, Zenon
<1>2. ASSUME NEW m \in AllPieces PROVE Spread(BlocksOf(KnownKinds), BlockOf(type)[m]) = BlockOf(type)[m]
  <2> DEFINE b == ContentBlock(type, m, <<>>, <<>>)
  <2>1. b \in Blocks
    BY <1>0, MarkFacts, PlainAreBlocks DEF ContentBlock, PlainBlocks, BlankMark
  <2>2. BlockOf(type)[m] = <<b>>
    BY DEF BlockOf
  <2>3. Spread(BlocksOf(KnownKinds), <<b>>) = BlocksOf(KnownKinds)[b]
    BY <1>1, <2>1, SpreadOne, Zenon
  <2>4. b.type = type
    BY DEF ContentBlock
  <2>5. BlocksOf(KnownKinds)[b] = <<b>>
    <3> HIDE DEF b
    <3>1. QED
      BY <2>1, <2>4 DEF BlocksOf
  <2>6. QED
    BY <2>2, <2>3, <2>5, Zenon
<1>3. Composes(BlockOf(type), BlocksOf(KnownKinds), BlockOf(type), AllPieces)
  BY <1>2, Zenon DEF Composes
<1>4. Gives(BlockOf(type), BlocksOf(KnownKinds), s, Spread(BlockOf(type), s))
  BY <1>1, <1>3, SpreadComposed, Zenon
<1>5. ContentBlocks(type, s) = Spread(BlockOf(type), s)
  BY <1>0, ContentBlocksAre, Zenon
<1>6. QED
  BY <1>4, <1>5, Zenon DEF Gives

(* What is extracted from renamed texts and images is what was put in.     *)
LEMMA RenamedPart ==
  ASSUME NEW type \in KnownKinds, NEW kind \in Kinds,
         kind = (IF type \in {"input_image", "image_url"} THEN "image_url" ELSE "text"),
         NEW other \in {"text", "image_url"}, NEW s \in Seq(AllPieces)
  PROVE  Spread(MarksOf(other), Spread(Renamed, ContentBlocks(type, s))) = IF kind = other THEN NonBlank(s) ELSE <<>>
<1> DEFINE F == BlockOf(type)
           X == Composed(F, Renamed, AllPieces)
<1>0. type \in Kinds
  BY DEF KnownKinds, Kinds
<1>1. Spreads(F, AllPieces, Blocks) /\ Spreads(MarksOf(other), Blocks, AllMarks)
  BY <1>0, BlockOfType, BlockSpreads, Zenon
<1>2. \A m \in AllPieces : X[m] = Spread(Renamed, F[m])
  BY DEF Composed
<1>3. Spreads(X, AllPieces, Blocks)
  BY <1>1, RenamedType, ComposedSpreads, Zenon
<1>4. SpreadChains(F, Renamed, AllPieces, s)
  BY <1>1, RenamedType, SpreadTwice, Zenon
<1>5. ContentBlocks(type, s) = Spread(F, s)
  BY <1>0, ContentBlocksAre, Zenon
<1>6. \A m \in AllPieces : Spread(MarksOf(other), Spread(Renamed, F[m])) = (IF kind = other THEN NotBlank[m] ELSE <<>>)
  BY RenamedMarks
<1> HIDE DEF F
<1>7. Spread(Renamed, ContentBlocks(type, s)) = Spread(X, s)
  BY <1>4, <1>5, Zenon DEF SpreadChains
<1> HIDE DEF X
<1>8. CASE kind = other
  <2>1. Composes(X, MarksOf(other), NotBlank, AllPieces)
    BY <1>2, <1>6, <1>8, Zenon DEF Composes
  <2>2. Gives(X, MarksOf(other), s, Spread(NotBlank, s))
    BY <1>1, <1>3, <2>1, SpreadComposed, Zenon
  <2>3. QED
    BY <1>7, <1>8, <2>2, NonBlankIs, Zenon DEF Gives
<1>9. CASE kind # other
  <2>1. Cancels(X, MarksOf(other), AllPieces)
    BY <1>2, <1>6, <1>9, Zenon DEF Cancels
  <2>2. Gives(X, MarksOf(other), s, <<>>)
    BY <1>1, <1>3, <2>1, SpreadCancelled, Zenon
  <2>3. QED
    BY <1>7, <1>9, <2>2, Zenon DEF Gives
<1>10. QED
  BY <1>8, <1>9, Zenon

(* The content of a message in the Responses format, normalised.           *)
NormalTakes(c, x, y) ==
  /\ c \in Seq(Blocks) /\ normalizeResponsesContent(c) \in Seq(Blocks)
  /\ extractText(normalizeResponsesContent(c)) = NonBlank(x)
  /\ extractImages(normalizeResponsesContent(c), "image_url") = NonBlank(y)

(* And from content of both.                                               *)
LEMMA ResponsesContent ==
  ASSUME NEW x \in Seq(AllPieces), NEW y \in Seq(AllPieces)
  PROVE  NormalTakes(ContentBlocks("input_text", x) \o ContentBlocks("input_image", y), x, y)
<1> DEFINE c == ContentBlocks("input_text", x) \o ContentBlocks("input_image", y)
<1> DEFINE A == ContentBlocks("input_text", x)
           B == ContentBlocks("input_image", y)
           n == normalizeResponsesContent(c)
           known == Spread(BlocksOf(KnownKinds), c)
           a == Spread(Renamed, A)
           b == Spread(Renamed, B)
<1>1. "input_text" \in Kinds /\ "input_image" \in Kinds /\ "text" \in Kinds /\ "image_url" \in Kinds
      /\ "input_text" \in KnownKinds /\ "input_image" \in KnownKinds
      /\ "text" \in {"text", "image_url"} /\ "image_url" \in {"text", "image_url"} /\ "text" # "image_url"
      /\ "text" = (IF "input_text" \in {"input_image", "image_url"} THEN "image_url" ELSE "text")
      /\ "image_url" = (IF "input_image" \in {"input_image", "image_url"} THEN "image_url" ELSE "text")
  BY DEF Kinds, KnownKinds
<1>2. A \in Seq(Blocks) /\ B \in Seq(Blocks)
  BY <1>1, ContentBlocksAre, Zenon
<1>3. Spread(BlocksOf(KnownKinds), A) = A /\ Spread(BlocksOf(KnownKinds), B) = B
  BY <1>1, KnownKept, Zenon
<1>4. /\ Spread(MarksOf("text"), a) = NonBlank(x) /\ Spread(MarksOf("image_url"), a) = <<>>
      /\ Spread(MarksOf("text"), b) = <<>> /\ Spread(MarksOf("image_url"), b) = NonBlank(y)
  <2>1. /\ \A other \in {"text", "image_url"} : Spread(MarksOf(other), a) = IF "text" = other THEN NonBlank(x) ELSE <<>>
        /\ \A other \in {"text", "image_url"} : Spread(MarksOf(other), b) = IF "image_url" = other THEN NonBlank(y) ELSE <<>>
    BY <1>1, RenamedPart, Zenon
  <2>2. QED
    BY <1>1, <2>1, Zenon
<1>5. c = A \o B
  OBVIOUS
<1> HIDE DEF A, B
<1> HIDE DEF c
<1>6. c \in Seq(Blocks)
  BY <1>2, <1>5, JoinType, Zenon
<1>7. SpreadSplits(BlocksOf(KnownKinds), A, B) /\ SpreadSplits(Renamed, A, B)
  BY <1>2, BlockSpreads, RenamedType, SpreadJoin, Zenon
<1>8. known = c
  BY <1>3, <1>5, <1>7, Zenon DEF SpreadSplits
<1>9. n = (IF known = <<>> THEN c ELSE Spread(Renamed, known)) /\ n \in Seq(Blocks)
  BY <1>6, NormalContent, Zenon
<1> HIDE DEF n, known
<1>10. n = Spread(Renamed, c)
  BY <1>8, <1>9, SpreadNone, Zenon
<1>11. a \in Seq(Blocks) /\ b \in Seq(Blocks)
  BY <1>2, RenamedType, SpreadType, Zenon
<1>12. n = a \o b
  BY <1>5, <1>7, <1>10, Zenon DEF SpreadSplits
<1> HIDE DEF a, b
<1>13. SpreadSplits(MarksOf("text"), a, b) /\ SpreadSplits(MarksOf("image_url"), a, b)
  BY <1>11, BlockSpreads, SpreadJoin, Zenon
<1>14. Spread(MarksOf("text"), a) \in Seq(AllMarks) /\ Spread(MarksOf("image_url"), b) \in Seq(AllMarks)
  BY <1>11, BlockSpreads, SpreadType, Zenon
<1>15. Nones(NonBlank(x)) /\ Nones(NonBlank(y))
  BY <1>4, <1>14, NonesOf, Zenon
<1>16. Spread(MarksOf("text"), n) = NonBlank(x) /\ Spread(MarksOf("image_url"), n) = NonBlank(y)
  BY <1>4, <1>12, <1>13, <1>15, Zenon DEF SpreadSplits, Nones
<1>17. extractText(n) = NonBlank(x) /\ extractImages(n, "image_url") = NonBlank(y)
  BY <1>9, <1>16, TextIs, ImagesAre, Zenon
<1>18. QED
  BY <1>6, <1>9, <1>17, Zenon DEF n, c, NormalTakes

(* Items: a call's item has its id.                                        *)
Items == {m \in Wires : m.role = "function_call" => m.id \in TurnMarks}

(* The wire messages an item of the Responses format becomes.              *)
ResponsesMessage == [m \in Items |->
  IF m.role = "function_call" THEN <<Wire("assistant", <<>>, <<>>, <<m.id>>)>>
  ELSE IF m.role = "function_call_output"
  THEN Unless(extractText(m.content) = <<>>, [m EXCEPT !.role = "tool"])
  ELSE Unless(extractText(normalizeResponsesContent(m.content)) = <<>>
                /\ extractImages(normalizeResponsesContent(m.content), "image_url") = <<>>,
              [m EXCEPT !.content = normalizeResponsesContent(m.content)])]

(* A wire message is its fields.                                           *)
LEMMA WireFields ==
  ASSUME NEW m \in Wires
  PROVE  /\ m = Wire(m.role, m.content, m.id, m.calls)
         /\ m.role \in Roles /\ m.content \in Seq(Blocks) /\ m.id \in AllPieces /\ m.calls \in Seq(TurnMarks)
         /\ \A r : [m EXCEPT !.role = r] = Wire(r, m.content, m.id, m.calls)
         /\ \A c : [m EXCEPT !.content = c] = Wire(m.role, c, m.id, m.calls)
BY DEF Wires, Wire

(* The input is the spread of the items.                                   *)
LEMMA ResponsesMessageType == Spreads(ResponsesMessage, Items, Wires)
<1> SUFFICES ASSUME NEW m \in Items PROVE ResponsesMessage[m] \in Seq(Wires)
  BY DEF Spreads
<1> DEFINE n == normalizeResponsesContent(m.content)
           a == Wire("assistant", <<>>, <<>>, <<m.id>>)
           o == Wire("tool", m.content, m.id, m.calls)
           u == Wire(m.role, n, m.id, m.calls)
<1>1. m \in Wires /\ (m.role = "function_call" => m.id \in TurnMarks)
  BY DEF Items
<1>2. /\ m.role \in Roles /\ m.content \in Seq(Blocks) /\ m.id \in AllPieces /\ m.calls \in Seq(TurnMarks)
      /\ [m EXCEPT !.role = "tool"] = o /\ [m EXCEPT !.content = n] = u
  BY <1>1, WireFields
<1>3. n \in Seq(Blocks)
  BY <1>2, NormalContent, Zenon
<1> HIDE DEF n
<1>4. o \in Wires /\ u \in Wires
  BY <1>2, <1>3, RolesAre, WireType, Zenon
<1>5. m.role = "function_call" => a \in Wires
  <2>1. <<>> \in Seq(Blocks) /\ <<>> \in AllPieces
    BY NoneType, MarkFacts DEF BlankMark
  <2>2. m.role = "function_call" => <<m.id>> \in Seq(TurnMarks)
    BY <1>1, OneType
  <2>3. QED
    BY <2>1, <2>2, RolesAre, WireType, Zenon
<1> HIDE DEF a, o, u
<1>6. /\ Unless(extractText(m.content) = <<>>, o) \in Seq(Wires)
      /\ Unless(extractText(n) = <<>> /\ extractImages(n, "image_url") = <<>>, u) \in Seq(Wires)
      /\ m.role = "function_call" => <<a>> \in Seq(Wires)
  BY <1>4, <1>5, UnlessType, OneType
<1>7. ResponsesMessage[m] =
        IF m.role = "function_call" THEN <<a>>
        ELSE IF m.role = "function_call_output" THEN Unless(extractText(m.content) = <<>>, o)
        ELSE Unless(extractText(n) = <<>> /\ extractImages(n, "image_url") = <<>>, u)
  BY <1>2 DEF ResponsesMessage, a, n
<1>8. QED
  BY <1>6, <1>7, Zenon

LEMMA ResponsesAre ==
  ASSUME NEW s \in Seq(Items)
  PROVE  responsesInputToMessages(s) = Spread(ResponsesMessage, s)
<1> DEFINE N(m) ==
             IF m.role = "function_call" THEN <<Wire("assistant", <<>>, <<>>, <<m.id>>)>>
             ELSE IF m.role = "function_call_output"
             THEN Unless(extractText(m.content) = <<>>, [m EXCEPT !.role = "tool"])
             ELSE LET content == normalizeResponsesContent(m.content)
                  IN  Unless(extractText(content) = <<>> /\ extractImages(content, "image_url") = <<>>,
                             [m EXCEPT !.content = content])
           E == [i \in DOMAIN s |-> N(s[i])]
<1>1. ASSUME NEW m \in Items PROVE N(m) = ResponsesMessage[m]
  BY Zenon DEF ResponsesMessage
<1>2. responsesInputToMessages(s) = FlattenSeq(E)
  BY DEF responsesInputToMessages, Each
<1> HIDE DEF N
<1>3. Follows(E, ResponsesMessage, s, Items)
  BY <1>1, Zenon DEF Follows
<1>4. FlattenSeq(E) = Spread(ResponsesMessage, s)
  <2> HIDE DEF E
  <2>1. QED
    BY <1>3, SpreadFollows, Zenon
<1>5. QED
  BY <1>2, <1>4, Zenon

(* Results.                                                                *)
ToolWire == [r \in Results |-> Unless(NonBlank(r.text) = <<>>, Wire("tool", ContentBlocks("text", r.text), r.id, <<>>))]

(* Results and calls through both formats become their parts,              *)
LEMMA ResponsesResults ==
  /\ Spreads(OutputWire("function_call_output"), Results, Items)
  /\ Composes(OutputWire("function_call_output"), ResponsesMessage, ToolWire, Results)
  /\ Spreads(ToolWire, Results, Wires) /\ Composes(ToolWire, OpenAIPart, ToolPart, Results)
<1>1. ASSUME NEW r \in Results
      PROVE  /\ OutputWire("function_call_output")[r] \in Seq(Items)
             /\ Spread(ResponsesMessage, OutputWire("function_call_output")[r]) = ToolWire[r]
             /\ ToolWire[r] \in Seq(Wires) /\ Spread(OpenAIPart, ToolWire[r]) = ToolPart[r]
  <2> DEFINE c == ContentBlocks("text", r.text)
             w == Wire("function_call_output", c, r.id, <<>>)
             o == Wire("tool", c, r.id, <<>>)
  <2>1. OutputWire("function_call_output")[r] = <<w>> /\ OutputWire("tool")[r] = <<o>>
    BY DEF OutputWire
  <2>2. w \in Wires /\ o \in Wires
    BY RolesAre, OutputWires
  <2>3. w.role = "function_call_output" /\ w.content = c /\ [w EXCEPT !.role = "tool"] = o
    BY DEF Wire
  <2>4. extractText(c) = NonBlank(r.text)
    BY ResultContent
  <2>5. ToolWire[r] = Unless(NonBlank(r.text) = <<>>, o)
    BY DEF ToolWire
  <2> HIDE DEF w, o, c
  <2>6. w \in Items
    BY <2>2, <2>3 DEF Items
  <2>7. Spread(ResponsesMessage, <<w>>) = ResponsesMessage[w]
    BY <2>6, ResponsesMessageType, SpreadOne, Zenon
  <2>8. ResponsesMessage[w] = Unless(NonBlank(r.text) = <<>>, o)
    BY <2>3, <2>4, <2>6 DEF ResponsesMessage
  <2>9. Spread(OpenAIPart, <<o>>) = ToolPart[r]
    BY <2>1, OutputParts, Zenon DEF Composes
  <2>10. Spread(OpenAIPart, ToolWire[r]) = ToolPart[r]
    <3>1. CASE NonBlank(r.text) = <<>>
      <4>1. ToolPart[r] = <<>> /\ ToolWire[r] = <<>>
        BY <2>5, <3>1 DEF ToolPart, Unless
      <4>2. QED
        BY <4>1, SpreadNone, Zenon
    <3>2. CASE NonBlank(r.text) # <<>>
      BY <2>5, <2>9, <3>2, Zenon DEF Unless
    <3>3. QED
      BY <3>1, <3>2
  <2>11. OutputWire("function_call_output")[r] \in Seq(Items) /\ ToolWire[r] \in Seq(Wires)
    <3>1. <<w>> \in Seq(Items)
      BY <2>6, OneType
    <3>2. Unless(NonBlank(r.text) = <<>>, o) \in Seq(Wires)
      BY <2>2, UnlessType
    <3>3. QED
      BY <2>1, <2>5, <3>1, <3>2, Zenon
  <2>12. QED
    BY <2>1, <2>5, <2>7, <2>8, <2>10, <2>11, Zenon
<1>2. QED
  BY <1>1, Zenon DEF Spreads, Composes

(* Calls.                                                                  *)
CallItem == [id \in TurnMarks |-> <<Wire("function_call", <<>>, id, <<>>)>>]
CallWire == [id \in TurnMarks |-> <<Wire("assistant", <<>>, <<>>, <<id>>)>>]

(* each call a message of its own,                                         *)
LEMMA ResponsesCalls ==
  /\ Spreads(CallItem, TurnMarks, Items) /\ Composes(CallItem, ResponsesMessage, CallWire, TurnMarks)
  /\ Spreads(CallWire, TurnMarks, Wires) /\ Composes(CallWire, OpenAIPart, CallPart, TurnMarks)
<1>1. ASSUME NEW id \in TurnMarks
      PROVE  /\ CallItem[id] \in Seq(Items) /\ Spread(ResponsesMessage, CallItem[id]) = CallWire[id]
             /\ CallWire[id] \in Seq(Wires) /\ Spread(OpenAIPart, CallWire[id]) = CallPart[id]
  <2> DEFINE w == Wire("function_call", <<>>, id, <<>>)
             o == Wire("assistant", <<>>, <<>>, <<id>>)
             m == Message("assistant", <<>>, <<>>, <<>>, <<id>>)
  <2>1. CallItem[id] = <<w>> /\ CallWire[id] = <<o>> /\ CallPart[id] = <<m>>
    BY DEF CallItem, CallWire, CallPart
  <2>2. <<>> \in Seq(Blocks) /\ <<>> \in AllPieces /\ id \in AllPieces /\ <<>> \in Seq(TurnMarks) /\ <<id>> \in Seq(TurnMarks)
    BY NoneType, OneType, MarkFacts DEF BlankMark
  <2>3. w \in Wires /\ o \in Wires
    BY <2>2, RolesAre, WireType, Zenon
  <2>4. w.role = "function_call" /\ w.id = id /\ o.role = "assistant" /\ o.content = <<>> /\ o.calls = <<id>>
    BY DEF Wire
  <2>13. "assistant" # "user" /\ <<id>> # <<>>
    OBVIOUS
  <2>5. ResponsesMessage[w] = <<o>>
    <3>1. w \in Items
      BY <2>3, <2>4 DEF Items
    <3>2. ResponsesMessage[w] = <<Wire("assistant", <<>>, <<>>, <<w.id>>)>>
      BY <2>4, <3>1, Zenon DEF ResponsesMessage
    <3>3. QED
      BY <2>4, <3>2, Zenon
  <2> HIDE DEF w, o, m
  <2>6. w \in Items
    BY <2>3, <2>4 DEF Items
  <2>7. Spread(ResponsesMessage, <<w>>) = ResponsesMessage[w]
    BY <2>6, ResponsesMessageType, SpreadOne, Zenon
  <2>8. Spread(OpenAIPart, <<o>>) = OpenAIPart[o]
    BY <2>3, OpenAIPartType, SpreadOne, Zenon
  <2>9. OpenAIPart[o] = Unless(extractText(<<>>) = <<>> /\ <<id>> = <<>>, Message("assistant", extractText(<<>>), <<>>, <<>>, <<id>>))
    BY <2>3, <2>4, <2>13, Zenon DEF OpenAIPart
  <2>10. OpenAIPart[o] = <<m>>
    BY <2>9, <2>13, EmptyContent, Zenon DEF Unless, m
  <2>11. CallItem[id] \in Seq(Items) /\ CallWire[id] \in Seq(Wires)
    BY <2>1, <2>3, <2>6, OneType, Zenon
  <2>12. QED
    BY <2>1, <2>5, <2>7, <2>8, <2>10, <2>11, Zenon
<1>2. QED
  BY <1>1, Zenon DEF Spreads, Composes

(* What the turn says.                                                     *)
ResponsesSpoken(t) ==
  LET content == ContentBlocks("input_text", t.texts) \o ContentBlocks("input_image", t.images)
  IN  IF content = <<>> THEN <<>> ELSE <<Wire(t.who, content, <<>>, <<>>)>>

(* and the words of a turn what they become in OpenAI's format.            *)
LEMMA ResponsesSpokenIs ==
  ASSUME NEW t \in Turns
  PROVE  /\ ResponsesSpoken(t) \in Seq(Items) /\ Spread(ResponsesMessage, ResponsesSpoken(t)) \in Seq(Wires)
         /\ Spread(OpenAIPart, Spread(ResponsesMessage, ResponsesSpoken(t))) = IF t.who = "user" THEN UserPart(t) ELSE SayPart(t)
<1> DEFINE c == ContentBlocks("input_text", t.texts) \o ContentBlocks("input_image", t.images)
           n == normalizeResponsesContent(c)
           w == Wire(t.who, c, <<>>, <<>>)
           o == Wire(t.who, n, <<>>, <<>>)
           x == NonBlank(t.texts)
           y == NonBlank(t.images)
           r == IF t.who = "user" THEN UserPart(t) ELSE SayPart(t)
<1>1. t.texts \in Seq(AllPieces) /\ t.images \in Seq(AllPieces) /\ (t.who = "user" \/ t.who = "assistant")
  BY TurnTypes
<1>2. /\ c \in Seq(Blocks) /\ n \in Seq(Blocks) /\ extractText(n) = x /\ extractImages(n, "image_url") = y
  <2>1. NormalTakes(c, t.texts, t.images)
    BY <1>1, ResponsesContent, Zenon
  <2>2. QED
    BY <2>1, Zenon DEF NormalTakes
<1>3. ResponsesSpoken(t) = IF c = <<>> THEN <<>> ELSE <<w>>
  BY Zenon DEF ResponsesSpoken
<1>4. n = <<>> => x = <<>> /\ y = <<>>
  BY <1>2, EmptyContent
<1>5. c = <<>> => x = <<>> /\ y = <<>>
  <2>1. c = <<>> => n = <<>>
    <3>1. Spread(BlocksOf(KnownKinds), <<>>) = <<>> /\ <<>> \in Seq(Blocks)
      BY SpreadNone, NoneType, Zenon
    <3>2. normalizeResponsesContent(<<>>) = <<>>
      BY <3>1, NormalContent, Zenon
    <3> HIDE DEF c
    <3>3. QED
      BY <3>2, Zenon
  <2>2. QED
    BY <1>4, <2>1
<1> HIDE DEF c
<1>6. <<>> \in AllPieces /\ <<>> \in Seq(TurnMarks) /\ t.who \in Roles
  BY <1>1, NoneType, MarkFacts, RolesAre DEF BlankMark
<1>7. w \in Wires /\ o \in Wires
  BY <1>2, <1>6, WireType, Zenon
<1>8. /\ w.role = t.who /\ w.content = c /\ [w EXCEPT !.content = n] = o
      /\ o.role = t.who /\ o.content = n /\ o.calls = <<>>
  BY DEF Wire
<1> HIDE DEF n, w, o, x, y
<1>9. t.who # "function_call" /\ t.who # "function_call_output"
  BY <1>1
<1>10. w \in Items
  BY <1>7, <1>8, <1>9 DEF Items
<1>11. ResponsesMessage[w] = Unless(x = <<>> /\ y = <<>>, o)
  BY <1>2, <1>8, <1>9, <1>10, Zenon DEF ResponsesMessage, n
<1>12. (x = <<>> /\ y = <<>>) => r = <<>>
  BY Zenon DEF UserPart, SayPart, Unless, x, y
<1>13. OpenAIPart[o] = r
  <2>1. t.who = "user" => OpenAIPart[o] = UserPart(t)
    BY <1>2, <1>7, <1>8, Zenon DEF OpenAIPart, UserPart, x, y
  <2>2. t.who = "assistant" => OpenAIPart[o] = Unless(x = <<>> /\ <<>> = <<>>, Message("assistant", x, <<>>, <<>>, <<>>))
    BY <1>2, <1>7, <1>8 DEF OpenAIPart
  <2>3. t.who = "assistant" => OpenAIPart[o] = SayPart(t)
    BY <2>2, Zenon DEF SayPart, Unless, x
  <2>4. QED
    BY <1>1, <2>1, <2>3
<1>14. CASE c = <<>>
  <2>1. ResponsesSpoken(t) = <<>> /\ r = <<>>
    BY <1>3, <1>5, <1>12, <1>14, Zenon
  <2>2. <<>> \in Seq(Items) /\ <<>> \in Seq(Wires) /\ Spread(ResponsesMessage, <<>>) = <<>> /\ Spread(OpenAIPart, <<>>) = <<>>
    BY NoneType, SpreadNone, Zenon
  <2>3. QED
    BY <2>1, <2>2, Zenon
<1>15. CASE c # <<>>
  <2>1. ResponsesSpoken(t) = <<w>>
    BY <1>3, <1>15, Zenon
  <2>2. <<w>> \in Seq(Items)
    BY <1>10, OneType
  <2>3. Spread(ResponsesMessage, <<w>>) = Unless(x = <<>> /\ y = <<>>, o)
    <3>1. Spread(ResponsesMessage, <<w>>) = ResponsesMessage[w]
      BY <1>10, ResponsesMessageType, SpreadOne, Zenon
    <3>2. QED
      BY <1>11, <3>1, Zenon
  <2>4. CASE x = <<>> /\ y = <<>>
    <3>1. Spread(ResponsesMessage, <<w>>) = <<>> /\ r = <<>>
      BY <1>12, <2>3, <2>4, Zenon DEF Unless
    <3>2. <<>> \in Seq(Wires) /\ Spread(OpenAIPart, <<>>) = <<>>
      BY NoneType, SpreadNone, Zenon
    <3>3. QED
      BY <2>1, <2>2, <3>1, <3>2, Zenon
  <2>5. CASE ~(x = <<>> /\ y = <<>>)
    <3>1. Spread(ResponsesMessage, <<w>>) = <<o>>
      BY <2>3, <2>5, Zenon DEF Unless
    <3>2. Spread(OpenAIPart, <<o>>) = OpenAIPart[o]
      BY <1>7, OpenAIPartType, SpreadOne, Zenon
    <3>3. <<o>> \in Seq(Wires)
      BY <1>7, OneType
    <3>4. QED
      BY <1>13, <2>1, <2>2, <3>1, <3>2, <3>3, Zenon
  <2>6. QED
    BY <2>4, <2>5
<1>16. QED
  BY <1>14, <1>15

(* A turn's items are those of its results, its words and its calls.       *)
LEMMA ResponsesItemsAre ==
  ASSUME NEW t \in Turns
  PROVE  ResponsesItems(t) = (Spread(OutputWire("function_call_output"), t.results) \o ResponsesSpoken(t))
                               \o Spread(CallItem, t.calls)
<1> DEFINE D == [i \in DOMAIN t.calls |-> Wire("function_call", <<>>, t.calls[i], <<>>)]
<1>1. t.results \in Seq(Results) /\ t.calls \in Seq(TurnMarks)
  BY TurnTypes
<1>2. OneEach(CallItem, TurnMarks)
  BY DEF OneEach, CallItem
<1>3. FollowsOne(D, CallItem, t.calls, TurnMarks)
  BY DEF FollowsOne, CallItem
<1>4. D = Spread(CallItem, t.calls)
  <2> HIDE DEF D
  <2>1. QED
    BY <1>1, <1>2, <1>3, EachIsSpread, Zenon
<1>5. Each(t.calls, LAMBDA id : Wire("function_call", <<>>, id, <<>>)) = Spread(CallItem, t.calls)
  BY <1>4 DEF Each
<1>6. Each(t.results, LAMBDA r : Wire("function_call_output", ContentBlocks("text", r.text), r.id, <<>>))
        = Spread(OutputWire("function_call_output"), t.results)
  BY <1>1, RolesAre, OutputsAre
<1>7. QED
  BY <1>5, <1>6, Zenon DEF ResponsesItems, ResponsesSpoken

(* A turn in the Responses format becomes its parts, and a conversation    *)
(* the spread of them.                                                     *)
ResponsesTurn == [t \in Turns |-> Spread(ResponsesMessage, ResponsesItems(t))]

LEMMA ResponsesParts ==
  ASSUME NEW t \in Turns
  PROVE  /\ ResponsesItems(t) \in Seq(Items) /\ Spread(ResponsesMessage, ResponsesItems(t)) \in Seq(Wires)
         /\ Spread(OpenAIPart, Spread(ResponsesMessage, ResponsesItems(t))) = PartsOf("responses")[t]
<1> DEFINE A == Spread(OutputWire("function_call_output"), t.results)
           B == ResponsesSpoken(t)
           C == Spread(CallItem, t.calls)
           a == Spread(ToolWire, t.results)
           b == Spread(ResponsesMessage, B)
           c == Spread(CallWire, t.calls)
           p == Spread(ToolPart, t.results)
           q == IF t.who = "user" THEN UserPart(t) ELSE SayPart(t)
           r == Spread(CallPart, t.calls)
<1>1. /\ t.results \in Seq(Results) /\ t.calls \in Seq(TurnMarks) /\ "user" # "assistant"
      /\ (t.who = "user" /\ t.calls = <<>>) \/ (t.who = "assistant" /\ t.results = <<>>)
  BY TurnTypes
<1>2. ResponsesItems(t) = (A \o B) \o C
  BY ResponsesItemsAre
<1>3. A \in Seq(Items) /\ C \in Seq(Items)
  BY <1>1, ResponsesResults, ResponsesCalls, SpreadType, Zenon
<1>4. B \in Seq(Items) /\ b \in Seq(Wires) /\ Spread(OpenAIPart, b) = q
  BY ResponsesSpokenIs, Zenon
<1>5. Gives(OutputWire("function_call_output"), ResponsesMessage, t.results, a)
  BY <1>1, ResponsesResults, ResponsesMessageType, SpreadComposed, Zenon
<1>6. Gives(CallItem, ResponsesMessage, t.calls, c)
  BY <1>1, ResponsesCalls, ResponsesMessageType, SpreadComposed, Zenon
<1>7. Gives(ToolWire, OpenAIPart, t.results, p)
  BY <1>1, ResponsesResults, OpenAIPartType, SpreadComposed, Zenon
<1>8. Gives(CallWire, OpenAIPart, t.calls, r)
  BY <1>1, ResponsesCalls, OpenAIPartType, SpreadComposed, Zenon
<1>9. a \in Seq(Wires) /\ c \in Seq(Wires)
  BY <1>1, ResponsesResults, ResponsesCalls, SpreadType, Zenon
<1>10. Spread(ResponsesMessage, A) = a /\ Spread(ResponsesMessage, C) = c /\ Spread(OpenAIPart, a) = p /\ Spread(OpenAIPart, c) = r
  BY <1>5, <1>6, <1>7, <1>8, Zenon DEF Gives
<1>20. p \in Seq(TurnMessages) /\ r \in Seq(TurnMessages) /\ (t.who = "user" => UserPart(t) \in Seq(TurnMessages))
       /\ SayPart(t) \in Seq(TurnMessages)
  BY <1>1, PartTypes, SpreadType, Zenon
<1>21. (t.results = <<>> => p = <<>>) /\ (t.calls = <<>> => r = <<>>)
  BY SpreadNone, Zenon
<1>22. PartsOf("responses")[t] = IF t.who = "user" THEN p \o UserPart(t) ELSE SayPart(t) \o r
  BY DEF PartsOf
<1> HIDE DEF A, B, C, a, c, p, r
<1>11. A \o B \in Seq(Items)
  BY <1>3, <1>4, JoinType, Zenon
<1>12. (A \o B) \o C \in Seq(Items)
  BY <1>3, <1>11, JoinType, Zenon
<1>13. SpreadSplits(ResponsesMessage, A, B)
  BY <1>3, <1>4, ResponsesMessageType, SpreadJoin, Zenon
<1>14. SpreadSplits(ResponsesMessage, A \o B, C)
  BY <1>3, <1>11, ResponsesMessageType, SpreadJoin, Zenon
<1>15. Spread(ResponsesMessage, (A \o B) \o C) = (a \o b) \o c
  BY <1>10, <1>13, <1>14, Zenon DEF SpreadSplits
<1> HIDE DEF b
<1>16. a \o b \in Seq(Wires)
  BY <1>4, <1>9, JoinType, Zenon
<1>17. (a \o b) \o c \in Seq(Wires)
  BY <1>9, <1>16, JoinType, Zenon
<1>18. SpreadSplits(OpenAIPart, a, b) /\ SpreadSplits(OpenAIPart, a \o b, c)
  BY <1>4, <1>9, <1>16, OpenAIPartType, SpreadJoin, Zenon
<1>19. Spread(OpenAIPart, (a \o b) \o c) = (p \o q) \o r
  BY <1>4, <1>10, <1>18, Zenon DEF SpreadSplits
<1>23. (p \o q) \o r = PartsOf("responses")[t]
  <2>1. CASE t.who = "user"
    <3>1. q = UserPart(t) /\ r = <<>> /\ p \o q \in Seq(TurnMessages)
      BY <1>1, <1>20, <1>21, <2>1, JoinType, Zenon
    <3> HIDE DEF q
    <3>2. (p \o q) \o <<>> = p \o q
      BY <3>1, JoinNone, Zenon
    <3>3. QED
      BY <1>22, <2>1, <3>1, <3>2, Zenon
  <2>2. CASE t.who = "assistant"
    <3>1. q = SayPart(t) /\ p = <<>> /\ q \in Seq(TurnMessages)
      BY <1>1, <1>20, <1>21, <2>2, Zenon
    <3> HIDE DEF q
    <3>2. <<>> \o q = q
      BY <3>1, NoneJoin, Zenon
    <3>3. PartsOf("responses")[t] = SayPart(t) \o r
      BY <1>1, <1>22, <2>2, Zenon
    <3>4. QED
      BY <3>1, <3>2, <3>3, Zenon
  <2>3. QED
    BY <1>1, <2>1, <2>2
<1>24. QED
  BY <1>2, <1>12, <1>15, <1>17, <1>19, <1>23, Zenon

ResponsesItemsOf == [t \in Turns |-> ResponsesItems(t)]

LEMMA ResponsesMessagesAre ==
  ASSUME NEW s \in Seq(Turns)
  PROVE  normalizeOpenAIRequest(responsesInputToMessages(FlattenSeq(Each(s, ResponsesItems)))) = Spread(PartsOf("responses"), s)
<1> DEFINE E == [i \in DOMAIN s |-> ResponsesItems(s[i])]
           x == Spread(ResponsesItemsOf, s)
           y == Spread(ResponsesTurn, s)
<1>1. Spreads(ResponsesItemsOf, Turns, Items) /\ Spreads(ResponsesTurn, Turns, Wires)
  BY ResponsesParts, Zenon DEF Spreads, ResponsesItemsOf, ResponsesTurn
<1>2. Composes(ResponsesItemsOf, ResponsesMessage, ResponsesTurn, Turns)
  BY Zenon DEF Composes, ResponsesItemsOf, ResponsesTurn
<1>3. Composes(ResponsesTurn, OpenAIPart, PartsOf("responses"), Turns)
  BY ResponsesParts, Zenon DEF Composes, ResponsesTurn
<1>4. Follows(E, ResponsesItemsOf, s, Turns)
  BY DEF Follows, ResponsesItemsOf
<1>5. FlattenSeq(E) = x
  <2> HIDE DEF E
  <2>1. QED
    BY <1>4, SpreadFollows, Zenon
<1>6. x \in Seq(Items) /\ y \in Seq(Wires)
  BY <1>1, SpreadType, Zenon
<1>7. Gives(ResponsesItemsOf, ResponsesMessage, s, y)
  BY <1>1, <1>2, ResponsesMessageType, SpreadComposed, Zenon
<1>8. Gives(ResponsesTurn, OpenAIPart, s, Spread(PartsOf("responses"), s))
  BY <1>1, <1>3, OpenAIPartType, SpreadComposed, Zenon
<1>9. Spread(ResponsesMessage, x) = y /\ Spread(OpenAIPart, y) = Spread(PartsOf("responses"), s)
  BY <1>7, <1>8, Zenon DEF Gives
<1>10. Each(s, ResponsesItems) = E
  BY DEF Each
<1> HIDE DEF E, x, y
<1>11. responsesInputToMessages(x) = y
  BY <1>6, <1>9, ResponsesAre, Zenon
<1>12. normalizeOpenAIRequest(y) = Spread(PartsOf("responses"), s)
  BY <1>6, <1>9, OpenAIIs, Zenon
<1>13. QED
  BY <1>5, <1>10, <1>11, <1>12, Zenon

(* The conversation in the proxy's own form, turn by turn.                 *)
LEMMA MessagesAre ==
  ASSUME conv \in Seq(Turns), NEW format \in ClientFormats
  PROVE  Messages(format) = Spread(PartsOf(format), conv) /\ Messages(format) \in Seq(TurnMessages)
<1>1. Messages(format) = Spread(PartsOf(format), conv)
  <2>1. CASE format = "anthropic"
    <3>1. Messages(format) = normalizeAnthropicRequest(Each(conv, AnthropicMessage))
      BY <2>1 DEF Messages
    <3>2. QED
      BY <2>1, <3>1, AnthropicIs, Zenon
  <2>2. CASE format = "openai"
    <3>1. Messages(format) = normalizeOpenAIRequest(FlattenSeq(Each(conv, OpenAIMessages)))
      BY <2>2 DEF Messages
    <3>2. QED
      BY <2>2, <3>1, OpenAIMessagesAre, Zenon
  <2>3. CASE format = "responses"
    <3>1. Messages(format) = normalizeOpenAIRequest(responsesInputToMessages(FlattenSeq(Each(conv, ResponsesItems))))
      BY <2>3 DEF Messages
    <3>2. QED
      BY <2>3, <3>1, ResponsesMessagesAre, Zenon
  <2>4. QED
    BY <2>1, <2>2, <2>3 DEF ClientFormats
<1>2. Spread(PartsOf(format), conv) \in Seq(TurnMessages)
  BY PartsOfType, SpreadType, Zenon
<1>3. QED
  BY <1>1, <1>2, Zenon

(***************************************************************************)
(* What a step keeps.                                                      *)
(***************************************************************************)
AnswersCall(t, i, u) == \E q \in DOMAIN u.calls : u.calls[q] = t.results[i].id

(* Each result answers a call of the turn before it.                       *)
Answered(s) ==
  \A k \in 1 .. Len(s) : \A i \in DOMAIN s[k].results : k > 1 /\ AnswersCall(s[k], i, s[k - 1])

(* The invariant: typed turns, and results that answer.                    *)
ConversationInv ==
  /\ conv \in Seq(Turns) /\ system \in {<<>>, <<System>>}
  /\ Answered(conv)

(* A turn whose results answer the last one's calls may follow.            *)
LEMMA AnsweredMore ==
  ASSUME NEW s \in Seq(Turns), Answered(s), NEW t \in Turns,
         \A i \in DOMAIN t.results : s # <<>> /\ AnswersCall(t, i, Last(s))
  PROVE  Answered(Append(s, t))
<1> DEFINE u == Append(s, t)
           n == Len(s)
<1>1. n \in Nat /\ Len(u) = n + 1 /\ u[n + 1] = t /\ \A k \in 1 .. n : u[k] = s[k]
  OBVIOUS
<1>2. s # <<>> => n > 0 /\ Last(s) = s[n]
  BY DEF Last
<1> HIDE DEF n, u
<1>3. ASSUME NEW k \in 1 .. Len(u), NEW i \in DOMAIN u[k].results PROVE k > 1 /\ AnswersCall(u[k], i, u[k - 1])
  <2>1. CASE k \in 1 .. n
    <3>1. k > 1 /\ AnswersCall(s[k], i, s[k - 1])
      BY <1>1, <1>3, <2>1 DEF Answered, n
    <3>2. k - 1 \in 1 .. n
      BY <1>1, <2>1, <3>1
    <3>3. QED
      BY <1>1, <2>1, <3>1, <3>2
  <2>2. CASE k = n + 1
    <3>1. u[k] = t /\ s # <<>> /\ AnswersCall(t, i, Last(s))
      BY <1>1, <1>3, <2>2
    <3>2. n > 0 /\ Last(s) = s[n] /\ k - 1 = n /\ n \in 1 .. n
      BY <1>1, <1>2, <2>2, <3>1
    <3>3. u[k - 1] = s[n]
      BY <1>1, <3>2
    <3>4. k > 1
      BY <1>1, <2>2, <3>2
    <3>5. QED
      BY <3>1, <3>2, <3>3, <3>4
  <2>3. QED
    BY <1>1, <2>1, <2>2
<1>4. QED
  BY <1>3 DEF Answered, u

(* Both actions add such a turn.                                           *)
LEMMA UserTurnKeeps ==
  ASSUME ConversationInv, UserTurn
  PROVE  \E t \in Turns : conv' = Append(conv, t) /\ \A i \in DOMAIN t.results : conv # <<>> /\ AnswersCall(t, i, Last(conv))
<1> DEFINE n == Len(conv) + 1
           c == OpenCalls
<1>1. PICK texts \in Pieces({1}), images \in Pieces({2}) :
        \E results \in [DOMAIN OpenCalls -> BOOLEAN] :
          conv' = Append(conv, Turn("user", texts, images,
             [i \in DOMAIN OpenCalls |->
                [id |-> OpenCalls[i],
                 text |-> <<IF results[i] THEN <<Len(conv) + 1, 2 + i>> ELSE BlankMark>>]], <<>>))
  BY DEF UserTurn
<1>2. PICK given \in [DOMAIN c -> BOOLEAN] :
          conv' = Append(conv, Turn("user", texts, images,
             [i \in DOMAIN c |->
                [id |-> c[i], text |-> <<IF given[i] THEN <<n, 2 + i>> ELSE BlankMark>>]], <<>>))
  BY <1>1
<1>3. n \in Nat \ {0}
  BY DEF ConversationInv
<1>4. c \in Seq(TurnMarks)
  <2>1. CASE conv = <<>>
    BY <2>1, NoneType DEF OpenCalls
  <2>2. CASE conv # <<>>
    <3>1. Last(conv) \in Turns
      BY <2>2 DEF ConversationInv, Last
    <3>2. Last(conv).calls \in Seq(TurnMarks)
      BY <3>1, TurnTypes
    <3>3. QED
      BY <2>2, <3>2 DEF OpenCalls
  <2>3. QED
    BY <2>1, <2>2
<1>5. conv = <<>> => c = <<>>
  BY DEF OpenCalls
<1>6. conv # <<>> => c = Last(conv).calls
  BY DEF OpenCalls
<1>7. ASSUME NEW p \in {1, 2} PROVE Pieces({p}) \subseteq Seq(TurnPieces)
  <2>1. <<n, p>> \in TurnMarks
    BY <1>3 DEF TurnMarks
  <2>2. \A m \in {BlankMark} \cup {<<n, q>> : q \in {p}} : m \in TurnPieces
    BY <2>1, MarkFacts DEF TurnPieces
  <2> HIDE DEF n
  <2>3. \A m \in {BlankMark} \cup {<<n, q>> : q \in {p}} : <<m>> \in Seq(TurnPieces)
    BY <2>2, OneType
  <2>4. Pieces({p}) = {<<>>} \cup {<<m>> : m \in {BlankMark} \cup {<<n, q>> : q \in {p}}}
    BY DEF Pieces, n
  <2>5. QED
    BY <2>3, <2>4, NoneType
<1>8. texts \in Seq(TurnPieces) /\ images \in Seq(TurnPieces)
  BY <1>7
<1> HIDE DEF c, n
<1> DEFINE result(i) == [id |-> c[i], text |-> <<IF given[i] THEN <<n, 2 + i>> ELSE BlankMark>>]
           results == [i \in DOMAIN c |-> result(i)]
           t == Turn("user", texts, images, results, <<>>)
<1>9. ASSUME NEW i \in DOMAIN c PROVE result(i) \in Results
  <2>1. i \in Nat /\ c[i] \in TurnMarks
    BY <1>4, ElementOfSeq
  <2>2. <<n, 2 + i>> \in TurnMarks
    BY <1>3, <2>1 DEF TurnMarks
  <2> DEFINE m == IF given[i] THEN <<n, 2 + i>> ELSE BlankMark
  <2>3. m \in TurnPieces
    BY <2>2, MarkFacts
  <2> HIDE DEF m
  <2>4. <<m>> \in Seq(TurnPieces)
    BY <2>3, OneType
  <2>5. [id |-> c[i], text |-> <<m>>] \in Results
    BY <2>1, <2>4 DEF Results
  <2>6. QED
    BY <2>5 DEF m
<1>10. results \in Seq(Results) /\ DOMAIN results = DOMAIN c /\ \A i \in DOMAIN c : results[i].id = c[i]
  <2>1. DOMAIN c = 1 .. Len(c) /\ Len(c) \in Nat
    BY <1>4
  <2>2. \A i \in DOMAIN c : result(i).id = c[i]
    OBVIOUS
  <2> HIDE DEF result
  <2>3. results \in [1 .. Len(c) -> Results]
    BY <1>9, <2>1
  <2>4. results \in Seq(Results)
    BY <2>1, <2>3
  <2>5. QED
    BY <2>2, <2>4
<1>11. t \in Turns
  <2> HIDE DEF results
  <2>1. QED
    BY <1>8, <1>10 DEF Turn, Turns, UserTurns
<1>12. conv' = Append(conv, t)
  BY <1>2 DEF Turn
<1>13. t.results = results
  BY DEF Turn
<1> HIDE DEF t, results
<1>14. ASSUME NEW i \in DOMAIN t.results PROVE conv # <<>> /\ AnswersCall(t, i, Last(conv))
  <2>1. i \in DOMAIN c /\ t.results[i].id = c[i]
    BY <1>10, <1>13
  <2>2. c # <<>>
    BY <2>1
  <2>3. conv # <<>> /\ c = Last(conv).calls
    BY <1>5, <1>6, <2>2
  <2>4. QED
    BY <2>1, <2>3 DEF AnswersCall
<1>15. QED
  BY <1>11, <1>12, <1>14

LEMMA AssistantTurnKeeps ==
  ASSUME ConversationInv, AssistantTurn
  PROVE  \E t \in Turns : conv' = Append(conv, t) /\ t.results = <<>>
<1> DEFINE n == Len(conv) + 1
<1>1. PICK texts \in {<<>>, << <<n, 1>> >>}, calls \in 0 .. MaxCallsPerTurn :
        conv' = Append(conv, Turn("assistant", texts, <<>>, <<>>, [i \in 1 .. calls |-> <<n, i>>]))
  BY DEF AssistantTurn
<1>2. n \in Nat \ {0} /\ calls \in Nat
  BY ConversationAssumption DEF ConversationInv
<1> HIDE DEF n
<1>3. <<n, 1>> \in TurnPieces /\ \A i \in 1 .. calls : <<n, i>> \in TurnMarks
  BY <1>2, MarkFacts DEF TurnMarks
<1>4. << <<n, 1>> >> \in Seq(TurnPieces) /\ <<>> \in Seq(TurnPieces)
  BY <1>3, OneType, NoneType
<1>5. texts \in Seq(TurnPieces)
  BY <1>4
<1> DEFINE c == [i \in 1 .. calls |-> <<n, i>>]
<1>6. c \in Seq(TurnMarks)
  BY <1>2, <1>3
<1> HIDE DEF c
<1>7. Turn("assistant", texts, <<>>, <<>>, c) \in Turns /\ Turn("assistant", texts, <<>>, <<>>, c).results = <<>>
  BY <1>5, <1>6 DEF Turn, Turns, AssistantTurns
<1>8. QED
  BY <1>1, <1>7 DEF c

(* The invariant holds at first, is kept by every step, and so holds.      *)
LEMMA ConversationInvInit == ConversationInit => ConversationInv
<1>1. ASSUME conv = <<>> PROVE conv \in Seq(Turns) /\ Answered(conv)
  <2>1. conv \in Seq(Turns) /\ Len(conv) = 0
    BY <1>1
  <2>2. 1 .. Len(conv) = {}
    BY <2>1
  <2>3. QED
    BY <2>1, <2>2 DEF Answered
<1>2. QED
  BY <1>1 DEF ConversationInit, ConversationInv

LEMMA ConversationInvStep == ConversationInv /\ [ConversationNext]_conversationVars => ConversationInv'
<1> SUFFICES ASSUME ConversationInv, [ConversationNext]_conversationVars PROVE ConversationInv'
  OBVIOUS
<1>1. CASE UNCHANGED conversationVars
  BY <1>1 DEF conversationVars, ConversationInv, Answered, AnswersCall
<1>2. CASE ConversationNext
  <2>1. system' = system
    BY <1>2 DEF ConversationNext
  <2>2. PICK t \in Turns : conv' = Append(conv, t) /\ \A i \in DOMAIN t.results : conv # <<>> /\ AnswersCall(t, i, Last(conv))
    <3>1. CASE UserTurn
      BY <3>1, UserTurnKeeps
    <3>2. CASE AssistantTurn
      <4>1. PICK t \in Turns : conv' = Append(conv, t) /\ t.results = <<>>
        BY <3>2, AssistantTurnKeeps
      <4>2. DOMAIN t.results = {}
        BY <4>1
      <4>3. QED
        BY <4>1, <4>2
    <3>3. QED
      BY <1>2, <3>1, <3>2 DEF ConversationNext
  <2>3. PICK s : s = conv
    OBVIOUS
  <2>4. s \in Seq(Turns) /\ Answered(s) /\ conv' = Append(s, t)
        /\ \A i \in DOMAIN t.results : s # <<>> /\ AnswersCall(t, i, Last(s))
    BY <2>2, <2>3 DEF ConversationInv
  <2>5. Answered(Append(s, t)) /\ Append(s, t) \in Seq(Turns)
    BY <2>4, AnsweredMore
  <2>6. conv' \in Seq(Turns) /\ system' \in {<<>>, <<System>>} /\ Answered(conv')
    BY <2>1, <2>4, <2>5 DEF ConversationInv
  <2>7. QED
    BY <2>6 DEF ConversationInv, Answered, AnswersCall
<1>3. QED
  BY <1>1, <1>2

LEMMA ConversationInvHolds == ConversationSpec => []ConversationInv
BY ConversationInvInit, ConversationInvStep, PTL DEF ConversationSpec

(***************************************************************************)
(* ResultsFollowCalls.                                                     *)
(***************************************************************************)
ToolsOf(t) == {m \in TurnMessages : m.role = "tool" /\ \E q \in DOMAIN t.results : m.id = t.results[q].id}

(* What comes of a turn's results is tool messages with their ids.         *)
LEMMA ToolPartsAre ==
  ASSUME NEW t \in Turns
  PROVE  Spread(ToolPart, t.results) \in Seq(ToolsOf(t))
<1> DEFINE S == {t.results[q] : q \in DOMAIN t.results}
<1>1. t.results \in Seq(Results)
  BY TurnTypes
<1>2. \A q \in DOMAIN t.results : t.results[q] \in Results
  BY <1>1, ElementOfSeq
<1>3. t.results \in Seq(S)
  BY <1>1
<1>4. ASSUME NEW q \in DOMAIN t.results PROVE ToolPart[t.results[q]] \in Seq(ToolsOf(t))
  <2> DEFINE r == t.results[q]
             x == NonBlank(r.text)
             m == Message("tool", x, <<>>, r.id, <<>>)
  <2>1. r \in Results
    BY <1>2
  <2>2. m.role = "tool" /\ m.id = r.id
    BY DEF Message
  <2>3. ToolPart[r] = Unless(x = <<>>, m)
    BY <2>1 DEF ToolPart
  <2>4. ToolPart[r] \in Seq(TurnMessages)
    BY <2>1, PartTypes, SpreadsTo
  <2>5. CASE x = <<>>
    BY <2>3, <2>5, NoneType DEF Unless
  <2>6. CASE x # <<>>
    <3>1. ToolPart[r] = <<m>>
      BY <2>3, <2>6 DEF Unless
    <3> HIDE DEF m
    <3>2. <<m>> \in Seq(TurnMessages)
      BY <2>4, <3>1
    <3>3. m \in TurnMessages
      BY <3>2
    <3>4. m \in ToolsOf(t)
      BY <2>2, <3>3 DEF ToolsOf
    <3>5. QED
      BY <3>1, <3>4, OneType
  <2>7. QED
    BY <2>5, <2>6
<1>5. Spreads(ToolPart, S, ToolsOf(t))
  BY <1>4 DEF Spreads
<1>6. QED
  <2> HIDE DEF S
  <2>1. QED
    BY <1>3, <1>5, SpreadType, Zenon

(* A message that says nothing is left out.                                *)
LEMMA UnlessIs ==
  ASSUME NEW c, NEW m
  PROVE  (Unless(c, m) = <<>> /\ c) \/ (Unless(c, m) = <<m>> /\ ~c)
BY DEF Unless

Assistants == {m \in TurnMessages : m.role = "assistant"}

(* What comes of an assistant's turn is the assistant's messages.          *)
LEMMA AssistantParts ==
  ASSUME NEW t \in Turns
  PROVE  /\ AnswerPart(t) \in Seq(Assistants) /\ SayPart(t) \in Seq(Assistants)
         /\ Spread(CallPart, t.calls) \in Seq(Assistants)
<1>1. \A r : <<r>> \in Seq(TurnMessages) /\ r.role = "assistant" => <<r>> \in Seq(Assistants)
  <2> SUFFICES ASSUME NEW r, <<r>> \in Seq(TurnMessages), r.role = "assistant" PROVE <<r>> \in Seq(Assistants)
    OBVIOUS
  <2>1. r \in TurnMessages
    OBVIOUS
  <2>2. r \in Assistants
    BY <2>1 DEF Assistants
  <2>3. QED
    BY <2>2, OneType
<1>2. AnswerPart(t) \in Seq(Assistants) /\ SayPart(t) \in Seq(Assistants)
  <2>1. AnswerPart(t) \in Seq(TurnMessages) /\ SayPart(t) \in Seq(TurnMessages)
    BY PartTypes
  <2>2. AnswerPart(t) = <<>> \/ \E r : AnswerPart(t) = <<r>> /\ r.role = "assistant"
    <3> DEFINE m == Message("assistant", NonBlank(t.texts), <<>>, <<>>, t.calls)
    <3>1. m.role = "assistant"
      BY DEF Message
    <3> HIDE DEF m
    <3>2. AnswerPart(t) = Unless(NonBlank(t.texts) = <<>> /\ t.calls = <<>>, m)
      BY DEF AnswerPart, m
    <3>3. QED
      BY <3>1, <3>2, UnlessIs, Zenon
  <2>3. SayPart(t) = <<>> \/ \E r : SayPart(t) = <<r>> /\ r.role = "assistant"
    <3> DEFINE m == Message("assistant", NonBlank(t.texts), <<>>, <<>>, <<>>)
    <3>1. m.role = "assistant"
      BY DEF Message
    <3> HIDE DEF m
    <3>2. SayPart(t) = Unless(NonBlank(t.texts) = <<>>, m)
      BY DEF SayPart, m
    <3>3. QED
      BY <3>1, <3>2, UnlessIs, Zenon
  <2>4. QED
    BY <1>1, <2>1, <2>2, <2>3, NoneType, Zenon
<1>3. Spreads(CallPart, TurnMarks, Assistants)
  <2> SUFFICES ASSUME NEW id \in TurnMarks PROVE CallPart[id] \in Seq(Assistants)
    BY DEF Spreads
  <2> DEFINE m == Message("assistant", <<>>, <<>>, <<>>, <<id>>)
  <2>1. m.role = "assistant" /\ CallPart[id] = <<m>>
    BY DEF Message, CallPart
  <2>2. CallPart[id] \in Seq(TurnMessages)
    BY PartTypes, SpreadsTo
  <2> HIDE DEF m
  <2>3. QED
    BY <1>1, <2>1, <2>2
<1>4. t.calls \in Seq(TurnMarks)
  BY TurnTypes
<1>5. QED
  BY <1>2, <1>3, <1>4, SpreadType, Zenon

(* A tool message comes of one of its turn's results, and before it are    *)
(* only such and, in the Anthropic format, one of the user.                *)
BeforeResult(format, m, k) == m.role = "tool" \/ (format = "anthropic" /\ m.role = "user" /\ k = 1)

(* A result in the messages of a turn is one of the turn's, and before it  *)
(* are only other results and, in Anthropic's format, the user's words.    *)
LEMMA ResultTurn ==
  ASSUME NEW format, NEW t \in Turns, NEW p \in 1 .. Len(PartsOf(format)[t]), PartsOf(format)[t][p].role = "tool"
  PROVE  /\ \E q \in DOMAIN t.results : PartsOf(format)[t][p].id = t.results[q].id
         /\ \A k \in 1 .. p - 1 : BeforeResult(format, PartsOf(format)[t][k], k)
<1> DEFINE w == PartsOf(format)[t]
           x == Spread(ToolPart, t.results)
           y == UserPart(t)
           z == Spread(CallPart, t.calls)
<1>0. "tool" # "assistant" /\ "tool" # "user" /\ "user" # "assistant"
  OBVIOUS
<1>1. w \in Seq(TurnMessages)
  BY PartsOfType, SpreadsTo, Zenon
<1>2. x \in Seq(ToolsOf(t))
  BY ToolPartsAre
<1>3. t.who = "user" \/ t.who = "assistant"
  BY TurnTypes
<1>4. CASE t.who = "assistant"
  <2>1. AnswerPart(t) \in Seq(Assistants) /\ SayPart(t) \in Seq(Assistants) /\ z \in Seq(Assistants)
    BY AssistantParts
  <2>2. w = IF format = "responses" THEN SayPart(t) \o z ELSE AnswerPart(t)
    BY <1>0, <1>4 DEF PartsOf
  <2> HIDE DEF w, z
  <2>3. SayPart(t) \o z \in Seq(Assistants)
    BY <2>1, JoinType, Zenon
  <2>4. w \in Seq(Assistants)
    BY <2>1, <2>2, <2>3, Zenon
  <2>5. w[p] \in Assistants
    BY <2>4, ElementOfSeq DEF w
  <2>6. QED
    BY <1>0, <2>5 DEF Assistants, w
<1>5. CASE t.who = "user"
  <2>1. y \in Seq(TurnMessages) /\ x \in Seq(TurnMessages)
    <3>1. \A m \in ToolsOf(t) : m \in TurnMessages
      BY DEF ToolsOf
    <3>2. QED
      BY <1>2, <1>5, <3>1, PartTypes, SeqMonotonic
  <2>2. Len(y) \in {0, 1} /\ \A k \in 1 .. Len(y) : k = 1 /\ y[k].role = "user"
    <3> DEFINE m == Message("user", NonBlank(t.texts), NonBlank(t.images), <<>>, <<>>)
               c == NonBlank(t.texts) = <<>> /\ NonBlank(t.images) = <<>>
    <3>1. m.role = "user" /\ y = Unless(c, m)
      BY DEF UserPart, Message
    <3> HIDE DEF m, c, y
    <3>2. y = <<>> \/ y = <<m>>
      BY <3>1, UnlessIs
    <3>3. CASE y = <<>>
      BY <3>3
    <3>4. CASE y = <<m>>
      <4>1. Len(y) = 1 /\ y[1] = m
        BY <3>4, ListOfOne
      <4>2. QED
        BY <3>1, <4>1
    <3>5. QED
      BY <3>2, <3>3, <3>4
  <2>3. \A k \in 1 .. Len(x) : x[k] \in ToolsOf(t)
    BY <1>2, ElementOfSeq
  <2>4. \A k \in 1 .. Len(x) : x[k].role = "tool" /\ \E q \in DOMAIN t.results : x[k].id = t.results[q].id
    BY <2>3 DEF ToolsOf
  <2>5. w = IF format = "anthropic" THEN y \o x ELSE x \o y
    BY <1>5 DEF PartsOf
  <2>6. Joined(y, x) /\ Joined(x, y)
    BY <2>1, JoinedOf, Zenon
  <2> HIDE DEF w, x, y
  <2>7. CASE format = "anthropic"
    <3>1. w = y \o x
      BY <2>5, <2>7
    <3> DEFINE n == Len(y)
    <3>2. n \in Nat /\ Len(x) \in Nat /\ Len(w) = n + Len(x)
          /\ (\A k \in 1 .. n : w[k] = y[k]) /\ \A k \in 1 .. Len(x) : w[n + k] = x[k]
      BY <2>6, <3>1 DEF Joined
    <3> HIDE DEF n
    <3>3. \A k \in 1 .. n : k = 1 /\ w[k].role = "user"
      BY <2>2, <3>2 DEF n
    <3>4. ASSUME NEW k \in 1 .. Len(w), ~(k <= n)
          PROVE  w[k].role = "tool" /\ \E q \in DOMAIN t.results : w[k].id = t.results[q].id
      <4>1. k - n \in 1 .. Len(x) /\ n + (k - n) = k
        BY <3>2, <3>4
      <4>2. w[k] = x[k - n]
        BY <3>2, <4>1
      <4>3. QED
        BY <2>4, <4>1, <4>2
    <3>5. ~(p <= n)
      <4>1. p <= n => p \in 1 .. n
        BY <3>2
      <4>2. QED
        BY <1>0, <3>3, <4>1 DEF w
    <3>6. ASSUME NEW k \in 1 .. p - 1 PROVE BeforeResult(format, w[k], k)
      <4>1. k \in 1 .. Len(w) /\ (k <= n => k \in 1 .. n)
        BY <3>2 DEF w
      <4>2. QED
        BY <2>7, <3>3, <3>4, <4>1 DEF BeforeResult
    <3>7. \E q \in DOMAIN t.results : w[p].id = t.results[q].id
      BY <3>4, <3>5 DEF w
    <3>8. QED
      BY <3>6, <3>7 DEF w
  <2>8. CASE format # "anthropic"
    <3>1. w = x \o y
      BY <2>5, <2>8
    <3> DEFINE n == Len(x)
    <3>2. n \in Nat /\ Len(y) \in Nat /\ Len(w) = n + Len(y)
          /\ (\A k \in 1 .. n : w[k] = x[k]) /\ \A k \in 1 .. Len(y) : w[n + k] = y[k]
      BY <2>6, <3>1 DEF Joined
    <3> HIDE DEF n
    <3>3. p <= n
      <4> SUFFICES ASSUME ~(p <= n) PROVE FALSE
        OBVIOUS
      <4>1. p - n \in 1 .. Len(y) /\ n + (p - n) = p
        BY <3>2 DEF w
      <4>2. w[p] = y[p - n]
        BY <3>2, <4>1
      <4>3. w[p].role = "user"
        BY <2>2, <4>1, <4>2
      <4>4. QED
        BY <1>0, <4>3 DEF w
    <3>4. ASSUME NEW k \in 1 .. p
          PROVE  w[k].role = "tool" /\ \E q \in DOMAIN t.results : w[k].id = t.results[q].id
      <4>1. k \in 1 .. n
        BY <3>2, <3>3 DEF w
      <4>2. w[k] = x[k]
        BY <3>2, <4>1
      <4>3. QED
        BY <2>4, <4>1, <4>2 DEF n
    <3>5. p \in 1 .. p /\ \A k \in 1 .. p - 1 : k \in 1 .. p
      OBVIOUS
    <3>6. (\E q \in DOMAIN t.results : w[p].id = t.results[q].id) /\ \A k \in 1 .. p - 1 : w[k].role = "tool"
      BY <3>4, <3>5
    <3>7. QED
      BY <3>6 DEF w, BeforeResult
  <2>9. QED
    BY <2>7, <2>8
<1>6. QED
  BY <1>3, <1>4, <1>5

(* A call's message is one of its turn's, with only calls after it, which  *)
(* only the Responses format has.                                          *)
OnlyCalls(m) == m.role = "assistant" /\ m.text = <<>>

(* The call is made at i and after it are only messages of calls; in two   *)
(* of the formats it is in the last message.                               *)
CallAt(format, w, id, i) ==
  /\ i \in 1 .. Len(w) /\ Contains(w[i].calls, id)
  /\ \A k \in i + 1 .. Len(w) : OnlyCalls(w[k])
  /\ format # "responses" => i = Len(w)

(* Each call of a turn is made so by its messages.                         *)
LEMMA CallTurn ==
  ASSUME NEW format, NEW t \in Turns, NEW q \in DOMAIN t.calls
  PROVE  \E i : CallAt(format, PartsOf(format)[t], t.calls[q], i)
<1> DEFINE c == t.calls
           w == PartsOf(format)[t]
           id == c[q]
<1>1. c \in Seq(TurnMarks) /\ q \in 1 .. Len(c) /\ Len(c) \in Nat /\ DOMAIN c = 1 .. Len(c)
  BY TurnTypes
<1>2. c # <<>>
  BY <1>1
<1>3. t.who = "assistant" /\ "assistant" # "user"
  BY <1>2, TurnTypes
<1>4. CASE format # "responses"
  <2> DEFINE m == Message("assistant", NonBlank(t.texts), <<>>, <<>>, c)
  <2>1. w = AnswerPart(t)
    BY <1>3, <1>4 DEF PartsOf
  <2>2. m.calls = c
    BY DEF Message
  <2>3. AnswerPart(t) = <<m>>
    BY <1>2 DEF AnswerPart, Unless
  <2> HIDE DEF m, w, c
  <2>4. Len(w) = 1 /\ w[1] = m
    BY <2>1, <2>3, ListOfOne
  <2>5. Contains(w[1].calls, id)
    BY <1>1, <2>2, <2>4 DEF Contains, c
  <2>6. CallAt(format, w, id, 1)
    <3>1. 1 \in 1 .. Len(w) /\ 1 + 1 .. Len(w) = {} /\ 1 = Len(w)
      BY <2>4
    <3>2. QED
      BY <2>5, <3>1, Zenon DEF CallAt
  <2>7. QED
    BY <2>6, Zenon DEF w, c
<1>5. CASE format = "responses"
  <2> DEFINE call(e) == Message("assistant", <<>>, <<>>, <<>>, <<e>>)
             z == [i \in DOMAIN c |-> call(c[i])]
             y == SayPart(t)
             n == Len(y)
  <2>1. w = y \o Spread(CallPart, c)
    BY <1>3, <1>5 DEF PartsOf
  <2>2. z = Spread(CallPart, c)
    <3>1. OneEach(CallPart, TurnMarks)
      BY DEF OneEach, CallPart
    <3>2. FollowsOne(z, CallPart, c, TurnMarks)
      BY DEF FollowsOne, CallPart
    <3> HIDE DEF z, c
    <3>3. QED
      BY <1>1, <3>1, <3>2, EachIsSpread, Zenon
  <2>3. z \in Seq(TurnMessages) /\ y \in Seq(TurnMessages)
    BY <1>1, <2>2, PartTypes, SpreadType
  <2>4. Len(z) = Len(c)
    BY <1>1
  <2>5. \A i \in 1 .. Len(c) : z[i].role = "assistant" /\ z[i].text = <<>> /\ z[i].calls = <<c[i]>>
    BY <1>1 DEF Message
  <2>6. Joined(y, z)
    BY <2>3, JoinedOf
  <2> HIDE DEF z, y, w, c
  <2>7. w = y \o z
    BY <2>1, <2>2, Zenon
  <2>8. n \in Nat /\ Len(w) = n + Len(c) /\ \A i \in 1 .. Len(c) : w[n + i] = z[i]
    BY <2>4, <2>6, <2>7 DEF Joined
  <2> HIDE DEF n
  <2>9. Contains(w[n + q].calls, id)
    <3>1. w[n + q].calls = <<c[q]>>
      BY <1>1, <2>5, <2>8
    <3>2. QED
      BY <3>1, ListOfOne DEF Contains
  <2>10. ASSUME NEW k \in (n + q) + 1 .. Len(w) PROVE OnlyCalls(w[k])
    <3>1. k - n \in 1 .. Len(c) /\ n + (k - n) = k
      BY <1>1, <2>8
    <3>2. w[k] = z[k - n]
      BY <2>8, <3>1
    <3>3. QED
      BY <2>5, <3>1, <3>2 DEF OnlyCalls
  <2>11. n + q \in 1 .. Len(w)
    BY <1>1, <2>8
  <2>12. CallAt(format, w, id, n + q)
    BY <1>5, <2>9, <2>10, <2>11, Zenon DEF CallAt
  <2>13. QED
    BY <2>12, Zenon DEF w, c
<1>6. QED
  BY <1>4, <1>5

(* Where the elements of four lists are when joined.                       *)
FourAre(s, a, b, c, d) ==
  /\ Len(a) \in Nat /\ Len(b) \in Nat /\ Len(c) \in Nat /\ Len(d) \in Nat
  /\ Len(s) = Len(a) + Len(b) + Len(c) + Len(d)
  /\ \A k \in 1 .. Len(b) : s[Len(a) + k] = b[k]
  /\ \A k \in 1 .. Len(c) : s[Len(a) + Len(b) + k] = c[k]

(* Four lists joined.                                                      *)
LEMMA FourJoined ==
  ASSUME NEW T, NEW a \in Seq(T), NEW b \in Seq(T), NEW c \in Seq(T), NEW d \in Seq(T)
  PROVE  FourAre(((a \o b) \o c) \o d, a, b, c, d)
<1> DEFINE e == a \o b
           f == e \o c
           s == f \o d
<1>1. Joined(a, b) /\ e \in Seq(T)
  BY JoinedOf
<1> HIDE DEF e
<1>2. Joined(e, c) /\ f \in Seq(T)
  BY <1>1, JoinedOf
<1> HIDE DEF f
<1>3. Joined(f, d) /\ s \in Seq(T)
  BY <1>2, JoinedOf
<1>4. Len(a) \in Nat /\ Len(b) \in Nat /\ Len(e) = Len(a) + Len(b) /\ \A k \in 1 .. Len(b) : e[Len(a) + k] = b[k]
  BY <1>1 DEF Joined, e
<1>5. Len(c) \in Nat /\ Len(f) = Len(e) + Len(c)
      /\ (\A k \in 1 .. Len(e) : f[k] = e[k]) /\ \A k \in 1 .. Len(c) : f[Len(e) + k] = c[k]
  BY <1>2 DEF Joined, f
<1>6. Len(d) \in Nat /\ Len(s) = Len(f) + Len(d) /\ \A k \in 1 .. Len(f) : s[k] = f[k]
  BY <1>3 DEF Joined
<1> HIDE DEF s
<1>7. ASSUME NEW k \in 1 .. Len(b) PROVE s[Len(a) + k] = b[k]
  <2>1. Len(a) + k \in 1 .. Len(e) /\ Len(a) + k \in 1 .. Len(f)
    BY <1>4, <1>5
  <2>2. QED
    BY <1>4, <1>5, <1>6, <2>1
<1>8. ASSUME NEW k \in 1 .. Len(c) PROVE s[Len(a) + Len(b) + k] = c[k]
  <2>1. Len(e) + k \in 1 .. Len(f) /\ Len(e) + k = Len(a) + Len(b) + k
    BY <1>4, <1>5
  <2>2. QED
    BY <1>5, <1>6, <2>1
<1>9. QED
  BY <1>3, <1>4, <1>5, <1>6, <1>7, <1>8 DEF s, f, e, FourAre

(* A list that is not empty has a last element.                            *)
LEMMA SplitLast ==
  ASSUME NEW S, NEW s \in Seq(S), s # <<>>
  PROVE  \E a \in Seq(S), e \in S : s = a \o <<e>>
<1>1. ASSUME NEW b \in Seq(S \ S) PROVE b = <<>>
  <2>1. S \ S = {}
    OBVIOUS
  <2>2. QED
    BY <2>1
<1>2. PICK a, m, b : LastAt(S, S, s, a, m, b)
  BY <1>1, LastSplit
<1>3. a \in Seq(S) /\ m \in S /\ b = <<>> /\ s = (a \o <<m>>) \o b /\ <<m>> \in Seq(S)
  BY <1>1, <1>2, OneType DEF LastAt
<1>4. a \o <<m>> \in Seq(S)
  BY <1>3, JoinType
<1>5. (a \o <<m>>) \o <<>> = a \o <<m>>
  BY <1>4, JoinNone
<1>6. QED
  BY <1>3, <1>5

(* A result follows its call in the whole conversation.                    *)
FollowsCall(format, s, j) ==
  \E i \in 1 .. j - 1 :
    /\ Contains(s[i].calls, s[j].id)
    /\ \A k \in i + 1 .. j - 1 :
         s[k].role = "tool" \/ OnlyCalls(s[k]) \/ (format = "anthropic" /\ s[k].role = "user" /\ k = i + 1)

(* The places between the call, at n + c, and the result, at n + l + p: the *)
(* rest of the call's part, and what is before the result in its own.      *)
LEMMA PlacesBetween ==
  ASSUME NEW n \in Nat, NEW l \in Nat, NEW z \in Nat, NEW c \in 1 .. l, NEW p \in 1 .. z,
         NEW k \in n + c + 1 .. n + l + p - 1
  PROVE  /\ k <= n + l => k - n \in c + 1 .. l /\ k - n \in 1 .. l /\ n + (k - n) = k
         /\ ~(k <= n + l) => /\ k - (n + l) \in 1 .. p - 1 /\ k - (n + l) \in 1 .. z
                             /\ n + l + (k - (n + l)) = k
         /\ c = l /\ k - (n + l) = 1 => k = n + c + 1
<1>1. n \in Int /\ l \in Int /\ z \in Int /\ c \in Int /\ p \in Int /\ k \in Int
  OBVIOUS
<1>2. 1 <= c /\ c <= l /\ 1 <= p /\ p <= z /\ n + c + 1 <= k /\ k <= n + l + p - 1
  OBVIOUS
<1>3. QED
  BY <1>1, <1>2

(* A result among the messages of a conversation follows its call: the     *)
(* turn it is from follows the turn with the call, and the ends of the two *)
(* meet.                                                                   *)
LEMMA ResultPlaced ==
  ASSUME NEW format, NEW s \in Seq(Turns), Answered(s),
         NEW j \in 1 .. Len(Spread(PartsOf(format), s)), Spread(PartsOf(format), s)[j].role = "tool"
  PROVE  FollowsCall(format, Spread(PartsOf(format), s), j)
<1> DEFINE F == PartsOf(format)
           M == Spread(F, s)
<1>1. Spreads(F, Turns, TurnMessages)
  BY PartsOfType
<1> HIDE DEF F
<1>2. LandsIn(F, Turns, s, j)
  BY <1>1, SpreadFind DEF F
<1>3. PICK u \in Seq(Turns), t \in Turns, v \in Seq(Turns) :
        s = (u \o <<t>>) \o v /\ \E p \in 1 .. Len(F[t]) : j = Len(Spread(F, u)) + p
  BY <1>2 DEF LandsIn
<1>4. PICK p \in 1 .. Len(F[t]) : j = Len(Spread(F, u)) + p
  BY <1>3
<1>5. <<t>> \in Seq(Turns) /\ u \o <<t>> \in Seq(Turns)
  BY OneType, JoinType
<1>6. Len(u) \in Nat /\ Len(u) + 1 \in 1 .. Len(s) /\ s[Len(u) + 1] = t /\ \A k \in 1 .. Len(u) : s[k] = u[k]
  <2> DEFINE e == u \o <<t>>
  <2>1. Joined(u, <<t>>) /\ Len(<<t>>) = 1 /\ <<t>>[1] = t
    BY <1>5, JoinedOf, ListOfOne
  <2>2. Joined(e, v)
    BY <1>5, JoinedOf
  <2>3. Len(u) \in Nat /\ Len(e) = Len(u) + 1 /\ e[Len(u) + 1] = t /\ \A k \in 1 .. Len(u) : e[k] = u[k]
    BY <2>1 DEF Joined
  <2> HIDE DEF e
  <2>4. s = e \o v
    BY <1>3 DEF e
  <2>5. Len(v) \in Nat /\ Len(s) = Len(e) + Len(v) /\ \A k \in 1 .. Len(e) : s[k] = e[k]
    BY <2>2, <2>4 DEF Joined
  <2>6. Len(u) + 1 \in 1 .. Len(e) /\ \A k \in 1 .. Len(u) : k \in 1 .. Len(e)
    BY <2>3
  <2>7. QED
    BY <2>3, <2>5, <2>6
<1> DEFINE a == Spread(F, u)
           x == F[t]
           d == Spread(F, v)
<1>7. SpreadGrows(F, u, t) /\ SpreadSplits(F, u \o <<t>>, v)
  BY <1>1, <1>5, SpreadMore, SpreadJoin, Zenon
<1>8. M = (a \o x) \o d
  BY <1>3, <1>7, Zenon DEF SpreadGrows, SpreadSplits
<1>9. a \in Seq(TurnMessages) /\ x \in Seq(TurnMessages) /\ d \in Seq(TurnMessages) /\ M \in Seq(TurnMessages)
  BY <1>1, SpreadType, SpreadsTo, Zenon
<1> HIDE DEF M
<1>10. M[j] = x[p]
  <2> HIDE DEF a, x, d
  <2> DEFINE e == a \o x
  <2>1. Joined(a, x) /\ e \in Seq(TurnMessages)
    BY <1>9, JoinedOf
  <2> HIDE DEF e
  <2>2. Joined(e, d)
    BY <1>9, <2>1, JoinedOf
  <2>3. M = e \o d
    BY <1>8 DEF e
  <2>4. Len(a) \in Nat /\ Len(e) = Len(a) + Len(x) /\ Len(x) \in Nat /\ e[Len(a) + p] = x[p]
    BY <1>4, <2>1 DEF Joined, e, x
  <2>5. \A k \in 1 .. Len(e) : M[k] = e[k]
    BY <2>2, <2>3 DEF Joined
  <2>6. j = Len(a) + p /\ p \in 1 .. Len(x)
    BY <1>4 DEF a, x
  <2>7. j \in 1 .. Len(e)
    BY <2>4, <2>6
  <2>8. QED
    BY <2>4, <2>5, <2>6, <2>7
<1>11. x[p].role = "tool"
  BY <1>10 DEF M, F
<1>12. PICK q \in DOMAIN t.results : x[p].id = t.results[q].id
  BY <1>11, ResultTurn DEF F
<1>13. \A k \in 1 .. p - 1 : BeforeResult(format, x[k], k)
  BY <1>11, ResultTurn DEF F
<1>14. Len(u) + 1 > 1 /\ AnswersCall(s[Len(u) + 1], q, s[Len(u)])
  BY <1>6, <1>12 DEF Answered
<1>15. Len(u) \in 1 .. Len(u) /\ u # <<>>
  BY <1>6, <1>14
<1>16. PICK u0 \in Seq(Turns), t1 \in Turns : u = u0 \o <<t1>>
  BY <1>15, SplitLast
<1>17. u[Len(u)] = t1
  <2>1. Joined(u0, <<t1>>) /\ Len(<<t1>>) = 1 /\ <<t1>>[1] = t1
    BY OneType, JoinedOf, ListOfOne
  <2>2. QED
    BY <1>16, <2>1 DEF Joined
<1>18. PICK q1 \in DOMAIN t1.calls : t1.calls[q1] = x[p].id
  BY <1>6, <1>12, <1>14, <1>15, <1>17 DEF AnswersCall
<1> DEFINE b == Spread(F, u0)
           w == F[t1]
<1>19. PICK c : CallAt(format, w, x[p].id, c)
  BY <1>18, CallTurn DEF F
<1>20. SpreadGrows(F, u0, t1)
  BY <1>1, SpreadMore, Zenon
<1>21. a = b \o w
  BY <1>16, <1>20, Zenon DEF SpreadGrows
<1>22. b \in Seq(TurnMessages) /\ w \in Seq(TurnMessages)
  BY <1>1, SpreadType, SpreadsTo, Zenon
<1>23. j = Len(a) + p /\ p \in 1 .. Len(x)
  BY <1>4
<1> HIDE DEF a, x, d, b, w
<1>24. M = ((b \o w) \o x) \o d
  BY <1>8, <1>21
<1> DEFINE n == Len(b)
           l == Len(w)
<1>25. /\ n \in Nat /\ l \in Nat /\ Len(x) \in Nat
       /\ (\A k \in 1 .. l : M[n + k] = w[k]) /\ \A k \in 1 .. Len(x) : M[n + l + k] = x[k]
  <2>1. FourAre(((b \o w) \o x) \o d, b, w, x, d)
    BY <1>9, <1>22, FourJoined
  <2>2. FourAre(M, b, w, x, d)
    BY <1>24, <2>1, Zenon
  <2>3. QED
    BY <2>2 DEF FourAre
<1>26. Len(a) = n + l
  BY <1>21, <1>22
<1>27. c \in 1 .. l /\ Contains(w[c].calls, x[p].id) /\ (\A k \in c + 1 .. l : OnlyCalls(w[k])) /\ (format # "responses" => c = l)
  BY <1>19 DEF CallAt
<1> HIDE DEF n, l
<1>27a. n \in Nat /\ l \in Nat /\ c \in 1 .. l /\ j = n + l + p /\ p \in 1 .. Len(x) /\ Len(x) \in Nat
  BY <1>23, <1>25, <1>26, <1>27
<1> DEFINE i == n + c
<1>28. i \in 1 .. j - 1
  BY <1>27a
<1>29. Contains(M[i].calls, M[j].id)
  BY <1>10, <1>25, <1>27
<1>30a. \A k \in i + 1 .. j - 1 :
          /\ k <= n + l => k - n \in c + 1 .. l /\ k - n \in 1 .. l /\ n + (k - n) = k
          /\ ~(k <= n + l) => k - (n + l) \in 1 .. p - 1 /\ k - (n + l) \in 1 .. Len(x) /\ n + l + (k - (n + l)) = k
          /\ c = l /\ k - (n + l) = 1 => k = i + 1
  BY <1>27a, PlacesBetween
<1>30. ASSUME NEW k \in i + 1 .. j - 1
       PROVE  M[k].role = "tool" \/ OnlyCalls(M[k]) \/ (format = "anthropic" /\ M[k].role = "user" /\ k = i + 1)
  <2>1. CASE k <= n + l
    <3>1. k - n \in c + 1 .. l /\ k - n \in 1 .. l /\ n + (k - n) = k
      BY <1>30a, <2>1, Zenon
    <3>2. OnlyCalls(w[k - n]) /\ M[k] = w[k - n]
      BY <1>25, <1>27, <3>1
    <3>3. QED
      BY <3>2
  <2>2. CASE ~(k <= n + l)
    <3> DEFINE h == k - (n + l)
    <3>1. h \in 1 .. p - 1 /\ h \in 1 .. Len(x) /\ n + l + h = k
      BY <1>30a, <2>2, Zenon
    <3>2. M[k] = x[h] /\ BeforeResult(format, x[h], h)
      BY <1>13, <1>25, <3>1
    <3>3. h = 1 /\ format = "anthropic" => k = i + 1
      <4>1. format = "anthropic" => c = l
        BY <1>27
      <4>2. QED
        BY <1>30a, <4>1, Zenon
    <3> HIDE DEF h
    <3>4. QED
      BY <3>2, <3>3 DEF BeforeResult
  <2>3. QED
    BY <2>1, <2>2
<1>31. FollowsCall(format, M, j)
  BY <1>28, <1>29, <1>30 DEF FollowsCall
<1>32. QED
  BY <1>31 DEF M, F

(* Each message says something, so that none is left out.                  *)
LEMMA AllSent ==
  ASSUME NEW s \in Seq(TurnMessages)
  PROVE  FlattenSeq([i \in DOMAIN s |->
           IF s[i].text # <<>> \/ s[i].images # <<>> \/ s[i].calls # <<>> THEN <<s[i]>> ELSE <<>>]) = s
<1> DEFINE F == [m \in TurnMessages |-> <<m>>]
           E == [i \in DOMAIN s |-> IF s[i].text # <<>> \/ s[i].images # <<>> \/ s[i].calls # <<>> THEN <<s[i]>> ELSE <<>>]
<1>1. \A m \in TurnMessages : m.text # <<>> \/ m.images # <<>> \/ m.calls # <<>>
  BY DEF TurnMessages, Speaks
<1>2. Follows(E, F, s, TurnMessages)
  BY <1>1 DEF Follows
<1>3. \A m \in TurnMessages : F[m] = <<m>>
  OBVIOUS
<1>4. Spread(F, s) = s
  <2> HIDE DEF F
  <2>1. QED
    BY <1>3, SpreadAll
<1>5. FlattenSeq(E) = Spread(F, s)
  <2> HIDE DEF F, E
  <2>1. QED
    BY <1>2, SpreadFollows
<1>6. QED
  BY <1>4, <1>5

(* The system prompt goes before them.                                     *)
SystemPart == Unless(system = <<>>, Message("system", system, <<>>, <<>>, <<>>))

(* The structured messages are the system prompt and the messages.         *)
LEMMA RemoteIs ==
  ASSUME ConversationInv, NEW format \in ClientFormats
  PROVE  remoteMessagesFromRequest(Request(format)) = SystemPart \o Messages(format)
<1>1. PICK s : s = Messages(format)
  OBVIOUS
<1>2. s \in Seq(TurnMessages)
  BY <1>1, MessagesAre DEF ConversationInv
<1>3. FlattenSeq([i \in DOMAIN s |->
        IF s[i].text # <<>> \/ s[i].images # <<>> \/ s[i].calls # <<>> THEN <<s[i]>> ELSE <<>>]) = s
  BY <1>2, AllSent
<1>4. Request(format).messages = s /\ Request(format).system = system
  BY <1>1 DEF Request
<1>5. remoteMessagesFromRequest(Request(format)) = SystemPart \o
        FlattenSeq([i \in DOMAIN s |->
          IF s[i].text # <<>> \/ s[i].images # <<>> \/ s[i].calls # <<>> THEN <<s[i]>> ELSE <<>>])
  BY <1>4 DEF remoteMessagesFromRequest, SystemPart, Only
<1>6. QED
  BY <1>1, <1>3, <1>5

(* The property, from the invariant.                                       *)
LEMMA ResultsFollowCallsOfInv == ConversationInv => ResultsFollowCalls
<1> SUFFICES ASSUME ConversationInv, NEW format \in ClientFormats,
                    NEW j \in DOMAIN projectMessages(remoteMessagesFromRequest(Request(format))),
                    projectMessages(remoteMessagesFromRequest(Request(format)))[j].role = "tool"
             PROVE  LET sent == projectMessages(remoteMessagesFromRequest(Request(format)))
                    IN  \E i \in 1 .. (j - 1) :
                          /\ Contains(sent[i].calls, sent[j].id)
                          /\ \A k \in (i + 1) .. (j - 1) :
                               \/ sent[k].role = "tool"
                               \/ sent[k].role = "assistant" /\ sent[k].content = <<>>
                               \/ format = "anthropic" /\ sent[k].role = "user" /\ k = i + 1
  BY DEF ResultsFollowCalls
<1>1. PICK s : s = conv
  OBVIOUS
<1>2. PICK M : M = Messages(format)
  OBVIOUS
<1>3. PICK a : a = SystemPart
  OBVIOUS
<1>4. PICK r : r = remoteMessagesFromRequest(Request(format))
  OBVIOUS
<1>5. PICK sent : sent = projectMessages(r)
  OBVIOUS
<1>6. s \in Seq(Turns) /\ Answered(s)
  BY <1>1 DEF ConversationInv
<1>7. M = Spread(PartsOf(format), s) /\ M \in Seq(TurnMessages)
  BY <1>1, <1>2, MessagesAre DEF ConversationInv
<1>8. r = a \o M
  BY <1>2, <1>3, <1>4, RemoteIs
<1>9. a = <<>> \/ \E m : a = <<m>> /\ m.role = "system"
  <2> DEFINE m == Message("system", system, <<>>, <<>>, <<>>)
  <2>1. m.role = "system"
    BY DEF Message
  <2>2. a = Unless(system = <<>>, m)
    BY <1>3 DEF SystemPart
  <2> HIDE DEF m
  <2>3. QED
    BY <2>1, <2>2, UnlessIs, Zenon
<1>10. PICK T : a \in Seq(T) /\ M \in Seq(T) /\ \A k \in 1 .. Len(a) : a[k].role = "system"
  <2>1. CASE a = <<>>
    <3>1. Len(a) = 0 /\ a \in Seq(TurnMessages)
      BY <2>1
    <3>2. 1 .. Len(a) = {}
      BY <3>1
    <3>3. QED
      BY <1>7, <3>1, <3>2
  <2>2. CASE a # <<>>
    <3>1. PICK m : a = <<m>> /\ m.role = "system"
      BY <1>9, <2>2
    <3>2. <<m>> \in Seq(TurnMessages \cup {m}) /\ M \in Seq(TurnMessages \cup {m})
      BY <1>7, OneType, SeqMonotonic
    <3>3. Len(<<m>>) = 1 /\ <<m>>[1] = m
      BY ListOfOne
    <3>4. \A k \in 1 .. Len(a) : a[k].role = "system"
      BY <3>1, <3>3
    <3>5. QED
      BY <3>1, <3>2, <3>4
  <2>3. QED
    BY <2>1, <2>2
<1>11. Joined(a, M) /\ r \in Seq(T)
  BY <1>8, <1>10, JoinedOf
<1> DEFINE n == Len(a)
<1>12. n \in Nat /\ Len(M) \in Nat /\ DOMAIN r = 1 .. n + Len(M)
       /\ (\A k \in 1 .. n : r[k] = a[k]) /\ \A k \in 1 .. Len(M) : r[n + k] = M[k]
  BY <1>8, <1>11 DEF Joined
<1> HIDE DEF n
<1>13. DOMAIN sent = DOMAIN r /\ \A k \in DOMAIN r : sent[k].role = r[k].role /\ sent[k].id = r[k].id
         /\ sent[k].calls = r[k].calls /\ sent[k].content = ContentBlocks("text", r[k].text)
  BY <1>5 DEF projectMessages, Each, Wire
<1>14. ContentBlocks("text", <<>>) = <<>>
  BY DEF ContentBlocks
<1>15. j \in 1 .. n + Len(M) /\ sent[j].role = "tool" /\ r[j].role = "tool"
  BY <1>4, <1>5, <1>12, <1>13
<1>16. ~(j <= n)
  <2> SUFFICES ASSUME j <= n PROVE FALSE
    OBVIOUS
  <2>1. j \in 1 .. n
    BY <1>12, <1>15
  <2>2. r[j].role = "system" /\ "system" # "tool"
    BY <1>10, <1>12, <2>1 DEF n
  <2>3. QED
    BY <1>15, <2>2
<1> DEFINE h == j - n
<1>17. h \in 1 .. Len(M) /\ n + h = j
  BY <1>12, <1>15, <1>16
<1> HIDE DEF h
<1>18. M[h].role = "tool" /\ r[j] = M[h]
  BY <1>12, <1>15, <1>17
<1>19. FollowsCall(format, M, h)
  BY <1>6, <1>7, <1>17, <1>18, ResultPlaced
<1>20. PICK c \in 1 .. h - 1 :
         /\ Contains(M[c].calls, M[h].id)
         /\ \A k \in c + 1 .. h - 1 :
              M[k].role = "tool" \/ OnlyCalls(M[k]) \/ (format = "anthropic" /\ M[k].role = "user" /\ k = c + 1)
  BY <1>19 DEF FollowsCall
<1>21. n + c \in 1 .. j - 1 /\ c \in 1 .. Len(M) /\ n + c \in DOMAIN r /\ j \in DOMAIN r
  BY <1>12, <1>15, <1>17
<1>22. Contains(sent[n + c].calls, sent[j].id)
  BY <1>12, <1>13, <1>18, <1>20, <1>21
<1>23. ASSUME NEW k \in (n + c) + 1 .. j - 1
       PROVE  \/ sent[k].role = "tool"
              \/ sent[k].role = "assistant" /\ sent[k].content = <<>>
              \/ format = "anthropic" /\ sent[k].role = "user" /\ k = (n + c) + 1
  <2> DEFINE g == k - n
  <2>1. g \in c + 1 .. h - 1 /\ g \in 1 .. Len(M) /\ n + g = k /\ k \in DOMAIN r /\ (g = c + 1 => k = (n + c) + 1)
    BY <1>12, <1>15, <1>17, <1>20
  <2> HIDE DEF g
  <2>2. r[k] = M[g]
    BY <1>12, <2>1
  <2>3. M[g].role = "tool" \/ OnlyCalls(M[g]) \/ (format = "anthropic" /\ M[g].role = "user" /\ g = c + 1)
    BY <1>20, <2>1
  <2>4. sent[k].role = M[g].role /\ sent[k].content = ContentBlocks("text", M[g].text)
    BY <1>13, <2>1, <2>2
  <2>5. CASE OnlyCalls(M[g])
    <3>1. M[g].role = "assistant" /\ M[g].text = <<>>
      BY <2>5 DEF OnlyCalls
    <3>2. QED
      BY <1>14, <2>4, <3>1
  <2>6. QED
    BY <2>1, <2>3, <2>4, <2>5
<1>24. QED
  BY <1>4, <1>5, <1>21, <1>22, <1>23

(* The structured messages of every conversation: a result follows the     *)
(* message with its call.                                                  *)
THEOREM ResultsFollowCallsTheorem == ConversationSpec => []ResultsFollowCalls
<1>1. ConversationInv => ResultsFollowCalls
  BY ResultsFollowCallsOfInv
<1>2. QED
  BY <1>1, ConversationInvHolds, PTL

(***************************************************************************)
(* NothingLost.                                                            *)
(***************************************************************************)
TextOf == [m \in AllMessages |-> m.text]

(* The text of a message.                                                  *)
LEMMA TextOfTypes == Spreads(TextOf, AllMessages, AllMarks) /\ Spreads(TextOf, TurnMessages, TurnMarks)
<1>1. \A m \in AllMessages : TextOf[m] \in Seq(AllMarks)
  BY DEF TextOf, AllMessages
<1>2. ASSUME NEW m \in TurnMessages PROVE TextOf[m] \in Seq(TurnMarks)
  <2>1. m \in AllMessages /\ m.text \in Seq(TurnMarks)
    BY TurnMessagesAre DEF TurnMessages
  <2>2. QED
    BY <2>1 DEF TextOf
<1>3. QED
  BY <1>1, <1>2 DEF Spreads

(* The entries of a prompt.                                                *)
Entries == [role : Roles, text : Seq(AllMarks)]
(* The entries of a prompt, from the messages with a text.                 *)
EntryText == [e \in Entries |-> e.text]
AsEntry(m) == [role |-> IF m.role = "tool" THEN "user" ELSE m.role, text |-> m.text]
Texted == [m \in AllMessages |-> IF m.text # <<>> THEN <<m>> ELSE <<>>]
Entered == [m \in AllMessages |-> <<AsEntry(m)>>]
EntryOf == [m \in AllMessages |-> IF m.text # <<>> THEN <<AsEntry(m)>> ELSE <<>>]

(* Their types, and the code's filter and its texts as spreads.            *)
LEMMA EntryTypes ==
  /\ Spreads(EntryOf, AllMessages, Entries) /\ Spreads(Texted, AllMessages, AllMessages)
  /\ Spreads(Entered, AllMessages, Entries) /\ Spreads(EntryText, Entries, AllMarks)
  /\ \A m \in AllMessages : AsEntry(m) \in Entries /\ AsEntry(m).text = m.text
<1>1. ASSUME NEW m \in AllMessages PROVE AsEntry(m) \in Entries /\ AsEntry(m).text = m.text
  <2>1. m.role \in Roles /\ m.text \in Seq(AllMarks) /\ "user" \in Roles
    BY RolesAre DEF AllMessages
  <2>2. (IF m.role = "tool" THEN "user" ELSE m.role) \in Roles
    BY <2>1
  <2>3. QED
    BY <2>1, <2>2 DEF AsEntry, Entries
<1>2. \A m \in AllMessages : EntryOf[m] \in Seq(Entries) /\ Texted[m] \in Seq(AllMessages) /\ Entered[m] \in Seq(Entries)
  <2> SUFFICES ASSUME NEW m \in AllMessages
               PROVE  EntryOf[m] \in Seq(Entries) /\ Texted[m] \in Seq(AllMessages) /\ Entered[m] \in Seq(Entries)
    OBVIOUS
  <2>1. <<AsEntry(m)>> \in Seq(Entries) /\ <<m>> \in Seq(AllMessages) /\ <<>> \in Seq(Entries) /\ <<>> \in Seq(AllMessages)
    BY <1>1, OneType, NoneType
  <2>2. QED
    BY <2>1 DEF EntryOf, Texted, Entered
<1>3. \A e \in Entries : EntryText[e] \in Seq(AllMarks)
  BY DEF EntryText, Entries
<1>4. QED
  BY <1>1, <1>2, <1>3 DEF Spreads

LEMMA FilteredIs ==
  ASSUME NEW s \in Seq(AllMessages)
  PROVE  filteredMessages(s) = Spread(EntryOf, s) /\ filteredMessages(s) \in Seq(Entries)
<1> DEFINE E == [i \in DOMAIN s |-> IF s[i].text # <<>> THEN <<s[i]>> ELSE <<>>]
           x == FlattenSeq(E)
           y == [i \in DOMAIN x |-> AsEntry(x[i])]
<1>1. x = Spread(Texted, s)
  <2>1. Follows(E, Texted, s, AllMessages)
    BY DEF Follows, Texted
  <2> HIDE DEF E
  <2>2. QED
    BY <2>1, SpreadFollows
<1>2. x \in Seq(AllMessages)
  BY <1>1, EntryTypes, SpreadType, Zenon
<1>3. filteredMessages(s) = y
  BY DEF filteredMessages, Each, Only, AsEntry
<1> HIDE DEF x
<1>4. y = Spread(Entered, x)
  <2>1. OneEach(Entered, AllMessages)
    BY DEF OneEach, Entered
  <2>2. FollowsOne(y, Entered, x, AllMessages)
    BY DEF FollowsOne, Entered
  <2> HIDE DEF y
  <2>3. QED
    BY <1>2, <2>1, <2>2, EachIsSpread, Zenon
<1>5. Composes(Texted, Entered, EntryOf, AllMessages)
  <2> SUFFICES ASSUME NEW m \in AllMessages PROVE Spread(Entered, Texted[m]) = EntryOf[m]
    BY DEF Composes
  <2>1. Spread(Entered, <<m>>) = Entered[m] /\ Entered[m] = <<AsEntry(m)>>
    BY EntryTypes, SpreadOne DEF Entered
  <2>2. Spread(Entered, <<>>) = <<>>
    BY SpreadNone, Zenon
  <2>3. CASE m.text # <<>>
    <3>1. Texted[m] = <<m>> /\ EntryOf[m] = <<AsEntry(m)>>
      BY <2>3 DEF Texted, EntryOf
    <3>2. QED
      BY <2>1, <3>1, Zenon
  <2>4. CASE m.text = <<>>
    <3>1. Texted[m] = <<>> /\ EntryOf[m] = <<>>
      BY <2>4 DEF Texted, EntryOf
    <3>2. QED
      BY <2>2, <3>1, Zenon
  <2>5. QED
    BY <2>3, <2>4
<1>6. Gives(Texted, Entered, s, Spread(EntryOf, s))
  BY <1>5, EntryTypes, SpreadComposed, Zenon
<1>7. Spread(EntryOf, s) \in Seq(Entries)
  BY EntryTypes, SpreadType, Zenon
<1>8. filteredMessages(s) = Spread(EntryOf, s)
  BY <1>1, <1>3, <1>4, <1>6, Zenon DEF Gives
<1>9. QED
  BY <1>7, <1>8, Zenon

LEMMA TextsAre ==
  ASSUME NEW s \in Seq(Entries)
  PROVE  Texts(s) = Spread(EntryText, s) /\ Texts(s) \in Seq(AllMarks)
<1> DEFINE E == [i \in DOMAIN s |-> s[i].text]
<1>1. Follows(E, EntryText, s, Entries)
  BY DEF Follows, EntryText
<1>2. Texts(s) = FlattenSeq(E)
  BY DEF Texts
<1> HIDE DEF E
<1>3. FlattenSeq(E) = Spread(EntryText, s)
  BY <1>1, SpreadFollows, Zenon
<1>4. Spread(EntryText, s) \in Seq(AllMarks)
  BY EntryTypes, SpreadType, Zenon
<1>5. QED
  BY <1>2, <1>3, <1>4, Zenon

(* The entries have the texts of the messages.                             *)
LEMMA FilteredTexts ==
  ASSUME NEW s \in Seq(AllMessages)
  PROVE  Texts(filteredMessages(s)) = Spread(TextOf, s)
<1>1. Composes(EntryOf, EntryText, TextOf, AllMessages)
  <2> SUFFICES ASSUME NEW m \in AllMessages PROVE Spread(EntryText, EntryOf[m]) = TextOf[m]
    BY DEF Composes
  <2>1. AsEntry(m) \in Entries /\ AsEntry(m).text = m.text
    BY EntryTypes
  <2>2. Spread(EntryText, <<AsEntry(m)>>) = EntryText[AsEntry(m)]
    <3>1. PICK e : e = AsEntry(m)
      OBVIOUS
    <3>2. e \in Entries /\ Spreads(EntryText, Entries, AllMarks)
      BY <2>1, <3>1, EntryTypes
    <3>3. Spread(EntryText, <<e>>) = EntryText[e]
      BY <3>2, SpreadOne, Zenon
    <3>4. QED
      BY <3>1, <3>3, Zenon
  <2>3. EntryText[AsEntry(m)] = m.text
    BY <2>1 DEF EntryText
  <2>4. Spread(EntryText, <<>>) = <<>>
    BY SpreadNone, Zenon
  <2>5. TextOf[m] = m.text
    BY DEF TextOf
  <2>6. EntryOf[m] = IF m.text # <<>> THEN <<AsEntry(m)>> ELSE <<>>
    BY DEF EntryOf
  <2>7. QED
    BY <2>2, <2>3, <2>4, <2>5, <2>6, Zenon
<1>2. Gives(EntryOf, EntryText, s, Spread(TextOf, s))
  BY <1>1, EntryTypes, SpreadComposed, Zenon
<1>3. filteredMessages(s) = Spread(EntryOf, s) /\ filteredMessages(s) \in Seq(Entries)
  BY FilteredIs, Zenon
<1>4. Texts(filteredMessages(s)) = Spread(EntryText, filteredMessages(s))
  BY <1>3, TextsAre, Zenon
<1>5. QED
  BY <1>2, <1>3, <1>4, Zenon DEF Gives

(* What a turn says.                                                       *)
ResultText == [r \in Results |-> r.text]
(* The text of results, on the client's side and in the messages.          *)
ResultWords == [r \in Results |-> NonBlank(r.text)]

LEMMA ResultWordsAre ==
  /\ Spreads(ResultText, Results, AllPieces) /\ Spreads(ResultWords, Results, TurnMarks)
  /\ Composes(ResultText, NotBlank, ResultWords, Results) /\ Composes(ToolPart, TextOf, ResultWords, Results)
<1>1. \A r \in Results : ResultText[r] \in Seq(AllPieces) /\ ResultWords[r] \in Seq(TurnMarks)
  BY ResultTypes DEF ResultText, ResultWords
<1>2. ASSUME NEW r \in Results PROVE Spread(NotBlank, ResultText[r]) = ResultWords[r]
  <2>1. r.text \in Seq(AllPieces)
    BY ResultTypes
  <2>2. NonBlank(r.text) = Spread(NotBlank, r.text)
    BY <2>1, NonBlankIs, Zenon
  <2>3. ResultText[r] = r.text /\ ResultWords[r] = NonBlank(r.text)
    BY DEF ResultText, ResultWords
  <2>4. QED
    BY <2>2, <2>3, Zenon
<1>3. ASSUME NEW r \in Results PROVE Spread(TextOf, ToolPart[r]) = ResultWords[r]
  <2> DEFINE x == NonBlank(r.text)
             m == Message("tool", x, <<>>, r.id, <<>>)
  <2>1. ToolPart[r] = Unless(x = <<>>, m) /\ ResultWords[r] = x
    BY DEF ToolPart, ResultWords
  <2>2. ToolPart[r] \in Seq(TurnMessages)
    BY PartTypes, SpreadsTo
  <2>3. m.text = x
    BY DEF Message
  <2> HIDE DEF m, x
  <2>4. CASE x = <<>> /\ ToolPart[r] = <<>>
    BY <2>1, <2>4, SpreadNone, Zenon
  <2>5. CASE ToolPart[r] = <<m>>
    <3>1. m \in TurnMessages
      BY <2>2, <2>5
    <3>2. Spread(TextOf, <<m>>) = TextOf[m]
      BY <3>1, TextOfTypes, SpreadOne, Zenon
    <3>3. TextOf[m] = x
      BY <2>3, <3>1, TurnMessagesAre DEF TextOf
    <3>4. QED
      BY <2>1, <2>5, <3>2, <3>3, Zenon
  <2>6. QED
    BY <2>1, <2>4, <2>5, UnlessIs, Zenon
<1>4. QED
  BY <1>1, <1>2, <1>3 DEF Spreads, Composes

(* What a turn says, in the order of the format's messages.                *)
SayOf(format) == [t \in Turns |->
  IF format = "anthropic" THEN NonBlank(t.texts) \o Spread(ResultWords, t.results)
  ELSE Spread(ResultWords, t.results) \o NonBlank(t.texts)]

(* The text of one message, of a message or none, of the words of a turn.  *)
LEMMA OneText ==
  ASSUME NEW m \in TurnMessages
  PROVE  Spread(TextOf, <<m>>) = m.text
<1>1. Spread(TextOf, <<m>>) = TextOf[m]
  BY TextOfTypes, SpreadOne, Zenon
<1>2. TextOf[m] = m.text
  BY TurnMessagesAre DEF TextOf
<1>3. QED
  BY <1>1, <1>2, Zenon

LEMMA UnlessText ==
  ASSUME NEW c, NEW m, Unless(c, m) \in Seq(TurnMessages), NEW x, c => x = <<>>, m.text = x
  PROVE  Spread(TextOf, Unless(c, m)) = x
<1>1. CASE Unless(c, m) = <<>> /\ c
  BY <1>1, SpreadNone, Zenon
<1>2. CASE Unless(c, m) = <<m>>
  <2>1. m \in TurnMessages
    BY <1>2
  <2>2. Spread(TextOf, <<m>>) = m.text
    BY <2>1, OneText, Zenon
  <2>3. QED
    BY <1>2, <2>2, Zenon
<1>3. QED
  BY <1>1, <1>2, UnlessIs, Zenon

LEMMA SpokenTexts ==
  ASSUME NEW t \in Turns
  PROVE  /\ t.who = "user" => Spread(TextOf, UserPart(t)) = NonBlank(t.texts)
         /\ Spread(TextOf, AnswerPart(t)) = NonBlank(t.texts)
         /\ Spread(TextOf, SayPart(t)) = NonBlank(t.texts)
         /\ Spread(TextOf, Spread(CallPart, t.calls)) = <<>>
<1> DEFINE x == NonBlank(t.texts)
           y == NonBlank(t.images)
<1>1. ASSUME t.who = "user" PROVE Spread(TextOf, UserPart(t)) = x
  <2> DEFINE m == Message("user", x, y, <<>>, <<>>)
             c == x = <<>> /\ y = <<>>
  <2>1. m.text = x
    BY DEF Message
  <2>2. UserPart(t) = Unless(c, m) /\ UserPart(t) \in Seq(TurnMessages)
    BY <1>1, PartTypes DEF UserPart
  <2>3. c => x = <<>>
    OBVIOUS
  <2> HIDE DEF m, c, x, y
  <2>4. Unless(c, m) \in Seq(TurnMessages)
    BY <2>2, Zenon
  <2>5. Spread(TextOf, Unless(c, m)) = x
    BY <2>1, <2>3, <2>4, UnlessText, Zenon
  <2>6. QED
    BY <2>2, <2>5, Zenon
<1>2. Spread(TextOf, AnswerPart(t)) = x
  <2> DEFINE m == Message("assistant", x, <<>>, <<>>, t.calls)
             c == x = <<>> /\ t.calls = <<>>
  <2>1. m.text = x
    BY DEF Message
  <2>2. AnswerPart(t) = Unless(c, m) /\ AnswerPart(t) \in Seq(TurnMessages)
    BY PartTypes DEF AnswerPart
  <2>3. c => x = <<>>
    OBVIOUS
  <2> HIDE DEF m, c, x, y
  <2>4. Unless(c, m) \in Seq(TurnMessages)
    BY <2>2, Zenon
  <2>5. Spread(TextOf, Unless(c, m)) = x
    BY <2>1, <2>3, <2>4, UnlessText, Zenon
  <2>6. QED
    BY <2>2, <2>5, Zenon
<1>3. Spread(TextOf, SayPart(t)) = x
  <2> DEFINE m == Message("assistant", x, <<>>, <<>>, <<>>)
             c == x = <<>>
  <2>1. m.text = x
    BY DEF Message
  <2>2. SayPart(t) = Unless(c, m) /\ SayPart(t) \in Seq(TurnMessages)
    BY PartTypes DEF SayPart
  <2>3. c => x = <<>>
    OBVIOUS
  <2> HIDE DEF m, c, x, y
  <2>4. Unless(c, m) \in Seq(TurnMessages)
    BY <2>2, Zenon
  <2>5. Spread(TextOf, Unless(c, m)) = x
    BY <2>1, <2>3, <2>4, UnlessText, Zenon
  <2>6. QED
    BY <2>2, <2>5, Zenon
<1>4. Spread(TextOf, Spread(CallPart, t.calls)) = <<>>
  <2>1. ASSUME NEW id \in TurnMarks PROVE Spread(TextOf, CallPart[id]) = <<>>
    <3> DEFINE m == Message("assistant", <<>>, <<>>, <<>>, <<id>>)
    <3>1. CallPart[id] = <<m>> /\ m.text = <<>>
      BY DEF CallPart, Message
    <3>2. CallPart[id] \in Seq(TurnMessages)
      BY PartTypes, SpreadsTo
    <3> HIDE DEF m
    <3>3. m \in TurnMessages
      BY <3>1, <3>2
    <3>4. Spread(TextOf, <<m>>) = m.text
      BY <3>3, OneText, Zenon
    <3>5. QED
      BY <3>1, <3>4, Zenon
  <2>2. Cancels(CallPart, TextOf, TurnMarks)
    BY <2>1, Zenon DEF Cancels
  <2>3. t.calls \in Seq(TurnMarks) /\ Spreads(CallPart, TurnMarks, TurnMessages) /\ Spreads(TextOf, TurnMessages, TurnMarks)
    BY TurnTypes, PartTypes, TextOfTypes
  <2>4. Gives(CallPart, TextOf, t.calls, <<>>)
    BY <2>2, <2>3, SpreadCancelled, Zenon
  <2>5. QED
    BY <2>4, Zenon DEF Gives
<1>5. QED
  BY <1>1, <1>2, <1>3, <1>4

(* What a turn comes to says what the turn says.                           *)
LEMMA PartSays ==
  ASSUME NEW format
  PROVE  Composes(PartsOf(format), TextOf, SayOf(format), Turns)
<1> SUFFICES ASSUME NEW t \in Turns PROVE Spread(TextOf, PartsOf(format)[t]) = SayOf(format)[t]
  BY DEF Composes
<1> DEFINE x == NonBlank(t.texts)
           tools == Spread(ToolPart, t.results)
           calls == Spread(CallPart, t.calls)
           z == Spread(ResultWords, t.results)
<1>1. t.results \in Seq(Results) /\ t.calls \in Seq(TurnMarks) /\ t.texts \in Seq(TurnPieces)
  BY TurnTypes
<1>2. Spreads(ToolPart, Results, TurnMessages) /\ Spreads(TextOf, TurnMessages, TurnMarks)
      /\ Spreads(CallPart, TurnMarks, TurnMessages)
  BY PartTypes, TextOfTypes
<1>3. tools \in Seq(TurnMessages) /\ calls \in Seq(TurnMessages) /\ z \in Seq(TurnMarks)
  BY <1>1, <1>2, ResultWordsAre, SpreadType, Zenon
<1>4. Spread(TextOf, tools) = z
  <2>1. Composes(ToolPart, TextOf, ResultWords, Results)
    BY ResultWordsAre
  <2>2. Gives(ToolPart, TextOf, t.results, z)
    BY <1>1, <1>2, <2>1, SpreadComposed, Zenon
  <2>3. QED
    BY <2>2, Zenon DEF Gives
<1>5. x \in Seq(TurnMarks)
  BY <1>1, NonBlankType
<1>6. SayOf(format)[t] = IF format = "anthropic" THEN x \o z ELSE z \o x
  BY DEF SayOf
<1>7. "user" # "assistant"
  OBVIOUS
<1>8. CASE t.who = "user"
  <2> DEFINE u == UserPart(t)
  <2>1. u \in Seq(TurnMessages) /\ Spread(TextOf, u) = x
    BY <1>8, PartTypes, SpokenTexts
  <2>2. PartsOf(format)[t] = IF format = "anthropic" THEN u \o tools ELSE tools \o u
    BY <1>8 DEF PartsOf
  <2> HIDE DEF u, tools, x, z
  <2>3. SpreadSplits(TextOf, u, tools) /\ SpreadSplits(TextOf, tools, u)
    BY <1>2, <1>3, <2>1, SpreadJoin, Zenon
  <2>4. QED
    BY <1>4, <1>6, <2>1, <2>2, <2>3, Zenon DEF SpreadSplits
<1>9. CASE t.who = "assistant"
  <2> DEFINE a == AnswerPart(t)
             b == SayPart(t)
  <2>1. a \in Seq(TurnMessages) /\ b \in Seq(TurnMessages)
    BY PartTypes
  <2>2. Spread(TextOf, a) = x /\ Spread(TextOf, b) = x /\ Spread(TextOf, calls) = <<>>
    BY SpokenTexts, Zenon
  <2>3. PartsOf(format)[t] = IF format = "responses" THEN b \o calls ELSE a
    BY <1>7, <1>9 DEF PartsOf
  <2>4. z = <<>>
    <3>1. t.results = <<>>
      BY <1>7, <1>9, TurnTypes
    <3>2. QED
      BY <3>1, SpreadNone, Zenon
  <2> HIDE DEF a, b, calls, x, z
  <2>5. SpreadSplits(TextOf, b, calls)
    BY <1>2, <1>3, <2>1, SpreadJoin, Zenon
  <2>6. x \o <<>> = x /\ <<>> \o x = x
    BY <1>5, JoinNone, NoneJoin, Zenon
  <2>7. Spread(TextOf, b \o calls) = x
    BY <2>2, <2>5, <2>6, Zenon DEF SpreadSplits
  <2>8. SayOf(format)[t] = x
    BY <1>6, <2>4, <2>6, Zenon
  <2>9. QED
    BY <2>2, <2>3, <2>7, <2>8, Zenon
<1>10. QED
  BY <1>8, <1>9, TurnTypes

(* The messages say what the conversation says.                            *)
LEMMA SaidIs ==
  ASSUME conv \in Seq(Turns), NEW format \in ClientFormats
  PROVE  Said(format) = Spread(TextOf, Messages(format)) /\ Said(format) \in Seq(TurnMarks)
<1>1. PICK s : s = conv
  OBVIOUS
<1>2. s \in Seq(Turns)
  BY <1>1
<1> DEFINE results(t) == NonBlank(FlattenSeq([i \in DOMAIN t.results |-> t.results[i].text]))
           say(t) == IF format = "anthropic" THEN NonBlank(t.texts) \o results(t) ELSE results(t) \o NonBlank(t.texts)
           E == [i \in DOMAIN s |-> say(s[i])]
<1>3. Said(format) = FlattenSeq(E)
  BY <1>1 DEF Said, Each
<1>4. ASSUME NEW t \in Turns PROVE results(t) = Spread(ResultWords, t.results)
  <2> DEFINE r == t.results
             D == [i \in DOMAIN r |-> r[i].text]
  <2>1. r \in Seq(Results)
    BY TurnTypes
  <2>2. Follows(D, ResultText, r, Results)
    BY DEF Follows, ResultText
  <2> HIDE DEF D, r
  <2>3. FlattenSeq(D) = Spread(ResultText, r)
    BY <2>1, <2>2, SpreadFollows, Zenon
  <2>4. Spreads(ResultText, Results, AllPieces) /\ Composes(ResultText, NotBlank, ResultWords, Results)
        /\ Spreads(NotBlank, AllPieces, AllMarks)
    BY ResultWordsAre, NotBlankSpreads, Zenon
  <2>5. Spread(ResultText, r) \in Seq(AllPieces)
    BY <2>1, <2>4, SpreadType, Zenon
  <2>6. NonBlank(Spread(ResultText, r)) = Spread(NotBlank, Spread(ResultText, r))
    BY <2>5, NonBlankIs, Zenon
  <2>7. Gives(ResultText, NotBlank, r, Spread(ResultWords, r))
    BY <2>1, <2>4, SpreadComposed, Zenon
  <2>8. NonBlank(FlattenSeq(D)) = Spread(ResultWords, r)
    BY <2>3, <2>6, <2>7, Zenon DEF Gives
  <2>9. QED
    BY <2>8, Zenon DEF D, r
<1>5. ASSUME NEW t \in Turns PROVE say(t) = SayOf(format)[t]
  <2>1. results(t) = Spread(ResultWords, t.results)
    BY <1>4
  <2> HIDE DEF results
  <2>2. QED
    BY <2>1 DEF SayOf
<1>6. Follows(E, SayOf(format), s, Turns)
  <2> HIDE DEF say
  <2>1. QED
    BY <1>5 DEF Follows
<1> HIDE DEF E
<1>7. FlattenSeq(E) = Spread(SayOf(format), s)
  BY <1>2, <1>6, SpreadFollows, Zenon
<1>8. Spreads(PartsOf(format), Turns, TurnMessages) /\ Spreads(TextOf, TurnMessages, TurnMarks)
      /\ Composes(PartsOf(format), TextOf, SayOf(format), Turns)
  BY PartsOfType, TextOfTypes, PartSays, Zenon
<1>9. Gives(PartsOf(format), TextOf, s, Spread(SayOf(format), s))
  BY <1>2, <1>8, SpreadComposed, Zenon
<1>10. Messages(format) = Spread(PartsOf(format), s) /\ Messages(format) \in Seq(TurnMessages)
  BY <1>1, MessagesAre
<1>11. Said(format) = Spread(TextOf, Messages(format))
  BY <1>3, <1>7, <1>9, <1>10, Zenon DEF Gives
<1>12. Spread(TextOf, Messages(format)) \in Seq(TurnMarks)
  BY <1>8, <1>10, SpreadType, Zenon
<1>13. QED
  BY <1>11, <1>12, Zenon

(* What is spread has the images of the elements.                          *)
LEMMA SpreadHas ==
  ASSUME NEW S, NEW T, NEW F, Spreads(F, S, T), NEW s \in Seq(S)
  PROVE  \A i \in 1 .. Len(s) : \A e : Contains(F[s[i]], e) => Contains(Spread(F, s), e)
<1> DEFINE Q(u) == \A i \in 1 .. Len(u) : \A e : Contains(F[u[i]], e) => Contains(Spread(F, u), e)
           P == {u \in Seq(S) : Q(u)}
<1>1. <<>> \in P
  <2>1. <<>> \in Seq(S) /\ 1 .. Len(<<>>) = {}
    OBVIOUS
  <2>2. QED
    BY <2>1, Zenon
<1>2. ASSUME NEW u \in Seq(S), u \in P, NEW x \in S PROVE u \o <<x>> \in P
  <2> DEFINE w == u \o <<x>>
             a == Spread(F, u)
             b == F[x]
  <2>1. w \in Seq(S)
    BY OneType, JoinType, Zenon
  <2>2. SpreadGrows(F, u, x)
    BY SpreadMore, Zenon
  <2>3. a \in Seq(T) /\ b \in Seq(T)
    BY SpreadType, SpreadsTo, Zenon
  <2>4. Joined(a, b)
    BY <2>3, JoinedOf
  <2>5. Spread(F, w) = a \o b
    BY <2>2, Zenon DEF SpreadGrows
  <2>6. Len(u) \in Nat /\ Len(w) = Len(u) + 1 /\ w[Len(u) + 1] = x /\ \A i \in 1 .. Len(u) : w[i] = u[i]
    BY <2>1
  <2>7. \A i \in 1 .. Len(u) : \A e : Contains(F[u[i]], e) => Contains(a, e)
    BY <1>2, Zenon
  <2> HIDE DEF a, b, w
  <2>8. \A e : Contains(a, e) \/ Contains(b, e) => Contains(a \o b, e)
    <3>1. Len(a) \in Nat /\ Len(b) \in Nat /\ Len(a \o b) = Len(a) + Len(b)
          /\ (\A i \in 1 .. Len(a) : (a \o b)[i] = a[i]) /\ \A i \in 1 .. Len(b) : (a \o b)[Len(a) + i] = b[i]
      BY <2>4 DEF Joined
    <3>2. \A i \in 1 .. Len(a) : i \in 1 .. Len(a \o b)
      BY <3>1
    <3>3. \A i \in 1 .. Len(b) : Len(a) + i \in 1 .. Len(a \o b)
      BY <3>1
    <3>4. QED
      BY <3>1, <3>2, <3>3, Zenon DEF Contains
  <2>9. ASSUME NEW i \in 1 .. Len(w), NEW e, Contains(F[w[i]], e) PROVE Contains(Spread(F, w), e)
    <3>1. CASE i \in 1 .. Len(u)
      <4>1. w[i] = u[i]
        BY <2>6, <3>1
      <4>2. Contains(a, e)
        BY <2>7, <2>9, <3>1, <4>1, Zenon
      <4>3. QED
        BY <2>5, <2>8, <4>2, Zenon
    <3>2. CASE i = Len(u) + 1
      <4>1. w[i] = x
        BY <2>6, <3>2
      <4>2. Contains(b, e)
        BY <2>9, <4>1, Zenon DEF b
      <4>3. QED
        BY <2>5, <2>8, <4>2, Zenon
    <3>3. QED
      BY <2>6, <3>1, <3>2
  <2>10. QED
    BY <2>1, <2>9, Zenon DEF w
<1>3. s \in P
  <2> HIDE DEF P
  <2>1. QED
    BY <1>1, <1>2, ListInduction, Zenon
<1>4. QED
  BY <1>3, Zenon

(* The last element of K is one, unless there is none.                     *)
LEMMA LastInFacts ==
  ASSUME NEW S, NEW s \in Seq(S), NEW K
  PROVE  /\ LastIn(s, K) \in 0 .. Len(s) /\ Len(s) \in Nat
         /\ LastIn(s, K) > 0 => s[LastIn(s, K)] \in K
         /\ LastIn(s, K) = 0 <=> \A i \in 1 .. Len(s) : s[i] \notin K
<1> DEFINE n == Len(s)
           I == {i \in 1 .. n : s[i] \in K}
<1>1. n \in Nat /\ I \in SUBSET (1 .. n)
  OBVIOUS
<1>2. LastIn(s, K) = IF I # {} THEN Max(I) ELSE 0
  BY DEF LastIn
<1>3. I # {} => Max(I) \in I
  <2> HIDE DEF I, n
  <2>1. QED
    BY <1>1, MaxIn
<1>4. QED
  BY <1>1, <1>2, <1>3

(* What was said, without what the proxy adds.                             *)
SaidMark == [m \in AllMarks |-> IF m \notin {Context, System} THEN <<m>> ELSE <<>>]
(* What is said besides the system prompt and contexts of images.          *)
SaidMarks(s) == Only(s, LAMBDA m : m \notin {Context, System})

LEMMA SaidMarksAre ==
  /\ Spreads(SaidMark, AllMarks, TurnMarks)
  /\ \A s \in Seq(AllMarks) : SaidMarks(s) = Spread(SaidMark, s)
  /\ \A s \in Seq(TurnMarks) : s \in Seq(AllMarks) /\ SaidMarks(s) = s /\ Spread(SaidMark, s) = s
  /\ SaidMarks(<<>>) = <<>> /\ SaidMarks(<<System>>) = <<>> /\ SaidMarks(<<Context>>) = <<>>
<1>1. ASSUME NEW m \in AllMarks PROVE SaidMark[m] \in Seq(TurnMarks)
  <2>1. m \notin {Context, System} => m \in TurnMarks
    BY DEF AllMarks
  <2>2. SaidMark[m] = IF m \notin {Context, System} THEN <<m>> ELSE <<>>
    BY DEF SaidMark
  <2>3. CASE m \notin {Context, System}
    BY <2>1, <2>2, <2>3, OneType
  <2>4. CASE ~(m \notin {Context, System})
    BY <2>2, <2>4, NoneType
  <2>5. QED
    BY <2>3, <2>4
<1>2. Spreads(SaidMark, AllMarks, TurnMarks)
  BY <1>1 DEF Spreads
<1>3. ASSUME NEW s \in Seq(AllMarks) PROVE SaidMarks(s) = Spread(SaidMark, s)
  <2> DEFINE E == [i \in DOMAIN s |-> IF s[i] \notin {Context, System} THEN <<s[i]>> ELSE <<>>]
  <2>1. Follows(E, SaidMark, s, AllMarks)
    BY DEF Follows, SaidMark
  <2>2. SaidMarks(s) = FlattenSeq(E)
    BY DEF SaidMarks, Only
  <2> HIDE DEF E
  <2>3. FlattenSeq(E) = Spread(SaidMark, s)
    BY <2>1, SpreadFollows, Zenon
  <2>4. QED
    BY <2>2, <2>3, Zenon
<1>4. ASSUME NEW s \in Seq(TurnMarks) PROVE s \in Seq(AllMarks) /\ SaidMarks(s) = s /\ Spread(SaidMark, s) = s
  <2>1. s \in Seq(AllMarks)
    BY MarkFacts, SeqMonotonic
  <2>2. \A m \in TurnMarks : SaidMark[m] = <<m>>
    BY MarkFacts DEF SaidMark
  <2>3. Spread(SaidMark, s) = s
    BY <2>2, SpreadAll
  <2>4. QED
    BY <1>3, <2>1, <2>3
<1>5. ASSUME NEW m \in {System, Context} PROVE SaidMarks(<<m>>) = <<>>
  <2>1. m \in AllMarks
    BY DEF AllMarks
  <2>2. SaidMark[m] = <<>>
    BY <2>1 DEF SaidMark
  <2>3. Spread(SaidMark, <<m>>) = SaidMark[m]
    BY <1>2, <2>1, SpreadOne, Zenon
  <2>4. <<m>> \in Seq(AllMarks)
    BY <2>1, OneType, Zenon
  <2>5. QED
    BY <1>3, <2>2, <2>3, <2>4, Zenon
<1>6. SaidMarks(<<>>) = <<>>
  BY <1>4, NoneType
<1>7. QED
  BY <1>2, <1>3, <1>4, <1>5, <1>6

(* What the model is told: all that was said, with or without an image's   *)
(* description.                                                            *)
Tells(told, said, described) ==
  told \in Seq(AllMarks) /\ SaidMarks(told) = said /\ (Contains(told, Context) <=> described)

(* The system prompt is there or not.                                      *)
SystemPrompts == {<<>>, <<System>>}

(* A text with or without the system prompt tells all of it.               *)
LEMMA TellsPlain ==
  ASSUME NEW x \in Seq(TurnMarks), NEW y \in SystemPrompts
  PROVE  Tells(x, x, FALSE) /\ Tells(x \o y, x, FALSE) /\ Tells(y \o x, x, FALSE)
<1>1. x \in Seq(AllMarks) /\ SaidMarks(x) = x /\ Spread(SaidMark, x) = x
  BY SaidMarksAre
<1>2. System \in AllMarks /\ System # Context
  BY MarkFacts DEF AllMarks
<1>3. y \in Seq(AllMarks) /\ SaidMarks(y) = <<>>
  BY <1>2, SaidMarksAre, OneType, NoneType DEF SystemPrompts
<1>4. Spreads(SaidMark, AllMarks, TurnMarks) /\ \A s \in Seq(AllMarks) : SaidMarks(s) = Spread(SaidMark, s)
  BY SaidMarksAre
<1>5. SpreadSplits(SaidMark, x, y) /\ SpreadSplits(SaidMark, y, x)
  BY <1>1, <1>3, <1>4, SpreadJoin, Zenon
<1>6. x \o y \in Seq(AllMarks) /\ y \o x \in Seq(AllMarks)
  BY <1>1, <1>3, JoinType, Zenon
<1>7. x \o <<>> = x /\ <<>> \o x = x
  BY JoinNone, NoneJoin, Zenon
<1>8. SaidMarks(x \o y) = x /\ SaidMarks(y \o x) = x
  BY <1>1, <1>3, <1>4, <1>5, <1>6, <1>7, Zenon DEF SpreadSplits
<1> DEFINE U == TurnMarks \cup {System}
<1>9. x \in Seq(U) /\ y \in Seq(U)
  <2>1. x \in Seq(U)
    BY SeqMonotonic
  <2>2. System \in U
    OBVIOUS
  <2> HIDE DEF U
  <2>3. y \in Seq(U)
    BY <2>2, OneType, NoneType DEF SystemPrompts
  <2>4. QED
    BY <2>1, <2>3
<1>10. ASSUME NEW s \in Seq(U) PROVE ~Contains(s, Context)
  <2>1. Context \notin U
    BY <1>2, MarkFacts
  <2> HIDE DEF U
  <2>2. \A i \in 1 .. Len(s) : s[i] \in U
    BY ElementOfSeq
  <2>3. QED
    BY <2>1, <2>2 DEF Contains
<1>11. x \o y \in Seq(U) /\ y \o x \in Seq(U)
  <2> HIDE DEF U
  <2>1. QED
    BY <1>9, JoinType, Zenon
<1>12. QED
  <2> HIDE DEF U
  <2>1. QED
    BY <1>1, <1>6, <1>8, <1>9, <1>10, <1>11 DEF Tells

(* The sets in which the code looks for a last element.                    *)
UserEntries == {e \in Entries : IsUser(e)}
Users == {m \in AllMessages : IsUser(m)}
Pictures == {m \in AllMessages : HasImages(m)}
Askers == {m \in AllMessages : IsUser(m) /\ m.text # <<>>}
LastAsked(s) == LastWhere(s, LAMBDA m : IsUser(m) /\ m.text # <<>>)

(* Its searches find the last element of these sets.                       *)
LEMMA LastWheresAre ==
  /\ \A s \in Seq(Entries) : LastWhere(s, IsUser) = LastIn(s, UserEntries)
  /\ \A s \in Seq(AllMessages) : /\ LastWhere(s, IsUser) = LastIn(s, Users)
                                 /\ LastWhere(s, HasImages) = LastIn(s, Pictures)
                                 /\ LastAsked(s) = LastIn(s, Askers)
<1>1. ASSUME NEW s \in Seq(Entries) PROVE LastWhere(s, IsUser) = LastIn(s, UserEntries)
  <2>1. \A i \in 1 .. Len(s) : s[i] \in Entries
    BY ElementOfSeq
  <2>2. {i \in 1 .. Len(s) : IsUser(s[i])} = {i \in 1 .. Len(s) : s[i] \in UserEntries}
    BY <2>1 DEF UserEntries
  <2>3. QED
    BY <2>2, Zenon DEF LastWhere, LastIn, SelectLastInSeq
<1>2. ASSUME NEW s \in Seq(AllMessages)
      PROVE  /\ LastWhere(s, IsUser) = LastIn(s, Users)
             /\ LastWhere(s, HasImages) = LastIn(s, Pictures)
             /\ LastAsked(s) = LastIn(s, Askers)
  <2>1. \A i \in 1 .. Len(s) : s[i] \in AllMessages
    BY ElementOfSeq
  <2>2. {i \in 1 .. Len(s) : IsUser(s[i])} = {i \in 1 .. Len(s) : s[i] \in Users}
    BY <2>1 DEF Users
  <2>3. {i \in 1 .. Len(s) : HasImages(s[i])} = {i \in 1 .. Len(s) : s[i] \in Pictures}
    BY <2>1 DEF Pictures
  <2>4. {i \in 1 .. Len(s) : IsUser(s[i]) /\ s[i].text # <<>>} = {i \in 1 .. Len(s) : s[i] \in Askers}
    BY <2>1 DEF Askers
  <2>5. QED
    BY <2>2, <2>3, <2>4, Zenon DEF LastAsked, LastWhere, LastIn, SelectLastInSeq
<1>3. QED
  BY <1>1, <1>2

(* Whether a message puts a text to the model as a user's.                 *)
Puts(m) == m.role \in {"user", "tool"} /\ m.text # <<>>

(* A user's entry is in the prompt when a user's message has a text.       *)
LEMMA EntryFacts ==
  ASSUME NEW s \in Seq(AllMessages)
  PROVE  LastWhere(filteredMessages(s), IsUser) > 0 <=> \E i \in 1 .. Len(s) : Puts(s[i])
<1> DEFINE e == filteredMessages(s)
<1>1. e = Spread(EntryOf, s) /\ e \in Seq(Entries)
  BY FilteredIs
<1> HIDE DEF e
<1>2. LastWhere(e, IsUser) = LastIn(e, UserEntries)
  BY <1>1, LastWheresAre
<1>3. \A i \in 1 .. Len(s) : s[i] \in AllMessages
  BY ElementOfSeq
<1>4. ASSUME NEW i \in 1 .. Len(s), Puts(s[i]) PROVE LastIn(e, UserEntries) # 0
  <2>1. s[i] \in AllMessages
    BY <1>3
  <2>2. EntryOf[s[i]] = <<AsEntry(s[i])>>
    BY <1>4, <2>1 DEF EntryOf, Puts
  <2>3. Contains(EntryOf[s[i]], AsEntry(s[i]))
    BY <2>2, ListOfOne DEF Contains
  <2>4. Spreads(EntryOf, AllMessages, Entries) /\ AsEntry(s[i]) \in Entries
    BY <2>1, EntryTypes
  <2>5. Contains(e, AsEntry(s[i]))
    BY <1>1, <2>3, <2>4, SpreadHas, Zenon
  <2>6. AsEntry(s[i]).role = "user"
    BY <1>4 DEF AsEntry, Puts
  <2>7. AsEntry(s[i]) \in UserEntries
    BY <2>4, <2>6 DEF UserEntries, IsUser
  <2>8. PICK j \in 1 .. Len(e) : e[j] = AsEntry(s[i])
    BY <2>5 DEF Contains
  <2>9. QED
    BY <1>1, <2>7, <2>8, LastInFacts
<1>5. ASSUME \A i \in 1 .. Len(s) : ~Puts(s[i]) PROVE LastIn(e, UserEntries) = 0
  <2> DEFINE S == {m \in AllMessages : ~Puts(m)}
             T == {x \in Entries : ~IsUser(x)}
  <2>1. s \in Seq(S)
    <3>1. \A i \in 1 .. Len(s) : s[i] \in S
      BY <1>3, <1>5
    <3> HIDE DEF S
    <3>2. QED
      BY <3>1
  <2>2. ASSUME NEW m \in S PROVE EntryOf[m] \in Seq(T)
    <3>1. m \in AllMessages /\ ~Puts(m)
      OBVIOUS
    <3>2. CASE m.text = <<>>
      <4>1. EntryOf[m] = <<>>
        BY <3>1, <3>2 DEF EntryOf
      <4>2. QED
        BY <4>1, NoneType
    <3>3. CASE m.text # <<>>
      <4>1. EntryOf[m] = <<AsEntry(m)>>
        BY <3>1, <3>3 DEF EntryOf
      <4>2. AsEntry(m) \in Entries
        BY <3>1, EntryTypes
      <4>3. m.role # "user" /\ m.role # "tool"
        BY <3>1, <3>3 DEF Puts
      <4>4. AsEntry(m).role # "user"
        BY <4>3 DEF AsEntry
      <4>5. AsEntry(m) \in T
        BY <4>2, <4>4 DEF IsUser
      <4> HIDE DEF T
      <4>6. QED
        BY <4>1, <4>5, OneType
    <3>4. QED
      BY <3>2, <3>3
  <2>3. Spreads(EntryOf, S, T)
    BY <2>2 DEF Spreads
  <2>4. e \in Seq(T)
    <3> HIDE DEF S, T
    <3>1. QED
      BY <1>1, <2>1, <2>3, SpreadType, Zenon
  <2>5. \A j \in 1 .. Len(e) : e[j] \notin UserEntries
    <3>1. \A j \in 1 .. Len(e) : e[j] \in T
      <4> HIDE DEF T
      <4>1. QED
        BY <2>4, ElementOfSeq
    <3>2. QED
      BY <3>1 DEF UserEntries
  <2>6. QED
    BY <1>1, <2>5, LastInFacts
<1>6. LastIn(e, UserEntries) \in Nat
  BY <1>1, LastInFacts
<1>7. QED
  BY <1>2, <1>4, <1>5, <1>6 DEF e

(* What the model is told in a prompt: all that was said, if anybody asked *)
(* anything.                                                               *)
Asked(s) == \E i \in DOMAIN s : s[i].role \in {"user", "tool"}

(* A prompt that is not refused tells all that the messages say.           *)
FreshTells(prompt, s) ==
  /\ Asked(s) <=> prompt # Refused
  /\ Asked(s) => Tells(Texts(prompt.entries), Spread(TextOf, s), FALSE)

(* So does the prompt of a fresh session.                                  *)
LEMMA FreshPrompt ==
  ASSUME NEW s \in Seq(TurnMessages), NEW sys \in SystemPrompts, NEW req, req.system = sys, req.messages = s
  PROVE  FreshTells(buildLingmaPrompt(req, "fresh"), s)
<1> DEFINE e == filteredMessages(s)
           image == LastWhere(s, HasImages)
           fallback == imagePromptFallback(req, image)
           question == [role |-> "user", text |-> fallback]
           entries == IF LastWhere(e, IsUser) > 0 THEN e ELSE IF image > 0 THEN Append(e, question) ELSE <<>>
           prompt == buildLingmaPrompt(req, "fresh")
           x == Spread(TextOf, s)
<1>1. s \in Seq(AllMessages)
  BY TurnMessagesAre, SeqMonotonic
<1>2. e \in Seq(Entries) /\ Texts(e) = x
  BY <1>1, FilteredIs, FilteredTexts
<1>3. x \in Seq(TurnMarks)
  BY TextOfTypes, SpreadType, Zenon
<1>4. prompt = IF entries = <<>> THEN Refused ELSE [system |-> sys, entries |-> entries]
  BY DEF buildLingmaPrompt
<1>6. entries # <<>> => prompt.entries = entries
  <2> HIDE DEF entries, prompt
  <2>1. ASSUME entries # <<>> PROVE prompt.entries = entries
    <3>1. prompt = [system |-> sys, entries |-> entries]
      BY <1>4, <2>1
    <3>2. QED
      BY <3>1
  <2>2. QED
    BY <2>1
<1>5. prompt # Refused <=> entries # <<>>
  <2> HIDE DEF entries, prompt
  <2>1. Refused.entries = <<>>
    BY DEF Refused
  <2>2. QED
    BY <1>4, <1>6, <2>1
<1>7. \A i \in 1 .. Len(s) : s[i] \in TurnMessages /\ s[i] \in AllMessages
  BY <1>1, ElementOfSeq
<1>8. DOMAIN s = 1 .. Len(s)
  OBVIOUS
<1>9. image = LastIn(s, Pictures) /\ LastIn(s, Pictures) \in Nat
      /\ (LastIn(s, Pictures) = 0 <=> \A i \in 1 .. Len(s) : s[i] \notin Pictures)
  BY <1>1, LastWheresAre, LastInFacts
<1> HIDE DEF entries, prompt, x
<1>10. CASE \E i \in 1 .. Len(s) : Puts(s[i])
  <2>1. Asked(s)
    BY <1>8, <1>10 DEF Asked, Puts
  <2>2. LastWhere(e, IsUser) > 0
    BY <1>1, <1>10, EntryFacts
  <2>3. entries = e
    BY <2>2 DEF entries
  <2>4. e # <<>>
    <3>1. LastIn(e, UserEntries) > 0
      BY <1>2, <2>2, LastWheresAre
    <3>2. LastIn(e, UserEntries) \in 0 .. Len(e)
      BY <1>2, LastInFacts
    <3>3. QED
      BY <1>2, <3>1, <3>2
  <2>5. Texts(prompt.entries) = x
    BY <1>2, <1>6, <2>3, <2>4
  <2>6. Tells(x, x, FALSE)
    <3>1. <<>> \in SystemPrompts
      BY DEF SystemPrompts
    <3>2. QED
      BY <1>3, <3>1, TellsPlain
  <2>7. QED
    BY <1>5, <2>1, <2>3, <2>4, <2>5, <2>6 DEF FreshTells, prompt, x
<1>11. CASE ~\E i \in 1 .. Len(s) : Puts(s[i])
  <2>1. ~(LastWhere(e, IsUser) > 0)
    BY <1>1, <1>11, EntryFacts
  <2>2. entries = IF image > 0 THEN Append(e, question) ELSE <<>>
    BY <2>1 DEF entries
  <2>3. Asked(s) <=> image > 0
    <3>1. ASSUME NEW i \in 1 .. Len(s), s[i].role \in {"user", "tool"} PROVE s[i] \in Pictures
      <4>1. s[i].text = <<>>
        BY <1>11, <3>1 DEF Puts
      <4>2. Speaks(s[i])
        BY <1>7 DEF TurnMessages
      <4>3. s[i].role = "user" /\ s[i].images # <<>>
        BY <3>1, <4>1, <4>2 DEF Speaks
      <4>4. QED
        BY <1>7, <4>3 DEF Pictures, HasImages
    <3>2. ASSUME NEW i \in 1 .. Len(s), s[i] \in Pictures PROVE s[i].role = "user"
      BY <3>2 DEF Pictures, HasImages
    <3>3. QED
      BY <1>8, <1>9, <3>1, <3>2 DEF Asked
  <2>4. CASE image > 0
    <3>1. fallback = sys
      <4> DEFINE before == SubSeq(s, 1, image - 1)
      <4>1. image \in 1 .. Len(s)
        <5>1. LastIn(s, Pictures) \in 0 .. Len(s)
          BY <1>1, LastInFacts
        <5> HIDE DEF image
        <5>2. QED
          BY <1>9, <2>4, <5>1
      <4> HIDE DEF image
      <4>2. before \in Seq(AllMessages) /\ \A k \in 1 .. Len(before) : before[k] = s[k] /\ k \in 1 .. Len(s)
        BY <1>1, <4>1
      <4>3. \A k \in 1 .. Len(before) : before[k] \notin Askers
        BY <1>11, <4>2 DEF Askers, Puts, IsUser
      <4>4. LastAsked(before) = 0
        <5> HIDE DEF before
        <5>1. QED
          BY <4>2, <4>3, LastWheresAre, LastInFacts
      <4>5. QED
        BY <4>4 DEF imagePromptFallback, LastAsked
    <3>2. question \in Entries /\ EntryText[question] = sys
      <4>1. sys \in Seq(AllMarks) /\ "user" \in Roles
        <5>1. System \in AllMarks
          BY DEF AllMarks
        <5>2. QED
          BY <5>1, OneType, NoneType, RolesAre DEF SystemPrompts
      <4>2. question \in Entries
        BY <3>1, <4>1 DEF Entries
      <4>3. question.text = sys
        BY <3>1
      <4> HIDE DEF question
      <4>4. QED
        BY <4>2, <4>3 DEF EntryText
    <3> HIDE DEF question, image, e
    <3>3. entries = e \o <<question>>
      <4>1. entries = Append(e, question)
        BY <2>2, <2>4
      <4>2. Append(e, question) = e \o <<question>>
        BY <1>2, <3>2
      <4>3. QED
        BY <4>1, <4>2
    <3>4. entries \in Seq(Entries) /\ entries # <<>>
      <4>1. entries = Append(e, question)
        BY <2>2, <2>4
      <4>2. QED
        BY <1>2, <3>2, <4>1
    <3>5. SpreadGrows(EntryText, e, question)
      BY <1>2, <3>2, EntryTypes, SpreadMore
    <3>6. Texts(entries) = Spread(EntryText, entries) /\ Texts(e) = Spread(EntryText, e)
      BY <1>2, <3>4, TextsAre, Zenon
    <3>7. Texts(entries) = x \o sys
      BY <1>2, <3>2, <3>3, <3>5, <3>6, Zenon DEF SpreadGrows
    <3>8. Tells(x \o sys, x, FALSE)
      BY <1>3, TellsPlain
    <3>9. Texts(prompt.entries) = x \o sys
      BY <1>6, <3>4, <3>7
    <3>10. QED
      BY <1>5, <2>3, <2>4, <3>4, <3>8, <3>9 DEF FreshTells, prompt, x
  <2>5. CASE ~(image > 0)
    <3>1. entries = <<>>
      BY <2>2, <2>5
    <3>2. QED
      BY <1>5, <2>3, <2>5, <3>1 DEF FreshTells, prompt
  <2>6. QED
    BY <2>4, <2>5
<1>12. QED
  BY <1>10, <1>11

(* A text that a user or a tool has makes the entries.                     *)
LEMMA PutPrompt ==
  ASSUME NEW s \in Seq(AllMessages), NEW i \in 1 .. Len(s), Puts(s[i]), NEW req, req.messages = s
  PROVE  /\ filteredMessages(s) # <<>>
         /\ buildLingmaPrompt(req, "fresh") = [system |-> req.system, entries |-> filteredMessages(s)]
<1> DEFINE e == filteredMessages(s)
<1>1. LastWhere(e, IsUser) > 0
  BY EntryFacts
<1>2. e \in Seq(Entries)
  BY FilteredIs
<1>3. e # <<>>
  <2> HIDE DEF e
  <2>1. LastIn(e, UserEntries) > 0
    BY <1>1, <1>2, LastWheresAre
  <2>2. LastIn(e, UserEntries) \in 0 .. Len(e)
    BY <1>2, LastInFacts
  <2>3. QED
    BY <1>2, <2>1, <2>2
<1>4. QED
  BY <1>1, <1>3 DEF buildLingmaPrompt

(* The image's description is added to what the user said last.            *)
WithContext(s, last) == [[i \in DOMAIN s |-> [s[i] EXCEPT !.images = <<>>]] EXCEPT ![last].text = Append(@, Context)]
(* The messages with the context of the images in message last.            *)
Described(r, s, last) == r = WithContext(s, last)

(* It is a user's message then, and what was said is still said.           *)
LEMMA ContextAdded ==
  ASSUME NEW s \in Seq(TurnMessages), NEW last \in 1 .. Len(s), s[last].role = "user", NEW r, Described(r, s, last)
  PROVE  /\ r \in Seq(AllMessages) /\ Len(r) = Len(s) /\ DOMAIN r = DOMAIN s
         /\ Puts(r[last]) /\ Contains(r[last].text, Context)
         /\ \A i \in 1 .. Len(s) : Spread(SaidMark, r[i].text) = s[i].text
<1> DEFINE n == Len(s)
           plain(m) == [m EXCEPT !.images = <<>>]
           full(m) == [plain(m) EXCEPT !.text = Append(m.text, Context)]
<1>1. n \in Nat /\ DOMAIN s = 1 .. n /\ \A i \in 1 .. n : s[i] \in TurnMessages /\ s[i] \in AllMessages
  BY TurnMessagesAre, ElementOfSeq
<1>2. ASSUME NEW m \in TurnMessages
      PROVE  /\ plain(m) \in AllMessages /\ plain(m).text = m.text
             /\ full(m) \in AllMessages /\ full(m).text = m.text \o <<Context>> /\ full(m).role = m.role
  <2>1. m.text \in Seq(TurnMarks) /\ m \in AllMessages /\ Context \in AllMarks
    BY TurnMessagesAre DEF TurnMessages, AllMarks
  <2>2. m.text \in Seq(AllMarks) /\ Append(m.text, Context) = m.text \o <<Context>>
    BY <2>1, SaidMarksAre, SMTT(30)
  <2>3. m.text \o <<Context>> \in Seq(AllMarks)
    BY <2>1, <2>2, OneType, JoinType, Zenon
  <2>4. <<>> \in Seq(AllMarks)
    BY NoneType
  <2>5. PICK x : x = m.text \o <<Context>>
    OBVIOUS
  <2>6. plain(m) \in AllMessages /\ plain(m).text = m.text
    BY <2>1, <2>4 DEF AllMessages
  <2>7. full(m) = [plain(m) EXCEPT !.text = x] /\ x \in Seq(AllMarks)
    BY <2>2, <2>3, <2>5
  <2>8. full(m) \in AllMessages /\ full(m).text = x /\ full(m).role = m.role
    BY <2>1, <2>4, <2>7 DEF AllMessages
  <2>9. QED
    BY <2>5, <2>6, <2>8
<1>3. \A i \in 1 .. n : r[i] = IF i = last THEN full(s[i]) ELSE plain(s[i])
  BY <1>1 DEF Described, WithContext
<1>4. DOMAIN r = 1 .. n /\ r = [i \in DOMAIN r |-> r[i]]
  BY <1>1 DEF Described, WithContext
<1> HIDE DEF full, plain, n
<1>5. \A i \in 1 .. n : r[i] \in AllMessages
  <2> SUFFICES ASSUME NEW i \in 1 .. n PROVE r[i] \in AllMessages
    OBVIOUS
  <2>1. full(s[i]) \in AllMessages /\ plain(s[i]) \in AllMessages
    BY <1>1, <1>2
  <2>2. QED
    BY <1>3, <2>1
<1>6. r \in Seq(AllMessages) /\ Len(r) = n
  <2>1. r \in [1 .. n -> AllMessages]
    BY <1>4, <1>5
  <2>2. QED
    BY <1>1, <2>1
<1>7. last \in 1 .. n
  BY DEF n
<1>8. r[last].role = "user" /\ r[last].text = s[last].text \o <<Context>> /\ s[last].text \in Seq(TurnMarks)
  BY <1>1, <1>2, <1>3, <1>7 DEF TurnMessages
<1>9. Contains(r[last].text, Context) /\ r[last].text # <<>>
  <2>1. PICK x : x = s[last].text
    OBVIOUS
  <2>2. x \in Seq(AllMarks) /\ <<Context>> \in Seq(AllMarks)
    BY <1>8, <2>1, SaidMarksAre, OneType DEF AllMarks
  <2>3. Joined(x, <<Context>>) /\ Len(<<Context>>) = 1 /\ <<Context>>[1] = Context
    BY <2>2, JoinedOf, ListOfOne
  <2> DEFINE u == x \o <<Context>>
  <2>4. Len(x) \in Nat /\ Len(u) = Len(x) + 1 /\ u[Len(x) + 1] = Context
    BY <2>3 DEF Joined
  <2>5. r[last].text = u
    BY <1>8, <2>1
  <2> HIDE DEF u
  <2>6. Contains(u, Context)
    BY <2>4 DEF Contains
  <2>7. u # <<>>
    BY <2>4
  <2>8. QED
    BY <2>5, <2>6, <2>7
<1>10. Puts(r[last])
  BY <1>8, <1>9 DEF Puts
<1>11. ASSUME NEW i \in 1 .. n PROVE Spread(SaidMark, r[i].text) = s[i].text
  <2>1. PICK x : x = s[i].text
    OBVIOUS
  <2>2. x \in Seq(TurnMarks)
    BY <1>1, <2>1 DEF TurnMessages
  <2>3. Spreads(SaidMark, AllMarks, TurnMarks) /\ x \in Seq(AllMarks) /\ Spread(SaidMark, x) = x
    BY <2>2, SaidMarksAre
  <2>4. <<Context>> \in Seq(AllMarks) /\ Spread(SaidMark, <<Context>>) = <<>>
    <3>1. <<Context>> \in Seq(AllMarks)
      BY OneType DEF AllMarks
    <3>2. SaidMarks(<<Context>>) = Spread(SaidMark, <<Context>>) /\ SaidMarks(<<Context>>) = <<>>
      BY <3>1, SaidMarksAre
    <3>3. QED
      BY <3>1, <3>2
  <2>5. SpreadSplits(SaidMark, x, <<Context>>)
    BY <2>3, <2>4, SpreadJoin, Zenon
  <2>6. x \o <<>> = x
    BY <2>2, JoinNone, Zenon
  <2>7. Spread(SaidMark, x \o <<Context>>) = x
    BY <2>3, <2>4, <2>5, <2>6, Zenon DEF SpreadSplits
  <2>8. r[i].text = x \/ r[i].text = x \o <<Context>>
    <3>1. full(s[i]).text = x \o <<Context>> /\ plain(s[i]).text = x
      BY <1>1, <1>2, <2>1
    <3>2. QED
      BY <1>3, <3>1
  <2>9. QED
    BY <2>1, <2>3, <2>7, <2>8, Zenon
<1>12. QED
  BY <1>4, <1>6, <1>7, <1>9, <1>10, <1>11, <1>1 DEF n

(* The prompt after the detour of the images tells all, too, and the       *)
(* context with it.                                                        *)
LEMMA DescribedPrompt ==
  ASSUME NEW s \in Seq(TurnMessages), NEW sys, NEW req, req = [system |-> sys, messages |-> s], requestHasImages(req)
  PROVE  Tells(Texts(buildLingmaPrompt(requestWithImageContext(req), "fresh").entries), Spread(TextOf, s), TRUE)
<1> DEFINE last == LastWhere(s, IsUser)
           r == WithContext(s, last)
           described == requestWithImageContext(req)
<1>1. s \in Seq(AllMessages)
  BY TurnMessagesAre, SeqMonotonic
<1>2. last = LastIn(s, Users) /\ DOMAIN s = 1 .. Len(s)
  BY <1>1, LastWheresAre
<1>3. last \in 1 .. Len(s) /\ s[last] \in Users
  <2>1. PICK i \in 1 .. Len(s) : HasImages(s[i])
    BY <1>2 DEF requestHasImages
  <2>2. s[i] \in Users
    BY <1>1, <2>1, ElementOfSeq DEF Users, HasImages, IsUser
  <2>3. LastIn(s, Users) # 0 /\ LastIn(s, Users) \in 0 .. Len(s) /\ Len(s) \in Nat
    BY <1>1, <2>2, LastInFacts
  <2>4. LastIn(s, Users) > 0 => s[LastIn(s, Users)] \in Users
    BY <1>1, LastInFacts
  <2> HIDE DEF last
  <2>5. QED
    BY <1>2, <2>3, <2>4
<1>4. s[last].role = "user"
  BY <1>3 DEF Users, IsUser
<1>5. described.messages = r
  <2>1. last # 0
    BY <1>3
  <2>2. req.messages = s
    OBVIOUS
  <2>3. QED
    BY <2>1, <2>2 DEF requestWithImageContext, WithContext
<1> HIDE DEF last
<1>6. /\ r \in Seq(AllMessages) /\ Len(r) = Len(s) /\ DOMAIN r = DOMAIN s
      /\ Puts(r[last]) /\ Contains(r[last].text, Context)
      /\ \A i \in 1 .. Len(s) : Spread(SaidMark, r[i].text) = s[i].text
  <2>1. Described(r, s, last)
    BY DEF Described
  <2> HIDE DEF r
  <2>2. QED
    BY <1>3, <1>4, <2>1, ContextAdded
<1> HIDE DEF r, described
<1>7. buildLingmaPrompt(described, "fresh") = [system |-> described.system, entries |-> filteredMessages(r)]
  BY <1>3, <1>5, <1>6, PutPrompt
<1> DEFINE told == Spread(TextOf, r)
<1>8. Texts(buildLingmaPrompt(described, "fresh").entries) = told
  <2>1. buildLingmaPrompt(described, "fresh").entries = filteredMessages(r)
    BY <1>7
  <2>2. QED
    BY <1>6, <2>1, FilteredTexts
<1>9. Spreads(TextOf, AllMessages, AllMarks) /\ Spreads(SaidMark, AllMarks, TurnMarks)
  BY TextOfTypes, SaidMarksAre
<1>10. told \in Seq(AllMarks)
  BY <1>6, <1>9, SpreadType, Zenon
<1>11. SaidMarks(told) = Spread(TextOf, s)
  <2> DEFINE G == Composed(TextOf, SaidMark, AllMessages)
  <2>1. SpreadChains(TextOf, SaidMark, AllMessages, r)
    BY <1>6, <1>9, SpreadTwice, Zenon
  <2>2. Spread(SaidMark, told) = Spread(G, r)
    BY <2>1, Zenon DEF SpreadChains
  <2>3. \A i \in DOMAIN s : G[r[i]] = TextOf[s[i]]
    <3> SUFFICES ASSUME NEW i \in DOMAIN s PROVE G[r[i]] = TextOf[s[i]]
      OBVIOUS
    <3>1. i \in 1 .. Len(s) /\ i \in 1 .. Len(r)
      BY <1>2, <1>6
    <3>2. r[i] \in AllMessages /\ s[i] \in AllMessages
      BY <1>1, <1>6, <3>1, ElementOfSeq
    <3>3. G[r[i]] = Spread(SaidMark, TextOf[r[i]])
      BY <3>2 DEF Composed
    <3>4. TextOf[r[i]] = r[i].text /\ TextOf[s[i]] = s[i].text
      BY <3>2 DEF TextOf
    <3> HIDE DEF G
    <3>5. QED
      BY <1>6, <3>1, <3>3, <3>4
  <2> HIDE DEF G
  <2>4. [i \in DOMAIN r |-> G[r[i]]] = [i \in DOMAIN s |-> TextOf[s[i]]]
    BY <1>6, <2>3, Zenon
  <2>5. Spread(G, r) = Spread(TextOf, s)
    BY <2>4, Zenon DEF Spread
  <2>6. SaidMarks(told) = Spread(SaidMark, told)
    BY <1>10, SaidMarksAre
  <2>7. QED
    BY <2>2, <2>5, <2>6, Zenon
<1>12. Contains(told, Context)
  <2>1. last \in 1 .. Len(r) /\ r[last] \in AllMessages
    BY <1>3, <1>6, ElementOfSeq
  <2>2. TextOf[r[last]] = r[last].text
    BY <2>1 DEF TextOf
  <2>3. Contains(TextOf[r[last]], Context)
    BY <1>6, <2>2
  <2>4. QED
    BY <1>6, <1>9, <2>1, <2>3, SpreadHas, Zenon
<1>13. Tells(told, Spread(TextOf, s), TRUE)
  <2> HIDE DEF told
  <2>1. QED
    BY <1>10, <1>11, <1>12 DEF Tells
<1>14. QED
  BY <1>8, <1>13 DEF described

(* The texts of the structured messages.                                   *)
LEMMA SentTexts ==
  ASSUME NEW r \in Seq(AllMessages)
  PROVE  FlattenSeq(Each(projectMessages(r), LAMBDA m : extractText(m.content))) = Spread(TextOf, r)
<1> DEFINE sent == projectMessages(r)
           E == [i \in DOMAIN sent |-> extractText(sent[i].content)]
<1>1. DOMAIN sent = DOMAIN r /\ \A i \in DOMAIN r : sent[i].content = ContentBlocks("text", r[i].text)
  BY DEF projectMessages, Each, Wire
<1>2. ASSUME NEW i \in DOMAIN r PROVE extractText(sent[i].content) = TextOf[r[i]]
  <2>1. r[i] \in AllMessages
    BY ElementOfSeq
  <2>2. PICK x : x = r[i].text
    OBVIOUS
  <2>3. x \in Seq(AllMarks) /\ TextOf[r[i]] = x
    BY <2>1, <2>2 DEF TextOf, AllMessages
  <2>4. x \in Seq(AllPieces)
    BY <2>3, MarkFacts, SeqMonotonic
  <2>5. "text" \in Kinds
    BY DEF Kinds
  <2>6. ContentBlocks("text", x) \in Seq(Blocks)
    BY <2>4, <2>5, ContentBlocksAre
  <2>7. extractText(ContentBlocks("text", x)) = Spread(MarksOf("text"), ContentBlocks("text", x))
    BY <2>6, TextIs, Zenon
  <2>8. Spread(MarksOf("text"), ContentBlocks("text", x)) = NonBlank(x)
    BY <2>4, <2>5, MarksOfBlocks, Zenon
  <2>9. NonBlank(x) = x
    BY <2>3, NonBlankSame, Zenon
  <2>10. sent[i].content = ContentBlocks("text", x)
    BY <1>1, <2>2
  <2>11. QED
    BY <2>3, <2>7, <2>8, <2>9, <2>10, Zenon
<1> HIDE DEF sent
<1>3. E = [i \in DOMAIN r |-> TextOf[r[i]]]
  BY <1>1, <1>2, Zenon
<1>4. FlattenSeq(Each(projectMessages(r), LAMBDA m : extractText(m.content))) = FlattenSeq(E)
  BY DEF Each, sent
<1>5. QED
  BY <1>3, <1>4, Zenon DEF Spread

(* And so do the messages sent to the remote backend.                      *)
LEMMA SentTells ==
  ASSUME ConversationInv, NEW format \in ClientFormats
  PROVE  Tells(FlattenSeq(Each(projectMessages(remoteMessagesFromRequest(Request(format))), LAMBDA m : extractText(m.content))),
               Spread(TextOf, Messages(format)), FALSE)
<1>1. PICK M : M = Messages(format)
  OBVIOUS
<1>2. PICK a : a = SystemPart
  OBVIOUS
<1>3. PICK y : y = system
  OBVIOUS
<1>4. M \in Seq(TurnMessages) /\ y \in SystemPrompts
  BY <1>1, <1>3, MessagesAre DEF ConversationInv, SystemPrompts
<1>5. M \in Seq(AllMessages) /\ Spread(TextOf, M) \in Seq(TurnMarks)
  <2>1. Spread(TextOf, M) \in Seq(TurnMarks)
    BY <1>4, TextOfTypes, SpreadType, Zenon
  <2>2. QED
    BY <1>4, <2>1, TurnMessagesAre, SeqMonotonic
<1>6. remoteMessagesFromRequest(Request(format)) = a \o M
  BY <1>1, <1>2, RemoteIs
<1>7. a \in Seq(AllMessages) /\ Spread(TextOf, a) = y
  <2> DEFINE m == Message("system", y, <<>>, <<>>, <<>>)
  <2>1. a = Unless(y = <<>>, m)
    BY <1>2, <1>3 DEF SystemPart
  <2>2. y \in Seq(AllMarks) /\ <<>> \in Seq(AllMarks) /\ <<>> \in AllPieces
    <3>1. System \in AllMarks /\ <<>> \in AllPieces
      BY DEF AllMarks, AllPieces, BlankMark
    <3>2. QED
      BY <1>4, <3>1, OneType, NoneType DEF SystemPrompts
  <2>3. m \in AllMessages /\ m.text = y
    BY <2>2, RolesAre DEF AllMessages, Message
  <2> HIDE DEF m
  <2>4. CASE a = <<>> /\ y = <<>>
    BY <2>4, SpreadNone, NoneType
  <2>5. CASE a = <<m>>
    <3>1. Spread(TextOf, <<m>>) = TextOf[m]
      BY <2>3, TextOfTypes, SpreadOne, Zenon
    <3>2. TextOf[m] = y
      BY <2>3 DEF TextOf
    <3>3. <<m>> \in Seq(AllMessages)
      BY <2>3, OneType, Zenon
    <3>4. QED
      BY <2>5, <3>1, <3>2, <3>3, Zenon
  <2>6. QED
    BY <2>1, <2>4, <2>5, UnlessIs, Zenon
<1>8. a \o M \in Seq(AllMessages)
  BY <1>5, <1>7, JoinType, Zenon
<1>9. SpreadSplits(TextOf, a, M)
  BY <1>5, <1>7, TextOfTypes, SpreadJoin, Zenon
<1>10. Spread(TextOf, a \o M) = y \o Spread(TextOf, M)
  BY <1>7, <1>9, Zenon DEF SpreadSplits
<1>11. Tells(y \o Spread(TextOf, M), Spread(TextOf, M), FALSE)
  BY <1>4, <1>5, TellsPlain
<1>12. FlattenSeq(Each(projectMessages(a \o M), LAMBDA m : extractText(m.content))) = y \o Spread(TextOf, M)
  <2>1. PICK r : r = a \o M
    OBVIOUS
  <2>2. r \in Seq(AllMessages)
    BY <1>8, <2>1
  <2>3. FlattenSeq(Each(projectMessages(r), LAMBDA m : extractText(m.content))) = Spread(TextOf, r)
    BY <2>2, SentTexts
  <2>4. QED
    BY <1>10, <2>1, <2>3
<1>13. QED
  BY <1>1, <1>6, <1>11, <1>12

(* What the model is told by the remote backend.                           *)
LEMMA Generated ==
  ASSUME ConversationInv, NEW format \in ClientFormats, NEW tools \in BOOLEAN
  PROVE  /\ Asked(Messages(format)) =>
              Tells(generateRemoteInternal(Request(format), tools), Spread(TextOf, Messages(format)),
                    tools /\ requestHasImages(Request(format)))
         /\ ~Asked(Messages(format)) =>
              ~requestHasImages(Request(format)) /\ ~Contains(generateRemoteInternal(Request(format), tools), Context)
<1>1. PICK M : M = Messages(format)
  OBVIOUS
<1>2. PICK y : y = system
  OBVIOUS
<1>3. PICK req : req = Request(format)
  OBVIOUS
<1>4. M \in Seq(TurnMessages) /\ y \in SystemPrompts
  BY <1>1, <1>2, MessagesAre DEF ConversationInv, SystemPrompts
<1>5. req = [system |-> y, messages |-> M]
  BY <1>1, <1>2, <1>3 DEF Request
<1>6. req.system = y /\ req.messages = M
  BY <1>5
<1> DEFINE x == Spread(TextOf, M)
           images == requestHasImages(req)
           sent == projectMessages(remoteMessagesFromRequest(req))
           texts == FlattenSeq(Each(sent, LAMBDA m : extractText(m.content)))
           plain == buildLingmaPrompt(req, "fresh")
           told == generateRemoteInternal(req, tools)
<1>7. FreshTells(plain, M)
  BY <1>4, <1>6, FreshPrompt
<1>8. Tells(texts, x, FALSE)
  BY <1>1, <1>3, SentTells
<1>9. images => Asked(M)
  BY <1>6 DEF requestHasImages, HasImages, Asked
<1>10. CASE tools /\ images
  <2>1. told = Texts(buildLingmaPrompt(requestWithImageContext(req), "fresh").entries)
    BY <1>10 DEF generateRemoteInternal
  <2>2. Tells(Texts(buildLingmaPrompt(requestWithImageContext(req), "fresh").entries), x, TRUE)
    BY <1>4, <1>5, <1>10, DescribedPrompt
  <2>3. Tells(told, x, tools /\ images)
    BY <1>10, <2>1, <2>2
  <2>4. QED
    BY <1>1, <1>3, <1>9, <1>10, <2>3
<1>11. CASE ~(tools /\ images)
  <2>1. told = IF tools \/ images \/ plain = Refused THEN Texts(plain.entries) ELSE texts
    BY <1>11 DEF generateRemoteInternal
  <2>2. CASE Asked(M)
    <3>1. plain # Refused /\ Tells(Texts(plain.entries), x, FALSE)
      BY <1>7, <2>2 DEF FreshTells
    <3> HIDE DEF told, plain, texts, x, images
    <3>2. Tells(told, x, FALSE)
      BY <1>8, <2>1, <3>1
    <3>3. Tells(told, x, tools /\ images)
      BY <1>11, <3>2 DEF Tells
    <3>4. QED
      BY <1>1, <1>3, <2>2, <3>3 DEF told, x, images
  <2>3. CASE ~Asked(M)
    <3>1. plain = Refused /\ ~images
      BY <1>7, <1>9, <2>3 DEF FreshTells
    <3>2. told = Texts(Refused.entries)
      BY <2>1, <3>1
    <3>3. Refused.entries = <<>> /\ <<>> \in Seq(Entries)
      BY NoneType DEF Refused
    <3>4. Texts(<<>>) = Spread(EntryText, <<>>)
      BY <3>3, TextsAre, Zenon
    <3>5. told = <<>>
      BY <3>2, <3>3, <3>4, SpreadNone, Zenon
    <3> HIDE DEF told
    <3>6. ~Contains(told, Context)
      <4>1. 1 .. Len(told) = {}
        BY <3>5
      <4>2. QED
        BY <4>1 DEF Contains
    <3>7. QED
      BY <1>1, <1>3, <2>3, <3>1, <3>6 DEF told
  <2>4. QED
    BY <2>2, <2>3
<1>12. QED
  BY <1>10, <1>11

(* The property, from the invariant.                                       *)
LEMMA NothingLostOfInv == ConversationInv => NothingLost
<1> SUFFICES ASSUME ConversationInv, NEW format \in ClientFormats
             PROVE  LET req == Request(format)
                        asked == \E i \in DOMAIN req.messages : req.messages[i].role \in {"user", "tool"}
                        prompt == buildLingmaPrompt(req, "fresh")
                    IN  /\ asked <=> prompt # Refused
                        /\ asked => SaidMarks(Texts(prompt.entries)) = Said(format)
                        /\ \A tools \in BOOLEAN :
                             LET told == generateRemoteInternal(req, tools) IN
                             /\ asked => SaidMarks(told) = Said(format)
                             /\ Contains(told, Context) <=> tools /\ requestHasImages(req)
  BY DEF NothingLost, SaidMarks
<1>1. PICK M : M = Messages(format)
  OBVIOUS
<1>2. PICK req : req = Request(format)
  OBVIOUS
<1>3. M \in Seq(TurnMessages) /\ req.system \in SystemPrompts /\ req.messages = M
  BY <1>1, <1>2, MessagesAre DEF ConversationInv, SystemPrompts, Request
<1>4. Said(format) = Spread(TextOf, M)
  BY <1>1, SaidIs DEF ConversationInv
<1>5. FreshTells(buildLingmaPrompt(req, "fresh"), M)
  BY <1>3, FreshPrompt
<1>6. Asked(M) <=> \E i \in DOMAIN req.messages : req.messages[i].role \in {"user", "tool"}
  BY <1>3 DEF Asked
<1>7. (Asked(M) <=> buildLingmaPrompt(req, "fresh") # Refused)
      /\ (Asked(M) => SaidMarks(Texts(buildLingmaPrompt(req, "fresh").entries)) = Said(format))
  BY <1>4, <1>5 DEF FreshTells, Tells
<1>8. ASSUME NEW tools \in BOOLEAN
      PROVE  /\ Asked(M) => SaidMarks(generateRemoteInternal(req, tools)) = Said(format)
             /\ Contains(generateRemoteInternal(req, tools), Context) <=> tools /\ requestHasImages(req)
  <2>1. /\ Asked(M) => Tells(generateRemoteInternal(req, tools), Spread(TextOf, M), tools /\ requestHasImages(req))
        /\ ~Asked(M) => ~requestHasImages(req) /\ ~Contains(generateRemoteInternal(req, tools), Context)
    BY <1>1, <1>2, Generated
  <2>2. QED
    BY <1>4, <2>1 DEF Tells
<1>9. QED
  BY <1>2, <1>6, <1>7, <1>8

(* Whatever the conversation, everything that was said reaches the model.  *)
THEOREM NothingLostTheorem == ConversationSpec => []NothingLost
<1>1. ConversationInv => NothingLost
  BY NothingLostOfInv
<1>2. QED
  BY <1>1, ConversationInvHolds, PTL

(***************************************************************************)
(* FormatsAgree.                                                           *)
(***************************************************************************)
UserOnly == [m \in AllMessages |-> IF IsUser(m) THEN <<m>> ELSE <<>>]

(* Keeping the messages of users.                                          *)
LEMMA UserOnlyType ==
  ASSUME NEW K
  PROVE  /\ Spreads(UserOnly, AllMessages, AllMessages)
         /\ Spreads(UserOnly, AllMessages \ K, AllMessages \ K)
<1>1. ASSUME NEW m \in AllMessages PROVE UserOnly[m] = <<m>> \/ UserOnly[m] = <<>>
  BY DEF UserOnly
<1>2. \A m \in AllMessages : UserOnly[m] \in Seq(AllMessages)
  BY <1>1, OneType, NoneType
<1>3. ASSUME NEW m \in AllMessages \ K PROVE UserOnly[m] \in Seq(AllMessages \ K)
  <2>1. <<m>> \in Seq(AllMessages \ K) /\ <<>> \in Seq(AllMessages \ K)
    BY OneType, NoneType
  <2>2. QED
    BY <1>1, <2>1
<1>4. QED
  BY <1>2, <1>3 DEF Spreads

(* The last message of a kind is the last of what the user says.           *)
LEMMA LastKept ==
  ASSUME NEW K, K \subseteq Users, NEW s, NEW a, NEW m, NEW b, LastAt(AllMessages, K, s, a, m, b)
  PROVE  LastAt(AllMessages, K, Spread(UserOnly, s), Spread(UserOnly, a), m, Spread(UserOnly, b))
<1>1. a \in Seq(AllMessages) /\ m \in AllMessages /\ m \in K /\ b \in Seq(AllMessages \ K) /\ s = (a \o <<m>>) \o b
  BY DEF LastAt
<1>2. Spreads(UserOnly, AllMessages, AllMessages) /\ Spreads(UserOnly, AllMessages \ K, AllMessages \ K)
  BY UserOnlyType
<1>3. b \in Seq(AllMessages) /\ a \o <<m>> \in Seq(AllMessages)
  BY <1>1, OneType, JoinType, SeqMonotonic
<1>4. Spread(UserOnly, a) \in Seq(AllMessages) /\ Spread(UserOnly, b) \in Seq(AllMessages \ K)
  BY <1>1, <1>2, SpreadType, Zenon
<1>5. UserOnly[m] = <<m>>
  BY <1>1 DEF UserOnly, Users
<1>6. SpreadGrows(UserOnly, a, m) /\ SpreadSplits(UserOnly, a \o <<m>>, b)
  BY <1>1, <1>2, <1>3, SpreadMore, SpreadJoin, Zenon
<1>7. Spread(UserOnly, s) = (Spread(UserOnly, a) \o <<m>>) \o Spread(UserOnly, b)
  BY <1>1, <1>5, <1>6, Zenon DEF SpreadGrows, SpreadSplits
<1>8. QED
  BY <1>1, <1>4, <1>7, Zenon DEF LastAt

(* The last element of K, if any, is the same among users' messages when K *)
(* has only those.                                                         *)
TheLast(s, K) == IF LastIn(s, K) > 0 THEN <<s[LastIn(s, K)]>> ELSE <<>>

LEMMA SameLast ==
  ASSUME NEW K, K \subseteq Users, NEW s \in Seq(AllMessages)
  PROVE  TheLast(Spread(UserOnly, s), K) = TheLast(s, K)
<1> DEFINE u == Spread(UserOnly, s)
<1>1. CASE s \in Seq(AllMessages \ K)
  <2>1. u \in Seq(AllMessages \ K)
    BY <1>1, UserOnlyType, SpreadType, Zenon
  <2> HIDE DEF u
  <2>2. LastIn(u, K) = 0 /\ LastIn(s, K) = 0
    BY <1>1, <2>1, LastNone
  <2>3. QED
    BY <2>2 DEF TheLast, u
<1>2. CASE \E a, m, b : LastAt(AllMessages, K, s, a, m, b)
  <2>1. PICK a, m, b : LastAt(AllMessages, K, s, a, m, b)
    BY <1>2
  <2>2. LastAt(AllMessages, K, u, Spread(UserOnly, a), m, Spread(UserOnly, b))
    BY <2>1, LastKept
  <2> HIDE DEF u
  <2>3. LastIn(s, K) > 0 /\ s[LastIn(s, K)] = m
    BY <2>1, LastIs
  <2>4. LastIn(u, K) > 0 /\ u[LastIn(u, K)] = m
    <3>1. PICK c : c = Spread(UserOnly, a)
      OBVIOUS
    <3>2. PICK d : d = Spread(UserOnly, b)
      OBVIOUS
    <3>3. LastAt(AllMessages, K, u, c, m, d)
      BY <2>2, <3>1, <3>2
    <3>4. QED
      BY <3>3, LastIs
  <2>5. QED
    BY <2>3, <2>4 DEF TheLast, u
<1>3. QED
  BY <1>1, <1>2, LastSplit

(* The question about the last image: the last text before it.             *)
Fallback(a, sys) == IF TheLast(a, Askers) = <<>> THEN sys ELSE TheLast(a, Askers)[1].text

(* Where images are last, what the code asks about them is made of the     *)
(* messages before.                                                        *)
LEMMA FallbackIs ==
  ASSUME NEW s, NEW a, NEW m, NEW b, LastAt(AllMessages, Pictures, s, a, m, b), NEW req, req.messages = s
  PROVE  /\ LastWhere(s, HasImages) = Len(a) + 1 /\ Len(a) \in Nat /\ s[Len(a) + 1] = m
         /\ imagePromptFallback(req, Len(a) + 1) = Fallback(a, req.system)
<1>1. s \in Seq(AllMessages) /\ a \in Seq(AllMessages)
  BY LastIs DEF LastAt
<1>2. LastIn(s, Pictures) = Len(a) + 1 /\ s[Len(a) + 1] = m /\ SubSeq(s, 1, Len(a)) = a /\ Len(a) \in Nat
  BY LastIs
<1>3. LastWhere(s, HasImages) = Len(a) + 1
  BY <1>1, <1>2, LastWheresAre
<1> DEFINE earlier == LastIn(a, Askers)
<1>4. LastAsked(a) = earlier
  BY <1>1, LastWheresAre
<1>5. earlier \in 0 .. Len(a)
  BY <1>1, LastInFacts
<1>6. imagePromptFallback(req, Len(a) + 1) = IF earlier > 0 THEN s[earlier].text ELSE req.system
  <2>1. (Len(a) + 1) - 1 = Len(a)
    BY <1>2
  <2>2. SubSeq(req.messages, 1, (Len(a) + 1) - 1) = a
    BY <1>2, <2>1
  <2> HIDE DEF earlier
  <2>3. QED
    BY <1>4, <2>2 DEF imagePromptFallback, LastAsked
<1>7. earlier > 0 => s[earlier] = a[earlier]
  <2>1. Len(a) <= Len(s) /\ Len(s) \in Nat
    <3>1. Len(a) + 1 \in 1 .. Len(s)
      BY LastIs
    <3>2. QED
      BY <1>1, <1>2, <3>1
  <2>2. \A k \in 1 .. Len(a) : SubSeq(s, 1, Len(a))[k] = s[k]
    BY <1>1, <1>2, <2>1
  <2> HIDE DEF earlier
  <2>3. QED
    BY <1>2, <1>5, <2>2
<1>8. TheLast(a, Askers) = IF earlier > 0 THEN <<a[earlier]>> ELSE <<>>
  BY DEF TheLast
<1> HIDE DEF earlier
<1>9. imagePromptFallback(req, Len(a) + 1) = Fallback(a, req.system)
  BY <1>5, <1>6, <1>7, <1>8 DEF Fallback
<1>10. QED
  BY <1>2, <1>3, <1>9

(* Whether there are images, which is the last, and the question about it  *)
(* depend on what the user says.                                           *)
SameImages(req, other) ==
  /\ requestHasImages(req) <=> requestHasImages(other)
  /\ requestHasImages(req) <=> LastWhere(req.messages, HasImages) > 0
  /\ requestHasImages(other) <=> LastWhere(other.messages, HasImages) > 0
  /\ extractLastUserImages(req.messages) = extractLastUserImages(other.messages)
  /\ requestHasImages(req) =>
       /\ imagePromptFallback(req, LastWhere(req.messages, HasImages))
            = imagePromptFallback(other, LastWhere(other.messages, HasImages))
       /\ requestForImageContext(req) = requestForImageContext(other)

(* Whether a request has images.                                           *)
LEMMA HasImagesIs ==
  ASSUME NEW s \in Seq(AllMessages), NEW req, req.messages = s
  PROVE  /\ requestHasImages(req) <=> LastWhere(s, HasImages) > 0
         /\ s \in Seq(AllMessages \ Pictures) => LastWhere(s, HasImages) = 0
<1>1. LastWhere(s, HasImages) = LastIn(s, Pictures)
  BY LastWheresAre
<1>2. LastIn(s, Pictures) \in Nat /\ (LastIn(s, Pictures) = 0 <=> \A i \in 1 .. Len(s) : s[i] \notin Pictures)
  BY LastInFacts
<1>3. DOMAIN s = 1 .. Len(s) /\ \A i \in 1 .. Len(s) : s[i] \in AllMessages
  BY ElementOfSeq
<1>4. requestHasImages(req) <=> \E i \in 1 .. Len(s) : s[i] \in Pictures
  BY <1>3 DEF requestHasImages, Pictures
<1>5. s \in Seq(AllMessages \ Pictures) => LastIn(s, Pictures) = 0
  BY LastNone
<1>6. QED
  BY <1>1, <1>2, <1>4, <1>5

(* Two requests with the same users' messages ask the same of the images.  *)
LEMMA ImagesSame ==
  ASSUME NEW s \in Seq(AllMessages), NEW req, req.messages = s, NEW other, other.messages = Spread(UserOnly, s),
         other.system = req.system
  PROVE  SameImages(req, other)
<1>1. PICK u : u = Spread(UserOnly, s)
  OBVIOUS
<1>2. u \in Seq(AllMessages)
  BY <1>1, UserOnlyType, SpreadType, Zenon
<1>3. other.messages = u
  BY <1>1
<1>4. (requestHasImages(req) <=> LastWhere(s, HasImages) > 0) /\ (requestHasImages(other) <=> LastWhere(u, HasImages) > 0)
  BY <1>2, <1>3, HasImagesIs
<1>5. CASE s \in Seq(AllMessages \ Pictures)
  <2>1. u \in Seq(AllMessages \ Pictures)
    BY <1>1, <1>5, UserOnlyType, SpreadType, Zenon
  <2>2. LastWhere(s, HasImages) = 0 /\ LastWhere(u, HasImages) = 0
    BY <1>2, <1>3, <1>5, <2>1, HasImagesIs
  <2>3. extractLastUserImages(s) = <<>> /\ extractLastUserImages(u) = <<>>
    BY <2>2 DEF extractLastUserImages
  <2>4. QED
    BY <1>3, <1>4, <2>2, <2>3 DEF SameImages
<1>6. CASE \E a, m, b : LastAt(AllMessages, Pictures, s, a, m, b)
  <2>1. PICK a, m, b : LastAt(AllMessages, Pictures, s, a, m, b)
    BY <1>6
  <2>2. PICK c : c = Spread(UserOnly, a)
    OBVIOUS
  <2>3. PICK d : d = Spread(UserOnly, b)
    OBVIOUS
  <2>4. Pictures \subseteq Users /\ Askers \subseteq Users
    BY DEF Pictures, Askers, Users, HasImages, IsUser
  <2>5. LastAt(AllMessages, Pictures, u, c, m, d)
    BY <1>1, <2>1, <2>2, <2>3, <2>4, LastKept
  <2>6. /\ LastWhere(s, HasImages) = Len(a) + 1 /\ Len(a) \in Nat /\ s[Len(a) + 1] = m
        /\ imagePromptFallback(req, Len(a) + 1) = Fallback(a, req.system)
    BY <2>1, FallbackIs
  <2>7. /\ LastWhere(u, HasImages) = Len(c) + 1 /\ Len(c) \in Nat /\ u[Len(c) + 1] = m
        /\ imagePromptFallback(other, Len(c) + 1) = Fallback(c, other.system)
    BY <1>3, <2>5, FallbackIs
  <2>8. Fallback(c, other.system) = Fallback(a, req.system)
    <3>1. a \in Seq(AllMessages)
      BY <2>1 DEF LastAt
    <3>2. TheLast(c, Askers) = TheLast(a, Askers)
      BY <2>2, <2>4, <3>1, SameLast
    <3>3. QED
      BY <3>2 DEF Fallback
  <2> DEFINE i == Len(a) + 1
             j == Len(c) + 1
  <2>9. i > 0 /\ j > 0 /\ i # 0 /\ j # 0
    BY <2>6, <2>7
  <2>10. LastWhere(s, HasImages) = i /\ s[i] = m /\ LastWhere(u, HasImages) = j /\ u[j] = m
    BY <2>6, <2>7
  <2>11. imagePromptFallback(req, i) = imagePromptFallback(other, j)
    BY <2>6, <2>7, <2>8
  <2> HIDE DEF i, j
  <2>12. extractLastUserImages(s) = m.images /\ extractLastUserImages(u) = m.images
    BY <2>9, <2>10 DEF extractLastUserImages
  <2>13. requestForImageContext(req) = requestForImageContext(other)
    BY <1>3, <2>10, <2>11 DEF requestForImageContext
  <2>14. QED
    BY <1>3, <1>4, <2>9, <2>10, <2>11, <2>12, <2>13 DEF SameImages
<1>7. QED
  BY <1>5, <1>6, LastSplit

(* What the user says is the same in every format.                         *)
UserTurnPart == [t \in Turns |-> IF t.who = "user" THEN UserPart(t) ELSE <<>>]

(* The users' messages of a turn are the same in all formats,              *)
LEMMA UsersOfTurns ==
  ASSUME NEW format
  PROVE  Composes(PartsOf(format), UserOnly, UserTurnPart, Turns)
<1> SUFFICES ASSUME NEW t \in Turns PROVE Spread(UserOnly, PartsOf(format)[t]) = UserTurnPart[t]
  BY DEF Composes
<1> DEFINE tools == Spread(ToolPart, t.results)
           calls == Spread(CallPart, t.calls)
<1>0. "user" # "assistant" /\ "user" # "tool"
  OBVIOUS
<1>1. Spreads(UserOnly, AllMessages, AllMessages)
  BY UserOnlyType
<1>2. CASE t.who = "assistant"
  <2> DEFINE a == AnswerPart(t)
             b == SayPart(t)
  <2>1. a \in Seq(Assistants) /\ b \in Seq(Assistants) /\ calls \in Seq(Assistants)
    BY AssistantParts
  <2>2. b \o calls \in Seq(Assistants)
    <3> HIDE DEF b, calls
    <3>1. QED
      BY <2>1, JoinType, Zenon
  <2>3. \A m \in Assistants : UserOnly[m] = <<>>
    BY <1>0, TurnMessagesAre DEF Assistants, UserOnly, IsUser
  <2>4. PartsOf(format)[t] = IF format = "responses" THEN b \o calls ELSE a
    BY <1>0, <1>2 DEF PartsOf
  <2> HIDE DEF a, b, calls
  <2>5. PartsOf(format)[t] \in Seq(Assistants)
    BY <2>1, <2>2, <2>4, Zenon
  <2>6. Spread(UserOnly, PartsOf(format)[t]) = <<>>
    <3>1. PICK w : w = PartsOf(format)[t]
      OBVIOUS
    <3>2. w \in Seq(Assistants)
      BY <2>5, <3>1
    <3>3. Spread(UserOnly, w) = <<>>
      BY <2>3, <3>2, SpreadNothing, Zenon
    <3>4. QED
      BY <3>1, <3>3
  <2>7. UserTurnPart[t] = <<>>
    BY <1>0, <1>2 DEF UserTurnPart
  <2>8. QED
    BY <2>6, <2>7
<1>3. CASE t.who = "user"
  <2> DEFINE u == UserPart(t)
  <2>1. u \in Seq(AllMessages) /\ tools \in Seq(AllMessages)
    <3>1. u \in Seq(TurnMessages)
      BY <1>3, PartTypes
    <3>2. tools \in Seq(ToolsOf(t)) /\ ToolsOf(t) \subseteq TurnMessages
      BY ToolPartsAre DEF ToolsOf
    <3> HIDE DEF u, tools
    <3>3. tools \in Seq(TurnMessages)
      BY <3>2, SeqMonotonic
    <3>4. QED
      BY <3>1, <3>3, TurnMessagesAre, SeqMonotonic
  <2>2. Spread(UserOnly, u) = u
    <3> DEFINE m == Message("user", NonBlank(t.texts), NonBlank(t.images), <<>>, <<>>)
               c == NonBlank(t.texts) = <<>> /\ NonBlank(t.images) = <<>>
    <3>1. m.role = "user" /\ u = Unless(c, m)
      BY DEF UserPart, Message
    <3> HIDE DEF m, c, u
    <3>2. CASE u = <<>>
      BY <3>2, SpreadNone, Zenon
    <3>3. CASE u = <<m>>
      <4>1. m \in AllMessages
        BY <2>1, <3>3
      <4>2. Spread(UserOnly, <<m>>) = UserOnly[m]
        BY <1>1, <4>1, SpreadOne, Zenon
      <4>3. UserOnly[m] = <<m>>
        BY <3>1, <4>1 DEF UserOnly, IsUser
      <4>4. QED
        BY <3>3, <4>2, <4>3, Zenon
    <3>4. QED
      BY <3>1, <3>2, <3>3, UnlessIs, Zenon
  <2>3. Spread(UserOnly, tools) = <<>>
    <3>1. \A m \in ToolsOf(t) : UserOnly[m] = <<>>
      BY <1>0, TurnMessagesAre DEF ToolsOf, UserOnly, IsUser
    <3>2. tools \in Seq(ToolsOf(t))
      BY ToolPartsAre
    <3> HIDE DEF tools
    <3>3. QED
      BY <3>1, <3>2, SpreadNothing, Zenon
  <2>4. PartsOf(format)[t] = IF format = "anthropic" THEN u \o tools ELSE tools \o u
    BY <1>3 DEF PartsOf
  <2>5. UserTurnPart[t] = u
    BY <1>3 DEF UserTurnPart
  <2> HIDE DEF u, tools
  <2>6. SpreadSplits(UserOnly, u, tools) /\ SpreadSplits(UserOnly, tools, u)
    BY <1>1, <2>1, SpreadJoin, Zenon
  <2>7. u \o <<>> = u /\ <<>> \o u = u
    BY <2>1, JoinNone, NoneJoin, Zenon
  <2>8. QED
    BY <2>2, <2>3, <2>4, <2>5, <2>6, <2>7, Zenon DEF SpreadSplits
<1>4. QED
  BY <1>2, <1>3, TurnTypes

(* and so are those of a conversation.                                     *)
LEMMA UsersSame ==
  ASSUME conv \in Seq(Turns), NEW format \in ClientFormats
  PROVE  Spread(UserOnly, Messages(format)) = Spread(UserTurnPart, conv)
<1>1. PICK s : s = conv
  OBVIOUS
<1>2. s \in Seq(Turns)
  BY <1>1
<1>3. Spreads(PartsOf(format), Turns, AllMessages)
  <2>1. \A t \in Turns : PartsOf(format)[t] \in Seq(TurnMessages)
    BY PartsOfType, SpreadsTo
  <2>2. \A r \in Seq(TurnMessages) : r \in Seq(AllMessages)
    BY TurnMessagesAre, SeqMonotonic
  <2>3. QED
    BY <2>1, <2>2 DEF Spreads
<1>4. Spreads(UserOnly, AllMessages, AllMessages) /\ Composes(PartsOf(format), UserOnly, UserTurnPart, Turns)
  BY UserOnlyType, UsersOfTurns
<1>5. Gives(PartsOf(format), UserOnly, s, Spread(UserTurnPart, s))
  BY <1>2, <1>3, <1>4, SpreadComposed, Zenon
<1>6. Messages(format) = Spread(PartsOf(format), s)
  BY <1>1, MessagesAre
<1>7. QED
  BY <1>1, <1>5, <1>6, Zenon DEF Gives

(* The entries of a turn.                                                  *)
EntryIf(role, x) == IF x = <<>> THEN <<>> ELSE <<[role |-> role, text |-> x]>>

(* The entries of a turn, results first.                                   *)
TurnEntries == [t \in Turns |-> Spread(EntryOf, Spread(ToolPart, t.results)) \o EntryIf(t.who, NonBlank(t.texts))]

(* The entries of a message or none, and of the words of a turn.           *)
LEMMA UnlessEntry ==
  ASSUME NEW c, NEW m, Unless(c, m) \in Seq(TurnMessages), NEW role, role # "tool", m.role = role, NEW x, m.text = x,
         c => x = <<>>
  PROVE  Spread(EntryOf, Unless(c, m)) = EntryIf(role, x)
<1>1. CASE Unless(c, m) = <<>> /\ c
  <2>1. EntryIf(role, x) = <<>>
    BY <1>1 DEF EntryIf
  <2>2. QED
    BY <1>1, <2>1, SpreadNone, Zenon
<1>2. CASE Unless(c, m) = <<m>>
  <2>1. m \in AllMessages
    BY <1>2, TurnMessagesAre
  <2>2. Spread(EntryOf, <<m>>) = EntryOf[m]
    <3>1. Spreads(EntryOf, AllMessages, Entries)
      BY EntryTypes
    <3>2. QED
      BY <2>1, <3>1, SpreadOne, Zenon
  <2>3. EntryOf[m] = EntryIf(role, x)
    BY <2>1 DEF EntryOf, EntryIf, AsEntry
  <2>4. QED
    BY <1>2, <2>2, <2>3, Zenon
<1>3. QED
  BY <1>1, <1>2, UnlessIs, Zenon

LEMMA SpokenEntries ==
  ASSUME NEW t \in Turns
  PROVE  /\ t.who = "user" => Spread(EntryOf, UserPart(t)) = EntryIf("user", NonBlank(t.texts))
         /\ Spread(EntryOf, AnswerPart(t)) = EntryIf("assistant", NonBlank(t.texts))
         /\ Spread(EntryOf, SayPart(t)) = EntryIf("assistant", NonBlank(t.texts))
         /\ Spread(EntryOf, Spread(CallPart, t.calls)) = <<>>
<1> DEFINE x == NonBlank(t.texts)
           y == NonBlank(t.images)
<1>0. "user" # "tool" /\ "assistant" # "tool"
  OBVIOUS
<1>1. ASSUME t.who = "user" PROVE Spread(EntryOf, UserPart(t)) = EntryIf("user", x)
  <2> DEFINE m == Message("user", x, y, <<>>, <<>>)
             c == x = <<>> /\ y = <<>>
  <2>1. m.text = x /\ m.role = "user"
    BY DEF Message
  <2>2. UserPart(t) = Unless(c, m) /\ UserPart(t) \in Seq(TurnMessages)
    BY <1>1, PartTypes DEF UserPart
  <2>3. c => x = <<>>
    OBVIOUS
  <2> HIDE DEF m, c, x, y
  <2>4. Unless(c, m) \in Seq(TurnMessages)
    BY <2>2, Zenon
  <2>5. Spread(EntryOf, Unless(c, m)) = EntryIf("user", x)
    BY <1>0, <2>1, <2>3, <2>4, UnlessEntry
  <2>6. QED
    BY <2>2, <2>5, Zenon
<1>2. Spread(EntryOf, AnswerPart(t)) = EntryIf("assistant", x)
  <2> DEFINE m == Message("assistant", x, <<>>, <<>>, t.calls)
             c == x = <<>> /\ t.calls = <<>>
  <2>1. m.text = x /\ m.role = "assistant"
    BY DEF Message
  <2>2. AnswerPart(t) = Unless(c, m) /\ AnswerPart(t) \in Seq(TurnMessages)
    BY PartTypes DEF AnswerPart
  <2>3. c => x = <<>>
    OBVIOUS
  <2> HIDE DEF m, c, x, y
  <2>4. Unless(c, m) \in Seq(TurnMessages)
    BY <2>2, Zenon
  <2>5. Spread(EntryOf, Unless(c, m)) = EntryIf("assistant", x)
    BY <1>0, <2>1, <2>3, <2>4, UnlessEntry
  <2>6. QED
    BY <2>2, <2>5, Zenon
<1>3. Spread(EntryOf, SayPart(t)) = EntryIf("assistant", x)
  <2> DEFINE m == Message("assistant", x, <<>>, <<>>, <<>>)
             c == x = <<>>
  <2>1. m.text = x /\ m.role = "assistant"
    BY DEF Message
  <2>2. SayPart(t) = Unless(c, m) /\ SayPart(t) \in Seq(TurnMessages)
    BY PartTypes DEF SayPart
  <2>3. c => x = <<>>
    OBVIOUS
  <2> HIDE DEF m, c, x, y
  <2>4. Unless(c, m) \in Seq(TurnMessages)
    BY <2>2, Zenon
  <2>5. Spread(EntryOf, Unless(c, m)) = EntryIf("assistant", x)
    BY <1>0, <2>1, <2>3, <2>4, UnlessEntry
  <2>6. QED
    BY <2>2, <2>5, Zenon
<1>4. Spread(EntryOf, Spread(CallPart, t.calls)) = <<>>
  <2>1. ASSUME NEW id \in TurnMarks PROVE Spread(EntryOf, CallPart[id]) = <<>>
    <3> DEFINE m == Message("assistant", <<>>, <<>>, <<>>, <<id>>)
    <3>1. CallPart[id] = <<m>> /\ m.text = <<>>
      BY DEF CallPart, Message
    <3>2. CallPart[id] \in Seq(TurnMessages)
      BY PartTypes, SpreadsTo
    <3> HIDE DEF m
    <3>3. m \in AllMessages
      BY <3>1, <3>2, TurnMessagesAre
    <3>4. Spreads(EntryOf, AllMessages, Entries)
      BY EntryTypes
    <3>5. Spread(EntryOf, <<m>>) = EntryOf[m]
      BY <3>3, <3>4, SpreadOne, Zenon
    <3>6. EntryOf[m] = <<>>
      BY <3>1, <3>3 DEF EntryOf
    <3>7. QED
      BY <3>1, <3>5, <3>6, Zenon
  <2>2. Cancels(CallPart, EntryOf, TurnMarks)
    BY <2>1, Zenon DEF Cancels
  <2>3. Spreads(CallPart, TurnMarks, AllMessages)
    <3>1. \A id \in TurnMarks : CallPart[id] \in Seq(TurnMessages)
      BY PartTypes, SpreadsTo
    <3>2. \A r \in Seq(TurnMessages) : r \in Seq(AllMessages)
      BY TurnMessagesAre, SeqMonotonic
    <3>3. QED
      BY <3>1, <3>2 DEF Spreads
  <2>4. t.calls \in Seq(TurnMarks) /\ Spreads(EntryOf, AllMessages, Entries)
    BY TurnTypes, EntryTypes
  <2>5. Gives(CallPart, EntryOf, t.calls, <<>>)
    BY <2>2, <2>3, <2>4, SpreadCancelled, Zenon
  <2>6. QED
    BY <2>5, Zenon DEF Gives
<1>5. QED
  BY <1>1, <1>2, <1>3, <1>4

(* The turns whose entries are in the order of the other formats.          *)
AgreeingTurns(format) == {t \in Turns : format = "anthropic" => ~(NonBlank(t.texts) # <<>> /\ t.results # <<>>)}

(* The entries of such a turn are the same in all formats,                 *)
LEMMA EntriesOfTurns ==
  ASSUME NEW format
  PROVE  Composes(PartsOf(format), EntryOf, TurnEntries, AgreeingTurns(format))
<1> SUFFICES ASSUME NEW t \in AgreeingTurns(format) PROVE Spread(EntryOf, PartsOf(format)[t]) = TurnEntries[t]
  BY DEF Composes
<1> DEFINE tools == Spread(ToolPart, t.results)
           calls == Spread(CallPart, t.calls)
           x == NonBlank(t.texts)
           e == Spread(EntryOf, tools)
           y == EntryIf(t.who, x)
<1>0. "user" # "assistant" /\ "user" \in Roles /\ "assistant" \in Roles
  BY RolesAre
<1>1. t \in Turns /\ (format = "anthropic" => x = <<>> \/ t.results = <<>>)
  BY DEF AgreeingTurns
<1>2. Spreads(EntryOf, AllMessages, Entries) /\ \A r \in Seq(TurnMessages) : r \in Seq(AllMessages)
  BY EntryTypes, TurnMessagesAre, SeqMonotonic
<1>3. TurnEntries[t] = e \o y
  BY <1>1 DEF TurnEntries
<1>4. tools \in Seq(AllMessages) /\ calls \in Seq(AllMessages)
  <2>1. t.results \in Seq(Results) /\ t.calls \in Seq(TurnMarks)
    BY <1>1, TurnTypes
  <2>2. tools \in Seq(TurnMessages) /\ calls \in Seq(TurnMessages)
    BY <2>1, PartTypes, SpreadType, Zenon
  <2>3. QED
    BY <1>2, <2>2
<1>5. e \in Seq(Entries)
  BY <1>2, <1>4, SpreadType, Zenon
<1>6. y \in Seq(Entries)
  <2>1. x \in Seq(AllMarks)
    BY <1>1, TurnTypes, NonBlankType, SaidMarksAre
  <2>2. t.who \in Roles
    BY <1>0, <1>1, TurnTypes
  <2>3. [role |-> t.who, text |-> x] \in Entries
    BY <2>1, <2>2 DEF Entries
  <2>4. QED
    BY <2>3, OneType, NoneType DEF EntryIf
<1>7. t.results = <<>> => e = <<>>
  BY SpreadNone, Zenon
<1>8. x = <<>> => y = <<>>
  BY DEF EntryIf
<1>9. CASE t.who = "user"
  <2> DEFINE u == UserPart(t)
  <2>1. u \in Seq(AllMessages) /\ Spread(EntryOf, u) = y
    BY <1>1, <1>2, <1>9, PartTypes, SpokenEntries
  <2>2. PartsOf(format)[t] = IF format = "anthropic" THEN u \o tools ELSE tools \o u
    BY <1>1, <1>9 DEF PartsOf
  <2> HIDE DEF u, tools, x, y
  <2>3. SpreadSplits(EntryOf, u, tools) /\ SpreadSplits(EntryOf, tools, u)
    BY <1>2, <1>4, <2>1, SpreadJoin, Zenon
  <2>4. Spread(EntryOf, u \o tools) = y \o e /\ Spread(EntryOf, tools \o u) = e \o y
    BY <2>1, <2>3, Zenon DEF SpreadSplits
  <2> HIDE DEF e
  <2>5. format = "anthropic" => y \o e = e \o y
    <3>1. y \o <<>> = y /\ <<>> \o y = y /\ e \o <<>> = e /\ <<>> \o e = e
      BY <1>5, <1>6, JoinNone, NoneJoin, Zenon
    <3>2. QED
      BY <1>1, <1>7, <1>8, <3>1, Zenon
  <2>6. QED
    BY <1>3, <2>2, <2>4, <2>5, Zenon
<1>10. CASE t.who = "assistant"
  <2> DEFINE a == AnswerPart(t)
             b == SayPart(t)
  <2>1. a \in Seq(AllMessages) /\ b \in Seq(AllMessages)
    BY <1>1, <1>2, PartTypes
  <2>2. Spread(EntryOf, a) = y /\ Spread(EntryOf, b) = y /\ Spread(EntryOf, calls) = <<>>
    BY <1>1, <1>10, SpokenEntries
  <2>3. PartsOf(format)[t] = IF format = "responses" THEN b \o calls ELSE a
    BY <1>0, <1>1, <1>10 DEF PartsOf
  <2>4. e = <<>>
    BY <1>0, <1>1, <1>7, <1>10, TurnTypes
  <2> HIDE DEF a, b, calls, x, y, e
  <2>5. SpreadSplits(EntryOf, b, calls)
    BY <1>2, <1>4, <2>1, SpreadJoin, Zenon
  <2>6. y \o <<>> = y /\ <<>> \o y = y
    BY <1>6, JoinNone, NoneJoin, Zenon
  <2>7. QED
    BY <1>3, <2>2, <2>3, <2>4, <2>5, <2>6, Zenon DEF SpreadSplits
<1>11. QED
  BY <1>1, <1>9, <1>10, TurnTypes

(* and so are those of a conversation of such turns.                       *)
LEMMA EntriesSame ==
  ASSUME conv \in Seq(Turns), NEW format \in ClientFormats, conv \in Seq(AgreeingTurns(format))
  PROVE  filteredMessages(Messages(format)) = Spread(TurnEntries, conv)
<1>1. PICK s : s = conv
  OBVIOUS
<1>2. PICK M : M = Messages(format)
  OBVIOUS
<1> DEFINE S == AgreeingTurns(format)
<1>3. s \in Seq(S) /\ s \in Seq(Turns)
  BY <1>1
<1>4. Spreads(PartsOf(format), S, AllMessages)
  <2>1. \A t \in Turns : PartsOf(format)[t] \in Seq(TurnMessages)
    BY PartsOfType, SpreadsTo
  <2>2. \A r \in Seq(TurnMessages) : r \in Seq(AllMessages)
    BY TurnMessagesAre, SeqMonotonic
  <2>3. \A t \in S : t \in Turns
    BY DEF AgreeingTurns
  <2> HIDE DEF S
  <2>4. QED
    BY <2>1, <2>2, <2>3 DEF Spreads
<1>5. Composes(PartsOf(format), EntryOf, TurnEntries, S)
  BY EntriesOfTurns
<1>6. M = Spread(PartsOf(format), s) /\ M \in Seq(AllMessages)
  BY <1>1, <1>2, MessagesAre, TurnMessagesAre, SeqMonotonic
<1>7. filteredMessages(M) = Spread(EntryOf, M)
  BY <1>6, FilteredIs
<1>8. Spreads(EntryOf, AllMessages, Entries)
  BY EntryTypes
<1> HIDE DEF S
<1>9. Gives(PartsOf(format), EntryOf, s, Spread(TurnEntries, s))
  BY <1>3, <1>4, <1>5, <1>8, SpreadComposed, Zenon
<1>10. QED
  BY <1>1, <1>2, <1>6, <1>7, <1>9, Zenon DEF Gives

(* The question to the IPC backend shows the last image.                   *)
LEMMA ImageShown ==
  ASSUME NEW s \in Seq(AllMessages), NEW req, req.messages = s, requestHasImages(req)
  PROVE  extractLastUserImages(requestForImageContext(req).messages) = extractLastUserImages(s)
<1> DEFINE i == LastWhere(s, HasImages)
           m == s[i]
           question == IF m.text = <<>> THEN imagePromptFallback(req, i) ELSE m.text
           p == Message("user", question, m.images, <<>>, <<>>)
           r == <<p>>
<1>1. i > 0
  BY HasImagesIs
<1>2. i = LastIn(s, Pictures) /\ m \in Pictures
  <2>1. i = LastIn(s, Pictures)
    BY LastWheresAre
  <2>2. LastIn(s, Pictures) > 0 => s[LastIn(s, Pictures)] \in Pictures
    BY LastInFacts
  <2> HIDE DEF i
  <2>3. QED
    BY <1>1, <2>1, <2>2
<1>3. m.images # <<>>
  BY <1>2 DEF Pictures, HasImages
<1>4. requestForImageContext(req).messages = r
  BY DEF requestForImageContext
<1>5. extractLastUserImages(s) = m.images
  BY <1>1 DEF extractLastUserImages
<1>6. p.images = m.images /\ p.role = "user"
  BY DEF Message
<1> HIDE DEF p, m, i
<1>7. HasImages(p)
  BY <1>3, <1>6 DEF HasImages
<1>8. Len(r) = 1 /\ r[1] = p
  BY ListOfOne
<1> HIDE DEF r
<1> DEFINE I == {k \in 1 .. Len(r) : HasImages(r[k])}
<1>9. 1 \in I /\ I \in SUBSET (1 .. 1)
  BY <1>7, <1>8
<1>10. LastWhere(r, HasImages) = 1
  <2>1. LastWhere(r, HasImages) = IF I # {} THEN Max(I) ELSE 0
    BY DEF LastWhere, SelectLastInSeq
  <2> HIDE DEF I
  <2>2. Max(I) = 1
    BY <1>9, MaxIs
  <2>3. QED
    BY <1>9, <2>1, <2>2
<1>11. extractLastUserImages(r) = p.images
  BY <1>8, <1>10 DEF extractLastUserImages
<1>12. QED
  BY <1>4, <1>5, <1>6, <1>11

(* The prompt is made of the entries and of what the user says.            *)
LEMMA PromptSame ==
  ASSUME NEW req, NEW other, req.system = other.system,
         filteredMessages(req.messages) = filteredMessages(other.messages), SameImages(req, other), NEW mode
  PROVE  buildLingmaPrompt(req, mode) = buildLingmaPrompt(other, mode)
<1> DEFINE e == filteredMessages(req.messages)
           i == LastWhere(req.messages, HasImages)
           j == LastWhere(other.messages, HasImages)
           Entered2(k, q) == IF LastWhere(e, IsUser) > 0 THEN e
                             ELSE IF k > 0 THEN Append(e, [role |-> "user", text |-> q]) ELSE <<>>
           a == Entered2(i, imagePromptFallback(req, i))
           b == Entered2(j, imagePromptFallback(other, j))
<1>1. i > 0 <=> j > 0
  BY DEF SameImages
<1>2. i > 0 => imagePromptFallback(req, i) = imagePromptFallback(other, j)
  BY DEF SameImages
<1>3. a = b
  <2> HIDE DEF i, j
  <2>1. QED
    BY <1>1, <1>2
<1> DEFINE Built(entries) ==
      IF entries = <<>> THEN Refused
      ELSE IF mode = "reuse" THEN [Refused EXCEPT !.entries = <<entries[LastWhere(entries, IsUser)]>>]
      ELSE [system |-> req.system, entries |-> entries]
<1>4. buildLingmaPrompt(req, mode) = Built(a)
  BY DEF buildLingmaPrompt
<1>5. buildLingmaPrompt(other, mode) = Built(b)
  BY DEF buildLingmaPrompt
<1> HIDE DEF a, b, Built
<1>6. QED
  BY <1>3, <1>4, <1>5

(* The property, from the invariant.                                       *)
LEMMA FormatsAgreeOfInv == ConversationInv => FormatsAgree
<1> DEFINE mixed == \E i \in DOMAIN conv : NonBlank(conv[i].texts) # <<>> /\ conv[i].results # <<>>
           agreeing == IF mixed THEN ClientFormats \ {"anthropic"} ELSE ClientFormats
           req(f) == Request(f)
<1> SUFFICES ASSUME ConversationInv, NEW f \in agreeing, NEW g \in agreeing
             PROVE  /\ \A mode \in {"fresh", "reuse"} : buildLingmaPrompt(req(f), mode) = buildLingmaPrompt(req(g), mode)
                    /\ extractLastUserImages(Messages(f)) = extractLastUserImages(Messages(g))
                    /\ requestHasImages(req(f)) =>
                         /\ requestForImageContext(req(f)) = requestForImageContext(req(g))
                         /\ extractLastUserImages(requestForImageContext(req(f)).messages) = extractLastUserImages(Messages(f))
  BY DEF FormatsAgree
<1>1. conv \in Seq(Turns)
  BY DEF ConversationInv
<1>2. f \in ClientFormats /\ g \in ClientFormats
  OBVIOUS
<1>3. ASSUME NEW h \in agreeing
      PROVE  filteredMessages(Messages(h)) = Spread(TurnEntries, conv)
  <2>1. ASSUME NEW i \in DOMAIN conv PROVE conv[i] \in AgreeingTurns(h)
    <3>1. conv[i] \in Turns
      BY <1>1, ElementOfSeq
    <3>2. h = "anthropic" => ~mixed
      OBVIOUS
    <3>3. QED
      BY <3>1, <3>2 DEF AgreeingTurns
  <2>2. conv \in Seq(AgreeingTurns(h))
    <3>1. PICK S : S = AgreeingTurns(h)
      OBVIOUS
    <3>2. \A i \in DOMAIN conv : conv[i] \in S
      BY <2>1, <3>1
    <3>3. conv \in Seq(S)
      BY <1>1, <3>2
    <3>4. QED
      BY <3>1, <3>3
  <2>3. h \in ClientFormats
    OBVIOUS
  <2>4. QED
    BY <1>1, <2>2, <2>3, EntriesSame
<1>4. PICK M : M = Messages(f)
  OBVIOUS
<1>5. PICK N : N = Messages(g)
  OBVIOUS
<1>6. M \in Seq(AllMessages) /\ N \in Seq(AllMessages)
  BY <1>1, <1>2, <1>4, <1>5, MessagesAre, TurnMessagesAre, SeqMonotonic
<1>7. PICK u : u = Spread(UserTurnPart, conv)
  OBVIOUS
<1>8. u = Spread(UserOnly, M) /\ u = Spread(UserOnly, N)
  BY <1>1, <1>2, <1>4, <1>5, <1>7, UsersSame
<1>9. PICK r : r = req(f)
  OBVIOUS
<1>10. PICK o : o = req(g)
  OBVIOUS
<1>11. r.messages = M /\ o.messages = N /\ r.system = system /\ o.system = system
  BY <1>4, <1>5, <1>9, <1>10 DEF Request
<1>12. PICK both : both = [system |-> system, messages |-> u]
  OBVIOUS
<1>13. both.system = system /\ both.messages = u
  BY <1>12
<1>14. SameImages(r, both) /\ SameImages(o, both)
  BY <1>6, <1>8, <1>11, <1>13, ImagesSame
<1>15. SameImages(r, o)
  BY <1>14, Zenon DEF SameImages
<1>16. filteredMessages(M) = filteredMessages(N)
  BY <1>3, <1>4, <1>5
<1> HIDE DEF agreeing, req
<1>17. \A mode : buildLingmaPrompt(r, mode) = buildLingmaPrompt(o, mode)
  BY <1>11, <1>15, <1>16, PromptSame
<1>18. extractLastUserImages(M) = extractLastUserImages(N)
  BY <1>11, <1>15 DEF SameImages
<1>19. requestHasImages(r) => requestForImageContext(r) = requestForImageContext(o)
  BY <1>15 DEF SameImages
<1>20. requestHasImages(r) => extractLastUserImages(requestForImageContext(r).messages) = extractLastUserImages(M)
  BY <1>6, <1>11, ImageShown
<1>21. QED
  BY <1>4, <1>5, <1>9, <1>10, <1>17, <1>18, <1>19, <1>20

(* The three formats are three ways to say the same.                       *)
THEOREM FormatsAgreeTheorem == ConversationSpec => []FormatsAgree
<1>1. ConversationInv => FormatsAgree
  BY FormatsAgreeOfInv
<1>2. QED
  BY <1>1, ConversationInvHolds, PTL
=============================================================================
