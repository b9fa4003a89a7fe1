------------------------- MODULE IpcSession_proofs -------------------------
(* Inductive invariant of IpcSession, its safety theorems, and the proof   *)
(* that it implements StickySession, for any number of requests, models    *)
(* and connections.  Then, of Frames, what the connections carry: both     *)
(* readers find the frames again, for any number of frames, any bodies and *)
(* wherever the stream is cut.                                             *)
EXTENDS IpcSession, Frames, FoldTheorems, FiniteSetTheorems, SequenceTheorems, TLAPS

Setup == {"idle", "connect", "dialing", "initializing", "resolve", "creating"}
Connected == {"initializing", "resolve", "creating"}
InSession == {"model", "setting", "remember", "prompt", "listening", "invalidate", "delete"}

(* What a request has, by where it is; Service.mu is held across dialling, *)
(* "initialize" and "session/new", and nowhere else.                       *)
PlaceInv ==
  \A r \in Requests :
    /\ mu = r <=> pc[r] \in {"dialing", "initializing", "creating"}
    /\ pc[r] \in Connected \cup InSession => my[r] # 0
    /\ pc[r] \in Setup => sid[r] = 0
    /\ pc[r] \in InSession => sid[r] # 0
    /\ pc[r] # "idle" => want[r] \in Models
    /\ pc[r] = "invalidate" => Reuses
    /\ pc[r] = "delete" => ~Reuses

(* A connection that is not closed is the service's or the one being       *)
(* initialised; the service has none while one is being made.              *)
ConnInv ==
  \A r \in Requests :
    /\ my[r] # 0 /\ conn[my[r]] # "closed" /\ pc[r] # "initializing" => my[r] = client
    /\ pc[r] \in {"dialing", "initializing"} => client = 0

(* The sticky session is one of the service's connection, and so is a      *)
(* request's as long as its connection is not closed.                      *)
StickyInv ==
  /\ sticky = 0 => stickyModel = NoModel
  /\ sticky # 0 => Reuses /\ client # 0 /\ sess[sticky].conn = client
  /\ \A r \in Requests :
       /\ pc[r] = "creating" /\ Reuses => sticky = 0
       /\ pc[r] \in InSession /\ conn[my[r]] # "closed" => sess[sid[r]].conn = my[r]

(* A session that is not shared is its owner's alone, there until it is    *)
(* deleted, and is deleted at most twice.                                  *)
OwnInv ==
  ~Reuses => \A r \in Requests :
    /\ sid[r] # 0 => sess[sid[r]].owner = r
    /\ pc[r] \in InSession \ {"delete"} => sess[sid[r]].deletes = 0
    /\ pc[r] = "delete" => sess[sid[r]].deletes \in {0, 1}
    /\ pc[r] \in InSession => sess[sid[r]].live

(* A first try that may still be repeated has not forwarded text, and if   *)
(* it has forwarded thoughts its connection is closed.                     *)
SpokeInv ==
  \A r \in Requests :
    /\ "text" \in spoke[r] =>
         /\ attempt[r] = 1 /\ pc[r] # "reset"
         /\ pc[r] = "listening" => got[r] \/ round[r] = 2
         /\ err[r] # "recoverable"
    /\ attempt[r] = 1 /\ spoke[r] # {} =>
         /\ pc[r] \notin Setup \cup {"model", "setting", "remember"}
         /\ pc[r] = "prompt" => round[r] = 2
         /\ my[r] # 0
         /\ err[r] = "recoverable" => conn[my[r]] = "closed"
    /\ pc[r] \notin {"invalidate", "delete", "return", "reset", "done"} => err[r] = "none"
    /\ pc[r] = "reset" => attempt[r] = 1

(* When the gate lets one request in at a time, there is one.              *)
OneInv == config.atOnce = 1 => \A q, r \in Requests : Active(q) /\ Active(r) => q = r

Steady == ~Reuses \/ config.atOnce = 1

(* Where sessions are not shared, or shared by one request at a time: past *)
(* "session/set_model" a session has its request's model, and the          *)
(* remembered model is that of the sticky session unless a request is      *)
(* about to correct it.                                                    *)
ModelInv ==
  Steady =>
    /\ \A r \in Requests :
         pc[r] \in {"remember", "prompt", "listening"} => sess[sid[r]].model = want[r]
    /\ stickyModel # NoModel =>
         \/ sess[sticky].model = stickyModel
         \/ \E r \in Requests : pc[r] \in {"remember", "invalidate"} /\ sid[r] = sticky

IInv ==
  TypeOK /\ PlaceInv /\ ConnInv /\ StickyInv /\ OwnInv /\ SpokeInv /\ OneInv /\ ModelInv
    /\ NoSessionLeftBehind

-----------------------------------------------------------------------------
(* No request is the mutex's "nobody", no model the session's "none".      *)
LEMMA Distinct == Free \notin Requests /\ NoModel \notin Models
BY SessionAssumption DEF SessionAssumption

(* A request's session can be given a model, marked deleted, and have one  *)
(* failed deletion more: the sessions remain as many, and sessions.        *)
LEMMA SessionEdits ==
  ASSUME TypeOK, NEW r \in Requests, sid[r] # 0
  PROVE  /\ sid[r] \in 1 .. Len(sess) /\ sess[sid[r]] \in Session
         /\ LET s == [sess EXCEPT ![sid[r]].model = want[r]] IN s \in Seq(Session) /\ Len(s) = Len(sess)
         /\ LET s == [sess EXCEPT ![sid[r]].live = FALSE] IN s \in Seq(Session) /\ Len(s) = Len(sess)
         /\ LET s == [sess EXCEPT ![sid[r]].deletes = @ + 1]
            IN sess[sid[r]].deletes < 2 => s \in Seq(Session) /\ Len(s) = Len(sess)
<1>1. sid[r] \in 1 .. Len(sess) /\ sess \in Seq(Session)
  BY DEF TypeOK, TypeSessions
<1>2. sess[sid[r]] \in Session
  BY <1>1, ElementOfSeq
<1>3. want[r] \in Models \cup {NoModel}
  BY DEF TypeOK, TypeRequests
<1> DEFINE s == sess[sid[r]]
<1>4. /\ [s EXCEPT !.model = want[r]] \in Session /\ [s EXCEPT !.live = FALSE] \in Session
      /\ s.deletes < 2 => [s EXCEPT !.deletes = @ + 1] \in Session
  <2>1. s.deletes < 2 => s.deletes + 1 \in 0 .. 2
    BY <1>2 DEF Session
  <2>2. QED
    BY <1>2, <1>3, <2>1 DEF Session
<1>5. QED
  BY <1>1, <1>2, <1>4, ExceptSeq

(* Where sessions are not shared, or by one request at a time, requests at *)
(* work have sessions of their own.                                        *)
LEMMA NotShared ==
  ASSUME TypeOK, PlaceInv, OwnInv, OneInv, Steady, NEW q \in Requests, NEW r \in Requests,
         q # r, pc[q] \in InSession, pc[r] \in InSession
  PROVE  sid[q] # sid[r]
<1>1. CASE ~Reuses
  BY <1>1 DEF PlaceInv, OwnInv
<1>2. CASE config.atOnce = 1
  BY <1>2 DEF OneInv, Active, InSession
<1>3. QED
  BY <1>1, <1>2 DEF Steady

USE DEF requestVars, serviceVars

(* The ways a prompt ends,                                                 *)
PromptOver(r) ==
  \/ ChatFinish(r) \/ StreamClosed(r) \/ PromptExpired(r)
  \/ \E e \in {"recoverable", "fatal"} : PromptNotSent(r, e)

(* and what they have in common: an answer returns or is followed by the   *)
(* second prompt, and an error to try again after means that nothing came. *)
LEMMA PromptOverEffect ==
  ASSUME TypeRequests, NEW r \in Requests, PromptOver(r)
  PROVE  /\ pc[r] \in {"prompt", "listening"}
         /\ \E step \in IF Reuses THEN {"invalidate", "return", "prompt"} ELSE {"delete", "prompt"} :
              /\ pc' = [pc EXCEPT ![r] = step]
              /\ step = "prompt" => round' = [round EXCEPT ![r] = 2] /\ err' = err
              /\ step # "prompt" => round' = round /\ \E e \in Errors :
                   /\ err' = [err EXCEPT ![r] = e]
                   /\ e = "recoverable" => round[r] = 1
                        /\ (pc[r] = "listening" => ~got[r] /\ conn[my[r]] = "closed")
         /\ UNCHANGED <<config, attempt, my, sid, want, got, spoke, serviceVars, conn, sess>>
<1> USE DEF TypeRequests, Errors, Goto, Leave, Answered, PromptFailed
<1>1. CASE ChatFinish(r)
  BY <1>1 DEF ChatFinish
<1>2. CASE StreamClosed(r)
  BY <1>2 DEF StreamClosed
<1>3. CASE PromptExpired(r)
  BY <1>3 DEF PromptExpired
<1>4. CASE \E e \in {"recoverable", "fatal"} : PromptNotSent(r, e)
  BY <1>4 DEF PromptNotSent
<1>5. QED
  BY <1>1, <1>2, <1>3, <1>4 DEF PromptOver

(* Of that, what the connections and sessions are concerned with.          *)
LEMMA PromptOverMoves ==
  ASSUME TypeRequests, NEW r \in Requests, PromptOver(r)
  PROVE  /\ pc[r] \in {"prompt", "listening"}
         /\ \E step \in {"invalidate", "return", "prompt", "delete"} : pc' = [pc EXCEPT ![r] = step]
         /\ UNCHANGED <<config, attempt, my, sid, want, got, spoke, serviceVars, conn, sess>>
BY PromptOverEffect

(* What belongs to the requests keeps its type.                            *)
LEMMA TypeRequestsStep == TypeOK /\ PlaceInv /\ [Next]_vars => TypeRequests'
<1> SUFFICES ASSUME TypeOK, PlaceInv, [Next]_vars PROVE TypeRequests'
  OBVIOUS
<1> USE DEF TypeOK, TypeRequests, TypeConns, PlaceInv, Errors, CallError
<1>1. ASSUME NEW r \in Requests, Arrive(r) PROVE TypeRequests'
  BY <1>1 DEF Arrive, Goto
<1>2. ASSUME NEW r \in Requests, UseConnection(r) PROVE TypeRequests'
  BY <1>2 DEF UseConnection, Goto
<1>3. ASSUME NEW r \in Requests, Dial(r) PROVE TypeRequests'
  BY <1>3 DEF Dial, Goto
<1>4. ASSUME NEW r \in Requests, Dialed(r) PROVE TypeRequests'
  BY <1>4 DEF Dialed, Goto
<1>5. ASSUME NEW r \in Requests, Initialized(r) PROVE TypeRequests'
  BY <1>5 DEF Initialized, Goto
<1>6. ASSUME NEW r \in Requests, ReuseSession(r) PROVE TypeRequests'
  BY <1>6 DEF ReuseSession, Reusable, Goto
<1>7. ASSUME NEW r \in Requests, CreateSession(r) PROVE TypeRequests'
  BY <1>7 DEF CreateSession, Reusable, Goto
<1>8. ASSUME NEW r \in Requests, SessionCreated(r) PROVE TypeRequests'
  BY <1>8 DEF SessionCreated, NewSession, Goto
<1>9. ASSUME NEW r \in Requests, KeepModel(r) PROVE TypeRequests'
  BY <1>9 DEF KeepModel, ModelKnown, Goto
<1>10. ASSUME NEW r \in Requests, SetModel(r) PROVE TypeRequests'
  BY <1>10 DEF SetModel, ModelKnown, Goto
<1>11. ASSUME NEW r \in Requests, ModelSet(r) PROVE TypeRequests'
  BY <1>11 DEF ModelSet, Goto
<1>12. ASSUME NEW r \in Requests, Remember(r) PROVE TypeRequests'
  BY <1>12 DEF Remember, Goto
<1>13. ASSUME NEW r \in Requests, PromptSent(r) PROVE TypeRequests'
  BY <1>13 DEF PromptSent, Goto
<1>14. ASSUME NEW r \in Requests, TextChunk(r) PROVE TypeRequests'
  BY <1>14 DEF TextChunk, Forward
<1>30. ASSUME NEW r \in Requests, ThoughtChunk(r) PROVE TypeRequests'
  BY <1>30 DEF ThoughtChunk, Forward
<1>15. ASSUME NEW r \in Requests, PromptOver(r) PROVE TypeRequests'
  <2>1. /\ \E step \in {"invalidate", "return", "prompt", "delete"} : pc' = [pc EXCEPT ![r] = step]
        /\ round' = [round EXCEPT ![r] = 2] \/ round' = round
        /\ err' = err \/ \E e \in Errors : err' = [err EXCEPT ![r] = e]
    BY <1>15, PromptOverEffect
  <2>2. UNCHANGED <<config, attempt, my, sid, want, got, spoke, serviceVars, conn, sess>>
    BY <1>15, PromptOverEffect
  <2>3. QED
    BY <2>1, <2>2, ZenonT(60)
<1>16. ASSUME NEW r \in Requests, Invalidate(r) PROVE TypeRequests'
  BY <1>16 DEF Invalidate, ClearSticky, Goto
<1>17. ASSUME NEW r \in Requests, Deleted(r) PROVE TypeRequests'
  BY <1>17 DEF Deleted, Goto
<1>18. ASSUME NEW r \in Requests, DeleteFailed(r) PROVE TypeRequests'
  BY <1>18 DEF DeleteFailed, Goto
<1>19. ASSUME NEW r \in Requests, Return(r) PROVE TypeRequests'
  BY <1>19 DEF Return, TryAgain, Goto
<1>20. ASSUME NEW r \in Requests, Reset(r) PROVE TypeRequests'
  BY <1>20 DEF Reset, CloseClient, ClearSticky, Goto
<1>21. ASSUME NEW r \in Requests, NEW e \in {"recoverable", "fatal"}, DialFailed(r, e) PROVE TypeRequests'
  BY <1>21 DEF DialFailed, SetupFailed, Goto
<1>22. ASSUME NEW r \in Requests, NEW e \in {"recoverable", "fatal"}, InitializeFailed(r, e) PROVE TypeRequests'
  BY <1>22 DEF InitializeFailed, SetupFailed, CallError, Goto
<1>23. ASSUME NEW r \in Requests, NEW e \in {"recoverable", "fatal"}, CreateFailed(r, e) PROVE TypeRequests'
  BY <1>23 DEF CreateFailed, SetupFailed, CallError, Goto
<1>24. ASSUME NEW r \in Requests, NEW e \in {"recoverable", "fatal"}, SetModelFailed(r, e) PROVE TypeRequests'
  BY <1>24 DEF SetModelFailed, Leave, CallError, Goto
<1>25. CASE Close
  BY <1>25 DEF Close, CloseClient, ClearSticky
<1>26. ASSUME NEW c \in DOMAIN conn, Lose(c) PROVE TypeRequests'
  BY <1>26 DEF Lose
<1>27. ASSUME NEW c \in DOMAIN conn, ReadLoopEnds(c) PROVE TypeRequests'
  BY <1>27 DEF ReadLoopEnds
<1>28. CASE UNCHANGED vars
  BY <1>28 DEF vars
<1> HIDE DEF TypeOK, TypeRequests, TypeConns, PlaceInv, Errors, CallError
<1>29. QED
  BY <1>1, <1>2, <1>3, <1>4, <1>5, <1>6, <1>7, <1>8, <1>9, <1>10, <1>11, <1>12, <1>13, <1>14,
     <1>15, <1>16, <1>17, <1>18, <1>19, <1>20, <1>21, <1>22, <1>23, <1>24, <1>25, <1>26, <1>27,
     <1>28, <1>30
  DEF Next, Lock, Success, Failure, Prompting, PromptOver, Stopped

(* Connections are made and closed, nobody holds one never made.           *)
LEMMA TypeConnsStep == TypeOK /\ PlaceInv /\ [Next]_vars => TypeConns'
<1> SUFFICES ASSUME TypeOK, PlaceInv, [Next]_vars PROVE TypeConns'
  OBVIOUS
<1> USE DEF TypeOK, TypeRequests, TypeConns, ConnStates, PlaceInv, Connected, InSession
<1>1. ASSUME NEW r \in Requests, Arrive(r) PROVE TypeConns'
  BY <1>1 DEF Arrive, Goto
<1>2. ASSUME NEW r \in Requests, UseConnection(r) PROVE TypeConns'
  BY <1>2 DEF UseConnection, Goto
<1>3. ASSUME NEW r \in Requests, Dial(r) PROVE TypeConns'
  BY <1>3 DEF Dial, Goto
<1>4. ASSUME NEW r \in Requests, Dialed(r) PROVE TypeConns'
  BY <1>4 DEF Dialed, Goto
<1>5. ASSUME NEW r \in Requests, Initialized(r) PROVE TypeConns'
  BY <1>5 DEF Initialized, Goto
<1>6. ASSUME NEW r \in Requests, ReuseSession(r) PROVE TypeConns'
  BY <1>6 DEF ReuseSession, Reusable, Goto
<1>7. ASSUME NEW r \in Requests, CreateSession(r) PROVE TypeConns'
  BY <1>7 DEF CreateSession, Reusable, Goto
<1>8. ASSUME NEW r \in Requests, SessionCreated(r) PROVE TypeConns'
  BY <1>8 DEF SessionCreated, NewSession, Goto
<1>9. ASSUME NEW r \in Requests, KeepModel(r) PROVE TypeConns'
  BY <1>9 DEF KeepModel, ModelKnown, Goto
<1>10. ASSUME NEW r \in Requests, SetModel(r) PROVE TypeConns'
  BY <1>10 DEF SetModel, ModelKnown, Goto
<1>11. ASSUME NEW r \in Requests, ModelSet(r) PROVE TypeConns'
  BY <1>11 DEF ModelSet, Goto
<1>12. ASSUME NEW r \in Requests, Remember(r) PROVE TypeConns'
  BY <1>12 DEF Remember, Goto
<1>13. ASSUME NEW r \in Requests, PromptSent(r) PROVE TypeConns'
  BY <1>13 DEF PromptSent, Goto
<1>14. ASSUME NEW r \in Requests, TextChunk(r) PROVE TypeConns'
  BY <1>14 DEF TextChunk, Forward
<1>30. ASSUME NEW r \in Requests, ThoughtChunk(r) PROVE TypeConns'
  BY <1>30 DEF ThoughtChunk, Forward
<1>15. ASSUME NEW r \in Requests, PromptOver(r) PROVE TypeConns'
  BY <1>15, PromptOverEffect
<1>16. ASSUME NEW r \in Requests, Invalidate(r) PROVE TypeConns'
  BY <1>16 DEF Invalidate, ClearSticky, Goto
<1>17. ASSUME NEW r \in Requests, Deleted(r) PROVE TypeConns'
  BY <1>17 DEF Deleted, Goto
<1>18. ASSUME NEW r \in Requests, DeleteFailed(r) PROVE TypeConns'
  BY <1>18 DEF DeleteFailed, Goto
<1>19. ASSUME NEW r \in Requests, Return(r) PROVE TypeConns'
  BY <1>19 DEF Return, TryAgain, Goto
<1>20. ASSUME NEW r \in Requests, Reset(r) PROVE TypeConns'
  <2>1. CASE client = 0
    BY <1>20, <2>1 DEF Reset, CloseClient
  <2>2. CASE client # 0
    BY <1>20, <2>2 DEF Reset, CloseClient
  <2>3. QED
    BY <2>1, <2>2
<1>21. ASSUME NEW r \in Requests, NEW e \in {"recoverable", "fatal"}, DialFailed(r, e) PROVE TypeConns'
  BY <1>21 DEF DialFailed, SetupFailed, Goto
<1>22. ASSUME NEW r \in Requests, NEW e \in {"recoverable", "fatal"}, InitializeFailed(r, e) PROVE TypeConns'
  BY <1>22 DEF InitializeFailed, SetupFailed, CallError, Goto
<1>23. ASSUME NEW r \in Requests, NEW e \in {"recoverable", "fatal"}, CreateFailed(r, e) PROVE TypeConns'
  BY <1>23 DEF CreateFailed, SetupFailed, CallError, Goto
<1>24. ASSUME NEW r \in Requests, NEW e \in {"recoverable", "fatal"}, SetModelFailed(r, e) PROVE TypeConns'
  BY <1>24 DEF SetModelFailed, Leave, CallError, Goto
<1>25. CASE Close
  BY <1>25 DEF Close, CloseClient, ClearSticky
<1>26. ASSUME NEW c \in DOMAIN conn, Lose(c) PROVE TypeConns'
  BY <1>26 DEF Lose
<1>27. ASSUME NEW c \in DOMAIN conn, ReadLoopEnds(c) PROVE TypeConns'
  BY <1>27 DEF ReadLoopEnds
<1>28. CASE UNCHANGED vars
  BY <1>28 DEF vars
<1> HIDE DEF TypeOK, TypeRequests, TypeConns, ConnStates, PlaceInv, Connected, InSession
<1>29. QED
  BY <1>1, <1>2, <1>3, <1>4, <1>5, <1>6, <1>7, <1>8, <1>9, <1>10, <1>11, <1>12, <1>13, <1>14,
     <1>15, <1>16, <1>17, <1>18, <1>19, <1>20, <1>21, <1>22, <1>23, <1>24, <1>25, <1>26, <1>27,
     <1>28, <1>30
  DEF Next, Lock, Success, Failure, Prompting, PromptOver, Stopped

(* A session is appended when it is created, and edited by its request.    *)
LEMMA TypeSessionsStep == TypeOK /\ PlaceInv /\ OwnInv /\ [Next]_vars => TypeSessions'
<1> SUFFICES ASSUME TypeOK, PlaceInv, OwnInv, [Next]_vars PROVE TypeSessions'
  OBVIOUS
<1> USE DEF TypeOK, TypeSessions, TypeRequests, TypeConns, Setup, Connected, InSession,
    PlaceInv, OwnInv, Reuses
<1>1. ASSUME NEW r \in Requests, Arrive(r) PROVE TypeSessions'
  BY <1>1 DEF Arrive, Goto
<1>2. ASSUME NEW r \in Requests, UseConnection(r) PROVE TypeSessions'
  BY <1>2 DEF UseConnection, Goto
<1>3. ASSUME NEW r \in Requests, Dial(r) PROVE TypeSessions'
  BY <1>3 DEF Dial, Goto
<1>4. ASSUME NEW r \in Requests, Dialed(r) PROVE TypeSessions'
  BY <1>4 DEF Dialed, Goto
<1>5. ASSUME NEW r \in Requests, Initialized(r) PROVE TypeSessions'
  BY <1>5 DEF Initialized, Goto
<1>6. ASSUME NEW r \in Requests, ReuseSession(r) PROVE TypeSessions'
  BY <1>6 DEF ReuseSession, Reusable, Goto
<1>7. ASSUME NEW r \in Requests, CreateSession(r) PROVE TypeSessions'
  BY <1>7 DEF CreateSession, Reusable, Goto
<1>8. ASSUME NEW r \in Requests, SessionCreated(r) PROVE TypeSessions'
  <2>1. NewSession(r) \in Session
    BY <1>8 DEF SessionCreated, NewSession, Session
  <2>2. QED
    BY <1>8, <2>1 DEF SessionCreated
<1>9. ASSUME NEW r \in Requests, KeepModel(r) PROVE TypeSessions'
  BY <1>9 DEF KeepModel, ModelKnown, Goto
<1>10. ASSUME NEW r \in Requests, SetModel(r) PROVE TypeSessions'
  BY <1>10 DEF SetModel, ModelKnown, Goto
<1>11. ASSUME NEW r \in Requests, ModelSet(r) PROVE TypeSessions'
  <2>1. sess' \in Seq(Session) /\ Len(sess') = Len(sess)
    BY <1>11, SessionEdits DEF ModelSet
  <2>2. QED
    BY <1>11, <2>1 DEF ModelSet
<1>12. ASSUME NEW r \in Requests, Remember(r) PROVE TypeSessions'
  BY <1>12 DEF Remember, Goto
<1>13. ASSUME NEW r \in Requests, PromptSent(r) PROVE TypeSessions'
  BY <1>13 DEF PromptSent, Goto
<1>14. ASSUME NEW r \in Requests, TextChunk(r) PROVE TypeSessions'
  BY <1>14 DEF TextChunk, Forward
<1>30. ASSUME NEW r \in Requests, ThoughtChunk(r) PROVE TypeSessions'
  BY <1>30 DEF ThoughtChunk, Forward
<1>15. ASSUME NEW r \in Requests, PromptOver(r) PROVE TypeSessions'
  BY <1>15, PromptOverEffect
<1>16. ASSUME NEW r \in Requests, Invalidate(r) PROVE TypeSessions'
  BY <1>16 DEF Invalidate, ClearSticky, Goto
<1>17. ASSUME NEW r \in Requests, Deleted(r) PROVE TypeSessions'
  <2>1. sess' \in Seq(Session) /\ Len(sess') = Len(sess)
    BY <1>17, SessionEdits DEF Deleted
  <2>2. QED
    BY <1>17, <2>1 DEF Deleted
<1>18. ASSUME NEW r \in Requests, DeleteFailed(r) PROVE TypeSessions'
  <2>1. sid[r] # 0 /\ sess[sid[r]].deletes < 2
    BY <1>18 DEF DeleteFailed
  <2>2. sess' \in Seq(Session) /\ Len(sess') = Len(sess)
    BY <1>18, <2>1, SessionEdits DEF DeleteFailed
  <2>3. QED
    BY <1>18, <2>2 DEF DeleteFailed
<1>19. ASSUME NEW r \in Requests, Return(r) PROVE TypeSessions'
  BY <1>19 DEF Return, TryAgain, Goto
<1>20. ASSUME NEW r \in Requests, Reset(r) PROVE TypeSessions'
  BY <1>20 DEF Reset, CloseClient, ClearSticky, Goto
<1>21. ASSUME NEW r \in Requests, NEW e \in {"recoverable", "fatal"}, DialFailed(r, e) PROVE TypeSessions'
  BY <1>21 DEF DialFailed, SetupFailed, Goto
<1>22. ASSUME NEW r \in Requests, NEW e \in {"recoverable", "fatal"}, InitializeFailed(r, e) PROVE TypeSessions'
  BY <1>22 DEF InitializeFailed, SetupFailed, CallError, Goto
<1>23. ASSUME NEW r \in Requests, NEW e \in {"recoverable", "fatal"}, CreateFailed(r, e) PROVE TypeSessions'
  BY <1>23 DEF CreateFailed, SetupFailed, CallError, Goto
<1>24. ASSUME NEW r \in Requests, NEW e \in {"recoverable", "fatal"}, SetModelFailed(r, e) PROVE TypeSessions'
  <2>1. CASE sess' = sess
    BY <1>24, <2>1 DEF SetModelFailed
  <2>2. CASE sess' = [sess EXCEPT ![sid[r]].model = want[r]]
    <3>1. sess' \in Seq(Session) /\ Len(sess') = Len(sess)
      BY <1>24, <2>2, SessionEdits DEF SetModelFailed
    <3>2. QED
      BY <1>24, <3>1 DEF SetModelFailed
  <2>3. QED
    BY <1>24, <2>1, <2>2 DEF SetModelFailed
<1>25. CASE Close
  BY <1>25 DEF Close, CloseClient, ClearSticky
<1>26. ASSUME NEW c \in DOMAIN conn, Lose(c) PROVE TypeSessions'
  BY <1>26 DEF Lose
<1>27. ASSUME NEW c \in DOMAIN conn, ReadLoopEnds(c) PROVE TypeSessions'
  BY <1>27 DEF ReadLoopEnds
<1>28. CASE UNCHANGED vars
  BY <1>28 DEF vars
<1> HIDE DEF TypeOK, TypeSessions, TypeRequests, TypeConns, Setup, Connected, InSession,
    PlaceInv, OwnInv, Reuses
<1>29. QED
  BY <1>1, <1>2, <1>3, <1>4, <1>5, <1>6, <1>7, <1>8, <1>9, <1>10, <1>11, <1>12, <1>13, <1>14,
     <1>15, <1>16, <1>17, <1>18, <1>19, <1>20, <1>21, <1>22, <1>23, <1>24, <1>25, <1>26, <1>27,
     <1>28, <1>30
  DEF Next, Lock, Success, Failure, Prompting, PromptOver, Stopped

(* What a request has, by where it is.                                     *)
LEMMA PlaceStep == TypeOK /\ PlaceInv /\ [Next]_vars => PlaceInv'
<1> SUFFICES ASSUME TypeOK, PlaceInv, [Next]_vars PROVE PlaceInv'
  OBVIOUS
<1> USE DEF TypeOK, TypeRequests, TypeConns, TypeSessions, PlaceInv, Setup, Connected,
    InSession, Reuses
<1>1. ASSUME NEW r \in Requests, Arrive(r) PROVE PlaceInv'
  BY <1>1 DEF Arrive, Goto
<1>2. ASSUME NEW r \in Requests, UseConnection(r) PROVE PlaceInv'
  BY <1>2 DEF UseConnection, Goto
<1>3. ASSUME NEW r \in Requests, Dial(r) PROVE PlaceInv'
  BY <1>3, Distinct DEF Dial, Goto
<1>4. ASSUME NEW r \in Requests, Dialed(r) PROVE PlaceInv'
  BY <1>4 DEF Dialed, Goto
<1>5. ASSUME NEW r \in Requests, Initialized(r) PROVE PlaceInv'
  BY <1>5, Distinct DEF Initialized, Goto
<1>6. ASSUME NEW r \in Requests, ReuseSession(r) PROVE PlaceInv'
  BY <1>6 DEF ReuseSession, Reusable, Goto
<1>7. ASSUME NEW r \in Requests, CreateSession(r) PROVE PlaceInv'
  BY <1>7, Distinct DEF CreateSession, Reusable, Goto
<1>8. ASSUME NEW r \in Requests, SessionCreated(r) PROVE PlaceInv'
  BY <1>8, Distinct DEF SessionCreated, NewSession, Goto
<1>9. ASSUME NEW r \in Requests, KeepModel(r) PROVE PlaceInv'
  BY <1>9 DEF KeepModel, ModelKnown, Goto
<1>10. ASSUME NEW r \in Requests, SetModel(r) PROVE PlaceInv'
  BY <1>10 DEF SetModel, ModelKnown, Goto
<1>11. ASSUME NEW r \in Requests, ModelSet(r) PROVE PlaceInv'
  BY <1>11 DEF ModelSet, Goto
<1>12. ASSUME NEW r \in Requests, Remember(r) PROVE PlaceInv'
  BY <1>12 DEF Remember, Goto
<1>13. ASSUME NEW r \in Requests, PromptSent(r) PROVE PlaceInv'
  BY <1>13 DEF PromptSent, Goto
<1>14. ASSUME NEW r \in Requests, TextChunk(r) PROVE PlaceInv'
  BY <1>14 DEF TextChunk, Forward
<1>30. ASSUME NEW r \in Requests, ThoughtChunk(r) PROVE PlaceInv'
  BY <1>30 DEF ThoughtChunk, Forward
<1>15. ASSUME NEW r \in Requests, PromptOver(r) PROVE PlaceInv'
  BY <1>15, PromptOverEffect
<1>16. ASSUME NEW r \in Requests, Invalidate(r) PROVE PlaceInv'
  BY <1>16 DEF Invalidate, ClearSticky, Goto
<1>17. ASSUME NEW r \in Requests, Deleted(r) PROVE PlaceInv'
  BY <1>17 DEF Deleted, Goto
<1>18. ASSUME NEW r \in Requests, DeleteFailed(r) PROVE PlaceInv'
  BY <1>18 DEF DeleteFailed, Goto
<1>19. ASSUME NEW r \in Requests, Return(r) PROVE PlaceInv'
  BY <1>19 DEF Return, TryAgain, Goto
<1>20. ASSUME NEW r \in Requests, Reset(r) PROVE PlaceInv'
  BY <1>20 DEF Reset, CloseClient, ClearSticky, Goto
<1>21. ASSUME NEW r \in Requests, NEW e \in {"recoverable", "fatal"}, SetModelFailed(r, e) PROVE PlaceInv'
  BY <1>21 DEF SetModelFailed, Leave, CallError, Goto
<1>22. ASSUME NEW r \in Requests, NEW e \in {"recoverable", "fatal"}, DialFailed(r, e) PROVE PlaceInv'
  BY <1>22, Distinct DEF DialFailed, SetupFailed, Goto
<1>23. ASSUME NEW r \in Requests, NEW e \in {"recoverable", "fatal"}, InitializeFailed(r, e) PROVE PlaceInv'
  BY <1>23, Distinct DEF InitializeFailed, SetupFailed, CallError, Goto
<1>24. ASSUME NEW r \in Requests, NEW e \in {"recoverable", "fatal"}, CreateFailed(r, e) PROVE PlaceInv'
  BY <1>24, Distinct DEF CreateFailed, SetupFailed, CallError, Goto
<1>25. CASE Close
  BY <1>25 DEF Close, CloseClient, ClearSticky
<1>26. ASSUME NEW c \in DOMAIN conn, Lose(c) PROVE PlaceInv'
  BY <1>26 DEF Lose
<1>27. ASSUME NEW c \in DOMAIN conn, ReadLoopEnds(c) PROVE PlaceInv'
  BY <1>27 DEF ReadLoopEnds
<1>28. CASE UNCHANGED vars
  BY <1>28 DEF vars
<1> HIDE DEF TypeOK, TypeRequests, TypeConns, TypeSessions, PlaceInv, Setup, Connected,
    InSession, Reuses
<1>29. QED
  BY <1>1, <1>2, <1>3, <1>4, <1>5, <1>6, <1>7, <1>8, <1>9, <1>10, <1>11, <1>12, <1>13, <1>14,
     <1>15, <1>16, <1>17, <1>18, <1>19, <1>20, <1>21, <1>22, <1>23, <1>24, <1>25, <1>26, <1>27,
     <1>28, <1>30
  DEF Next, Lock, Success, Failure, Prompting, PromptOver, Stopped

(* A reset closes the connection everybody else still holds.               *)
LEMMA ConnStep == TypeOK /\ PlaceInv /\ ConnInv /\ [Next]_vars => ConnInv'
<1> SUFFICES ASSUME TypeOK, PlaceInv, ConnInv, [Next]_vars PROVE ConnInv'
  OBVIOUS
<1> USE DEF TypeOK, TypeRequests, TypeConns, ConnStates, PlaceInv, ConnInv, Setup, Connected,
    InSession, Reuses
<1>1. ASSUME NEW r \in Requests, Arrive(r) PROVE ConnInv'
  BY <1>1 DEF Arrive, Goto
<1>2. ASSUME NEW r \in Requests, UseConnection(r) PROVE ConnInv'
  BY <1>2 DEF UseConnection, Goto
<1>3. ASSUME NEW r \in Requests, Dial(r) PROVE ConnInv'
  BY <1>3 DEF Dial, Goto
<1>4. ASSUME NEW r \in Requests, Dialed(r) PROVE ConnInv'
  BY <1>4 DEF Dialed, Goto
<1>5. ASSUME NEW r \in Requests, Initialized(r) PROVE ConnInv'
  BY <1>5 DEF Initialized, Goto
<1>6. ASSUME NEW r \in Requests, ReuseSession(r) PROVE ConnInv'
  BY <1>6 DEF ReuseSession, Reusable, Goto
<1>7. ASSUME NEW r \in Requests, CreateSession(r) PROVE ConnInv'
  BY <1>7 DEF CreateSession, Reusable, Goto
<1>8. ASSUME NEW r \in Requests, SessionCreated(r) PROVE ConnInv'
  BY <1>8 DEF SessionCreated, NewSession, Goto
<1>9. ASSUME NEW r \in Requests, KeepModel(r) PROVE ConnInv'
  BY <1>9 DEF KeepModel, ModelKnown, Goto
<1>10. ASSUME NEW r \in Requests, SetModel(r) PROVE ConnInv'
  BY <1>10 DEF SetModel, ModelKnown, Goto
<1>11. ASSUME NEW r \in Requests, ModelSet(r) PROVE ConnInv'
  BY <1>11 DEF ModelSet, Goto
<1>12. ASSUME NEW r \in Requests, Remember(r) PROVE ConnInv'
  BY <1>12 DEF Remember, Goto
<1>13. ASSUME NEW r \in Requests, PromptSent(r) PROVE ConnInv'
  BY <1>13 DEF PromptSent, Goto
<1>14. ASSUME NEW r \in Requests, TextChunk(r) PROVE ConnInv'
  BY <1>14 DEF TextChunk, Forward
<1>30. ASSUME NEW r \in Requests, ThoughtChunk(r) PROVE ConnInv'
  BY <1>30 DEF ThoughtChunk, Forward
<1>15. ASSUME NEW r \in Requests, PromptOver(r) PROVE ConnInv'
  BY <1>15, PromptOverEffect
<1>16. ASSUME NEW r \in Requests, Invalidate(r) PROVE ConnInv'
  BY <1>16 DEF Invalidate, ClearSticky, Goto
<1>17. ASSUME NEW r \in Requests, Deleted(r) PROVE ConnInv'
  BY <1>17 DEF Deleted, Goto
<1>18. ASSUME NEW r \in Requests, DeleteFailed(r) PROVE ConnInv'
  BY <1>18 DEF DeleteFailed, Goto
<1>19. ASSUME NEW r \in Requests, Return(r) PROVE ConnInv'
  BY <1>19 DEF Return, TryAgain, Goto
<1>20. ASSUME NEW r \in Requests, Reset(r) PROVE ConnInv'
  BY <1>20 DEF Reset, CloseClient, ClearSticky, Goto
<1>21. ASSUME NEW r \in Requests, NEW e \in {"recoverable", "fatal"}, DialFailed(r, e) PROVE ConnInv'
  BY <1>21 DEF DialFailed, SetupFailed, Goto
<1>22. ASSUME NEW r \in Requests, NEW e \in {"recoverable", "fatal"}, InitializeFailed(r, e) PROVE ConnInv'
  BY <1>22 DEF InitializeFailed, SetupFailed, CallError, Goto
<1>23. ASSUME NEW r \in Requests, NEW e \in {"recoverable", "fatal"}, CreateFailed(r, e) PROVE ConnInv'
  BY <1>23 DEF CreateFailed, SetupFailed, CallError, Goto
<1>24. ASSUME NEW r \in Requests, NEW e \in {"recoverable", "fatal"}, SetModelFailed(r, e) PROVE ConnInv'
  BY <1>24 DEF SetModelFailed, Leave, CallError, Goto
<1>25. CASE Close
  BY <1>25 DEF Close, CloseClient, ClearSticky
<1>26. ASSUME NEW c \in DOMAIN conn, Lose(c) PROVE ConnInv'
  BY <1>26 DEF Lose
<1>27. ASSUME NEW c \in DOMAIN conn, ReadLoopEnds(c) PROVE ConnInv'
  BY <1>27 DEF ReadLoopEnds
<1>28. CASE UNCHANGED vars
  BY <1>28 DEF vars
<1> HIDE DEF TypeOK, TypeRequests, TypeConns, ConnStates, PlaceInv, ConnInv, Setup, Connected,
    InSession, Reuses
<1>29. QED
  BY <1>1, <1>2, <1>3, <1>4, <1>5, <1>6, <1>7, <1>8, <1>9, <1>10, <1>11, <1>12, <1>13, <1>14,
     <1>15, <1>16, <1>17, <1>18, <1>19, <1>20, <1>21, <1>22, <1>23, <1>24, <1>25, <1>26, <1>27,
     <1>28, <1>30
  DEF Next, Lock, Success, Failure, Prompting, PromptOver, Stopped

(* The sticky session goes with the connection, and is made on it.         *)
LEMMA StickyStep == TypeOK /\ PlaceInv /\ ConnInv /\ StickyInv /\ [Next]_vars => StickyInv'
<1> SUFFICES ASSUME TypeOK, PlaceInv, ConnInv, StickyInv, [Next]_vars PROVE StickyInv'
  OBVIOUS
<1> USE DEF TypeOK, TypeRequests, TypeConns, TypeSessions, ConnStates, Session, PlaceInv,
    ConnInv, StickyInv, Setup, Connected, InSession, Reuses
<1>1. ASSUME NEW r \in Requests, Arrive(r) PROVE StickyInv'
  BY <1>1 DEF Arrive, Goto
<1>2. ASSUME NEW r \in Requests, UseConnection(r) PROVE StickyInv'
  BY <1>2 DEF UseConnection, Goto
<1>3. ASSUME NEW r \in Requests, Dial(r) PROVE StickyInv'
  BY <1>3 DEF Dial, Goto
<1>4. ASSUME NEW r \in Requests, Dialed(r) PROVE StickyInv'
  BY <1>4 DEF Dialed, Goto
<1>5. ASSUME NEW r \in Requests, Initialized(r) PROVE StickyInv'
  BY <1>5 DEF Initialized, Goto
<1>6. ASSUME NEW r \in Requests, ReuseSession(r) PROVE StickyInv'
  BY <1>6 DEF ReuseSession, Reusable, Goto
<1>7. ASSUME NEW r \in Requests, CreateSession(r) PROVE StickyInv'
  BY <1>7 DEF CreateSession, Reusable, Goto
<1>8. ASSUME NEW r \in Requests, SessionCreated(r) PROVE StickyInv'
  BY <1>8 DEF SessionCreated, NewSession, Goto
<1>9. ASSUME NEW r \in Requests, KeepModel(r) PROVE StickyInv'
  BY <1>9 DEF KeepModel, ModelKnown, Goto
<1>10. ASSUME NEW r \in Requests, SetModel(r) PROVE StickyInv'
  BY <1>10 DEF SetModel, ModelKnown, Goto
<1>11. ASSUME NEW r \in Requests, ModelSet(r) PROVE StickyInv'
  BY <1>11, SMTT(30) DEF ModelSet, Goto
<1>12. ASSUME NEW r \in Requests, Remember(r) PROVE StickyInv'
  BY <1>12 DEF Remember, Goto
<1>13. ASSUME NEW r \in Requests, PromptSent(r) PROVE StickyInv'
  BY <1>13 DEF PromptSent, Goto
<1>14. ASSUME NEW r \in Requests, TextChunk(r) PROVE StickyInv'
  BY <1>14 DEF TextChunk, Forward
<1>30. ASSUME NEW r \in Requests, ThoughtChunk(r) PROVE StickyInv'
  BY <1>30 DEF ThoughtChunk, Forward
<1>15. ASSUME NEW r \in Requests, PromptOver(r) PROVE StickyInv'
  BY <1>15, PromptOverEffect, SMTT(30)
<1>16. ASSUME NEW r \in Requests, Invalidate(r) PROVE StickyInv'
  BY <1>16 DEF Invalidate, ClearSticky, Goto
<1>17. ASSUME NEW r \in Requests, Deleted(r) PROVE StickyInv'
  BY <1>17, SMTT(30) DEF Deleted, Goto
<1>18. ASSUME NEW r \in Requests, DeleteFailed(r) PROVE StickyInv'
  BY <1>18, SMTT(30) DEF DeleteFailed, Goto
<1>19. ASSUME NEW r \in Requests, Return(r) PROVE StickyInv'
  BY <1>19 DEF Return, TryAgain, Goto
<1>20. ASSUME NEW r \in Requests, Reset(r) PROVE StickyInv'
  BY <1>20 DEF Reset, CloseClient, ClearSticky, Goto
<1>21. ASSUME NEW r \in Requests, NEW e \in {"recoverable", "fatal"}, DialFailed(r, e) PROVE StickyInv'
  BY <1>21 DEF DialFailed, SetupFailed, Goto
<1>22. ASSUME NEW r \in Requests, NEW e \in {"recoverable", "fatal"}, InitializeFailed(r, e) PROVE StickyInv'
  BY <1>22 DEF InitializeFailed, SetupFailed, CallError, Goto
<1>23. ASSUME NEW r \in Requests, NEW e \in {"recoverable", "fatal"}, CreateFailed(r, e) PROVE StickyInv'
  BY <1>23 DEF CreateFailed, SetupFailed, CallError, Goto
<1>24. ASSUME NEW r \in Requests, NEW e \in {"recoverable", "fatal"}, SetModelFailed(r, e) PROVE StickyInv'
  <2>1. CASE sess' = sess
    BY <1>24, <2>1 DEF SetModelFailed, Leave, CallError, Goto
  <2>2. CASE sess' = [sess EXCEPT ![sid[r]].model = want[r]]
    BY <1>24, <2>2, SMTT(30) DEF SetModelFailed, Leave, CallError, Goto
  <2>3. QED
    BY <1>24, <2>1, <2>2 DEF SetModelFailed
<1>25. CASE Close
  BY <1>25 DEF Close, CloseClient, ClearSticky
<1>26. ASSUME NEW c \in DOMAIN conn, Lose(c) PROVE StickyInv'
  BY <1>26, SMTT(30) DEF Lose
<1>27. ASSUME NEW c \in DOMAIN conn, ReadLoopEnds(c) PROVE StickyInv'
  BY <1>27, SMTT(30) DEF ReadLoopEnds
<1>28. CASE UNCHANGED vars
  BY <1>28 DEF vars
<1> HIDE DEF TypeOK, TypeRequests, TypeConns, TypeSessions, ConnStates, Session, PlaceInv,
    ConnInv, StickyInv, Setup, Connected, InSession, Reuses
<1>29. QED
  BY <1>1, <1>2, <1>3, <1>4, <1>5, <1>6, <1>7, <1>8, <1>9, <1>10, <1>11, <1>12, <1>13, <1>14,
     <1>15, <1>16, <1>17, <1>18, <1>19, <1>20, <1>21, <1>22, <1>23, <1>24, <1>25, <1>26, <1>27,
     <1>28, <1>30
  DEF Next, Lock, Success, Failure, Prompting, PromptOver, Stopped

(* Only its owner touches a session that is not shared.                    *)
LEMMA OwnStep == TypeOK /\ PlaceInv /\ OwnInv /\ [Next]_vars => OwnInv'
<1> SUFFICES ASSUME TypeOK, PlaceInv, OwnInv, [Next]_vars PROVE OwnInv'
  OBVIOUS
<1> USE DEF TypeOK, TypeRequests, TypeSessions, Session, PlaceInv, OwnInv, Setup, Connected,
    InSession, Reuses
<1>1. ASSUME NEW r \in Requests, Arrive(r) PROVE OwnInv'
  BY <1>1 DEF Arrive, Goto
<1>2. ASSUME NEW r \in Requests, UseConnection(r) PROVE OwnInv'
  BY <1>2 DEF UseConnection, Goto
<1>3. ASSUME NEW r \in Requests, Dial(r) PROVE OwnInv'
  BY <1>3 DEF Dial, Goto
<1>4. ASSUME NEW r \in Requests, Dialed(r) PROVE OwnInv'
  BY <1>4 DEF Dialed, Goto
<1>5. ASSUME NEW r \in Requests, Initialized(r) PROVE OwnInv'
  BY <1>5 DEF Initialized, Goto
<1>6. ASSUME NEW r \in Requests, ReuseSession(r) PROVE OwnInv'
  BY <1>6 DEF ReuseSession, Reusable, Goto
<1>7. ASSUME NEW r \in Requests, CreateSession(r) PROVE OwnInv'
  BY <1>7 DEF CreateSession, Reusable, Goto
<1>8. ASSUME NEW r \in Requests, SessionCreated(r) PROVE OwnInv'
  BY <1>8 DEF SessionCreated, NewSession, Goto
<1>9. ASSUME NEW r \in Requests, KeepModel(r) PROVE OwnInv'
  BY <1>9 DEF KeepModel, ModelKnown, Goto
<1>10. ASSUME NEW r \in Requests, SetModel(r) PROVE OwnInv'
  BY <1>10 DEF SetModel, ModelKnown, Goto
<1>11. ASSUME NEW r \in Requests, ModelSet(r) PROVE OwnInv'
  BY <1>11 DEF ModelSet, Goto
<1>12. ASSUME NEW r \in Requests, Remember(r) PROVE OwnInv'
  BY <1>12 DEF Remember, Goto
<1>13. ASSUME NEW r \in Requests, PromptSent(r) PROVE OwnInv'
  BY <1>13 DEF PromptSent, Goto
<1>14. ASSUME NEW r \in Requests, TextChunk(r) PROVE OwnInv'
  BY <1>14 DEF TextChunk, Forward
<1>30. ASSUME NEW r \in Requests, ThoughtChunk(r) PROVE OwnInv'
  BY <1>30 DEF ThoughtChunk, Forward
<1>15. ASSUME NEW r \in Requests, PromptOver(r) PROVE OwnInv'
  BY <1>15, PromptOverEffect
<1>16. ASSUME NEW r \in Requests, Invalidate(r) PROVE OwnInv'
  BY <1>16 DEF Invalidate, ClearSticky, Goto
<1>17. ASSUME NEW r \in Requests, Deleted(r) PROVE OwnInv'
  BY <1>17 DEF Deleted, Goto
<1>18. ASSUME NEW r \in Requests, DeleteFailed(r) PROVE OwnInv'
  BY <1>18 DEF DeleteFailed, Goto
<1>19. ASSUME NEW r \in Requests, Return(r) PROVE OwnInv'
  BY <1>19 DEF Return, TryAgain, Goto
<1>20. ASSUME NEW r \in Requests, Reset(r) PROVE OwnInv'
  BY <1>20 DEF Reset, CloseClient, ClearSticky, Goto
<1>21. ASSUME NEW r \in Requests, NEW e \in {"recoverable", "fatal"}, DialFailed(r, e) PROVE OwnInv'
  BY <1>21 DEF DialFailed, SetupFailed, Goto
<1>22. ASSUME NEW r \in Requests, NEW e \in {"recoverable", "fatal"}, InitializeFailed(r, e) PROVE OwnInv'
  BY <1>22 DEF InitializeFailed, SetupFailed, CallError, Goto
<1>23. ASSUME NEW r \in Requests, NEW e \in {"recoverable", "fatal"}, CreateFailed(r, e) PROVE OwnInv'
  BY <1>23 DEF CreateFailed, SetupFailed, CallError, Goto
<1>24. ASSUME NEW r \in Requests, NEW e \in {"recoverable", "fatal"}, SetModelFailed(r, e) PROVE OwnInv'
  <2>1. CASE sess' = sess
    BY <1>24, <2>1 DEF SetModelFailed, Leave, CallError, Goto
  <2>2. CASE sess' = [sess EXCEPT ![sid[r]].model = want[r]]
    BY <1>24, <2>2 DEF SetModelFailed, Leave, CallError, Goto
  <2>3. QED
    BY <1>24, <2>1, <2>2 DEF SetModelFailed
<1>25. CASE Close
  BY <1>25 DEF Close, CloseClient, ClearSticky
<1>26. ASSUME NEW c \in DOMAIN conn, Lose(c) PROVE OwnInv'
  BY <1>26 DEF Lose
<1>27. ASSUME NEW c \in DOMAIN conn, ReadLoopEnds(c) PROVE OwnInv'
  BY <1>27 DEF ReadLoopEnds
<1>28. CASE UNCHANGED vars
  BY <1>28 DEF vars
<1> HIDE DEF TypeOK, TypeRequests, TypeSessions, Session, PlaceInv, OwnInv, Setup, Connected,
    InSession, Reuses
<1>29. QED
  BY <1>1, <1>2, <1>3, <1>4, <1>5, <1>6, <1>7, <1>8, <1>9, <1>10, <1>11, <1>12, <1>13, <1>14,
     <1>15, <1>16, <1>17, <1>18, <1>19, <1>20, <1>21, <1>22, <1>23, <1>24, <1>25, <1>26, <1>27,
     <1>28, <1>30
  DEF Next, Lock, Success, Failure, Prompting, PromptOver, Stopped

(* Text that came counts as an answer, and an answer is not retried.       *)
LEMMA SpokeStep == TypeOK /\ PlaceInv /\ SpokeInv /\ [Next]_vars => SpokeInv'
<1> SUFFICES ASSUME TypeOK, PlaceInv, SpokeInv, [Next]_vars PROVE SpokeInv'
  OBVIOUS
<1> USE DEF TypeOK, TypeRequests, TypeConns, PlaceInv, SpokeInv, Setup, Connected, InSession
<1>1. ASSUME NEW r \in Requests, Arrive(r) PROVE SpokeInv'
  BY <1>1 DEF Arrive, Goto
<1>2. ASSUME NEW r \in Requests, UseConnection(r) PROVE SpokeInv'
  BY <1>2 DEF UseConnection, Goto
<1>3. ASSUME NEW r \in Requests, Dial(r) PROVE SpokeInv'
  BY <1>3 DEF Dial, Goto
<1>4. ASSUME NEW r \in Requests, Dialed(r) PROVE SpokeInv'
  BY <1>4 DEF Dialed, Goto
<1>5. ASSUME NEW r \in Requests, Initialized(r) PROVE SpokeInv'
  BY <1>5 DEF Initialized, Goto
<1>6. ASSUME NEW r \in Requests, ReuseSession(r) PROVE SpokeInv'
  BY <1>6 DEF ReuseSession, Reusable, Goto
<1>7. ASSUME NEW r \in Requests, CreateSession(r) PROVE SpokeInv'
  BY <1>7 DEF CreateSession, Reusable, Goto
<1>8. ASSUME NEW r \in Requests, SessionCreated(r) PROVE SpokeInv'
  BY <1>8 DEF SessionCreated, NewSession, Goto
<1>9. ASSUME NEW r \in Requests, KeepModel(r) PROVE SpokeInv'
  BY <1>9 DEF KeepModel, ModelKnown, Goto
<1>10. ASSUME NEW r \in Requests, SetModel(r) PROVE SpokeInv'
  BY <1>10 DEF SetModel, ModelKnown, Goto
<1>11. ASSUME NEW r \in Requests, ModelSet(r) PROVE SpokeInv'
  BY <1>11 DEF ModelSet, Goto
<1>12. ASSUME NEW r \in Requests, Remember(r) PROVE SpokeInv'
  BY <1>12 DEF Remember, Goto
<1>13. ASSUME NEW r \in Requests, PromptSent(r) PROVE SpokeInv'
  BY <1>13 DEF PromptSent, Goto
<1>14. ASSUME NEW r \in Requests, TextChunk(r) PROVE SpokeInv'
  BY <1>14 DEF TextChunk, Forward
<1>30. ASSUME NEW r \in Requests, ThoughtChunk(r) PROVE SpokeInv'
  BY <1>30 DEF ThoughtChunk, Forward
<1>15. ASSUME NEW r \in Requests, PromptOver(r) PROVE SpokeInv'
  BY <1>15, PromptOverEffect
<1>16. ASSUME NEW r \in Requests, Invalidate(r) PROVE SpokeInv'
  BY <1>16 DEF Invalidate, ClearSticky, Goto
<1>17. ASSUME NEW r \in Requests, Deleted(r) PROVE SpokeInv'
  BY <1>17 DEF Deleted, Goto
<1>18. ASSUME NEW r \in Requests, DeleteFailed(r) PROVE SpokeInv'
  BY <1>18 DEF DeleteFailed, Goto
<1>19. ASSUME NEW r \in Requests, Return(r) PROVE SpokeInv'
  BY <1>19 DEF Return, TryAgain, Goto
<1>20. ASSUME NEW r \in Requests, Reset(r) PROVE SpokeInv'
  BY <1>20 DEF Reset, CloseClient, ClearSticky, Goto
<1>21. ASSUME NEW r \in Requests, NEW e \in {"recoverable", "fatal"}, DialFailed(r, e) PROVE SpokeInv'
  BY <1>21 DEF DialFailed, SetupFailed, Goto
<1>22. ASSUME NEW r \in Requests, NEW e \in {"recoverable", "fatal"}, InitializeFailed(r, e) PROVE SpokeInv'
  BY <1>22 DEF InitializeFailed, SetupFailed, CallError, Goto
<1>23. ASSUME NEW r \in Requests, NEW e \in {"recoverable", "fatal"}, CreateFailed(r, e) PROVE SpokeInv'
  BY <1>23 DEF CreateFailed, SetupFailed, CallError, Goto
<1>24. ASSUME NEW r \in Requests, NEW e \in {"recoverable", "fatal"}, SetModelFailed(r, e) PROVE SpokeInv'
  BY <1>24 DEF SetModelFailed, Leave, CallError, Goto
<1>25. CASE Close
  BY <1>25 DEF Close, CloseClient, ClearSticky
<1>26. ASSUME NEW c \in DOMAIN conn, Lose(c) PROVE SpokeInv'
  BY <1>26 DEF Lose
<1>27. ASSUME NEW c \in DOMAIN conn, ReadLoopEnds(c) PROVE SpokeInv'
  BY <1>27 DEF ReadLoopEnds
<1>28. CASE UNCHANGED vars
  BY <1>28 DEF vars
<1> HIDE DEF TypeOK, TypeRequests, TypeConns, PlaceInv, SpokeInv, Setup, Connected, InSession
<1>29. QED
  BY <1>1, <1>2, <1>3, <1>4, <1>5, <1>6, <1>7, <1>8, <1>9, <1>10, <1>11, <1>12, <1>13, <1>14,
     <1>15, <1>16, <1>17, <1>18, <1>19, <1>20, <1>21, <1>22, <1>23, <1>24, <1>25, <1>26, <1>27,
     <1>28, <1>30
  DEF Next, Lock, Success, Failure, Prompting, PromptOver, Stopped

(* The gate lets one in only when nobody is.                               *)
LEMMA OneStep == TypeOK /\ OneInv /\ [Next]_vars => OneInv'
<1> SUFFICES ASSUME TypeOK, OneInv, [Next]_vars PROVE OneInv'
  OBVIOUS
<1> USE DEF TypeOK, TypeRequests, OneInv, Active
<1>1. ASSUME NEW r \in Requests, Arrive(r) PROVE OneInv'
  <2> DEFINE A == {q \in Requests : Active(q)}
  <2>1. ASSUME config.atOnce = 1 PROVE \A q \in Requests : ~Active(q)
    <3>1. IsFiniteSet(A) /\ Cardinality(A) \in Nat
      BY FS_Subset, FS_CardinalityType, SessionAssumption DEF SessionAssumption
    <3>2. Cardinality(A) = 0
      BY <1>1, <2>1, <3>1 DEF Arrive
    <3>3. QED
      BY <3>1, <3>2, FS_EmptySet
  <2>2. QED
    BY <1>1, <2>1 DEF Arrive, Goto
<1>2. ASSUME NEW r \in Requests, UseConnection(r) PROVE OneInv'
  BY <1>2 DEF UseConnection, Goto
<1>3. ASSUME NEW r \in Requests, Dial(r) PROVE OneInv'
  BY <1>3 DEF Dial, Goto
<1>4. ASSUME NEW r \in Requests, Dialed(r) PROVE OneInv'
  BY <1>4 DEF Dialed, Goto
<1>5. ASSUME NEW r \in Requests, Initialized(r) PROVE OneInv'
  BY <1>5 DEF Initialized, Goto
<1>6. ASSUME NEW r \in Requests, ReuseSession(r) PROVE OneInv'
  BY <1>6 DEF ReuseSession, Reusable, Goto
<1>7. ASSUME NEW r \in Requests, CreateSession(r) PROVE OneInv'
  BY <1>7 DEF CreateSession, Reusable, Goto
<1>8. ASSUME NEW r \in Requests, SessionCreated(r) PROVE OneInv'
  BY <1>8 DEF SessionCreated, NewSession, Goto
<1>9. ASSUME NEW r \in Requests, KeepModel(r) PROVE OneInv'
  BY <1>9 DEF KeepModel, ModelKnown, Goto
<1>10. ASSUME NEW r \in Requests, SetModel(r) PROVE OneInv'
  BY <1>10 DEF SetModel, ModelKnown, Goto
<1>11. ASSUME NEW r \in Requests, ModelSet(r) PROVE OneInv'
  BY <1>11 DEF ModelSet, Goto
<1>12. ASSUME NEW r \in Requests, Remember(r) PROVE OneInv'
  BY <1>12 DEF Remember, Goto
<1>13. ASSUME NEW r \in Requests, PromptSent(r) PROVE OneInv'
  BY <1>13 DEF PromptSent, Goto
<1>14. ASSUME NEW r \in Requests, TextChunk(r) PROVE OneInv'
  BY <1>14 DEF TextChunk, Forward
<1>30. ASSUME NEW r \in Requests, ThoughtChunk(r) PROVE OneInv'
  BY <1>30 DEF ThoughtChunk, Forward
<1>15. ASSUME NEW r \in Requests, PromptOver(r) PROVE OneInv'
  BY <1>15, PromptOverEffect
<1>16. ASSUME NEW r \in Requests, Invalidate(r) PROVE OneInv'
  BY <1>16 DEF Invalidate, ClearSticky, Goto
<1>17. ASSUME NEW r \in Requests, Deleted(r) PROVE OneInv'
  BY <1>17 DEF Deleted, Goto
<1>18. ASSUME NEW r \in Requests, DeleteFailed(r) PROVE OneInv'
  BY <1>18 DEF DeleteFailed, Goto
<1>19. ASSUME NEW r \in Requests, Return(r) PROVE OneInv'
  BY <1>19 DEF Return, TryAgain, Goto
<1>20. ASSUME NEW r \in Requests, Reset(r) PROVE OneInv'
  BY <1>20 DEF Reset, CloseClient, ClearSticky, Goto
<1>21. ASSUME NEW r \in Requests, NEW e \in {"recoverable", "fatal"}, DialFailed(r, e) PROVE OneInv'
  BY <1>21 DEF DialFailed, SetupFailed, Goto
<1>22. ASSUME NEW r \in Requests, NEW e \in {"recoverable", "fatal"}, InitializeFailed(r, e) PROVE OneInv'
  BY <1>22 DEF InitializeFailed, SetupFailed, CallError, Goto
<1>23. ASSUME NEW r \in Requests, NEW e \in {"recoverable", "fatal"}, CreateFailed(r, e) PROVE OneInv'
  BY <1>23 DEF CreateFailed, SetupFailed, CallError, Goto
<1>24. ASSUME NEW r \in Requests, NEW e \in {"recoverable", "fatal"}, SetModelFailed(r, e) PROVE OneInv'
  BY <1>24 DEF SetModelFailed, Leave, CallError, Goto
<1>25. CASE Close
  BY <1>25 DEF Close, CloseClient, ClearSticky
<1>26. ASSUME NEW c \in DOMAIN conn, Lose(c) PROVE OneInv'
  BY <1>26 DEF Lose
<1>27. ASSUME NEW c \in DOMAIN conn, ReadLoopEnds(c) PROVE OneInv'
  BY <1>27 DEF ReadLoopEnds
<1>28. CASE UNCHANGED vars
  BY <1>28 DEF vars
<1> HIDE DEF TypeOK, TypeRequests, OneInv, Active
<1>29. QED
  BY <1>1, <1>2, <1>3, <1>4, <1>5, <1>6, <1>7, <1>8, <1>9, <1>10, <1>11, <1>12, <1>13, <1>14,
     <1>15, <1>16, <1>17, <1>18, <1>19, <1>20, <1>21, <1>22, <1>23, <1>24, <1>25, <1>26, <1>27,
     <1>28, <1>30
  DEF Next, Lock, Success, Failure, Prompting, PromptOver, Stopped

(* A wrong memory of the model is put right by the one request at work.    *)
LEMMA ModelStep == TypeOK /\ PlaceInv /\ StickyInv /\ OwnInv /\ OneInv /\ ModelInv /\ [Next]_vars => ModelInv'
<1> SUFFICES ASSUME TypeOK, PlaceInv, StickyInv, OwnInv, OneInv, ModelInv, [Next]_vars PROVE ModelInv'
  OBVIOUS
<1> USE DEF TypeOK, TypeRequests, TypeSessions, Session, PlaceInv, StickyInv, OwnInv, OneInv,
    ModelInv, Steady, Active, Setup, Connected, InSession, Reuses
<1>1. ASSUME NEW r \in Requests, Arrive(r) PROVE ModelInv'
  BY <1>1 DEF Arrive, Goto
<1>2. ASSUME NEW r \in Requests, UseConnection(r) PROVE ModelInv'
  BY <1>2 DEF UseConnection, Goto
<1>3. ASSUME NEW r \in Requests, Dial(r) PROVE ModelInv'
  BY <1>3 DEF Dial, Goto
<1>4. ASSUME NEW r \in Requests, Dialed(r) PROVE ModelInv'
  BY <1>4 DEF Dialed, Goto
<1>5. ASSUME NEW r \in Requests, Initialized(r) PROVE ModelInv'
  BY <1>5 DEF Initialized, Goto
<1>6. ASSUME NEW r \in Requests, ReuseSession(r) PROVE ModelInv'
  BY <1>6 DEF ReuseSession, Reusable, Goto
<1>7. ASSUME NEW r \in Requests, CreateSession(r) PROVE ModelInv'
  BY <1>7 DEF CreateSession, Reusable, Goto
<1>8. ASSUME NEW r \in Requests, SessionCreated(r) PROVE ModelInv'
  BY <1>8 DEF SessionCreated, NewSession, Goto
<1>9. ASSUME NEW r \in Requests, KeepModel(r) PROVE ModelInv'
  <2>1. CASE Steady
    <3>1. sticky = sid[r] /\ stickyModel = want[r] /\ stickyModel # NoModel /\ Reuses
      BY <1>9, Distinct DEF KeepModel, ModelKnown
    <3>2. \A q \in Requests : pc[q] \in {"remember", "invalidate"} => q = r
      BY <1>9, <2>1, <3>1 DEF KeepModel
    <3>3. sess[sticky].model = stickyModel
      BY <1>9, <2>1, <3>1, <3>2 DEF KeepModel
    <3>4. QED
      BY <1>9, <2>1, <3>1, <3>3 DEF KeepModel, Goto
  <2>2. QED
    BY <1>9, <2>1 DEF KeepModel
<1>10. ASSUME NEW r \in Requests, SetModel(r) PROVE ModelInv'
  BY <1>10 DEF SetModel, ModelKnown, Goto
<1>11. ASSUME NEW r \in Requests, ModelSet(r) PROVE ModelInv'
  <2> SUFFICES ASSUME Steady PROVE ModelInv'
    BY <1>11 DEF ModelSet
  <2>1. sid[r] \in 1 .. Len(sess) /\ sess[sid[r]] \in Session
    BY <1>11, SessionEdits DEF ModelSet
  <2>2. \A q \in Requests : q # r /\ pc[q] \in InSession => sid[q] # sid[r]
    BY <1>11, NotShared DEF ModelSet
  <2>3. QED
    BY <1>11, <2>1, <2>2 DEF ModelSet, Goto
<1>12. ASSUME NEW r \in Requests, Remember(r) PROVE ModelInv'
  BY <1>12 DEF Remember, Goto
<1>13. ASSUME NEW r \in Requests, PromptSent(r) PROVE ModelInv'
  BY <1>13 DEF PromptSent, Goto
<1>14. ASSUME NEW r \in Requests, TextChunk(r) PROVE ModelInv'
  BY <1>14 DEF TextChunk, Forward
<1>30. ASSUME NEW r \in Requests, ThoughtChunk(r) PROVE ModelInv'
  BY <1>30 DEF ThoughtChunk, Forward
<1>15. ASSUME NEW r \in Requests, PromptOver(r) PROVE ModelInv'
  <2>1. /\ pc[r] \in {"prompt", "listening"}
        /\ \E step \in {"invalidate", "return", "prompt", "delete"} : pc' = [pc EXCEPT ![r] = step]
        /\ UNCHANGED <<config, attempt, my, sid, want, got, spoke, serviceVars, conn, sess>>
    BY <1>15, PromptOverMoves
  <2>2. ASSUME Steady, NEW q \in Requests, pc'[q] \in {"remember", "prompt", "listening"}
        PROVE  sess'[sid'[q]].model = want'[q]
    BY <2>1, <2>2
  <2>3. ASSUME Steady, stickyModel # NoModel, sess[sticky].model # stickyModel
        PROVE  \E q \in Requests : pc'[q] \in {"remember", "invalidate"} /\ sid[q] = sticky
    <3>1. PICK q \in Requests : pc[q] \in {"remember", "invalidate"} /\ sid[q] = sticky
      BY <2>3
    <3>2. q # r
      BY <2>1, <3>1
    <3>3. QED
      BY <2>1, <3>1, <3>2
  <2>4. QED
    BY <2>1, <2>2, <2>3
<1>16. ASSUME NEW r \in Requests, Invalidate(r) PROVE ModelInv'
  BY <1>16 DEF Invalidate, ClearSticky, Goto
<1>17. ASSUME NEW r \in Requests, Deleted(r) PROVE ModelInv'
  BY <1>17 DEF Deleted, Goto
<1>18. ASSUME NEW r \in Requests, DeleteFailed(r) PROVE ModelInv'
  BY <1>18 DEF DeleteFailed, Goto
<1>19. ASSUME NEW r \in Requests, Return(r) PROVE ModelInv'
  BY <1>19 DEF Return, TryAgain, Goto
<1>20. ASSUME NEW r \in Requests, Reset(r) PROVE ModelInv'
  BY <1>20 DEF Reset, CloseClient, ClearSticky, Goto
<1>21. ASSUME NEW r \in Requests, NEW e \in {"recoverable", "fatal"}, DialFailed(r, e) PROVE ModelInv'
  BY <1>21 DEF DialFailed, SetupFailed, Goto
<1>22. ASSUME NEW r \in Requests, NEW e \in {"recoverable", "fatal"}, InitializeFailed(r, e) PROVE ModelInv'
  BY <1>22 DEF InitializeFailed, SetupFailed, CallError, Goto
<1>23. ASSUME NEW r \in Requests, NEW e \in {"recoverable", "fatal"}, CreateFailed(r, e) PROVE ModelInv'
  BY <1>23 DEF CreateFailed, SetupFailed, CallError, Goto
<1>24. ASSUME NEW r \in Requests, NEW e \in {"recoverable", "fatal"}, SetModelFailed(r, e) PROVE ModelInv'
  <2> SUFFICES ASSUME Steady PROVE ModelInv'
    BY <1>24 DEF SetModelFailed
  <2>1. CASE sess' = sess
    BY <1>24, <2>1 DEF SetModelFailed, Leave, CallError, Goto
  <2>2. CASE sess' = [sess EXCEPT ![sid[r]].model = want[r]]
    <3>1. sid[r] \in 1 .. Len(sess) /\ sess[sid[r]] \in Session
      BY <1>24, SessionEdits DEF SetModelFailed
    <3>2. \A q \in Requests : q # r /\ pc[q] \in InSession => sid[q] # sid[r]
      BY <1>24, NotShared DEF SetModelFailed
    <3>3. QED
      BY <1>24, <2>2, <3>1, <3>2 DEF SetModelFailed, Leave, Goto
  <2>3. QED
    BY <1>24, <2>1, <2>2 DEF SetModelFailed
<1>25. CASE Close
  BY <1>25 DEF Close, CloseClient, ClearSticky
<1>26. ASSUME NEW c \in DOMAIN conn, Lose(c) PROVE ModelInv'
  BY <1>26 DEF Lose
<1>27. ASSUME NEW c \in DOMAIN conn, ReadLoopEnds(c) PROVE ModelInv'
  BY <1>27 DEF ReadLoopEnds
<1>28. CASE UNCHANGED vars
  BY <1>28 DEF vars
<1> HIDE DEF TypeOK, TypeRequests, TypeSessions, Session, PlaceInv, StickyInv, OwnInv, OneInv,
    ModelInv, Steady, Active, Setup, Connected, InSession, Reuses
<1>29. QED
  BY <1>1, <1>2, <1>3, <1>4, <1>5, <1>6, <1>7, <1>8, <1>9, <1>10, <1>11, <1>12, <1>13, <1>14,
     <1>15, <1>16, <1>17, <1>18, <1>19, <1>20, <1>21, <1>22, <1>23, <1>24, <1>25, <1>26, <1>27,
     <1>28, <1>30
  DEF Next, Lock, Success, Failure, Prompting, PromptOver, Stopped

(* A request leaves its session by the deletion only.                      *)
LEMMA LeftStep == TypeOK /\ PlaceInv /\ OwnInv /\ NoSessionLeftBehind /\ [Next]_vars => NoSessionLeftBehind'
<1> SUFFICES ASSUME TypeOK, PlaceInv, OwnInv, NoSessionLeftBehind, [Next]_vars PROVE NoSessionLeftBehind'
  OBVIOUS
<1> USE DEF TypeOK, TypeRequests, TypeSessions, Session, PlaceInv, OwnInv, NoSessionLeftBehind,
    Setup, Connected, InSession, Reuses
<1>1. ASSUME NEW r \in Requests, Arrive(r) PROVE NoSessionLeftBehind'
  BY <1>1 DEF Arrive, Goto
<1>2. ASSUME NEW r \in Requests, UseConnection(r) PROVE NoSessionLeftBehind'
  BY <1>2 DEF UseConnection, Goto
<1>3. ASSUME NEW r \in Requests, Dial(r) PROVE NoSessionLeftBehind'
  BY <1>3 DEF Dial, Goto
<1>4. ASSUME NEW r \in Requests, Dialed(r) PROVE NoSessionLeftBehind'
  BY <1>4 DEF Dialed, Goto
<1>5. ASSUME NEW r \in Requests, Initialized(r) PROVE NoSessionLeftBehind'
  BY <1>5 DEF Initialized, Goto
<1>6. ASSUME NEW r \in Requests, ReuseSession(r) PROVE NoSessionLeftBehind'
  BY <1>6 DEF ReuseSession, Reusable, Goto
<1>7. ASSUME NEW r \in Requests, CreateSession(r) PROVE NoSessionLeftBehind'
  BY <1>7 DEF CreateSession, Reusable, Goto
<1>8. ASSUME NEW r \in Requests, SessionCreated(r) PROVE NoSessionLeftBehind'
  BY <1>8 DEF SessionCreated, NewSession, Goto
<1>9. ASSUME NEW r \in Requests, KeepModel(r) PROVE NoSessionLeftBehind'
  BY <1>9 DEF KeepModel, ModelKnown, Goto
<1>10. ASSUME NEW r \in Requests, SetModel(r) PROVE NoSessionLeftBehind'
  BY <1>10 DEF SetModel, ModelKnown, Goto
<1>11. ASSUME NEW r \in Requests, ModelSet(r) PROVE NoSessionLeftBehind'
  BY <1>11, SMTT(30) DEF ModelSet, Goto
<1>12. ASSUME NEW r \in Requests, Remember(r) PROVE NoSessionLeftBehind'
  BY <1>12 DEF Remember, Goto
<1>13. ASSUME NEW r \in Requests, PromptSent(r) PROVE NoSessionLeftBehind'
  BY <1>13 DEF PromptSent, Goto
<1>14. ASSUME NEW r \in Requests, TextChunk(r) PROVE NoSessionLeftBehind'
  BY <1>14 DEF TextChunk, Forward
<1>30. ASSUME NEW r \in Requests, ThoughtChunk(r) PROVE NoSessionLeftBehind'
  BY <1>30 DEF ThoughtChunk, Forward
<1>15. ASSUME NEW r \in Requests, PromptOver(r) PROVE NoSessionLeftBehind'
  <2>1. PICK step \in IF Reuses THEN {"invalidate", "return", "prompt"} ELSE {"delete", "prompt"} :
          pc' = [pc EXCEPT ![r] = step]
    BY <1>15, PromptOverEffect
  <2>2. pc[r] \in {"prompt", "listening"}
        /\ UNCHANGED <<config, attempt, my, sid, want, got, spoke, serviceVars, conn, sess>>
    BY <1>15, PromptOverEffect
  <2>3. QED
    BY <2>1, <2>2
<1>16. ASSUME NEW r \in Requests, Invalidate(r) PROVE NoSessionLeftBehind'
  BY <1>16 DEF Invalidate, ClearSticky, Goto
<1>17. ASSUME NEW r \in Requests, Deleted(r) PROVE NoSessionLeftBehind'
  BY <1>17 DEF Deleted, Goto
<1>18. ASSUME NEW r \in Requests, DeleteFailed(r) PROVE NoSessionLeftBehind'
  BY <1>18 DEF DeleteFailed, Goto
<1>19. ASSUME NEW r \in Requests, Return(r) PROVE NoSessionLeftBehind'
  BY <1>19 DEF Return, TryAgain, Goto
<1>20. ASSUME NEW r \in Requests, Reset(r) PROVE NoSessionLeftBehind'
  BY <1>20 DEF Reset, Goto
<1>21. ASSUME NEW r \in Requests, NEW e \in {"recoverable", "fatal"}, DialFailed(r, e) PROVE NoSessionLeftBehind'
  BY <1>21 DEF DialFailed, SetupFailed, Goto
<1>22. ASSUME NEW r \in Requests, NEW e \in {"recoverable", "fatal"}, InitializeFailed(r, e) PROVE NoSessionLeftBehind'
  BY <1>22 DEF InitializeFailed, SetupFailed, CallError, Goto
<1>23. ASSUME NEW r \in Requests, NEW e \in {"recoverable", "fatal"}, CreateFailed(r, e) PROVE NoSessionLeftBehind'
  BY <1>23 DEF CreateFailed, SetupFailed, CallError, Goto
<1>24. ASSUME NEW r \in Requests, NEW e \in {"recoverable", "fatal"}, SetModelFailed(r, e) PROVE NoSessionLeftBehind'
  <2>1. CASE sess' = sess
    BY <1>24, <2>1 DEF SetModelFailed, Leave, CallError, Goto
  <2>2. CASE sess' = [sess EXCEPT ![sid[r]].model = want[r]]
    BY <1>24, <2>2 DEF SetModelFailed, Leave, CallError, Goto
  <2>3. QED
    BY <1>24, <2>1, <2>2 DEF SetModelFailed
<1>25. CASE Close
  BY <1>25 DEF Close, CloseClient, ClearSticky
<1>26. ASSUME NEW c \in DOMAIN conn, Lose(c) PROVE NoSessionLeftBehind'
  BY <1>26 DEF Lose
<1>27. ASSUME NEW c \in DOMAIN conn, ReadLoopEnds(c) PROVE NoSessionLeftBehind'
  BY <1>27 DEF ReadLoopEnds
<1>28. CASE UNCHANGED vars
  BY <1>28 DEF vars
<1> HIDE DEF TypeOK, TypeRequests, TypeSessions, Session, PlaceInv, OwnInv, NoSessionLeftBehind,
    Setup, Connected, InSession, Reuses
<1>29. QED
  BY <1>1, <1>2, <1>3, <1>4, <1>5, <1>6, <1>7, <1>8, <1>9, <1>10, <1>11, <1>12, <1>13, <1>14,
     <1>15, <1>16, <1>17, <1>18, <1>19, <1>20, <1>21, <1>22, <1>23, <1>24, <1>25, <1>26, <1>27,
     <1>28, <1>30
  DEF Next, Lock, Success, Failure, Prompting, PromptOver, Stopped

(* The proxy starts with nothing.                                          *)
LEMMA InitIInv == Init => IInv
<1> SUFFICES ASSUME Init PROVE IInv
  OBVIOUS
<1>1. TypeOK
  BY DEF Init, TypeOK, TypeRequests, TypeConns, TypeSessions, Errors
<1>2. PlaceInv /\ ConnInv /\ StickyInv /\ OwnInv
  BY Distinct DEF Init, PlaceInv, ConnInv, StickyInv, OwnInv, Setup, Connected, InSession
<1>3. SpokeInv /\ OneInv /\ ModelInv
  BY DEF Init, SpokeInv, OneInv, ModelInv, Active
<1>4. NoSessionLeftBehind
  BY DEF Init, NoSessionLeftBehind
<1>5. QED
  BY <1>1, <1>2, <1>3, <1>4 DEF IInv

-----------------------------------------------------------------------------
(* The inductive invariant holds in every reachable state.                 *)
THEOREM Invariance == Spec => []IInv
<1>1. TypeOK /\ PlaceInv /\ OwnInv /\ [Next]_vars => TypeOK'
  BY TypeRequestsStep, TypeConnsStep, TypeSessionsStep DEF TypeOK
<1>2. IInv /\ [Next]_vars => IInv'
  BY <1>1, PlaceStep, ConnStep, StickyStep, OwnStep, SpokeStep, OneStep, ModelStep, LeftStep DEF IInv
<1>3. QED BY InitIInv, <1>2, PTL DEF Spec

(* Types, with every connection and session a request names being one that *)
(* was made, and at most two deletions of each.                            *)
THEOREM TypeCorrect == Spec => []TypeOK
<1>1. IInv => TypeOK BY DEF IInv
<1>2. QED BY Invariance, <1>1, PTL

(* A request that has forwarded text is never run a second time, one that  *)
(* has forwarded thoughts only after its connection closed                 *)
(* (service.go 371-383, 1337-1362).                                        *)
THEOREM AnswerStartsOnceTheorem == Spec => []AnswerStartsOnce
<1>1. IInv => AnswerStartsOnce
  BY DEF IInv, SpokeInv, AnswerStartsOnce, TryAgain
<1>2. QED BY Invariance, <1>1, PTL

(* In auto and fresh mode a session is there, for its request alone, while *)
(* the prompt runs, and is deleted, or given up after two deletions, on    *)
(* every way out (service.go 886-893, 1221-1224, 1398-1413).               *)
THEOREM PrivateSessionsTheorem == Spec => []PrivateSessions
<1>1. IInv => SessionOutlivesPrompt
  <2> SUFFICES ASSUME IInv, ~Reuses, NEW r \in Requests, pc[r] \in {"prompt", "listening"}
               PROVE  sess[sid[r]].live /\ \A q \in Requests \ {r} : sid[q] # sid[r]
    BY DEF SessionOutlivesPrompt, Reuses
  <2>1. sid[r] # 0 /\ sess[sid[r]].live
    BY DEF IInv, PlaceInv, OwnInv, InSession
  <2>2. \A q \in Requests : sid[q] # 0 => sess[sid[q]].owner = q
    BY DEF IInv, OwnInv
  <2>3. QED
    BY <2>1, <2>2
<1>2. IInv => PrivateSessions
  BY <1>1 DEF IInv, PrivateSessions
<1>3. QED BY Invariance, <1>2, PTL

(* Only sending a prompt takes a request from "prompt" to "listening".     *)
LEMMA OnlyPromptSent ==
  ASSUME TypeOK, [Next]_vars, NEW r \in Requests, pc[r] = "prompt", pc'[r] = "listening"
  PROVE  PromptSent(r)
<1> USE DEF TypeOK, TypeRequests, Goto
<1>1. ASSUME NEW q \in Requests, Lock(q) \/ Success(q) \/ Arrive(q) \/ Return(q) PROVE FALSE
  BY <1>1 DEF Lock, Success, Arrive, Return, UseConnection, Dial, ReuseSession, CreateSession, KeepModel,
     SetModel, Remember, Invalidate, Reset, Dialed, Initialized, SessionCreated, ModelSet, Deleted
<1>2. ASSUME NEW q \in Requests, DeleteFailed(q) PROVE FALSE
  BY <1>2 DEF DeleteFailed
<1>3. ASSUME NEW q \in Requests, NEW e \in {"recoverable", "fatal"},
             DialFailed(q, e) \/ InitializeFailed(q, e) \/ CreateFailed(q, e) \/ SetModelFailed(q, e)
      PROVE  FALSE
  BY <1>3 DEF DialFailed, InitializeFailed, CreateFailed, SetModelFailed, SetupFailed, Leave
<1>4. ASSUME NEW q \in Requests, PromptOver(q) PROVE FALSE
  BY <1>4, PromptOverEffect
<1>5. ASSUME NEW q \in Requests, PromptSent(q) \/ TextChunk(q) \/ ThoughtChunk(q) PROVE PromptSent(r)
  BY <1>5 DEF PromptSent, TextChunk, ThoughtChunk
<1>6. ~Close /\ (\A c \in DOMAIN conn : ~Lose(c) /\ ~ReadLoopEnds(c)) /\ ~UNCHANGED vars
  BY DEF Close, Lose, ReadLoopEnds, vars
<1> HIDE DEF TypeOK, TypeRequests, Goto
<1>7. QED
  BY <1>1, <1>2, <1>3, <1>4, <1>5, <1>6 DEF Next, Failure, Prompting, PromptOver, Stopped

(* A prompt goes out on the service's connection and names a session made  *)
(* on it, whoever reset what in between (service.go 866, 881, 1264-1324).  *)
THEOREM OwnConnectionTheorem == Spec => PromptOnOwnConnection
<1>1. ASSUME IInv, [Next]_vars, NEW r \in Requests, pc[r] = "prompt", pc'[r] = "listening"
      PROVE  my[r] = client /\ sess[sid[r]].conn = client
  <2>1. PromptSent(r)
    BY <1>1, OnlyPromptSent DEF IInv
  <2>2. QED
    BY <1>1, <2>1 DEF IInv, PlaceInv, ConnInv, StickyInv, InSession, PromptSent
<1>2. IInv /\ [Next]_vars =>
        [\A r \in Requests : pc[r] = "prompt" /\ pc'[r] = "listening" =>
           my[r] = client /\ sess[sid[r]].conn = client]_vars
  BY <1>1
<1>3. QED
  BY <1>2, Invariance, PTL DEF PromptOnOwnConnection, Spec

(* A prompt runs with the model its request asked for, in reuse mode if    *)
(* the gate lets in one request at a time (service.go 895-927, 1177-1199). *)
THEOREM OwnModelTheorem == Spec => PromptRunsWithItsModel
<1>1. ASSUME IInv, [Next]_vars, config.mode # "reuse" \/ config.atOnce = 1,
             NEW r \in Requests, pc[r] = "prompt", pc'[r] = "listening"
      PROVE  sess[sid[r]].model = want[r]
  BY <1>1 DEF IInv, ModelInv, Steady, Reuses
<1>2. IInv /\ [Next]_vars =>
        [(config.mode # "reuse" \/ config.atOnce = 1) => \A r \in Requests : pc[r] = "prompt" /\ pc'[r] = "listening" =>
           sess[sid[r]].model = want[r]]_vars
  BY <1>1
<1>3. QED
  BY <1>2, Invariance, PTL DEF PromptRunsWithItsModel, Spec

-----------------------------------------------------------------------------
(* Every step of the requests is one the service promises, or none.        *)
LEMMA SharedStep == IInv /\ [Next]_vars => [Shared!Next]_(Shared!vars)
<1> SUFFICES ASSUME IInv, [Next]_vars PROVE [Shared!Next]_(Shared!vars)
  OBVIOUS
<1> DEFINE M(m) == IF m = NoModel THEN 0 ELSE m
<1>1. TypeOK /\ PlaceInv /\ StickyInv
  BY DEF IInv
<1>2. ASSUME NEW r \in Requests, Initialized(r) PROVE Shared!Connect
  <2>1. client = 0 /\ my[r] \in Nat \ {0}
    BY <1>1, <1>2 DEF IInv, ConnInv, TypeOK, TypeConns, PlaceInv, Connected, Initialized
  <2>2. QED
    BY <1>2, <2>1 DEF Initialized, Shared!Connect
<1>3. ASSUME CloseClient PROVE Shared!Drop
  BY <1>3 DEF CloseClient, ClearSticky, Shared!Drop
<1>4. ASSUME NEW r \in Requests, SessionCreated(r) PROVE Shared!Adopt \/ UNCHANGED Shared!vars
  <2>1. CASE Reuses
    <3>1. sticky = 0 /\ stickyModel = NoModel
      BY <1>1, <1>4, <2>1 DEF StickyInv, SessionCreated
    <3>2. client # 0
      BY <1>1, <1>4, <2>1 DEF SessionCreated, IInv, PlaceInv, ConnInv, Connected
    <3>3. sticky' \in Nat \ {0} /\ stickyModel' = NoModel /\ UNCHANGED client
      BY <1>1, <1>4, <2>1 DEF SessionCreated, TypeOK, TypeSessions
    <3>4. QED
      BY <3>1, <3>2, <3>3 DEF Shared!Adopt
  <2>2. CASE ~Reuses
    BY <1>4, <2>2 DEF SessionCreated, Shared!vars
  <2>3. QED
    BY <2>1, <2>2
<1>5. ASSUME NEW r \in Requests, Remember(r) PROVE Shared!Learn \/ UNCHANGED Shared!vars
  <2>1. CASE sticky = sid[r]
    <3>1. sticky # 0 /\ want[r] \in Models /\ want[r] # NoModel
      BY <1>1, <1>5, <2>1, Distinct DEF PlaceInv, InSession, Remember
    <3>2. QED
      BY <1>5, <2>1, <3>1 DEF Remember, Shared!Learn
  <2>2. CASE sticky # sid[r]
    BY <1>5, <2>2 DEF Remember, Shared!vars
  <2>3. QED
    BY <2>1, <2>2
<1>6. ASSUME NEW r \in Requests, Invalidate(r) PROVE Shared!Forget
  BY <1>6 DEF Invalidate, ClearSticky, Shared!Forget
<1>7. ASSUME UNCHANGED <<client, sticky, stickyModel>> PROVE UNCHANGED Shared!vars
  BY <1>7 DEF Shared!vars
<1> DEFINE Quiet == UNCHANGED <<client, sticky, stickyModel>>
<1>8. ASSUME NEW r \in Requests, Lock(r) PROVE CloseClient \/ Remember(r) \/ Invalidate(r) \/ Quiet
  BY <1>8 DEF Lock, UseConnection, Dial, ReuseSession, CreateSession, KeepModel, SetModel, Reset
<1>9. ASSUME NEW r \in Requests, Success(r) PROVE Initialized(r) \/ SessionCreated(r) \/ Quiet
  BY <1>9 DEF Success, Dialed, ModelSet, Deleted
<1>10. ASSUME NEW r \in Requests, Failure(r) \/ Prompting(r) PROVE Quiet
  BY <1>10 DEF Failure, Prompting, DialFailed, InitializeFailed, CreateFailed, SetModelFailed, PromptNotSent,
     DeleteFailed, PromptSent, TextChunk, ThoughtChunk, Forward, ChatFinish, StreamClosed, PromptExpired, Answered, PromptFailed
<1>11. ASSUME NEW r \in Requests, Arrive(r) \/ Return(r) PROVE Quiet
  BY <1>11 DEF Arrive, Return
<1>12. ASSUME Close PROVE CloseClient
  BY <1>12 DEF Close
<1>13. ASSUME NEW c \in DOMAIN conn, Lose(c) \/ ReadLoopEnds(c) PROVE Quiet
  BY <1>13 DEF Lose, ReadLoopEnds
<1>14. ASSUME UNCHANGED vars PROVE Quiet
  BY <1>14 DEF vars
<1> HIDE DEF Quiet
<1>15. QED
  BY <1>2, <1>3, <1>4, <1>5, <1>6, <1>7, <1>8, <1>9, <1>10, <1>11, <1>12, <1>13, <1>14
  DEF Next, Stopped, Quiet, Shared!Next

(* What requests do to the connection and the sticky session they share is *)
(* what Service promises: a session lives on its connection and goes with  *)
(* it, neither is exchanged, the remembered model is the session's.        *)
THEOREM Refinement == Spec => SharedSpec
<1>1. Init => Shared!Init
  BY DEF Init, Shared!Init
<1>2. QED
  BY <1>1, SharedStep, Invariance, PTL DEF Spec, SharedSpec, Shared!Spec

-----------------------------------------------------------------------------
(* Frames *)

Headers == {"plain", "first", "last", "without"}
Frame == [header : Headers, body : Seq(Token)]

(* A short header, token by token.                                         *)
LEMMA Three ==
  ASSUME NEW S, NEW a \in S, NEW b \in S, NEW c \in S
  PROVE  LET s == <<a, b>> \o <<c>>
         IN  s \in Seq(S) /\ Len(s) = 3 /\ s[1] = a /\ s[2] = b /\ s[3] = c
OBVIOUS

(* And one with a line more.                                               *)
LEMMA Five ==
  ASSUME NEW S, NEW a \in S, NEW b \in S, NEW c \in S, NEW d \in S, NEW e \in S
  PROVE  LET s == <<a, b>> \o <<c, d>> \o <<e>>
         IN  s \in Seq(S) /\ Len(s) = 5 /\ s[1] = a /\ s[2] = b /\ s[3] = c /\ s[4] = d /\ s[5] = e
<1> DEFINE r == <<a, b>> \o <<c, d>>
<1>1. r \in Seq(S) /\ Len(r) = 4 /\ r[1] = a /\ r[2] = b /\ r[3] = c /\ r[4] = d
  OBVIOUS
<1> HIDE DEF r
<1> DEFINE u == <<e>>
<1>0. u \in Seq(S) /\ Len(u) = 1 /\ u[1] = e
  OBVIOUS
<1> HIDE DEF u
<1>2. /\ r \o u \in Seq(S) /\ Len(r \o u) = 5
      /\ \A i \in 1 .. 5 : (r \o u)[i] = IF i <= 4 THEN r[i] ELSE u[i - 4]
  <2>1. /\ r \o u \in Seq(S) /\ Len(r \o u) = Len(r) + Len(u)
        /\ \A i \in 1 .. Len(r) + Len(u) : (r \o u)[i] = IF i <= Len(r) THEN r[i] ELSE u[i - Len(r)]
    BY <1>0, <1>1, ConcatProperties
  <2>2. QED
    BY <1>0, <1>1, <2>1
<1>3. QED
  BY <1>0, <1>1, <1>2 DEF r, u

(* Where the header ends, and where its length stands.                     *)
HeaderEnd(frame) == IF frame.header \in {"plain", "without"} THEN 3 ELSE 5
LengthAt(frame) == IF frame.header = "last" THEN 3 ELSE 1

(* A frame on the wire: no empty line before the header's end, one length  *)
(* at most, and the body behind it.                                        *)
LEMMA EncodedIs ==
  ASSUME NEW frame \in Frame
  PROVE  LET e == Encoded(frame)
             h == HeaderEnd(frame)
         IN  /\ e \in Seq(Token) /\ Len(e) = h + Len(frame.body)
             /\ \A j \in 1 .. Len(frame.body) : e[h + j] = frame.body[j]
             /\ e[h] = Break /\ e[h - 1] = Break /\ e[1] # Break
             /\ \A i \in 1 .. h - 2 : ~(e[i] = Break /\ e[i + 1] = Break)
             /\ \A i \in 1 .. h : IsLength(e[i]) <=> frame.header # "without" /\ i = LengthAt(frame)
             /\ frame.header # "without" => e[LengthAt(frame)] = Length(Len(frame.body))
<1> DEFINE n == Len(frame.body)
           length == <<Length(n), Break>>
           other == <<Other, Break>>
           header == CASE frame.header = "plain" -> length
                  [] frame.header = "first" -> length \o other
                  [] frame.header = "last" -> other \o length
                  [] frame.header = "without" -> other
           h == HeaderEnd(frame)
           e == Encoded(frame)
<1>1. frame.body \in Seq(Token) /\ n \in Nat /\ frame.header \in Headers
  BY DEF Frame
<1>2. Length(n) \in Token /\ Other \in Token /\ Break \in Token
  BY <1>1 DEF Token, Length, Other, Break
<1>3. Length(n) # Break /\ Other # Break /\ IsLength(Length(n)) /\ ~IsLength(Other) /\ ~IsLength(Break)
  BY DEF Length, Other, Break, IsLength
<1> DEFINE top == header \o <<Break>>
<1>4. /\ top \in Seq(Token) /\ Len(top) = h
      /\ top[h] = Break /\ top[h - 1] = Break /\ top[1] # Break
      /\ \A i \in 1 .. h - 2 : ~(top[i] = Break /\ top[i + 1] = Break)
      /\ \A i \in 1 .. h : IsLength(top[i]) <=> frame.header # "without" /\ i = LengthAt(frame)
      /\ frame.header # "without" => top[LengthAt(frame)] = Length(n)
  <2>1. CASE frame.header = "plain"
    <3>1. header = <<Length(n), Break>> /\ h = 3 /\ LengthAt(frame) = 1
      BY <2>1 DEF HeaderEnd, LengthAt
    <3> HIDE DEF header
    <3>2. top \in Seq(Token) /\ Len(top) = 3 /\ top[1] = Length(n) /\ top[2] = Break /\ top[3] = Break
      BY <1>2, <3>1, Three
    <3> HIDE DEF top, h
    <3>3. QED
      BY <1>3, <2>1, <3>1, <3>2
  <2>2. CASE frame.header = "first"
    <3>1. header = <<Length(n), Break>> \o <<Other, Break>> /\ h = 5 /\ LengthAt(frame) = 1
      BY <2>2 DEF HeaderEnd, LengthAt
    <3> HIDE DEF header
    <3>2. top \in Seq(Token) /\ Len(top) = 5 /\ top[1] = Length(n) /\ top[2] = Break /\ top[3] = Other /\ top[4] = Break /\ top[5] = Break
      BY <1>2, <3>1, Five
    <3> HIDE DEF top, h
    <3>3. QED
      BY <1>3, <2>2, <3>1, <3>2
  <2>3. CASE frame.header = "last"
    <3>1. header = <<Other, Break>> \o <<Length(n), Break>> /\ h = 5 /\ LengthAt(frame) = 3
      BY <2>3 DEF HeaderEnd, LengthAt
    <3> HIDE DEF header
    <3>2. top \in Seq(Token) /\ Len(top) = 5 /\ top[1] = Other /\ top[2] = Break /\ top[3] = Length(n) /\ top[4] = Break /\ top[5] = Break
      BY <1>2, <3>1, Five
    <3> HIDE DEF top, h
    <3>3. QED
      BY <1>3, <2>3, <3>1, <3>2
  <2>4. CASE frame.header = "without"
    <3>1. header = <<Other, Break>> /\ h = 3 /\ LengthAt(frame) = 1
      BY <2>4 DEF HeaderEnd, LengthAt
    <3> HIDE DEF header
    <3>2. top \in Seq(Token) /\ Len(top) = 3 /\ top[1] = Other /\ top[2] = Break /\ top[3] = Break
      BY <1>2, <3>1, Three
    <3> HIDE DEF top, h
    <3>3. QED
      BY <1>3, <2>4, <3>1, <3>2
  <2>5. QED
    BY <1>1, <2>1, <2>2, <2>3, <2>4 DEF Headers
<1>5. e = top \o frame.body
  <2>1. e = header \o <<Break>> \o frame.body
    BY DEF Encoded
  <2>2. QED
    BY <2>1
<1>6. h \in {3, 5}
  BY DEF HeaderEnd
<1> HIDE DEF top, h
<1>7. /\ e \in Seq(Token) /\ Len(e) = h + n
      /\ \A i \in 1 .. h : e[i] = top[i]
      /\ \A j \in 1 .. n : e[h + j] = frame.body[j]
  <2> HIDE DEF e, n
  <2>1. n = Len(frame.body)
    BY DEF n
  <2>2. QED
    BY <1>1, <1>4, <1>5, <1>6, <2>1
<1> HIDE DEF e, n
<1>8. \A i \in 1 .. h - 2 : i \in 1 .. h /\ i + 1 \in 1 .. h
  BY <1>6
<1>9. h \in 1 .. h /\ h - 1 \in 1 .. h /\ 1 \in 1 .. h /\ LengthAt(frame) \in 1 .. h
  BY <1>6 DEF h, HeaderEnd, LengthAt
<1>10. QED
  BY <1>4, <1>7, <1>8, <1>9 DEF e, n, h

(* With one length line both readers' choices are the same.                *)
LEMMA OnlyOne ==
  ASSUME NEW x \in Int
  PROVE  Min({x}) = x /\ Max({x}) = x
BY DEF Min, Max

(* What a reader makes of a buffer that begins with a frame, or with a     *)
(* part of one.                                                            *)
LEMMA ReadingIs ==
  ASSUME NEW frame \in Frame, buffer \in Seq(Token), transport \in {"pipe", "websocket"},
         \A i \in 1 .. Len(buffer) : i <= Len(Encoded(frame)) => buffer[i] = Encoded(frame)[i]
  PROVE  LET h == HeaderEnd(frame)
             n == Len(frame.body)
         IN  /\ Len(buffer) < h => Reading = [kind |-> "more"]
             /\ Len(buffer) >= h /\ frame.header = "without" => Reading = [kind |-> "error"]
             /\ Len(buffer) >= h /\ frame.header # "without" =>
                  Reading = IF Len(buffer) - h < n THEN [kind |-> "more"]
                            ELSE [kind |-> "frame", body |-> SubSeq(buffer, h + 1, h + n),
                                  rest |-> SubSeq(buffer, h + n + 1, Len(buffer))]
<1> DEFINE h == HeaderEnd(frame)
           n == Len(frame.body)
           b == Len(buffer)
           e == Encoded(frame)
           at == LengthAt(frame)
           empty == {i \in DOMAIN buffer : buffer[i] = Break /\ (i = 1 \/ buffer[i - 1] = Break)}
           two == {i \in 1..(Len(buffer) - 1) : buffer[i] = Break /\ buffer[i + 1] = Break}
           lengths == {i \in 1..h : IsLength(buffer[i])}
<1>1. b \in Nat /\ h \in {3, 5} /\ n \in Nat /\ at \in {1, 3} /\ at < h /\ DOMAIN buffer = 1 .. b
  BY DEF HeaderEnd, LengthAt, Frame
<1>2. /\ Len(e) = h + n
      /\ e[h] = Break /\ e[h - 1] = Break /\ e[1] # Break
      /\ \A i \in 1 .. h - 2 : ~(e[i] = Break /\ e[i + 1] = Break)
      /\ \A i \in 1 .. h : IsLength(e[i]) <=> frame.header # "without" /\ i = at
      /\ frame.header # "without" => e[at] = Length(n)
  BY EncodedIs
<1>3. \A i \in 1 .. b : i <= h => buffer[i] = e[i]
  BY <1>1, <1>2
<1> HIDE DEF e, n, h, at, b
<1>4. \A i \in empty : i >= h
  <2>1. ASSUME NEW i \in empty, i < h PROVE FALSE
    <3>1. i \in 1 .. b /\ buffer[i] = Break
      BY <1>1
    <3>2. i # 1
      BY <1>1, <1>2, <1>3, <2>1, <3>1
    <3>3. i - 1 \in 1 .. h - 2 /\ i - 1 \in 1 .. b /\ (i - 1) + 1 = i /\ i - 1 <= h
      BY <1>1, <2>1, <3>1, <3>2
    <3>4. buffer[i - 1] = Break
      BY <3>2
    <3>5. e[i - 1] = Break /\ e[i] = Break
      BY <1>1, <1>3, <2>1, <3>1, <3>3, <3>4
    <3>6. QED
      BY <1>2, <3>3, <3>5
  <2>2. QED
    BY <1>1, <2>1
<1>5. \A i \in two : i >= h - 1
  <2>1. ASSUME NEW i \in two, i < h - 1 PROVE FALSE
    <3>1. i \in 1 .. b /\ i + 1 \in 1 .. b /\ i \in 1 .. h - 2 /\ buffer[i] = Break /\ buffer[i + 1] = Break
      BY <1>1, <2>1 DEF b
    <3>2. e[i] = Break /\ e[i + 1] = Break
      BY <1>1, <1>3, <3>1
    <3>3. QED
      BY <1>2, <3>1, <3>2
  <2>2. QED
    BY <1>1, <2>1
<1>6. CASE b < h
  <2>1. empty = {}
    <3>1. \A i \in empty : i \in 1 .. b /\ i >= h
      BY <1>1, <1>4
    <3> HIDE DEF empty
    <3>2. QED
      BY <1>1, <1>6, <3>1
  <2>2. two = {}
    BY <1>1, <1>5, <1>6 DEF b
  <2>3. Reading = [kind |-> "more"]
    BY <2>1, <2>2 DEF Reading, framedReader, tryReadBufferedFrame
  <2>4. QED
    BY <1>1, <1>6, <2>3 DEF b, h
<1>7. CASE b >= h
  <2>1. buffer[h] = Break /\ buffer[h - 1] = Break /\ h \in 1 .. b /\ h - 1 \in 1 .. b - 1 /\ (h - 1) + 1 = h
    <3>1. h \in 1 .. b /\ h - 1 \in 1 .. b /\ h - 1 \in 1 .. b - 1 /\ h <= h /\ h - 1 <= h /\ (h - 1) + 1 = h
      BY <1>1, <1>7
    <3>2. buffer[h] = e[h] /\ buffer[h - 1] = e[h - 1]
      BY <1>3, <3>1
    <3>3. QED
      BY <1>2, <3>1, <3>2
  <2>2. empty # {} /\ Min(empty) = h
    <3>1. h \in empty
      BY <1>1, <2>1
    <3>2. empty \in SUBSET Nat
      BY <1>1
    <3>3. h \in Nat
      BY <1>1
    <3> HIDE DEF empty
    <3> DEFINE m == Min(empty)
    <3>4. m \in empty /\ m <= h
      BY <3>1, <3>2, MinIs
    <3> HIDE DEF m
    <3>5. m \in Nat /\ m >= h
      BY <1>4, <3>2, <3>4
    <3>6. m = h
      BY <3>3, <3>4, <3>5
    <3>7. QED
      BY <3>1, <3>3, <3>6 DEF m
  <2>3. two # {} /\ Min(two) + 1 = h
    <3>1. h - 1 \in two
      BY <1>1, <2>1 DEF b
    <3>2. two \in SUBSET Nat
      BY <1>1 DEF b
    <3>3. h \in Nat
      BY <1>1
    <3> HIDE DEF two
    <3> DEFINE m == Min(two)
    <3>4. m \in two /\ m <= h - 1
      BY <3>1, <3>2, MinIs
    <3> HIDE DEF m
    <3>5. m \in Nat /\ m >= h - 1
      BY <1>5, <3>2, <3>4
    <3>6. m = h - 1
      BY <3>3, <3>4, <3>5
    <3>7. QED
      BY <3>1, <3>3, <3>6 DEF m
  <2> DEFINE cut == IF Len(buffer) - h < n THEN [kind |-> "more"]
                    ELSE [kind |-> "frame", body |-> SubSeq(buffer, h + 1, h + n),
                          rest |-> SubSeq(buffer, h + n + 1, Len(buffer))]
  <2>4. \A i \in 1 .. h : IsLength(buffer[i]) <=> frame.header # "without" /\ i = at
    BY <1>1, <1>2, <1>3, <1>7
  <2>5. lengths = IF frame.header = "without" THEN {} ELSE {at}
    BY <1>1, <2>4
  <2>6. frame.header # "without" => buffer[at][2] = n
    BY <1>1, <1>2, <1>3, <1>7 DEF Length
  <2>7. Cut(h, Max) = (IF frame.header = "without" THEN [kind |-> "error"] ELSE cut)
        /\ Cut(h, Min) = (IF frame.header = "without" THEN [kind |-> "error"] ELSE cut)
    <3>1. Min({at}) = at /\ Max({at}) = at
      <4>1. at \in Int
        BY <1>1
      <4>2. QED
        BY <4>1, OnlyOne
    <3>2. QED
      BY <2>5, <2>6, <3>1 DEF Cut
  <2>8. Reading = IF frame.header = "without" THEN [kind |-> "error"] ELSE cut
    <3>1. CASE transport = "pipe"
      BY <2>2, <2>7, <3>1 DEF Reading, framedReader
    <3>2. CASE transport = "websocket"
      BY <2>3, <2>7, <3>2 DEF Reading, tryReadBufferedFrame
    <3>3. QED
      BY <3>1, <3>2
  <2>9. QED
    BY <1>1, <1>7, <2>8 DEF b, h, n
<1>8. QED
  BY <1>1, <1>6, <1>7

(* What the runtime writes, and where each frame ends in it.               *)
Written(s) == FlattenSeq([i \in DOMAIN s |-> Encoded(s[i])])

LaidOut(off, s) ==
  /\ off \in [0 .. Len(s) -> Nat] /\ off[0] = 0 /\ off[Len(s)] = Len(Written(s))
  /\ \A k \in 1 .. Len(s) :
       /\ off[k] = off[k - 1] + Len(Encoded(s[k])) /\ off[k] <= Len(Written(s))
       /\ \A j \in 1 .. Len(Encoded(s[k])) : Written(s)[off[k - 1] + j] = Encoded(s[k])[j]

Ends(s) == CHOOSE off : LaidOut(off, s)

(* There are such ends.                                                    *)
LEMMA WrittenIs ==
  ASSUME NEW s \in Seq(Frame)
  PROVE  Written(s) \in Seq(Token) /\ LaidOut(Ends(s), s)
<1> DEFINE E == [i \in DOMAIN s |-> Encoded(s[i])]
<1>1. DOMAIN s = 1 .. Len(s) /\ Len(s) \in Nat /\ \A i \in 1 .. Len(s) : s[i] \in Frame
  BY ElementOfSeq
<1>2. \A i \in 1 .. Len(s) : Encoded(s[i]) \in Seq(Token)
  BY <1>1, EncodedIs
<1>3. E \in Seq(Seq(Token)) /\ Len(E) = Len(s) /\ \A i \in 1 .. Len(s) : E[i] = Encoded(s[i])
  BY <1>1, <1>2
<1>4. Written(s) = FlattenSeq(E)
  BY DEF Written
<1> HIDE DEF E
<1>5. /\ Written(s) \in Seq(Token)
      /\ \E off \in [0 .. Len(E) -> Nat] :
           /\ off[0] = 0 /\ off[Len(E)] = Len(Written(s))
           /\ \A k \in 1 .. Len(E) :
                /\ off[k] = off[k - 1] + Len(E[k]) /\ off[k] <= Len(Written(s))
                /\ \A j \in 1 .. Len(E[k]) : Written(s)[off[k - 1] + j] = E[k][j]
  BY <1>3, <1>4, FlattenLayout
<1>6. \E off : LaidOut(off, s)
  <2>1. PICK off \in [0 .. Len(E) -> Nat] :
          /\ off[0] = 0 /\ off[Len(E)] = Len(Written(s))
          /\ \A k \in 1 .. Len(E) :
               /\ off[k] = off[k - 1] + Len(E[k]) /\ off[k] <= Len(Written(s))
               /\ \A j \in 1 .. Len(E[k]) : Written(s)[off[k - 1] + j] = E[k][j]
    BY <1>5
  <2>2. off \in [0 .. Len(s) -> Nat] /\ off[Len(s)] = Len(Written(s))
    BY <1>3, <2>1
  <2>3. ASSUME NEW k \in 1 .. Len(s)
        PROVE  /\ off[k] = off[k - 1] + Len(Encoded(s[k])) /\ off[k] <= Len(Written(s))
               /\ \A j \in 1 .. Len(Encoded(s[k])) : Written(s)[off[k - 1] + j] = Encoded(s[k])[j]
    <3>1. k \in 1 .. Len(E) /\ E[k] = Encoded(s[k])
      BY <1>3
    <3>2. QED
      BY <2>1, <3>1
  <2>4. LaidOut(off, s)
    BY <2>1, <2>2, <2>3 DEF LaidOut
  <2>5. QED
    BY <2>4
<1>7. QED
  BY <1>5, <1>6 DEF Ends

-----------------------------------------------------------------------------
(* The bodies read are those of the first frames, none without a length;   *)
(* the buffer and then the wire have the rest of what was written.         *)
ReadInv ==
  LET at == Ends(sent)[Len(frames)] IN
  /\ transport \in {"pipe", "websocket"} /\ reader \in {"reading", "failed", "ended"}
  /\ sent \in Seq(Frame) /\ frames \in Seq(Seq(Token)) /\ Len(frames) <= Len(sent)
  /\ \A k \in 1 .. Len(frames) : frames[k] = sent[k].body /\ sent[k].header # "without"
  /\ buffer \in Seq(Token) /\ wire \in Seq(Token)
  /\ at + Len(buffer) + Len(wire) = Len(Written(sent))
  /\ \A i \in 1 .. Len(buffer) : buffer[i] = Written(sent)[at + i]
  /\ \A i \in 1 .. Len(wire) : wire[i] = Written(sent)[at + Len(buffer) + i]
  /\ reader = "failed" => Len(frames) < Len(sent) /\ sent[Len(frames) + 1].header = "without"
  /\ reader = "ended" => Len(frames) = Len(sent)

(* Nothing has been delivered.                                             *)
LEMMA ReadInit == FramesInit => ReadInv
<1> SUFFICES ASSUME FramesInit PROVE ReadInv
  OBVIOUS
<1>1. PICK n \in 0 .. MaxFrames : sent \in [1 .. n -> [header : Headers, body : Bodies]]
  BY DEF FramesInit, Headers
<1>2. sent \in Seq(Frame) /\ Len(sent) \in Nat
  <2>1. n \in Nat /\ Bodies \subseteq Seq(Token)
    BY FramesAssumption DEF FramesAssumption
  <2>2. [header : Headers, body : Bodies] \subseteq Frame
    BY <2>1 DEF Frame
  <2>3. sent \in [1 .. n -> Frame]
    BY <1>1, <2>2
  <2>4. QED
    BY <2>1, <2>3
<1>3. wire = Written(sent) /\ buffer = <<>> /\ frames = <<>> /\ reader = "reading" /\ transport \in {"pipe", "websocket"}
  BY DEF FramesInit, Written
<1>4. Written(sent) \in Seq(Token) /\ Ends(sent)[0] = 0
  BY <1>2, WrittenIs DEF LaidOut
<1>5. QED
  BY <1>2, <1>3, <1>4 DEF ReadInv

(* What the read loop is at: the next frame, or the end.                   *)
LEMMA NextReading ==
  ASSUME ReadInv
  PROVE  LET c == Len(frames)
             frame == sent[c + 1]
             h == HeaderEnd(frame)
             n == Len(frame.body)
         IN  /\ c = Len(sent) => Reading = [kind |-> "more"]
             /\ c < Len(sent) =>
                  /\ frame \in Frame /\ n \in Nat /\ h \in {3, 5}
                  /\ Ends(sent)[c] \in Nat /\ Ends(sent)[c + 1] = Ends(sent)[c] + h + n
                  /\ h + n <= Len(buffer) + Len(wire)
                  /\ \A j \in 1 .. n : h + j <= Len(buffer) => buffer[h + j] = frame.body[j]
                  /\ Len(buffer) < h => Reading = [kind |-> "more"]
                  /\ Len(buffer) >= h /\ frame.header = "without" => Reading = [kind |-> "error"]
                  /\ Len(buffer) >= h /\ frame.header # "without" =>
                       Reading = IF Len(buffer) - h < n THEN [kind |-> "more"]
                                 ELSE [kind |-> "frame", body |-> SubSeq(buffer, h + 1, h + n),
                                       rest |-> SubSeq(buffer, h + n + 1, Len(buffer))]
<1> DEFINE c == Len(frames)
           off == Ends(sent)
           all == Written(sent)
<1>1. /\ sent \in Seq(Frame) /\ Len(sent) \in Nat /\ c \in 0 .. Len(sent)
      /\ buffer \in Seq(Token) /\ Len(buffer) \in Nat /\ Len(wire) \in Nat /\ transport \in {"pipe", "websocket"}
      /\ off[c] + Len(buffer) + Len(wire) = Len(all)
      /\ \A i \in 1 .. Len(buffer) : buffer[i] = all[off[c] + i]
  BY DEF ReadInv
<1>2. LaidOut(off, sent)
  BY <1>1, WrittenIs
<1>3. off[c] \in Nat /\ off[Len(sent)] = Len(all)
  BY <1>1, <1>2 DEF LaidOut
<1> HIDE DEF off, all, c
<1>4. CASE c = Len(sent)
  <2>1. buffer = <<>>
    BY <1>1, <1>3, <1>4
  <2>2. Reading = [kind |-> "more"]
    BY <1>1, <2>1 DEF Reading, framedReader, tryReadBufferedFrame
  <2>3. QED
    BY <1>4, <2>2 DEF c
<1>5. CASE c < Len(sent)
  <2> DEFINE k == c + 1
             frame == sent[k]
             h == HeaderEnd(frame)
             n == Len(frame.body)
             e == Encoded(frame)
  <2>1. k \in 1 .. Len(sent) /\ k - 1 = c
    BY <1>1, <1>5
  <2>2. frame \in Frame
    BY <1>1, <2>1, ElementOfSeq
  <2>3. n \in Nat /\ h \in {3, 5}
    BY <2>2 DEF Frame, HeaderEnd
  <2>4. Len(e) = h + n /\ \A j \in 1 .. n : e[h + j] = frame.body[j]
    BY <2>2, EncodedIs
  <2>5. /\ off[k] = off[c] + Len(e) /\ off[k] <= Len(all)
        /\ \A j \in 1 .. Len(e) : all[off[c] + j] = e[j]
    <3>1. /\ off[k] = off[k - 1] + Len(Encoded(sent[k])) /\ off[k] <= Len(all)
          /\ \A j \in 1 .. Len(Encoded(sent[k])) : all[off[k - 1] + j] = Encoded(sent[k])[j]
      BY <1>2, <2>1 DEF LaidOut, all
    <3>2. QED
      BY <2>1, <3>1
  <2> HIDE DEF k, frame, h, n, e
  <2>6. h + n <= Len(buffer) + Len(wire) /\ off[k] = off[c] + h + n
    <3>1. off[k] = off[c] + (h + n) /\ off[k] <= off[c] + Len(buffer) + Len(wire) /\ off[c] \in Nat
      BY <1>1, <1>3, <2>4, <2>5
    <3>2. Len(buffer) \in Nat /\ Len(wire) \in Nat /\ n \in Nat /\ h \in {3, 5}
      BY <1>1, <2>3
    <3> DEFINE l == off[c]
               l1 == off[k]
               b == Len(buffer)
               w == Len(wire)
    <3>3. l1 = l + (h + n) /\ l1 <= l + b + w /\ l \in Nat /\ b \in Nat /\ w \in Nat
      BY <3>1, <3>2
    <3> HIDE DEF l, l1, b, w
    <3>4. h + n <= b + w /\ l1 = l + h + n
      BY <3>2, <3>3
    <3>5. QED
      BY <3>4 DEF l, l1, b, w
  <2>7. \A i \in 1 .. Len(buffer) : i <= Len(e) => buffer[i] = e[i]
    BY <1>1, <2>3, <2>4, <2>5
  <2>8. \A j \in 1 .. n : h + j <= Len(buffer) => buffer[h + j] = frame.body[j]
    BY <1>1, <2>3, <2>4, <2>7
  <2>9. /\ Len(buffer) < h => Reading = [kind |-> "more"]
        /\ Len(buffer) >= h /\ frame.header = "without" => Reading = [kind |-> "error"]
        /\ Len(buffer) >= h /\ frame.header # "without" =>
             Reading = IF Len(buffer) - h < n THEN [kind |-> "more"]
                       ELSE [kind |-> "frame", body |-> SubSeq(buffer, h + 1, h + n),
                             rest |-> SubSeq(buffer, h + n + 1, Len(buffer))]
    BY <1>1, <2>2, <2>7, ReadingIs DEF h, n, e
  <2>10. QED
    BY <1>3, <1>5, <2>2, <2>3, <2>6, <2>8, <2>9 DEF c, k, frame, h, n, off
<1>6. QED
  BY <1>1, <1>4, <1>5 DEF c

(* Each step: a frame is taken off the head of the buffer, the wire moves  *)
(* up behind it, and a reader that stops has seen why.                     *)
LEMMA ReadStep == ReadInv /\ [FramesNext]_framesVars => ReadInv'
<1> SUFFICES ASSUME ReadInv, [FramesNext]_framesVars PROVE ReadInv'
  OBVIOUS
<1> DEFINE c == Len(frames)
           off == Ends(sent)
           all == Written(sent)
           frame == sent[c + 1]
           h == HeaderEnd(frame)
           n == Len(frame.body)
           b == Len(buffer)
           w == Len(wire)
<1>1. /\ sent \in Seq(Frame) /\ Len(sent) \in Nat /\ c \in 0 .. Len(sent) /\ frames \in Seq(Seq(Token))
      /\ \A k \in 1 .. c : frames[k] = sent[k].body /\ sent[k].header # "without"
      /\ buffer \in Seq(Token) /\ wire \in Seq(Token) /\ b \in Nat /\ w \in Nat
      /\ off[c] + b + w = Len(all)
      /\ \A i \in 1 .. b : buffer[i] = all[off[c] + i]
      /\ \A i \in 1 .. w : wire[i] = all[off[c] + b + i]
  BY DEF ReadInv
<1>2. c = Len(sent) => Reading = [kind |-> "more"]
  BY NextReading
<1>3. c < Len(sent) =>
        /\ frame \in Frame /\ n \in Nat /\ h \in {3, 5}
        /\ off[c] \in Nat /\ off[c + 1] = off[c] + h + n
        /\ h + n <= b + w
        /\ \A j \in 1 .. n : h + j <= b => buffer[h + j] = frame.body[j]
        /\ b < h => Reading = [kind |-> "more"]
        /\ b >= h /\ frame.header = "without" => Reading = [kind |-> "error"]
        /\ b >= h /\ frame.header # "without" =>
             Reading = IF b - h < n THEN [kind |-> "more"]
                       ELSE [kind |-> "frame", body |-> SubSeq(buffer, h + 1, h + n),
                             rest |-> SubSeq(buffer, h + n + 1, b)]
  BY NextReading
<1>4. c = Len(sent) \/ c < Len(sent)
  BY <1>1
<1> HIDE DEF c, off, all, frame, h, n, b, w
<1>5. ASSUME ReadFrame PROVE ReadInv'
  <2>1. Reading.kind = "frame" /\ frames' = Append(frames, Reading.body) /\ buffer' = Reading.rest
        /\ UNCHANGED <<transport, sent, wire, reader>> /\ reader = "reading"
    BY <1>5 DEF ReadFrame
  <2>2. c < Len(sent)
    BY <1>2, <1>4, <2>1
  <2>3. b >= h /\ frame.header # "without" /\ b - h >= n
    <3>1. b >= h
      BY <1>1, <1>3, <2>1, <2>2, SMTT(30)
    <3>2. frame.header # "without"
      BY <1>3, <2>1, <2>2, <3>1
    <3>3. ~(b - h < n)
      BY <1>3, <2>1, <2>2, <3>1, <3>2
    <3>4. QED
      BY <1>1, <1>3, <2>2, <3>1, <3>2, <3>3, SMTT(30)
  <2>4. Reading.body = SubSeq(buffer, h + 1, h + n) /\ Reading.rest = SubSeq(buffer, h + n + 1, b)
    <3>1. ~(b - h < n)
      BY <1>1, <1>3, <2>2, <2>3, SMTT(30)
    <3>2. QED
      BY <1>3, <2>2, <2>3, <3>1
  <2>5. n \in Nat /\ h \in {3, 5} /\ b \in Nat /\ h + n <= b
    BY <1>1, <1>3, <2>2, <2>3, SMTT(30)
  <2>6. Reading.body = frame.body
    <3>1. frame.body \in Seq(Token) /\ Len(frame.body) = n
      BY <1>3, <2>2 DEF Frame, n
    <3> DEFINE body == SubSeq(buffer, h + 1, h + n)
    <3>2. body \in Seq(Token) /\ Len(body) = n /\ \A j \in 1 .. n : body[j] = buffer[h + j]
      BY <1>1, <2>5 DEF b
    <3>3. \A j \in 1 .. n : body[j] = frame.body[j]
      BY <1>3, <2>2, <2>5, <3>2
    <3> HIDE DEF body
    <3>4. body = frame.body
      BY <3>1, <3>2, <3>3, SeqEqual
    <3>5. QED
      BY <2>4, <3>4 DEF body
  <2> DEFINE rest == SubSeq(buffer, h + n + 1, b)
  <2>7. rest \in Seq(Token) /\ Len(rest) = b - (h + n) /\ \A i \in 1 .. b - (h + n) : rest[i] = buffer[h + n + i]
    BY <1>1, <2>5 DEF b
  <2> HIDE DEF rest
  <2>8. buffer' = rest /\ wire' = wire /\ sent' = sent
    BY <2>1, <2>4 DEF rest
  <2>9. frames' \in Seq(Seq(Token)) /\ Len(frames') = c + 1
        /\ \A k \in 1 .. c + 1 : frames'[k] = IF k = c + 1 THEN frame.body ELSE frames[k]
    <3>1. frame.body \in Seq(Token)
      BY <1>3, <2>2 DEF Frame
    <3>2. frames' = Append(frames, frame.body)
      BY <2>1, <2>6
    <3>3. QED
      BY <1>1, <3>1, <3>2 DEF c
  <2>10. \A k \in 1 .. c + 1 : frames'[k] = sent[k].body /\ sent[k].header # "without"
    <3>1. \A k \in 1 .. c + 1 : k = c + 1 \/ k \in 1 .. c
      BY <1>1
    <3>2. QED
      BY <1>1, <2>3, <2>9, <3>1 DEF frame
  <2> DEFINE at == off[c]
             at1 == off[c + 1]
  <2>11. at \in Nat /\ at1 = at + h + n
    BY <1>3, <2>2
  <2>12. at + b + w = Len(all) /\ (\A i \in 1 .. b : buffer[i] = all[at + i]) /\ (\A i \in 1 .. w : wire[i] = all[at + b + i])
         /\ w \in Nat
    BY <1>1
  <2> HIDE DEF at, at1
  <2>13. at1 + Len(rest) + w = Len(all)
    <3> DEFINE l == Len(rest)
    <3>1. l = b - (h + n) /\ at1 = at + h + n /\ at \in Nat /\ w \in Nat
      BY <2>7, <2>11, <2>12
    <3> HIDE DEF l
    <3>2. at1 + l + w = at + b + w
      BY <2>5, <3>1
    <3>3. QED
      BY <2>12, <3>2 DEF l
  <2>14. \A i \in 1 .. Len(rest) : rest[i] = all[at1 + i]
    <3>1. \A i \in 1 .. b - (h + n) : h + n + i \in 1 .. b /\ at + (h + n + i) = at1 + i
      BY <2>5, <2>11
    <3>2. QED
      BY <2>7, <2>12, <3>1
  <2>15. \A i \in 1 .. w : wire[i] = all[at1 + Len(rest) + i]
    <3>1. \A i \in 1 .. w : at + b + i = at1 + Len(rest) + i
      BY <2>5, <2>7, <2>11, <2>12
    <3>2. QED
      BY <2>12, <3>1
  <2>16. Ends(sent')[Len(frames')] = at1 /\ Written(sent') = all
    BY <2>8, <2>9 DEF at1, off, all
  <2>17. Len(frames') <= Len(sent') /\ transport' \in {"pipe", "websocket"} /\ reader' = "reading"
    BY <1>1, <2>1, <2>2, <2>9 DEF ReadInv
  <2>18. QED
    BY <1>1, <2>7, <2>8, <2>9, <2>10, <2>13, <2>14, <2>15, <2>16, <2>17 DEF ReadInv, w
<1>6. ASSUME ReadFails PROVE ReadInv'
  <2>1. Reading.kind = "error" /\ reader' = "failed" /\ UNCHANGED <<transport, sent, wire, buffer, frames>>
    BY <1>6 DEF ReadFails
  <2>2. c < Len(sent)
    BY <1>2, <1>4, <2>1
  <2>3. b >= h
    BY <1>1, <1>3, <2>1, <2>2, SMTT(30)
  <2>4. frame.header = "without"
    BY <1>3, <2>1, <2>2, <2>3
  <2>5. QED
    BY <2>1, <2>2, <2>4 DEF ReadInv, c, frame
<1>7. ASSUME ReadMessage PROVE ReadInv'
  <2>1. PICK m \in 1 .. w : buffer' = buffer \o SubSeq(wire, 1, m) /\ wire' = SubSeq(wire, m + 1, w)
    BY <1>7 DEF ReadMessage, w
  <2>2. UNCHANGED <<transport, sent, frames, reader>>
    BY <1>7 DEF ReadMessage
  <2> DEFINE more == SubSeq(wire, 1, m)
             rest == SubSeq(wire, m + 1, w)
  <2>3. more \in Seq(Token) /\ Len(more) = m /\ \A i \in 1 .. m : more[i] = wire[i]
    BY <1>1 DEF w
  <2>4. rest \in Seq(Token) /\ Len(rest) = w - m /\ \A i \in 1 .. w - m : rest[i] = wire[m + i]
    BY <1>1 DEF w
  <2>5. buffer' = buffer \o more /\ wire' = rest
    BY <2>1
  <2> HIDE DEF more, rest
  <2>6. buffer' \in Seq(Token) /\ Len(buffer') = b + m
        /\ \A i \in 1 .. b + m : buffer'[i] = IF i <= b THEN buffer[i] ELSE more[i - b]
    <3>1. /\ buffer \o more \in Seq(Token) /\ Len(buffer \o more) = Len(buffer) + Len(more)
          /\ \A i \in 1 .. Len(buffer) + Len(more) : (buffer \o more)[i] =
                IF i <= Len(buffer) THEN buffer[i] ELSE more[i - Len(buffer)]
      <4>1. buffer \in Seq(Token) /\ more \in Seq(Token)
        BY <1>1, <2>3
      <4>2. QED
        BY <4>1, ConcatProperties
    <3>2. QED
      BY <2>3, <2>5, <3>1 DEF b
  <2> DEFINE at == off[c]
  <2>7. at \in Nat
    <3>1. LaidOut(off, sent)
      BY <1>1, WrittenIs DEF off
    <3>2. QED
      BY <1>1, <3>1 DEF LaidOut
  <2>8. at + b + w = Len(all) /\ (\A i \in 1 .. b : buffer[i] = all[at + i]) /\ (\A i \in 1 .. w : wire[i] = all[at + b + i])
        /\ w \in Nat /\ b \in Nat /\ m \in 1 .. w
    BY <1>1
  <2> HIDE DEF at
  <2>9. at + Len(buffer') + Len(wire') = Len(all)
    <3>1. Len(buffer') = b + m /\ Len(wire') = w - m
      BY <2>4, <2>5, <2>6
    <3>2. w \in Nat /\ b \in Nat /\ m \in 1 .. w
      BY <2>8
    <3>3. at + (b + m) + (w - m) = at + b + w
      BY <2>7, <3>2
    <3>4. QED
      BY <2>8, <3>1, <3>3
  <2>10. \A i \in 1 .. b + m : buffer'[i] = all[at + i]
    <3> SUFFICES ASSUME NEW i \in 1 .. b + m PROVE buffer'[i] = all[at + i]
      OBVIOUS
    <3>1. CASE i <= b
      BY <2>6, <2>8, <3>1
    <3>2. CASE i > b
      <4>1. i - b \in 1 .. m /\ i - b \in 1 .. w /\ at + b + (i - b) = at + i
        BY <2>7, <2>8, <3>2
      <4>2. buffer'[i] = wire[i - b]
        BY <2>3, <2>6, <2>8, <3>2, <4>1
      <4>3. QED
        BY <2>8, <4>1, <4>2
    <3>3. QED
      BY <2>8, <3>1, <3>2
  <2>11. \A i \in 1 .. w - m : wire'[i] = all[at + Len(buffer') + i]
    <3>1. \A i \in 1 .. w - m : m + i \in 1 .. w /\ at + b + (m + i) = at + Len(buffer') + i
      BY <2>6, <2>7, <2>8
    <3>2. QED
      BY <2>4, <2>5, <2>8, <3>1
  <2>12. Ends(sent')[Len(frames')] = at /\ Written(sent') = all
    BY <2>2 DEF at, off, all, c
  <2>13. QED
    BY <2>2, <2>4, <2>5, <2>6, <2>9, <2>10, <2>11, <2>12 DEF ReadInv
<1>8. ASSUME ReadEnds PROVE ReadInv'
  <2>1. Reading.kind = "more" /\ wire = <<>> /\ reader' = "ended" /\ UNCHANGED <<transport, sent, wire, buffer, frames>>
    BY <1>8 DEF ReadEnds
  <2>2. ASSUME c < Len(sent) PROVE FALSE
    <3>1. w = 0
      BY <2>1 DEF w
    <3>2. b >= h /\ b - h >= n
      BY <1>1, <1>3, <2>2, <3>1
    <3>3. ~(b - h < n)
      BY <1>1, <1>3, <2>2, <3>2, SMTT(30)
    <3>4. Reading.kind # "more"
      BY <1>3, <2>2, <3>2, <3>3
    <3>5. QED
      BY <2>1, <3>4
  <2>3. c = Len(sent)
    BY <1>4, <2>2
  <2>4. QED
    BY <2>1, <2>3 DEF ReadInv, c
<1>9. CASE UNCHANGED framesVars
  BY <1>9 DEF ReadInv, framesVars
<1>10. QED
  BY <1>5, <1>6, <1>7, <1>8, <1>9 DEF FramesNext

(* The bodies read, as far as the first frame without a length             *)
(* (transport.go 511-580).                                                 *)
THEOREM FramesTheorem == FramesSpec => []FramesAsSent
<1>1. ASSUME ReadInv PROVE FramesAsSent
  <2> DEFINE D == {k \in 1 .. Len(sent) : sent[k].header = "without"}
             wrong == SelectInSeq(sent, LAMBDA f : f.header = "without")
             last == IF wrong = 0 THEN Len(sent) ELSE wrong - 1
             good == [i \in 1 .. last |-> sent[i].body]
             c == Len(frames)
  <2>1. /\ sent \in Seq(Frame) /\ Len(sent) \in Nat /\ c \in 0 .. Len(sent) /\ frames \in Seq(Seq(Token))
        /\ \A k \in 1 .. c : frames[k] = sent[k].body /\ sent[k].header # "without"
        /\ reader \in {"reading", "failed", "ended"}
        /\ reader = "failed" => c < Len(sent) /\ sent[c + 1].header = "without"
        /\ reader = "ended" => c = Len(sent)
    BY <1>1 DEF ReadInv
  <2>2. wrong = IF D # {} THEN Min(D) ELSE 0
    BY DEF SelectInSeq
  <2>3. D # {} => wrong \in D /\ \A k \in D : wrong <= k
    <3>1. D \in SUBSET Nat
      BY <2>1
    <3> HIDE DEF D, wrong
    <3>2. QED
      BY <2>2, <3>1, MinIs
  <2>4. wrong \in 0 .. Len(sent) /\ (wrong = 0 <=> D = {})
    <3>1. CASE D = {}
      BY <2>1, <2>2, <3>1
    <3>2. CASE D # {}
      <4> HIDE DEF wrong
      <4>1. QED
        BY <2>1, <2>3, <3>2
    <3>3. QED
      BY <3>1, <3>2
  <2> HIDE DEF wrong, c
  <2>5. last \in Nat /\ last <= Len(sent)
    BY <2>1, <2>4
  <2>6. c <= last
    <3>1. wrong # 0 => c < wrong
      <4>1. wrong # 0 => sent[wrong].header = "without" /\ wrong \in 1 .. Len(sent)
        BY <2>3, <2>4
      <4>2. QED
        BY <2>1, <2>4, <4>1
    <3>2. QED
      BY <2>1, <2>4, <3>1
  <2>7. reader = "failed" => wrong = c + 1
    <3>1. reader = "failed" => c + 1 \in D
      BY <2>1
    <3>2. reader = "failed" => wrong # 0 /\ wrong <= c + 1
      BY <2>3, <2>4, <3>1
    <3>3. QED
      BY <2>1, <2>4, <2>6, <3>2
  <2>8. reader = "ended" => wrong = 0
    <3>1. reader = "ended" => last >= Len(sent)
      BY <2>1, <2>6
    <3>2. QED
      BY <2>1, <2>4, <3>1
  <2>9. reader # "reading" => c = last /\ (reader = "failed" <=> wrong > 0)
    BY <2>1, <2>4, <2>7, <2>8
  <2>10. good \in Seq(Seq(Token)) /\ Len(good) = last /\ \A i \in 1 .. last : good[i] = sent[i].body
    <3>1. \A i \in 1 .. Len(sent) : sent[i] \in Frame
      BY <2>1, ElementOfSeq
    <3> HIDE DEF last
    <3>2. \A i \in 1 .. last : i \in 1 .. Len(sent)
      BY <2>1, <2>5
    <3>3. \A i \in 1 .. last : sent[i].body \in Seq(Token)
      BY <3>1, <3>2 DEF Frame
    <3>4. QED
      BY <2>5, <3>3
  <2> HIDE DEF last, good
  <2>11. \A i \in 1 .. c : i \in 1 .. last /\ frames[i] = good[i]
    <3>1. \A i \in 1 .. c : i \in 1 .. last
      BY <2>1, <2>5, <2>6
    <3>2. \A i \in 1 .. c : frames[i] = sent[i].body
      BY <2>1
    <3>3. QED
      BY <2>10, <3>1, <3>2
  <2>12. IsPrefix(frames, good)
    <3>1. SubSeq(frames, 1, c) \in Seq(Seq(Token)) /\ Len(SubSeq(frames, 1, c)) = c
          /\ \A i \in 1 .. c : SubSeq(frames, 1, c)[i] = frames[i]
      BY <2>1 DEF c
    <3>2. SubSeq(good, 1, c) \in Seq(Seq(Token)) /\ Len(SubSeq(good, 1, c)) = c
          /\ \A i \in 1 .. c : SubSeq(good, 1, c)[i] = good[i]
      BY <2>1, <2>5, <2>6, <2>10
    <3>3. SubSeq(frames, 1, c) = SubSeq(good, 1, c)
      BY <2>11, <3>1, <3>2, SeqEqual
    <3>4. QED
      BY <2>6, <2>10, <3>3 DEF IsPrefix, c
  <2>13. c = last => frames = good
    <3>1. c = Len(frames)
      BY DEF c
    <3>2. QED
      BY <2>1, <2>10, <2>11, <3>1, SeqEqual, ZenonT(60)
  <2>14. QED
    BY <2>9, <2>12, <2>13 DEF FramesAsSent, wrong, last, good
<1>2. QED
  BY <1>1, ReadInit, ReadStep, PTL DEF FramesSpec
=============================================================================
