---------------------------- MODULE IpcSession ----------------------------
(***************************************************************************)
(* internal/service/service.go, the IPC backend: chat requests share one   *)
(* lazily dialled connection and, in reuse mode, one session.  Each        *)
(* request is generateWithReconnect: generateLocked, and once more on a    *)
(* fresh connection when the first try failed with a recoverable error.    *)
(*                                                                         *)
(* Service.mu is held across dialling with "initialize" and across         *)
(* "session/new"; every other critical section is one step.  Connections   *)
(* and sessions are numbered as they are made, 0 is nil or "".             *)
(***************************************************************************)
EXTENDS Integers, Sequences, FiniteSets

CONSTANTS
  Requests,         \* goroutines in generateWithReconnect
  Models,           \* models a request may ask for
  Configs,          \* configurations and loads, see Config
  MaxConns,         \* bound on the connections dialled
  NoModel, Free     \* no model remembered, nobody holds Service.mu

(* cfg.SessionMode; the requests the HTTP gate lets in at once; a bound on *)
(* those that come at all.                                                 *)
Config == [mode : {"auto", "fresh", "reuse"}, atOnce : Nat \ {0}, load : Nat]

ASSUME SessionAssumption ==
  /\ IsFiniteSet(Requests)
  /\ Configs \subseteq Config
  /\ MaxConns \in Nat
  /\ NoModel \notin Models /\ Free \notin Requests

VARIABLES
  config,             \* fixed when the proxy starts
  pc, attempt, round, \* where a request is, which try, which prompt of the try
  my, sid, want,      \* its connection, its session, its model
  got, spoke,         \* text in this round, what the first try has forwarded to the client
  err,                \* the error this try returns
  mu,                 \* Service.mu
  client,             \* Service.client
  sticky, stickyModel,\* Service.stickySessionID, stickyModelID
  conn,               \* each connection: "open", "lost" by the runtime, "closed"
  sess                \* the runtime's sessions

requestVars == <<pc, attempt, round, my, sid, want, got, spoke, err>>
serviceVars == <<mu, client, sticky, stickyModel>>
vars == <<config, requestVars, serviceVars, conn, sess>>

\* Mutant: automatic mode shares a session.
AutoReuses == config.mode # "fresh"

(* resolveSessionMode: only an explicit "reuse" shares one session.        *)
Reuses == config.mode = "reuse"

Errors == {"none", "recoverable", "fatal"}
Active(r) == pc[r] \notin {"idle", "done"}

ConnStates == {"open", "lost", "closed"}
Session == [owner : Requests, conn : Nat \ {0}, model : Models \cup {NoModel}, live : BOOLEAN, deletes : 0 .. 2]

TypeRequests ==
  /\ config \in Configs
  /\ pc \in [Requests ->
       {"idle", "connect", "dialing", "initializing", "resolve", "creating", "model", "setting",
        "remember", "prompt", "listening", "invalidate", "delete", "return", "reset", "done"}]
  /\ attempt \in [Requests -> {1, 2}] /\ round \in [Requests -> {1, 2}]
  /\ want \in [Requests -> Models \cup {NoModel}]
  /\ got \in [Requests -> BOOLEAN]
  /\ spoke \in [Requests -> SUBSET {"text", "thought"}]
  /\ err \in [Requests -> Errors]
  /\ mu \in Requests \cup {Free}
  /\ stickyModel \in Models \cup {NoModel}

TypeConns ==
  /\ conn \in Seq(ConnStates)
  /\ my \in [Requests -> 0 .. Len(conn)] /\ client \in 0 .. Len(conn)

TypeSessions ==
  /\ sess \in Seq(Session)
  /\ sid \in [Requests -> 0 .. Len(sess)] /\ sticky \in 0 .. Len(sess)

TypeOK == TypeRequests /\ TypeConns /\ TypeSessions

Init ==
  /\ config \in Configs
  /\ pc = [r \in Requests |-> "idle"]
  /\ attempt = [r \in Requests |-> 1] /\ round = [r \in Requests |-> 1]
  /\ my = [r \in Requests |-> 0]
  /\ sid = [r \in Requests |-> 0]
  /\ want = [r \in Requests |-> NoModel]
  /\ got = [r \in Requests |-> FALSE]
  /\ spoke = [r \in Requests |-> {}]
  /\ err = [r \in Requests |-> "none"]
  /\ mu = Free /\ client = 0
  /\ sticky = 0 /\ stickyModel = NoModel
  /\ conn = <<>> /\ sess = <<>>

-----------------------------------------------------------------------------
Goto(r, step) == pc' = [pc EXCEPT ![r] = step]

(* generateLocked returns with error e ("none" on success) after a session *)
(* was resolved: the sticky session is given up first when forget holds,   *)
(* the deferred clean-up deletes a session that is not shared.             *)
Leave(r, e, forget) ==
  /\ err' = [err EXCEPT ![r] = e]
  /\ Goto(r, IF ~Reuses THEN "delete" ELSE IF forget THEN "invalidate" ELSE "return")

(* It returns before a session was resolved.                               *)
SetupFailed(r, e) ==
  /\ err' = [err EXCEPT ![r] = e]
  /\ Goto(r, "return")

(* A call to the runtime fails: refused, expired, or by a dead connection, *)
(* whose error text (closed, EOF, broken pipe ...) may be recoverable.     *)
CallError(c) == IF conn[c] = "open" THEN {"fatal"} ELSE {"fatal", "recoverable"}

ClearSticky == sticky' = 0 /\ stickyModel' = NoModel

\* Mutant: the connection stays open.
DropClient ==
  /\ client' = 0
  /\ ClearSticky
  /\ UNCHANGED conn

(* closeClientLocked *)
CloseClient ==
  /\ client' = 0
  /\ ClearSticky
  /\ conn' = IF client = 0 THEN conn ELSE [conn EXCEPT ![client] = "closed"]

Arrive(r) ==
  /\ pc[r] = "idle"
  /\ Cardinality({q \in Requests : Active(q)}) < config.atOnce
  /\ Cardinality({q \in Requests : pc[q] # "idle"}) < config.load
  /\ \E m \in Models : want' = [want EXCEPT ![r] = m]
  /\ Goto(r, "connect")
  /\ UNCHANGED <<config, attempt, round, my, sid, got, spoke, err, serviceVars, conn, sess>>

-----------------------------------------------------------------------------
(* ensureConnected *)

UseConnection(r) ==
  /\ pc[r] = "connect" /\ mu = Free /\ client # 0
  /\ my' = [my EXCEPT ![r] = client]
  /\ Goto(r, "resolve")
  /\ UNCHANGED <<config, attempt, round, sid, want, got, spoke, err, serviceVars, conn, sess>>

Dial(r) ==
  /\ pc[r] = "connect" /\ mu = Free /\ client = 0
  /\ mu' = r
  /\ Goto(r, "dialing")
  /\ UNCHANGED <<config, attempt, round, my, sid, want, got, spoke, err, client, sticky, stickyModel, conn, sess>>

DialFailed(r, e) ==
  /\ pc[r] = "dialing"
  /\ mu' = Free
  /\ SetupFailed(r, e)
  /\ UNCHANGED <<config, attempt, round, my, sid, want, got, spoke, client, sticky, stickyModel, conn, sess>>

Dialed(r) ==
  /\ pc[r] = "dialing" /\ Len(conn) < MaxConns
  /\ conn' = Append(conn, "open")
  /\ my' = [my EXCEPT ![r] = Len(conn) + 1]
  /\ Goto(r, "initializing")
  /\ UNCHANGED <<config, attempt, round, sid, want, got, spoke, err, serviceVars, sess>>

Initialized(r) ==
  /\ pc[r] = "initializing" /\ conn[my[r]] = "open"
  /\ client' = my[r]
  /\ mu' = Free
  /\ Goto(r, "resolve")
  /\ UNCHANGED <<config, attempt, round, my, sid, want, got, spoke, err, sticky, stickyModel, conn, sess>>

InitializeFailed(r, e) ==
  /\ pc[r] = "initializing" /\ e \in CallError(my[r])
  /\ conn' = [conn EXCEPT ![my[r]] = "closed"]
  /\ mu' = Free
  /\ SetupFailed(r, e)
  /\ UNCHANGED <<config, attempt, round, my, sid, want, got, spoke, client, sticky, stickyModel, sess>>

-----------------------------------------------------------------------------
(* resolveSession *)

Reusable == Reuses /\ sticky # 0

ReuseSession(r) ==
  /\ pc[r] = "resolve" /\ mu = Free /\ Reusable
  /\ sid' = [sid EXCEPT ![r] = sticky]
  /\ Goto(r, "model")
  /\ UNCHANGED <<config, attempt, round, my, want, got, spoke, err, serviceVars, conn, sess>>

CreateSession(r) ==
  /\ pc[r] = "resolve" /\ mu = Free /\ ~Reusable
  /\ mu' = r
  /\ Goto(r, "creating")
  /\ UNCHANGED <<config, attempt, round, my, sid, want, got, spoke, err, client, sticky, stickyModel, conn, sess>>

NewSession(r) == [owner |-> r, conn |-> my[r], model |-> NoModel, live |-> TRUE, deletes |-> 0]

SessionCreated(r) ==
  /\ pc[r] = "creating" /\ conn[my[r]] = "open"
  /\ sess' = Append(sess, NewSession(r))
  /\ sid' = [sid EXCEPT ![r] = Len(sess) + 1]
  /\ IF Reuses THEN sticky' = Len(sess) + 1 /\ stickyModel' = NoModel
                       ELSE UNCHANGED <<sticky, stickyModel>>
  /\ mu' = Free
  /\ Goto(r, "model")
  /\ UNCHANGED <<config, attempt, round, my, want, got, spoke, err, client, conn>>

(* The runtime may have made a session all the same; the proxy never       *)
(* learns of it, and it takes no part in what follows.                     *)
CreateFailed(r, e) ==
  /\ pc[r] = "creating" /\ e \in CallError(my[r])
  /\ mu' = Free
  /\ SetupFailed(r, e)
  /\ UNCHANGED <<config, attempt, round, my, sid, want, got, spoke, client, sticky, stickyModel, conn, sess>>

-----------------------------------------------------------------------------
(* shouldSetModel, session/set_model, rememberStickyModel *)

ModelKnown(r) == Reuses /\ sticky = sid[r] /\ stickyModel = want[r]

KeepModel(r) ==
  /\ pc[r] = "model" /\ mu = Free /\ ModelKnown(r)
  /\ Goto(r, "prompt")
  /\ UNCHANGED <<config, attempt, round, my, sid, want, got, spoke, err, serviceVars, conn, sess>>

SetModel(r) ==
  /\ pc[r] = "model" /\ (Reuses => mu = Free) /\ ~ModelKnown(r)
  /\ Goto(r, "setting")
  /\ UNCHANGED <<config, attempt, round, my, sid, want, got, spoke, err, serviceVars, conn, sess>>

ModelSet(r) ==
  /\ pc[r] = "setting" /\ conn[my[r]] = "open"
  /\ sess' = [sess EXCEPT ![sid[r]].model = want[r]]
  /\ Goto(r, "remember")
  /\ UNCHANGED <<config, attempt, round, my, sid, want, got, spoke, err, serviceVars, conn>>

\* Mutant: the sticky session is kept.
SetModelFailedKeeps(r, e) ==
  /\ pc[r] = "setting" /\ e \in CallError(my[r])
  /\ sess' \in {sess, [sess EXCEPT ![sid[r]].model = want[r]]}
  /\ Leave(r, e, FALSE)
  /\ UNCHANGED <<config, attempt, round, my, sid, want, got, spoke, serviceVars, conn>>

(* The runtime may have changed the model before the call was given up.    *)
SetModelFailed(r, e) ==
  /\ pc[r] = "setting" /\ e \in CallError(my[r])
  /\ sess' \in {sess, [sess EXCEPT ![sid[r]].model = want[r]]}
  /\ Leave(r, e, TRUE)
  /\ UNCHANGED <<config, attempt, round, my, sid, want, got, spoke, serviceVars, conn>>

\* Mutant: the model is remembered for whatever session is sticky now.
RememberAny(r) ==
  /\ pc[r] = "remember" /\ mu = Free
  /\ stickyModel' = want[r]
  /\ Goto(r, "prompt")
  /\ UNCHANGED <<config, attempt, round, my, sid, want, got, spoke, err, mu, client, sticky, conn, sess>>

Remember(r) ==
  /\ pc[r] = "remember" /\ mu = Free
  /\ stickyModel' = IF sticky = sid[r] THEN want[r] ELSE stickyModel
  /\ Goto(r, "prompt")
  /\ UNCHANGED <<config, attempt, round, my, sid, want, got, spoke, err, mu, client, sticky, conn, sess>>

-----------------------------------------------------------------------------
(* runPromptLocked.  Round 2 is applyToolEmulation's second prompt, on the *)
(* same session; whatever becomes of it, the first answer is returned.     *)

PromptSent(r) ==
  /\ pc[r] = "prompt" /\ conn[my[r]] # "closed"
  /\ got' = [got EXCEPT ![r] = FALSE]
  /\ Goto(r, "listening")
  /\ UNCHANGED <<config, attempt, round, my, sid, want, spoke, err, serviceVars, conn, sess>>

Answered(r) ==
  /\ \/ Leave(r, "none", FALSE) /\ UNCHANGED round
     \/ /\ round[r] = 1
        /\ round' = [round EXCEPT ![r] = 2]
        /\ Goto(r, "prompt")
        /\ UNCHANGED err
  /\ UNCHANGED <<config, attempt, my, sid, want, got, spoke, serviceVars, conn, sess>>

PromptFailed(r, e) ==
  /\ IF round[r] = 1 THEN Leave(r, e, TRUE) ELSE Leave(r, "none", FALSE)
  /\ UNCHANGED <<config, attempt, round, my, sid, want, got, spoke, serviceVars, conn, sess>>

PromptNotSent(r, e) ==
  /\ pc[r] = "prompt" /\ conn[my[r]] # "open"
  /\ PromptFailed(r, e)

Forward(r, output) ==
  spoke' = IF attempt[r] = 1 THEN [spoke EXCEPT ![r] = @ \cup {output}] ELSE spoke

TextChunk(r) ==
  /\ pc[r] = "listening"
  /\ got' = [got EXCEPT ![r] = TRUE]
  /\ Forward(r, "text")
  /\ UNCHANGED <<config, pc, attempt, round, my, sid, want, err, serviceVars, conn, sess>>

(* A thought goes out to the client and is no part of the answer's text.   *)
ThoughtChunk(r) ==
  /\ pc[r] = "listening"
  /\ Forward(r, "thought")
  /\ UNCHANGED <<config, pc, attempt, round, my, sid, want, got, err, serviceVars, conn, sess>>

ChatFinish(r) ==
  /\ pc[r] = "listening"
  /\ IF got[r] THEN Answered(r) ELSE PromptFailed(r, "fatal")

\* Mutant: an answer cut short is asked for again.
StreamClosedRetries(r) ==
  /\ pc[r] = "listening" /\ conn[my[r]] = "closed"
  /\ PromptFailed(r, "recoverable")

(* The notification channel closed.  What has come counts as the answer;   *)
(* with nothing, the error is one to try again after.                      *)
StreamClosed(r) ==
  /\ pc[r] = "listening" /\ conn[my[r]] = "closed"
  /\ IF got[r] THEN Answered(r) ELSE PromptFailed(r, "recoverable")

PromptExpired(r) ==
  /\ pc[r] = "listening"
  /\ PromptFailed(r, "fatal")

-----------------------------------------------------------------------------
(* The way out: invalidateStickySession, or the deferred deletion in two   *)
(* tries; then generateWithReconnect's decision.                           *)

Invalidate(r) ==
  /\ pc[r] = "invalidate" /\ mu = Free
  /\ ClearSticky
  /\ Goto(r, "return")
  /\ UNCHANGED <<config, attempt, round, my, sid, want, got, spoke, err, mu, client, conn, sess>>

Deleted(r) ==
  /\ pc[r] = "delete" /\ conn[my[r]] = "open"
  /\ sess' = [sess EXCEPT ![sid[r]].live = FALSE]
  /\ Goto(r, "return")
  /\ UNCHANGED <<config, attempt, round, my, sid, want, got, spoke, err, serviceVars, conn>>

\* Mutant: deletion is tried until it works.
DeleteFailedAgain(r) ==
  /\ pc[r] = "delete"
  /\ sess' = [sess EXCEPT ![sid[r]].deletes = @ + 1]
  /\ UNCHANGED <<config, requestVars, serviceVars, conn>>

DeleteFailed(r) ==
  /\ pc[r] = "delete"
  /\ sess' = [sess EXCEPT ![sid[r]].deletes = @ + 1]
  /\ Goto(r, IF sess[sid[r]].deletes = 0 THEN "delete" ELSE "return")
  /\ UNCHANGED <<config, attempt, round, my, sid, want, got, spoke, err, serviceVars, conn>>

\* Mutant: tries are not counted.
TryAgainAlways(r) == err[r] = "recoverable"

TryAgain(r) == err[r] = "recoverable" /\ attempt[r] = 1

Return(r) ==
  /\ pc[r] = "return"
  /\ Goto(r, IF TryAgain(r) THEN "reset" ELSE "done")
  /\ UNCHANGED <<config, attempt, round, my, sid, want, got, spoke, err, serviceVars, conn, sess>>

(* resetConnection, then the second generateLocked.                        *)
Reset(r) ==
  /\ pc[r] = "reset" /\ mu = Free
  /\ CloseClient
  /\ attempt' = [attempt EXCEPT ![r] = 2]
  /\ round' = [round EXCEPT ![r] = 1]
  /\ my' = [my EXCEPT ![r] = 0]
  /\ sid' = [sid EXCEPT ![r] = 0]
  /\ got' = [got EXCEPT ![r] = FALSE]
  /\ err' = [err EXCEPT ![r] = "none"]
  /\ Goto(r, "connect")
  /\ UNCHANGED <<config, want, spoke, mu, sess>>

-----------------------------------------------------------------------------
(* Service.Close, when the proxy is stopped or restarted.                  *)
Close ==
  /\ mu = Free /\ client # 0
  /\ CloseClient
  /\ UNCHANGED <<config, requestVars, mu, sess>>

(* The runtime goes away; the connection's read loop notices and closes.   *)
Lose(c) ==
  /\ conn[c] = "open"
  /\ conn' = [conn EXCEPT ![c] = "lost"]
  /\ UNCHANGED <<config, requestVars, serviceVars, sess>>

ReadLoopEnds(c) ==
  /\ conn[c] = "lost"
  /\ conn' = [conn EXCEPT ![c] = "closed"]
  /\ UNCHANGED <<config, requestVars, serviceVars, sess>>

-----------------------------------------------------------------------------
Lock(r) ==
  \/ UseConnection(r) \/ Dial(r) \/ ReuseSession(r) \/ CreateSession(r)
  \/ KeepModel(r) \/ SetModel(r) \/ Remember(r) \/ Invalidate(r) \/ Reset(r)

Success(r) ==
  Dialed(r) \/ Initialized(r) \/ SessionCreated(r) \/ ModelSet(r) \/ Deleted(r)

Failure(r) ==
  \/ \E e \in {"recoverable", "fatal"} :
       \/ DialFailed(r, e) \/ InitializeFailed(r, e) \/ CreateFailed(r, e)
       \/ SetModelFailed(r, e) \/ PromptNotSent(r, e)
  \/ DeleteFailed(r)

Prompting(r) ==
  \/ PromptSent(r) \/ TextChunk(r) \/ ThoughtChunk(r)
  \/ ChatFinish(r) \/ StreamClosed(r) \/ PromptExpired(r)

Stopped == (\A r \in Requests : ~Active(r)) /\ UNCHANGED vars

Next ==
  \/ \E r \in Requests : Arrive(r) \/ Lock(r) \/ Success(r) \/ Failure(r) \/ Prompting(r) \/ Return(r)
  \/ Close
  \/ \E c \in DOMAIN conn : Lose(c) \/ ReadLoopEnds(c)
  \/ Stopped

Spec == Init /\ [][Next]_vars

(***************************************************************************)
(* Fairness.  Service.mu is a mutex whose starving waiters are served in   *)
(* order.  Dialling, session/new, session/set_model and the deletion have  *)
(* deadlines of their own (the operating system's, 15 s, 15 s, 10 s).      *)
(* "initialize" and the wait for notifications only have the request's, if *)
(* one is configured.  A call on a dead connection fails.                  *)
(***************************************************************************)
Fairness ==
  /\ \A r \in Requests :
       /\ SF_vars(Lock(r))
       /\ WF_vars(Return(r) \/ PromptSent(r) \/ StreamClosed(r) \/ DeleteFailed(r))
       /\ WF_vars(\E e \in {"recoverable", "fatal"} :
            DialFailed(r, e) \/ CreateFailed(r, e) \/ SetModelFailed(r, e) \/ PromptNotSent(r, e))
       /\ WF_vars(my[r] # 0 /\ conn[my[r]] # "open" /\ \E e \in {"recoverable", "fatal"} : InitializeFailed(r, e))
  /\ \A c \in 1 .. MaxConns : WF_vars(c \in DOMAIN conn /\ ReadLoopEnds(c))

RequestDeadline == \A r \in Requests : WF_vars(InitializeFailed(r, "fatal")) /\ WF_vars(PromptExpired(r))

FairSpec == Spec /\ Fairness /\ RequestDeadline

-----------------------------------------------------------------------------
(* Action: a prompt goes out on the service's connection and names a       *)
(* session made on that same connection; a request that resolved its       *)
(* connection before somebody's reset and its session after it must not    *)
(* get through (service.go 866, 881, 1264-1324).                           *)
PromptOnOwnConnection ==
  [][\A r \in Requests : pc[r] = "prompt" /\ pc'[r] = "listening" =>
       my[r] = client /\ sess[sid[r]].conn = client]_vars

(* Action: the runtime runs a prompt with the model its request asked for, *)
(* set anew or rightly taken as set already.  In reuse mode only if the    *)
(* gate lets requests in one at a time (service.go 895-927, 1177-1199).    *)
PromptRunsWithItsModel ==
  [][(config.mode # "reuse" \/ config.atOnce = 1) => \A r \in Requests : pc[r] = "prompt" /\ pc'[r] = "listening" =>
       sess[sid[r]].model = want[r]]_vars

(* Safety: a request whose first try has forwarded text of the answer is   *)
(* never run again, so no client reads two beginnings of one answer; and   *)
(* one that has forwarded thoughts only (they are shown again then) is run *)
(* again only because the connection they came on has closed under it, not *)
(* for a finish without text, a deadline or a refused call                 *)
(* (service.go 371-383, 1337-1362, 929-945).                               *)
AnswerStartsOnce ==
  \A r \in Requests :
    /\ attempt[r] = 2 => "text" \notin spoke[r]
    /\ "thought" \in spoke[r] /\ TryAgain(r) => conn[my[r]] = "closed"

(* Safety: in auto and fresh mode nobody else deletes or prompts the       *)
(* session of a running prompt: parallel requests do not share one         *)
(* (service.go 886-893, 1221-1224).                                        *)
SessionOutlivesPrompt ==
  config.mode # "reuse" =>
    \A r \in Requests : pc[r] \in {"prompt", "listening"} =>
      sess[sid[r]].live /\ \A q \in Requests \ {r} : sid[q] # sid[r]

(* Safety: in auto and fresh mode a session its request is done with has   *)
(* been deleted, or two deletions of it failed, on every way out           *)
(* (service.go 886-893, 1398-1413).                                        *)
NoSessionLeftBehind ==
  config.mode # "reuse" =>
    \A s \in DOMAIN sess : sess[s].live =>
      LET r == sess[s].owner
      IN \/ sess[s].deletes = 2
         \/ sid[r] = s /\ pc[r] \in {"model", "setting", "remember", "prompt", "listening", "delete"}

(* Safety: a private session lives exactly as long as its request needs it *)
(* (service.go 886-893, 1221-1224, 1398-1413).                             *)
PrivateSessions == SessionOutlivesPrompt /\ NoSessionLeftBehind

(* Refinement: what requests do to the shared connection and session is    *)
(* what the service promises.                                              *)
Shared == INSTANCE StickySession WITH
  Connections <- Nat \ {0}, Sessions <- Nat \ {0}, None <- 0,
  connection <- client, session <- sticky,
  model <- IF stickyModel = NoModel THEN 0 ELSE stickyModel

SharedSpec == Shared!Spec

(* Liveness: every request is answered, for good or ill.  Without a        *)
(* request deadline it is not: an unanswered "initialize" keeps Service.mu *)
(* (service.go 1126).                                                      *)
RequestEnds == \A r \in Requests : pc[r] = "connect" ~> pc[r] = "done"
=============================================================================
