--------------------------- MODULE Desktop_proofs ---------------------------
(* Inductive invariant of Desktop and the safety theorems it gives, for    *)
(* any number of calls, settings, ports, changes and launches.             *)
EXTENDS Desktop, TLAPS

(* When the app quits, what is in memory then is in the file or is being   *)
(* written; once it goes on from there, its own write is over.             *)
QuitInv ==
  /\ process \in {"quitting", "stopping", "exited"} =>
       quitAt <= memory /\ (file >= quitAt \/ writer # "none" \/ failed)
  /\ process = "up" => writer # "quit"
  /\ process \in {"stopping", "exited"} => writer # "quit"

(* The mutex is held while the file is written, and no timer runs then.    *)
WriteInv == writer # "none" => timer = "off"

(* Whatever overlaps: the registered server is not down, those that calls  *)
(* are about to register or to shut down are others.                       *)
HeldInv ==
  /\ running => server # None
  /\ server # None => servers[server].at \notin {"none", "down"}
  /\ \A c \in Calls :
       /\ calls[c].at \in {"register", "shutdown"} =>
            calls[c].srv \notin {None, server} /\ servers[calls[c].srv].at # "none"
       /\ calls[c].at = "register" => servers[calls[c].srv].at # "down"
  /\ \A c, d \in Calls :
       c # d /\ calls[c].at \in {"register", "shutdown"} /\ calls[d].at \in {"register", "shutdown"} =>
         calls[c].srv # calls[d].srv

(* The rest is about calls made in turn.                                   *)
InTurn == process = "up" /\ ~case.overlap

Busy(c) == calls[c].at # "idle"
OneCall == \A c, d \in Calls : Busy(c) /\ Busy(d) => c = d

(* New settings are saved, or it is known that they could not be, before   *)
(* the call that brings them ends.                                         *)
SavedInv ==
  /\ \A c \in Calls : calls[c].at \in {"apply", "save"} => calls[c].cfg = cfg
  /\ saved = cfg \/ unsaved \/ \E c \in Calls : calls[c].at \in {"apply", "save"}

(* A call that starts a server found none running, and nothing changes     *)
(* that, or the settings, before it registers it.                          *)
StartInv ==
  \A c \in Calls :
    /\ calls[c].at \in {"probe", "register"} => ~running /\ calls[c].cfg = cfg
    /\ calls[c].at = "register" =>
         /\ calls[c].srv # None
         /\ servers[calls[c].srv].cfg = cfg /\ servers[calls[c].srv].at \notin {"none", "down"}
    /\ calls[c].at = "apply" => calls[c].srv = server
    /\ calls[c].at = "shutdown" => ~running

(* The running server has the settings, or a call is about to apply them   *)
(* or to stop it.                                                          *)
ServedInv ==
  running /\ server # None =>
    \/ servers[server].cfg = cfg
    \/ \E c \in Calls :
         \/ calls[c].at = "apply"
         \/ calls[c].at = "save" /\ calls[c].was
         \/ calls[c].at = "stop"

(* Unless a server failed to listen: one that listens or is about to is    *)
(* the running one, or about to be registered or shut down; and the        *)
(* running one has not been shut down.                                     *)
ListenInv ==
  (\A s \in Ids : servers[s].at # "failed") =>
    /\ \A s \in Ids : servers[s].at \in {"starting", "serving"} =>
         \/ running /\ server = s
         \/ \E c \in Calls : calls[c].at \in {"register", "shutdown"} /\ calls[c].srv = s
    /\ running => server # None /\ servers[server].at \in {"starting", "serving", "refused"}

TurnInv == OneCall /\ SavedInv /\ StartInv /\ ServedInv /\ ListenInv

IInv == TypeOK /\ ChangeScheduled /\ WriteInv /\ QuitInv /\ HeldInv /\ (InTurn => TurnInv)
-----------------------------------------------------------------------------
USE DEF proxyVars, stateVars, None, LogLine, Save

(* The steps of calls, servers and other programs, and those of the state  *)
(* file, which leave the former's variables alone.                         *)
ProxyStep ==
  \/ \E c \in Calls : CallStep(c) \/ \E step \in {"start", "stop", "update", "select"} : Begin(c, step)
  \/ ServerStep
  \/ \E p \in Ports : Stranger(p)

FileStep == Change \/ Quiet \/ Fire \/ CallbackFlush \/ CallbackEarly \/ ReadLogs \/ Written \/ WriteFails

LEMMA FileFrame == FileStep => Alive /\ UNCHANGED <<case, process, base, quitAt, proxyVars>>
BY DEF FileStep, Change, Quiet, Fire, CallbackFlush, CallbackEarly, ReadLogs, Written, WriteFails, Flush, MuFree

(* TypeOK has a part for each.                                             *)
TypeProxy ==
  /\ running \in BOOLEAN /\ server \in Ids \cup {None}
  /\ cfg \in Configs /\ saved \in Configs \cup {Torn} /\ unsaved \in BOOLEAN
  /\ servers \in [Ids -> ServerState] /\ calls \in [Calls -> CallState]
  /\ begun \in 0 .. case.calls
  /\ taken \subseteq Ports
  /\ case.calls \in Nat

TypeFile ==
  /\ memory \in 0 .. case.changes /\ file \in Torn .. case.changes
  /\ base \in 0 .. memory /\ quitAt \in 0 .. memory
  /\ timer \in {"off", "armed", "fired"} /\ quiet \in BOOLEAN
  /\ callbacks \in Nat /\ writer \in {"none", "timer", "reader", "quit"} /\ failed \in BOOLEAN
  /\ case.changes \in Nat

(* The idle record is one of the records of a call.                        *)
LEMMA IdleTyped == 1 \in Configs /\ Idle \in CallState
BY DesktopAssumption DEF DesktopAssumption, Idle, CallState, Steps

-----------------------------------------------------------------------------
(* What a step of a call does to the record of that call, and only to it.  *)
Others(c) == \A d \in Calls : d # c => calls'[d] = calls[d]

(* Move sets one record.                                                   *)
LEMMA MoveTo ==
  ASSUME TypeProxy, NEW c \in Calls, NEW r \in CallState, Move(c, r)
  PROVE  /\ calls' \in [Calls -> CallState] /\ calls'[c] = r
         /\ Others(c)
BY DEF TypeProxy, CallState, Move, Others

(* StartProxy finds a proxy running, or goes on to the probe.              *)
LEMMA StartCheckEffect ==
  ASSUME TypeProxy, NEW c \in Calls, StartCheck(c)
  PROVE  /\ calls' \in [Calls -> CallState] /\ Others(c)
         /\ calls[c].at = "start"
         /\ \/ calls'[c] = Idle
            \/ ~running /\ calls'[c].at = "probe" /\ calls'[c].cfg = cfg
         /\ UNCHANGED <<running, server, cfg, saved, unsaved, servers, begun, taken, case>>
<1>1. Idle \in CallState /\ [Idle EXCEPT !.at = "probe", !.cfg = cfg] \in CallState
  BY IdleTyped DEF CallState, TypeProxy, Steps
<1>2. LET x == [Idle EXCEPT !.at = "probe", !.cfg = cfg] IN x.at = "probe" /\ x.cfg = cfg
  BY IdleTyped DEF CallState, TypeProxy, Steps
<1> HIDE DEF CallState, Idle
<1>3. CASE running
  BY <1>1, <1>3, MoveTo DEF StartCheck, Locked, Return, Others
<1>4. CASE ~running
  BY <1>1, <1>2, <1>4, MoveTo DEF StartCheck, Locked, Others
<1>5. QED
  BY <1>3, <1>4

(* The port is taken, or a new server is to listen on it.                  *)
LEMMA StartProbeEffect ==
  ASSUME TypeProxy, NEW c \in Calls, StartProbe(c)
  PROVE  /\ calls' \in [Calls -> CallState] /\ Others(c)
         /\ calls[c].at = "probe"
         /\ \/ calls'[c] = Idle /\ servers' = servers
            \/ \E s \in Ids :
                 /\ servers[s].at = "none"
                 /\ servers' = [servers EXCEPT ![s] = [at |-> "starting", cfg |-> calls[c].cfg]]
                 /\ calls'[c].at = "register" /\ calls'[c].srv = s /\ calls'[c].cfg = calls[c].cfg
         /\ UNCHANGED <<running, server, cfg, saved, unsaved, begun, taken, case>>
<1> DEFINE Made(s) == [calls[c] EXCEPT !.at = "register", !.srv = s]
<1>1. calls[c] \in CallState
  BY DEF TypeProxy, CallState
<1>2. \A s \in Ids : Made(s) \in CallState /\ Made(s).at = "register" /\ Made(s).srv = s /\ Made(s).cfg = calls[c].cfg
  BY <1>1 DEF CallState, Steps
<1> HIDE DEF Made
<1>3. CASE Return(c) /\ UNCHANGED servers
  BY <1>3, MoveTo, IdleTyped, ZenonT(60) DEF StartProbe, At, Return, Others
<1>4. ASSUME NEW s \in Ids, servers[s].at = "none", Put(s, [at |-> "starting", cfg |-> calls[c].cfg]), Move(c, Made(s))
      PROVE  /\ servers' = [servers EXCEPT ![s] = [at |-> "starting", cfg |-> calls[c].cfg]]
             /\ calls'[c].at = "register" /\ calls'[c].srv = s /\ calls'[c].cfg = calls[c].cfg
             /\ calls' \in [Calls -> CallState] /\ Others(c)
  BY <1>2, <1>4, MoveTo DEF Put, Others
<1>5. QED
  BY <1>3, <1>4, ZenonT(60) DEF StartProbe, At, Made

(* StopProxy takes the server of a running proxy, or has nothing to stop.  *)
LEMMA StopTakeEffect ==
  ASSUME TypeProxy, NEW c \in Calls, StopTake(c)
  PROVE  /\ calls' \in [Calls -> CallState] /\ Others(c)
         /\ calls[c].at = "stop"
         /\ \/ /\ running /\ server # None
               /\ calls'[c].at = "shutdown" /\ calls'[c].srv = server
               /\ server' = None /\ running' = FALSE
            \/ /\ ~(running /\ server # None)
               /\ calls'[c].at \in {"start", "idle"}
               /\ UNCHANGED <<running, server>>
         /\ UNCHANGED <<cfg, saved, unsaved, servers, begun, taken, case>>
<1> DEFINE Taken == [calls[c] EXCEPT !.at = "shutdown", !.srv = server]
<1> DEFINE Again == [Idle EXCEPT !.at = "start"]
<1>1. calls[c] \in CallState /\ server \in Ids \cup {None}
  BY DEF TypeProxy, CallState
<1>2. Taken \in CallState /\ Taken.at = "shutdown" /\ Taken.srv = server
  BY <1>1 DEF CallState, Steps
<1>3. Again \in CallState /\ Again.at = "start" /\ Idle.at = "idle"
  BY IdleTyped DEF Steps, CallState, Idle
<1> HIDE DEF Taken, Again
<1>4. CASE running /\ server # None
  BY <1>2, <1>4, MoveTo DEF StopTake, Locked, Others, Taken
<1>5. CASE ~(running /\ server # None)
  <2>1. Move(c, Again) \/ Move(c, Idle)
    BY <1>5 DEF StopTake, Onward, Return, Again
  <2>2. QED
    BY <1>3, <1>5, <2>1, MoveTo, IdleTyped DEF StopTake, Locked, Others
<1>6. QED
  BY <1>4, <1>5

(* Only the server that the call took stops listening.                     *)
LEMMA StopListeningEffect ==
  ASSUME TypeProxy, NEW c \in Calls, StopListening(c)
  PROVE  /\ calls' \in [Calls -> CallState] /\ Others(c)
         /\ calls[c].at = "shutdown" /\ calls'[c].srv = calls[c].srv
         /\ calls'[c].at = "drain"
         /\ servers' \in [Ids -> ServerState]
         /\ \A s \in Ids :
              /\ servers'[s].cfg = servers[s].cfg
              /\ s # calls[c].srv => servers'[s].at = servers[s].at
              /\ s = calls[c].srv => servers'[s].at \notin {"starting", "serving"}
              /\ servers[s].at = "failed" => servers'[s].at = "failed"
         /\ UNCHANGED <<running, server, cfg, saved, unsaved, begun, taken, case>>
<1> DEFINE Drained == [calls[c] EXCEPT !.at = "drain"]
<1> DEFINE Down(s) == [servers[s] EXCEPT !.at = "down"]
<1>1. calls[c] \in CallState
  BY DEF TypeProxy, CallState
<1>2. Drained \in CallState /\ Drained.at = "drain" /\ Drained.srv = calls[c].srv
  BY <1>1 DEF CallState, Steps
<1>3. servers \in [Ids -> ServerState]
  BY DEF TypeProxy, ServerState
<1>4. \A s \in Ids : Down(s) \in ServerState /\ Down(s).at = "down" /\ Down(s).cfg = servers[s].cfg
  BY <1>3 DEF ServerState
<1>5. Move(c, Drained)
  BY DEF StopListening, Goto
<1>6. \/ /\ servers[calls[c].srv].at \in {"starting", "serving"}
         /\ servers' = [servers EXCEPT ![calls[c].srv] = Down(calls[c].srv)]
      \/ servers[calls[c].srv].at \notin {"starting", "serving"} /\ servers' = servers
  BY DEF StopListening, Put
<1>7. At(c, "shutdown") /\ UNCHANGED <<running, server, cfg, saved, unsaved, begun, taken, case>>
  BY DEF StopListening
<1> HIDE DEF Drained, Down
<1>8. calls' \in [Calls -> CallState] /\ Others(c) /\ calls'[c].at = "drain" /\ calls'[c].srv = calls[c].srv
  BY <1>2, <1>5, MoveTo DEF Others
<1>9. /\ servers' \in [Ids -> ServerState]
      /\ \A s \in Ids :
           /\ servers'[s].cfg = servers[s].cfg
           /\ s # calls[c].srv => servers'[s].at = servers[s].at
           /\ s = calls[c].srv => servers'[s].at \notin {"starting", "serving"}
           /\ servers[s].at = "failed" => servers'[s].at = "failed"
  BY <1>1, <1>3, <1>4, <1>6
<1>10. QED
  BY <1>1, <1>7, <1>8, <1>9 DEF At

-----------------------------------------------------------------------------
(* Calls and servers keep their types.                                     *)
LEMMA TypeProxyStep ==
  ASSUME TypeProxy, ProxyStep
  PROVE  TypeProxy'
<1> USE DEF TypeProxy, CallState, ServerState, Steps, Ids, Idle
<1>1. ASSUME NEW c \in Calls, NEW step \in {"start", "stop", "update", "select"}, Begin(c, step) PROVE TypeProxy'
  BY <1>1 DEF Begin, Goto, Move
<1>2. ASSUME NEW c \in Calls, StartCheck(c) PROVE TypeProxy'
  BY <1>2, StartCheckEffect DEF CallState
<1>3. ASSUME NEW c \in Calls, StartProbe(c) PROVE TypeProxy'
  <2>1. /\ calls' \in [Calls -> CallState]
        /\ UNCHANGED <<running, server, cfg, saved, unsaved, begun, taken, case>>
    BY <1>3, StartProbeEffect
  <2>2. servers' \in [Ids -> ServerState]
    <3>1. \A x \in Configs : [at |-> "starting", cfg |-> x] \in ServerState
      BY DEF ServerState
    <3>2. calls[c].cfg \in Configs /\ servers \in [Ids -> ServerState]
      BY DEF ServerState
    <3> HIDE DEF TypeProxy, CallState, ServerState
    <3>3. QED
      BY <1>3, <3>1, <3>2, StartProbeEffect
  <2>3. QED
    BY <2>1, <2>2 DEF CallState, ServerState
<1>4. ASSUME NEW c \in Calls, StartRegister(c) PROVE TypeProxy'
  <2>1. calls' \in [Calls -> CallState]
    BY <1>4, MoveTo, IdleTyped DEF StartRegister, Return
  <2>2. server' \in Ids \cup {None} /\ running' \in BOOLEAN
    BY <1>4 DEF StartRegister
  <2>3. UNCHANGED <<cfg, saved, unsaved, servers, begun, taken, case>>
    BY <1>4 DEF StartRegister
  <2>4. QED
    BY <2>1, <2>2, <2>3 DEF CallState
<1>5. ASSUME NEW c \in Calls, StopTake(c) PROVE TypeProxy'
  BY <1>5, StopTakeEffect DEF CallState
<1>6. ASSUME NEW c \in Calls, StopListening(c) PROVE TypeProxy'
  BY <1>6, StopListeningEffect DEF CallState, ServerState
<1>7. ASSUME NEW c \in Calls, StopReturn(c) PROVE TypeProxy'
  <2>1. [Idle EXCEPT !.at = "start"] \in CallState
    BY IdleTyped DEF CallState, Steps
  <2>2. calls' \in [Calls -> CallState]
    BY <1>7, <2>1, MoveTo, IdleTyped DEF StopReturn, Onward, Return
  <2>3. QED
    BY <1>7, <2>2 DEF StopReturn, CallState
<1>8. ASSUME NEW c \in Calls, NEW config \in Configs, UpdateConfig(c, config) PROVE TypeProxy'
  <2>1. [calls[c] EXCEPT !.at = "save", !.cfg = config, !.was = running, !.restart = running] \in CallState
    BY DEF CallState
  <2>2. calls' \in [Calls -> CallState]
    BY <1>8, <2>1, MoveTo DEF UpdateConfig
  <2>3. QED
    BY <1>8, <2>2 DEF UpdateConfig, CallState
<1>9. ASSUME NEW c \in Calls, SaveConfig(c) PROVE TypeProxy'
  <2>1. [calls[c] EXCEPT !.at = "stop"] \in CallState
    BY DEF CallState
  <2>2. calls' \in [Calls -> CallState]
    BY <1>9, <2>1, MoveTo, IdleTyped DEF SaveConfig, Goto, Return
  <2>3. calls[c].cfg \in Configs
    BY DEF CallState
  <2>4. saved' \in Configs \cup {Torn} /\ unsaved' \in BOOLEAN
    BY <1>9, <2>3 DEF SaveConfig
  <2>5. UNCHANGED <<case, running, server, cfg, servers, begun, taken>>
    BY <1>9 DEF SaveConfig
  <2>6. CallState' = CallState /\ ServerState' = ServerState /\ Ids' = Ids
    BY <2>5
  <2> HIDE DEF CallState, ServerState, Ids, Idle, Steps
  <2>7. QED
    BY <2>2, <2>4, <2>5, <2>6
<1>10. ASSUME NEW c \in Calls, NEW config \in Configs, SelectModel(c, config) PROVE TypeProxy'
  BY <1>10, ZenonT(60) DEF SelectModel, Locked, MuFree, Alive, Move
<1>11. ASSUME NEW c \in Calls, SetDefaultModel(c) PROVE TypeProxy'
  BY <1>11 DEF SetDefaultModel, At, Alive, Put, Goto, Move
<1>12. ASSUME NEW s \in Ids, Listen(s) PROVE TypeProxy'
  BY <1>12 DEF Listen, Alive, Put
<1>13. ASSUME NEW s \in Ids, ServerError(s) PROVE TypeProxy'
  BY <1>13 DEF ServerError, MuFree, Alive, Put
<1>14. ASSUME NEW p \in Ports, Stranger(p) PROVE TypeProxy'
  BY <1>14 DEF Stranger
<1> HIDE DEF TypeProxy, CallState, ServerState, Steps, Ids, Idle
<1>15. QED
  BY <1>1, <1>2, <1>3, <1>4, <1>5, <1>6, <1>7, <1>8, <1>9, <1>10, <1>11, <1>12, <1>13, <1>14
  DEF ProxyStep, CallStep, ServerStep

(* What calls and servers do to the state: nothing, a line logged, or the  *)
(* list of models forgotten by a call that goes on to shut a server down.  *)
Stopping == \E c \in Calls : calls[c].at \in {"shutdown", "drain"}

Forgotten == memory' \in {memory, Newer} /\ Stopping'

StateEffect ==
  /\ UNCHANGED <<case, process, file, base, quitAt, callbacks, writer, failed>>
  /\ \/ UNCHANGED stateVars /\ (Stopping => Stopping')
     \/ LogLine /\ writer = "none"
     \/ UNCHANGED <<timer, quiet>> /\ Forgotten

LEMMA ProxyState ==
  ASSUME TypeProxy, ProxyStep
  PROVE  StateEffect
<1> USE DEF TypeProxy, StateEffect, Stopping, Forgotten, CallState, Idle
<1>1. ASSUME NEW c \in Calls, NEW step \in {"start", "stop", "update", "select"}, Begin(c, step) PROVE StateEffect
  BY <1>1 DEF Begin, Goto, Move
<1>2. ASSUME NEW c \in Calls, StartCheck(c) PROVE StateEffect
  BY <1>2, StartCheckEffect DEF StartCheck, Others
<1>3. ASSUME NEW c \in Calls, StartProbe(c) PROVE StateEffect
  BY <1>3, StartProbeEffect, ZenonT(60) DEF StartProbe, Others
<1>4. ASSUME NEW c \in Calls, StartRegister(c) PROVE StateEffect
  BY <1>4 DEF StartRegister, Locked, MuFree, Alive, Return, Move
<1>5. ASSUME NEW c \in Calls, StopTake(c) PROVE StateEffect
  BY <1>5, StopTakeEffect, ZenonT(60) DEF StopTake, Others
<1>6. ASSUME NEW c \in Calls, StopListening(c) PROVE StateEffect
  BY <1>6 DEF StopListening, At, Alive, Goto, Move
<1>7. ASSUME NEW c \in Calls, StopReturn(c) PROVE StateEffect
  BY <1>7 DEF StopReturn, Locked, MuFree
<1>8. ASSUME NEW c \in Calls, NEW config \in Configs, UpdateConfig(c, config) PROVE StateEffect
  BY <1>8 DEF UpdateConfig, Locked, MuFree, Alive, Move
<1>9. ASSUME NEW c \in Calls, SaveConfig(c) PROVE StateEffect
  BY <1>9 DEF SaveConfig, Locked, MuFree
<1>10. ASSUME NEW c \in Calls, NEW config \in Configs, SelectModel(c, config) PROVE StateEffect
  BY <1>10 DEF SelectModel, Locked, MuFree, Alive, Move
<1>11. ASSUME NEW c \in Calls, SetDefaultModel(c) PROVE StateEffect
  BY <1>11 DEF SetDefaultModel, At, Alive, Goto, Move
<1>12. ASSUME NEW s \in Ids, Listen(s) PROVE StateEffect
  BY <1>12 DEF Listen
<1>13. ASSUME NEW s \in Ids, ServerError(s) PROVE StateEffect
  BY <1>13 DEF ServerError, MuFree
<1>14. ASSUME NEW p \in Ports, Stranger(p) PROVE StateEffect
  BY <1>14 DEF Stranger
<1> HIDE DEF TypeProxy, StateEffect, Stopping, Forgotten, CallState, Idle
<1>15. QED
  BY <1>1, <1>2, <1>3, <1>4, <1>5, <1>6, <1>7, <1>8, <1>9, <1>10, <1>11, <1>12, <1>13, <1>14
  DEF ProxyStep, CallStep, ServerStep

(* That keeps the types of the state, a write for every change, and what   *)
(* quitting has written.                                                   *)
LEMMA StateEffectKeeps ==
  ASSUME TypeFile, StateEffect
  PROVE  TypeFile' /\ (ChangeScheduled => ChangeScheduled') /\ (WriteInv => WriteInv') /\ (QuitInv => QuitInv')
<1>1. \/ UNCHANGED <<memory, timer, quiet>> /\ (Stopping => Stopping')
      \/ case.changes # 0 /\ memory' = Newer /\ quiet' = FALSE /\ timer' = "armed" /\ writer = "none"
      \/ case.changes = 0 /\ UNCHANGED <<memory, timer, quiet>>
      \/ UNCHANGED <<timer, quiet>> /\ memory' \in {memory, Newer} /\ Stopping'
  BY DEF StateEffect, Schedule, Forgotten
<1>2. Newer \in memory .. case.changes /\ memory \in 0 .. case.changes
  BY DEF TypeFile, Newer
<1>3. memory' \in memory .. case.changes /\ memory \in Nat /\ case.changes \in Nat
  BY <1>1, <1>2 DEF TypeFile
<1>4. UNCHANGED <<case, process, file, base, quitAt, callbacks, writer, failed>>
  BY DEF StateEffect
<1>5. TypeFile'
  <2>1. base' \in 0 .. memory' /\ quitAt' \in 0 .. memory' /\ memory' \in 0 .. case'.changes
    BY <1>3, <1>4 DEF TypeFile
  <2>2. timer' \in {"off", "armed", "fired"} /\ quiet' \in BOOLEAN
    BY <1>1 DEF TypeFile
  <2>3. QED
    BY <1>4, <2>1, <2>2 DEF TypeFile
<1>6. ASSUME ChangeScheduled PROVE ChangeScheduled'
  <2>1. CASE UNCHANGED <<memory, timer, quiet>> /\ (Stopping => Stopping')
    BY <1>4, <1>6, <2>1 DEF ChangeScheduled, Stopping, Alive
  <2>2. CASE timer' = "armed" \/ Stopping'
    BY <2>2 DEF ChangeScheduled, Stopping
  <2>3. CASE case.changes = 0
    BY <1>3, <1>4, <2>3 DEF ChangeScheduled, TypeFile
  <2>4. QED
    BY <1>1, <2>1, <2>2, <2>3
<1>7. ASSUME QuitInv PROVE QuitInv'
  BY <1>3, <1>4, <1>7 DEF QuitInv, TypeFile
<1>8. WriteInv => WriteInv'
  BY <1>1, <1>4 DEF WriteInv
<1>9. QED
  BY <1>5, <1>6, <1>7, <1>8

(* A flush drops the timer; it begins a write, or finds it cannot.         *)
LEMMA FlushEffect ==
  ASSUME TypeFile, NEW who \in {"timer", "reader", "quit"}, Flush(who)
  PROVE  /\ timer' = "off" /\ quiet' = TRUE /\ UNCHANGED <<case, proxyVars, memory, base>>
         /\ file' \in Torn .. case.changes /\ writer' \in {"none", "timer", "reader", "quit"} /\ failed' \in BOOLEAN
         /\ \/ writer' = who /\ failed' = failed
            \/ failed' = TRUE /\ UNCHANGED <<file, writer>>
<1>1. Torn \in Torn .. case.changes
  BY DEF TypeFile, Torn
<1>2. CASE file' = Torn /\ writer' = who /\ UNCHANGED failed
  BY <1>1, <1>2 DEF TypeFile, Flush
<1>3. CASE failed' = TRUE /\ UNCHANGED <<file, writer>>
  BY <1>3 DEF TypeFile, Flush
<1>4. QED
  BY <1>2, <1>3 DEF Flush

(* The state file keeps its types; so does the write of forceQuit.         *)
LEMMA TypeFileStep ==
  ASSUME TypeFile, FileStep \/ ForceQuit
  PROVE  TypeFile'
<1> USE DEF TypeFile, Torn
<1>1. CASE Change
  <2>1. memory' = memory + 1 /\ memory < case.changes /\ case' = case /\ file' = file /\ base' = base /\ quitAt' = quitAt
    BY <1>1 DEF Change
  <2>2. memory' \in 0 .. case'.changes /\ base' \in 0 .. memory' /\ quitAt' \in 0 .. memory'
    BY <2>1
  <2>3. QED
    BY <1>1, <2>1, <2>2 DEF Change, Schedule
<1>2. CASE Quiet
  BY <1>2 DEF Quiet
<1>3. CASE Fire
  BY <1>3 DEF Fire
<1>4. CASE CallbackFlush
  <2>1. callbacks' \in Nat /\ quitAt' = quitAt /\ Flush("timer")
    BY <1>4 DEF CallbackFlush
  <2>2. QED
    BY <2>1, FlushEffect
<1>5. CASE CallbackEarly
  BY <1>5 DEF CallbackEarly
<1>6. CASE ReadLogs
  <2>1. UNCHANGED <<quitAt, callbacks>> /\ Flush("reader")
    BY <1>6 DEF ReadLogs
  <2>2. QED
    BY <2>1, FlushEffect
<1>7. CASE Written
  <2>1. file' \in Torn .. case.changes /\ failed' = FALSE /\ writer' = "none"
    BY <1>7 DEF Written
  <2>2. UNCHANGED <<case, memory, base, quitAt, timer, quiet, callbacks>>
    BY <1>7 DEF Written
  <2>3. QED
    BY <2>1, <2>2
<1>8. CASE ForceQuit
  <2>1. quitAt' = memory /\ callbacks' = callbacks /\ Flush("quit")
    BY <1>8 DEF ForceQuit
  <2>2. quitAt' \in 0 .. memory' /\ memory' = memory
    BY <2>1 DEF Flush
  <2>3. QED
    BY <2>1, <2>2, FlushEffect
<1>9. CASE WriteFails
  BY <1>9 DEF WriteFails
<1>10. QED
  BY <1>1, <1>2, <1>3, <1>4, <1>5, <1>6, <1>7, <1>8, <1>9 DEF FileStep

(* A timer that fires leaves a callback; one that finds a change has come  *)
(* gives up, and that change has armed the timer again.                    *)
LEMMA ScheduledStep ==
  ASSUME TypeFile, WriteInv, ChangeScheduled, FileStep \/ ForceQuit
  PROVE  ChangeScheduled'
<1> USE DEF ChangeScheduled, Alive
<1>1. CASE Change
  BY <1>1 DEF Change, Schedule
<1>2. CASE Quiet
  BY <1>2 DEF Quiet
<1>3. CASE Fire
  BY <1>3 DEF Fire, TypeFile
<1>4. ASSUME NEW who \in {"timer", "reader", "quit"}, Flush(who) PROVE ChangeScheduled'
  BY <1>4, FlushEffect
<1>5. CASE CallbackFlush \/ ReadLogs \/ ForceQuit
  BY <1>4, <1>5 DEF CallbackFlush, ReadLogs, ForceQuit
<1>6. CASE CallbackEarly
  <2>1. ~(callbacks > 0 /\ quiet) /\ UNCHANGED <<case, process, memory, file, base, timer, quiet, writer, failed, calls>>
    BY <1>6 DEF CallbackEarly
  <2>2. QED
    BY <2>1
<1>7. CASE Written
  BY <1>7 DEF Written
<1>8. CASE WriteFails
  <2>1. failed' = TRUE /\ timer' = "off"
    BY <1>8 DEF WriteFails, WriteInv
  <2>2. QED
    BY <2>1
<1>9. QED
  BY <1>1, <1>2, <1>3, <1>5, <1>6, <1>7, <1>8 DEF FileStep

(* A flush drops the timer, and it is armed with the mutex only.           *)
LEMMA WriteStep == WriteInv /\ (FileStep \/ ForceQuit) => WriteInv'
BY DEF WriteInv, MuFree, FileStep, Change, Schedule, Quiet, Fire, CallbackFlush, CallbackEarly, ReadLogs, Written,
   WriteFails, Flush, ForceQuit

(* Once the app quits, a write never takes the file behind quitAt.         *)
LEMMA QuitStep == TypeFile /\ QuitInv /\ (FileStep \/ ForceQuit) => QuitInv'
BY DEF TypeFile, Torn, QuitInv, Alive, MuFree, FileStep, Change, Schedule, Quiet, Fire, CallbackFlush,
   CallbackEarly, ReadLogs, Written, WriteFails, Flush, ForceQuit

-----------------------------------------------------------------------------
(* Nothing begins while a call is under way.                               *)
LEMMA OneCallStep ==
  ASSUME ~case.overlap, TypeProxy, OneCall, ProxyStep
  PROVE  OneCall'
<1> USE DEF TypeProxy, OneCall, Busy, Idle, CallState, ServerState
<1>1. ASSUME NEW c \in Calls, NEW step \in {"start", "stop", "update", "select"}, Begin(c, step) PROVE OneCall'
  BY <1>1 DEF Begin, Goto, Move
<1>2. ASSUME NEW c \in Calls, StartCheck(c) PROVE OneCall'
  BY <1>2 DEF StartCheck, Locked, MuFree, Alive, Return, Move
<1>3. ASSUME NEW c \in Calls, StartProbe(c) PROVE OneCall'
  BY <1>3, ZenonT(60) DEF StartProbe, At, Alive, Put, Return, Move
<1>4. ASSUME NEW c \in Calls, StartRegister(c) PROVE OneCall'
  BY <1>4 DEF StartRegister, Locked, MuFree, Alive, Return, Move
<1>5. ASSUME NEW c \in Calls, StopTake(c) PROVE OneCall'
  BY <1>5 DEF StopTake, Locked, MuFree, Alive, Onward, Return, Move
<1>6. ASSUME NEW c \in Calls, StopListening(c) PROVE OneCall'
  BY <1>6 DEF StopListening, At, Alive, Put, Goto, Move
<1>7. ASSUME NEW c \in Calls, StopReturn(c) PROVE OneCall'
  BY <1>7 DEF StopReturn, Locked, MuFree, Alive, Onward, Return, Move
<1>8. ASSUME NEW c \in Calls, NEW config \in Configs, UpdateConfig(c, config) PROVE OneCall'
  BY <1>8 DEF UpdateConfig, Locked, MuFree, Alive, Move
<1>9. ASSUME NEW c \in Calls, SaveConfig(c) PROVE OneCall'
  BY <1>9 DEF SaveConfig, Locked, MuFree, Alive, Goto, Return, Move
<1>10. ASSUME NEW c \in Calls, NEW config \in Configs, SelectModel(c, config) PROVE OneCall'
  BY <1>10 DEF SelectModel, Locked, MuFree, Alive, Move
<1>11. ASSUME NEW c \in Calls, SetDefaultModel(c) PROVE OneCall'
  BY <1>11 DEF SetDefaultModel, At, Alive, Put, Goto, Move
<1>12. ASSUME NEW s \in Ids, Listen(s) PROVE OneCall'
  BY <1>12 DEF Listen, Alive, Put
<1>13. ASSUME NEW s \in Ids, ServerError(s) PROVE OneCall'
  BY <1>13 DEF ServerError, MuFree, Alive, Put
<1>14. ASSUME NEW p \in Ports, Stranger(p) PROVE OneCall'
  BY <1>14 DEF Stranger
<1> HIDE DEF TypeProxy, OneCall, Busy, Idle, CallState, ServerState
<1>15. QED
  BY <1>1, <1>2, <1>3, <1>4, <1>5, <1>6, <1>7, <1>8, <1>9, <1>10, <1>11, <1>12, <1>13, <1>14
  DEF ProxyStep, CallStep, ServerStep

(* Each call registers the server it made, and shuts down the one it took. *)
LEMMA HeldStep ==
  ASSUME TypeProxy, HeldInv, ProxyStep
  PROVE  HeldInv'
<1> USE DEF TypeProxy, HeldInv, Idle, Ids, CallState, ServerState
<1>1. ASSUME NEW c \in Calls, NEW step \in {"start", "stop", "update", "select"}, Begin(c, step) PROVE HeldInv'
  BY <1>1 DEF Begin, Goto, Move
<1>2. ASSUME NEW c \in Calls, StartCheck(c) PROVE HeldInv'
  BY <1>2, StartCheckEffect, SMTT(30) DEF Others
<1>3. ASSUME NEW c \in Calls, StartProbe(c) PROVE HeldInv'
  <2>1. Others(c) /\ UNCHANGED <<running, server, case>>
    BY <1>3, StartProbeEffect
  <2>2. CASE calls'[c] = Idle /\ servers' = servers
    <3>1. \A d \in Calls : calls'[d].at \in {"register", "shutdown"} => calls'[d] = calls[d]
      BY <2>1, <2>2 DEF Others
    <3>2. QED
      BY <2>1, <2>2, <3>1
  <2>3. ASSUME NEW s \in Ids, servers[s].at = "none", calls'[c].at = "register", calls'[c].srv = s,
               servers' = [servers EXCEPT ![s] = [at |-> "starting", cfg |-> calls[c].cfg]]
        PROVE  HeldInv'
    <3>1. servers'[s].at = "starting" /\ \A t \in Ids : t # s => servers'[t] = servers[t]
      BY <2>3
    <3>2. s # server /\ s # None
      BY <2>3
    <3>3. \A d \in Calls : calls[d].at \in {"register", "shutdown"} => calls[d].srv \in Ids /\ calls[d].srv # s
      BY <2>3
    <3>4. (running => server # None)' /\ (server # None => servers[server].at \notin {"none", "down"})'
      BY <2>1, <3>1, <3>2
    <3>5. ASSUME NEW d \in Calls, calls'[d].at \in {"register", "shutdown"}
          PROVE  /\ calls'[d].srv \notin {None, server'} /\ servers'[calls'[d].srv].at # "none"
                 /\ calls'[d].at = "register" => servers'[calls'[d].srv].at # "down"
      <4>1. CASE d = c
        BY <2>1, <2>3, <3>1, <3>2, <4>1
      <4>2. CASE d # c
        BY <2>1, <3>1, <3>3, <3>5, <4>2 DEF Others
      <4>3. QED
        BY <4>1, <4>2
    <3>6. ASSUME NEW d \in Calls, NEW e \in Calls, d # e,
                 calls'[d].at \in {"register", "shutdown"}, calls'[e].at \in {"register", "shutdown"}
          PROVE  calls'[d].srv # calls'[e].srv
      BY <2>1, <2>3, <3>3, <3>6 DEF Others
    <3>7. QED
      BY <3>4, <3>5, <3>6
  <2>4. QED
    BY <1>3, <2>2, <2>3, StartProbeEffect
<1>4. ASSUME NEW c \in Calls, StartRegister(c) PROVE HeldInv'
  BY <1>4 DEF StartRegister, Locked, MuFree, Alive, Return, Move
<1>5. ASSUME NEW c \in Calls, StopTake(c) PROVE HeldInv'
  <2>1. Others(c) /\ UNCHANGED <<servers, case>>
    BY <1>5, StopTakeEffect
  <2>2. CASE running /\ server # None /\ calls'[c].at = "shutdown" /\ calls'[c].srv = server
             /\ server' = None /\ running' = FALSE
    <3>1. \A d \in Calls : d # c /\ calls'[d].at \in {"register", "shutdown"} =>
            calls'[d].srv \notin {None, server} /\ servers[calls'[d].srv].at # "none"
      BY <2>1 DEF Others
    <3>2. servers[server].at # "none"
      BY <2>2
    <3>3. QED
      BY <2>1, <2>2, <3>1, <3>2 DEF Others
  <2>3. CASE calls'[c].at \in {"start", "idle"} /\ UNCHANGED <<running, server>>
    BY <2>1, <2>3 DEF Others
  <2>4. QED
    BY <1>5, <2>2, <2>3, StopTakeEffect
<1>6. ASSUME NEW c \in Calls, StopListening(c) PROVE HeldInv'
  <2>1. Others(c) /\ UNCHANGED <<running, server, case>> /\ calls[c].at = "shutdown" /\ calls'[c].at = "drain"
    BY <1>6, StopListeningEffect
  <2>2. /\ \A s \in Ids : s # calls[c].srv => servers'[s].at = servers[s].at
        /\ servers'[calls[c].srv].at \in {servers[calls[c].srv].at, "down"}
    <3>1. servers \in [Ids -> ServerState] /\ calls[c].srv # None
      BY <2>1
    <3>2. QED
      BY <1>6, <3>1 DEF StopListening, Put
  <2>3. calls[c].srv # server /\ \A d \in Calls : d # c /\ calls[d].at = "register" => calls[d].srv # calls[c].srv
    BY <2>1
  <2>4. QED
    BY <2>1, <2>2, <2>3 DEF Others
<1>7. ASSUME NEW c \in Calls, StopReturn(c) PROVE HeldInv'
  BY <1>7 DEF StopReturn, Locked, MuFree, Alive, Onward, Return, Move
<1>8. ASSUME NEW c \in Calls, NEW config \in Configs, UpdateConfig(c, config) PROVE HeldInv'
  BY <1>8 DEF UpdateConfig, Locked, MuFree, Alive, Move
<1>9. ASSUME NEW c \in Calls, SaveConfig(c) PROVE HeldInv'
  <2>1. UNCHANGED <<running, server, servers, case>>
    BY <1>9 DEF SaveConfig
  <2>2. calls'[c].at \in {"stop", "idle"} /\ \A d \in Calls : d # c => calls'[d] = calls[d]
    BY <1>9 DEF SaveConfig, Goto, Return, Move
  <2>3. QED
    BY <2>1, <2>2
<1>10. ASSUME NEW c \in Calls, NEW config \in Configs, SelectModel(c, config) PROVE HeldInv'
  BY <1>10 DEF SelectModel, Locked, MuFree, Alive, Move
<1>11. ASSUME NEW c \in Calls, SetDefaultModel(c) PROVE HeldInv'
  BY <1>11, SMTT(30) DEF SetDefaultModel, At, Alive, Put, Goto, Move
<1>12. ASSUME NEW s \in Ids, Listen(s) PROVE HeldInv'
  BY <1>12 DEF Listen, Alive, Put
<1>13. ASSUME NEW s \in Ids, ServerError(s) PROVE HeldInv'
  BY <1>13 DEF ServerError, MuFree, Alive, Put
<1>14. ASSUME NEW p \in Ports, Stranger(p) PROVE HeldInv'
  BY <1>14 DEF Stranger
<1> HIDE DEF TypeProxy, HeldInv, Idle, Ids, CallState, ServerState
<1>15. QED
  BY <1>1, <1>2, <1>3, <1>4, <1>5, <1>6, <1>7, <1>8, <1>9, <1>10, <1>11, <1>12, <1>13, <1>14
  DEF ProxyStep, CallStep, ServerStep

(* A call that changed the settings is on its way to save them.            *)
LEMMA SavedStep ==
  ASSUME TypeProxy, OneCall, SavedInv, ProxyStep
  PROVE  SavedInv'
<1> USE DEF TypeProxy, OneCall, Busy, SavedInv, Idle, CallState, ServerState
<1>1. ASSUME NEW c \in Calls, NEW step \in {"start", "stop", "update", "select"}, Begin(c, step) PROVE SavedInv'
  BY <1>1 DEF Begin, Goto, Move
<1>2. ASSUME NEW c \in Calls, StartCheck(c) PROVE SavedInv'
  BY <1>2, StartCheckEffect DEF Others
<1>3. ASSUME NEW c \in Calls, StartProbe(c) PROVE SavedInv'
  BY <1>3, StartProbeEffect DEF Others
<1>4. ASSUME NEW c \in Calls, StartRegister(c) PROVE SavedInv'
  BY <1>4 DEF StartRegister, Locked, MuFree, Alive, Return, Move
<1>5. ASSUME NEW c \in Calls, StopTake(c) PROVE SavedInv'
  BY <1>5, StopTakeEffect DEF Others
<1>6. ASSUME NEW c \in Calls, StopListening(c) PROVE SavedInv'
  BY <1>6 DEF StopListening, At, Alive, Put, Goto, Move
<1>7. ASSUME NEW c \in Calls, StopReturn(c) PROVE SavedInv'
  BY <1>7 DEF StopReturn, Locked, MuFree, Alive, Onward, Return, Move
<1>8. ASSUME NEW c \in Calls, NEW config \in Configs, UpdateConfig(c, config) PROVE SavedInv'
  BY <1>8 DEF UpdateConfig, Locked, MuFree, Alive, Move
<1>9. ASSUME NEW c \in Calls, SaveConfig(c) PROVE SavedInv'
  BY <1>9 DEF SaveConfig, Locked, MuFree, Alive, Goto, Return, Move
<1>10. ASSUME NEW c \in Calls, NEW config \in Configs, SelectModel(c, config) PROVE SavedInv'
  BY <1>10 DEF SelectModel, Locked, MuFree, Alive, Move
<1>11. ASSUME NEW c \in Calls, SetDefaultModel(c) PROVE SavedInv'
  BY <1>11 DEF SetDefaultModel, At, Alive, Put, Goto, Move
<1>12. ASSUME NEW s \in Ids, Listen(s) PROVE SavedInv'
  BY <1>12 DEF Listen, Alive, Put
<1>13. ASSUME NEW s \in Ids, ServerError(s) PROVE SavedInv'
  BY <1>13 DEF ServerError, MuFree, Alive, Put
<1>14. ASSUME NEW p \in Ports, Stranger(p) PROVE SavedInv'
  BY <1>14 DEF Stranger
<1> HIDE DEF TypeProxy, OneCall, Busy, SavedInv, Idle, CallState, ServerState
<1>15. QED
  BY <1>1, <1>2, <1>3, <1>4, <1>5, <1>6, <1>7, <1>8, <1>9, <1>10, <1>11, <1>12, <1>13, <1>14
  DEF ProxyStep, CallStep, ServerStep

(* Nothing comes between the probe and the registration.                   *)
LEMMA StartInvStep ==
  ASSUME TypeProxy, OneCall, StartInv, ProxyStep
  PROVE  StartInv'
<1> USE DEF TypeProxy, OneCall, Busy, StartInv, Idle, Ids, CallState, ServerState
<1>1. ASSUME NEW c \in Calls, NEW step \in {"start", "stop", "update", "select"}, Begin(c, step) PROVE StartInv'
  BY <1>1 DEF Begin, Goto, Move
<1>2. ASSUME NEW c \in Calls, StartCheck(c) PROVE StartInv'
  BY <1>2, StartCheckEffect DEF Others
<1>3. ASSUME NEW c \in Calls, StartProbe(c) PROVE StartInv'
  BY <1>3, StartProbeEffect DEF Others
<1>4. ASSUME NEW c \in Calls, StartRegister(c) PROVE StartInv'
  BY <1>4 DEF StartRegister, Locked, MuFree, Alive, Return, Move
<1>5. ASSUME NEW c \in Calls, StopTake(c) PROVE StartInv'
  BY <1>5, StopTakeEffect DEF Others
<1>6. ASSUME NEW c \in Calls, StopListening(c) PROVE StartInv'
  BY <1>6 DEF StopListening, At, Alive, Put, Goto, Move
<1>7. ASSUME NEW c \in Calls, StopReturn(c) PROVE StartInv'
  BY <1>7 DEF StopReturn, Locked, MuFree, Alive, Onward, Return, Move
<1>8. ASSUME NEW c \in Calls, NEW config \in Configs, UpdateConfig(c, config) PROVE StartInv'
  BY <1>8 DEF UpdateConfig, Locked, MuFree, Alive, Move
<1>9. ASSUME NEW c \in Calls, SaveConfig(c) PROVE StartInv'
  BY <1>9 DEF SaveConfig, Locked, MuFree, Alive, Goto, Return, Move
<1>10. ASSUME NEW c \in Calls, NEW config \in Configs, SelectModel(c, config) PROVE StartInv'
  BY <1>10 DEF SelectModel, Locked, MuFree, Alive, Move
<1>11. ASSUME NEW c \in Calls, SetDefaultModel(c) PROVE StartInv'
  BY <1>11 DEF SetDefaultModel, At, Alive, Put, Goto, Move
<1>12. ASSUME NEW s \in Ids, Listen(s) PROVE StartInv'
  BY <1>12 DEF Listen, Alive, Put
<1>13. ASSUME NEW s \in Ids, ServerError(s) PROVE StartInv'
  BY <1>13 DEF ServerError, MuFree, Alive, Put
<1>14. ASSUME NEW p \in Ports, Stranger(p) PROVE StartInv'
  BY <1>14 DEF Stranger
<1> HIDE DEF TypeProxy, OneCall, Busy, StartInv, Idle, Ids, CallState, ServerState
<1>15. QED
  BY <1>1, <1>2, <1>3, <1>4, <1>5, <1>6, <1>7, <1>8, <1>9, <1>10, <1>11, <1>12, <1>13, <1>14
  DEF ProxyStep, CallStep, ServerStep

(* The running server is not left with old settings.                       *)
LEMMA ServedStep ==
  ASSUME TypeProxy, OneCall, SavedInv, StartInv, ServedInv, ProxyStep
  PROVE  ServedInv'
<1> USE DEF TypeProxy, OneCall, Busy, SavedInv, StartInv, ServedInv, Idle, Ids, CallState, ServerState
<1>1. ASSUME NEW c \in Calls, NEW step \in {"start", "stop", "update", "select"}, Begin(c, step) PROVE ServedInv'
  BY <1>1 DEF Begin, Goto, Move
<1>2. ASSUME NEW c \in Calls, StartCheck(c) PROVE ServedInv'
  BY <1>2 DEF StartCheck, Locked, MuFree, Alive, Return, Move
<1>3. ASSUME NEW c \in Calls, StartProbe(c) PROVE ServedInv'
  BY <1>3, ZenonT(60) DEF StartProbe, At, Alive, Put, Return, Move
<1>4. ASSUME NEW c \in Calls, StartRegister(c) PROVE ServedInv'
  BY <1>4 DEF StartRegister, Locked, MuFree, Alive, Return, Move
<1>5. ASSUME NEW c \in Calls, StopTake(c) PROVE ServedInv'
  BY <1>5 DEF StopTake, Locked, MuFree, Alive, Onward, Return, Move
<1>6. ASSUME NEW c \in Calls, StopListening(c) PROVE ServedInv'
  <2>1. calls[c].at = "shutdown" /\ UNCHANGED running
    BY <1>6, StopListeningEffect
  <2>2. QED
    BY <2>1
<1>7. ASSUME NEW c \in Calls, StopReturn(c) PROVE ServedInv'
  BY <1>7 DEF StopReturn, Locked, MuFree, Alive, Onward, Return, Move
<1>8. ASSUME NEW c \in Calls, NEW config \in Configs, UpdateConfig(c, config) PROVE ServedInv'
  BY <1>8 DEF UpdateConfig, Locked, MuFree, Alive, Move
<1>9. ASSUME NEW c \in Calls, SaveConfig(c) PROVE ServedInv'
  BY <1>9 DEF SaveConfig, Locked, MuFree, Alive, Goto, Return, Move
<1>10. ASSUME NEW c \in Calls, NEW config \in Configs, SelectModel(c, config) PROVE ServedInv'
  BY <1>10 DEF SelectModel, Locked, MuFree, Alive, Move
<1>11. ASSUME NEW c \in Calls, SetDefaultModel(c) PROVE ServedInv'
  <2>1. running /\ server # None => servers'[server].cfg = cfg
    BY <1>11 DEF SetDefaultModel, At, Put
  <2>2. QED
    BY <1>11, <2>1 DEF SetDefaultModel
<1>12. ASSUME NEW s \in Ids, Listen(s) PROVE ServedInv'
  BY <1>12 DEF Listen, Alive, Put
<1>13. ASSUME NEW s \in Ids, ServerError(s) PROVE ServedInv'
  BY <1>13 DEF ServerError, MuFree, Alive, Put
<1>14. ASSUME NEW p \in Ports, Stranger(p) PROVE ServedInv'
  BY <1>14 DEF Stranger
<1> HIDE DEF TypeProxy, OneCall, Busy, SavedInv, StartInv, ServedInv, Idle, Ids, CallState, ServerState
<1>15. QED
  BY <1>1, <1>2, <1>3, <1>4, <1>5, <1>6, <1>7, <1>8, <1>9, <1>10, <1>11, <1>12, <1>13, <1>14
  DEF ProxyStep, CallStep, ServerStep

(* No server is left listening that nobody would stop.                     *)
LEMMA ListenStep ==
  ASSUME TypeProxy, OneCall, StartInv, ListenInv, ProxyStep
  PROVE  ListenInv'
<1> USE DEF TypeProxy, OneCall, Busy, StartInv, ListenInv, Idle, Ids, CallState, ServerState
<1>1. ASSUME NEW c \in Calls, NEW step \in {"start", "stop", "update", "select"}, Begin(c, step) PROVE ListenInv'
  BY <1>1 DEF Begin, Goto, Move
<1>2. ASSUME NEW c \in Calls, StartCheck(c) PROVE ListenInv'
  BY <1>2 DEF StartCheck, Locked, MuFree, Alive, Return, Move
<1>3. ASSUME NEW c \in Calls, StartProbe(c) PROVE ListenInv'
  <2>1. calls[c].at = "probe" /\ Others(c) /\ ~running /\ \A d \in Calls : d # c => calls[d].at = "idle"
    BY <1>3, StartProbeEffect
  <2>2. (\A s \in Ids : servers[s].at # "failed") => \A s \in Ids : servers[s].at \notin {"starting", "serving"}
    BY <2>1
  <2>3. UNCHANGED <<running, server, case>>
    BY <1>3, StartProbeEffect
  <2>4. CASE calls'[c] = Idle /\ servers' = servers
    BY <2>2, <2>3, <2>4, <2>1
  <2>5. ASSUME NEW s \in Ids, servers[s].at = "none", calls'[c].at = "register", calls'[c].srv = s,
               servers' = [servers EXCEPT ![s] = [at |-> "starting", cfg |-> calls[c].cfg]]
        PROVE  ListenInv'
    <3>1. servers'[s].at = "starting" /\ \A t \in Ids : t # s => servers'[t] = servers[t]
      BY <2>5
    <3>2. (\A t \in Ids : servers'[t].at # "failed") => \A t \in Ids : t # s => servers'[t].at \notin {"starting", "serving"}
      BY <2>2, <2>5, <3>1
    <3>3. QED
      BY <2>1, <2>3, <2>5, <3>1, <3>2
  <2>6. QED
    BY <1>3, <2>4, <2>5, StartProbeEffect
<1>4. ASSUME NEW c \in Calls, StartRegister(c) PROVE ListenInv'
  BY <1>4 DEF StartRegister, Locked, MuFree, Alive, Return, Move
<1>5. ASSUME NEW c \in Calls, StopTake(c) PROVE ListenInv'
  <2>1. calls[c].at = "stop" /\ Others(c) /\ \A d \in Calls : d # c => calls[d].at = "idle"
    BY <1>5, StopTakeEffect
  <2>2. UNCHANGED <<servers, case>>
    BY <1>5, StopTakeEffect
  <2>3. (\A s \in Ids : servers[s].at # "failed") =>
            \A s \in Ids : servers[s].at \in {"starting", "serving"} => running /\ server = s
    BY <2>1
  <2>4. CASE running /\ server # None
    <3>1. calls'[c].at = "shutdown" /\ calls'[c].srv = server /\ running' = FALSE
      BY <1>5, <2>4, StopTakeEffect
    <3>2. QED
      BY <2>2, <2>3, <3>1
  <2>5. CASE ~(running /\ server # None)
    <3>1. UNCHANGED <<running, server>>
      BY <1>5, <2>5, StopTakeEffect
    <3>2. QED
      BY <2>2, <2>3, <3>1
  <2>6. QED
    BY <2>4, <2>5
<1>6. ASSUME NEW c \in Calls, StopListening(c) PROVE ListenInv'
  <2>1. /\ calls[c].at = "shutdown" /\ Others(c)
        /\ \A d \in Calls : d # c => calls[d].at = "idle"
    BY <1>6, StopListeningEffect
  <2>2. /\ \A s \in Ids : s # calls[c].srv => servers'[s].at = servers[s].at
        /\ \A s \in Ids : s = calls[c].srv => servers'[s].at \notin {"starting", "serving"}
        /\ \A s \in Ids : servers[s].at = "failed" => servers'[s].at = "failed"
        /\ UNCHANGED <<running, server, case>>
        /\ calls'[c].at = "drain"
    BY <1>6, StopListeningEffect
  <2>3. ~running
    BY <2>1
  <2>4. QED
    BY <2>1, <2>2, <2>3
<1>7. ASSUME NEW c \in Calls, StopReturn(c) PROVE ListenInv'
  BY <1>7 DEF StopReturn, Locked, MuFree, Alive, Onward, Return, Move
<1>8. ASSUME NEW c \in Calls, NEW config \in Configs, UpdateConfig(c, config) PROVE ListenInv'
  BY <1>8 DEF UpdateConfig, Locked, MuFree, Alive, Move
<1>9. ASSUME NEW c \in Calls, SaveConfig(c) PROVE ListenInv'
  BY <1>9 DEF SaveConfig, Locked, MuFree, Alive, Goto, Return, Move
<1>10. ASSUME NEW c \in Calls, NEW config \in Configs, SelectModel(c, config) PROVE ListenInv'
  BY <1>10 DEF SelectModel, Locked, MuFree, Alive, Move
<1>11. ASSUME NEW c \in Calls, SetDefaultModel(c) PROVE ListenInv'
  <2>1. \A s \in Ids : servers'[s].at = servers[s].at
    BY <1>11, SMTT(30) DEF SetDefaultModel, Put
  <2>2. QED
    BY <1>11, <2>1 DEF SetDefaultModel, At, Goto, Move
<1>12. ASSUME NEW s \in Ids, Listen(s) PROVE ListenInv'
  BY <1>12 DEF Listen, Alive, Put
<1>13. ASSUME NEW s \in Ids, ServerError(s) PROVE ListenInv'
  BY <1>13 DEF ServerError, MuFree, Alive, Put
<1>14. ASSUME NEW p \in Ports, Stranger(p) PROVE ListenInv'
  BY <1>14 DEF Stranger
<1> HIDE DEF TypeProxy, OneCall, Busy, StartInv, ListenInv, Idle, Ids, CallState, ServerState
<1>15. QED
  BY <1>1, <1>2, <1>3, <1>4, <1>5, <1>6, <1>7, <1>8, <1>9, <1>10, <1>11, <1>12, <1>13, <1>14
  DEF ProxyStep, CallStep, ServerStep

-----------------------------------------------------------------------------
(* The state after a launch.                                               *)
Fresh ==
  /\ running = FALSE /\ server = None /\ cfg \in Configs
  /\ saved \in Configs \cup {Torn} /\ unsaved \in BOOLEAN /\ (saved = cfg \/ unsaved)
  /\ servers = [s \in Ids |-> NoServer]
  /\ \E k \in Calls : calls = [c \in Calls |-> IF c = k THEN [Idle EXCEPT !.at = "start"] ELSE Idle]
  /\ begun = 1 /\ taken \subseteq Ports
  /\ case \in Case

(* A launch begins with one call and no server.                            *)
LEMMA FreshInv == Fresh => TypeProxy /\ HeldInv /\ TurnInv
<1> SUFFICES ASSUME Fresh PROVE TypeProxy /\ HeldInv /\ TurnInv
  OBVIOUS
<1>1. [Idle EXCEPT !.at = "start"] \in CallState /\ [Idle EXCEPT !.at = "start"].at = "start" /\ Idle.at = "idle"
  BY IdleTyped DEF CallState, Steps, Idle
<1>2. NoServer \in ServerState /\ NoServer.at = "none"
  BY IdleTyped DEF ServerState, NoServer
<1>3. PICK k \in Calls : calls = [c \in Calls |-> IF c = k THEN [Idle EXCEPT !.at = "start"] ELSE Idle]
  BY DEF Fresh
<1>4. /\ calls \in [Calls -> CallState]
      /\ calls[k].at = "start" /\ \A c \in Calls : c # k => calls[c].at = "idle"
  BY <1>1, <1>3, IdleTyped
<1>5. servers \in [Ids -> ServerState] /\ \A s \in Ids : servers[s].at = "none"
  BY <1>2 DEF Fresh
<1>6. TypeProxy
  <2>1. case.calls \in Nat \ {0}
    BY DEF Fresh, Case
  <2>2. begun \in 0 .. case.calls
    BY <2>1 DEF Fresh
  <2>3. QED
    BY <1>4, <1>5, <2>1, <2>2 DEF Fresh, TypeProxy
<1>7. TurnInv
  BY <1>4, <1>5 DEF Fresh, TurnInv, OneCall, Busy, SavedInv, StartInv, ServedInv, ListenInv
<1>8. HeldInv
  BY <1>4, <1>5 DEF Fresh, HeldInv
<1>9. QED
  BY <1>6, <1>7, <1>8

(* The first launch.                                                       *)
LEMMA InitIInv == Init => IInv
<1> SUFFICES ASSUME Init PROVE IInv
  OBVIOUS
<1>1. case \in Case
  BY DesktopAssumption DEF DesktopAssumption, Init
<1>2. Fresh
  BY <1>1, IdleTyped DEF Init, Fresh
<1>3. TypeProxy /\ HeldInv /\ TurnInv
  BY <1>2, FreshInv
<1>4. TypeOK
  <2>1. case.calls \in Nat \ {0} /\ case.changes \in Nat
    BY <1>1 DEF Case
  <2>2. memory \in 0 .. case.changes /\ file \in Torn .. case.changes /\ base \in 0 .. memory /\ quitAt \in 0 .. memory
    BY <2>1 DEF Init, Torn
  <2>3. QED
    BY <1>1, <1>3, <2>2 DEF TypeOK, TypeProxy, Init
<1>5. ChangeScheduled /\ WriteInv /\ QuitInv
  BY DEF Init, ChangeScheduled, WriteInv, QuitInv
<1>6. QED
  BY <1>3, <1>4, <1>5 DEF IInv

(* Every step keeps IInv: those of calls and servers, those of the file,   *)
(* and the ends and beginnings of the process.                             *)
LEMMA Step == IInv /\ [Next]_vars => IInv'
<1> SUFFICES ASSUME IInv, [Next]_vars PROVE IInv'
  OBVIOUS
<1>1. TypeOK /\ TypeProxy /\ TypeFile /\ case \in Case /\ ChangeScheduled /\ WriteInv /\ QuitInv /\ HeldInv
  BY DEF IInv, TypeOK, TypeProxy, TypeFile, Case
<1>2. CASE ProxyStep
  <2>1. UNCHANGED <<case, process>> /\ TypeFile' /\ ChangeScheduled' /\ WriteInv' /\ QuitInv'
    BY <1>1, <1>2, ProxyState, StateEffectKeeps DEF StateEffect
  <2>2. TypeProxy' /\ HeldInv'
    BY <1>1, <1>2, TypeProxyStep, HeldStep
  <2>3. TypeOK'
    BY <1>1, <2>1, <2>2 DEF TypeOK, TypeProxy, TypeFile
  <2>5. ASSUME InTurn PROVE TurnInv'
    BY <1>1, <1>2, <2>5, OneCallStep, SavedStep, StartInvStep, ServedStep, ListenStep DEF IInv, InTurn, TurnInv
  <2>6. QED
    BY <2>1, <2>2, <2>3, <2>5 DEF IInv, InTurn
<1>3. CASE FileStep
  <2>1. Alive /\ UNCHANGED <<case, process, base, quitAt, proxyVars>>
    BY <1>3, FileFrame
  <2>2. TypeFile' /\ ChangeScheduled' /\ WriteInv' /\ QuitInv'
    BY <1>1, <1>3, TypeFileStep, ScheduledStep, WriteStep, QuitStep
  <2>3. TypeOK'
    BY <1>1, <2>1, <2>2 DEF TypeOK, TypeFile, CallState, Ids
  <2>4. ASSUME InTurn' PROVE TurnInv'
    <3>1. TurnInv
      BY <2>1, <2>4 DEF IInv, InTurn
    <3>2. QED
      BY <2>1, <3>1 DEF TurnInv, OneCall, Busy, SavedInv, StartInv, ServedInv, ListenInv, Ids
  <2>5. HeldInv'
    BY <1>1, <2>1 DEF HeldInv
  <2>6. QED
    BY <2>2, <2>3, <2>4, <2>5 DEF IInv
<1>4. CASE ForceQuit
  <2>1. TypeFile' /\ ChangeScheduled' /\ WriteInv' /\ QuitInv'
    BY <1>1, <1>4, TypeFileStep, ScheduledStep, WriteStep, QuitStep
  <2>2. process' = "quitting" /\ UNCHANGED <<case, proxyVars>>
    BY <1>4 DEF ForceQuit, Flush
  <2>3. TypeOK'
    BY <1>1, <2>1, <2>2 DEF TypeOK, TypeFile, CallState, Ids
  <2>4. HeldInv'
    BY <1>1, <2>2 DEF HeldInv
  <2>5. QED
    BY <2>1, <2>2, <2>3, <2>4 DEF IInv, InTurn
<1>5. ASSUME NEW c \in Calls, QuitStops(c) PROVE IInv'
  <2>1. [calls[c] EXCEPT !.at = "stop"] \in CallState
    BY <1>1 DEF TypeProxy, CallState, Steps
  <2>2. calls' \in [Calls -> CallState]
    BY <1>1, <1>5, <2>1, MoveTo DEF QuitStops, Goto
  <2>3. process' = "stopping" /\ LogLine /\ case' = case /\ process = "quitting" /\ writer = "none"
        /\ UNCHANGED <<running, server, cfg, saved, unsaved, servers, taken>>
        /\ begun' = begun + 1 /\ begun < case.calls
    BY <1>5 DEF QuitStops
  <2>4. memory' = Newer \/ memory' = memory
    BY <2>3
  <2>5. memory' \in memory .. case.changes
    BY <1>1, <2>4 DEF TypeFile, Newer
  <2>6. TypeFile'
    <3>1. base' \in 0 .. memory' /\ quitAt' \in 0 .. memory' /\ memory' \in 0 .. case'.changes
      BY <1>1, <2>3, <2>5 DEF TypeFile
    <3>2. timer' \in {"off", "armed", "fired"} /\ quiet' \in BOOLEAN
      BY <1>1, <2>3 DEF TypeFile, Schedule
    <3>3. QED
      BY <1>1, <2>3, <3>1, <3>2 DEF TypeFile
  <2>7. TypeOK'
    BY <1>1, <2>2, <2>3, <2>6 DEF TypeOK, TypeFile, TypeProxy, CallState, Ids, Case
  <2>8. ChangeScheduled'
    <3>1. CASE case.changes = 0
      BY <2>3, <2>6, <3>1 DEF ChangeScheduled, TypeFile
    <3>2. CASE case.changes # 0
      BY <2>3, <3>2 DEF ChangeScheduled, Schedule
    <3>3. QED
      BY <3>1, <3>2
  <2>9. WriteInv' /\ QuitInv' /\ ~InTurn'
    BY <1>1, <2>3, <2>5 DEF WriteInv, QuitInv, InTurn, TypeFile
  <2>10. HeldInv'
    <3>1. calls'[c].at = "stop" /\ Others(c)
      BY <1>1, <1>5, <2>1, MoveTo DEF QuitStops, Goto, TypeProxy, CallState
    <3>2. QED
      BY <1>1, <2>3, <3>1 DEF HeldInv, Others
  <2>11. QED
    BY <2>7, <2>8, <2>9, <2>10 DEF IInv
<1>6. CASE Exit \/ Crash
  <2>1. process' \in {"exited", "dead"} /\ UNCHANGED <<case, proxyVars, stateVars>>
    BY <1>6 DEF Exit, Crash
  <2>2. TypeOK'
    BY <1>1, <2>1 DEF TypeOK, CallState, Ids
  <2>3. ChangeScheduled' /\ WriteInv' /\ QuitInv' /\ HeldInv' /\ ~InTurn'
    BY <1>1, <1>6, <2>1 DEF Exit, Crash, ChangeScheduled, WriteInv, QuitInv, HeldInv, Alive, InTurn
  <2>4. QED
    BY <2>2, <2>3 DEF IInv
<1>7. CASE Launch
  <2>1. case' \in Case /\ case'.calls = case.calls /\ case'.changes = case.changes
    BY <1>1, <1>7 DEF Launch, Case
  <2>2. Fresh'
    <3>1. PICK k \in Calls : calls' = [c \in Calls |-> IF c = k THEN [Idle EXCEPT !.at = "start"] ELSE Idle]
      BY <1>7 DEF Launch, Launched
    <3>2. \E j \in Calls : calls' = [c \in Calls |-> IF c = j THEN [Idle EXCEPT !.at = "start"] ELSE Idle]
      BY <3>1
    <3>3. servers' = [s \in Ids |-> NoServer] /\ Ids' = Ids
      BY <1>7, <2>1 DEF Launch, Launched, Ids
    <3>4. running' = FALSE /\ server' = None /\ begun' = 1 /\ taken' = taken /\ cfg' = IF saved = Torn THEN 1 ELSE saved
      BY <1>7 DEF Launch, Launched
    <3>5. (saved' = cfg' /\ unsaved' = FALSE) \/ (saved' \in {saved, Torn} /\ unsaved' = TRUE)
      BY <1>7, <3>4 DEF Launch, Launched
    <3>6. cfg' \in Configs
      BY <1>1, <3>4, IdleTyped DEF TypeProxy
    <3>7. QED
      BY <1>1, <2>1, <3>2, <3>3, <3>4, <3>5, <3>6 DEF Fresh, TypeProxy, Idle
  <2>3. TypeProxy' /\ HeldInv' /\ TurnInv'
    BY <2>2, FreshInv, PTL
  <2>4. TypeOK'
    <3>1. memory' = (IF file = Torn THEN 0 ELSE file) /\ base' = memory' /\ file' = file /\ quitAt' = 0
      BY <1>7 DEF Launch, Launched
    <3>2. memory' \in 0 .. case.changes /\ base' \in 0 .. memory' /\ quitAt' \in 0 .. memory'
      BY <1>1, <3>1 DEF TypeFile, Torn
    <3>3. process' = "up" /\ timer' = "off" /\ quiet' = TRUE /\ callbacks' = 0 /\ writer' = "none" /\ failed' = FALSE
      BY <1>7 DEF Launch, Launched
    <3>4. file' \in Torn .. case'.changes /\ memory' \in 0 .. case'.changes
      BY <1>1, <2>1, <3>1, <3>2 DEF TypeFile
    <3>5. QED
      BY <2>1, <2>3, <3>2, <3>3, <3>4 DEF TypeOK, TypeProxy
  <2>5. ChangeScheduled' /\ WriteInv' /\ QuitInv'
    BY <1>7 DEF Launch, Launched, ChangeScheduled, WriteInv, QuitInv
  <2>6. QED
    BY <2>3, <2>4, <2>5 DEF IInv
<1>8. CASE UNCHANGED vars
  BY <1>8 DEF vars, IInv, TypeOK, ChangeScheduled, WriteInv, QuitInv, HeldInv, Alive, InTurn, TurnInv, OneCall, Busy, SavedInv,
     StartInv, ServedInv, ListenInv, Ids, CallState
<1>9. QED
  BY <1>2, <1>3, <1>4, <1>5, <1>6, <1>7, <1>8 DEF Next, ProxyStep, FileStep, Gone

(* IInv holds in every reachable state, whatever the bounds.               *)
THEOREM Invariance == Spec => []IInv
<1>1. Init => IInv
  BY InitIInv
<1>2. IInv /\ [Next]_vars => IInv'
  BY Step
<1>3. QED
  BY <1>1, <1>2, PTL DEF Spec

(* Every variable keeps its type.                                          *)
THEOREM TypeCorrect == Spec => []TypeOK
<1>1. IInv => TypeOK
  BY DEF IInv
<1>2. QED
  BY <1>1, Invariance, PTL

(* "running" is never left of a server that was shut down; after calls     *)
(* made in turn it, and the settings, in memory and in the file, are true  *)
(* of the server that listens (StartProxy, StopProxy, UpdateConfig,        *)
(* SelectModel), however many calls were made, servers failed and saves    *)
(* failed and were reported.                                               *)
THEOREM HonestTheorem == Spec => []StatusHonest
<1>1. IInv => StatusHonest
  <2> SUFFICES ASSUME IInv, Settled PROVE StatusHonest
    BY DEF StatusHonest
  <2>1. running => server # None /\ servers[server].at \in {"serving", "failed"}
    <3>1. running => server # None /\ server \in Ids /\ servers[server].at \notin {"none", "down"}
      BY DEF IInv, HeldInv, TypeOK
    <3>2. running => servers[server].at \notin {"starting", "refused"}
      BY <3>1 DEF Settled
    <3>3. \A s \in Ids : servers[s].at \in {"none", "starting", "serving", "refused", "failed", "down"}
      BY DEF IInv, TypeOK, ServerState
    <3>4. QED
      BY <3>1, <3>2, <3>3
  <2>2. ASSUME ~case.overlap
        PROVE  /\ saved = cfg \/ unsaved
               /\ running => servers[server].cfg = cfg
               /\ (\A s \in Ids : servers[s].at # "failed") => \A s \in Ids : Serving(s) => running /\ server = s
    <3>1. TurnInv /\ \A c \in Calls : calls[c].at = "idle"
      BY <2>2 DEF IInv, InTurn, Settled
    <3>2. QED
      BY <2>1, <3>1 DEF TurnInv, SavedInv, ServedInv, ListenInv, Serving
  <2>3. QED
    BY <2>1, <2>2 DEF StatusHonest
<1>2. QED
  BY <1>1, Invariance, PTL

(* The debounce loses no write (saveAppStateLocked, flushAppStateLocked),  *)
(* in whatever order changes, timers and callbacks come, but for the two   *)
(* the statement names.                                                    *)
THEOREM ScheduledTheorem == Spec => []ChangeScheduled
<1>1. IInv => ChangeScheduled
  BY DEF IInv
<1>2. QED
  BY <1>1, Invariance, PTL

(* forceQuit saves what there was when it began, if writing succeeds.      *)
THEOREM QuitSavesTheorem == Spec => []QuitSaves
<1>1. IInv => QuitSaves
  BY DEF IInv, TypeOK, QuitInv, QuitSaves
<1>2. QED
  BY <1>1, Invariance, PTL
=============================================================================
