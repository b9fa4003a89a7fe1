------------------------------ MODULE Desktop ------------------------------
(***************************************************************************)
(* desktop/app.go: starting, stopping and reconfiguring the proxy from the *)
(* desktop app, and the state file with its debounced writes.              *)
(*                                                                         *)
(* A call is a sequence of critical sections of App.mu with work between   *)
(* them.  A configuration is a number, 1 the default; PortOf says where it *)
(* listens.  What is persisted (requests, logs, statistics, models) is its *)
(* version.                                                                *)
(***************************************************************************)
EXTENDS Integers, FiniteSets

CONSTANTS
  Calls,      \* goroutines calling the app's methods: the window, the start-up
  Configs,    \* settings, numbered from 1
  PortOf,     \* the port of each
  Cases       \* what a behaviour may do, see Case

\* Do calls overlap, do other programs take ports; bounds.  Without changes
\* the state file is left out.
Case == [overlap : BOOLEAN, strangers : BOOLEAN, calls : Nat \ {0}, changes : Nat, launches : Nat]

ASSUME DesktopAssumption ==
  /\ Configs \subseteq Nat \ {0} /\ 1 \in Configs
  /\ DOMAIN PortOf = Configs
  /\ Cases \subseteq Case

VARIABLES
  case,       \* overlap of calls, strangers on ports, bounds on calls, changes, launches
  process,    \* "up", "quitting", "stopping" (to exit), "exited", "dead"
  running, server, cfg,       \* App.running, App.server, App.cfg
  saved, unsaved,             \* config.json; the last attempt to save it failed
  servers,    \* every httpapi.Server made since the launch
  calls,      \* where each call is, and what it has read
  begun,      \* number of calls
  taken,      \* ports other programs listen on
  memory, file,               \* version of the state in memory, in the file
  base, quitAt,               \* the version loaded at launch, and when quitting began
  timer, quiet,               \* stateFlushTimer; stateFlushAt has passed
  callbacks,  \* timer callbacks that wait for the mutex
  writer,     \* who is writing the file, App.mu held
  failed      \* the last write of the file failed

proxyVars == <<running, server, cfg, saved, unsaved, servers, calls, begun, taken>>
stateVars == <<memory, file, base, quitAt, timer, quiet, callbacks, writer, failed>>
vars == <<case, process, proxyVars, stateVars>>

None == 0
Torn == -1
Steps == {"idle", "start", "probe", "register", "stop", "shutdown", "drain", "update", "save", "select", "apply"}
Ports == {PortOf[c] : c \in Configs}
Idle == [at |-> "idle", cfg |-> 1, srv |-> None, was |-> FALSE, restart |-> FALSE]
NoServer == [at |-> "none", cfg |-> 1]
Ids == 1 .. case.calls
ServerState == [at : {"none", "starting", "serving", "refused", "failed", "down"}, cfg : Configs]
CallState == [at : Steps, cfg : Configs, srv : Ids \cup {None}, was : BOOLEAN, restart : BOOLEAN]

TypeOK ==
  /\ case \in Case
  /\ process \in {"up", "quitting", "stopping", "exited", "dead"}
  /\ running \in BOOLEAN /\ server \in Ids \cup {None}
  /\ cfg \in Configs /\ saved \in Configs \cup {Torn} /\ unsaved \in BOOLEAN
  /\ servers \in [Ids -> ServerState] /\ calls \in [Calls -> CallState]
  /\ begun \in 0 .. case.calls
  /\ taken \subseteq Ports
  /\ memory \in 0 .. case.changes /\ file \in Torn .. case.changes
  /\ base \in 0 .. memory /\ quitAt \in 0 .. memory
  /\ timer \in {"off", "armed", "fired"} /\ quiet \in BOOLEAN
  /\ callbacks \in Nat /\ writer \in {"none", "timer", "reader", "quit"} /\ failed \in BOOLEAN

(* saveConfig: what goes wrong may leave the old file, or a part of the    *)
(* new one.                                                                *)
Save(config) ==
  \/ saved' = config /\ unsaved' = FALSE
  \/ saved' \in {saved, Torn} /\ unsaved' = TRUE

(* startup: the configuration is loaded (the default if there is no file   *)
(* to read) and saved, the proxy started.                                  *)
Launched(config, version) ==
  /\ process' = "up"
  /\ running' = FALSE /\ server' = None /\ cfg' = config /\ Save(config)
  /\ servers' = [s \in Ids |-> NoServer]
  /\ \E k \in Calls : calls' = [c \in Calls |-> IF c = k THEN [Idle EXCEPT !.at = "start"] ELSE Idle]
  /\ begun' = 1
  /\ memory' = version /\ base' = version /\ quitAt' = 0
  /\ timer' = "off" /\ quiet' = TRUE /\ callbacks' = 0 /\ writer' = "none" /\ failed' = FALSE

Init ==
  /\ case \in Cases
  /\ process = "up" /\ running = FALSE /\ server = None
  /\ cfg = 1 /\ saved \in {1, Torn} /\ unsaved = (saved = Torn)
  /\ servers = [s \in Ids |-> NoServer]
  /\ \E k \in Calls : calls = [c \in Calls |-> IF c = k THEN [Idle EXCEPT !.at = "start"] ELSE Idle]
  /\ begun = 1 /\ taken = {}
  /\ memory = 0 /\ file = 0 /\ base = 0 /\ quitAt = 0
  /\ timer = "off" /\ quiet = TRUE /\ callbacks = 0 /\ writer = "none" /\ failed = FALSE

-----------------------------------------------------------------------------
(* Calls *)

Alive == process \in {"up", "quitting", "stopping"}
MuFree == Alive /\ writer = "none"
At(c, step) == Alive /\ calls[c].at = step
Locked(c, step) == MuFree /\ calls[c].at = step
Move(c, record) == calls' = [calls EXCEPT ![c] = record]
Goto(c, step) == Move(c, [calls[c] EXCEPT !.at = step])
Return(c) == Move(c, Idle)
(* After StopProxy: UpdateConfig goes on to StartProxy.                    *)
Onward(c) == IF calls[c].restart THEN Move(c, [Idle EXCEPT !.at = "start"]) ELSE Return(c)
PortFree(p) == p \notin taken /\ \A s \in Ids : servers[s].at = "serving" => PortOf[servers[s].cfg] # p
Put(s, record) == servers' = [servers EXCEPT ![s] = record]

(* The next version, up to the bound.                                      *)
Newer == IF memory < case.changes THEN memory + 1 ELSE memory

(* saveAppStateLocked sets the time of the next write and arms or resets   *)
(* the timer.                                                              *)
Schedule == quiet' = FALSE /\ timer' = "armed"

(* emitLog: a line more, and a write scheduled.                            *)
LogLine ==
  /\ IF case.changes = 0 THEN UNCHANGED <<memory, quiet, timer>> ELSE memory' = Newer /\ Schedule
  /\ UNCHANGED <<file, base, quitAt, callbacks, writer, failed>>

(* The window begins a call, perhaps while another is under way.           *)
Begin(c, step) ==
  /\ process = "up" /\ calls[c].at = "idle" /\ begun < case.calls
  /\ case.overlap \/ \A k \in Calls : calls[k].at = "idle"
  /\ Goto(c, step)
  /\ begun' = begun + 1
  /\ UNCHANGED <<case, process, running, server, cfg, saved, unsaved, servers, taken, stateVars>>

StartCheck(c) ==
  /\ Locked(c, "start")
  /\ IF running THEN Return(c) ELSE Move(c, [Idle EXCEPT !.at = "probe", !.cfg = cfg])
  /\ UNCHANGED <<case, process, running, server, cfg, saved, unsaved, servers, begun, taken, stateVars>>

(* Is the port free?  Then a goroutine is to listen on it.  (The probe's   *)
(* own listener, closed at once, is left out.)                             *)
StartProbe(c) ==
  /\ At(c, "probe")
  /\ IF PortFree(PortOf[calls[c].cfg])
     THEN \E s \in Ids :
            /\ servers[s].at = "none" /\ \A k \in 1 .. s - 1 : servers[k].at # "none"
            /\ Put(s, [at |-> "starting", cfg |-> calls[c].cfg])
            /\ Move(c, [calls[c] EXCEPT !.at = "register", !.srv = s])
     ELSE Return(c) /\ UNCHANGED servers
  /\ UNCHANGED <<case, process, running, server, cfg, saved, unsaved, begun, taken, stateVars>>

StartRegister(c) ==
  /\ Locked(c, "register")
  /\ IF running THEN UNCHANGED <<running, server, stateVars>>
                ELSE running' = TRUE /\ server' = calls[c].srv /\ LogLine
  /\ Return(c)
  /\ UNCHANGED <<case, process, cfg, saved, unsaved, servers, begun, taken>>

(* The list of models is forgotten, if there is one, and no write is       *)
(* scheduled for that.                                                     *)
StopTake(c) ==
  /\ Locked(c, "stop")
  /\ IF running /\ server # None
     THEN /\ Move(c, [calls[c] EXCEPT !.at = "shutdown", !.srv = server])
          /\ server' = None /\ running' = FALSE
          /\ memory' \in {memory, Newer}
     ELSE Onward(c) /\ UNCHANGED <<server, running, memory>>
  /\ UNCHANGED <<case, process, cfg, saved, unsaved, servers, begun, taken,
                 file, base, quitAt, timer, quiet, callbacks, writer, failed>>

\* Mutant: a server that does not listen yet is not kept from it.
ShutdownTooEarly(c) ==
  /\ At(c, "shutdown")
  /\ LET s == calls[c].srv
     IN IF servers[s].at = "serving" THEN Put(s, [servers[s] EXCEPT !.at = "down"]) ELSE UNCHANGED servers
  /\ Goto(c, "drain")
  /\ UNCHANGED <<case, process, running, server, cfg, saved, unsaved, begun, taken, stateVars>>

(* Server.Shutdown closes the listener, or keeps ListenAndServe from       *)
(* opening one, and then waits for the handlers.                           *)
StopListening(c) ==
  /\ At(c, "shutdown")
  /\ LET s == calls[c].srv
     IN IF servers[s].at \in {"starting", "serving"} THEN Put(s, [servers[s] EXCEPT !.at = "down"]) ELSE UNCHANGED servers
  /\ Goto(c, "drain")
  /\ UNCHANGED <<case, process, running, server, cfg, saved, unsaved, begun, taken, stateVars>>

(* It returns and is logged; an error (of Service.Close) also keeps        *)
(* UpdateConfig from starting again.                                       *)
StopReturn(c) ==
  /\ Locked(c, "drain")
  /\ LogLine
  /\ Onward(c) \/ Return(c)
  /\ UNCHANGED <<case, process, running, server, cfg, saved, unsaved, servers, begun, taken>>

UpdateConfig(c, config) ==
  /\ Locked(c, "update")
  /\ cfg' = config
  /\ Move(c, [calls[c] EXCEPT !.at = "save", !.cfg = config, !.was = running, !.restart = running])
  /\ UNCHANGED <<case, process, running, server, saved, unsaved, servers, begun, taken, stateVars>>

(* Both callers log how it went and go on all the same.                    *)
SaveConfig(c) ==
  /\ Locked(c, "save")
  /\ Save(calls[c].cfg)
  /\ LogLine
  /\ IF calls[c].was THEN Goto(c, "stop") ELSE Return(c)
  /\ UNCHANGED <<case, process, running, server, cfg, servers, begun, taken>>

(* SelectModel: a configuration of the same port, with another model.      *)
SelectModel(c, config) ==
  /\ Locked(c, "select") /\ PortOf[config] = PortOf[cfg]
  /\ cfg' = config
  /\ Move(c, [calls[c] EXCEPT !.at = "apply", !.cfg = config, !.srv = server])
  /\ UNCHANGED <<case, process, running, server, saved, unsaved, servers, begun, taken, stateVars>>

SetDefaultModel(c) ==
  /\ At(c, "apply")
  /\ LET s == calls[c].srv
     IN IF s # None THEN Put(s, [servers[s] EXCEPT !.cfg = calls[c].cfg]) ELSE UNCHANGED servers
  /\ Goto(c, "save")
  /\ UNCHANGED <<case, process, running, server, cfg, saved, unsaved, begun, taken, stateVars>>

-----------------------------------------------------------------------------
(* The goroutine of each server *)

Listen(s) ==
  /\ Alive /\ servers[s].at = "starting"
  /\ Put(s, [servers[s] EXCEPT !.at = IF PortFree(PortOf[servers[s].cfg]) THEN "serving" ELSE "refused"])
  /\ UNCHANGED <<case, process, running, server, cfg, saved, unsaved, calls, begun, taken, stateVars>>

ServerError(s) ==
  /\ MuFree /\ servers[s].at = "refused"
  /\ Put(s, [servers[s] EXCEPT !.at = "failed"])
  /\ running' = FALSE
  /\ LogLine
  /\ UNCHANGED <<case, process, server, cfg, saved, unsaved, calls, begun, taken>>

(* Another program listens on a port.                                      *)
Stranger(p) ==
  /\ case.strangers /\ PortFree(p)
  /\ taken' = taken \cup {p}
  /\ UNCHANGED <<case, process, running, server, cfg, saved, unsaved, servers, calls, begun, stateVars>>

-----------------------------------------------------------------------------
(* The state file *)

\* Mutant: a timer that has been made is not reset.
ChangeKeepsTimer ==
  /\ MuFree /\ memory < case.changes
  /\ memory' = memory + 1
  /\ quiet' = FALSE
  /\ timer' = IF timer = "off" THEN "armed" ELSE timer
  /\ UNCHANGED <<case, process, proxyVars, file, base, quitAt, callbacks, writer, failed>>

(* A request recorded, models found, a log line of anything else.          *)
Change ==
  /\ MuFree /\ memory < case.changes
  /\ memory' = memory + 1
  /\ Schedule
  /\ UNCHANGED <<case, process, proxyVars, file, base, quitAt, callbacks, writer, failed>>

(* Three seconds without a change.                                         *)
Quiet ==
  /\ Alive /\ ~quiet
  /\ quiet' = TRUE
  /\ UNCHANGED <<case, process, proxyVars, memory, file, base, quitAt, timer, callbacks, writer, failed>>

Fire ==
  /\ Alive /\ timer = "armed" /\ quiet
  /\ timer' = "fired"
  /\ callbacks' = callbacks + 1
  /\ UNCHANGED <<case, process, proxyVars, memory, file, base, quitAt, quiet, writer, failed>>

(* flushAppStateLocked: the timer is dropped; the file is cut and written, *)
(* or it cannot be had.                                                    *)
Flush(who) ==
  /\ timer' = "off" /\ quiet' = TRUE
  /\ \/ file' = Torn /\ writer' = who /\ UNCHANGED failed
     \/ failed' = TRUE /\ UNCHANGED <<file, writer>>
  /\ UNCHANGED <<case, proxyVars, memory, base>>

CallbackFlush ==
  /\ MuFree /\ callbacks > 0 /\ quiet
  /\ callbacks' = callbacks - 1
  /\ Flush("timer")
  /\ UNCHANGED <<process, quitAt>>

(* A change came between the timer and the mutex.                          *)
CallbackEarly ==
  /\ MuFree /\ callbacks > 0 /\ ~quiet
  /\ callbacks' = callbacks - 1
  /\ UNCHANGED <<case, process, proxyVars, memory, file, base, quitAt, timer, quiet, writer, failed>>

(* debugAppLogs, on an HTTP request.                                       *)
ReadLogs ==
  /\ MuFree /\ \E s \in Ids : servers[s].at = "serving"
  /\ Flush("reader")
  /\ UNCHANGED <<process, quitAt, callbacks>>

Written ==
  /\ Alive /\ writer # "none"
  /\ file' = memory /\ failed' = FALSE
  /\ writer' = "none"
  /\ UNCHANGED <<case, process, proxyVars, memory, base, quitAt, timer, quiet, callbacks>>

(* The write breaks off, and nothing tries it again.                       *)
WriteFails ==
  /\ Alive /\ writer # "none"
  /\ failed' = TRUE
  /\ writer' = "none"
  /\ UNCHANGED <<case, process, proxyVars, memory, file, base, quitAt, timer, quiet, callbacks>>

-----------------------------------------------------------------------------
(* The end of the process *)

\* Mutant: the debounced write is left to the timer.
QuitUnsaved ==
  /\ process = "up" /\ MuFree
  /\ process' = "quitting" /\ quitAt' = memory
  /\ UNCHANGED <<case, proxyVars, memory, file, base, timer, quiet, callbacks, writer, failed>>

(* forceQuit writes at once, then stops the proxy, by a call of its own.   *)
ForceQuit ==
  /\ process = "up" /\ MuFree
  /\ process' = "quitting" /\ quitAt' = memory
  /\ Flush("quit")
  /\ UNCHANGED callbacks

QuitStops(c) ==
  /\ process = "quitting" /\ writer = "none" /\ calls[c].at = "idle" /\ begun < case.calls
  /\ process' = "stopping"
  /\ LogLine
  /\ begun' = begun + 1
  /\ Goto(c, "stop")
  /\ UNCHANGED <<case, running, server, cfg, saved, unsaved, servers, taken>>

(* When the proxy has stopped, or after 1.2 s.                             *)
Exit ==
  /\ process \in {"quitting", "stopping"} /\ writer # "quit"
  /\ process' = "exited"
  /\ UNCHANGED <<case, proxyVars, stateVars>>

Crash ==
  /\ Alive /\ case.launches > 0
  /\ process' = "dead"
  /\ UNCHANGED <<case, proxyVars, stateVars>>

(* loadAppState: a file that was being written is refused.                 *)
Launch ==
  /\ process \in {"exited", "dead"} /\ case.launches > 0
  /\ case' = [case EXCEPT !.launches = @ - 1]
  /\ Launched(IF saved = Torn THEN 1 ELSE saved, IF file = Torn THEN 0 ELSE file)
  /\ UNCHANGED <<taken, file>>

Gone == process \in {"exited", "dead"} /\ case.launches = 0 /\ UNCHANGED vars

-----------------------------------------------------------------------------
CallStep(c) ==
  \/ StartCheck(c) \/ StartProbe(c) \/ StartRegister(c)
  \/ StopTake(c) \/ StopListening(c) \/ StopReturn(c)
  \/ SaveConfig(c) \/ SetDefaultModel(c)
  \/ \E config \in Configs : UpdateConfig(c, config) \/ SelectModel(c, config)

ServerStep == \E s \in Ids : Listen(s) \/ ServerError(s)

Next ==
  \/ \E c \in Calls : CallStep(c) \/ QuitStops(c) \/ \E step \in {"start", "stop", "update", "select"} : Begin(c, step)
  \/ ServerStep
  \/ \E p \in Ports : Stranger(p)
  \/ Change \/ Quiet \/ Fire \/ CallbackFlush \/ CallbackEarly \/ ReadLogs \/ Written \/ WriteFails
  \/ ForceQuit \/ Exit \/ Crash \/ Launch \/ Gone

Spec == Init /\ [][Next]_vars

-----------------------------------------------------------------------------
Settled ==
  /\ process = "up"
  /\ \A c \in Calls : calls[c].at = "idle"
  /\ \A s \in Ids : servers[s].at \notin {"starting", "refused"}
Serving(s) == servers[s].at = "serving"

(* Safety: once calls are over, "running" is never left of a server that   *)
(* was shut down or never made: its server listens, or failed to, however  *)
(* calls overlapped and whoever takes ports (app.go 538-640, 936-963).     *)
(* After calls made one at a time it serves with the settings last given,  *)
(* although stopping or saving may have failed, and the same are in        *)
(* config.json unless the log says that they could not be saved (app.go    *)
(* 457-491, 1089-1120); and if no listener failed, every server that       *)
(* listens is the one that Stop would stop.  Without that it is not (two   *)
(* starts pass the probe together, a late error clears "running" of any    *)
(* server).                                                                *)
StatusHonest ==
  Settled =>
    /\ running => server # None /\ servers[server].at \in {"serving", "failed"}
    /\ ~case.overlap =>
         /\ saved = cfg \/ unsaved
         /\ running => servers[server].cfg = cfg
         /\ (\A s \in Ids : servers[s].at # "failed") => \A s \in Ids : Serving(s) => running /\ server = s

(* Safety: a change that is not in the file has its write scheduled: a     *)
(* timer runs, a callback that will write waits for the mutex, or the      *)
(* write is under way (app.go 1273-1317).  Two changes have not: the list  *)
(* of models StopProxy forgets waits for the line it logs when the server  *)
(* is down (app.go 947, 956-961), and after a write that failed everything *)
(* waits for the next change (app.go 1315-1317).                           *)
ChangeScheduled ==
  Alive /\ memory > base /\ file # memory =>
    \/ timer = "armed" \/ (callbacks > 0 /\ quiet) \/ writer # "none"
    \/ \E c \in Calls : calls[c].at \in {"shutdown", "drain"}
    \/ failed /\ timer = "off"

(* Safety: quitting loses nothing that was there when it began, unless the *)
(* process exits while a late callback writes the file again, or the last  *)
(* write failed (app.go 316-342).                                          *)
QuitSaves ==
  process = "exited" /\ memory > base =>
    file >= quitAt \/ writer = "timer" \/ writer = "reader" \/ failed
=============================================================================
