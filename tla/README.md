# Lingma Proxy: specifications, model checks and proofs

The repository is a proxy that offers Anthropic-, OpenAI- and Responses-style
HTTP endpoints and answers them through the Lingma / QoderCN runtime, either
over its local IPC connection or through its remote HTTP API. This directory
holds TLA+ modules for the concurrent core of the Go code and for the
transformations around it in which order or loss matters, TLC configurations
that check them on small instances, and TLAPS proofs.

    tlc -config IpcClient_safety.cfg MCIpcClient      # a run
    tlapm IpcClient_proofs.tla                        # the proofs of a module

The proofs are in `IpcClient_proofs`, `IpcSession_proofs` (with those of
`Frames`), `HttpRequests_proofs` (of `ChatGate` and `Conversation`),
`RemoteFallback_proofs` (with those of `Settings`), `RemoteModels_proofs` (with
those of `Credentials` and `RemoteStream`), `AnswerStream_proofs` and
`Desktop_proofs`; `FoldTheorems` has the facts on lists they share.

## 1. The system

### Components, their state and what they do

| Component | Source | State | Operations |
| --- | --- | --- | --- |
| IPC client | `internal/lingmaipc/client.go` | `pending` ids, `subs` channels, `closed`, `closeErr` | `Connect`, `Request`, `Send`, `Subscribe`, `Close`, `readLoop` |
| IPC transport | `internal/lingmaipc/transport.go`, `pipe_*.go` | the connection | frames over pipe, socket or WebSocket; discovery |
| Service, IPC | `internal/service/service.go` | `mu`, `client`, `stickySessionID`, `stickyModelID` | `Generate`, `GenerateStream`, `ListModels`, `Close`, retry after loss |
| Service, remote | same | `remoteClient`, `remoteProbeCache` | fallback over models, native tool retry, probes |
| Remote client | `internal/remote/client.go` | `cfg.BaseURL`, cached URL file | `Chat`, `ListModels`, base URL detection |
| Credentials | `internal/remote/credentials.go` | credential files | load, import, save |
| HTTP server | `internal/httpapi/server.go` | `sem`, request log | three chat endpoints, streams, `Shutdown` |
| Tool emulation | `internal/toolemulation/` | none | prompts for tools, parses calls out of text |
| Desktop app | `desktop/app.go` | `running`, `server`, `cfg`, `models`, logs, statistics | start, stop, reconfigure, persist |
| Command line | `cmd/lingma-ipc-proxy/main.go` | none | configuration layers, signal handling |

### How they interact

An HTTP handler takes a slot of `Server.sem`, normalises its request and calls
`Service.Generate`, or `GenerateStream` for a stream, which starts a goroutine
and hands back an event and a result channel. The IPC backend shares one
lazily dialled `lingmaipc.Client`. A prompt is sent with `Send` and answered by
notifications that the client's read loop broadcasts to every subscriber; other
calls are request and reply. `Service.mu` guards the connection and the sticky
session, and is held across dialling and session creation. The desktop app and
the command line create the service and the server and shut them down.

### What is hard

* One read loop serves calls, subscriptions and `Close`, under two mutexes and
  with channels that block.
* Requests overlap; each uses the service's connection and session in several
  critical sections while others reset them.
* Requests are retried after a lost connection and over several models, and an
  answer whose text has begun must not start over.
* Deadlines are optional (timeout 0 is the default), so every wait without one
  of its own may last.
* The generation goroutine outlives its handler; shutdown cuts both.

`PROJECT.json` lists the hazards at their lines with the properties that cover
them.

### What makes each component correct

* IPC client: no panic, no lost or reordered notification, nobody left waiting
  after a loss or `Close`, no leak of pending ids.
* Service, IPC: a session belongs to the connection in use, a prompt runs on its
  own session with its own model, private sessions are deleted, no answer's text
  starts over, every request ends.
* Service, remote: models in order, at most once, none after output, none missed.
* HTTP gate: slots are conserved, a finished stream is complete, waiters are
  served, shutdown ends.
* Remote client: the base URL in use is one that worked, the cached one its
  scheme and host; an answer is what was streamed, with every tool call whole.
* Credentials: a file that an export left is a whole login, the best there is.
* Request normalisation: a conversation reaches the model whole and in order,
  whatever the client's format, and a tool's result after its call.
* IPC transport: the frames the runtime wrote, however the stream is cut.
* Settings: the highest layer that says something decides; what was saved stays.
* Stream writers: blocks and items open and close as announced; text is shown in
  order and whole, tool calls are not shown as text.
* Desktop: "running" tells the truth, no server is orphaned, state survives.

## 2. Modules

### IpcClient

One action per step between blocking points of `client.go`. Goroutines are of
four kinds: `Callers` in `Request`, `Subscribers` in
`Service.runPromptLocked` (the client's only subscriber), the read loop, and
callers of `Close` (`Closers`, and the read loop itself after a read error).

| Variable | Code |
| --- | --- |
| `pending`, `respCh` | `Client.pending` and the one-slot response channels |
| `subs`, `subQ`, `subClosed` | `Client.subs`, the channels' contents, whether closed |
| `rlPc`, `rlId`, `rlTo` | the read loop: waiting, delivering a reply, broadcasting to the rest of `rlTo` |
| `closePc`, `waitClose` | progress of the body of `closeOnce`, goroutines inside `Close` |
| `closed`, `transport`, `closeErr`, `peer` | `Client.closed`, the connection, the stored error, the runtime |

While `rlPc = "broadcast"` the read lock of `subsMu` is held, so `Subscribe`,
`Cancel` and `CloseAllSubs` are disabled (`SubsReadLocked`). `panicked` records
a send on or a second close of a channel; the actions that could do it test for
it, and `NoPanic` says they never do.

### StickySession and IpcSession

`IpcSession` is `generateWithReconnect` for each of several requests: connect,
resolve a session, set the model, prompt (a second time for tool emulation),
clean up, and once more after a recoverable error. `mu` is a variable because
the code holds the mutex across network calls; a critical section without one
is a single step. Connections and sessions are numbered. `config` is chosen in
the initial state: the session mode, how many requests the gate lets in, and a
bound on how many come. `err` holds the class `isRecoverableIPCError` gives the
error. The runtime sends two kinds of chunk (`Forward`): text, which is shown and
added to `AssistantText` (`TextChunk`), and thoughts, which are only shown
(`ThoughtChunk`). When the channel closes, an answer without text is a recoverable
error, whatever thoughts have gone out, so `spoke` keeps the two apart.

`StickySession` is what the service promises about what is shared: a session is
adopted only while connected, a model is remembered only for the session, and
losing the connection forgets both. `SharedSpec` is the refinement: `client`,
`sticky` and `stickyModel` implement it, whatever requests interleave.

### ChatGate

The slots, the handler of each request, the goroutine of `GenerateStream` with
its two channels, and `Server.Shutdown`. The three chat endpoints differ in
format, not in control; one handler stands for them. `ctxDone` is the request's
context, which net/http cancels when the client leaves or the handler returns.

### RemoteFallback

One request on the remote backend: the route through image extraction,
`remoteAttemptModels` (`FallbackList` and `AddModel`: a fold over names, aliases
and blanks), the attempt loop with its per-attempt deadline, the native tool retry and the second
prompt of tool emulation. Upstream errors are kinds; `FallbackErrors` are those
`isRemoteFallbackError` recognises.

### AnswerStream

What the handlers write for one request: `Event`s with an index, an item and a
content, in the order of `out`. A delta is one of six kinds of text (`Kinds`).
`Push` and `Flush` are `toolStreamFilter`; `Blocks` and `Remaining` what
`ParseActionBlocks` makes of the same text; `Results` the answers
`applyToolEmulation` can return for it, `PromptAgain` the second prompt. The
Anthropic handler keeps `thinkingOpen` and `textOpen`, the Responses handler
`pendingText`; aggregated streams and the hosted tool stream have no deltas and
write everything at the end (`Succeed`). `Leave` is a client that left. The
writers are the same sequence of handlers for every backend, so the backend
appears only as `Think` and `Speak`.

### Desktop

`StartProxy`, `StopProxy`, `UpdateConfig` and `SelectModel` as sequences of the
critical sections of `App.mu` and the work between them; the goroutine of each
server; the state file. A call is a record: the step it is at, the settings and
the server it has read. `servers` holds every server made: `starting` until its
goroutine listens, `refused` until the error handler runs. What is persisted is
its version: `memory`, `file` (`Torn` while it is written), and `base`, the one
loaded at launch; a change makes a version (`Newer`) and mostly schedules a write
(`Schedule`), but `StopTake` forgets the list of models without doing so. `timer`,
`quiet` and `callbacks` are the debounce: an armed timer, whether `stateFlushAt`
has passed, and callbacks that wait for the mutex. Both files may fail to be
written: `Save` leaves `config.json` old or torn and sets `unsaved`, since
`UpdateConfig` goes on with the new settings, and `WriteFails` leaves the state
file old or torn and sets `failed`. Not modelled is the rewriting of a state file
of the old format when it is loaded.
`case` is chosen in the initial state and bounds what a behaviour may do.

### RemoteModels

`ListModels` of the remote client and of the service, for calls that overlap.
`base` is `c.cfg.BaseURL`, which no lock guards: a URL is written in two steps,
as Go writes a string, so a value may be two halves of different URLs. `file` is
the cached "last successful" URL: what `normalizeRemoteBaseURLHint` makes of it
(`CacheForm`), its scheme and host, or nothing where no API can be.
`os.WriteFile` empties the file first, and may fail before that (`Answered`) or
after it (`Write`), which the code ignores; `unsaved` remembers it. Each call
has its own `previous` and two sets: the candidates it has still `todo`, in the
order `Before`, and the places of the fallback list it has `left` to probe.
`probes` and `now` are `remoteProbeCache` and time in ticks. `Restart` is the end
of the process at any moment and `remote.New`. `answered`, `overlapped` and `lastProbe` are history.

### Conversation

What a chat request becomes. A client builds a conversation turn by turn
(`conv`: texts, images, calls, results; blanks and images that fail to load
among them) and the module has, as operators named for the functions, its wire
form in each of the three formats, the normalisation of each, the prompt
(`buildLingmaPrompt` over `filteredMessages`, fresh and reuse), the structured
messages of a remote request (`remoteMessagesFromRequest`, `projectMessages`),
and the detour of images over the IPC backend. `Context` marks what the IPC
backend says of an image. The invariants compare these for every conversation
the client can reach.

### Settings

One setting of one of six kinds, since settings do not depend on each other.
`files` holds what the JSON file at each place says, `Torn` for one cut off
while it was written. `loadConfig` is the command line's, over file, environment
and flag; `defaultConfig` the desktop app's, over the first file found. What a
setting can be is given by the constants `Words`, `Ports`, `Seconds` and
`Lists`, with blanks and zero always among them. The
state is the app's: it starts (and saves), changes, fails to save, dies while
saving, quits. `kept` is history: the user's last choice that was saved.

### Frames, RemoteStream, Credentials

`Frames` has the two readers of `transport.go` over one buffer of tokens that
the transport fills at will: the pipe's, line by line, and the websocket's, which
looks for the header's end. `RemoteStream` is one chat's event stream: events
with text and fragments of tool calls in any mixture, `[DONE]` or a failure at
any point; `order` and `states` are `remoteToolCallBuffer`. `Credentials` is
`SaveCredentialFile` by processes that export to one path, step by step with the
two file names as links to inodes, and the pick among the login caches.

### Known behaviours in the models

No run shows these as a violation. The properties say where they stop:

* An indented block that opens with ```` ```json ```` and a line break is made a
  call and shown as text as well, although `README.md:897` says that parsed
  blocks are filtered: the parser knows that opening (`toolemulation.go:796`),
  the filter does not. `ShownInOrder` makes it the one exception.
* A Responses message of blanks only is started and never done
  (`BlockProtocol`); the aggregated Responses stream counts a reasoning item
  it has not announced (`CompletedMatchesItems`).
* In the OpenAI format thoughts are written as content, so that one may come
  between the halves of a marker (`ShownInOrder`).
* A connection that closes after thoughts, before any text, starts the request
  over, and the client is shown thoughts twice (`AnswerStartsOnce`).
* Starts that overlap may leave a server that nothing stops, and the late error
  of one server's listener clears `running` of another (`StatusHonest`).
* A process that is killed, or exits during a late callback's write, leaves a
  torn state file, and the next launch starts from an empty state (`QuitSaves`).
* A state file that could not be written is written again only after the next
  change, and the list of models that `StopProxy` forgets only after the log line
  it adds once the server is down (`ChangeScheduled`).
* Settings that could not be saved are used until the app ends (`StatusHonest`
  says that the log tells).
* Listings that overlap may cache a URL that another call is trying, or leave in
  memory a URL that failed or two halves of two (`CacheHonest`, `AloneSettles`
  say when that ends); a chat in the meantime uses what is there. The cache file
  keeps no path: after a URL with one, the next start asks the bare scheme and
  host first, which may never have answered. A cache that cannot be written is
  left as it is, or empty, without a word (`AloneSettles`). A probe whose
  client left counts as a failed one for five minutes (`FreshVerdict`).
* An Anthropic user's words are put before the results in the same message. A
  blank result is dropped and its call stays unanswered, and so is a Responses
  output that is a list of blocks, which `Conversation` does not send. The prompt
  leaves out turns that only call tools. In reuse mode only the last user message
  or result is sent: of several results in parallel, the last. The IPC backend
  is shown the images of the newest message only, and what it says of them is put
  at the end of what the user said last. A remote request with images and without
  tools is answered by the IPC backend. Messages of other roles are dropped.
* An event stream that ends without `[DONE]` is an answer; a call it cut off is
  kept with its arguments as raw text (`AnswerAsStreamed`).
* Two exports to one path at once may put a half-written file in place
  (`CredentialWhole`).
* The desktop app takes the first file it finds: one beside the program, in the
  current or the home directory wins over the app's own, and is copied over it at
  the next start. `README.zh-CN.md:936` lists the saved settings as the highest
  layer. A torn file of its own is replaced by the defaults. A setting that was
  cleared is served as cleared until the next start and as its default from then
  on. The app takes a session mode the command line refuses (`SavedSurvives`,
  `Precedence` say where they stop). An invalid lower layer stops the command
  line even when a higher one replaces it. `-config` with a single dash loads
  no file, but is reported as the one in use.

### Composition

`IpcSession` abstracts `IpcClient` to a connection that is open, lost or closed
and a prompt that ends by an answer, a closed channel or its deadline.
`ChatGate` abstracts both backends to a generation that emits and ends.
`IpcSession.Arrive` abstracts `ChatGate.Acquire` to `config.atOnce`.

## 3. Runs

| Run | Question | Instance | States |
| --- | --- | --- | --- |
| `IpcClient_safety` | Is the client safe under every interleaving? | 2 calls, 2 prompts, 1 closer, buffers of 1, 2 notifications | 4.2 M |
| `IpcClient_live` | Does everybody get out while buffers suffice? | 1 call, 1 prompt, 1 closer, buffers of 2, 2 notifications | 80 k |
| `IpcClient_wedge` | And when they do not? (violation) | 1 call, 1 prompt, buffer of 1, 2 notifications | |
| `IpcSession_safety` | Do overlapping requests keep sessions apart and in order? | 2 at once (auto, reuse) and 3 in turn (reuse), 2 models, 2 connections | 5.8 M |
| `IpcSession_live` | Does every request end, with a timeout? | 2 at once, reuse | 480 k |
| `ChatGate` | Are slots conserved, answers complete, waiters served, and does shutdown end? | 1 stream, 2 others, 2 slots, 1 event buffered, 2 deltas | 86 k |
| `RemoteFallback` | Are the right models tried, once, and does it end? | every list of up to 3 of 5 names | 1.9 M |
| `RemoteFallback_listed` | Are candidates filtered by `/v1/models`? (violation) | the default list | |
| `AnswerStream_filter` | Is only what was parsed as a call withheld? (violation) | 3 formats and hosted tools, 3 deltas of 6 kinds, 2 tool calls | |
| `Desktop` | Does "running" tell the truth, and is the state kept? | 3 overlapping calls; 4 in turn beside other programs; 3 calls and 2 changes with a second launch; writes that fail | 7.8 M |
| `RemoteModels` | Are the URLs remembered ones that worked, the verdicts fresh? | 2 callers, 3 listings, 3 URLs of which one has a path, writes that fail, 1 model to probe, 3 ticks | 3.5 M |
| `Parts` | Six parts, each with its own question: see below | see below | 0.8 M |

`Parts` (module `MCParts`) checks six modules that share no state; a behaviour
picks one (`topic`) and leaves the others idle.

| Module | Question | Instance |
| --- | --- | --- |
| `AnswerStream` | Is each event stream well formed, and the text in it whole? (`BlockProtocol`, `ShownInOrder`, `CompletedMatchesItems`) | 3 formats and hosted tools, 4 deltas of 6 kinds, 2 tool calls |
| `Conversation` | Does everything said reach the model, the same from every format? (`NothingLost`, `FormatsAgree`, `ResultsFollowCalls`) | 3 turns, 2 calls each, marks of texts and images told apart by turn and place |
| `Settings` | Does the highest layer decide, and does what was saved stay? (`Precedence`, `SavedSurvives`) | 6 kinds of setting, 4 places; 2 words, a port, a negative and a positive timeout, a blank list and one with blanks and a repetition |
| `Frames` | Are frames found again wherever the stream is cut? (`FramesAsSent`) | 2 frames, 4 bodies, 4 kinds of header |
| `RemoteStream` | Is the answer what was streamed? (`AnswerAsStreamed`) | 2 calls of 2 pieces, 2 pieces of text |
| `Credentials` | Is the file a whole login, the best one? (`CredentialWhole`) | 2 exporters, 2 logins, 3 caches |

Why the bounds suffice. Two goroutines of each kind in `IpcClient` meet in every
order at each channel, and a buffer of one is full after one notification.
`IpcSession` needs two requests to disturb each other, a third in turn to use
what a failed second left behind, and two connections for one to replace the
other. In `ChatGate` three requests
compete for two slots, and with one slot of buffer the second delta already
blocks; requests without a stream have a slot but no goroutine of their own, so
that one stream among them is enough. Fallback lists of three hold a duplicate
under an alias or a blank beside the requested model. Four deltas let an opening
be cut in two, with blanks or text on both sides, and a second prompt follow;
the six kinds of text are those the filter and the parser tell apart, and one
held back delta stands for the filter's tail of 96 runes, which is longer than
any opening. In `Desktop` four calls in turn reach a start, a stop and a change
of settings with a server that failed in between, and two changes meet a
timer, its callback and its rearming. Two listings meet in `RemoteModels` at
every step of a swap, and the third shows what they leave; of three URLs one has
a path, one is the same without it and is asked only once it was cached. That a
URL has nothing to cache (`Normal[url] = None`) is left to the theorems: with
a fourth URL for it the run takes too long. Three ticks let a
good verdict, which holds two, expire. Three turns of a conversation are calls,
their results and what comes after or before them. A frame whose body ends like
a header or looks like a frame is followed by a second. Of three caches one may
be unreadable and two differ. Requests, callers and models are symmetric;
symmetry is used only where no liveness is checked.

`CHECK_DEADLOCK FALSE` appears in `IpcClient_safety` and `IpcClient_wedge`,
where the connection can really stop for ever, as the latter shows, and in
`Parts`, where a conversation, an answer or a stream is over when it is over.
Everywhere else the final states have an explicit self-loop.

### Fairness

* Goroutines that can move do; reads on a dead connection fail.
* `Cancel` and `CloseAllSubs` are writers of an `RWMutex`, which admits no new
  reader while a writer waits, and `Service.mu` serves starving waiters in
  order, so lock steps are strongly fair, and so is a send on the semaphore,
  whose blocked senders the runtime keeps in a queue.
* Nothing makes the runtime or the upstream answer. A deadline is fairness of
  the step it enables, and it is stated where it is assumed: in the properties
  `RequestReturns` (of `NobodyWaitsForever`) and `PromptReturns`, in
  `RequestDeadline`, in the `timeout` field of RemoteFallback's configurations.
  `session/new`, `session/set_model` and the deletion have deadlines of their
  own.
* A client that has stopped reading is not assumed to go on, except in
  `WaiterServed` and `GenerationEnds`, which say so (`ClientsRead`): the server
  sets no write timeout.

### What the violations show

* `IpcClient_wedge`: `broadcast` blocks on a full subscription with the read lock
  of `subsMu` held; the subscriber, past its deadline, no longer reads and waits
  for the write lock in its deferred cancel. Both stop, and so do the read loop
  and every later caller of the connection. It takes more than 2048
  notifications that are not read in time, for instance because the HTTP client
  has stalled while the runtime goes on.
* `AnswerStream_filter`: the filter stops showing text at `{"tool"` or
  `{"name"` wherever it stands, while only fenced blocks become tool calls. An
  answer that mentions such an object and calls nothing ends there, and what
  was withheld is never written.
* `RemoteFallback_listed`: `README.md` and `docs/architecture.md` say fallback
  candidates are filtered by `/v1/models`; `remoteAttemptModels` does not ask.

## 4. Proofs

Each theorem holds for every value of the constants that the module's named
assumption admits, and is proved from an inductive invariant: what a run checks
is seldom inductive alone. The proofs have a frame lemma per group of variables
(which actions can touch it), a preservation lemma per conjunct with one step per
action, and the theorems by `Invariance`. The assumptions are about constants
only, and TLC evaluates them in the runs.

| Module | Proved | From |
| --- | --- | --- |
| `IpcClient_proofs` | `TypeOK`, `NoPanic`, `EveryNoteInOrder`, `NoStrandedSubscriber`, `PendingTidy` | `IpcAssumption`: a capacity of at least one; the read loop is not another closer |
| `IpcSession_proofs` | `TypeOK`, `AnswerStartsOnce`, `PrivateSessions`, `PromptOnOwnConnection`, `PromptRunsWithItsModel`, `SharedSpec` | `SessionAssumption`: finitely many requests; "free" and "no model" are neither |
| `HttpRequests_proofs` | `SlotsMatchHolders`, `CompleteAnswer`, `ClosedAfterHandlers` | `GateAssumption` |
| `HttpRequests_proofs`, second part | `ResultsFollowCalls`, `NothingLost`, `FormatsAgree` | `ConversationAssumption`: the bounds are numbers |
| `RemoteFallback_proofs` | `TypeOK`, `AnswerFromOneModel`, `AttemptsAsConfigured` | `FallbackAssumption`: a name's canonical form is canonical, and blank only for a blank |
| `RemoteFallback_proofs`, second part | `Precedence`, `SavedSurvives` | `SettingsAssumption`: ports and timeouts are numbers, lists are of words and blanks |
| `RemoteModels_proofs` | `TypeOK`, `CacheHonest`, `AloneSettles`, `FreshVerdict` | `ModelsAssumption`: the candidates are URLs, scheme and host of what is scheme and host are the same, a verdict holds at least a tick, no fallback is listed twice |
| `Desktop_proofs` | `TypeOK`, `StatusHonest`, `ChangeScheduled`, `QuitSaves` | `DesktopAssumption`: every configuration has a port |
| `AnswerStream_proofs` | `BlockProtocol`, `CompletedMatchesItems`, `ShownInOrder` | `StreamAssumption`: the filter holds back something, an answer may have a call |
| `RemoteModels_proofs`, second part | `CredentialWhole` | `CredentialAssumption`: a file is always to be had |
| `RemoteModels_proofs`, third part | `AnswerAsStreamed` | `FragmentAssumption`: the number of pieces is a number |
| `IpcSession_proofs`, second part | `FramesAsSent` | `FramesAssumption`: bodies are sequences of tokens |

**IpcClient.** `IInv` adds:

* `CallInv`: an idle call has an open channel and is not pending; every pending
  id's channel is open; while the read loop delivers, the call it delivers to is
  not pending, its channel is open, and it has not returned to idle. So nobody
  sends twice or on a closed channel.
* `SubInv`: no registered channel is closed; a subscriber that has not begun or
  is done is not registered, and in between it is registered or closed; a
  broadcast in progress holds only registered subscribers. So `Cancel` and
  `CloseAllSubs` never close a channel twice.
* `CloseInv`: `closed` is set exactly when the body of `closeOnce` has begun, the
  transport is closed from its stage on, and the read loop waits in `Close` only
  once it has ended. With it, the transport is closed before `closeAllSubs` runs,
  so whoever subscribes later finds its `Send` refused: `NoStrandedSubscriber`
  rests on that order.

**IpcSession.** `PlaceInv` says what a request holds at each step (the mutex, a
connection, a session), `ConnInv` that a connection that is not closed and is in
use is the service's, `StickyInv` that a remembered session is on it. With them
every step on `client`, `sticky` and `stickyModel` is a step of `StickySession`
(`SharedStep`), and a prompt goes out on its session's connection, although both
were read in separate critical sections. `OwnInv` follows a private session from
its creation to its deletion, whatever fails in between. `SpokeInv` says at which
steps a request may have let text out: never where it can still start over; and
that thoughts are followed by a second try only when the connection has closed.
Nothing in the code prevents that one: `AnswerStartsOnce` says so.
`OneInv` and `ModelInv` are for reuse mode with requests one at a time: the
remembered model is the session's, except while the request that sets it is
between setting and remembering.

**ChatGate.** `SlotsMatchHolders` needs only the library's facts on the
cardinality of a set with one element more or less. The other two rest on:

* `CutInv`: a context is done only when the client has gone or the request has
  ended, a handler gives up only for a client that has gone, and a forced
  shutdown cuts off every handler there is. So `DropDelta` loses a delta only of
  a client that has gone.
* `StageInv`: the stages of a generation and of its handler go together; the
  channels end with the generation, and the handler sets one to nil only when it
  is used up. So an answered stream's generation has ended and its channel is
  empty.
* `OrderInv`: while the client is there, what is written and then what is in the
  channel are the deltas sent, in order. `AppendRun` and `TailRun` say what a
  send and a receive do to such a run of numbers.

**RemoteFallback.** `TryingInv`: what is shown is the current model's, and
nothing is shown when the next one is tried. `AttemptsInv`: what was tried is in
the list's order (`InOrderOf`), and nothing before the current model was passed
over (`NoneMissing`) while only recognised errors occurred. That the list itself
is right, for every configuration, is `AttemptsOrdered`: by induction over the
fold that builds it (`Ordered`: no name twice, all of the first k names in).

**RemoteModels.** `AloneInv` and `LoneInv` speak of a call that no other
overlaps: `Covered` says that every candidate is tried or still to be, so that a
search ends with the URL that answered or with everything put back, and `FileInv`
that the cache file is as it was found until the answer is there, and has what
`CacheForm` makes of the URL afterwards, or could not be written. That is
`AloneSettles`. `ProbeInv` ties a verdict that holds to the last probe,
`LeftInv` what is left to probe to the fallback list. Calls that overlap change
the same base URL and cache; a lemma per step (`SearchEffect`, `TryEffect`, ...)
says what it does to its own call, and `CallStepMoves` that it moves no other.

**Desktop.** `QuitInv` says that from the moment of quitting the file has, or a
writer is about to write, what there was, or its write failed. `WriteInv` says
that no timer runs during a write, which is why one that fails leaves none.
`ChangeScheduled` is inductive with these: a step that changes what is persisted
schedules a write (`ScheduledStep`), but for `StopTake`, whose call then holds a
server to shut down and logs a line when it is (`HeldInv`: the registered server
is not down, and those that calls are about to register or to shut down are
others, each call's its own). `TurnInv` is for calls in turn:
`OneCall`; `SavedInv` (the saved settings are the app's, or it is known that they
could not be saved, or a call is between setting and saving), `StartInv`, `ServedInv` (a running server has the app's
settings, or a call is about to replace it), `ListenInv` (whatever listens is
the registered server, or a call holds it).

**AnswerStream.** The properties quantify over the positions of the whole
stream, so each is carried by what one more stretch of events makes of a stream,
whichever it is, and the stretches are joined as the handlers join them.

* `Told(o, S, O)`: in the stream `o` the blocks begun are among `S`, those of
  `O` are open, and every delta and stop has its open block. `Goes(S, O, x, S2,
  O2)` says that the events `x` lead from one to the other; there is such a lemma
  for a start, a delta, a stop, a block, any number of tool blocks, thinking and
  text. `Underway` ties `O` to `thinkingOpen` and `textOpen` while the stream
  goes on, and `Followed` is what an end leaves. A Responses message of blanks
  only, which is started and never done, is in `O` at the end: the exception that
  `BlockProtocol` makes is the one the proof needs.
* `Listed(o, items)` and `Adds`: the stops so far are those of `items`, each at
  its place. `Items` and the calls are what `ResponseOutput` lists.
* `Writes(o, w)` and `Pens`: the text written is `w`. `Filtered` is the
  filter's invariant: what it let through and what it holds are the text, the
  thoughts apart; while it is not blocked no marker begins in the two together,
  and once it is, none in what was let through; and with tools it never holds
  nothing once something was let through. The last conjunct is why a marker
  cut by deltas is found: the next delta is looked at with at least the one
  before it (`UnmarkedMore`), which is what `Held # 0` is for. `PushIs` says
  what a push does in each of its cases.

**Credentials.** `LastExport`: while exports have not overlapped, one at most is
under way, on the file with the temporary name, and the target is the last one
renamed. `PickBest`, by induction over the fold, says that no readable cache is
better than the pick.

**RemoteStream.** `CallsInv`: the buffer's calls are those whose first fragment
came, in that order and with its name and id (`Matched`), and each has the pieces
before those still to come, which say nothing new of it (`Coming`). A fragment
keeps it (`OneFragment`), and so does every prefix of an event's fragments
(`FragmentsTaken`): the model's event decides which fragments are first by what
was there before it, which is the same because an event has one fragment of a
call. `KeptTogether` is for the end: calls without a name are left out of the
order and of the first fragments at the same places.

**Settings.** `ChoiceKept`: as long as no other file comes first, the app's own
file is whole and gives, when loaded, what the user's last saved choice means,
and the running app has that choice or what it made of it at a start. It is kept
by a start, which saves what it loaded, because making a value of a file's twice
changes nothing. For lists that is a fact on `cleanStringSlice`, by induction over
its fold (`CleanSteps`): the result is clean (`CleanIsClean`), and of a clean list
nothing is left out (`CleanStays`). `Precedence` speaks of the layers in any
state of the files, and follows from the types and the same facts.

**Conversation.** The invariant is small: the turns are typed, and each result
answers a call of the turn before (`ConversationInv`). The work is in the
functions. Every filter, rewriting and concatenation of the code is a `Spread`, a
list whose elements are each replaced by a list, and the second part of
`FoldTheorems` says how these compose (`SpreadTwice`), split (`SpreadJoin`),
cancel (`SpreadCancelled`, `SpreadRestored`) and where an element of the result
comes from (`SpreadFind`), by induction over the list. With it the requests of all
three formats are `Spread(PartsOf(format), conv)`: `AnthropicIs`,
`OpenAIMessagesAre` and `ResponsesMessagesAre`, so that what remains are facts
about the messages of one turn.

* `ResultsFollowCalls`: a result among the messages is in the part of a turn, its
  call in that of the turn before, after which only calls come (`ResultTurn`,
  `CallTurn`); the two parts meet (`ResultPlaced`).
* `NothingLost`: the text of a turn's messages is what the turn says, and the
  prompt, the structured messages and the messages with the context of an image
  keep it (`FreshPrompt`, `SentTells`, `DescribedPrompt`).
* `FormatsAgree`: the prompt depends only on the entries with a text, the question
  about images only on the users' messages. Both are
  the same spread of the turns in the formats compared (`EntriesSame`,
  `UsersSame`); the entries of an Anthropic turn that mixes words with results are
  not, which is the exception in the property.

**Frames.** `EncodedIs` says where a frame's header ends and its length stands,
`ReadingIs` what either reader makes of a buffer that begins with a frame or a
part of one, and `ReadInv` that buffer and wire together are what was written
from the next frame on. `FlattenLayout` is where in the stream each frame begins.

**FoldTheorems.** The library's induction theorems take an operator as a
parameter, which no installed prover can instantiate. The same principle is
first-order when it speaks of a set: `NumberInduction` and `BoundedInduction`
follow from the library's well-founded ordering of finite sets by inclusion.
`FoldExists` says that `FoldLeft` over a function has its intermediate results,
`FlattenSteps` the same of `FlattenSeq`; the proofs about lists, picks, frames
and streams go over these. `IsList` and the lemmas on it are about sequences
whose elements need no common type.

Every invariant and every safety property of the steps that a passing run checks
is a theorem. Only model-checked is liveness, which is out of TLAPS's reach as is
`ENABLED`: `PromptReturns`, `NobodyWaitsForever`, `RequestEnds`, `WaiterServed`,
`GenerationEnds` and `ShutdownEnds`. A theorem is about the module's actions:
those of `Conversation` give a user's turn at most one text and one image,
whatever the bounds, and an assistant's at most one text.
Type invariants are proved for `IpcClient`, `IpcSession`, `ChatGate`,
`RemoteFallback`, `RemoteModels` and `Desktop` (the first two are checked in runs
as well); the others document their modules' variables.

## 5. Not modelled

* The wording of prompts and tool calls, tool definitions and tool choice,
  sampling parameters, the loading and scaling of images: data whose verdicts are
  free choices here, where a property depends on them.
* Discovery of sockets, ports and info files, the search of configuration files
  and logs for a URL, the decryption of login caches, signing: file inspection
  and cryptography without interaction.
* The HTTP recorder and the debug pages: a bounded log under a mutex.
* The frontend, the server bundle, build scripts and the model query tool: no
  shared state of interest.
* Temporary image files, sessions the runtime
  made after the proxy gave up: see the notes of the hazards.

## 6. Plan

Done: `IpcClient`, `StickySession`, `IpcSession`, `ChatGate`, `RemoteFallback`,
`RemoteModels`, `Desktop`, `AnswerStream`, `Credentials`, `Frames`,
`RemoteStream`, `Conversation` and `Settings`, all with proofs. Next, where the
code changes: content of a turn in more than one block of a kind, a Responses
output that is a list of blocks, and the mapping of model names.

`MC` modules instantiate a module for TLC, one for each, but for `MCParts`.
