---------------------------- MODULE RemoteModels ----------------------------
(***************************************************************************)
(* internal/remote/client.go and internal/service/service.go: listing the  *)
(* models of the remote backend.  Calls overlap: every client of the proxy *)
(* and the warm-up use one remote.Client.                                  *)
(*                                                                         *)
(* Without a configured base URL the client asks the URL it has, then each *)
(* URL found in configuration files, and keeps the one that answers, in    *)
(* memory (c.cfg.BaseURL), and its scheme and host in a cache file for the *)
(* next start, if that can be written.  Nothing guards c.cfg.BaseURL.  A   *)
(* Go string is two words, pointer and length, so a URL is written in two  *)
(* steps, and a reader or a second writer between them makes a value that  *)
(* is no URL: a pair of different URLs here.                               *)
(*                                                                         *)
(* Models of the fallback list that the upstream leaves out are probed and *)
(* the verdicts cached for a while.  Time passes in ticks.                 *)
(***************************************************************************)
EXTENDS Integers, SequencesExt

CONSTANTS
  Callers, Urls, Models,
  Hints,      \* the URLs read from configuration files, in the order of the files
  Score,      \* how much a URL is preferred
  Normal,     \* its scheme and host, or None: no API is served there
  DefaultUrl, Explicit,
  Probeable,  \* the models a listing may probe
  AvailableTTL, UnavailableTTL,
  Configs,    \* whether a base URL is to be found, the fallback list, and the
              \* bounds: how many listings begin, and how much time passes
  None

ASSUME ModelsAssumption ==
  /\ Hints \in Seq(Urls) /\ Score \in [Urls -> Nat]
  /\ DefaultUrl \in Urls /\ Explicit \in Urls
  /\ Normal \in [Urls -> Urls \cup {None}]
  /\ \A url \in Urls : Normal[url] # None => Normal[Normal[url]] = Normal[url]
  /\ Probeable \subseteq Models
  /\ AvailableTTL \in Nat /\ UnavailableTTL \in 1..AvailableTTL
  /\ \A conf \in Configs :
       /\ conf.auto \in BOOLEAN /\ conf.load \in Nat /\ conf.time \in Nat
       /\ conf.fallbacks \in Seq(Models)
       /\ \A i, j \in DOMAIN conf.fallbacks : conf.fallbacks[i] = conf.fallbacks[j] => i = j
  /\ None \notin Urls \X Urls

\* A string value: where its bytes are, and how many are read.
Values == Urls \X Urls
Whole(url) == <<url, url>>
IsUrl(value) == value[1] = value[2]

VARIABLES
  config,
  base,       \* c.cfg.BaseURL
  file,       \* the cached "last successful" URL
  probes,     \* s.remoteProbeCache
  now,
  pc, call,
  calls,      \* how many listings have begun
  \* History, for the properties:
  answered,   \* the URLs that have answered a listing
  overlapped, \* two listings have been under way at once
  lastProbe   \* when the last probe with this verdict began, by model

vars == <<config, base, file, probes, now, pc, call, calls, answered, overlapped, lastProbe>>
history == <<calls, answered, overlapped, lastProbe>>

NoCall == [first |-> TRUE, ctxDone |-> FALSE, target |-> None, previous |-> None, cached |-> None,
           todo |-> {}, saving |-> None, left |-> {}, since |-> 0, chatTo |-> None,
           listed |-> {}, alone |-> TRUE, initial |-> None, found |-> None, tried |-> {}, unsaved |-> FALSE]

Active(c) == pc[c] \notin {"idle", "listed", "failed"}

Steps == {"idle", "send", "asked", "next", "swap", "restore", "write",
          "probe", "probing", "listed", "failed"}

\* Whose models are listed, which are still to be probed (left, by their place
\* in the fallback list), and which URLs are still to be tried (todo); for the
\* properties, what was in memory (initial) and file (found) when the call began,
\* what it has tried, and whether its answer could not be cached.
CallState ==
  [first : BOOLEAN, ctxDone : BOOLEAN, target : Values \cup {None}, previous : Values \cup {None},
   cached : Values \cup {None}, todo : SUBSET Values, saving : Values \cup {None}, left : SUBSET Nat,
   since : Nat, chatTo : Values \cup {None}, listed : SUBSET Models, alone : BOOLEAN,
   initial : Values \cup {None}, found : Values \cup {None}, tried : SUBSET Values, unsaved : BOOLEAN]

TypeOK ==
  /\ config \in Configs /\ base \in Values /\ file \in Values \cup {None}
  /\ probes \in [Models -> [ok : BOOLEAN, expires : Nat]]
  /\ now \in 0..config.time
  /\ pc \in [Callers -> Steps]
  /\ call \in [Callers -> CallState]
  /\ \A c \in Callers :
       /\ pc[c] \in {"swap", "asked"} => call[c].target \in Values
       /\ pc[c] = "probing" => call[c].chatTo \in Values
       /\ pc[c] \in {"swap", "restore"} \/ (pc[c] \in {"send", "asked"} /\ ~call[c].first) => call[c].previous \in Values
       /\ pc[c] = "write" => call[c].saving \in Values
       /\ call[c].left \subseteq DOMAIN config.fallbacks
  /\ calls \in 0..config.load
  /\ answered \subseteq Urls /\ overlapped \in BOOLEAN
  /\ lastProbe \in [BOOLEAN -> [Models -> -1..config.time]]

-----------------------------------------------------------------------------
(* Which URLs there are to try, and in which order *)

Hinted(value) == IsUrl(value) /\ value[1] \in ToSet(Hints)

Candidates(cached) ==
  ({cached} \ {None}) \cup {Whole(url) : url \in ToSet(Hints) \cup {DefaultUrl}}

\* sort.SliceStable by descending score: of equals, the one that is found first.
Preferred(u, v) ==
  \/ Score[u] > Score[v]
  \/ Score[u] = Score[v] /\ \E i \in DOMAIN Hints : Hints[i] = u /\ \A j \in 1..i : Hints[j] # v

\* The cached URL, then the hints, then the default URL.
Before(cached, value, other) ==
  \/ value = cached
  \/ /\ other # cached
     /\ ~Hinted(other) \/ (Hinted(value) /\ Preferred(value[1], other[1]))

First(values, cached) == {v \in values : \A w \in values \ {v} : Before(cached, v, w)}

\* What a new client starts with.
Resolve(cached) == IF config.auto THEN First(Candidates(cached), cached) ELSE {Whole(Explicit)}

ProbeList(own) == {i \in DOMAIN config.fallbacks : config.fallbacks[i] \in Probeable \ own}

Init ==
  /\ config \in Configs
  /\ file = None
  /\ base \in Resolve(None)
  /\ probes = [m \in Models |-> [ok |-> FALSE, expires |-> 0]]
  /\ now = 0
  /\ pc = [c \in Callers |-> "idle"]
  /\ call = [c \in Callers |-> NoCall]
  /\ calls = 0 /\ answered = {} /\ overlapped = FALSE
  /\ lastProbe = [ok \in BOOLEAN |-> [m \in Models |-> -1]]

-----------------------------------------------------------------------------
(* remote.Client.ListModels *)

Become(c, record) == call' = [call EXCEPT ![c] = record]

Begin(c) ==
  LET others == {d \in Callers \ {c} : Active(d)} IN
  /\ ~Active(c)
  /\ calls < config.load
  /\ pc' = [pc EXCEPT ![c] = "send"]
  /\ call' = [d \in Callers |->
       IF d = c THEN [NoCall EXCEPT !.alone = (others = {}), !.initial = base, !.found = file]
       ELSE [call[d] EXCEPT !.alone = @ /\ d \notin others]]
  /\ calls' = calls + 1
  /\ overlapped' = (overlapped \/ others # {})
  /\ UNCHANGED <<config, base, file, probes, now, answered, lastProbe>>

\* listModels reads the base URL that is there now.
Send(c) ==
  /\ pc[c] = "send"
  /\ pc' = [pc EXCEPT ![c] = "asked"]
  /\ Become(c, [call[c] EXCEPT !.target = base, !.tried = @ \cup {base}])
  /\ UNCHANGED <<config, base, file, probes, now, history>>

\* normalizeRemoteBaseURLHint: what is cached of a value, if anything; a broken
\* one may parse.
CacheForm(value) ==
  IF IsUrl(value) THEN {Whole(url) : url \in {Normal[value[1]]} \ {None}} ELSE {value}

\* The list arrives with the models in own among others.  The base URL is read again to be
\* cached; os.WriteFile empties the file before it writes.  Nothing is written of a value that
\* has no normal form, or to a file that cannot be opened.
Answered(c) ==
  /\ pc[c] = "asked" /\ IsUrl(call[c].target)
  /\ answered' = answered \cup {call[c].target[1]}
  /\ \E own \in SUBSET Probeable :
       LET record == [NoCall EXCEPT !.listed = own, !.left = ProbeList(own), !.target = call[c].target,
                                    !.alone = call[c].alone, !.found = call[c].found]
       IN  \/ /\ config.auto
              /\ \E value \in CacheForm(base) : Become(c, [record EXCEPT !.saving = value])
              /\ file' = None
              /\ pc' = [pc EXCEPT ![c] = "write"]
           \/ /\ Become(c, [record EXCEPT !.unsaved = TRUE])
              /\ pc' = [pc EXCEPT ![c] = "probe"]
              /\ UNCHANGED file
  /\ UNCHANGED <<config, base, probes, now, calls, overlapped, lastProbe>>

\* It may break off; and a longer text that another call has written since stays
\* behind this one: no JSON.
Write(c) ==
  /\ pc[c] = "write"
  /\ \E unsaved \in BOOLEAN :
       /\ file' = IF unsaved THEN None ELSE call[c].saving
       /\ Become(c, [call[c] EXCEPT !.saving = None, !.unsaved = unsaved])
  /\ pc' = [pc EXCEPT ![c] = "probe"]
  /\ UNCHANGED <<config, base, probes, now, history>>

Leave(c, ctxDone) == Become(c, [NoCall EXCEPT !.ctxDone = ctxDone])

\* The candidates but the URL that has failed.
Search(c) ==
  Become(c, [call[c] EXCEPT !.first = FALSE, !.todo = Candidates(file) \ {base}, !.cached = file])

\* Mutant: a candidate that fails stays.
FailedKeeps(c) ==
  /\ pc[c] = "asked" /\ config.auto
  /\ IF call[c].first THEN Search(c) ELSE UNCHANGED call
  /\ pc' = [pc EXCEPT ![c] = "next"]
  /\ UNCHANGED <<config, base, file, probes, now, history>>

\* No credential, no connection, an error status, no JSON, the end of the
\* request's context: the first URL's failure leads to the candidates, a
\* candidate's to its undoing.
Failed(c) ==
  /\ pc[c] = "asked"
  /\ \/ /\ call[c].first
        /\ \E ctxDone \in BOOLEAN : (ctxDone \/ ~config.auto) /\ Leave(c, ctxDone)
        /\ pc' = [pc EXCEPT ![c] = "failed"]
        /\ UNCHANGED base
     \/ /\ call[c].first /\ config.auto
        /\ Search(c)
        /\ pc' = [pc EXCEPT ![c] = "next"]
        /\ UNCHANGED base
     \/ /\ ~call[c].first
        /\ base' = [base EXCEPT ![1] = call[c].previous[1]]
        /\ pc' = [pc EXCEPT ![c] = "restore"]
        /\ UNCHANGED call
  /\ UNCHANGED <<config, file, probes, now, history>>

\* Mutant: a candidate is cached before it has answered.
TryCaches(c) ==
  /\ pc[c] = "next"
  /\ \E v \in First(call[c].todo, call[c].cached) :
       /\ base' = [base EXCEPT ![1] = v[1]]
       /\ file' = v
       /\ Become(c, [call[c] EXCEPT !.previous = base, !.target = v, !.todo = @ \ {v}])
  /\ pc' = [pc EXCEPT ![c] = "swap"]
  /\ UNCHANGED <<config, probes, now, history>>

\* A candidate takes the place of the base URL for the time of a request ...
Try(c) ==
  /\ pc[c] = "next"
  /\ \E v \in First(call[c].todo, call[c].cached) :
       /\ base' = [base EXCEPT ![1] = v[1]]
       /\ Become(c, [call[c] EXCEPT !.previous = base, !.target = v, !.todo = @ \ {v}])
  /\ pc' = [pc EXCEPT ![c] = "swap"]
  /\ UNCHANGED <<config, file, probes, now, history>>

Swap(c) ==
  /\ pc[c] = "swap"
  /\ base' = [base EXCEPT ![2] = call[c].target[2]]
  /\ pc' = [pc EXCEPT ![c] = "send"]
  /\ UNCHANGED <<config, file, probes, now, call, history>>

\* ... and what was there before comes back when it fails.
Restore(c) ==
  /\ pc[c] = "restore"
  /\ base' = [base EXCEPT ![2] = call[c].previous[2]]
  /\ \/ pc' = [pc EXCEPT ![c] = "next"] /\ Become(c, [call[c] EXCEPT !.previous = None])
     \/ pc' = [pc EXCEPT ![c] = "failed"] /\ Leave(c, TRUE)
  /\ UNCHANGED <<config, file, probes, now, history>>

GiveUp(c) ==
  /\ pc[c] = "next" /\ call[c].todo = {}
  /\ pc' = [pc EXCEPT ![c] = "failed"]
  /\ Leave(c, FALSE)
  /\ UNCHANGED <<config, base, file, probes, now, history>>

-----------------------------------------------------------------------------
(* Service.ListModels: the probes of fallback models that were not listed *)

\* Mutant: a verdict does not expire.
CachedForEver(m) == probes[m].expires > 0

Cached(m) == now < probes[m].expires
TTL(ok) == IF ok THEN AvailableTTL ELSE UnavailableTTL

\* The next model to probe.
Upcoming(c, i) == i \in call[c].left /\ \A j \in call[c].left : i <= j

Verdict(c, i, ok) ==
  Become(c, [call[c] EXCEPT !.left = @ \ {i}, !.listed = IF ok THEN @ \cup {config.fallbacks[i]} ELSE @,
                            !.since = 0, !.chatTo = None])

ProbeCached(c, i) ==
  /\ pc[c] = "probe" /\ Upcoming(c, i)
  /\ Cached(config.fallbacks[i])
  /\ Verdict(c, i, probes[config.fallbacks[i]].ok)
  /\ UNCHANGED <<config, base, file, probes, now, pc, history>>

ProbeStart(c, i) ==
  /\ pc[c] = "probe" /\ Upcoming(c, i)
  /\ ~Cached(config.fallbacks[i])
  /\ Become(c, [call[c] EXCEPT !.since = now, !.chatTo = base])
  /\ pc' = [pc EXCEPT ![c] = "probing"]
  /\ UNCHANGED <<config, base, file, probes, now, history>>

\* The verdict is stored whatever another probe has stored since; a probe whose
\* client left is stored as a failure.
ProbeEnd(c, i) ==
  /\ pc[c] = "probing" /\ Upcoming(c, i)
  /\ \E ok \in BOOLEAN :
       LET m == config.fallbacks[i]
           since == call[c].since
       IN  /\ ok => IsUrl(call[c].chatTo)
           /\ probes' = [probes EXCEPT ![m] = [ok |-> ok, expires |-> since + TTL(ok)]]
           /\ Verdict(c, i, ok)
           /\ lastProbe' = [lastProbe EXCEPT ![ok][m] = IF @ > since THEN @ ELSE since]
  /\ pc' = [pc EXCEPT ![c] = "probe"]
  /\ UNCHANGED <<config, base, file, now, calls, answered, overlapped>>

Listed(c) ==
  /\ pc[c] = "probe" /\ call[c].left = {}
  /\ pc' = [pc EXCEPT ![c] = "listed"]
  /\ Become(c, NoCall)
  /\ UNCHANGED <<config, base, file, probes, now, history>>

\* A probe takes at most 8 seconds: less than a tick.
Tick ==
  /\ now < config.time
  /\ \A c \in Callers : pc[c] = "probing" => call[c].since = now
  /\ now' = now + 1
  /\ UNCHANGED <<config, base, file, probes, pc, call, history>>

\* The process ends at any moment and starts again: remote.New reads the file.
Restart ==
  /\ base' \in Resolve(file)
  /\ probes' = [m \in Models |-> [ok |-> FALSE, expires |-> 0]]
  /\ pc' = [c \in Callers |-> "idle"]
  /\ call' = [c \in Callers |-> NoCall]
  /\ UNCHANGED <<config, file, now, history>>

Next ==
  \/ Tick
  \/ Restart
  \/ \E c \in Callers :
       \/ Begin(c) \/ Send(c) \/ Answered(c) \/ Write(c) \/ Failed(c)
       \/ Try(c) \/ Swap(c) \/ Restore(c) \/ GiveUp(c)
       \/ \E i \in DOMAIN config.fallbacks : ProbeCached(c, i) \/ ProbeStart(c, i) \/ ProbeEnd(c, i)
       \/ Listed(c)

Spec == Init /\ [][Next]_vars

-----------------------------------------------------------------------------
(* Properties *)

\* As long as listings do not overlap, what the cache file calls the last
\* successful remote domain is the scheme and host of a URL that has answered,
\* whichever candidates failed and wherever the process was killed.  (Of a URL
\* with a path the path is lost: the next start asks the bare domain first,
\* which may never have answered.)  With two at once the code lets a call that
\* succeeded cache the URL another call is trying out.
CacheHonest ==
  ~overlapped => file = None \/ \E url \in answered : file \in CacheForm(Whole(url))

\* A race between calls does not outlive the next listing that runs alone: if
\* that one succeeds, it leaves in memory the URL it was answered from, and in
\* the file that one's scheme and host, or, if that could not be written, what
\* was there before or nothing; if it fails it leaves both as it found them,
\* and has tried every candidate unless its client left.
AloneSettles ==
  [][\A c \in Callers : config.auto /\ call[c].alone /\ Active(c) =>
       /\ pc'[c] = "listed" =>
            /\ base = call[c].target /\ base[1] \in answered
            /\ IF call[c].unsaved THEN file \in {None, call[c].found} ELSE file \in CacheForm(base)
       /\ pc'[c] = "failed" =>
            /\ base' = call[c].initial /\ file' = call[c].found
            /\ call'[c].ctxDone \/ Candidates(None) \subseteq call[c].tried]_vars

\* Probes that overlap, fail, are cancelled or outlive their verdicts: a model
\* the upstream did not list is in a listing only if a probe of it was answered
\* within the time a good verdict holds, and left out only if one failed within
\* the time a bad verdict holds.
FreshVerdict ==
  [][\A c \in Callers : \A i \in call[c].left :
       pc'[c] = "probe" /\ call'[c].left = call[c].left \ {i} =>
         LET m == config.fallbacks[i]
             ok == m \in call'[c].listed
         IN  /\ lastProbe'[ok][m] >= 0
             /\ now - lastProbe'[ok][m] <= TTL(ok)]_vars
=============================================================================
