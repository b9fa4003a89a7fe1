------------------------ MODULE RemoteModels_proofs ------------------------
(* Inductive invariant of RemoteModels, and its theorems: the cached URL,  *)
(* listings that run alone, and probe verdicts, for any callers, URLs,     *)
(* hints, models, times of validity and number of listings.  Of            *)
(* Credentials: exports which do not overlap leave a whole login, and the  *)
(* login picked is the best that can be read, for any exporters, logins    *)
(* and lists of caches.  Of RemoteStream: the answer is what was streamed, *)
(* for any calls, number of pieces and amount of text.                     *)
EXTENDS RemoteModels, Credentials, RemoteStream, FoldTheorems, SequenceTheorems, TLAPS

(* A listing that nobody has disturbed.                                    *)
Lone(c) == Active(c) /\ call[c].alone

AloneInv ==
  /\ \A c, d \in Callers : Lone(c) /\ Active(d) => c = d
  /\ ~overlapped => \A c \in Callers : Active(c) => call[c].alone

(* Where the base URL stands, and which candidates are left, at each step  *)
(* of such a listing.                                                      *)
Covered(c, more) == Candidates(None) \subseteq call[c].tried \cup call[c].todo \cup more

FirstInv(c) ==
  pc[c] \in {"send", "asked"} /\ call[c].first => base = call[c].initial

SearchInv(c) ==
  /\ pc[c] \in {"next", "swap", "restore"} => ~call[c].first
  /\ pc[c] \in {"send", "asked", "swap", "restore"} /\ ~call[c].first => call[c].previous = call[c].initial
  /\ pc[c] = "next" => base = call[c].initial
  /\ pc[c] = "swap" => base[1] = call[c].target[1]
  /\ pc[c] = "restore" => base[1] = call[c].initial[1]
  /\ pc[c] \in {"next", "restore"} \/ (pc[c] = "asked" /\ ~call[c].first) => Covered(c, {})
  /\ pc[c] = "send" /\ ~call[c].first => Covered(c, {base})
  /\ pc[c] = "swap" => Covered(c, {call[c].target})

AnswerInv(c) ==
  /\ pc[c] = "asked" => base = call[c].target /\ base \in call[c].tried
  /\ pc[c] \in {"write", "probe", "probing"} =>
       base = call[c].target /\ IsUrl(base) /\ base[1] \in answered

(* And the cache file: as it was, emptied, or with what was answered.      *)
FileInv(c) ==
  /\ pc[c] \in {"send", "asked", "next", "swap", "restore"} => file = call[c].found
  /\ pc[c] = "write" => call[c].saving \in CacheForm(base) /\ file = None
  /\ pc[c] \in {"probe", "probing"} =>
       IF call[c].unsaved THEN file \in {None, call[c].found} ELSE file \in CacheForm(base)

LoneInv ==
  config.auto => \A c \in Callers : Lone(c) => FirstInv(c) /\ SearchInv(c) /\ AnswerInv(c) /\ FileInv(c)

(* A verdict that counts comes from a probe that is recent enough.         *)
ProbeInv ==
  \A m \in Models :
    LET verdict == probes[m]
    IN  now < verdict.expires =>
          /\ lastProbe[verdict.ok][m] >= 0
          /\ verdict.expires <= lastProbe[verdict.ok][m] + TTL(verdict.ok)

(* A model still to be probed is not listed yet.                           *)
LeftInv ==
  \A c \in Callers :
    /\ pc[c] \notin {"write", "probe", "probing"} => call[c].left = {}
    /\ \A i \in call[c].left : config.fallbacks[i] \notin call[c].listed
    /\ pc[c] = "probing" => call[c].since \in {now - 1, now}
    /\ pc[c] = "write" => config.auto

IInv == TypeOK /\ AloneInv /\ LoneInv /\ CacheHonest /\ ProbeInv /\ LeftInv
-----------------------------------------------------------------------------
USE DEF history

(* TypeOK in two parts: the records of the calls, and the rest.            *)
TypePlain ==
  /\ config \in Configs /\ base \in Values /\ file \in Values \cup {None}
  /\ probes \in [Models -> [ok : BOOLEAN, expires : Nat]]
  /\ now \in 0..config.time
  /\ pc \in [Callers -> Steps]
  /\ calls \in 0..config.load
  /\ answered \subseteq Urls /\ overlapped \in BOOLEAN
  /\ lastProbe \in [BOOLEAN -> [Models -> -1..config.time]]

TypeCall(c) ==
  /\ pc[c] \in {"swap", "asked"} => call[c].target \in Values
  /\ pc[c] = "probing" => call[c].chatTo \in Values
  /\ pc[c] \in {"swap", "restore"} \/ (pc[c] \in {"send", "asked"} /\ ~call[c].first) =>
       call[c].previous \in Values
  /\ pc[c] = "write" => call[c].saving \in Values
  /\ call[c].left \subseteq DOMAIN config.fallbacks

CallsTyped == call \in [Callers -> CallState] /\ \A c \in Callers : TypeCall(c)

LEMMA ConfigTyped ==
  ASSUME config \in Configs
  PROVE  /\ config.time \in Nat /\ config.load \in Nat
         /\ config.fallbacks \in Seq(Models) /\ DOMAIN config.fallbacks \subseteq Nat
         /\ \A i, j \in DOMAIN config.fallbacks : config.fallbacks[i] = config.fallbacks[j] => i = j
BY ModelsAssumption DEF ModelsAssumption

LEMMA CandidatesTyped ==
  ASSUME NEW cached \in Values \cup {None}
  PROVE  Candidates(cached) \subseteq Values /\ Candidates(None) \subseteq Candidates(cached)
BY ModelsAssumption DEF Candidates, ModelsAssumption, Values, Whole, ToSet

LEMMA SameValue ==
  ASSUME NEW v \in Values, NEW w \in Values, v[1] = w[1], v[2] = w[2]
  PROVE  v = w
BY DEF Values

-----------------------------------------------------------------------------
(* What a step makes of the record of its call.                            *)
Stepped(c) == call' \in [Callers -> CallState] /\ \A d \in Callers : d # c => call'[d] = call[d]

SameFound(c) == call'[c].found = call[c].found /\ call'[c].unsaved = call[c].unsaved

SameSearch(c) ==
  /\ call'[c].first = call[c].first /\ call'[c].previous = call[c].previous
  /\ call'[c].initial = call[c].initial /\ call'[c].todo = call[c].todo

SameProbes(c) ==
  call'[c].left = call[c].left /\ call'[c].listed = call[c].listed

LEMMA BecomeStep ==
  ASSUME call \in [Callers -> CallState], NEW c \in Callers, NEW r \in CallState, Become(c, r)
  PROVE  Stepped(c) /\ call'[c] = r
BY DEF Become, Stepped

LEMMA NoCallTyped ==
  /\ NoCall \in CallState
  /\ NoCall.left = {} /\ NoCall.listed = {}
BY DEF NoCall, CallState

LEMMA LeaveEffect ==
  ASSUME TypeOK, NEW c \in Callers, NEW ctxDone \in BOOLEAN, Leave(c, ctxDone)
  PROVE  Stepped(c) /\ call'[c].left = {} /\ call'[c].ctxDone = ctxDone
<1> DEFINE r == [NoCall EXCEPT !.ctxDone = ctxDone]
<1>1. r \in CallState /\ r.left = {} /\ r.ctxDone = ctxDone
  BY DEF NoCall, CallState
<1>2. Become(c, r)
  BY DEF Leave
<1> HIDE DEF r
<1>3. QED
  BY <1>1, <1>2, BecomeStep DEF TypeOK

LEMMA SendEffect ==
  ASSUME TypeOK, NEW c \in Callers, Send(c)
  PROVE  /\ Stepped(c) /\ SameFound(c) /\ SameSearch(c) /\ SameProbes(c)
         /\ call'[c].alone = call[c].alone
         /\ call'[c].target = base /\ call'[c].tried = call[c].tried \cup {base}
<1> DEFINE r == [call[c] EXCEPT !.target = base, !.tried = @ \cup {base}]
<1>1. call[c] \in CallState /\ base \in Values
  BY DEF TypeOK
<1>2. /\ r \in CallState
      /\ r.first = call[c].first /\ r.previous = call[c].previous /\ r.initial = call[c].initial
      /\ r.todo = call[c].todo /\ r.left = call[c].left /\ r.listed = call[c].listed /\ r.alone = call[c].alone
      /\ r.found = call[c].found /\ r.unsaved = call[c].unsaved
      /\ r.target = base /\ r.tried = call[c].tried \cup {base}
  BY <1>1 DEF CallState
<1>3. Become(c, r)
  BY DEF Send
<1> HIDE DEF r
<1>4. QED
  BY <1>2, <1>3, BecomeStep DEF TypeOK, SameFound, SameSearch, SameProbes

LEMMA CacheFormTyped ==
  ASSUME NEW value \in Values
  PROVE  CacheForm(value) \subseteq Values
BY ModelsAssumption DEF CacheForm, ModelsAssumption, Values, Whole

Saved(r, value) == [r EXCEPT !.saving = value]
Lost(r) == [r EXCEPT !.unsaved = TRUE]

Alike(r, q) ==
  /\ q \in CallState
  /\ q.alone = r.alone /\ q.target = r.target /\ q.found = r.found /\ q.first = r.first
  /\ q.left = r.left /\ q.listed = r.listed

LEMMA KeptAlike ==
  ASSUME NEW r \in CallState, NEW value \in Values
  PROVE  Alike(r, Saved(r, value)) /\ Saved(r, value).saving = value
BY DEF CallState, Alike, Saved

LEMMA LostAlike ==
  ASSUME NEW r \in CallState
  PROVE  Alike(r, Lost(r)) /\ Lost(r).unsaved = TRUE
BY DEF CallState, Alike, Lost

LEMMA AnsweredEffect ==
  ASSUME TypeOK, NEW c \in Callers, Answered(c)
  PROVE  /\ Stepped(c)
         /\ call'[c].alone = call[c].alone /\ call'[c].target = call[c].target /\ call'[c].found = call[c].found
         /\ call'[c].first = TRUE
         /\ call'[c].left \subseteq DOMAIN config.fallbacks
         /\ \A i \in call'[c].left : config.fallbacks[i] \notin call'[c].listed
         /\ \/ config.auto /\ call'[c].saving \in CacheForm(base) /\ file' = None /\ pc' = [pc EXCEPT ![c] = "write"]
            \/ call'[c].unsaved = TRUE /\ file' = file /\ pc' = [pc EXCEPT ![c] = "probe"]
<1> DEFINE record(own) == [NoCall EXCEPT !.listed = own, !.left = ProbeList(own), !.target = call[c].target,
                                         !.alone = call[c].alone, !.found = call[c].found]
<1> DEFINE Same(r, own) ==
      /\ r \in CallState
      /\ r.alone = call[c].alone /\ r.target = call[c].target /\ r.found = call[c].found /\ r.first = TRUE
      /\ r.left = ProbeList(own) /\ r.listed = own
<1>1. call[c] \in CallState /\ base \in Values /\ config \in Configs
  BY DEF TypeOK
<1>2. DOMAIN config.fallbacks \subseteq Nat /\ Probeable \subseteq Models
  BY <1>1, ModelsAssumption DEF ModelsAssumption
<1>3. ASSUME NEW own \in SUBSET Probeable PROVE Same(record(own), own)
  <2>1. ProbeList(own) \in SUBSET Nat /\ own \in SUBSET Models
    BY <1>2 DEF ProbeList
  <2>2. QED
    BY <1>1, <2>1 DEF CallState, NoCall
<1> HIDE DEF record
<1>4. ASSUME NEW own \in SUBSET Probeable, NEW q, Alike(record(own), q) PROVE Same(q, own)
  BY <1>3, <1>4 DEF Alike
<1>5. PICK own \in SUBSET Probeable :
        \/ /\ config.auto
           /\ \E value \in CacheForm(base) : Become(c, Saved(record(own), value))
           /\ file' = None
           /\ pc' = [pc EXCEPT ![c] = "write"]
        \/ /\ Become(c, Lost(record(own)))
           /\ pc' = [pc EXCEPT ![c] = "probe"]
           /\ UNCHANGED file
  BY DEF Answered, record, Saved, Lost
<1>6. record(own) \in CallState
  BY <1>3
<1>7. ProbeList(own) \subseteq DOMAIN config.fallbacks /\ \A i \in ProbeList(own) : config.fallbacks[i] \notin own
  BY DEF ProbeList
<1>8. CASE config.auto /\ (\E value \in CacheForm(base) : Become(c, Saved(record(own), value))) /\ file' = None
           /\ pc' = [pc EXCEPT ![c] = "write"]
  <2>1. PICK value \in CacheForm(base) : Become(c, Saved(record(own), value))
    BY <1>8
  <2>2. value \in Values
    BY <1>1, CacheFormTyped
  <2>3. Same(Saved(record(own), value), own) /\ Saved(record(own), value).saving = value
    BY <1>4, <1>6, <2>2, KeptAlike
  <2>4. Stepped(c) /\ call'[c] = Saved(record(own), value)
    BY <2>1, <2>3, BecomeStep DEF TypeOK
  <2>5. Same(call'[c], own) /\ call'[c].saving \in CacheForm(base)
    BY <2>3, <2>4
  <2>6. QED
    BY <1>7, <1>8, <2>4, <2>5
<1>9. CASE Become(c, Lost(record(own))) /\ pc' = [pc EXCEPT ![c] = "probe"] /\ UNCHANGED file
  <2>1. Same(Lost(record(own)), own) /\ Lost(record(own)).unsaved = TRUE
    BY <1>4, <1>6, LostAlike
  <2>2. Stepped(c) /\ call'[c] = Lost(record(own))
    BY <1>9, <2>1, BecomeStep DEF TypeOK
  <2>3. Same(call'[c], own) /\ call'[c].unsaved = TRUE
    BY <2>1, <2>2
  <2>4. QED
    BY <1>7, <1>9, <2>2, <2>3
<1>10. QED
  BY <1>5, <1>8, <1>9

LEMMA WriteEffect ==
  ASSUME TypeOK, NEW c \in Callers, Write(c)
  PROVE  /\ Stepped(c) /\ SameProbes(c)
         /\ call'[c].alone = call[c].alone /\ call'[c].target = call[c].target /\ call'[c].found = call[c].found
         /\ call'[c].unsaved \in BOOLEAN /\ file' = IF call'[c].unsaved THEN None ELSE call[c].saving
<1> DEFINE r(unsaved) == [call[c] EXCEPT !.saving = None, !.unsaved = unsaved]
<1>1. call[c] \in CallState
  BY DEF TypeOK
<1>2. ASSUME NEW unsaved \in BOOLEAN
      PROVE  /\ r(unsaved) \in CallState
             /\ r(unsaved).left = call[c].left /\ r(unsaved).listed = call[c].listed
             /\ r(unsaved).alone = call[c].alone /\ r(unsaved).target = call[c].target
             /\ r(unsaved).found = call[c].found /\ r(unsaved).unsaved = unsaved
  BY <1>1 DEF CallState
<1>3. PICK unsaved \in BOOLEAN : Become(c, r(unsaved)) /\ file' = IF unsaved THEN None ELSE call[c].saving
  BY DEF Write
<1> HIDE DEF r
<1>4. Stepped(c) /\ call'[c] = r(unsaved)
  BY <1>2, <1>3, BecomeStep DEF TypeOK
<1>5. QED
  BY <1>2, <1>3, <1>4 DEF SameProbes

LEMMA SearchEffect ==
  ASSUME TypeOK, NEW c \in Callers, Search(c)
  PROVE  /\ Stepped(c) /\ SameFound(c) /\ SameProbes(c)
         /\ call'[c].alone = call[c].alone /\ call'[c].initial = call[c].initial /\ call'[c].tried = call[c].tried
         /\ call'[c].first = FALSE /\ call'[c].todo = Candidates(file) \ {base}
<1> DEFINE r == [call[c] EXCEPT !.first = FALSE, !.todo = Candidates(file) \ {base}, !.cached = file]
<1>1. call[c] \in CallState /\ file \in Values \cup {None}
  BY DEF TypeOK
<1>2. Candidates(file) \ {base} \in SUBSET Values
  BY <1>1, ModelsAssumption DEF Candidates, ModelsAssumption, Values, Whole, ToSet
<1> HIDE DEF Candidates
<1>3. /\ r \in CallState
      /\ r.left = call[c].left /\ r.listed = call[c].listed /\ r.alone = call[c].alone
      /\ r.found = call[c].found /\ r.unsaved = call[c].unsaved /\ r.initial = call[c].initial /\ r.tried = call[c].tried
      /\ r.first = FALSE /\ r.todo = Candidates(file) \ {base}
  BY <1>1, <1>2 DEF CallState
<1>4. Become(c, r)
  BY DEF Search
<1> HIDE DEF r
<1>5. QED
  BY <1>3, <1>4, BecomeStep DEF TypeOK, SameFound, SameProbes

LEMMA TryEffect ==
  ASSUME TypeOK, NEW c \in Callers, Try(c)
  PROVE  /\ Stepped(c) /\ SameFound(c) /\ SameProbes(c)
         /\ call'[c].alone = call[c].alone /\ call'[c].initial = call[c].initial /\ call'[c].tried = call[c].tried
         /\ call'[c].first = call[c].first /\ call'[c].previous = base
         /\ call'[c].target \in Values /\ call[c].todo \subseteq call'[c].todo \cup {call'[c].target}
         /\ base' \in Values /\ base'[1] = call'[c].target[1]
<1> DEFINE r(v) == [call[c] EXCEPT !.previous = base, !.target = v, !.todo = @ \ {v}]
<1>1. call[c] \in CallState /\ base \in Values
  BY DEF TypeOK
<1>2. ASSUME NEW v \in Values
      PROVE  /\ r(v) \in CallState
             /\ r(v).left = call[c].left /\ r(v).listed = call[c].listed /\ r(v).alone = call[c].alone
             /\ r(v).found = call[c].found /\ r(v).unsaved = call[c].unsaved
             /\ r(v).initial = call[c].initial /\ r(v).tried = call[c].tried /\ r(v).first = call[c].first
             /\ r(v).previous = base /\ r(v).target = v /\ r(v).todo = call[c].todo \ {v}
  BY <1>1 DEF CallState
<1>3. PICK v \in First(call[c].todo, call[c].cached) : base' = [base EXCEPT ![1] = v[1]] /\ Become(c, r(v))
  BY DEF Try
<1>4. v \in Values
  BY <1>1, <1>3 DEF First, CallState
<1>5. base' \in Values /\ base'[1] = v[1]
  BY <1>1, <1>3, <1>4 DEF Values
<1> HIDE DEF r
<1>6. QED
  BY <1>2, <1>3, <1>4, <1>5, BecomeStep DEF TypeOK, SameFound, SameProbes

LEMMA ForgetEffect ==
  ASSUME TypeOK, NEW c \in Callers, Become(c, [call[c] EXCEPT !.previous = None])
  PROVE  /\ Stepped(c) /\ SameFound(c) /\ SameProbes(c)
         /\ call'[c].alone = call[c].alone /\ call'[c].initial = call[c].initial /\ call'[c].tried = call[c].tried
         /\ call'[c].first = call[c].first /\ call'[c].todo = call[c].todo
<1> DEFINE r == [call[c] EXCEPT !.previous = None]
<1>1. call[c] \in CallState
  BY DEF TypeOK
<1>2. /\ r \in CallState
      /\ r.left = call[c].left /\ r.listed = call[c].listed /\ r.alone = call[c].alone
      /\ r.found = call[c].found /\ r.unsaved = call[c].unsaved /\ r.initial = call[c].initial /\ r.tried = call[c].tried /\ r.first = call[c].first /\ r.todo = call[c].todo
  BY <1>1 DEF CallState
<1> HIDE DEF r
<1>3. QED
  BY <1>2, BecomeStep DEF TypeOK, SameFound, SameProbes, r

LEMMA VerdictEffect ==
  ASSUME TypeOK, NEW c \in Callers, NEW i \in DOMAIN config.fallbacks, NEW ok \in BOOLEAN, Verdict(c, i, ok)
  PROVE  /\ Stepped(c) /\ SameFound(c)
         /\ call'[c].alone = call[c].alone /\ call'[c].target = call[c].target
         /\ call'[c].left = call[c].left \ {i}
         /\ call'[c].listed = call[c].listed \cup {m \in {config.fallbacks[i]} : ok}
<1> DEFINE now_listed == IF ok THEN call[c].listed \cup {config.fallbacks[i]} ELSE call[c].listed
<1> DEFINE r == [call[c] EXCEPT !.left = @ \ {i}, !.listed = now_listed, !.since = 0, !.chatTo = None]
<1>1. call[c] \in CallState /\ config \in Configs
  BY DEF TypeOK
<1>2. now_listed \in SUBSET Models /\ call[c].left \ {i} \in SUBSET Nat
  BY <1>1, ModelsAssumption DEF ModelsAssumption, CallState
<1>3. Become(c, r) /\ now_listed = call[c].listed \cup {m \in {config.fallbacks[i]} : ok}
  BY DEF Verdict
<1> HIDE DEF now_listed
<1>4. /\ r \in CallState
      /\ r.alone = call[c].alone /\ r.target = call[c].target
      /\ r.found = call[c].found /\ r.unsaved = call[c].unsaved
      /\ r.left = call[c].left \ {i} /\ r.listed = now_listed
  BY <1>1, <1>2 DEF CallState
<1> HIDE DEF r
<1>5. QED
  BY <1>3, <1>4, BecomeStep DEF TypeOK, SameFound

LEMMA ProbeStartEffect ==
  ASSUME TypeOK, NEW c \in Callers, NEW i \in DOMAIN config.fallbacks, ProbeStart(c, i)
  PROVE  /\ Stepped(c) /\ SameFound(c) /\ SameProbes(c)
         /\ call'[c].alone = call[c].alone /\ call'[c].target = call[c].target
         /\ call'[c].since = now /\ call'[c].chatTo = base
<1> DEFINE r == [call[c] EXCEPT !.since = now, !.chatTo = base]
<1>1. call[c] \in CallState /\ base \in Values /\ now \in Nat
  BY ModelsAssumption DEF ModelsAssumption, TypeOK
<1>2. /\ r \in CallState
      /\ r.left = call[c].left /\ r.listed = call[c].listed /\ r.alone = call[c].alone /\ r.target = call[c].target
      /\ r.found = call[c].found /\ r.unsaved = call[c].unsaved
      /\ r.since = now /\ r.chatTo = base
  BY <1>1 DEF CallState
<1>3. Become(c, r)
  BY DEF ProbeStart
<1> HIDE DEF r
<1>4. QED
  BY <1>2, <1>3, BecomeStep DEF TypeOK, SameFound, SameProbes

Started(r, alone) == [r EXCEPT !.alone = alone, !.initial = base, !.found = file]

LEMMA StartedAlike ==
  ASSUME TypeOK, NEW r \in CallState, NEW alone \in BOOLEAN
  PROVE  /\ Started(r, alone) \in CallState
         /\ Started(r, alone).first = r.first /\ Started(r, alone).left = r.left
         /\ Started(r, alone).listed = r.listed /\ Started(r, alone).alone = alone
         /\ Started(r, alone).initial = base /\ Started(r, alone).found = file
BY DEF CallState, Started, TypeOK

LEMMA BeginEffect ==
  ASSUME TypeOK, NEW c \in Callers, Begin(c)
  PROVE  /\ call' \in [Callers -> CallState]
         /\ call'[c].first = TRUE /\ call'[c].initial = base /\ call'[c].found = file /\ call'[c].left = {} /\ call'[c].listed = {}
         /\ call'[c].alone = (\A d \in Callers : d # c => ~Active(d))
         /\ \A d \in Callers : d # c =>
              IF Active(d) THEN /\ call'[d].alone = FALSE
                                /\ call'[d].first = call[d].first /\ call'[d].target = call[d].target
                                /\ call'[d].previous = call[d].previous /\ call'[d].saving = call[d].saving
                                /\ call'[d].chatTo = call[d].chatTo /\ call'[d].since = call[d].since
                                /\ call'[d].left = call[d].left /\ call'[d].listed = call[d].listed
              ELSE call'[d] = call[d]
<1> DEFINE others == {d \in Callers \ {c} : Active(d)}
<1> DEFINE mine == [NoCall EXCEPT !.alone = (others = {}), !.initial = base, !.found = file]
<1> DEFINE theirs(d) == [call[d] EXCEPT !.alone = @ /\ d \notin others]
<1>1. base \in Values /\ file \in Values \cup {None} /\ \A d \in Callers : call[d] \in CallState
  BY DEF TypeOK
<1>2. /\ mine \in CallState /\ mine.first = TRUE /\ mine.initial = base /\ mine.found = file
      /\ mine.left = {} /\ mine.listed = {} /\ mine.alone = (others = {})
  <2>1. NoCall \in CallState /\ NoCall.first = TRUE /\ NoCall.left = {} /\ NoCall.listed = {}
    BY DEF CallState, NoCall
  <2> DEFINE none == others = {}
  <2>2. none \in BOOLEAN
    OBVIOUS
  <2>3. mine = Started(NoCall, none)
    BY DEF Started
  <2> HIDE DEF none, mine
  <2>4. QED
    BY <2>1, <2>2, <2>3, StartedAlike DEF none
<1>3. ASSUME NEW d \in Callers
      PROVE  /\ theirs(d) \in CallState
             /\ theirs(d).alone = (call[d].alone /\ d \notin others)
             /\ theirs(d).first = call[d].first /\ theirs(d).target = call[d].target
             /\ theirs(d).previous = call[d].previous /\ theirs(d).saving = call[d].saving
             /\ theirs(d).chatTo = call[d].chatTo /\ theirs(d).since = call[d].since
             /\ theirs(d).left = call[d].left /\ theirs(d).listed = call[d].listed
             /\ d \notin others => theirs(d) = call[d]
  BY <1>1 DEF CallState
<1>4. call' = [d \in Callers |-> IF d = c THEN mine ELSE theirs(d)]
  BY DEF Begin
<1> HIDE DEF mine, theirs
<1>5. call' \in [Callers -> CallState] /\ call'[c] = mine /\ \A d \in Callers : d # c => call'[d] = theirs(d)
  BY <1>2, <1>3, <1>4
<1>6. call'[c].alone = (\A d \in Callers : d # c => ~Active(d))
  <2>1. (others = {}) = (\A d \in Callers : d # c => ~Active(d))
    OBVIOUS
  <2> HIDE DEF others
  <2>2. QED
    BY <1>2, <1>5, <2>1
<1>7. ASSUME NEW d \in Callers, d # c
      PROVE  IF d \in others
             THEN /\ call'[d].alone = FALSE
                  /\ call'[d].first = call[d].first /\ call'[d].target = call[d].target
                  /\ call'[d].previous = call[d].previous /\ call'[d].saving = call[d].saving
                  /\ call'[d].chatTo = call[d].chatTo /\ call'[d].since = call[d].since
                  /\ call'[d].left = call[d].left /\ call'[d].listed = call[d].listed
             ELSE call'[d] = call[d]
  BY <1>3, <1>5, <1>7
<1>8. \A d \in Callers : d # c => (d \in others <=> Active(d))
  OBVIOUS
<1> HIDE DEF others
<1>9. QED
  BY <1>2, <1>5, <1>6, <1>7, <1>8

-----------------------------------------------------------------------------
(* What is not the record of a call keeps its type.                        *)
LEMMA TypePlainStep ==
  ASSUME TypeOK, LeftInv, TypePlain, CallsTyped, [Next]_vars
  PROVE  TypePlain'
<1> USE DEF TypePlain, Steps, CallsTyped
<1>1. CASE Tick
  BY <1>1, ConfigTyped DEF Tick
<1>2. CASE Restart
  <2>1. base' \in Values
    BY <1>2, CandidatesTyped, ModelsAssumption DEF Restart, Resolve, First, Whole, Values, ModelsAssumption
  <2>2. QED
    BY <1>2, <2>1 DEF Restart
<1>3. ASSUME NEW c \in Callers, Begin(c) PROVE TypePlain'
  <2>1. calls' = calls + 1 /\ calls < config.load /\ overlapped' \in BOOLEAN /\ pc' = [pc EXCEPT ![c] = "send"]
    BY <1>3 DEF Begin
  <2>2. calls' \in 0..config.load
    BY <2>1, ConfigTyped
  <2>3. UNCHANGED <<config, base, file, probes, now, answered, lastProbe>>
    BY <1>3 DEF Begin
  <2>4. QED
    BY <2>1, <2>2, <2>3 DEF Steps
<1>4. ASSUME NEW c \in Callers, Send(c) PROVE TypePlain'
  BY <1>4 DEF Send
<1>5. ASSUME NEW c \in Callers, Answered(c) PROVE TypePlain'
  <2>1. call[c].target \in Values
    BY <1>5 DEF Answered, TypeCall
  <2>2. answered' \subseteq Urls
    BY <1>5, <2>1 DEF Answered, Values
  <2>3. file' \in Values \cup {None} /\ pc' \in [Callers -> Steps]
    BY <1>5, AnsweredEffect
  <2>4. QED
    BY <1>5, <2>2, <2>3 DEF Answered
<1>6. ASSUME NEW c \in Callers, Write(c) PROVE TypePlain'
  <2>1. pc[c] = "write" /\ pc' = [pc EXCEPT ![c] = "probe"]
        /\ UNCHANGED <<config, base, probes, now, calls, answered, overlapped, lastProbe>>
    BY <1>6 DEF Write
  <2>2. file' \in Values \cup {None}
    BY <1>6, <2>1, WriteEffect DEF TypeCall
  <2>3. QED
    BY <2>1, <2>2
<1>7. ASSUME NEW c \in Callers, Failed(c) PROVE TypePlain'
  <2>1. base' \in Values
    BY <1>7 DEF Failed, TypeCall, Values
  <2>2. QED
    BY <1>7, <2>1 DEF Failed
<1>8. ASSUME NEW c \in Callers, Try(c) PROVE TypePlain'
  BY <1>8, TryEffect DEF Try
<1>9. ASSUME NEW c \in Callers, Swap(c) PROVE TypePlain'
  <2>1. base' \in Values
    BY <1>9 DEF Swap, TypeCall, Values
  <2>2. QED
    BY <1>9, <2>1 DEF Swap
<1>10. ASSUME NEW c \in Callers, Restore(c) PROVE TypePlain'
  <2>1. base' \in Values
    BY <1>10 DEF Restore, TypeCall, Values
  <2>2. QED
    BY <1>10, <2>1 DEF Restore
<1>11. ASSUME NEW c \in Callers, GiveUp(c) PROVE TypePlain'
  BY <1>11 DEF GiveUp, Leave
<1>12. ASSUME NEW c \in Callers, NEW i \in DOMAIN config.fallbacks, ProbeCached(c, i) PROVE TypePlain'
  BY <1>12 DEF ProbeCached, Verdict, Upcoming
<1>13. ASSUME NEW c \in Callers, NEW i \in DOMAIN config.fallbacks, ProbeStart(c, i) PROVE TypePlain'
  BY <1>13 DEF ProbeStart, Upcoming
<1>14. ASSUME NEW c \in Callers, NEW i \in DOMAIN config.fallbacks, ProbeEnd(c, i) PROVE TypePlain'
  <2> DEFINE m == config.fallbacks[i]
  <2> DEFINE since == call[c].since
  <2>1. PICK ok \in BOOLEAN :
          /\ probes' = [probes EXCEPT ![m] = [ok |-> ok, expires |-> since + TTL(ok)]]
          /\ lastProbe' = [lastProbe EXCEPT ![ok][m] = IF @ > since THEN @ ELSE since]
    BY <1>14 DEF ProbeEnd
  <2>2. config.time \in Nat /\ m \in Models
    BY ConfigTyped
  <2>3. pc[c] = "probing" /\ UNCHANGED <<config, base, file, now, calls, answered, overlapped>>
        /\ pc' = [pc EXCEPT ![c] = "probe"]
    BY <1>14 DEF ProbeEnd
  <2>4. since \in Nat
    BY DEF TypeOK, CallState
  <2>5. since \in 0..config.time
    <3>1. since \in {now - 1, now}
      BY <2>3 DEF LeftInv
    <3>2. now \in 0..config.time
      BY DEF TypeOK
    <3> HIDE DEF since
    <3>3. QED
      BY <2>2, <2>4, <3>1, <3>2
  <2>6. TTL(ok) \in Nat
    BY ModelsAssumption DEF TTL, ModelsAssumption
  <2> HIDE DEF m, since
  <2>7. probes' \in [Models -> [ok : BOOLEAN, expires : Nat]]
    <3>1. [ok |-> ok, expires |-> since + TTL(ok)] \in [ok : BOOLEAN, expires : Nat]
      BY <2>4, <2>6
    <3>2. QED
      BY <2>1, <2>2, <3>1
  <2>8. lastProbe' \in [BOOLEAN -> [Models -> -1..config.time]]
    <3>1. lastProbe \in [BOOLEAN -> [Models -> -1..config.time]]
      OBVIOUS
    <3>2. (IF lastProbe[ok][m] > since THEN lastProbe[ok][m] ELSE since) \in -1..config.time
      BY <2>2, <2>5, <3>1
    <3>3. QED
      BY <2>1, <2>2, <3>1, <3>2
  <2>9. QED
    BY <2>3, <2>7, <2>8 DEF Steps
<1>15. ASSUME NEW c \in Callers, Listed(c) PROVE TypePlain'
  BY <1>15 DEF Listed
<1>16. CASE UNCHANGED vars
  BY <1>16 DEF vars
<1> HIDE DEF TypePlain, Steps, CallsTyped
<1>17. QED
  BY <1>1, <1>2, <1>3, <1>4, <1>5, <1>6, <1>7, <1>8, <1>9, <1>10, <1>11, <1>12, <1>13, <1>14, <1>15, <1>16
  DEF Next

(* So do the records of the calls.                                         *)
LEMMA TypeCallsStep ==
  ASSUME TypeOK, CallsTyped, pc \in [Callers -> Steps], base \in Values, [Next]_vars
  PROVE  CallsTyped'
<1> USE DEF TypeCall, CallsTyped
<1>1. CASE Tick
  BY <1>1 DEF Tick
<1>2. CASE Restart
  BY <1>2, NoCallTyped DEF Restart
<1>3. ASSUME NEW c \in Callers, Begin(c) PROVE CallsTyped'
  <2>1. UNCHANGED config /\ pc'[c] = "send" /\ \A d \in Callers : d # c => pc'[d] = pc[d]
    BY <1>3 DEF Begin, Steps
  <2>2. TypeCall(c)'
    BY <1>3, <2>1, BeginEffect
  <2>3. ASSUME NEW d \in Callers, d # c PROVE TypeCall(d)'
    BY <1>3, <2>1, <2>3, BeginEffect
  <2>4. QED
    BY <1>3, <2>2, <2>3, BeginEffect
<1>4. ASSUME NEW c \in Callers, Send(c) PROVE CallsTyped'
  <2>1. UNCHANGED config /\ pc'[c] = "asked" /\ \A d \in Callers : d # c => pc'[d] = pc[d]
    BY <1>4 DEF Send, Steps
  <2>2. Stepped(c)
    BY <1>4, SendEffect DEF Send
  <2>3. TypeCall(c)'
    BY <1>4, <2>1, SendEffect DEF Send, Stepped, SameSearch, SameProbes
  <2>4. QED
    BY <2>1, <2>2, <2>3 DEF Stepped
<1>5. ASSUME NEW c \in Callers, Answered(c) PROVE CallsTyped'
  <2>1. UNCHANGED config /\ pc'[c] \in {"write", "probe"} /\ \A d \in Callers : d # c => pc'[d] = pc[d]
    BY <1>5 DEF Answered, Steps
  <2>2. Stepped(c)
    BY <1>5, AnsweredEffect DEF Answered
  <2>3. TypeCall(c)'
    <3>1. CacheForm(base) \subseteq Values
      BY CacheFormTyped
    <3>2. call'[c].left \subseteq DOMAIN config'.fallbacks
      BY <1>5, <2>1, AnsweredEffect
    <3>3. pc'[c] = "write" => call'[c].saving \in Values
      BY <1>5, <3>1, AnsweredEffect
    <3>4. QED
      BY <2>1, <3>2, <3>3
  <2>4. QED
    BY <2>1, <2>2, <2>3 DEF Stepped
<1>6. ASSUME NEW c \in Callers, Write(c) PROVE CallsTyped'
  <2>1. UNCHANGED config /\ pc'[c] = "probe" /\ \A d \in Callers : d # c => pc'[d] = pc[d]
    BY <1>6 DEF Write, Steps
  <2>2. Stepped(c)
    BY <1>6, WriteEffect DEF Write
  <2>3. TypeCall(c)'
    BY <1>6, <2>1, WriteEffect DEF Write, SameProbes
  <2>4. QED
    BY <2>1, <2>2, <2>3 DEF Stepped
<1>7. ASSUME NEW c \in Callers, Failed(c) PROVE CallsTyped'
  <2>1. UNCHANGED config /\ \A d \in Callers : d # c => pc'[d] = pc[d]
    BY <1>7 DEF Failed
  <2>2. CASE Search(c) /\ pc'[c] = "next"
    BY <2>1, <2>2, SearchEffect DEF Stepped, SameProbes
  <2>3. CASE pc'[c] = "failed" /\ \E ctxDone \in BOOLEAN : Leave(c, ctxDone)
    BY <2>1, <2>3, LeaveEffect DEF Stepped
  <2>4. CASE UNCHANGED call /\ ~call[c].first /\ pc[c] = "asked" /\ pc'[c] = "restore"
    BY <2>1, <2>4
  <2>5. QED
    BY <1>7, <2>2, <2>3, <2>4 DEF Failed, Steps
<1>8. ASSUME NEW c \in Callers, Try(c) PROVE CallsTyped'
  <2>1. UNCHANGED config /\ pc'[c] = "swap" /\ \A d \in Callers : d # c => pc'[d] = pc[d]
    BY <1>8 DEF Try, Steps
  <2>2. Stepped(c)
    BY <1>8, TryEffect DEF Try
  <2>3. TypeCall(c)'
    BY <1>8, <2>1, TryEffect DEF Try, SameProbes
  <2>4. QED
    BY <2>1, <2>2, <2>3 DEF Stepped
<1>9. ASSUME NEW c \in Callers, Swap(c) PROVE CallsTyped'
  <2>1. UNCHANGED <<config, call>> /\ pc[c] = "swap" /\ pc'[c] = "send" /\ \A d \in Callers : d # c => pc'[d] = pc[d]
    BY <1>9 DEF Swap, Steps
  <2>2. QED
    BY <2>1
<1>10. ASSUME NEW c \in Callers, Restore(c) PROVE CallsTyped'
  <2>1. UNCHANGED config /\ \A d \in Callers : d # c => pc'[d] = pc[d]
    BY <1>10 DEF Restore
  <2>2. CASE pc'[c] = "next" /\ Become(c, [call[c] EXCEPT !.previous = None])
    BY <2>1, <2>2, ForgetEffect DEF Stepped, SameProbes
  <2>3. CASE pc'[c] = "failed" /\ Leave(c, TRUE)
    BY <2>1, <2>3, LeaveEffect DEF Stepped
  <2>4. QED
    BY <1>10, <2>2, <2>3 DEF Restore, Steps
<1>11. ASSUME NEW c \in Callers, GiveUp(c) PROVE CallsTyped'
  <2>1. UNCHANGED config /\ pc'[c] = "failed" /\ \A d \in Callers : d # c => pc'[d] = pc[d]
    BY <1>11 DEF GiveUp, Steps
  <2>2. Stepped(c)
    BY <1>11, LeaveEffect DEF GiveUp
  <2>3. TypeCall(c)'
    BY <1>11, <2>1, LeaveEffect DEF GiveUp, Stepped
  <2>4. QED
    BY <2>1, <2>2, <2>3 DEF Stepped
<1>12. ASSUME NEW c \in Callers, NEW i \in DOMAIN config.fallbacks, ProbeCached(c, i) PROVE CallsTyped'
  <2> DEFINE ok == probes[config.fallbacks[i]].ok
  <2>1. UNCHANGED <<config, pc>> /\ pc[c] = "probe" /\ Verdict(c, i, ok) /\ ok \in BOOLEAN
    BY <1>12, ConfigTyped DEF ProbeCached, TypeOK
  <2> HIDE DEF ok
  <2>2. Stepped(c) /\ call'[c].left = call[c].left \ {i}
    BY <2>1, VerdictEffect
  <2>3. QED
    BY <2>1, <2>2 DEF Stepped
<1>13. ASSUME NEW c \in Callers, NEW i \in DOMAIN config.fallbacks, ProbeStart(c, i) PROVE CallsTyped'
  <2>1. UNCHANGED config /\ pc'[c] = "probing" /\ base \in Values /\ \A d \in Callers : d # c => pc'[d] = pc[d]
    BY <1>13 DEF ProbeStart, Steps
  <2>2. Stepped(c) /\ call'[c].left = call[c].left /\ call'[c].chatTo = base
    BY <1>13, ProbeStartEffect DEF SameProbes
  <2>3. QED
    BY <2>1, <2>2 DEF Stepped
<1>14. ASSUME NEW c \in Callers, NEW i \in DOMAIN config.fallbacks, ProbeEnd(c, i) PROVE CallsTyped'
  <2>1. UNCHANGED config /\ pc'[c] = "probe" /\ \A d \in Callers : d # c => pc'[d] = pc[d]
    BY <1>14 DEF ProbeEnd, Steps
  <2>2. PICK ok \in BOOLEAN : Verdict(c, i, ok)
    BY <1>14 DEF ProbeEnd
  <2>3. Stepped(c) /\ call'[c].left = call[c].left \ {i}
    BY <2>2, VerdictEffect
  <2>4. QED
    BY <2>1, <2>3 DEF Stepped
<1>15. ASSUME NEW c \in Callers, Listed(c) PROVE CallsTyped'
  <2>1. UNCHANGED config /\ pc'[c] = "listed" /\ \A d \in Callers : d # c => pc'[d] = pc[d]
    BY <1>15 DEF Listed, Steps
  <2>2. Stepped(c) /\ call'[c] = NoCall
    BY <1>15, NoCallTyped, BecomeStep DEF Listed
  <2>3. QED
    BY <2>1, <2>2, NoCallTyped DEF Stepped
<1>16. CASE UNCHANGED vars
  BY <1>16 DEF vars
<1> HIDE DEF TypeCall, CallsTyped
<1>17. QED
  BY <1>1, <1>2, <1>3, <1>4, <1>5, <1>6, <1>7, <1>8, <1>9, <1>10, <1>11, <1>12, <1>13, <1>14, <1>15, <1>16
  DEF Next

-----------------------------------------------------------------------------
(* A step of c's call that is under way: it leaves every other call as it  *)
(* is, and c's as undisturbed as it was.                                   *)
Moves(c) ==
  /\ Stepped(c) /\ Active(c) /\ pc' \in [Callers -> Steps]
  /\ Active(c)' => call'[c].alone = call[c].alone
  /\ \A d \in Callers : d # c => pc'[d] = pc[d]
  /\ UNCHANGED <<config, overlapped>>

CallStep(c) ==
  \/ Send(c) \/ Answered(c) \/ Write(c) \/ Failed(c) \/ Try(c) \/ Swap(c) \/ Restore(c) \/ GiveUp(c)
  \/ \E i \in DOMAIN config.fallbacks : ProbeCached(c, i) \/ ProbeStart(c, i) \/ ProbeEnd(c, i)
  \/ Listed(c)

LEMMA CallStepMoves ==
  ASSUME TypeOK, NEW c \in Callers, CallStep(c)
  PROVE  Moves(c)
<1> USE DEF Moves, Active
<1>0. pc \in [Callers -> Steps] /\ call \in [Callers -> CallState]
  BY DEF TypeOK
<1>1. CASE Send(c)
  BY <1>0, <1>1, SendEffect DEF Send, Steps
<1>2. CASE Answered(c)
  <2>1. pc[c] = "asked" /\ pc' \in [Callers -> Steps] /\ (\A d \in Callers : d # c => pc'[d] = pc[d])
        /\ UNCHANGED <<config, overlapped>>
    BY <1>0, <1>2 DEF Answered, Steps
  <2>2. QED
    BY <1>2, <2>1, AnsweredEffect
<1>3. CASE Write(c)
  BY <1>0, <1>3, WriteEffect DEF Write, Steps
<1>4. CASE Failed(c)
  <2>1. pc[c] = "asked" /\ pc' \in [Callers -> Steps] /\ (\A d \in Callers : d # c => pc'[d] = pc[d])
        /\ UNCHANGED <<config, overlapped>>
    BY <1>0, <1>4 DEF Failed, Steps
  <2>2. CASE Search(c)
    BY <2>1, <2>2, SearchEffect
  <2>3. CASE pc'[c] = "failed" /\ \E ctxDone \in BOOLEAN : Leave(c, ctxDone)
    BY <2>1, <2>3, LeaveEffect
  <2>4. CASE UNCHANGED call
    BY <1>0, <2>1, <2>4 DEF Stepped
  <2>5. QED
    BY <1>0, <1>4, <2>2, <2>3, <2>4 DEF Failed
<1>5. CASE Try(c)
  BY <1>0, <1>5, TryEffect DEF Try, Steps
<1>6. CASE Swap(c)
  BY <1>0, <1>6 DEF Swap, Steps, Stepped
<1>7. CASE Restore(c)
  <2>1. pc[c] = "restore" /\ pc' \in [Callers -> Steps] /\ (\A d \in Callers : d # c => pc'[d] = pc[d])
        /\ UNCHANGED <<config, overlapped>>
    BY <1>0, <1>7 DEF Restore, Steps
  <2>2. CASE Become(c, [call[c] EXCEPT !.previous = None])
    BY <2>1, <2>2, ForgetEffect
  <2>3. CASE pc'[c] = "failed" /\ Leave(c, TRUE)
    BY <2>1, <2>3, LeaveEffect
  <2>4. QED
    BY <1>0, <1>7, <2>2, <2>3 DEF Restore
<1>8. CASE GiveUp(c)
  BY <1>0, <1>8, LeaveEffect DEF GiveUp, Steps
<1>9. ASSUME NEW i \in DOMAIN config.fallbacks, ProbeCached(c, i) PROVE Moves(c)
  <2> DEFINE ok == probes[config.fallbacks[i]].ok
  <2>1. pc[c] = "probe" /\ Verdict(c, i, ok) /\ ok \in BOOLEAN /\ UNCHANGED <<config, pc, overlapped>>
    BY <1>9, ConfigTyped DEF ProbeCached, TypeOK
  <2> HIDE DEF ok
  <2>2. QED
    BY <1>0, <2>1, VerdictEffect
<1>10. ASSUME NEW i \in DOMAIN config.fallbacks, ProbeStart(c, i) PROVE Moves(c)
  BY <1>0, <1>10, ProbeStartEffect DEF ProbeStart, Steps
<1>11. ASSUME NEW i \in DOMAIN config.fallbacks, ProbeEnd(c, i) PROVE Moves(c)
  <2>1. pc[c] = "probing" /\ pc' \in [Callers -> Steps] /\ (\A d \in Callers : d # c => pc'[d] = pc[d])
        /\ UNCHANGED <<config, overlapped>>
    BY <1>0, <1>11 DEF ProbeEnd, Steps
  <2>2. PICK ok \in BOOLEAN : Verdict(c, i, ok)
    BY <1>11 DEF ProbeEnd
  <2>3. QED
    BY <2>1, <2>2, VerdictEffect
<1>12. CASE Listed(c)
  BY <1>0, <1>12, NoCallTyped, BecomeStep DEF Listed, Steps
<1>13. QED
  BY <1>1, <1>2, <1>3, <1>4, <1>5, <1>6, <1>7, <1>8, <1>9, <1>10, <1>11, <1>12 DEF CallStep

LEMMA NextSteps ==
  ASSUME [Next]_vars
  PROVE  Tick \/ Restart \/ (\E c \in Callers : Begin(c) \/ CallStep(c)) \/ UNCHANGED vars
BY DEF Next, CallStep

(* A step of one call disturbs no listing that runs alone.                 *)
LEMMA AloneKept ==
  ASSUME AloneInv, NEW c \in Callers, Moves(c)
  PROVE  AloneInv'
BY DEF AloneInv, Lone, Active, Moves, Stepped

LEMMA LoneKept ==
  ASSUME AloneInv, NEW c \in Callers, Moves(c),
         config.auto /\ Lone(c) /\ Active(c)' => (FirstInv(c) /\ SearchInv(c) /\ AnswerInv(c) /\ FileInv(c))'
  PROVE  LoneInv'
<1>1. ASSUME NEW d \in Callers, Lone(d)'
      PROVE  d = c /\ Lone(c) /\ Active(c)'
  BY <1>1 DEF AloneInv, Lone, Active, Moves, Stepped
<1>2. config' = config
  BY DEF Moves
<1>3. QED
  BY <1>1, <1>2 DEF LoneInv

LEMMA AloneStep ==
  ASSUME TypeOK, AloneInv, [Next]_vars
  PROVE  AloneInv'
<1>1. CASE Tick
  BY <1>1 DEF Tick, AloneInv, Lone, Active
<1>2. CASE Restart
  BY <1>2 DEF Restart, AloneInv, Lone, Active
<1>3. ASSUME NEW c \in Callers, Begin(c) PROVE AloneInv'
  <2>1. /\ ~Active(c) /\ pc'[c] = "send" /\ \A d \in Callers : d # c => pc'[d] = pc[d]
        /\ overlapped' = (overlapped \/ \E d \in Callers : d # c /\ Active(d))
    <3>1. ({d \in Callers \ {c} : Active(d)} # {}) = (\E d \in Callers : d # c /\ Active(d))
      OBVIOUS
    <3>2. pc \in [Callers -> Steps]
      BY DEF TypeOK
    <3>3. QED
      BY <1>3, <3>1, <3>2 DEF Begin
  <2>2. ASSUME NEW d \in Callers PROVE Active(d)' <=> d = c \/ Active(d)
    BY <2>1 DEF Active
  <2>3. call'[c].alone = (\A d \in Callers : d # c => ~Active(d))
    BY <1>3, BeginEffect
  <2>4. \A d \in Callers : d # c /\ Active(d) => call'[d].alone = FALSE
    BY <1>3, BeginEffect
  <2>5. QED
    BY <2>1, <2>2, <2>3, <2>4 DEF AloneInv, Lone
<1>4. ASSUME NEW c \in Callers, CallStep(c) PROVE AloneInv'
  BY <1>4, CallStepMoves, AloneKept
<1>5. CASE UNCHANGED vars
  BY <1>5 DEF vars, AloneInv, Lone, Active
<1>6. QED
  BY <1>1, <1>2, <1>3, <1>4, <1>5, NextSteps


(* What a step makes of a listing that runs alone.                         *)
LEMMA LoneCall ==
  ASSUME TypeOK, LeftInv, NEW c \in Callers, CallStep(c), config.auto, Active(c)',
         FirstInv(c), SearchInv(c), AnswerInv(c), \A d \in Callers : TypeCall(d)
  PROVE  (FirstInv(c) /\ SearchInv(c) /\ AnswerInv(c))'
<1> USE DEF FirstInv, SearchInv, AnswerInv, Covered
<1>0. pc \in [Callers -> Steps] /\ call \in [Callers -> CallState] /\ base \in Values /\ TypeCall(c)
  BY DEF TypeOK
<1>1. CASE Send(c)
  <2>1. pc[c] = "send" /\ pc'[c] = "asked" /\ UNCHANGED <<base, file, answered>>
    BY <1>0, <1>1 DEF Send
  <2>2. QED
    BY <1>1, <2>1, SendEffect DEF SameSearch
<1>2. CASE Answered(c)
  <2>1. pc[c] = "asked" /\ UNCHANGED base /\ IsUrl(call[c].target) /\ answered' = answered \cup {call[c].target[1]}
    BY <1>2 DEF Answered
  <2>2. pc'[c] \in {"write", "probe"}
    BY <1>0, <1>2, AnsweredEffect
  <2>3. call'[c].first = TRUE
    BY <1>2, AnsweredEffect
  <2>4. QED
    BY <1>2, <2>1, <2>2, <2>3, AnsweredEffect
<1>3. CASE Write(c)
  <2>1. pc[c] = "write" /\ pc'[c] = "probe" /\ UNCHANGED <<base, answered>>
    BY <1>0, <1>3 DEF Write
  <2>2. QED
    BY <1>3, <2>1, WriteEffect
<1>4. CASE Failed(c)
  <2>1. pc[c] = "asked"
    BY <1>4 DEF Failed
  <2>2. CASE Search(c) /\ call[c].first /\ pc'[c] = "next" /\ UNCHANGED base
    <3>1. file \in Values \cup {None}
      BY DEF TypeOK
    <3>2. Candidates(None) \subseteq Candidates(file)
      BY <3>1, CandidatesTyped
    <3>3. QED
      BY <2>1, <2>2, <3>2, SearchEffect
  <2>3. CASE ~call[c].first /\ pc'[c] = "restore" /\ base' = [base EXCEPT ![1] = call[c].previous[1]] /\ UNCHANGED call
    <3>1. base'[1] = call[c].previous[1]
      BY <1>0, <2>3 DEF Values
    <3>2. QED
      BY <2>1, <2>3, <3>1
  <2>4. CASE pc'[c] = "failed"
    BY <2>4 DEF Active
  <2>5. QED
    BY <1>0, <1>4, <2>2, <2>3, <2>4 DEF Failed
<1>5. CASE Try(c)
  <2>1. pc[c] = "next" /\ pc'[c] = "swap"
    BY <1>0, <1>5 DEF Try
  <2>2. QED
    BY <1>5, <2>1, TryEffect
<1>6. CASE Swap(c)
  <2>1. pc[c] = "swap" /\ pc'[c] = "send" /\ UNCHANGED call /\ base' = [base EXCEPT ![2] = call[c].target[2]]
    BY <1>0, <1>6 DEF Swap
  <2>2. base' = call[c].target
    <3>1. call[c].target \in Values /\ base[1] = call[c].target[1]
      BY <1>0, <2>1 DEF TypeCall
    <3>2. base' \in Values /\ base'[1] = base[1] /\ base'[2] = call[c].target[2]
      BY <1>0, <2>1, <3>1 DEF Values
    <3>3. QED
      BY <3>1, <3>2, SameValue
  <2>3. QED
    BY <2>1, <2>2
<1>7. CASE Restore(c)
  <2>1. pc[c] = "restore" /\ base' = [base EXCEPT ![2] = call[c].previous[2]]
    BY <1>7 DEF Restore
  <2>2. base' = call[c].initial
    <3>1. call[c].previous \in Values /\ base[1] = call[c].initial[1] /\ call[c].previous = call[c].initial
      BY <1>0, <2>1 DEF TypeCall
    <3>2. base' \in Values /\ base'[1] = base[1] /\ base'[2] = call[c].previous[2]
      BY <1>0, <2>1, <3>1 DEF Values
    <3>3. QED
      BY <3>1, <3>2, SameValue
  <2>3. CASE pc'[c] = "next" /\ Become(c, [call[c] EXCEPT !.previous = None])
    BY <2>1, <2>2, <2>3, ForgetEffect
  <2>4. CASE pc'[c] = "failed"
    BY <2>4 DEF Active
  <2>5. QED
    BY <1>0, <1>7, <2>3, <2>4 DEF Restore
<1>8. CASE GiveUp(c)
  BY <1>0, <1>8 DEF GiveUp, Active
<1>9. ASSUME NEW i \in DOMAIN config.fallbacks, ProbeCached(c, i) \/ ProbeStart(c, i) \/ ProbeEnd(c, i)
      PROVE  (FirstInv(c) /\ SearchInv(c) /\ AnswerInv(c))'
  <2>1. pc[c] \in {"probe", "probing"} /\ pc'[c] \in {"probe", "probing"} /\ UNCHANGED <<base, file, answered>>
    BY <1>0, <1>9 DEF ProbeCached, ProbeStart, ProbeEnd
  <2>2. call'[c].target = call[c].target
    <3>1. CASE ProbeCached(c, i)
      <4> DEFINE ok == probes[config.fallbacks[i]].ok
      <4>1. Verdict(c, i, ok) /\ ok \in BOOLEAN
        BY <3>1, ConfigTyped DEF ProbeCached, TypeOK
      <4> HIDE DEF ok
      <4>2. QED
        BY <4>1, VerdictEffect
    <3>2. CASE ProbeStart(c, i)
      BY <3>2, ProbeStartEffect
    <3>3. CASE ProbeEnd(c, i)
      <4>1. PICK ok \in BOOLEAN : Verdict(c, i, ok)
        BY <3>3 DEF ProbeEnd
      <4>2. QED
        BY <4>1, VerdictEffect
    <3>4. QED
      BY <1>9, <3>1, <3>2, <3>3
  <2>3. QED
    BY <2>1, <2>2
<1>10. CASE Listed(c)
  BY <1>0, <1>10 DEF Listed, Active
<1>11. QED
  BY <1>1, <1>2, <1>3, <1>4, <1>5, <1>6, <1>7, <1>8, <1>9, <1>10 DEF CallStep

(* What it makes of the file.                                              *)
LEMMA LoneFile ==
  ASSUME TypeOK, NEW c \in Callers, CallStep(c), Active(c)', AnswerInv(c), FileInv(c)
  PROVE  FileInv(c)'
<1> USE DEF FileInv
<1>0. pc \in [Callers -> Steps]
  BY DEF TypeOK
<1>1. ASSUME SameFound(c), UNCHANGED file,
             pc[c] \in {"send", "asked", "next", "swap", "restore"}, pc'[c] \in {"send", "asked", "next", "swap", "restore"}
      PROVE  FileInv(c)'
  BY <1>1 DEF SameFound
<1>2. CASE Send(c)
  BY <1>0, <1>1, <1>2, SendEffect DEF Send
<1>3. CASE Answered(c)
  <2>1. pc[c] = "asked" /\ UNCHANGED base
    BY <1>3 DEF Answered
  <2>2. CASE call'[c].saving \in CacheForm(base) /\ file' = None /\ pc' = [pc EXCEPT ![c] = "write"]
    <3>1. pc'[c] = "write"
      BY <1>0, <2>2
    <3>2. QED
      BY <2>1, <2>2, <3>1 DEF CacheForm
  <2>3. CASE call'[c].unsaved = TRUE /\ file' = file /\ pc' = [pc EXCEPT ![c] = "probe"]
    <3>1. pc'[c] = "probe" /\ call'[c].found = call[c].found
      BY <1>0, <1>3, <2>3, AnsweredEffect
    <3>2. QED
      BY <2>1, <2>3, <3>1
  <2>4. QED
    BY <1>3, <2>2, <2>3, AnsweredEffect
<1>4. CASE Write(c)
  <2>1. pc[c] = "write" /\ pc'[c] = "probe" /\ UNCHANGED base
    BY <1>0, <1>4 DEF Write
  <2>2. file' = (IF call'[c].unsaved THEN None ELSE call[c].saving) /\ call[c].saving \in CacheForm(base)
    BY <1>4, <2>1, WriteEffect
  <2>3. CacheForm(base') = CacheForm(base)
    BY <2>1
  <2>4. QED
    BY <2>1, <2>2, <2>3 DEF CacheForm
<1>5. CASE Failed(c)
  <2>1. pc[c] = "asked" /\ UNCHANGED file
    BY <1>5 DEF Failed
  <2>2. pc'[c] \in {"next", "restore"} /\ (Search(c) \/ UNCHANGED call)
    BY <1>0, <1>5 DEF Failed, Active
  <2>3. SameFound(c)
    BY <2>2, SearchEffect DEF SameFound
  <2>4. QED
    BY <1>1, <2>1, <2>2, <2>3
<1>6. CASE Try(c)
  BY <1>0, <1>1, <1>6, TryEffect DEF Try
<1>7. CASE Swap(c)
  BY <1>0, <1>1, <1>7 DEF Swap, SameFound
<1>8. CASE Restore(c)
  <2>1. pc[c] = "restore" /\ UNCHANGED file
    BY <1>8 DEF Restore
  <2>2. pc'[c] = "next" /\ Become(c, [call[c] EXCEPT !.previous = None])
    BY <1>0, <1>8 DEF Restore, Active
  <2>3. QED
    BY <1>1, <2>1, <2>2, ForgetEffect
<1>9. CASE GiveUp(c)
  BY <1>0, <1>9 DEF GiveUp, Active
<1>10. ASSUME NEW i \in DOMAIN config.fallbacks, ProbeCached(c, i) \/ ProbeStart(c, i) \/ ProbeEnd(c, i)
       PROVE  FileInv(c)'
  <2>1. pc[c] \in {"probe", "probing"} /\ pc'[c] \in {"probe", "probing"} /\ UNCHANGED <<base, file>>
    BY <1>0, <1>10 DEF ProbeCached, ProbeStart, ProbeEnd
  <2>2. SameFound(c)
    <3>1. CASE ProbeCached(c, i)
      <4> DEFINE ok == probes[config.fallbacks[i]].ok
      <4>1. Verdict(c, i, ok) /\ ok \in BOOLEAN
        BY <3>1, ConfigTyped DEF ProbeCached, TypeOK
      <4> HIDE DEF ok
      <4>2. QED
        BY <4>1, VerdictEffect
    <3>2. CASE ProbeStart(c, i)
      BY <3>2, ProbeStartEffect
    <3>3. CASE ProbeEnd(c, i)
      <4>1. PICK ok \in BOOLEAN : Verdict(c, i, ok)
        BY <3>3 DEF ProbeEnd
      <4>2. QED
        BY <4>1, VerdictEffect
    <3>4. QED
      BY <1>10, <3>1, <3>2, <3>3
  <2>3. CacheForm(base') = CacheForm(base)
    BY <2>1
  <2>4. QED
    BY <2>1, <2>2, <2>3 DEF SameFound, CacheForm
<1>11. CASE Listed(c)
  BY <1>0, <1>11 DEF Listed, Active
<1>12. QED
  BY <1>2, <1>3, <1>4, <1>5, <1>6, <1>7, <1>8, <1>9, <1>10, <1>11 DEF CallStep

LEMMA TypeParts ==
  TypeOK <=> TypePlain /\ call \in [Callers -> CallState] /\ \A c \in Callers : TypeCall(c)
BY DEF TypeOK, TypePlain, TypeCall

LEMMA LoneStep ==
  ASSUME TypeOK, LeftInv, AloneInv, LoneInv, [Next]_vars
  PROVE  LoneInv'
<1> USE DEF FirstInv, SearchInv, AnswerInv, FileInv, Covered
<1>1. CASE Tick
  BY <1>1 DEF Tick, LoneInv, Lone, Active
<1>2. CASE Restart
  BY <1>2 DEF Restart, LoneInv, Lone, Active
<1>3. ASSUME NEW c \in Callers, Begin(c) PROVE LoneInv'
  <2>1. /\ pc'[c] = "send" /\ (\A d \in Callers : d # c => pc'[d] = pc[d])
        /\ UNCHANGED <<config, base, file>>
    BY <1>3 DEF Begin, TypeOK
  <2>2. ASSUME NEW d \in Callers, Lone(d)' PROVE d = c
    BY <1>3, <2>1, <2>2, BeginEffect DEF Lone, Active
  <2>3. call'[c].first = TRUE /\ call'[c].initial = base /\ call'[c].found = file
    BY <1>3, BeginEffect
  <2>4. QED
    BY <2>1, <2>2, <2>3 DEF LoneInv
<1> HIDE DEF FirstInv, SearchInv, AnswerInv, FileInv, Covered
<1>4. ASSUME NEW c \in Callers, CallStep(c) PROVE LoneInv'
  <2>1. Moves(c)
    BY <1>4, CallStepMoves
  <2>2. config.auto /\ Lone(c) /\ Active(c)' => (FirstInv(c) /\ SearchInv(c) /\ AnswerInv(c) /\ FileInv(c))'
    BY <1>4, LoneCall, LoneFile, TypeParts DEF LoneInv
  <2>3. QED
    BY <2>1, <2>2, LoneKept
<1>5. CASE UNCHANGED vars
  BY <1>5 DEF vars, LoneInv, FirstInv, SearchInv, AnswerInv, FileInv, CacheForm, Covered, Lone, Active
<1>6. QED
  BY <1>1, <1>2, <1>3, <1>4, <1>5, NextSteps

-----------------------------------------------------------------------------
(* Once a fallback model has its verdict, the ones that follow it in the   *)
(* list, which names no model twice, are still not listed.                 *)
LEMMA OthersUnlisted ==
  ASSUME TypeOK, LeftInv, NEW c \in Callers, NEW i \in call[c].left, NEW ok \in BOOLEAN,
         UNCHANGED config, call'[c].left = call[c].left \ {i},
         call'[c].listed = call[c].listed \cup {m \in {config.fallbacks[i]} : ok}
  PROVE  \A j \in call'[c].left : config'.fallbacks[j] \notin call'[c].listed
<1>1. call[c].left \subseteq DOMAIN config.fallbacks /\ config \in Configs
  BY DEF TypeOK
<1>2. \A j \in call[c].left : j # i => config.fallbacks[j] # config.fallbacks[i]
  BY <1>1, ConfigTyped
<1>3. QED
  BY <1>2 DEF LeftInv


(* Only a listing that runs alone writes while none has overlapped.        *)
LEMMA HonestStep ==
  ASSUME TypeOK, LeftInv, AloneInv, LoneInv, CacheHonest, [Next]_vars
  PROVE  CacheHonest'
<1>1. ASSUME UNCHANGED <<file, answered, overlapped>> PROVE CacheHonest'
  BY <1>1 DEF CacheHonest
<1>2. CASE Tick
  BY <1>1, <1>2 DEF Tick
<1>3. CASE Restart
  BY <1>1, <1>3 DEF Restart
<1>4. ASSUME NEW c \in Callers, Begin(c) PROVE CacheHonest'
  BY <1>4 DEF Begin, CacheHonest, TypeOK
<1>5. ASSUME NEW c \in Callers, CallStep(c) PROVE CacheHonest'
  <2>1. CASE Answered(c)
    <3>1. file' \in {file, None} /\ answered \subseteq answered' /\ UNCHANGED overlapped
      BY <2>1, AnsweredEffect DEF Answered
    <3>2. QED
      BY <3>1 DEF CacheHonest, CacheForm
  <2>2. CASE Write(c)
    <3>1. UNCHANGED <<answered, overlapped>> /\ file' \in {None, call[c].saving}
      BY <2>2 DEF Write
    <3>2. SUFFICES ASSUME ~overlapped
                   PROVE  \E url \in answered : call[c].saving \in CacheForm(Whole(url))
      BY <3>1 DEF CacheHonest, CacheForm
    <3>3. pc[c] = "write" /\ config.auto /\ base \in Values
      BY <2>2 DEF Write, LeftInv, TypeOK
    <3>4. AnswerInv(c) /\ FileInv(c)
      BY <3>2, <3>3 DEF AloneInv, LoneInv, Lone, Active
    <3>5. call[c].saving \in CacheForm(base) /\ IsUrl(base) /\ base[1] \in answered
      BY <3>3, <3>4 DEF AnswerInv, FileInv
    <3>6. Whole(base[1]) = base
      BY <3>3, <3>5 DEF Values, Whole, IsUrl
    <3>7. QED
      BY <3>5, <3>6
  <2>3. CASE ~Answered(c) /\ ~Write(c)
    <3>1. UNCHANGED <<file, answered, overlapped>>
      BY <1>5, <2>3
      DEF CallStep, Send, Failed, Try, Swap, Restore, GiveUp, ProbeCached, ProbeStart, ProbeEnd, Listed
    <3>2. QED
      BY <1>1, <3>1
  <2>4. QED
    BY <2>1, <2>2, <2>3
<1>6. CASE UNCHANGED vars
  BY <1>1, <1>6 DEF vars
<1>7. QED
  BY <1>2, <1>3, <1>4, <1>5, <1>6, NextSteps

LEMMA ProbeStep ==
  ASSUME TypeOK, LeftInv, ProbeInv, [Next]_vars
  PROVE  ProbeInv'
<1>1. ASSUME UNCHANGED <<now, probes, lastProbe>> PROVE ProbeInv'
  BY <1>1 DEF ProbeInv
<1>0. now \in Nat /\ probes \in [Models -> [ok : BOOLEAN, expires : Nat]]
  BY ConfigTyped DEF TypeOK
<1>2. CASE Tick
  <2>1. now' = now + 1 /\ UNCHANGED <<probes, lastProbe>>
    BY <1>2 DEF Tick
  <2>2. ASSUME NEW m \in Models, now' < probes[m].expires PROVE now < probes[m].expires
    BY <1>0, <2>1, <2>2
  <2>3. QED
    BY <2>1, <2>2 DEF ProbeInv
<1>3. CASE Restart
  <2>1. \A m \in Models : probes'[m].expires = 0
    BY <1>3 DEF Restart
  <2>2. now' = now
    BY <1>3 DEF Restart
  <2>3. QED
    BY <1>0, <2>1, <2>2 DEF ProbeInv
<1>4. ASSUME NEW c \in Callers, Begin(c) PROVE ProbeInv'
  BY <1>1, <1>4 DEF Begin
<1>5. ASSUME NEW c \in Callers, CallStep(c) PROVE ProbeInv'
  <2>1. ASSUME NEW i \in DOMAIN config.fallbacks, ProbeEnd(c, i) PROVE ProbeInv'
    <3> DEFINE m == config.fallbacks[i]
    <3> DEFINE since == call[c].since
    <3>1. PICK ok \in BOOLEAN :
            /\ probes' = [probes EXCEPT ![m] = [ok |-> ok, expires |-> since + TTL(ok)]]
            /\ lastProbe' = [lastProbe EXCEPT ![ok][m] = IF @ > since THEN @ ELSE since]
      BY <2>1 DEF ProbeEnd
    <3>2. m \in Models /\ since \in Nat /\ config.time \in Nat /\ now' = now
      BY <2>1, ConfigTyped DEF ProbeEnd, TypeOK, CallState
    <3>3. lastProbe \in [BOOLEAN -> [Models -> -1..config.time]] /\ TTL(ok) \in Nat
      BY ModelsAssumption DEF TypeOK, TTL, ModelsAssumption
    <3> HIDE DEF m, since
    <3>4. lastProbe[ok][m] \in Int
      BY <3>2, <3>3
    <3>5. lastProbe'[ok][m] = IF lastProbe[ok][m] > since THEN lastProbe[ok][m] ELSE since
      BY <3>1, <3>2, <3>3
    <3>6. lastProbe'[ok][m] >= 0 /\ since + TTL(ok) <= lastProbe'[ok][m] + TTL(ok)
      BY <3>2, <3>3, <3>4, <3>5
    <3>7. probes'[m].ok = ok /\ probes'[m].expires = since + TTL(ok)
      BY <1>0, <3>1, <3>2
    <3>8. ASSUME NEW n \in Models, n # m
          PROVE  probes'[n] = probes[n] /\ \A v \in BOOLEAN : lastProbe'[v][n] = lastProbe[v][n]
      BY <1>0, <3>1, <3>3, <3>8
    <3>9. ASSUME NEW n \in Models, now < probes'[n].expires
          PROVE  /\ lastProbe'[probes'[n].ok][n] >= 0
                 /\ probes'[n].expires <= lastProbe'[probes'[n].ok][n] + TTL(probes'[n].ok)
      <4>1. CASE n = m
        BY <3>6, <3>7, <4>1
      <4>2. CASE n # m
        <5>1. probes'[n] = probes[n] /\ lastProbe'[probes[n].ok][n] = lastProbe[probes[n].ok][n]
          BY <1>0, <3>8, <4>2
        <5>2. QED
          BY <3>9, <5>1 DEF ProbeInv
      <4>3. QED
        BY <4>1, <4>2
    <3>10. QED
      BY <3>2, <3>9 DEF ProbeInv
  <2>2. CASE \A i \in DOMAIN config.fallbacks : ~ProbeEnd(c, i)
    <3>1. UNCHANGED <<now, probes, lastProbe>>
      BY <1>5, <2>2
      DEF CallStep, Send, Answered, Write, Failed, Try, Swap, Restore, GiveUp,
          ProbeCached, ProbeStart, Listed
    <3>2. QED
      BY <1>1, <3>1
  <2>3. QED
    BY <2>1, <2>2
<1>6. CASE UNCHANGED vars
  BY <1>1, <1>6 DEF vars
<1>7. QED
  BY <1>2, <1>3, <1>4, <1>5, <1>6, NextSteps

(* The parts of LeftInv that speak of one call.                            *)
LeftCall(c) ==
  /\ pc[c] \notin {"write", "probe", "probing"} => call[c].left = {}
  /\ \A i \in call[c].left : config.fallbacks[i] \notin call[c].listed
  /\ pc[c] = "probing" => call[c].since \in {now - 1, now}
  /\ pc[c] = "write" => config.auto

LEMMA LeftStep ==
  ASSUME TypeOK, LeftInv, [Next]_vars
  PROVE  LeftInv'
<1> USE DEF LeftCall
<1>0. /\ pc \in [Callers -> Steps] /\ call \in [Callers -> CallState]
      /\ \A c \in Callers : TypeCall(c)
      /\ \A c \in Callers : LeftCall(c)
  BY DEF TypeOK, TypeCall, LeftInv
<1>1. SUFFICES \A c \in Callers : LeftCall(c)'
  BY DEF LeftInv
<1>2. CASE Tick
  <2>1. now \in Nat /\ now' = now + 1 /\ UNCHANGED <<config, pc, call>>
    BY <1>2, ConfigTyped DEF Tick, TypeOK
  <2>2. \A c \in Callers : pc[c] = "probing" => call[c].since = now' - 1
    BY <1>2, <2>1 DEF Tick
  <2>3. QED
    BY <1>0, <2>1, <2>2
<1>3. CASE Restart
  BY <1>3, NoCallTyped DEF Restart
<1>4. ASSUME NEW c \in Callers, Begin(c) PROVE \A d \in Callers : LeftCall(d)'
  <2>1. ~Active(c) /\ pc'[c] = "send" /\ (\A d \in Callers : d # c => pc'[d] = pc[d]) /\ UNCHANGED <<config, now>>
    BY <1>0, <1>4 DEF Begin
  <2>2. LeftCall(c)'
    BY <1>4, <2>1, BeginEffect
  <2>3. ASSUME NEW d \in Callers, d # c PROVE LeftCall(d)'
    <3>1. call'[d].left = call[d].left /\ call'[d].listed = call[d].listed /\ call'[d].since = call[d].since
      BY <1>4, <2>3, BeginEffect
    <3>2. QED
      BY <1>0, <2>1, <2>3, <3>1
  <2>4. QED
    BY <2>2, <2>3
<1>5. ASSUME NEW c \in Callers, CallStep(c) PROVE \A d \in Callers : LeftCall(d)'
  <2>0. Moves(c) /\ UNCHANGED now
    BY <1>5, CallStepMoves
    DEF CallStep, Send, Answered, Write, Failed, Try, Swap, Restore, GiveUp,
        ProbeCached, ProbeStart, ProbeEnd, Listed
  <2>1. ASSUME NEW d \in Callers, d # c PROVE LeftCall(d)'
    BY <1>0, <2>0, <2>1 DEF Moves, Stepped
  <2>2. LeftCall(c)'
    <3>1. CASE Send(c)
      <4>1. pc[c] = "send" /\ pc'[c] = "asked"
        BY <1>0, <3>1 DEF Send
      <4>2. QED
        BY <1>0, <3>1, <4>1, SendEffect DEF SameProbes
    <3>2. CASE Answered(c)
      <4>1. (pc'[c] = "write" /\ config.auto) \/ pc'[c] = "probe"
        BY <1>0, <3>2 DEF Answered
      <4>2. UNCHANGED config
        BY <3>2 DEF Answered
      <4>3. QED
        BY <3>2, <4>1, <4>2, AnsweredEffect
    <3>3. CASE Write(c)
      <4>1. pc'[c] = "probe" /\ UNCHANGED config
        BY <1>0, <3>3 DEF Write
      <4>2. QED
        BY <1>0, <3>3, <4>1, WriteEffect DEF SameProbes
    <3>4. CASE Failed(c)
      <4>1. pc[c] = "asked" /\ pc'[c] \in {"failed", "next", "restore"}
        BY <1>0, <3>4 DEF Failed
      <4>2. CASE Search(c)
        BY <1>0, <4>1, <4>2, SearchEffect DEF SameProbes
      <4>3. CASE \E ctxDone \in BOOLEAN : Leave(c, ctxDone)
        BY <1>0, <4>1, <4>3, LeaveEffect
      <4>4. CASE UNCHANGED call
        BY <1>0, <4>1, <4>4
      <4>5. QED
        BY <3>4, <4>2, <4>3, <4>4 DEF Failed
    <3>5. CASE Try(c)
      <4>1. pc[c] = "next" /\ pc'[c] = "swap"
        BY <1>0, <3>5 DEF Try
      <4>2. QED
        BY <1>0, <3>5, <4>1, TryEffect DEF SameProbes
    <3>6. CASE Swap(c)
      BY <1>0, <3>6 DEF Swap
    <3>7. CASE Restore(c)
      <4>1. pc[c] = "restore" /\ pc'[c] \in {"failed", "next"}
        BY <1>0, <3>7 DEF Restore
      <4>2. CASE Become(c, [call[c] EXCEPT !.previous = None])
        BY <1>0, <4>1, <4>2, ForgetEffect DEF SameProbes
      <4>3. CASE Leave(c, TRUE)
        BY <1>0, <4>1, <4>3, LeaveEffect
      <4>4. QED
        BY <3>7, <4>2, <4>3 DEF Restore
    <3>8. CASE GiveUp(c)
      <4>1. pc'[c] = "failed" /\ Leave(c, FALSE)
        BY <1>0, <3>8 DEF GiveUp
      <4>2. QED
        BY <4>1, LeaveEffect
    <3>9. ASSUME NEW i \in DOMAIN config.fallbacks, ProbeCached(c, i) PROVE LeftCall(c)'
      <4> DEFINE ok == probes[config.fallbacks[i]].ok
      <4>1. pc[c] = "probe" /\ Verdict(c, i, ok) /\ ok \in BOOLEAN /\ UNCHANGED <<config, pc>> /\ i \in call[c].left
        BY <3>9, ConfigTyped DEF ProbeCached, TypeOK, Upcoming
      <4> HIDE DEF ok
      <4>2. QED
        BY <1>0, <4>1, VerdictEffect, OthersUnlisted
    <3>10. ASSUME NEW i \in DOMAIN config.fallbacks, ProbeStart(c, i) PROVE LeftCall(c)'
      <4>1. pc'[c] = "probing" /\ UNCHANGED <<config, now>>
        BY <1>0, <3>10 DEF ProbeStart
      <4>2. QED
        BY <1>0, <3>10, <4>1, ProbeStartEffect DEF SameProbes
    <3>11. ASSUME NEW i \in DOMAIN config.fallbacks, ProbeEnd(c, i) PROVE LeftCall(c)'
      <4>1. pc'[c] = "probe" /\ UNCHANGED config /\ i \in call[c].left
        BY <1>0, <3>11 DEF ProbeEnd, Upcoming
      <4>2. PICK ok \in BOOLEAN : Verdict(c, i, ok)
        BY <3>11 DEF ProbeEnd
      <4>3. QED
        BY <1>0, <4>1, <4>2, VerdictEffect, OthersUnlisted
    <3>12. CASE Listed(c)
      <4>1. call'[c] = NoCall /\ pc'[c] = "listed"
        BY <1>0, <3>12, NoCallTyped, BecomeStep DEF Listed
      <4>2. QED
        BY <4>1, NoCallTyped
    <3>13. QED
      BY <1>5, <3>1, <3>2, <3>3, <3>4, <3>5, <3>6, <3>7, <3>8, <3>9, <3>10, <3>11, <3>12 DEF CallStep
  <2>3. QED
    BY <2>1, <2>2
<1>6. CASE UNCHANGED vars
  BY <1>0, <1>6 DEF vars
<1>7. QED
  BY <1>2, <1>3, <1>4, <1>5, <1>6, NextSteps

-----------------------------------------------------------------------------
(* The invariant                                                           *)
LEMMA InitIInv ==
  ASSUME Init
  PROVE  IInv
<1>1. TypeOK
  <2>1. base \in Values
    BY CandidatesTyped, ModelsAssumption DEF Init, Resolve, First, Whole, Values, ModelsAssumption
  <2>2. config \in Configs /\ config.time \in Nat /\ config.load \in Nat
    BY ConfigTyped DEF Init
  <2>3. lastProbe \in [BOOLEAN -> [Models -> -1..config.time]]
    <3>1. [m \in Models |-> -1] \in [Models -> -1..config.time]
      BY <2>2
    <3>2. QED
      BY <3>1 DEF Init
  <2>4. TypePlain
    <3>1. probes \in [Models -> [ok : BOOLEAN, expires : Nat]] /\ pc \in [Callers -> Steps]
      BY DEF Init, Steps
    <3>2. now \in 0..config.time /\ calls \in 0..config.load
      BY <2>2 DEF Init
    <3>3. QED
      BY <2>1, <2>2, <2>3, <3>1, <3>2 DEF Init, TypePlain
  <2>5. call \in [Callers -> CallState] /\ \A c \in Callers : TypeCall(c)
    BY NoCallTyped DEF Init, TypeCall
  <2>6. QED
    BY <2>4, <2>5, TypeParts
<1>2. AloneInv /\ LoneInv
  BY DEF Init, AloneInv, LoneInv, Lone, Active
<1>3. CacheHonest
  BY DEF Init, CacheHonest
<1>4. ProbeInv
  <2>1. now = 0 /\ \A m \in Models : probes[m].expires = 0
    BY DEF Init
  <2>2. QED
    BY <2>1 DEF ProbeInv
<1>5. LeftInv
  BY NoCallTyped DEF Init, LeftInv
<1>6. QED
  BY <1>1, <1>2, <1>3, <1>4, <1>5 DEF IInv

LEMMA TypeStep ==
  ASSUME TypeOK, LeftInv, [Next]_vars
  PROVE  TypeOK'
<1>1. TypePlain /\ CallsTyped /\ pc \in [Callers -> Steps] /\ base \in Values
  BY TypeParts DEF TypePlain, CallsTyped
<1>2. TypePlain'
  BY <1>1, TypePlainStep
<1>3. CallsTyped'
  BY <1>1, TypeCallsStep
<1>4. QED
  BY <1>2, <1>3 DEF CallsTyped, TypeOK, TypePlain, TypeCall

(* The inductive invariant holds in every reachable state.                 *)
THEOREM Invariance == Spec => []IInv
<1>1. Init => IInv
  BY InitIInv
<1>2. IInv /\ [Next]_vars => IInv'
  BY TypeStep, AloneStep, LoneStep, HonestStep, ProbeStep, LeftStep DEF IInv
<1>3. QED
  BY <1>1, <1>2, PTL DEF Spec

(* The variables keep their types: at every step of a call, the URLs that  *)
(* the next step reads are there.                                          *)
THEOREM TypeCorrect == Spec => []TypeOK
<1>1. IInv => TypeOK
  BY DEF IInv
<1>2. QED
  BY <1>1, Invariance, PTL

(* As long as listings do not overlap, the cache file has the scheme and   *)
(* host of a URL that has answered (client.go 223-240, 262-271).           *)
THEOREM CacheTheorem == Spec => []CacheHonest
<1>1. IInv => CacheHonest
  BY DEF IInv
<1>2. QED
  BY <1>1, Invariance, PTL

-----------------------------------------------------------------------------
(* A listing that runs alone settles the base URL                          *)
Settled(c) ==
  /\ pc'[c] = "listed" =>
       /\ base = call[c].target /\ base[1] \in answered
       /\ IF call[c].unsaved THEN file \in {None, call[c].found} ELSE file \in CacheForm(base)
  /\ pc'[c] = "failed" =>
       /\ base' = call[c].initial /\ file' = call[c].found
       /\ call'[c].ctxDone \/ Candidates(None) \subseteq call[c].tried

LEMMA SettledStep ==
  ASSUME IInv, [Next]_vars, NEW c \in Callers, config.auto, call[c].alone, Active(c)
  PROVE  Settled(c)
<1> USE DEF Settled
<1>0. TypeOK /\ pc \in [Callers -> Steps] /\ base \in Values /\ TypeCall(c) /\ call[c].ctxDone \in BOOLEAN
  BY TypeParts DEF IInv, TypeOK, CallState
<1>1. FirstInv(c) /\ SearchInv(c) /\ AnswerInv(c) /\ FileInv(c)
  BY DEF IInv, LoneInv, Lone
<1>2. ASSUME pc'[c] = pc[c] \/ pc'[c] \notin {"listed", "failed"} PROVE Settled(c)
  BY <1>2 DEF Active
<1>3. CASE Tick \/ Restart \/ UNCHANGED vars
  BY <1>2, <1>3 DEF Tick, Restart, vars
<1>4. ASSUME NEW d \in Callers, Begin(d) PROVE Settled(c)
  <2>1. pc'[c] = pc[c] \/ pc'[c] = "send"
    BY <1>0, <1>4 DEF Begin
  <2>2. QED
    BY <1>2, <2>1
<1>5. ASSUME NEW d \in Callers, d # c, CallStep(d) PROVE Settled(c)
  BY <1>0, <1>2, <1>5, CallStepMoves DEF Moves
<1>6. CASE CallStep(c)
  <2>1. CASE Listed(c)
    <3>1. pc[c] = "probe" /\ pc'[c] = "listed"
      BY <1>0, <2>1 DEF Listed
    <3>2. QED
      BY <1>1, <3>1 DEF AnswerInv, FileInv
  <2>2. CASE Failed(c)
    <3>1. CASE call[c].first /\ pc'[c] = "failed" /\ UNCHANGED base /\ \E ctxDone \in BOOLEAN : ctxDone /\ Leave(c, ctxDone)
      <4>1. pc[c] = "asked"
        BY <2>2 DEF Failed
      <4>2. base' = call[c].initial /\ file' = call[c].found
        BY <1>1, <2>2, <3>1, <4>1 DEF FirstInv, FileInv, Failed
      <4>3. call'[c].ctxDone
        BY <1>0, <3>1, LeaveEffect
      <4>4. QED
        BY <3>1, <4>2, <4>3
    <3>2. CASE pc'[c] \in {"next", "restore"}
      BY <1>2, <3>2
    <3>3. QED
      BY <1>0, <2>2, <3>1, <3>2 DEF Failed
  <2>3. CASE Restore(c)
    <3>1. CASE pc'[c] = "failed" /\ Leave(c, TRUE)
      <4>1. pc[c] = "restore" /\ base' = [base EXCEPT ![2] = call[c].previous[2]]
        BY <2>3 DEF Restore
      <4>2. call[c].previous \in Values /\ base[1] = call[c].initial[1] /\ call[c].previous = call[c].initial
        BY <1>0, <1>1, <4>1 DEF TypeCall, SearchInv
      <4>3. base' \in Values /\ base'[1] = base[1] /\ base'[2] = call[c].previous[2]
        BY <1>0, <4>1, <4>2 DEF Values
      <4>4. base' = call[c].initial /\ file' = call[c].found
        BY <1>1, <2>3, <4>1, <4>2, <4>3, SameValue DEF FileInv, Restore
      <4>5. call'[c].ctxDone
        BY <1>0, <3>1, LeaveEffect
      <4>6. QED
        BY <3>1, <4>4, <4>5
    <3>2. CASE pc'[c] = "next"
      BY <1>2, <3>2
    <3>3. QED
      BY <1>0, <2>3, <3>1, <3>2 DEF Restore
  <2>4. CASE GiveUp(c)
    <3>1. pc[c] = "next" /\ pc'[c] = "failed" /\ UNCHANGED <<base, file>> /\ call[c].todo = {}
      BY <1>0, <2>4 DEF GiveUp
    <3>2. QED
      BY <1>1, <3>1 DEF SearchInv, FileInv, Covered
  <2>5. CASE Send(c) \/ Answered(c) \/ Write(c) \/ Try(c) \/ Swap(c)
    BY <1>0, <1>2, <2>5, AnsweredEffect DEF Send, Write, Try, Swap
  <2>6. ASSUME NEW i \in DOMAIN config.fallbacks, ProbeCached(c, i) \/ ProbeStart(c, i) \/ ProbeEnd(c, i)
        PROVE  Settled(c)
    BY <1>0, <1>2, <2>6 DEF ProbeCached, ProbeStart, ProbeEnd
  <2>7. QED
    BY <1>6, <2>1, <2>2, <2>3, <2>4, <2>5, <2>6 DEF CallStep
<1>7. QED
  BY <1>3, <1>4, <1>5, <1>6, NextSteps

(* A listing that no other has overlapped leaves the URL that answered in  *)
(* memory and its scheme and host in the file, if it could be written, or  *)
(* both as it found them (client.go 223-240, 262-336).                     *)
THEOREM SettlesTheorem == Spec => AloneSettles
<1>1. IInv /\ [Next]_vars =>
        [\A c \in Callers : config.auto /\ call[c].alone /\ Active(c) =>
           /\ pc'[c] = "listed" =>
                /\ base = call[c].target /\ base[1] \in answered
                /\ IF call[c].unsaved THEN file \in {None, call[c].found} ELSE file \in CacheForm(base)
           /\ pc'[c] = "failed" =>
                /\ base' = call[c].initial /\ file' = call[c].found
                /\ call'[c].ctxDone \/ Candidates(None) \subseteq call[c].tried]_vars
  BY SettledStep DEF Settled
<1>2. QED
  BY <1>1, Invariance, PTL DEF Spec, AloneSettles

-----------------------------------------------------------------------------
(* A listing says of a model what a recent probe has found                 *)
Fresh(c, i) ==
  pc'[c] = "probe" /\ call'[c].left = call[c].left \ {i} =>
    LET m == config.fallbacks[i]
        ok == m \in call'[c].listed
    IN  /\ lastProbe'[ok][m] >= 0
        /\ now - lastProbe'[ok][m] <= TTL(ok)

LEMMA FreshStep ==
  ASSUME IInv, [Next]_vars, NEW c \in Callers, NEW i \in call[c].left
  PROVE  Fresh(c, i)
<1> DEFINE m == config.fallbacks[i]
<1>0. /\ TypeOK /\ LeftInv /\ ProbeInv /\ pc \in [Callers -> Steps] /\ call \in [Callers -> CallState] /\ now \in Nat
      /\ i \in DOMAIN config.fallbacks /\ m \in Models /\ m \notin call[c].listed
      /\ pc[c] \in {"write", "probe", "probing"} /\ config \in Configs /\ config.time \in Nat
  <2>1. TypeOK /\ LeftInv /\ ProbeInv
    BY DEF IInv
  <2>2. pc \in [Callers -> Steps] /\ call \in [Callers -> CallState] /\ config \in Configs /\ now \in 0..config.time
        /\ call[c].left \subseteq DOMAIN config.fallbacks
    BY <2>1 DEF TypeOK
  <2>3. config.time \in Nat /\ now \in Nat /\ i \in DOMAIN config.fallbacks /\ m \in Models
    BY <2>2, ConfigTyped
  <2>4. m \notin call[c].listed /\ pc[c] \in {"write", "probe", "probing"}
    BY <2>1 DEF LeftInv
  <2>5. QED
    BY <2>1, <2>2, <2>3, <2>4
<1>1. ASSUME call'[c].left = call[c].left \/ pc'[c] # "probe" PROVE Fresh(c, i)
  BY <1>1 DEF Fresh
<1>2. CASE Tick \/ UNCHANGED vars
  BY <1>1, <1>2 DEF Tick, vars
<1>3. CASE Restart
  BY <1>1, <1>3 DEF Restart
<1>4. ASSUME NEW d \in Callers, Begin(d) PROVE Fresh(c, i)
  <2>1. CASE d = c
    BY <1>0, <1>1, <1>4, <2>1 DEF Begin
  <2>2. CASE d # c
    BY <1>0, <1>1, <1>4, <2>2, BeginEffect, ZenonT(60)
  <2>3. QED
    BY <2>1, <2>2
<1>5. ASSUME NEW d \in Callers, d # c, CallStep(d) PROVE Fresh(c, i)
  BY <1>0, <1>1, <1>5, CallStepMoves DEF Moves, Stepped
<1>6. CASE CallStep(c)
  <2>1. CASE Write(c)
    BY <1>0, <1>1, <2>1, WriteEffect DEF SameProbes
  <2>2. ASSUME NEW j \in DOMAIN config.fallbacks, ProbeCached(c, j) PROVE Fresh(c, i)
    <3> DEFINE verdict == probes[config.fallbacks[j]]
    <3>1. /\ j \in call[c].left /\ Verdict(c, j, verdict.ok) /\ verdict.ok \in BOOLEAN /\ verdict.expires \in Nat
          /\ now < verdict.expires /\ UNCHANGED lastProbe
      BY <1>0, <2>2, ConfigTyped DEF ProbeCached, Upcoming, Cached, TypeOK
    <3>2. verdict.ok \in BOOLEAN
      BY <3>1
    <3>3. call'[c].left = call[c].left \ {j}
      BY <1>0, <3>1, VerdictEffect
    <3>4. call'[c].listed = call[c].listed \cup {n \in {config.fallbacks[j]} : verdict.ok}
      BY <1>0, <3>1, VerdictEffect
    <3>5. CASE j # i
      BY <3>1, <3>3, <3>5 DEF Fresh
    <3>6. CASE j = i
      <4>1. (m \in call'[c].listed) = verdict.ok
        BY <1>0, <3>2, <3>4, <3>6
      <4>2. lastProbe[verdict.ok][m] >= 0 /\ verdict.expires <= lastProbe[verdict.ok][m] + TTL(verdict.ok)
        BY <1>0, <3>1, <3>6 DEF ProbeInv
      <4>3. TTL(verdict.ok) \in Nat /\ lastProbe[verdict.ok][m] \in Int
        BY <1>0, <3>2, ModelsAssumption DEF TTL, ModelsAssumption, TypeOK
      <4>4. now - lastProbe[verdict.ok][m] <= TTL(verdict.ok)
        BY <1>0, <3>1, <4>2, <4>3
      <4>5. QED
        BY <3>1, <4>1, <4>2, <4>4 DEF Fresh
    <3>7. QED
      BY <3>5, <3>6
  <2>3. ASSUME NEW j \in DOMAIN config.fallbacks, ProbeEnd(c, j) PROVE Fresh(c, i)
    <3> DEFINE since == call[c].since
    <3>1. /\ j \in call[c].left /\ pc[c] = "probing"
      BY <2>3 DEF ProbeEnd, Upcoming
    <3>2. PICK ok \in BOOLEAN :
            /\ Verdict(c, j, ok)
            /\ lastProbe' = [lastProbe EXCEPT ![ok][config.fallbacks[j]] = IF @ > since THEN @ ELSE since]
      BY <2>3 DEF ProbeEnd
    <3>3. call'[c].left = call[c].left \ {j}
      BY <1>0, <3>2, VerdictEffect
    <3>4. call'[c].listed = call[c].listed \cup {n \in {config.fallbacks[j]} : ok}
      BY <1>0, <3>2, VerdictEffect
    <3>5. CASE j # i
      BY <3>1, <3>3, <3>5 DEF Fresh
    <3>6. CASE j = i
      <4>1. (m \in call'[c].listed) = ok
        BY <1>0, <3>4, <3>6
      <4>2. since \in Nat /\ now <= since + 1
        BY <1>0, <3>1 DEF LeftInv, CallState
      <4>3. lastProbe[ok][m] \in Int /\ TTL(ok) \in Nat /\ 1 <= TTL(ok)
        BY <1>0, ModelsAssumption DEF TTL, ModelsAssumption, TypeOK
      <4>4. lastProbe'[ok][m] = IF lastProbe[ok][m] > since THEN lastProbe[ok][m] ELSE since
        BY <1>0, <3>2, <3>6 DEF TypeOK
      <4> HIDE DEF since, m
      <4>5. lastProbe'[ok][m] >= 0 /\ now - lastProbe'[ok][m] <= TTL(ok)
        BY <1>0, <4>2, <4>3, <4>4
      <4>6. QED
        BY <4>1, <4>5 DEF Fresh, m
    <3>7. QED
      BY <3>5, <3>6
  <2>4. CASE Send(c) \/ Answered(c) \/ Failed(c) \/ Try(c) \/ Swap(c) \/ Restore(c) \/ GiveUp(c)
    BY <1>0, <2>4 DEF Send, Answered, Failed, Try, Swap, Restore, GiveUp
  <2>5. ASSUME NEW j \in DOMAIN config.fallbacks, ProbeStart(c, j) PROVE Fresh(c, i)
    BY <1>0, <1>1, <2>5 DEF ProbeStart
  <2>6. CASE Listed(c)
    BY <2>6 DEF Listed
  <2>7. QED
    BY <1>6, <2>1, <2>2, <2>3, <2>4, <2>5, <2>6 DEF CallStep
<1>7. QED
  BY <1>2, <1>3, <1>4, <1>5, <1>6, NextSteps

(* A fallback model is listed, or left out, after a probe whose verdict    *)
(* still holds (service.go 780-839).                                       *)
THEOREM FreshTheorem == Spec => FreshVerdict
<1>1. IInv /\ [Next]_vars =>
        [\A c \in Callers : \A i \in call[c].left :
           pc'[c] = "probe" /\ call'[c].left = call[c].left \ {i} =>
             LET m == config.fallbacks[i]
                 ok == m \in call'[c].listed
             IN  /\ lastProbe'[ok][m] >= 0
                 /\ now - lastProbe'[ok][m] <= TTL(ok)]_vars
  BY FreshStep DEF Fresh
<1>2. QED
  BY <1>1, Invariance, PTL DEF Spec, FreshVerdict

-----------------------------------------------------------------------------
(* Credentials *)

Readable == {<<l>> : l \in Logins}

(* The best of the first k caches: one of them, if any can be read, and none   *)
(* of them is better.                                                      *)
BestOf(best, caches, k, policy) ==
  /\ best = <<>> => \A j \in 1 .. k : caches[j] = <<>>
  /\ best # <<>> => \E j \in 1 .. k : caches[j] = best
  /\ \A j \in 1 .. k : caches[j] # <<>> => ~betterCredentialCandidate(caches[j][1], best[1], policy)

(* One more cache is looked at.                                            *)
LEMMA BetterBest ==
  ASSUME NEW caches \in Seq({<<>>} \cup Readable), NEW policy, NEW k \in 1 .. Len(caches),
         NEW best, BestOf(best, caches, k - 1, policy)
  PROVE  BestOf(Better(best, caches[k], policy), caches, k, policy)
<1> DEFINE new == Better(best, caches[k], policy)
<1>1. \A j \in 1 .. k : caches[j] \in {<<>>} \cup Readable
  BY ElementOfSeq
<1>2. \A j \in 1 .. k : caches[j] # <<>> => caches[j][1].modified \in Int /\ caches[j][1].expires \in Int
  BY <1>1, CredentialAssumption DEF CredentialAssumption, Readable
<1>3. \A j \in 1 .. k : j = k \/ j \in 1 .. k - 1
  OBVIOUS
<1>4. k \in 1 .. k /\ \A j \in 1 .. k - 1 : j \in 1 .. k
  OBVIOUS
<1>5. CASE caches[k] = <<>>
  <2>1. new = best
    BY <1>5 DEF Better
  <2>2. QED
    BY <1>3, <1>4, <1>5, <2>1 DEF BestOf
<1>6. CASE caches[k] # <<>> /\ best = <<>>
  <2>1. new = caches[k]
    BY <1>6 DEF Better
  <2>2. \A j \in 1 .. k : caches[j] # <<>> => j = k
    BY <1>3, <1>6 DEF BestOf
  <2>3. ~betterCredentialCandidate(caches[k][1], caches[k][1], policy)
    BY <1>2, <1>4, <1>6 DEF betterCredentialCandidate
  <2>4. QED
    BY <1>4, <1>6, <2>1, <2>2, <2>3 DEF BestOf
<1>7. CASE caches[k] # <<>> /\ best # <<>>
  <2>1. PICK b \in 1 .. k - 1 : caches[b] = best
    BY <1>7 DEF BestOf
  <2>2. CASE betterCredentialCandidate(caches[k][1], best[1], policy)
    <3>1. new = caches[k]
      BY <1>7, <2>2 DEF Better
    <3>2. ASSUME NEW j \in 1 .. k, caches[j] # <<>>
          PROVE  ~betterCredentialCandidate(caches[j][1], caches[k][1], policy)
      <4>1. j \in 1 .. k - 1 => ~betterCredentialCandidate(caches[j][1], best[1], policy)
        BY <3>2 DEF BestOf
      <4>2. QED
        BY <1>2, <1>3, <1>4, <1>7, <2>1, <2>2, <3>2, <4>1 DEF betterCredentialCandidate
    <3>3. QED
      BY <1>4, <1>7, <3>1, <3>2 DEF BestOf
  <2>3. CASE ~betterCredentialCandidate(caches[k][1], best[1], policy)
    <3>1. new = best
      BY <1>7, <2>3 DEF Better
    <3>2. QED
      BY <1>3, <1>4, <1>7, <2>1, <2>3, <3>1 DEF BestOf
  <2>4. QED
    BY <2>2, <2>3
<1>8. QED
  BY <1>5, <1>6, <1>7

(* By induction over the fold.                                             *)
LEMMA FoldBest ==
  ASSUME NEW caches \in Seq({<<>>} \cup Readable), NEW policy
  PROVE  BestOf(FoldLeft(LAMBDA best, cache : Better(best, cache, policy), <<>>, caches), caches, Len(caches), policy)
<1> DEFINE n == Len(caches)
           R == {<<>>} \cup Readable
           F == [best \in R |-> [k \in 1 .. n |-> Better(best, caches[k], policy)]]
           Folds(g) == g = [s \in SUBSET (DOMAIN caches) |->
                              IF s = {} THEN <<>> ELSE Better(g[s \ {Max(s)}], caches[Max(s)], policy)]
           iter == CHOOSE g : Folds(g)
<1>1. n \in Nat /\ DOMAIN caches = 1 .. n /\ \A k \in 1 .. n : caches[k] \in R
  BY ElementOfSeq
<1> HIDE DEF n
<1>2. F \in [R -> [1 .. n -> R]]
  BY <1>1 DEF Better
<1>3. FoldLeft(LAMBDA best, cache : Better(best, cache, policy), <<>>, caches) = iter[1 .. n]
  BY <1>1 DEF FoldLeft, MapThenFoldSet
<1>4. \E g : Folds(g)
  <2>1. PICK g \in [SUBSET (1 .. n) -> R] : IsFold(g, n, <<>>, F)
    <3> DEFINE seed == <<>>
    <3>1. seed \in R
      OBVIOUS
    <3> HIDE DEF F, R, seed
    <3>2. \E g \in [SUBSET (1 .. n) -> R] : IsFold(g, n, seed, F)
      BY <1>1, <1>2, <3>1, FoldExists
    <3>3. QED
      BY <3>2 DEF seed
  <2>2. ASSUME NEW s \in SUBSET (1 .. n), s # {}
        PROVE  F[g[s \ {Max(s)}]][Max(s)] = Better(g[s \ {Max(s)}], caches[Max(s)], policy)
    <3>1. Max(s) \in 1 .. n
      BY <1>1, <2>2, MaxIn
    <3>2. g[s \ {Max(s)}] \in R
      OBVIOUS
    <3>3. QED
      BY <3>1, <3>2
  <2> HIDE DEF F
  <2>3. Folds(g)
    BY <1>1, <2>1, <2>2 DEF IsFold
  <2>4. QED
    BY <2>3
<1>5. Folds(iter)
  BY <1>4
<1> DEFINE S == {k \in 0 .. n : BestOf(iter[1 .. k], caches, k, policy)}
<1>6. 0 \in S
  <2>1. 1 .. 0 = {} /\ {} \in SUBSET (DOMAIN caches)
    OBVIOUS
  <2>2. iter[1 .. 0] = <<>>
    BY <1>5, <2>1
  <2>3. BestOf(<<>>, caches, 0, policy)
    BY DEF BestOf
  <2>4. QED
    BY <1>1, <2>2, <2>3
<1>7. ASSUME NEW k \in 1 .. n, k - 1 \in S PROVE k \in S
  <2>1. 1 .. k \in SUBSET (DOMAIN caches) /\ k \in 1 .. k /\ (1 .. k) \ {k} = 1 .. k - 1
    <3>1. \A i : i \in (1 .. k) \ {k} <=> i \in 1 .. k - 1
      BY <1>1
    <3>2. \A i \in 1 .. k : i \in 1 .. n
      BY <1>1
    <3>3. QED
      BY <1>1, <3>1, <3>2
  <2>2. Max(1 .. k) = k
    BY MaxIs
  <2>3. iter[1 .. k] = Better(iter[1 .. k - 1], caches[k], policy)
    BY <1>5, <2>1, <2>2
  <2>4. QED
    <3>1. BestOf(iter[1 .. k - 1], caches, k - 1, policy)
      BY <1>7
    <3> HIDE DEF iter
    <3>2. BestOf(iter[1 .. k], caches, k, policy)
      BY <2>3, <3>1, BetterBest DEF n, R
    <3>3. QED
      BY <1>1, <3>2
<1>8. n \in S
  <2> HIDE DEF S
  <2>1. 0 .. n \subseteq S
    BY <1>1, <1>6, <1>7, BoundedInduction
  <2>2. QED
    BY <1>1, <2>1
<1>9. QED
  BY <1>3, <1>8 DEF n

(* The pick is a cache that can be read, if there is one, and no other is  *)
(* better; "auto" takes the first.                                         *)
LEMMA PickBest ==
  ASSUME NEW caches \in Seq({<<>>} \cup Readable), NEW policy \in {"auto", "newest", "longest"}
  PROVE  LET login == LoadCredentialByPolicy(caches, policy)
             readable == {k \in DOMAIN caches : caches[k] # <<>>}
         IN  /\ login = <<>> <=> readable = {}
             /\ login # <<>> => \E j \in DOMAIN caches : caches[j] = login
             /\ \A k \in readable :
                  /\ ~betterCredentialCandidate(caches[k][1], login[1], policy)
                  /\ policy = "auto" => \E j \in 1 .. k : caches[j] = login
<1> DEFINE login == LoadCredentialByPolicy(caches, policy)
           readable == {k \in DOMAIN caches : caches[k] # <<>>}
<1>1. DOMAIN caches = 1 .. Len(caches) /\ Len(caches) \in Nat
  OBVIOUS
<1>2. CASE policy = "auto"
  <2>1. readable = {i \in 1 .. Len(caches) : caches[i] # <<>>}
    BY <1>1
  <2>2. login = IF readable = {} THEN <<>> ELSE caches[Min(readable)]
    <3>1. CASE readable = {}
      BY <1>2, <2>1, <3>1 DEF LoadCredentialByPolicy, importLingmaCacheCredential, SelectInSeq
    <3>2. CASE readable # {}
      <4>1. readable \in SUBSET Nat
        BY <1>1
      <4>2. Min(readable) # 0
        <5> HIDE DEF readable
        <5>1. Min(readable) \in readable
          BY <3>2, <4>1, MinIs
        <5>2. QED
          BY <1>1, <5>1 DEF readable
      <4>3. QED
        BY <1>2, <2>1, <3>2, <4>2 DEF LoadCredentialByPolicy, importLingmaCacheCredential, SelectInSeq
    <3>3. QED
      BY <3>1, <3>2
  <2>3. ASSUME readable # {}
        PROVE  Min(readable) \in readable /\ \A k \in readable : Min(readable) \in 1 .. k
    <3>1. readable \in SUBSET Nat /\ \A k \in readable : k \in Nat /\ k >= 1
      BY <1>1
    <3> DEFINE m == Min(readable)
    <3>2. m \in readable /\ \A k \in readable : m <= k
      <4> HIDE DEF readable
      <4>1. QED
        BY <2>3, <3>1, MinIs
    <3> HIDE DEF readable, m
    <3>3. m \in readable /\ \A k \in readable : m \in 1 .. k
      BY <3>1, <3>2
    <3>4. QED
      BY <3>3 DEF m
  <2>4. \A k \in readable : ~betterCredentialCandidate(caches[k][1], login[1], policy)
    BY <1>2 DEF betterCredentialCandidate
  <2> DEFINE m == Min(readable)
  <2> HIDE DEF login, m
  <2>5. QED
    BY <1>1, <2>2, <2>3, <2>4 DEF login, m
<1>3. CASE policy # "auto"
  <2>1. BestOf(login, caches, Len(caches), policy)
    BY <1>3, FoldBest DEF LoadCredentialByPolicy
  <2> HIDE DEF login
  <2>2. QED
    BY <1>1, <1>3, <2>1 DEF BestOf, login
<1>4. QED
  BY <1>2, <1>3

-----------------------------------------------------------------------------
(* Until two exports overlap: one export at most is under way, on the file *)
(* that has the temporary name, and the target has the last login that was *)
(* renamed.                                                                *)
LastExport ==
  /\ target \in Inodes \cup {NoFile} /\ tmp \in Inodes \cup {NoFile}
  /\ tmp # NoFile => tmp # target
  /\ content \in [Inodes -> {<<>>} \cup Readable]
  /\ exporter \in [Exporters -> [pc : {"ready", "opened", "written"}, inode : Inodes \cup {NoFile},
                                 login : {<<>>} \cup Readable]]
  /\ \A e \in Exporters : exporter[e].pc = "ready" => exporter[e] = Ready
  /\ \A d, e \in Exporters : exporter[d].pc # "ready" /\ exporter[e].pc # "ready" => d = e
  /\ \A e \in Exporters : exporter[e].pc # "ready" =>
       /\ tmp # NoFile /\ exporter[e].inode = tmp
       /\ content[tmp] = IF exporter[e].pc = "opened" THEN <<>> ELSE exporter[e].login
  /\ loadCredentialFile = saved

ExportInv == ~together => LastExport

(* Before the first export there is no file.                               *)
LEMMA ExportInit == CredentialsInit => ExportInv
BY DEF CredentialsInit, ExportInv, LastExport, Ready, Exporting, loadCredentialFile

(* No step of an export that is alone breaks it: what the next one finds   *)
(* under the temporary name it empties first.                              *)
LEMMA ExportStep == ExportInv /\ [CredentialsNext]_credentialVars => ExportInv'
<1> SUFFICES ASSUME ExportInv, [CredentialsNext]_credentialVars, ~together' PROVE LastExport'
  BY DEF ExportInv
<1>1. ~together
  BY DEF CredentialsNext, credentialVars, OpenTemporary, WriteTemporary, Rename, RenameFails, Die
<1>2. LastExport
  BY <1>1 DEF ExportInv
<1> USE CredentialAssumption DEF CredentialAssumption
<1>3. ASSUME NEW e \in Exporters, OpenTemporary(e) PROVE LastExport'
  <2>1. PICK login \in {LoadCredentialByPolicy(caches, "auto") : caches \in Caches} \ {<<>>} :
          LET i == IF tmp # NoFile THEN tmp
                   ELSE CHOOSE j \in Inodes \ {target} : \A d \in Exporters : exporter[d].inode # j
          IN  /\ tmp' = i
              /\ content' = [content EXCEPT ![i] = <<>>]
              /\ exporter' = [exporter EXCEPT ![e] = Exporting("opened", i, login)]
    BY <1>3 DEF OpenTemporary
  <2>2. login \in Readable
    <3>1. PICK caches \in Caches : login = LoadCredentialByPolicy(caches, "auto")
      BY <2>1
    <3>2. caches \in Seq({<<>>} \cup Readable)
      BY BoundedIsSeq DEF Caches, Readable
    <3>3. PICK j \in DOMAIN caches : caches[j] = login
      BY <2>1, <3>1, <3>2, PickBest
    <3>4. QED
      BY <2>1, <3>2, <3>3
  <2>3. \A d \in Exporters : exporter[d].pc = "ready"
    BY <1>3 DEF OpenTemporary
  <2>4. tmp' \in Inodes /\ tmp' # target /\ target # tmp'
    <3>1. CASE tmp # NoFile
      BY <1>2, <2>1, <3>1 DEF LastExport
    <3>2. CASE tmp = NoFile
      <4>1. \A d \in Exporters : exporter[d].inode = NoFile
        BY <1>2, <2>3 DEF LastExport, Ready, Exporting
      <4>2. \E j \in Inodes \ {target} : \A d \in Exporters : exporter[d].inode # j
        BY <4>1
      <4>3. QED
        BY <2>1, <3>2, <4>2
    <3>3. QED
      BY <3>1, <3>2
  <2>5. UNCHANGED <<target, saved>>
    BY <1>3 DEF OpenTemporary
  <2>6. content' = [content EXCEPT ![tmp'] = <<>>] /\ exporter' = [exporter EXCEPT ![e] = Exporting("opened", tmp', login)]
    BY <2>1
  <2>7. loadCredentialFile' = saved'
    BY <1>2, <2>4, <2>5, <2>6 DEF LastExport, loadCredentialFile
  <2>8. QED
    BY <1>2, <2>2, <2>3, <2>4, <2>5, <2>6, <2>7 DEF LastExport, Exporting
<1>4. ASSUME NEW e \in Exporters, WriteTemporary(e) PROVE LastExport'
  <2>1. tmp \in Inodes /\ exporter[e].inode = tmp /\ content[tmp] = <<>> /\ exporter[e].login \in {<<>>} \cup Readable
    BY <1>2, <1>4 DEF WriteTemporary, LastExport
  <2>2. content' = [content EXCEPT ![tmp] = exporter[e].login] /\ UNCHANGED <<target, tmp, saved>>
        /\ exporter' = [exporter EXCEPT ![e].pc = "written"]
    BY <1>4, <2>1 DEF WriteTemporary
  <2>3. loadCredentialFile' = saved'
    BY <1>2, <2>1, <2>2 DEF LastExport, loadCredentialFile
  <2>4. exporter[e].pc = "opened"
    BY <1>4 DEF WriteTemporary
  <2>5. QED
    BY <1>2, <2>1, <2>2, <2>3, <2>4 DEF LastExport, Ready, Exporting
<1>5. ASSUME NEW e \in Exporters, Done(e), UNCHANGED content, exporter[e].pc # "ready"
      PROVE  /\ exporter' \in [Exporters -> [pc : {"ready", "opened", "written"}, inode : Inodes \cup {NoFile},
                                             login : {<<>>} \cup Readable]]
             /\ \A d \in Exporters : exporter'[d] = Ready /\ Ready.pc = "ready"
  BY <1>2, <1>5 DEF LastExport, Done, Ready, Exporting
<1>6. ASSUME NEW e \in Exporters, Rename(e) PROVE LastExport'
  BY <1>2, <1>5, <1>6 DEF LastExport, Rename, loadCredentialFile
<1>7. ASSUME NEW e \in Exporters, RenameFails(e) PROVE LastExport'
  BY <1>2, <1>5, <1>7 DEF LastExport, RenameFails, loadCredentialFile
<1>8. ASSUME NEW e \in Exporters, Die(e) PROVE LastExport'
  <2>1. content' = content
    BY <1>2, <1>8 DEF Die, LastExport
  <2>2. QED
    BY <1>2, <1>5, <1>8, <2>1 DEF LastExport, Die, loadCredentialFile
<1>9. CASE UNCHANGED credentialVars
  BY <1>2, <1>9 DEF credentialVars, LastExport, loadCredentialFile
<1>10. QED
  BY <1>3, <1>4, <1>6, <1>7, <1>8, <1>9 DEF CredentialsNext

(* Exports that do not overlap leave the last login that was renamed, and  *)
(* no readable cache is better than a pick (credentials.go 68-132).        *)
THEOREM CredentialTheorem == CredentialsSpec => []CredentialWhole
<1>1. ExportInv => CredentialWhole
  <2>1. ASSUME NEW caches \in Caches PROVE caches \in Seq({<<>>} \cup Readable)
    BY BoundedIsSeq DEF Caches, Readable
  <2>2. ASSUME NEW caches \in Caches, NEW policy \in {"auto", "newest", "longest"}
        PROVE  LET login == LoadCredentialByPolicy(caches, policy)
                   readable == {k \in DOMAIN caches : caches[k] # <<>>}
               IN  /\ login = <<>> <=> readable = {}
                   /\ \A k \in readable :
                        /\ ~betterCredentialCandidate(caches[k][1], login[1], policy)
                        /\ policy = "auto" => \E j \in 1 .. k : caches[j] = login
    <3>1. caches \in Seq({<<>>} \cup Readable)
      BY <2>1
    <3>2. QED
      BY <3>1, PickBest
  <2>3. QED
    BY <2>2 DEF ExportInv, LastExport, CredentialWhole
<1>2. QED
  BY <1>1, ExportInit, ExportStep, PTL DEF CredentialsSpec

-----------------------------------------------------------------------------
(* RemoteStream: what upstream says of a call in one event, and what the   *)
(* buffer keeps of a call.                                                 *)
Pieces == [index : StreamCalls, id : {Unknown, "id"}, name : {Unknown, "tool"}, piece : Nat]
CallStates == [id : {Unknown, "id"}, name : {Unknown, "tool"}, arguments : Seq(Nat)]
Buffers == [order : Seq(StreamCalls), states : [StreamCalls -> CallStates]]

(* A fragment leaves a buffer a buffer.                                    *)
LEMMA AddTyped ==
  ASSUME NEW b \in Buffers, NEW x \in Pieces
  PROVE  AddOne(b, x) \in Buffers
<1>1. x.index \in StreamCalls /\ x.id \in {Unknown, "id"} /\ x.name \in {Unknown, "tool"} /\ x.piece \in Nat
  BY DEF Pieces
<1>2. b.order \in Seq(StreamCalls) /\ b.states \in [StreamCalls -> CallStates]
  BY DEF Buffers
<1>3. b.states[x.index].id \in {Unknown, "id"} /\ b.states[x.index].name \in {Unknown, "tool"}
      /\ b.states[x.index].arguments \in Seq(Nat)
  BY <1>1, <1>2 DEF CallStates
<1>4. Append(b.order, x.index) \in Seq(StreamCalls) /\ Append(b.states[x.index].arguments, x.piece) \in Seq(Nat)
  BY <1>1, <1>2, <1>3, AppendProperties
<1>5. ASSUME NEW args \in Seq(Nat)
      PROVE  State(Given(x.id, b.states[x.index].id), Given(x.name, b.states[x.index].name), args) \in CallStates
  BY <1>1, <1>3 DEF State, Given, CallStates
<1>6. QED
  BY <1>1, <1>2, <1>3, <1>4, <1>5 DEF AddOne, Buffers

(* The buffer after each fragment of an event.                             *)
LEMMA AddSteps ==
  ASSUME NEW start \in Buffers, NEW xs \in Seq(Pieces)
  PROVE  \E b \in [0 .. Len(xs) -> Buffers] :
           /\ b[0] = start /\ b[Len(xs)] = FoldLeft(AddOne, start, xs)
           /\ \A k \in 1 .. Len(xs) : b[k] = AddOne(b[k - 1], xs[k])
<1> DEFINE n == Len(xs)
           F == [b \in Buffers |-> [k \in 1 .. n |-> AddOne(b, xs[k])]]
           Folds(g) == g = [s \in SUBSET (DOMAIN xs) |->
                              IF s = {} THEN start ELSE AddOne(g[s \ {Max(s)}], xs[Max(s)])]
           iter == CHOOSE g : Folds(g)
<1>1. n \in Nat /\ DOMAIN xs = 1 .. n /\ \A k \in 1 .. n : xs[k] \in Pieces
  BY ElementOfSeq
<1> HIDE DEF n
<1>2. F \in [Buffers -> [1 .. n -> Buffers]]
  BY <1>1, AddTyped
<1>3. FoldLeft(AddOne, start, xs) = iter[1 .. n]
  BY <1>1 DEF FoldLeft, MapThenFoldSet
<1>4. PICK g \in [SUBSET (1 .. n) -> Buffers] : IsFold(g, n, start, F)
  <2> HIDE DEF F
  <2>1. QED
    BY <1>1, <1>2, FoldExists
<1>5. Folds(g)
  <2>1. ASSUME NEW s \in SUBSET (1 .. n), s # {}
        PROVE  F[g[s \ {Max(s)}]][Max(s)] = AddOne(g[s \ {Max(s)}], xs[Max(s)])
    <3>1. Max(s) \in 1 .. n
      BY <1>1, <2>1, MaxIn
    <3>2. g[s \ {Max(s)}] \in Buffers
      OBVIOUS
    <3>3. QED
      BY <3>1, <3>2
  <2> HIDE DEF F
  <2>2. QED
    BY <1>1, <1>4, <2>1 DEF IsFold
<1>6. Folds(iter)
  BY <1>5
<1> DEFINE Same(k) == iter[1 .. k] \in Buffers
           S == {k \in 0 .. n : Same(k)}
<1>7. iter[1 .. 0] = start
  <2>1. 1 .. 0 = {} /\ {} \in SUBSET (DOMAIN xs)
    OBVIOUS
  <2>2. QED
    BY <1>6, <2>1
<1>8. ASSUME NEW k \in 1 .. n
      PROVE  iter[1 .. k] = AddOne(iter[1 .. k - 1], xs[k])
  <2>1. 1 .. k \in SUBSET (1 .. n) /\ k \in 1 .. k /\ k \in Nat /\ k \in Nat
    BY <1>1
  <2>2. Max(1 .. k) = k
    BY <2>1, MaxIs
  <2>3. (1 .. k) \ {k} = 1 .. k - 1
    BY <2>1
  <2> HIDE DEF iter
  <2>4. QED
    BY <1>1, <1>6, <2>1, <2>2, <2>3
<1> HIDE DEF iter
<1>9. 0 \in S
  BY <1>1, <1>7
<1>10. ASSUME NEW k \in 1 .. n, k - 1 \in S PROVE k \in S
  BY <1>1, <1>8, <1>10, AddTyped
<1> HIDE DEF S
<1>11. 0 .. n \subseteq S
  BY <1>1, <1>9, <1>10, BoundedInduction
<1>12. \A k \in 0 .. n : iter[1 .. k] \in Buffers
  BY <1>11 DEF S
<1> DEFINE b == [k \in 0 .. n |-> iter[1 .. k]]
<1>13. b \in [0 .. n -> Buffers] /\ b[0] = start /\ b[n] = iter[1 .. n]
  BY <1>1, <1>7, <1>12
<1>14. \A k \in 1 .. n : b[k] = AddOne(b[k - 1], xs[k])
  BY <1>1, <1>8
<1>15. QED
  BY <1>3, <1>13, <1>14 DEF n

-----------------------------------------------------------------------------
(* What the buffer knows of a call, and what upstream has left to say.     *)
Begun(o, i) == \E k \in 1 .. Len(o) : o[k] = i

(* Of a call with L to come: nothing was kept, and the first fragment      *)
(* will name it, or the pieces before those of L are kept, and L says      *)
(* nothing new.                                                            *)
Coming(i, o, state, L) ==
  /\ \A n \in 1 .. Len(L) : L[n].index = i /\ L[n].piece = ArgumentPieces - Len(L) + n
  /\ \A n \in 2 .. Len(L) : L[n].name = Unknown
  /\ Begun(o, i) => /\ Len(L) <= ArgumentPieces
                    /\ \A n \in 1 .. Len(L) : L[n].name = Unknown /\ L[n].id \in {Unknown, state.id}
                    /\ state.arguments = [n \in 1 .. ArgumentPieces - Len(L) |-> n]
  /\ ~Begun(o, i) => /\ state = State(Unknown, Unknown, <<>>)
                     /\ Len(L) \in {ArgumentPieces, ArgumentPieces + 1}
                     /\ \A n \in 2 .. Len(L) : L[n].id \in {Unknown, L[1].id}

(* The calls of the buffer, in its order, are those whose first fragment   *)
(* f has, and keep its name and id.                                        *)
Matched(o, s, f) ==
  /\ Len(o) = Len(f)
  /\ \A k \in 1 .. Len(f) : /\ f[k].index = o[k]
                            /\ f[k].name = s[o[k]].name /\ f[k].id = s[o[k]].id

(* The inductive invariant of the buffer.                                  *)
CallsInv(o, s, f, t) ==
  /\ o \in Seq(StreamCalls) /\ s \in [StreamCalls -> CallStates]
  /\ f \in Seq(Pieces) /\ t \in [StreamCalls -> Seq(Pieces)]
  /\ Matched(o, s, f)
  /\ \A i \in StreamCalls : Coming(i, o, s[i], t[i])

(* The first fragment to come of call i.                                   *)
Took(o, s, f, t, i) ==
  LET x == Head(t[i])
      b == AddOne([order |-> o, states |-> s], x)
      u == IF Begun(o, i) THEN f ELSE f \o <<x>>
  IN  /\ CallsInv(b.order, b.states, u, [t EXCEPT ![i] = Tail(t[i])])
      /\ \A j \in StreamCalls : j # i => (Begun(b.order, j) <=> Begun(o, j))

(* The next fragment of a call, whatever came in between, leaves the       *)
(* invariant and says nothing of other calls.                              *)
LEMMA OneFragment ==
  ASSUME NEW o, NEW s, NEW f, NEW t, CallsInv(o, s, f, t), NEW i \in StreamCalls, t[i] # <<>>
  PROVE  Took(o, s, f, t, i)
<1> DEFINE x == Head(t[i])
           b == AddOne([order |-> o, states |-> s], x)
           u == IF Begun(o, i) THEN f ELSE f \o <<x>>
<1>1. x = Head(t[i])
  OBVIOUS
<1>2. b = AddOne([order |-> o, states |-> s], x)
  OBVIOUS
<1>3. u = IF Begun(o, i) THEN f ELSE f \o <<x>>
  OBVIOUS
<1> HIDE DEF x, b, u
<1> DEFINE L == t[i]
           m == Tail(L)
           st == s[i]
           args == IF x.piece = 0 THEN st.arguments ELSE Append(st.arguments, x.piece)
           new == State(Given(x.id, st.id), Given(x.name, st.name), args)
           P == ArgumentPieces
<1>4. P \in Nat
  BY FragmentAssumption
<1>5. /\ o \in Seq(StreamCalls) /\ s \in [StreamCalls -> CallStates]
      /\ f \in Seq(Pieces) /\ t \in [StreamCalls -> Seq(Pieces)]
      /\ Matched(o, s, f) /\ \A j \in StreamCalls : Coming(j, o, s[j], t[j])
  BY DEF CallsInv
<1>6. /\ L \in Seq(Pieces) /\ Len(L) \in Nat /\ Len(L) > 0 /\ x = L[1] /\ x \in Pieces
      /\ m \in Seq(Pieces) /\ Len(m) = Len(L) - 1 /\ \A n \in 1 .. Len(m) : m[n] = L[n + 1]
  BY <1>5, <1>1, HeadTailProperties, EmptySeq
<1>7. Coming(i, o, st, L)
  BY <1>5
<1> HIDE DEF L, m
<1>8. /\ x.index = i /\ x.piece = P - Len(L) + 1 /\ x.piece \in Nat
      /\ x.id \in {Unknown, "id"} /\ x.name \in {Unknown, "tool"}
  <2>1. 1 \in 1 .. Len(L)
    BY <1>6
  <2>2. x.piece \in Nat /\ x.id \in {Unknown, "id"} /\ x.name \in {Unknown, "tool"}
    BY <1>6 DEF Pieces
  <2>3. QED
    BY <1>6, <1>7, <2>1, <2>2 DEF Coming
<1>9. st \in CallStates /\ st.arguments \in Seq(Nat) /\ Contains(o, i) = Begun(o, i)
  BY <1>5 DEF CallStates, Contains, Begun
<1>10. b.states = [s EXCEPT ![i] = new] /\ b.order = (IF Begun(o, i) THEN o ELSE Append(o, i))
  BY <1>8, <1>9, <1>2 DEF AddOne
<1>11. ~Begun(o, i) => /\ b.order = Append(o, i) /\ Len(b.order) = Len(o) + 1 /\ Len(o) \in Nat
                      /\ b.order[Len(o) + 1] = i /\ \A k \in 1 .. Len(o) : b.order[k] = o[k]
  <2> DEFINE o2 == Append(o, i)
  <2>1. Len(o2) = Len(o) + 1 /\ Len(o) \in Nat /\ o2[Len(o) + 1] = i /\ \A k \in 1 .. Len(o) : o2[k] = o[k]
    BY <1>5, AppendProperties
  <2> HIDE DEF o2
  <2>2. ~Begun(o, i) => b.order = o2
    BY <1>10 DEF o2
  <2>3. QED
    BY <2>1, <2>2 DEF o2
<1>12. b \in Buffers
  BY <1>5, <1>6, <1>2, AddTyped DEF Buffers
<1>13. b.order \in Seq(StreamCalls) /\ b.states \in [StreamCalls -> CallStates]
  BY <1>12 DEF Buffers
<1>14. u \in Seq(Pieces)
  <2>1. <<x>> \in Seq(Pieces)
    BY <1>6
  <2>2. QED
    BY <1>5, <1>3, <2>1, ConcatProperties
<1>15. b.states[i] = new /\ \A j \in StreamCalls : j # i => b.states[j] = s[j]
  BY <1>5, <1>10
<1>16. new.id = Given(x.id, st.id) /\ new.name = Given(x.name, st.name) /\ new.arguments = args
  BY DEF State
<1>17. Begun(b.order, i) /\ \A j \in StreamCalls : j # i => (Begun(b.order, j) <=> Begun(o, j))
  <2>1. CASE Begun(o, i)
    BY <1>10, <2>1
  <2>2. CASE ~Begun(o, i)
    <3>1. b.order = Append(o, i) /\ Len(b.order) = Len(o) + 1 /\ Len(o) \in Nat
          /\ b.order[Len(o) + 1] = i /\ \A k \in 1 .. Len(o) : b.order[k] = o[k]
      BY <1>11, <2>2
    <3>2. QED
      BY <3>1 DEF Begun
  <2>3. QED
    BY <2>1, <2>2
<1>18. new.arguments = [n \in 1 .. P - Len(m) |-> n] /\ Len(m) <= P
  <2>1. CASE Begun(o, i)
    <3>1. Len(L) <= P /\ st.arguments = [n \in 1 .. P - Len(L) |-> n]
      BY <1>7, <2>1 DEF Coming
    <3> DEFINE q == P - Len(L)
    <3>2. q \in Nat /\ x.piece = q + 1 /\ P - Len(m) = q + 1
      BY <1>4, <1>6, <1>8, <3>1
    <3> HIDE DEF q
    <3>3. Len(st.arguments) = q
      BY <3>1, <3>2 DEF q
    <3>4. args = Append(st.arguments, q + 1)
      BY <3>2
    <3>5. args = [n \in 1 .. q + 1 |-> n]
      <4>1. st.arguments = [n \in 1 .. q |-> n]
        BY <3>1 DEF q
      <4> HIDE DEF args
      <4>2. args \in Seq(Nat) /\ Len(args) = q + 1 /\ args[q + 1] = q + 1 /\ \A n \in 1 .. q : args[n] = n
        BY <1>9, <3>2, <3>3, <3>4, <4>1, AppendProperties
      <4>3. DOMAIN args = 1 .. q + 1 /\ args = [n \in DOMAIN args |-> args[n]]
        BY <4>2
      <4>4. \A n \in 1 .. q + 1 : args[n] = n
        BY <3>2, <4>2
      <4>5. QED
        BY <4>3, <4>4
    <3>6. Len(m) <= P
      BY <1>4, <1>6, <3>1
    <3> HIDE DEF args, new
    <3>7. QED
      BY <1>16, <3>2, <3>5, <3>6
  <2>2. CASE ~Begun(o, i)
    <3>1. st = State(Unknown, Unknown, <<>>) /\ Len(L) \in {P, P + 1}
      BY <1>7, <2>2 DEF Coming
    <3>2. st.arguments = <<>>
      BY <3>1 DEF State
    <3>3. CASE Len(L) = P
      <4>1. x.piece = 1 /\ args = <<1>> /\ P - Len(m) = 1 /\ Len(m) <= P
        BY <1>4, <1>6, <1>8, <3>2, <3>3
      <4>2. <<1>> = [n \in 1 .. 1 |-> n]
        OBVIOUS
      <4>3. QED
        BY <1>16, <4>1, <4>2
    <3>4. CASE Len(L) = P + 1
      <4>1. x.piece = 0 /\ args = <<>> /\ P - Len(m) = 0 /\ Len(m) <= P
        BY <1>4, <1>6, <1>8, <3>2, <3>4
      <4>2. <<>> = [n \in 1 .. 0 |-> n]
        OBVIOUS
      <4>3. QED
        BY <1>16, <4>1, <4>2
    <3>5. QED
      BY <3>1, <3>3, <3>4
  <2>3. QED
    BY <2>1, <2>2
<1>19. \A n \in 1 .. Len(m) : /\ m[n].index = i /\ m[n].piece = P - Len(m) + n
                              /\ m[n].name = Unknown /\ m[n].id \in {Unknown, new.id}
  <2> SUFFICES ASSUME NEW n \in 1 .. Len(m)
               PROVE  /\ m[n].index = i /\ m[n].piece = P - Len(m) + n
                      /\ m[n].name = Unknown /\ m[n].id \in {Unknown, new.id}
    OBVIOUS
  <2>1. m[n] = L[n + 1] /\ n + 1 \in 1 .. Len(L) /\ n + 1 \in 2 .. Len(L)
    BY <1>6
  <2>2. m[n].index = i /\ m[n].piece = P - Len(L) + (n + 1) /\ m[n].name = Unknown
    BY <1>7, <2>1 DEF Coming
  <2>3. m[n].id \in {Unknown, new.id}
    <3>1. CASE Begun(o, i)
      <4>1. m[n].id \in {Unknown, st.id} /\ x.id \in {Unknown, st.id}
        BY <1>6, <1>7, <2>1, <3>1, 1 \in 1 .. Len(L) DEF Coming
      <4>2. QED
        BY <1>16, <4>1 DEF Given
    <3>2. CASE ~Begun(o, i)
      <4>1. m[n].id \in {Unknown, x.id} /\ st = State(Unknown, Unknown, <<>>)
        BY <1>6, <1>7, <2>1, <3>2 DEF Coming
      <4>2. st.id = Unknown
        BY <4>1 DEF State
      <4>3. QED
        BY <1>16, <4>1, <4>2 DEF Given
    <3>3. QED
      BY <3>1, <3>2
  <2>4. QED
    BY <1>4, <1>6, <2>2, <2>3
<1>20. Coming(i, b.order, b.states[i], m)
  <2> DEFINE known == b.states[i]
             o2 == b.order
  <2>1. known = new /\ Begun(o2, i) /\ \A n \in 2 .. Len(m) : n \in 1 .. Len(m)
    BY <1>6, <1>15, <1>17
  <2> HIDE DEF known, o2, new
  <2>2. Coming(i, o2, known, m)
    BY <1>18, <1>19, <2>1 DEF Coming
  <2>3. QED
    BY <2>2 DEF known, o2
<1>21. \A j \in StreamCalls : j # i => Coming(j, b.order, b.states[j], t[j])
  BY <1>5, <1>15, <1>17 DEF Coming
<1>22. Matched(b.order, b.states, u)
  <2>1. CASE Begun(o, i)
    <3>1. x.name = Unknown /\ x.id \in {Unknown, st.id}
      BY <1>6, <1>7, <2>1, 1 \in 1 .. Len(L) DEF Coming
    <3>2. new.name = st.name /\ new.id = st.id
      BY <1>16, <3>1 DEF Given
    <3>3. b.order = o /\ u = f
      BY <1>10, <1>3, <2>1
    <3>4. \A j \in StreamCalls : b.states[j].name = s[j].name /\ b.states[j].id = s[j].id
      BY <1>15, <3>2
    <3>5. \A k \in 1 .. Len(f) : o[k] \in StreamCalls
      BY <1>5, ElementOfSeq DEF Matched
    <3>6. /\ Len(o) = Len(f)
          /\ \A k \in 1 .. Len(f) : f[k].index = o[k] /\ f[k].name = s[o[k]].name /\ f[k].id = s[o[k]].id
      BY <1>5 DEF Matched
    <3> HIDE DEF new
    <3>7. QED
      BY <3>3, <3>4, <3>5, <3>6 DEF Matched
  <2>2. CASE ~Begun(o, i)
    <3>1. /\ b.order = Append(o, i) /\ Len(b.order) = Len(o) + 1 /\ Len(o) \in Nat
          /\ b.order[Len(o) + 1] = i /\ \A k \in 1 .. Len(o) : b.order[k] = o[k]
      BY <1>11, <2>2
    <3>2. Len(o) = Len(f) /\ <<x>> \in Seq(Pieces)
      BY <1>5, <1>6 DEF Matched
    <3>3. /\ Len(u) = Len(f) + 1 /\ u[Len(f) + 1] = x /\ \A k \in 1 .. Len(f) : u[k] = f[k]
      BY <1>5, <1>3, <2>2, <3>1, <3>2, ConcatProperties
    <3>4. new.name = x.name /\ new.id = x.id
      <4>1. st.name = Unknown /\ st.id = Unknown
        <5>1. st = State(Unknown, Unknown, <<>>)
          BY <1>7, <2>2 DEF Coming
        <5>2. QED
          BY <5>1 DEF State
      <4>2. QED
        BY <1>16, <4>1 DEF Given
    <3>5. ASSUME NEW k \in 1 .. Len(f)
          PROVE  u[k].index = b.order[k] /\ u[k].name = b.states[b.order[k]].name /\ u[k].id = b.states[b.order[k]].id
      <4>1. o[k] \in StreamCalls /\ o[k] # i /\ b.order[k] = o[k] /\ u[k] = f[k]
        BY <1>5, <2>2, <3>1, <3>2, <3>3, ElementOfSeq DEF Begun
      <4>2. f[k].index = o[k] /\ f[k].name = s[o[k]].name /\ f[k].id = s[o[k]].id
        BY <1>5 DEF Matched
      <4>3. QED
        BY <1>15, <4>1, <4>2
    <3>6. \A k \in 1 .. Len(f) + 1 : k \in 1 .. Len(f) \/ k = Len(f) + 1
      BY <3>1, <3>2
    <3>7. u[Len(f) + 1].index = b.order[Len(f) + 1] /\ b.order[Len(f) + 1] = i
          /\ u[Len(f) + 1].name = b.states[i].name /\ u[Len(f) + 1].id = b.states[i].id
      BY <1>8, <1>15, <3>1, <3>2, <3>3, <3>4
    <3> HIDE DEF new
    <3>8. Len(b.order) = Len(u)
      BY <3>1, <3>2, <3>3
    <3> DEFINE o2 == b.order
               s2 == b.states
               last == Len(f) + 1
    <3>9. /\ Len(o2) = Len(u) /\ Len(u) = last
          /\ \A k \in 1 .. last : /\ u[k].index = o2[k]
                                  /\ u[k].name = s2[o2[k]].name /\ u[k].id = s2[o2[k]].id
      <4>1. \A k \in 1 .. Len(f) : /\ u[k].index = o2[k]
                                   /\ u[k].name = s2[o2[k]].name /\ u[k].id = s2[o2[k]].id
        BY <3>5
      <4>2. u[last].index = o2[last] /\ u[last].name = s2[o2[last]].name /\ u[last].id = s2[o2[last]].id
        BY <3>7
      <4>3. Len(u) = last /\ Len(o2) = Len(u)
        BY <3>3, <3>8
      <4> HIDE DEF s2, o2
      <4>4. \A k \in 1 .. last : k \in 1 .. Len(f) \/ k = last
        BY <3>6
      <4> HIDE DEF last
      <4>5. QED
        BY <4>1, <4>2, <4>3, <4>4
    <3> HIDE DEF o2, s2, last
    <3>10. Matched(o2, s2, u)
      BY <3>9 DEF Matched
    <3>11. QED
      BY <3>10 DEF o2, s2
  <2>3. QED
    BY <2>1, <2>2
<1> DEFINE t2 == [t EXCEPT ![i] = m]
<1>23. t2 \in [StreamCalls -> Seq(Pieces)] /\ t2[i] = m /\ \A j \in StreamCalls : j # i => t2[j] = t[j]
  BY <1>5, <1>6
<1> HIDE DEF t2, new
<1>24. \A j \in StreamCalls : Coming(j, b.order, b.states[j], t2[j])
  BY <1>20, <1>21, <1>23
<1>25. CallsInv(b.order, b.states, u, t2)
  BY <1>13, <1>14, <1>22, <1>23, <1>24 DEF CallsInv
<1>26. QED
  BY <1>17, <1>25 DEF t2, m, L, x, b, u, Took

(* Without the fragments of the first k calls of an event.                 *)
Rest(t, ind, k) == [i \in StreamCalls |-> IF \E j \in 1 .. k : ind[j] = i THEN Tail(t[i]) ELSE t[i]]

(* The buffer b and the first fragments c as the fragments of an event     *)
(* are added in turn.                                                      *)
InTurn(n, ind, o, s, f, t, xs, b, c) ==
  /\ n \in Nat /\ ind \in [1 .. n -> StreamCalls] /\ \A j, k \in 1 .. n : ind[j] = ind[k] => j = k
  /\ xs \in [1 .. n -> Pieces] /\ \A k \in 1 .. n : t[ind[k]] # <<>> /\ xs[k] = Head(t[ind[k]])
  /\ b \in [0 .. n -> Buffers] /\ b[0] = [order |-> o, states |-> s]
  /\ \A k \in 1 .. n : b[k] = AddOne(b[k - 1], xs[k])
  /\ c \in [0 .. n -> Seq(Pieces)] /\ c[0] = <<>>
  /\ \A k \in 1 .. n : c[k] = c[k - 1] \o (IF Begun(o, ind[k]) THEN <<>> ELSE <<xs[k]>>)

(* An event has no two fragments of a call: the invariant holds after      *)
(* each.                                                                   *)
LEMMA FragmentsTaken ==
  ASSUME NEW n, NEW ind, NEW o0, NEW s0, NEW f0, NEW t0, NEW xs, NEW b, NEW c,
         InTurn(n, ind, o0, s0, f0, t0, xs, b, c), CallsInv(o0, s0, f0, t0)
  PROVE  CallsInv(b[n].order, b[n].states, f0 \o c[n], Rest(t0, ind, n))
<1>1. /\ CallsInv(o0, s0, f0, t0) /\ \A j, k \in 1 .. n : ind[j] = ind[k] => j = k
      /\ \A k \in 1 .. n : t0[ind[k]] # <<>> /\ xs[k] = Head(t0[ind[k]])
      /\ b[0] = [order |-> o0, states |-> s0] /\ \A k \in 1 .. n : b[k] = AddOne(b[k - 1], xs[k])
      /\ c[0] = <<>>
      /\ \A k \in 1 .. n : c[k] = c[k - 1] \o (IF Begun(o0, ind[k]) THEN <<>> ELSE <<xs[k]>>)
  BY DEF InTurn
<1>2. /\ n \in Nat /\ ind \in [1 .. n -> StreamCalls] /\ xs \in [1 .. n -> Pieces]
      /\ b \in [0 .. n -> Buffers] /\ c \in [0 .. n -> Seq(Pieces)]
  BY DEF InTurn
<1> USE <1>2
<1> DEFINE left(k) == [i \in StreamCalls |-> IF \E j \in 1 .. k : ind[j] = i THEN Tail(t0[i]) ELSE t0[i]]
           Inv(k) == CallsInv(b[k].order, b[k].states, f0 \o c[k], left(k))
           Kept(k) == \A j \in k + 1 .. n : Begun(b[k].order, ind[j]) <=> Begun(o0, ind[j])
           S == {k \in 0 .. n : Inv(k) /\ Kept(k)}
<1>3. f0 \in Seq(Pieces) /\ t0 \in [StreamCalls -> Seq(Pieces)] /\ 0 \in 0 .. n
  BY <1>1 DEF CallsInv
<1>4. 0 \in S
  <2>1. left(0) = t0
    BY <1>3
  <2>2. f0 \o c[0] = f0
    BY <1>1, <1>3, ConcatEmptySeq
  <2>3. b[0].order = o0 /\ b[0].states = s0
    BY <1>1
  <2> HIDE DEF left
  <2>4. CallsInv(o0, s0, f0, t0)
    BY <1>1
  <2>5. Inv(0)
    BY <2>1, <2>2, <2>3, <2>4
  <2>6. Kept(0)
    BY <2>3
  <2>7. QED
    BY <1>3, <2>5, <2>6
<1>5. ASSUME NEW k \in 1 .. n, k - 1 \in S PROVE k \in S
  <2> DEFINE i == ind[k]
             p == k - 1
             o == b[p].order
             s == b[p].states
             f == f0 \o c[p]
             t == left(p)
             x == xs[k]
             more == IF Begun(o0, i) THEN <<>> ELSE <<x>>
  <2>1. p \in 0 .. n /\ p \in Nat /\ p + 1 = k /\ k \in k .. n /\ k \in 0 .. n
    OBVIOUS
  <2>2. CallsInv(o, s, f, t) /\ Kept(p)
    BY <1>5
  <2>3. i \in StreamCalls /\ \A j \in 1 .. n : j # k => ind[j] # i
    BY <1>1
  <2>4. t[i] = t0[i] /\ t[i] # <<>> /\ x = Head(t[i]) /\ x \in Pieces
    <3>1. ~\E j \in 1 .. k - 1 : ind[j] = i
      <4>1. \A j \in 1 .. k - 1 : j \in 1 .. n /\ j # k
        OBVIOUS
      <4>2. QED
        BY <2>3, <4>1
    <3>2. t[i] = t0[i]
      BY <2>3, <3>1
    <3>3. QED
      BY <1>1, <3>2
  <2>5. b[k] = AddOne([order |-> o, states |-> s], x)
    <3>1. b[p] \in Buffers
      BY <2>1
    <3>2. b[p] = [order |-> o, states |-> s]
      BY <3>1 DEF Buffers
    <3>3. b[k] = AddOne(b[p], x)
      BY <1>1
    <3>4. QED
      BY <3>2, <3>3
  <2>6. Begun(o, i) <=> Begun(o0, i)
    BY <2>1, <2>2
  <2>7. c[k] = c[p] \o more
    BY <1>1
  <2>8. c[p] \in Seq(Pieces)
    BY <2>1
  <2>9. left(k) = [t EXCEPT ![i] = Tail(t[i])]
    <3>1. \A l \in 1 .. k : l = k \/ l \in 1 .. k - 1
      OBVIOUS
    <3>2. \A l \in 1 .. k - 1 : l \in 1 .. k
      OBVIOUS
    <3>3. k \in 1 .. k
      OBVIOUS
    <3>4. ASSUME NEW j \in StreamCalls
          PROVE  left(k)[j] = IF j = i THEN Tail(t[i]) ELSE t[j]
      <4>1. CASE j = i
        BY <2>4, <3>3, <4>1
      <4>2. CASE j # i
        <5>1. (\E l \in 1 .. k : ind[l] = j) <=> \E l \in 1 .. k - 1 : ind[l] = j
          BY <3>1, <3>2, <4>2
        <5>2. QED
          BY <4>2, <5>1
      <4>3. QED
        BY <4>1, <4>2
    <3>5. QED
      BY <3>4, ZenonT(60)
  <2> DEFINE u == f0 \o c[k]
             b2 == b[k]
  <2> HIDE DEF o, s, f, t, left, Kept, i, x, more, p
  <2>10. u = IF Begun(o, i) THEN f ELSE f \o <<x>>
    <3>1. CASE Begun(o, i)
      <4>1. more = <<>>
        BY <2>6, <3>1 DEF more
      <4>2. c[k] = c[p]
        BY <2>7, <2>8, <4>1, ConcatEmptySeq
      <4>3. QED
        BY <3>1, <4>2 DEF f
    <3>2. CASE ~Begun(o, i)
      <4>1. more = <<x>>
        BY <2>6, <3>2 DEF more
      <4>2. <<x>> \in Seq(Pieces)
        BY <2>4
      <4>3. f0 \o (c[p] \o <<x>>) = (f0 \o c[p]) \o <<x>>
        <5> DEFINE one == <<x>>
                   old == c[p]
        <5>1. one \in Seq(Pieces) /\ old \in Seq(Pieces)
          BY <2>8, <4>2
        <5> HIDE DEF one, old
        <5>2. (f0 \o old) \o one = f0 \o (old \o one)
          BY <1>3, <5>1, ConcatAssociative, SMTT(30)
        <5>3. QED
          BY <5>2 DEF one, old
      <4>4. QED
        BY <2>7, <3>2, <4>1, <4>3 DEF f
    <3>3. QED
      BY <3>1, <3>2
  <2> HIDE DEF u, b2
  <2>11. /\ CallsInv(b2.order, b2.states, u, [t EXCEPT ![i] = Tail(t[i])])
         /\ \A j \in StreamCalls : j # i => (Begun(b2.order, j) <=> Begun(o, j))
    <3>1. CallsInv(o, s, f, t) /\ x = Head(t[i]) /\ t[i] # <<>> /\ i \in StreamCalls
      BY <2>2, <2>3, <2>4
    <3>2. b2 = AddOne([order |-> o, states |-> s], x)
      BY <2>5 DEF b2
    <3>3. QED
      <4>1. Took(o, s, f, t, i)
        BY <3>1, OneFragment
      <4>2. x = Head(t[i])
        BY <3>1
      <4>3. QED
        BY <2>10, <3>2, <4>1, <4>2 DEF Took
  <2>12. Inv(k)
    BY <2>9, <2>11 DEF u, b2
  <2>13. Kept(k)
    <3>1. ASSUME NEW j \in k + 1 .. n
          PROVE  Begun(b[k].order, ind[j]) <=> Begun(o0, ind[j])
      <4>1. j \in 1 .. n /\ j # k /\ j \in p + 1 .. n
        BY <2>1
      <4>2. Begun(b2.order, ind[j]) <=> Begun(o, ind[j])
        BY <2>3, <2>11, <4>1
      <4>3. Begun(o, ind[j]) <=> Begun(o0, ind[j])
        BY <2>2, <4>1 DEF Kept, o
      <4>4. QED
        BY <4>2, <4>3 DEF b2
    <3>2. QED
      BY <3>1 DEF Kept
  <2>14. QED
    BY <2>1, <2>12, <2>13
<1> HIDE DEF S
<1>6. 0 .. n \subseteq S
  BY <1>4, <1>5, BoundedInduction
<1>7. Inv(n)
  <2>1. n \in S
    BY <1>6
  <2>2. QED
    BY <2>1 DEF S
<1>8. QED
  BY <1>7 DEF Rest

(* A list is a function on its places.                                     *)
LEMMA PlacesOf == ASSUME NEW S, NEW s \in Seq(S) PROVE s \in [1 .. Len(s) -> S]
OBVIOUS

(* What an event with fragments of these calls does to the buffer.         *)
Event(indices) ==
  LET xs == [k \in DOMAIN indices |-> Head(toCome[indices[k]])] IN
  /\ IsInjective(indices) /\ \A k \in DOMAIN indices : toCome[indices[k]] # <<>>
  /\ Add(xs)
  /\ toCome' = [i \in StreamCalls |-> IF Contains(indices, i) THEN Tail(toCome[i]) ELSE toCome[i]]
  /\ firsts' = firsts \o FlattenSeq([k \in DOMAIN xs |->
                  IF \A j \in DOMAIN firsts : firsts[j].index # xs[k].index THEN <<xs[k]>> ELSE <<>>])

(* It leaves the invariant.                                                *)
LEMMA EventFragments ==
  ASSUME CallsInv(order, states, firsts, toCome), NEW indices \in Seq(StreamCalls), Event(indices)
  PROVE  CallsInv(order, states, firsts, toCome)'
<1>1. PICK xs :
        /\ xs = [k \in DOMAIN indices |-> Head(toCome[indices[k]])]
        /\ IsInjective(indices) /\ \A k \in DOMAIN indices : toCome[indices[k]] # <<>>
        /\ Add(xs)
        /\ toCome' = [i \in StreamCalls |-> IF Contains(indices, i) THEN Tail(toCome[i]) ELSE toCome[i]]
        /\ firsts' = firsts \o FlattenSeq([k \in DOMAIN xs |->
                        IF \A j \in DOMAIN firsts : firsts[j].index # xs[k].index THEN <<xs[k]>> ELSE <<>>])
  BY DEF Event
<1> USE <1>1
<1> DEFINE n == Len(indices)
           keep(x) == \A k \in DOMAIN firsts : firsts[k].index # x.index
           E == [k \in DOMAIN xs |-> IF keep(xs[k]) THEN <<xs[k]>> ELSE <<>>]
           left(k) == [i \in StreamCalls |-> IF \E j \in 1 .. k : indices[j] = i THEN Tail(toCome[i]) ELSE toCome[i]]
           start == [order |-> order, states |-> states]
<1>2. /\ order \in Seq(StreamCalls) /\ states \in [StreamCalls -> CallStates]
      /\ firsts \in Seq(Pieces) /\ toCome \in [StreamCalls -> Seq(Pieces)]
      /\ Matched(order, states, firsts)
  BY DEF CallsInv
<1>3. n \in Nat /\ DOMAIN indices = 1 .. n /\ \A k \in 1 .. n : indices[k] \in StreamCalls
  BY ElementOfSeq
<1> HIDE DEF n
<1>4. \A k \in 1 .. n : /\ xs[k] = Head(toCome[indices[k]]) /\ toCome[indices[k]] # <<>>
                        /\ xs[k] \in Pieces /\ xs[k].index = indices[k]
  <2> SUFFICES ASSUME NEW k \in 1 .. n
               PROVE  /\ xs[k] = Head(toCome[indices[k]]) /\ toCome[indices[k]] # <<>>
                      /\ xs[k] \in Pieces /\ xs[k].index = indices[k]
    OBVIOUS
  <2> DEFINE i == indices[k]
             L == toCome[i]
  <2>1. i \in StreamCalls /\ L # <<>> /\ xs[k] = Head(L) /\ L \in Seq(Pieces)
    BY <1>2, <1>3
  <2>2. Coming(i, order, states[i], L)
    BY <2>1 DEF CallsInv
  <2> HIDE DEF L
  <2>3. Head(L) \in Pieces /\ Head(L) = L[1] /\ 1 \in 1 .. Len(L)
    BY <2>1, HeadTailProperties, EmptySeq
  <2>4. Head(L).index = i
    BY <2>2, <2>3 DEF Coming
  <2>5. QED
    BY <2>1, <2>3, <2>4 DEF L
<1>5. xs \in Seq(Pieces) /\ Len(xs) = n /\ DOMAIN xs = 1 .. n
  <2> DEFINE first(k) == Head(toCome[indices[k]])
  <2>1. xs = [k \in 1 .. n |-> first(k)]
    BY <1>3
  <2>2. \A k \in 1 .. n : first(k) \in Pieces
    BY <1>4
  <2> HIDE DEF first
  <2>3. QED
    BY <1>3, <2>1, <2>2, SMTT(30)
<1>6. \A k \in 1 .. n : keep(xs[k]) <=> ~Begun(order, indices[k])
  <2>1. DOMAIN firsts = 1 .. Len(firsts) /\ Len(order) = Len(firsts)
    BY <1>2 DEF Matched
  <2>2. \A k \in 1 .. Len(firsts) : firsts[k].index = order[k]
    BY <1>2 DEF Matched
  <2>3. ASSUME NEW k \in 1 .. n PROVE keep(xs[k]) <=> ~Begun(order, indices[k])
    <3>1. xs[k].index = indices[k]
      BY <1>4
    <3>2. keep(xs[k]) <=> \A j \in 1 .. Len(firsts) : order[j] # indices[k]
      BY <2>1, <2>2, <3>1
    <3> HIDE DEF keep
    <3>3. QED
      BY <2>1, <3>2 DEF Begun
  <2>4. QED
    BY <2>3
<1>7. /\ E \in Seq(Seq(Pieces)) /\ Len(E) = n
      /\ \A k \in 1 .. n : E[k] = IF Begun(order, indices[k]) THEN <<>> ELSE <<xs[k]>>
  <2>1. ASSUME NEW k \in 1 .. n PROVE <<xs[k]>> \in Seq(Pieces)
    <3>1. xs[k] \in Pieces
      BY <1>4
    <3>2. QED
      BY <3>1
  <2>2. <<>> \in Seq(Pieces)
    OBVIOUS
  <2>3. \A k \in 1 .. n : E[k] \in Seq(Pieces) /\ E[k] = IF keep(xs[k]) THEN <<xs[k]>> ELSE <<>>
    BY <1>5, <2>1, <2>2
  <2>4. E \in Seq(Seq(Pieces)) /\ Len(E) = n
    BY <1>3, <1>5, <2>3
  <2> HIDE DEF E, keep
  <2>5. QED
    BY <1>6, <2>3, <2>4
<1>8. firsts' = firsts \o FlattenSeq(E)
  OBVIOUS
<1> HIDE DEF E, keep
<1>9. start \in Buffers
  BY <1>2 DEF Buffers
<1>10. PICK b \in [0 .. n -> Buffers] :
        /\ b[0] = start /\ b[n] = FoldLeft(AddOne, start, xs)
        /\ \A k \in 1 .. n : b[k] = AddOne(b[k - 1], xs[k])
  <2> HIDE DEF start
  <2>1. \E b \in [0 .. Len(xs) -> Buffers] :
          /\ b[0] = start /\ b[Len(xs)] = FoldLeft(AddOne, start, xs)
          /\ \A k \in 1 .. Len(xs) : b[k] = AddOne(b[k - 1], xs[k])
    BY <1>5, <1>9, AddSteps
  <2> DEFINE last == FoldLeft(AddOne, start, xs)
  <2> HIDE DEF last
  <2>2. \E b \in [0 .. Len(xs) -> Buffers] :
          /\ b[0] = start /\ b[Len(xs)] = last
          /\ \A k \in 1 .. Len(xs) : b[k] = AddOne(b[k - 1], xs[k])
    BY <2>1 DEF last
  <2>3. \E b \in [0 .. n -> Buffers] :
          /\ b[0] = start /\ b[n] = last
          /\ \A k \in 1 .. n : b[k] = AddOne(b[k - 1], xs[k])
    BY <1>5, <2>2
  <2>4. QED
    BY <2>3 DEF last
<1>11. PICK c \in [0 .. n -> Seq(Pieces)] :
         /\ c[0] = <<>> /\ c[n] = FlattenSeq(E)
         /\ \A k \in 1 .. n : c[k] = c[k - 1] \o E[k]
  BY <1>7, FlattenSteps, ZenonT(60)
<1>12. order' = b[n].order /\ states' = b[n].states
  BY <1>10 DEF Add
<1>13. toCome' = left(n)
  BY <1>3 DEF Contains, n
<1>14. CallsInv(b[n].order, b[n].states, firsts \o c[n], left(n))
  <2>1. \A k \in 1 .. n : c[k] = c[k - 1] \o (IF Begun(order, indices[k]) THEN <<>> ELSE <<xs[k]>>)
    BY <1>7, <1>11
  <2>2. indices \in [1 .. n -> StreamCalls] /\ xs \in [1 .. n -> Pieces]
    <3>1. indices \in [1 .. n -> StreamCalls]
      BY PlacesOf, Zenon DEF n
    <3>2. xs \in [1 .. n -> Pieces]
      BY <1>5, PlacesOf, Zenon
    <3>3. QED
      BY <3>1, <3>2, Zenon
  <2>3. \A j, k \in 1 .. n : indices[j] = indices[k] => j = k
    BY <1>3 DEF IsInjective
  <2>4. b[0] = [order |-> order, states |-> states]
    BY <1>10
  <2> HIDE DEF start
  <2>5. CallsInv(order, states, firsts, toCome)
    OBVIOUS
  <2>6. \A k \in 1 .. n : toCome[indices[k]] # <<>> /\ xs[k] = Head(toCome[indices[k]])
    BY <1>4
  <2>7. \A k \in 1 .. n : b[k] = AddOne(b[k - 1], xs[k])
    BY <1>10
  <2>8. c[0] = <<>>
    BY <1>11
  <2>9. n \in Nat /\ b \in [0 .. n -> Buffers] /\ c \in [0 .. n -> Seq(Pieces)]
    BY <1>3
  <2>10. InTurn(n, indices, order, states, firsts, toCome, xs, b, c)
    BY <2>1, <2>2, <2>3, <2>4, <2>6, <2>7, <2>8, <2>9 DEF InTurn
  <2> HIDE DEF left
  <2>11. left(n) = Rest(toCome, indices, n)
    BY DEF left, Rest
  <2>12. QED
    BY <2>5, <2>10, <2>11, FragmentsTaken
<1>15. CallsInv(order', states', firsts', toCome')
  <2> HIDE DEF left
  <2>1. QED
    BY <1>8, <1>11, <1>12, <1>13, <1>14
<1>16. QED
  BY <1>15 DEF CallsInv, Matched, Coming, Begun

-----------------------------------------------------------------------------
(* Text is numbered as it is sent; an answer has all of it, and the calls. *)
StreamInv ==
  /\ sentText \in Nat /\ passed = [k \in 1 .. sentText |-> k]
  /\ CallsInv(order, states, firsts, toCome)
  /\ result.kind = "answer" => result.text = sentText /\ result.calls = Calls

(* Nothing has come yet.                                                   *)
LEMMA StreamStarts == StreamInit => StreamInv
<1> SUFFICES ASSUME StreamInit PROVE StreamInv
  OBVIOUS
<1>1. /\ sentText = 0 /\ firsts = <<>> /\ passed = <<>> /\ order = <<>>
      /\ states = [i \in StreamCalls |-> State(Unknown, Unknown, <<>>)] /\ result.kind = "open"
  BY DEF StreamInit, Open
<1>2. PICK name \in [StreamCalls -> {"tool", Unknown}], ids \in {"all", "first", "never"}, early \in BOOLEAN :
        toCome = [i \in StreamCalls |-> Fragments(i, name[i], ids, early)]
  BY DEF StreamInit
<1> DEFINE P == ArgumentPieces
           pieces == IF early THEN P ELSE P + 1
<1>3. P \in Nat /\ pieces \in Nat /\ pieces \in {P, P + 1}
  BY FragmentAssumption
<1>4. ASSUME NEW i \in StreamCalls
      PROVE  toCome[i] \in Seq(Pieces) /\ Coming(i, order, states[i], toCome[i])
  <2> DEFINE L == toCome[i]
             id(k) == IF ids = "all" \/ (ids = "first" /\ k = 1) THEN "id" ELSE Unknown
             frag(k) == Fragment(i, id(k), IF k = 1 THEN name[i] ELSE Unknown, IF early THEN k ELSE k - 1)
  <2>1. L = [k \in 1 .. pieces |-> frag(k)]
    BY <1>2 DEF Fragments
  <2>2. ASSUME NEW k \in 1 .. pieces
        PROVE  /\ frag(k) \in Pieces /\ frag(k).index = i /\ frag(k).piece = P - pieces + k
               /\ frag(k).id = id(k) /\ (k # 1 => frag(k).name = Unknown)
    BY <1>3 DEF Fragment, Pieces
  <2> HIDE DEF L, frag, pieces
  <2>3. L \in Seq(Pieces) /\ Len(L) = pieces /\ \A k \in 1 .. pieces : L[k] = frag(k)
    BY <1>3, <2>1, <2>2
  <2>4. ~Begun(order, i) /\ states[i] = State(Unknown, Unknown, <<>>)
    BY <1>1 DEF Begun
  <2>5. \A k \in 2 .. pieces : k \in 1 .. pieces /\ k # 1 /\ 1 \in 1 .. pieces
    BY <1>3
  <2>6. \A k \in 2 .. pieces : L[k].name = Unknown /\ L[k].id \in {Unknown, L[1].id}
    BY <2>2, <2>3, <2>5
  <2>7. \A k \in 1 .. Len(L) : L[k].index = i /\ L[k].piece = P - Len(L) + k
    BY <2>2, <2>3
  <2>8. Coming(i, order, states[i], L)
    BY <1>3, <2>3, <2>4, <2>6, <2>7 DEF Coming
  <2>9. QED
    BY <2>3, <2>8 DEF L
<1>5. toCome \in [StreamCalls -> Seq(Pieces)]
  BY <1>2, <1>4
<1>6. states \in [StreamCalls -> CallStates]
  BY <1>1 DEF State, CallStates
<1>7. order \in Seq(StreamCalls) /\ firsts \in Seq(Pieces) /\ Matched(order, states, firsts)
  BY <1>1 DEF Matched
<1>8. CallsInv(order, states, firsts, toCome)
  BY <1>4, <1>5, <1>6, <1>7 DEF CallsInv
<1>9. passed = [k \in 1 .. sentText |-> k]
  BY <1>1
<1>10. QED
  BY <1>1, <1>8, <1>9 DEF StreamInv

(* An event numbers its text and adds its fragments; the end reads both.   *)
LEMMA StreamStep == StreamInv /\ [StreamNext]_streamVars => StreamInv'
<1> SUFFICES ASSUME StreamInv, [StreamNext]_streamVars PROVE StreamInv'
  OBVIOUS
<1>1. /\ sentText \in Nat /\ passed = [k \in 1 .. sentText |-> k]
      /\ CallsInv(order, states, firsts, toCome)
      /\ result.kind = "answer" => result.text = sentText /\ result.calls = Calls
  BY DEF StreamInv
<1>2. CASE StreamEvent
  <2>1. PICK text \in {0, 1}, indices \in BoundedSeq(StreamCalls, 2) :
          /\ Event(indices) /\ sentText' = sentText + text
          /\ passed' = IF text = 1 THEN Append(passed, sentText') ELSE passed
    BY <1>2 DEF StreamEvent, Event, Those
  <2>2. indices \in Seq(StreamCalls)
    BY BoundedIsSeq
  <2>3. CallsInv(order, states, firsts, toCome)'
    BY <1>1, <2>1, <2>2, EventFragments
  <2>4. sentText' \in Nat /\ passed' = [k \in 1 .. sentText' |-> k]
    <3>1. sentText' = sentText + text /\ passed' = IF text = 1 THEN Append(passed, sentText') ELSE passed
      BY <2>1
    <3>2. CASE text = 0
      BY <1>1, <3>1, <3>2
    <3>3. CASE text = 1
      <4> DEFINE m == sentText
      <4>1. m \in Nat /\ sentText' = m + 1 /\ passed \in Seq(Nat) /\ Len(passed) = m
            /\ passed' = Append(passed, m + 1) /\ \A k \in 1 .. m : passed[k] = k
        BY <1>1, <3>1, <3>3
      <4> DEFINE p2 == Append(passed, m + 1)
      <4>2. p2 \in Seq(Nat) /\ Len(p2) = m + 1 /\ p2[m + 1] = m + 1 /\ \A k \in 1 .. m : p2[k] = k
        BY <4>1, AppendProperties
      <4> HIDE DEF p2
      <4>3. \A k \in 1 .. m + 1 : k \in 1 .. m \/ k = m + 1
        BY <4>1
      <4>4. DOMAIN p2 = 1 .. m + 1 /\ p2 = [k \in DOMAIN p2 |-> p2[k]]
        BY <4>2
      <4>5. p2 = [k \in 1 .. m + 1 |-> k]
        BY <4>2, <4>3, <4>4
      <4>6. QED
        BY <4>1, <4>5 DEF p2
    <3>4. QED
      BY <3>2, <3>3
  <2>5. result'.kind # "answer"
    BY <1>2 DEF StreamEvent, Open
  <2>6. QED
    BY <2>3, <2>4, <2>5 DEF StreamInv
<1>3. ASSUME UNCHANGED <<toCome, sentText, firsts, passed, order, states>>
      PROVE  /\ sentText' \in Nat /\ passed' = [k \in 1 .. sentText' |-> k]
             /\ CallsInv(order, states, firsts, toCome)' /\ Calls' = Calls /\ Len(passed) = sentText
  <2>1. sentText' \in Nat /\ passed' = [k \in 1 .. sentText' |-> k] /\ Len(passed) = sentText
    BY <1>1, <1>3
  <2>2. CallsInv(order, states, firsts, toCome)'
    <3>1. CallsInv(order', states', firsts', toCome')
      BY <1>1, <1>3
    <3>2. QED
      BY <3>1 DEF CallsInv, Matched, Coming, Begun
  <2>3. Calls' = Calls
    BY <1>3 DEF Calls, Those
  <2>4. QED
    BY <2>1, <2>2, <2>3
<1>4. CASE StreamEnds
  <2>1. /\ UNCHANGED <<toCome, sentText, firsts, passed, order, states>>
        /\ result' = [kind |-> "answer", text |-> Len(passed), calls |-> Calls]
    BY <1>4 DEF StreamEnds
  <2>2. QED
    BY <1>3, <2>1 DEF StreamInv
<1>5. CASE StreamFails
  <2>1. UNCHANGED <<toCome, sentText, firsts, passed, order, states>> /\ result'.kind = "error"
    BY <1>5 DEF StreamFails, Open
  <2>2. QED
    BY <1>3, <2>1 DEF StreamInv
<1>6. CASE UNCHANGED streamVars
  <2>1. UNCHANGED <<toCome, sentText, firsts, passed, order, states>> /\ UNCHANGED result
    BY <1>6 DEF streamVars
  <2>2. QED
    BY <1>1, <1>3, <2>1 DEF StreamInv
<1>7. QED
  BY <1>2, <1>4, <1>5, <1>6 DEF StreamNext

(* The elements of a at the places in K.                                   *)
KeptPlaces(a, n, K) == FlattenSeq([k \in 1 .. n |-> IF k \in K THEN <<a[k]>> ELSE <<>>])

(* u and w have elements of a and b from the same places.                  *)
KeepPace(u, w, A, B, a, b, K) ==
  /\ u \in Seq(A) /\ w \in Seq(B) /\ Len(u) = Len(w)
  /\ \A j \in 1 .. Len(u) : \E k \in K : u[j] = a[k] /\ w[j] = b[k]

(* Two lists of which the same places are kept keep pace.                  *)
LEMMA KeptTogether ==
  ASSUME NEW A, NEW B, NEW n \in Nat, NEW a \in [1 .. n -> A], NEW b \in [1 .. n -> B], NEW K \in SUBSET (1 .. n)
  PROVE  KeepPace(KeptPlaces(a, n, K), KeptPlaces(b, n, K), A, B, a, b, K)
<1> DEFINE E == [k \in 1 .. n |-> IF k \in K THEN <<a[k]>> ELSE <<>>]
           G == [k \in 1 .. n |-> IF k \in K THEN <<b[k]>> ELSE <<>>]
           u == FlattenSeq(E)
           w == FlattenSeq(G)
<1>1. \A k \in 1 .. n : <<a[k]>> \in Seq(A) /\ <<b[k]>> \in Seq(B)
  OBVIOUS
<1>2. \A k \in 1 .. n : /\ E[k] = (IF k \in K THEN <<a[k]>> ELSE <<>>) /\ E[k] \in Seq(A)
                        /\ G[k] = (IF k \in K THEN <<b[k]>> ELSE <<>>) /\ G[k] \in Seq(B)
  BY <1>1
<1>3. E \in Seq(Seq(A)) /\ G \in Seq(Seq(B)) /\ Len(E) = n /\ Len(G) = n
  BY <1>2
<1> HIDE DEF E, G
<1>4. PICK e \in [0 .. Len(E) -> Seq(A)] :
        e[0] = <<>> /\ e[Len(E)] = FlattenSeq(E) /\ \A k \in 1 .. Len(E) : e[k] = e[k - 1] \o E[k]
  BY <1>3, FlattenSteps
<1>5. PICK g \in [0 .. Len(G) -> Seq(B)] :
        g[0] = <<>> /\ g[Len(G)] = FlattenSeq(G) /\ \A k \in 1 .. Len(G) : g[k] = g[k - 1] \o G[k]
  BY <1>3, FlattenSteps
<1> HIDE DEF u, w
<1>6. e \in [0 .. n -> Seq(A)] /\ e[0] = <<>> /\ e[n] = u /\ \A k \in 1 .. n : e[k] = e[k - 1] \o E[k]
  BY <1>3, <1>4 DEF u
<1>7. g \in [0 .. n -> Seq(B)] /\ g[0] = <<>> /\ g[n] = w /\ \A k \in 1 .. n : g[k] = g[k - 1] \o G[k]
  BY <1>3, <1>5 DEF w
<1> DEFINE Pace(k) == /\ Len(e[k]) = Len(g[k])
                      /\ \A j \in 1 .. Len(e[k]) : \E l \in K : e[k][j] = a[l] /\ g[k][j] = b[l]
           S == {k \in 0 .. n : Pace(k)}
<1>8. 0 \in S
  BY <1>6, <1>7
<1>9. ASSUME NEW k \in 1 .. n, k - 1 \in S PROVE k \in S
  <2> DEFINE p == k - 1
             e0 == e[p]
             g0 == g[p]
  <2>1. p \in 0 .. n /\ k \in 0 .. n /\ e0 \in Seq(A) /\ g0 \in Seq(B) /\ Len(e0) \in Nat
    <3>1. p \in 0 .. n /\ k \in 0 .. n
      OBVIOUS
    <3>2. e0 \in Seq(A) /\ g0 \in Seq(B)
      BY <1>6, <1>7, <3>1
    <3> HIDE DEF e0, g0
    <3>3. QED
      BY <3>1, <3>2
  <2>2. /\ Len(e0) = Len(g0)
        /\ \A j \in 1 .. Len(e0) : \E l \in K : e0[j] = a[l] /\ g0[j] = b[l]
    BY <1>9
  <2>3. e[k] = e0 \o E[k] /\ g[k] = g0 \o G[k]
    BY <1>6, <1>7
  <2> HIDE DEF e0, g0
  <2>4. CASE k \in K
    <3> DEFINE e2 == e0 \o <<a[k]>>
               g2 == g0 \o <<b[k]>>
    <3>1. e[k] = e2 /\ g[k] = g2
      BY <1>2, <2>3, <2>4
    <3>2. Len(e2) = Len(e0) + 1 /\ e2[Len(e0) + 1] = a[k] /\ \A j \in 1 .. Len(e0) : e2[j] = e0[j]
      <4>1. IsList(e0)
        BY <2>1 DEF IsList
      <4>2. QED
        BY <4>1, <2>1, OneMore, ConcatProperties, <1>1
    <3>3. Len(g2) = Len(e0) + 1 /\ g2[Len(e0) + 1] = b[k] /\ \A j \in 1 .. Len(e0) : g2[j] = g0[j]
      BY <1>1, <2>1, <2>2, ConcatProperties
    <3> HIDE DEF e2, g2
    <3>4. \A j \in 1 .. Len(e0) + 1 : j \in 1 .. Len(e0) \/ j = Len(e0) + 1
      <4> DEFINE m == Len(e0)
      <4>1. m \in Nat
        BY <2>1
      <4> HIDE DEF m
      <4>2. \A j \in 1 .. m + 1 : j \in 1 .. m \/ j = m + 1
        BY <4>1
      <4>3. QED
        BY <4>2 DEF m
    <3>5. \A j \in 1 .. Len(e2) : \E l \in K : e2[j] = a[l] /\ g2[j] = b[l]
      BY <2>2, <2>4, <3>2, <3>3, <3>4
    <3>6. QED
      BY <2>1, <3>1, <3>2, <3>3, <3>5
  <2>5. CASE k \notin K
    <3>1. e[k] = e0 /\ g[k] = g0
      BY <1>2, <2>1, <2>3, <2>5, ConcatEmptySeq
    <3>2. QED
      BY <2>1, <2>2, <3>1
  <2>6. QED
    BY <2>4, <2>5
<1> HIDE DEF S
<1>10. 0 .. n \subseteq S
  BY <1>8, <1>9, BoundedInduction
<1>11. Pace(n)
  BY <1>10 DEF S
<1>12. KeepPace(u, w, A, B, a, b, K)
  BY <1>6, <1>7, <1>11 DEF KeepPace
<1>13. QED
  BY <1>12 DEF u, w, E, G, KeptPlaces

(* The answer has the text that was passed on and the calls that upstream  *)
(* named, in order, with the pieces that came (client.go 740-873).         *)
THEOREM StreamTheorem == StreamSpec => []AnswerAsStreamed
<1>1. StreamInv => AnswerAsStreamed
  <2> SUFFICES ASSUME StreamInv PROVE AnswerAsStreamed
    OBVIOUS
  <2> DEFINE P == ArgumentPieces
             n == Len(order)
             K == {k \in 1 .. n : states[order[k]].name # Unknown}
             named == KeptPlaces(order, n, K)
             expected == KeptPlaces(firsts, n, K)
  <2>1. /\ passed = [k \in 1 .. sentText |-> k] /\ P \in Nat
        /\ result.kind = "answer" => result.text = sentText /\ result.calls = Calls
    BY FragmentAssumption DEF StreamInv
  <2>2. /\ order \in Seq(StreamCalls) /\ states \in [StreamCalls -> CallStates]
        /\ firsts \in Seq(Pieces) /\ toCome \in [StreamCalls -> Seq(Pieces)]
        /\ Matched(order, states, firsts)
        /\ \A i \in StreamCalls : Coming(i, order, states[i], toCome[i])
    BY DEF StreamInv, CallsInv
  <2>3. n \in Nat /\ DOMAIN order = 1 .. n /\ DOMAIN firsts = 1 .. n
        /\ \A k \in 1 .. n : order[k] \in StreamCalls /\ firsts[k] \in Pieces
    BY <2>2, ElementOfSeq DEF Matched
  <2>4. \A k \in 1 .. n : /\ firsts[k].index = order[k] /\ firsts[k].name = states[order[k]].name
                          /\ firsts[k].id = states[order[k]].id
    BY <2>2 DEF Matched
  <2>5. \A k \in 1 .. n : k \in K <=> firsts[k].name = "tool"
    <3>1. \A k \in 1 .. n : states[order[k]].name \in {Unknown, "tool"}
      BY <2>2, <2>3 DEF CallStates
    <3>2. QED
      BY <2>4, <3>1 DEF Unknown
  <2>6. FlattenSeq([k \in DOMAIN order |-> IF states[order[k]].name # Unknown THEN <<order[k]>> ELSE <<>>]) = named
    <3>1. [k \in DOMAIN order |-> IF states[order[k]].name # Unknown THEN <<order[k]>> ELSE <<>>]
            = [k \in 1 .. n |-> IF k \in K THEN <<order[k]>> ELSE <<>>]
      BY <2>3
    <3>2. QED
      BY <3>1 DEF KeptPlaces
  <2>7. FlattenSeq([k \in DOMAIN firsts |-> IF firsts[k].name = "tool" THEN <<firsts[k]>> ELSE <<>>]) = expected
    <3>1. [k \in DOMAIN firsts |-> IF firsts[k].name = "tool" THEN <<firsts[k]>> ELSE <<>>]
            = [k \in 1 .. n |-> IF k \in K THEN <<firsts[k]>> ELSE <<>>]
      BY <2>3, <2>5
    <3>2. QED
      BY <3>1 DEF KeptPlaces
  <2>8. /\ named \in Seq(StreamCalls) /\ Len(named) = Len(expected)
        /\ \A j \in 1 .. Len(named) : \E k \in K : named[j] = order[k] /\ expected[j] = firsts[k]
    <3>1. order \in [1 .. n -> StreamCalls] /\ firsts \in [1 .. n -> Pieces] /\ K \in SUBSET (1 .. n)
      BY <2>2, <2>3
    <3> HIDE DEF n, K
    <3>2. KeepPace(named, expected, StreamCalls, Pieces, order, firsts, K)
      BY <2>3, <3>1, KeptTogether
    <3> HIDE DEF named, expected
    <3>3. QED
      BY <3>2 DEF KeepPace
  <2> DEFINE made(i) == [index |-> i, id |-> Given(states[i].id, "new"),
                         arguments |-> states[i].arguments, parsed |-> states[i].arguments \in {<<>>, AllPieces}]
  <2>9. Calls = [k \in DOMAIN named |-> made(named[k])]
    BY <2>6 DEF Calls, Those
  <2> HIDE DEF named, expected
  <2>10. /\ Len(Calls) = Len(named) /\ DOMAIN Calls = 1 .. Len(named)
         /\ \A j \in 1 .. Len(named) : Calls[j] = made(named[j])
    BY <2>8, <2>9
  <2>11. ASSUME NEW j \in 1 .. Len(named)
         PROVE  LET c == Calls[j]
                    left == Len(toCome[c.index])
                IN  /\ c.index = expected[j].index
                    /\ c.id = IF expected[j].id = Unknown THEN "new" ELSE expected[j].id
                    /\ c.arguments = [m \in 1 .. (P - left) |-> m]
                    /\ left = 0 => c.parsed
                    /\ c.parsed => left = 0 \/ c.arguments = <<>>
    <3>1. PICK k \in K : named[j] = order[k] /\ expected[j] = firsts[k]
      BY <2>8
    <3> DEFINE i == order[k]
               left == Len(toCome[i])
               args == states[i].arguments
    <3>2. i \in StreamCalls /\ Calls[j] = made(i) /\ k \in 1 .. n
      BY <2>3, <2>10, <3>1
    <3>3. Begun(order, i) /\ Coming(i, order, states[i], toCome[i]) /\ left \in Nat
      BY <2>2, <3>2 DEF Begun
    <3>4. left <= P /\ args = [m \in 1 .. P - left |-> m]
      BY <3>3 DEF Coming
    <3>5. left = 0 => args = AllPieces
      BY <2>1, <3>4 DEF AllPieces
    <3>6. args = AllPieces => left = 0
      <4> DEFINE q == P - left
      <4>1. q \in Nat
        BY <2>1, <3>3, <3>4
      <4>2. Len([m \in 1 .. q |-> m]) = q /\ Len(AllPieces) = P
        BY <2>1, <4>1 DEF AllPieces
      <4>3. args = AllPieces => q = P
        BY <3>4, <4>2
      <4>4. QED
        BY <2>1, <3>3, <4>3
    <3>7. expected[j].index = i /\ expected[j].id = states[i].id
      BY <2>4, <3>1, <3>2
    <3> HIDE DEF i, args
    <3>8. /\ made(i).index = i /\ made(i).id = Given(states[i].id, "new")
          /\ made(i).arguments = states[i].arguments /\ made(i).parsed = (states[i].arguments \in {<<>>, AllPieces})
      OBVIOUS
    <3> HIDE DEF made
    <3>9. QED
      BY <3>2, <3>3, <3>4, <3>5, <3>6, <3>7, <3>8 DEF args, Given
  <2>12. ASSUME result.kind = "answer"
         PROVE  /\ result.text = sentText
                /\ Len(result.calls) = Len(expected)
                /\ \A j \in DOMAIN result.calls :
                     LET c == result.calls[j]
                         left == Len(toCome[c.index])
                     IN  /\ c.index = expected[j].index
                         /\ c.id = IF expected[j].id = Unknown THEN "new" ELSE expected[j].id
                         /\ c.arguments = [m \in 1 .. (P - left) |-> m]
                         /\ left = 0 => c.parsed
                         /\ c.parsed => left = 0 \/ c.arguments = <<>>
    <3>1. result.text = sentText /\ result.calls = Calls
      BY <2>1, <2>12
    <3>2. QED
      BY <2>8, <2>10, <2>11, <3>1
  <2>13. QED
    BY <2>1, <2>7, <2>12 DEF AnswerAsStreamed, Those
<1>2. QED
  BY <1>1, StreamStarts, StreamStep, PTL DEF StreamSpec
=============================================================================
