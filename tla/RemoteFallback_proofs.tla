------------------------ MODULE RemoteFallback_proofs ------------------------
(* That the models tried are the configured ones, each once and in order,  *)
(* that none is left out, and that the text of an answer comes from one of *)
(* them: for any names, any fallback list and any number of deltas.  Of    *)
(* Settings: that the highest layer decides and that what was chosen last  *)
(* is kept, for any words, ports, timeouts and lists.                      *)
EXTENDS RemoteFallback, Settings, FoldTheorems, SequenceTheorems, TLAPS

(* Where a list first names a model; 0 if it does not.                     *)
Place(list, model) == SelectInSeq(list, LAMBDA n : Canonical[n] = model)

(* It is the first name that stands for the model.                         *)
LEMMA PlaceIs ==
  ASSUME NEW list \in Seq(Names), NEW model
  PROVE  /\ Place(list, model) \in 0 .. Len(list)
         /\ Place(list, model) # 0 => Canonical[list[Place(list, model)]] = model
         /\ \A i \in 1 .. Len(list) : Canonical[list[i]] = model => Place(list, model) \in 1 .. i
<1> DEFINE D == {i \in 1 .. Len(list) : Canonical[list[i]] = model}
<1>1. Place(list, model) = IF D # {} THEN Min(D) ELSE 0
  BY DEF Place, SelectInSeq
<1>2. CASE D = {}
  BY <1>1, <1>2
<1>3. CASE D # {}
  <2>1. D \in SUBSET Nat
    OBVIOUS
  <2>2. Min(D) \in D /\ \A i \in D : Min(D) <= i
    <3> HIDE DEF D
    <3>1. QED
      BY <1>3, <2>1, MinIs
  <2>3. Place(list, model) = Min(D)
    BY <1>1, <1>3
  <2> DEFINE p == Place(list, model)
  <2> HIDE DEF p
  <2>4. p \in D /\ \A i \in D : p <= i
    BY <2>2, <2>3 DEF p
  <2>5. QED
    BY <2>4 DEF p
<1>4. QED
  BY <1>2, <1>3

(* What the fallback list has become after its first k names.              *)
Ordered(out, list, k) ==
  /\ out \in Seq(Names)
  /\ \A j \in 1 .. k : Canonical[list[j]] = NoName \/ \E i \in 1 .. Len(out) : out[i] = Canonical[list[j]]
  /\ \A i \in 1 .. Len(out) : out[i] # NoName /\ Place(list, out[i]) \in 1 .. k
  /\ \A i, j \in 1 .. Len(out) : i < j => Place(list, out[i]) < Place(list, out[j])

(* One name more either changes nothing or comes last.                     *)
LEMMA AddOrdered ==
  ASSUME NEW list \in Seq(Names), NEW k \in 1 .. Len(list), NEW out, Ordered(out, list, k - 1)
  PROVE  Ordered(AddModel(out, list[k]), list, k)
<1> DEFINE model == Canonical[list[k]]
<1>1. list[k] \in Names /\ model \in Names
  BY ElementOfSeq, FallbackAssumption DEF FallbackAssumption
<1>2. \A j \in 1 .. k : j = k \/ j \in 1 .. k - 1
  OBVIOUS
<1>3. CASE model = NoName \/ Contains(out, model)
  <2>1. AddModel(out, list[k]) = out
    BY <1>3 DEF AddModel
  <2>2. QED
    BY <1>2, <1>3, <2>1 DEF Ordered, Contains
<1>4. CASE model # NoName /\ ~Contains(out, model)
  <2> DEFINE new == Append(out, model)
  <2>1. AddModel(out, list[k]) = new
    BY <1>4 DEF AddModel
  <2>2. out \in Seq(Names)
    BY DEF Ordered
  <2>3. /\ new \in Seq(Names) /\ Len(new) = Len(out) + 1 /\ new[Len(new)] = model
        /\ \A i \in 1 .. Len(out) : new[i] = out[i]
    BY <1>1, <2>2
  <2> HIDE DEF new
  <2>4. Place(list, model) = k
    <3>1. \A j \in 1 .. k - 1 : Canonical[list[j]] # model
      BY <1>4 DEF Ordered, Contains
    <3>2. QED
      BY <3>1, PlaceIs
  <2>5. \A j \in 1 .. k : Canonical[list[j]] = NoName \/ \E i \in 1 .. Len(new) : new[i] = Canonical[list[j]]
    <3>1. Len(new) \in 1 .. Len(new)
      BY <2>2, <2>3
    <3>2. \A i \in 1 .. Len(out) : i \in 1 .. Len(new)
      BY <2>2, <2>3
    <3>3. QED
      BY <1>2, <2>3, <3>1, <3>2 DEF Ordered
  <2>6. \A i \in 1 .. Len(new) : i = Len(new) \/ i \in 1 .. Len(out)
    BY <2>2, <2>3
  <2> HIDE DEF model
  <2>7. \A i \in 1 .. Len(new) : new[i] # NoName /\ Place(list, new[i]) \in 1 .. k
    BY <1>4, <2>3, <2>4, <2>6 DEF Ordered
  <2>8. \A i, j \in 1 .. Len(new) : i < j => Place(list, new[i]) < Place(list, new[j])
    <3> SUFFICES ASSUME NEW i \in 1 .. Len(new), NEW j \in 1 .. Len(new), i < j
                 PROVE  Place(list, new[i]) < Place(list, new[j])
      OBVIOUS
    <3>1. i \in 1 .. Len(out) /\ Place(list, new[i]) \in 1 .. k - 1
      BY <2>2, <2>3, <2>6 DEF Ordered
    <3>2. CASE j = Len(new)
      BY <2>3, <2>4, <3>1, <3>2
    <3>3. CASE j \in 1 .. Len(out)
      BY <2>3, <3>1, <3>3 DEF Ordered
    <3>4. QED
      BY <2>6, <3>2, <3>3
  <2>9. QED
    BY <2>1, <2>3, <2>5, <2>7, <2>8 DEF Ordered
<1>5. QED
  BY <1>3, <1>4

(* So the whole list is what FallbackModels makes of it: by induction over *)
(* the steps of the fold.                                                  *)
LEMMA AllOrdered ==
  ASSUME NEW list \in Seq(Names)
  PROVE  Ordered(FoldLeft(AddModel, <<>>, list), list, Len(list))
<1> DEFINE n == Len(list)
           F == [out \in Seq(Names) |-> [k \in 1 .. n |-> AddModel(out, list[k])]]
           Folds(g) == g = [s \in SUBSET (DOMAIN list) |->
                              IF s = {} THEN <<>> ELSE AddModel(g[s \ {Max(s)}], list[Max(s)])]
           iter == CHOOSE g : Folds(g)
<1>1. n \in Nat /\ DOMAIN list = 1 .. n /\ \A k \in 1 .. n : list[k] \in Names
  OBVIOUS
<1> HIDE DEF n
<1>2. F \in [Seq(Names) -> [1 .. n -> Seq(Names)]]
  <2>1. ASSUME NEW out \in Seq(Names), NEW k \in 1 .. n PROVE AddModel(out, list[k]) \in Seq(Names)
    BY <1>1, FallbackAssumption DEF FallbackAssumption, AddModel
  <2>2. QED
    BY <2>1
<1>3. FoldLeft(AddModel, <<>>, list) = iter[1 .. n]
  BY <1>1 DEF FoldLeft, MapThenFoldSet
<1>4. \E g : Folds(g)
  <2>1. PICK g \in [SUBSET (1 .. n) -> Seq(Names)] :
          \A s \in SUBSET (1 .. n) : g[s] = IF s = {} THEN <<>> ELSE F[g[s \ {Max(s)}]][Max(s)]
    <3> DEFINE R == Seq(Names)
               base == <<>>
    <3>1. base \in R /\ F \in [R -> [1 .. n -> R]] /\ n \in Nat
      BY <1>1, <1>2
    <3> HIDE DEF F, R, base
    <3>2. \E g \in [SUBSET (1 .. n) -> R] : IsFold(g, n, base, F)
      BY <3>1, FoldExists
    <3>3. QED
      BY <3>2 DEF R, base, IsFold
  <2>2. ASSUME NEW s \in SUBSET (1 .. n), s # {}
        PROVE  F[g[s \ {Max(s)}]][Max(s)] = AddModel(g[s \ {Max(s)}], list[Max(s)])
    <3>1. Max(s) \in 1 .. n
      BY <1>1, <2>2, MaxIn
    <3>2. g[s \ {Max(s)}] \in Seq(Names)
      OBVIOUS
    <3>3. QED
      BY <3>1, <3>2
  <2> HIDE DEF F
  <2>3. Folds(g)
    BY <1>1, <2>1, <2>2
  <2>4. QED
    BY <2>3
<1>5. Folds(iter)
  BY <1>4
<1> DEFINE S == {k \in 0 .. n : Ordered(iter[1 .. k], list, k)}
<1>6. 0 \in S
  <2>1. 1 .. 0 = {} /\ {} \in SUBSET (DOMAIN list)
    OBVIOUS
  <2>2. iter[1 .. 0] = <<>>
    BY <1>5, <2>1
  <2>3. Ordered(<<>>, list, 0)
    BY DEF Ordered
  <2>4. QED
    BY <1>1, <2>2, <2>3
<1>7. ASSUME NEW k \in 1 .. n, k - 1 \in S PROVE k \in S
  <2>1. 1 .. k \in SUBSET (DOMAIN list) /\ k \in 1 .. k /\ (1 .. k) \ {k} = 1 .. k - 1
    <3>1. \A i : i \in (1 .. k) \ {k} <=> i \in 1 .. k - 1
      BY <1>1
    <3>2. \A i \in 1 .. k : i \in 1 .. n
      BY <1>1
    <3>3. QED
      BY <1>1, <3>1, <3>2
  <2>2. Max(1 .. k) = k
    BY MaxIs
  <2>3. iter[1 .. k] = AddModel(iter[1 .. k - 1], list[k])
    BY <1>5, <2>1, <2>2
  <2>4. QED
    <3>1. Ordered(iter[1 .. k - 1], list, k - 1)
      BY <1>7
    <3> HIDE DEF iter
    <3>2. Ordered(iter[1 .. k], list, k)
      BY <2>3, <3>1, AddOrdered DEF n
    <3>3. QED
      BY <1>1, <3>2
<1>8. n \in S
  <2> HIDE DEF S
  <2>1. 0 .. n \subseteq S
    BY <1>1, <1>6, <1>7, BoundedInduction
  <2>2. QED
    BY <1>1, <2>1
<1>9. QED
  BY <1>3, <1>8 DEF n

-----------------------------------------------------------------------------
(* The models that are in a list after a model are those whose place in    *)
(* the configured list is a later one; all are, after one not configured.  *)
LEMMA AfterOrdered ==
  ASSUME NEW list \in Seq(Names), NEW out, Ordered(out, list, Len(list)), NEW model \in Names, model # NoName
  PROVE  LET rest == After(out, model)
         IN  /\ rest \in Seq(Names)
             /\ \A i \in 1 .. Len(rest) : Place(list, rest[i]) > Place(list, model)
             /\ \A i, j \in 1 .. Len(rest) : i < j => Place(list, rest[i]) < Place(list, rest[j])
             /\ \A j \in 1 .. Len(list) :
                  \/ Canonical[list[j]] = NoName
                  \/ Place(list, Canonical[list[j]]) <= Place(list, model)
                  \/ \E i \in 1 .. Len(rest) : rest[i] = Canonical[list[j]]
<1> DEFINE n == Len(out)
           rest == After(out, model)
<1>1. out \in Seq(Names) /\ n \in Nat
  BY DEF Ordered
<1>2. \A i \in 1 .. n : Place(list, out[i]) \in 1 .. Len(list)
  BY DEF Ordered
<1>3. Place(list, model) \in 0 .. Len(list)
  BY PlaceIs
<1>4. CASE Contains(out, model)
  <2> DEFINE D == {i \in 1 .. n : out[i] = model}
             q == Min(D)
  <2>1. rest = SubSeq(out, q + 1, n)
    <3>1. D # {}
      BY <1>4 DEF Contains
    <3>2. QED
      BY <1>4, <3>1 DEF After, SelectInSeq
  <2>2. q \in 1 .. n /\ out[q] = model
    <3>1. D \in SUBSET Nat /\ D # {}
      BY <1>4 DEF Contains
    <3> HIDE DEF D
    <3>2. q \in D
      BY <3>1, MinIs
    <3>3. QED
      BY <3>2 DEF D
  <2> HIDE DEF q, rest
  <2>3. rest \in Seq(Names) /\ Len(rest) = n - q /\ \A i \in 1 .. n - q : rest[i] = out[q + i]
    BY <1>1, <2>1, <2>2
  <2>4. \A i \in 1 .. n - q : q + i \in 1 .. n /\ q < q + i
    BY <1>1, <2>2
  <2>5. \A i \in 1 .. Len(rest) : Place(list, rest[i]) > Place(list, model)
    BY <1>2, <1>3, <2>2, <2>3, <2>4 DEF Ordered
  <2>6. ASSUME NEW i \in 1 .. Len(rest), NEW j \in 1 .. Len(rest), i < j
        PROVE  Place(list, rest[i]) < Place(list, rest[j])
    <3>1. q + i < q + j /\ i \in 1 .. n - q /\ j \in 1 .. n - q
      BY <1>1, <2>2, <2>3, <2>6
    <3>2. Place(list, out[q + i]) < Place(list, out[q + j])
      BY <2>4, <3>1 DEF Ordered
    <3>3. QED
      BY <2>3, <3>1, <3>2
  <2>7. ASSUME NEW j \in 1 .. Len(list), Canonical[list[j]] # NoName,
               ~(Place(list, Canonical[list[j]]) <= Place(list, model))
        PROVE  \E i \in 1 .. Len(rest) : rest[i] = Canonical[list[j]]
    <3>1. PICK p \in 1 .. n : out[p] = Canonical[list[j]]
      BY <2>7 DEF Ordered
    <3>2. p > q
      <4>1. p # q /\ ~(p < q)
        BY <1>2, <1>3, <2>2, <2>7, <3>1 DEF Ordered
      <4>2. QED
        BY <1>1, <2>2, <4>1
    <3>3. p - q \in 1 .. Len(rest) /\ rest[p - q] = out[q + (p - q)] /\ q + (p - q) = p
      BY <1>1, <2>2, <2>3, <3>2
    <3>4. QED
      BY <3>1, <3>3
  <2>8. QED
    BY <2>3, <2>5, <2>6, <2>7 DEF rest
<1>5. CASE ~Contains(out, model)
  <2>1. rest = out
    BY <1>5 DEF After
  <2>2. Place(list, model) = 0
    <3>1. ASSUME Place(list, model) # 0 PROVE FALSE
      <4>1. Place(list, model) \in 1 .. Len(list) /\ Canonical[list[Place(list, model)]] = model
        BY <1>3, <3>1, PlaceIs
      <4>2. QED
        BY <1>5, <4>1 DEF Ordered, Contains
    <3>2. QED
      BY <3>1
  <2> HIDE DEF rest
  <2>3. QED
    BY <1>1, <1>2, <2>1, <2>2 DEF Ordered, rest
<1>6. QED
  BY <1>4, <1>5

-----------------------------------------------------------------------------
(* What the list of models to try is: configured models after the first,   *)
(* in their order, and all of them.                                        *)
InOrderOf(tried, list) ==
  \A i, j \in 1 .. Len(tried) : i < j => config.fallback /\ Place(list, tried[i]) < Place(list, tried[j])

NoneMissing(tried, list) ==
  config.fallback =>
    \A j \in 1 .. Len(list) :
      \/ Canonical[list[j]] = NoName
      \/ Place(list, Canonical[list[j]]) < Place(list, Primary)
      \/ \E i \in 1 .. Len(tried) : tried[i] = Canonical[list[j]]

(* The requested model and the ones after it are in the configured order,  *)
(* and with fallback none after it is missing.                             *)
LEMMA AttemptsOrdered ==
  ASSUME config \in Configs, request \in Requests
  PROVE  LET tried == AttemptModels(Primary)
         IN  /\ tried \in Seq(Names) /\ Len(tried) > 0
             /\ InOrderOf(tried, FallbackList)
             /\ NoneMissing(tried, FallbackList)
<1> DEFINE list == FallbackList
           tried == AttemptModels(Primary)
           rest == After(FallbackModels, Primary)
<1>1. list \in Seq(Names)
  <2>1. config.models \in Seq(Names)
    BY FallbackAssumption DEF FallbackAssumption, Configs, BoundedSeq, SeqOf
  <2>2. QED
    BY <2>1, FallbackAssumption DEF FallbackAssumption, FallbackList
<1>2. Primary \in Names /\ Primary # NoName
  BY FallbackAssumption DEF FallbackAssumption, Primary, Requests
<1> HIDE DEF list
<1>3. Ordered(FallbackModels, list, Len(list))
  BY <1>1, AllOrdered DEF FallbackModels, list
<1> DEFINE p == Place(list, Primary)
<1>4. /\ rest \in Seq(Names)
      /\ \A i \in 1 .. Len(rest) : Place(list, rest[i]) > p
      /\ \A i, j \in 1 .. Len(rest) : i < j => Place(list, rest[i]) < Place(list, rest[j])
      /\ \A j \in 1 .. Len(list) :
           \/ Canonical[list[j]] = NoName
           \/ Place(list, Canonical[list[j]]) <= p
           \/ \E i \in 1 .. Len(rest) : rest[i] = Canonical[list[j]]
  BY <1>1, <1>2, <1>3, AfterOrdered
<1> HIDE DEF rest, p
<1>5. CASE config.fallback
  <2>1. tried = <<Primary>> \o rest
    BY <1>5 DEF AttemptModels, rest
  <2> HIDE DEF tried
  <2>2. /\ tried \in Seq(Names) /\ Len(tried) = 1 + Len(rest) /\ tried[1] = Primary
        /\ \A i \in 1 .. Len(rest) : tried[i + 1] = rest[i]
    BY <1>2, <1>4, <2>1
  <2>3. ASSUME NEW i \in 1 .. Len(tried), NEW j \in 1 .. Len(tried), i < j
        PROVE  Place(list, tried[i]) < Place(list, tried[j])
    <3>1. j - 1 \in 1 .. Len(rest) /\ tried[j] = rest[j - 1]
      <4>1. j - 1 \in 1 .. Len(rest) /\ j = (j - 1) + 1
        BY <1>4, <2>2, <2>3
      <4>2. QED
        BY <2>2, <4>1
    <3>2. CASE i = 1
      BY <1>4, <2>2, <3>1, <3>2 DEF p
    <3>3. CASE i # 1
      <4>1. i - 1 \in 1 .. Len(rest) /\ i = (i - 1) + 1 /\ i - 1 < j - 1
        BY <1>4, <2>2, <2>3, <3>3
      <4>2. tried[i] = rest[i - 1]
        BY <2>2, <4>1
      <4>3. QED
        BY <1>4, <3>1, <4>1, <4>2
    <3>4. QED
      BY <3>2, <3>3
  <2>4. ASSUME NEW j \in 1 .. Len(list), Canonical[list[j]] # NoName,
               ~(Place(list, Canonical[list[j]]) < p)
        PROVE  \E i \in 1 .. Len(tried) : tried[i] = Canonical[list[j]]
    <3> DEFINE v == Canonical[list[j]]
    <3>1. Place(list, v) \in 1 .. Len(list) /\ Canonical[list[Place(list, v)]] = v
      BY <1>1, PlaceIs
    <3>2. p \in 0 .. Len(list) /\ (p # 0 => Canonical[list[p]] = Primary)
      BY <1>1, PlaceIs DEF p
    <3>3. CASE Place(list, v) = p
      <4>1. v = Primary
        BY <3>1, <3>2, <3>3
      <4>2. 1 \in 1 .. Len(tried)
        BY <1>4, <2>2
      <4>3. QED
        BY <2>2, <4>1, <4>2
    <3>4. CASE Place(list, v) # p
      <4>1. ~(Place(list, v) <= p)
        BY <2>4, <3>1, <3>2, <3>4
      <4>2. PICK i \in 1 .. Len(rest) : rest[i] = v
        BY <1>4, <2>4, <4>1
      <4>3. i + 1 \in 1 .. Len(tried)
        BY <1>4, <2>2
      <4>4. QED
        BY <2>2, <4>2, <4>3
    <3>5. QED
      BY <3>3, <3>4
  <2>5. InOrderOf(tried, list) /\ NoneMissing(tried, list)
    BY <1>5, <2>3, <2>4 DEF InOrderOf, NoneMissing, p
  <2>6. Len(tried) > 0
    BY <1>4, <2>2
  <2>7. QED
    BY <2>2, <2>5, <2>6 DEF tried, list
<1>6. CASE ~config.fallback
  <2>1. tried = <<Primary>>
    BY <1>6 DEF AttemptModels
  <2>2. QED
    BY <1>2, <1>6, <2>1 DEF InOrderOf, NoneMissing
<1>7. QED
  BY <1>5, <1>6

-----------------------------------------------------------------------------
BeforeChat == {"route", "ipc", "images"}
AfterChat == {"retry", "emulate", "hint", "returned"}

(* The model being tried.                                                  *)
Trying == IF current = 0 THEN NoName ELSE attempts[current]

(* What is shown and what is returned is of the model being tried: another *)
(* one is tried only while nothing has come of it.                         *)
TryingInv ==
  /\ step = "chat" => current > 0
  /\ shown \in Seq({Trying})
  /\ result \in [model : {NoName, Trying}, calls : BOOLEAN]
  /\ step \notin AfterChat => result = NoResult
  /\ step \in BeforeChat => shown = <<>>
  /\ step = "chat" /\ ~emitted => shown = <<>>

(* The models to try stay as they were computed; an error that allows to   *)
(* go on is returned only after the last of them.                          *)
AttemptsInv ==
  /\ step \in BeforeChat => attempts = <<>>
  /\ step # "returned" => failure \in {"none"} \cup FallbackErrors
  /\ step \in BeforeChat \cup {"retry", "emulate", "hint"} => failure = "none"
  /\ InOrderOf(attempts, FallbackList)
  /\ step = "chat" => NoneMissing(attempts, FallbackList)
  /\ step = "returned" /\ failure \in FallbackErrors /\ ~emitted =>
       current = Len(attempts) /\ NoneMissing(attempts, FallbackList)

IInv == TypeOK /\ TryingInv /\ AttemptsInv

(* It holds at first.                                                      *)
LEMMA InitIInv == Init => IInv
<1> SUFFICES ASSUME Init PROVE IInv
  OBVIOUS
<1>1. TypeOK
  <2>1. shown \in Seq(Names) /\ Len(shown) <= MaxDeltas
    BY FallbackAssumption DEF FallbackAssumption, Init
  <2>2. result \in [model : Names, calls : BOOLEAN]
    BY FallbackAssumption DEF FallbackAssumption, Init, NoResult
  <2>3. QED
    BY <2>1, <2>2 DEF Init, TypeOK
<1>2. TryingInv
  BY DEF Init, TryingInv, Trying, NoResult, AfterChat
<1>3. AttemptsInv
  BY DEF Init, AttemptsInv, InOrderOf, BeforeChat, AfterChat, FallbackErrors
<1>4. QED
  BY <1>1, <1>2, <1>3 DEF IInv

(* The models to try do not change once they are there.                    *)
LEMMA SameAttempts ==
  ASSUME UNCHANGED <<config, attempts>>, request'.model = request.model
  PROVE  /\ InOrderOf(attempts, FallbackList) => InOrderOf(attempts, FallbackList)'
         /\ NoneMissing(attempts, FallbackList) => NoneMissing(attempts, FallbackList)'
<1>1. FallbackList' = FallbackList /\ Primary' = Primary
  BY DEF FallbackList, Primary
<1>2. QED
  BY <1>1 DEF InOrderOf, NoneMissing

(* The variables keep their types.                                         *)
LEMMA TypeStep == TypeOK /\ TryingInv /\ [Next]_vars => TypeOK'
<1> SUFFICES ASSUME TypeOK, TryingInv, [Next]_vars PROVE TypeOK'
  OBVIOUS
<1> USE DEF TypeOK
<1>1. CASE RouteToIpc \/ IpcEnds
  BY <1>1 DEF RouteToIpc, IpcEnds
<1>2. CASE ExtractImages \/ ImagesFailed
  BY <1>2 DEF ExtractImages, ImagesFailed, Return, LocalErrors
<1>3. CASE ImagesExtracted
  BY <1>3 DEF ImagesExtracted, Requests
<1>4. CASE EmptyPrompt
  BY <1>4 DEF EmptyPrompt, Return, LocalErrors
<1>5. CASE StartAttempts
  <2>1. attempts' \in Seq(Names) /\ Len(attempts') > 0 /\ current' = 1
    BY <1>5, AttemptsOrdered DEF StartAttempts
  <2>2. current' \in DOMAIN attempts' /\ attempts' # <<>>
    BY <2>1
  <2>3. QED
    BY <1>5, <2>1, <2>2 DEF StartAttempts
<1>6. CASE Expire \/ Cancel
  BY <1>6 DEF Expire, Cancel
<1>7. CASE Delta
  <2>1. attempts[current] \in Names
    BY <1>7 DEF Delta, TryingInv
  <2>2. shown' \in Seq(Names) /\ Len(shown') <= MaxDeltas
    BY <1>7, <2>1, FallbackAssumption DEF Delta, FallbackAssumption
  <2>3. QED
    BY <1>7, <2>2 DEF Delta
<1>8. ASSUME NEW error \in Failures PROVE error \in FallbackErrors \cup OtherErrors
  BY <1>8 DEF Failures, FallbackErrors, OtherErrors
<1>9. CASE NextModel
  <2>1. current' \in DOMAIN attempts /\ attempts # <<>> /\ UNCHANGED attempts
    BY <1>9 DEF NextModel, MayFallBack, TryNext, TryingInv
  <2>2. failure' \in FallbackErrors
    BY <1>9 DEF NextModel, MayFallBack, TryNext
  <2>3. QED
    BY <1>9, <2>1, <2>2 DEF NextModel, TryNext
<1>10. CASE GiveUp
  <2>1. failure' \in FallbackErrors \cup OtherErrors
    BY <1>8, <1>10 DEF GiveUp, Return
  <2>2. QED
    BY <1>10, <2>1 DEF GiveUp, Return
<1>11. CASE ChatAnswered
  <2>1. attempts[current] \in Names
    BY <1>11 DEF ChatAnswered, TryingInv
  <2>2. QED
    BY <1>11, <2>1 DEF ChatAnswered
<1>12. CASE RetryEnds \/ Emulate \/ HintEnds
  BY <1>12 DEF RetryEnds, Emulate, HintEnds
<1>13. CASE UNCHANGED vars
  BY <1>13 DEF vars
<1>14. QED
  BY <1>1, <1>2, <1>3, <1>4, <1>5, <1>6, <1>7, <1>9, <1>10, <1>11, <1>12, <1>13
  DEF Next, LocalStep, CallEnds, Returned

(* Every step keeps to the model being tried.                              *)
LEMMA TryingStep == TypeOK /\ TryingInv /\ AttemptsInv /\ [Next]_vars => TryingInv'
<1> SUFFICES ASSUME TypeOK, TryingInv, AttemptsInv, [Next]_vars PROVE TryingInv'
  OBVIOUS
<1> USE DEF TryingInv, Trying, BeforeChat, AfterChat
<1>0. current \in Nat
  BY DEF TypeOK
<1>1. CASE RouteToIpc \/ IpcEnds
  BY <1>1 DEF RouteToIpc, IpcEnds
<1>2. CASE ExtractImages \/ ImagesExtracted \/ ImagesFailed
  BY <1>2 DEF ExtractImages, ImagesExtracted, ImagesFailed, Return
<1>3. CASE EmptyPrompt
  BY <1>3 DEF EmptyPrompt, Return
<1>4. CASE StartAttempts
  BY <1>4 DEF StartAttempts, NoResult
<1>5. CASE Expire \/ Cancel
  BY <1>5 DEF Expire, Cancel
<1>6. CASE Delta
  BY <1>6 DEF Delta
<1>7. CASE NextModel
  BY <1>0, <1>7 DEF NextModel, MayFallBack, TryNext, NoResult
<1>8. CASE GiveUp
  BY <1>8 DEF GiveUp, Return
<1>9. CASE ChatAnswered
  BY <1>9 DEF ChatAnswered
<1>10. CASE RetryEnds
  BY <1>10 DEF RetryEnds
<1>11. CASE Emulate
  BY <1>11 DEF Emulate
<1>12. CASE HintEnds
  BY <1>12 DEF HintEnds
<1>13. CASE UNCHANGED vars
  BY <1>13 DEF vars
<1> HIDE DEF TryingInv, Trying, BeforeChat, AfterChat
<1>14. QED
  BY <1>1, <1>2, <1>3, <1>4, <1>5, <1>6, <1>7, <1>8, <1>9, <1>10, <1>11, <1>12, <1>13
  DEF Next, LocalStep, CallEnds, Returned

(* The list is the configured one, and an error that allows to go on ends  *)
(* the request only where there is nothing to go on to.                    *)
LEMMA AttemptsStep == TypeOK /\ TryingInv /\ AttemptsInv /\ [Next]_vars => AttemptsInv'
<1> SUFFICES ASSUME TypeOK, TryingInv, AttemptsInv, [Next]_vars PROVE AttemptsInv'
  OBVIOUS
<1> DEFINE Same == UNCHANGED <<config, attempts>> /\ request'.model = request.model
<1> USE DEF AttemptsInv, BeforeChat
<1>0. Same => /\ InOrderOf(attempts, FallbackList) => InOrderOf(attempts, FallbackList)'
              /\ NoneMissing(attempts, FallbackList) => NoneMissing(attempts, FallbackList)'
  BY SameAttempts
<1>1. CASE RouteToIpc \/ IpcEnds
  BY <1>0, <1>1 DEF RouteToIpc, IpcEnds, FallbackErrors
<1>2. CASE ExtractImages \/ ImagesFailed
  BY <1>0, <1>2 DEF ExtractImages, ImagesFailed, Return, FallbackErrors
<1>3. CASE ImagesExtracted
  <2>1. Same
    BY <1>3 DEF ImagesExtracted, TypeOK, Requests
  <2>2. QED
    BY <1>0, <1>3, <2>1 DEF ImagesExtracted
<1>4. CASE EmptyPrompt
  BY <1>0, <1>4 DEF EmptyPrompt, Return, FallbackErrors
<1>5. CASE StartAttempts
  <2>1. InOrderOf(AttemptModels(Primary), FallbackList) /\ NoneMissing(AttemptModels(Primary), FallbackList)
    BY AttemptsOrdered DEF TypeOK
  <2>2. UNCHANGED <<request, config, failure>> /\ attempts' = AttemptModels(Primary)
    BY <1>5 DEF StartAttempts
  <2>3. FallbackList' = FallbackList /\ Primary' = Primary
    BY <2>2 DEF FallbackList, Primary
  <2>4. InOrderOf(attempts, FallbackList)' /\ NoneMissing(attempts, FallbackList)'
    BY <2>1, <2>2, <2>3 DEF InOrderOf, NoneMissing
  <2>5. QED
    BY <1>5, <2>2, <2>4 DEF StartAttempts
<1>6. CASE Expire \/ Cancel
  BY <1>0, <1>6 DEF Expire, Cancel
<1>7. CASE Delta
  BY <1>0, <1>7 DEF Delta
<1>8. CASE NextModel
  BY <1>0, <1>8 DEF NextModel, MayFallBack, TryNext
<1>9. CASE GiveUp
  <2>1. failure' \in FallbackErrors /\ ~emitted' => current' = Len(attempts')
    BY <1>9 DEF GiveUp, MayFallBack, Return, TypeOK, TryingInv
  <2>2. QED
    BY <1>0, <1>9, <2>1 DEF GiveUp, Return
<1>10. CASE ChatAnswered
  BY <1>0, <1>10 DEF ChatAnswered, FallbackErrors
<1>11. CASE RetryEnds
  BY <1>0, <1>11 DEF RetryEnds
<1>12. CASE Emulate \/ HintEnds
  BY <1>0, <1>12 DEF Emulate, HintEnds, FallbackErrors
<1>13. CASE UNCHANGED vars
  BY <1>0, <1>13 DEF vars
<1> HIDE DEF AttemptsInv, BeforeChat
<1>14. QED
  BY <1>1, <1>2, <1>3, <1>4, <1>5, <1>6, <1>7, <1>8, <1>9, <1>10, <1>11, <1>12, <1>13
  DEF Next, LocalStep, CallEnds, Returned

(* The inductive invariant holds in every reachable state.                 *)
THEOREM Invariance == Spec => []IInv
BY InitIInv, TypeStep, TryingStep, AttemptsStep, PTL DEF Spec, IInv

(* The variables keep their types; in particular the model being tried is  *)
(* always one of the list (service.go 420-434).                            *)
THEOREM TypeCorrect == Spec => []TypeOK
<1>1. IInv => TypeOK
  BY DEF IInv
<1>2. QED
  BY <1>1, Invariance, PTL

(* What a client reads comes from one model, the one that the result names *)
(* (service.go 421-432, 459-468).                                          *)
THEOREM OneModelTheorem == Spec => []AnswerFromOneModel
<1>1. IInv => AnswerFromOneModel
  BY DEF IInv, TryingInv, AnswerFromOneModel
<1>2. QED
  BY <1>1, Invariance, PTL

(* The models tried are the configured ones after the requested one, each  *)
(* once, in order; and a request that produced nothing ends with an error  *)
(* that allows to go on only when all of them were tried (service.go       *)
(* 416-434, 726-778).                                                      *)
THEOREM AttemptsTheorem == Spec => []AttemptsAsConfigured
<1>1. ASSUME IInv PROVE AttemptsAsConfigured
  <2> DEFINE list == config.models
  <2>1. list \in Seq(Names) /\ attempts \in Seq(Names)
    <3>1. config \in Configs /\ attempts \in Seq(Names)
      BY <1>1 DEF IInv, TypeOK
    <3>2. QED
      BY <3>1, FallbackAssumption DEF FallbackAssumption, Configs, BoundedSeq, SeqOf
  <2>2. CASE list = <<>>
    BY <2>2 DEF AttemptsAsConfigured, InOrder, NoneLeftOut
  <2>3. CASE list # <<>>
    <3>1. FallbackList = list /\ \A model : FirstIndex(model) = Place(list, model)
      BY <2>3 DEF FallbackList, FirstIndex, Place
    <3> HIDE DEF list
    <3>2. InOrder
      <4> SUFFICES ASSUME NEW i \in 2 .. Len(attempts)
                   PROVE  /\ config.fallback
                          /\ Place(list, attempts[i]) > Place(list, attempts[i - 1])
                          /\ \A j \in 1 .. i - 1 : attempts[j] # attempts[i]
        BY <3>1 DEF InOrder
      <4>1. ASSUME NEW j \in 1 .. i - 1
            PROVE  config.fallback /\ Place(list, attempts[j]) < Place(list, attempts[i])
        <5>1. i \in 1 .. Len(attempts) /\ j \in 1 .. Len(attempts) /\ j < i
          BY <2>1
        <5>2. QED
          BY <1>1, <3>1, <5>1 DEF IInv, AttemptsInv, InOrderOf
      <4>2. i - 1 \in 1 .. i - 1
        BY <2>1
      <4>3. \A model : Place(list, model) \in Nat
        BY <2>1, PlaceIs
      <4>4. QED
        BY <4>1, <4>2, <4>3
    <3>3. NoneLeftOut
      <4> SUFFICES ASSUME step = "returned", failure \in FallbackErrors, ~emitted, config.fallback,
                          NEW j \in DOMAIN list, Canonical[list[j]] # NoName,
                          ~(Place(list, Canonical[list[j]]) < Place(list, Primary))
                   PROVE  Canonical[list[j]] \in Tried
        BY <3>1 DEF NoneLeftOut, list
      <4>1. current = Len(attempts) /\ NoneMissing(attempts, list)
        BY <1>1, <3>1 DEF IInv, AttemptsInv
      <4>2. QED
        BY <2>1, <4>1 DEF NoneMissing, Tried
    <3>4. QED
      BY <3>2, <3>3 DEF AttemptsAsConfigured
  <2>4. QED
    BY <2>2, <2>3
<1>2. QED
  BY <1>1, Invariance, PTL

-----------------------------------------------------------------------------
(***************************************************************************)
(* Settings: for any words, ports, timeouts and lists.                     *)
(***************************************************************************)
(* What a text or an element of a list can be, and one step of             *)
(* cleanStringSlice.                                                       *)
Known == Words \cup {"", " ", "d", "e"}
Laid(out, v) == IF Trim(v) = "" \/ Contains(out, v) THEN out ELSE Append(out, v)

(* A list is cleaned element by element.                                   *)
LEMMA CleanSteps ==
  ASSUME NEW values \in Seq(Known)
  PROVE  \E out \in [0 .. Len(values) -> Seq(Known)] :
           /\ out[0] = <<>> /\ out[Len(values)] = cleanStringSlice(values)
           /\ \A k \in 1 .. Len(values) : out[k] = Laid(out[k - 1], values[k])
<1> DEFINE n == Len(values)
           R == Seq(Known)
           F == [out \in R |-> [k \in 1 .. n |-> Laid(out, values[k])]]
           Folds(g) == g = [s \in SUBSET (DOMAIN values) |->
                              IF s = {} THEN <<>> ELSE Laid(g[s \ {Max(s)}], values[Max(s)])]
           iter == CHOOSE g : Folds(g)
<1>1. n \in Nat /\ DOMAIN values = 1 .. n /\ (\A k \in 1 .. n : values[k] \in Known) /\ <<>> \in R
  BY ElementOfSeq
<1>2. \A out \in R, v \in Known : Laid(out, v) \in R
  <2>1. ASSUME NEW out \in R, NEW v \in Known PROVE Append(out, v) \in R
    BY <2>1, AppendProperties
  <2>2. QED
    BY <2>1 DEF Laid
<1>3. cleanStringSlice(values) = iter[1 .. n]
  BY <1>1 DEF cleanStringSlice, FoldLeft, MapThenFoldSet, Laid
<1> HIDE DEF n, R, Known
<1>4. F \in [R -> [1 .. n -> R]]
  BY <1>1, <1>2
<1>5. PICK g \in [SUBSET (1 .. n) -> R] : Folds(g)
  <2>1. PICK g \in [SUBSET (1 .. n) -> R] : IsFold(g, n, <<>>, F)
    <3> DEFINE seed == <<>>
    <3>1. seed \in R
      BY <1>1
    <3> HIDE DEF F, seed
    <3>2. \E g \in [SUBSET (1 .. n) -> R] : IsFold(g, n, seed, F)
      BY <1>1, <1>4, <3>1, FoldExists
    <3>3. QED
      BY <3>2 DEF seed
  <2>2. ASSUME NEW s \in SUBSET (1 .. n), s # {}
        PROVE  F[g[s \ {Max(s)}]][Max(s)] = Laid(g[s \ {Max(s)}], values[Max(s)])
    <3>1. Max(s) \in 1 .. n
      BY <1>1, <2>2, MaxIn
    <3>2. g[s \ {Max(s)}] \in R
      OBVIOUS
    <3>3. QED
      BY <3>1, <3>2
  <2> HIDE DEF F
  <2>3. Folds(g)
    BY <1>1, <2>1, <2>2 DEF IsFold
  <2>4. QED
    BY <2>3
<1>6. Folds(iter)
  BY <1>5
<1> HIDE DEF iter
<1>7. iter[1 .. 0] = <<>>
  <2>1. 1 .. 0 = {} /\ {} \in SUBSET (DOMAIN values)
    OBVIOUS
  <2>2. QED
    BY <1>6, <2>1
<1>8. ASSUME NEW k \in 1 .. n PROVE iter[1 .. k] = Laid(iter[1 .. k - 1], values[k])
  <2>1. 1 .. k \in SUBSET (DOMAIN values) /\ k \in 1 .. k /\ (1 .. k) \ {k} = 1 .. k - 1
    <3>1. \A i : i \in (1 .. k) \ {k} <=> i \in 1 .. k - 1
      BY <1>1
    <3>2. \A i \in 1 .. k : i \in 1 .. n
      BY <1>1
    <3>3. QED
      BY <1>1, <3>1, <3>2
  <2>2. Max(1 .. k) = k
    BY MaxIs
  <2>3. QED
    BY <1>6, <2>1, <2>2
<1> DEFINE S == {k \in 0 .. n : iter[1 .. k] \in R}
<1>9. 0 .. n \subseteq S
  <2>1. 0 \in S
    BY <1>1, <1>7
  <2>2. ASSUME NEW k \in 1 .. n, k - 1 \in S PROVE k \in S
    BY <1>1, <1>2, <1>8, <2>2
  <2> HIDE DEF S
  <2>3. QED
    BY <1>1, <2>1, <2>2, BoundedInduction
<1> DEFINE steps == [k \in 0 .. n |-> iter[1 .. k]]
<1>10. steps \in [0 .. n -> R] /\ steps[0] = <<>> /\ steps[n] = cleanStringSlice(values)
  BY <1>1, <1>3, <1>7, <1>9
<1>11. ASSUME NEW k \in 1 .. n PROVE steps[k] = Laid(steps[k - 1], values[k])
  BY <1>1, <1>8
<1> HIDE DEF steps
<1>12. QED
  BY <1>10, <1>11 DEF n, R

(* What is left has no blanks and nothing twice; such a list stays as it   *)
(* is.                                                                     *)
Clean(list) ==
  /\ \A i \in 1 .. Len(list) : Trim(list[i]) # ""
  /\ \A i, j \in 1 .. Len(list) : list[i] = list[j] => i = j

(* One more element keeps a list clean.                                    *)
LEMMA LaidClean ==
  ASSUME NEW out \in Seq(Known), Clean(out), NEW v \in Known
  PROVE  Laid(out, v) \in Seq(Known) /\ Clean(Laid(out, v))
<1>1. CASE Trim(v) = "" \/ Contains(out, v)
  BY <1>1 DEF Laid
<1>2. CASE Trim(v) # "" /\ ~Contains(out, v)
  <2> DEFINE n == Len(out)
             u == Append(out, v)
  <2>1. n \in Nat /\ u \in Seq(Known) /\ Len(u) = n + 1 /\ u[n + 1] = v /\ \A i \in 1 .. n : u[i] = out[i]
    BY AppendProperties
  <2>2. \A i \in 1 .. n : out[i] # v
    BY <1>2 DEF Contains
  <2>3. \A i \in 1 .. n + 1 : i \in 1 .. n \/ i = n + 1
    BY <2>1
  <2> HIDE DEF n, u
  <2>4. (\A i \in 1 .. n : Trim(out[i]) # "") /\ \A i, j \in 1 .. n : out[i] = out[j] => i = j
    BY DEF Clean, n
  <2>5. Clean(u)
    BY <1>2, <2>1, <2>2, <2>3, <2>4 DEF Clean
  <2>6. QED
    BY <1>2, <2>1, <2>5 DEF Laid, u
<1>3. QED
  BY <1>1, <1>2

(* So the result is clean, by induction over the list.                     *)
LEMMA CleanIsClean ==
  ASSUME NEW values \in Seq(Known)
  PROVE  cleanStringSlice(values) \in Seq(Known) /\ Clean(cleanStringSlice(values))
<1> DEFINE n == Len(values)
<1>1. n \in Nat /\ \A k \in 1 .. n : values[k] \in Known
  BY ElementOfSeq
<1>2. PICK out \in [0 .. n -> Seq(Known)] :
        out[0] = <<>> /\ out[n] = cleanStringSlice(values) /\ \A k \in 1 .. n : out[k] = Laid(out[k - 1], values[k])
  BY CleanSteps
<1> HIDE DEF n
<1> DEFINE S == {k \in 0 .. n : Clean(out[k])}
<1>3. 0 \in S
  <2>1. Clean(<<>>)
    BY DEF Clean
  <2>2. QED
    BY <1>1, <1>2, <2>1
<1>4. ASSUME NEW k \in 1 .. n, k - 1 \in S PROVE k \in S
  <2>1. k - 1 \in 0 .. n /\ k \in 0 .. n /\ out[k - 1] \in Seq(Known) /\ Clean(out[k - 1])
    BY <1>1, <1>4
  <2>2. Clean(Laid(out[k - 1], values[k]))
    BY <1>1, <2>1, LaidClean
  <2>3. QED
    BY <1>2, <2>1, <2>2
<1> HIDE DEF S
<1>5. n \in S
  <2>1. 0 .. n \subseteq S
    BY <1>1, <1>3, <1>4, BoundedInduction
  <2>2. QED
    BY <1>1, <2>1
<1>6. QED
  BY <1>1, <1>2, <1>5 DEF S

(* Of a clean list nothing is left out, by induction too.                  *)
LEMMA CleanStays ==
  ASSUME NEW values \in Seq(Known), Clean(values)
  PROVE  cleanStringSlice(values) = values
<1> DEFINE n == Len(values)
<1>1. n \in Nat /\ DOMAIN values = 1 .. n /\ \A k \in 1 .. n : values[k] \in Known
  BY ElementOfSeq
<1>2. PICK out \in [0 .. n -> Seq(Known)] :
        out[0] = <<>> /\ out[n] = cleanStringSlice(values) /\ \A k \in 1 .. n : out[k] = Laid(out[k - 1], values[k])
  BY CleanSteps
<1>3. (\A i \in 1 .. n : Trim(values[i]) # "") /\ \A i, j \in 1 .. n : values[i] = values[j] => i = j
  BY DEF Clean
<1> HIDE DEF n
<1> DEFINE S == {k \in 0 .. n : Len(out[k]) = k /\ \A i \in 1 .. k : out[k][i] = values[i]}
<1>4. 0 \in S
  BY <1>1, <1>2
<1>5. ASSUME NEW k \in 1 .. n, k - 1 \in S PROVE k \in S
  <2> DEFINE o == out[k - 1]
  <2>1. k \in 0 .. n /\ o \in Seq(Known) /\ Len(o) = k - 1 /\ \A i \in 1 .. k - 1 : o[i] = values[i]
    <3>1. k \in 0 .. n /\ k - 1 \in 0 .. n
      BY <1>1
    <3>2. Len(o) = k - 1 /\ \A i \in 1 .. k - 1 : o[i] = values[i]
      BY <1>5
    <3>3. o \in Seq(Known)
      BY <3>1
    <3>4. QED
      BY <3>1, <3>2, <3>3
  <2> HIDE DEF o
  <2>2. \A i \in 1 .. k - 1 : o[i] # values[k]
    <3>1. ASSUME NEW i \in 1 .. k - 1 PROVE i \in 1 .. n /\ i # k
      BY <1>1
    <3>2. QED
      BY <1>3, <2>1, <3>1
  <2>3. Laid(o, values[k]) = Append(o, values[k])
    BY <1>3, <2>1, <2>2 DEF Laid, Contains
  <2>4. Len(Append(o, values[k])) = k /\ \A i \in 1 .. k : Append(o, values[k])[i] = values[i]
    BY <1>1, <2>1, AppendProperties
  <2>5. out[k] = Append(o, values[k])
    BY <1>2, <2>3 DEF o
  <2>6. QED
    BY <2>1, <2>4, <2>5
<1> HIDE DEF S
<1>6. n \in S
  <2>1. 0 .. n \subseteq S
    BY <1>1, <1>4, <1>5, BoundedInduction
  <2>2. QED
    BY <1>1, <2>1
<1>7. out[n] \in Seq(Known) /\ Len(out[n]) = n /\ \A i \in 1 .. n : out[n][i] = values[i]
  BY <1>1, <1>6 DEF S
<1>8. QED
  BY <1>1, <1>2, <1>7, SeqEqual DEF n

-----------------------------------------------------------------------------
(* What a file can say of a setting of each kind, and what the app can     *)
(* hold of it.                                                             *)
Written == [text |-> Known, count |-> Nat, seconds |-> Int, switch |-> {"", "on", "off"},
            list |-> Seq(Known), choice |-> {"", "auto", "reuse", "odd"}]
Held == [text |-> Known, count |-> Nat, seconds |-> Nat, switch |-> {"on", "off"},
         list |-> Seq(Known), choice |-> {"auto", "reuse", "odd"}]

Kinds == {"text", "count", "seconds", "switch", "list", "choice"}

(* The app's reading of what a file says, the service's of what the app    *)
(* holds, and what comes of the user's choice.                             *)
Loaded(k, value) ==
  IF CASE k \in {"text", "choice"} -> value = "" [] k = "count" -> ~(value > 0) [] k = "seconds" -> ~(value >= 0)
       [] k = "switch" -> value = "" [] k = "list" -> value = <<>>
  THEN Default[k] ELSE IF k = "list" THEN cleanStringSlice(value) ELSE value
Made(k, value) ==
  IF k # "list" THEN value ELSE IF cleanStringSlice(value) = <<>> THEN Default.list ELSE cleanStringSlice(value)
Chosen(k, value) ==
  CASE k = "text" -> IF value = "" THEN Default[k] ELSE value
    [] k = "count" -> IF value = 0 THEN Default[k] ELSE value
    [] k = "list" -> IF value = <<>> THEN Default[k] ELSE Made(k, value)
    [] OTHER -> value

(* The lists a cleaned list and the default one are.                       *)
LEMMA Cleaned ==
  /\ \A list \in Seq(Known) : /\ cleanStringSlice(list) \in Seq(Known)
                              /\ cleanStringSlice(cleanStringSlice(list)) = cleanStringSlice(list)
  /\ Default.list \in Seq(Known) /\ cleanStringSlice(Default.list) = Default.list /\ Default.list # <<>>
  /\ <<>> \in Seq(Known) /\ cleanStringSlice(<<>>) = <<>>
<1>1. \A list \in Seq(Known) : /\ cleanStringSlice(list) \in Seq(Known)
                               /\ cleanStringSlice(cleanStringSlice(list)) = cleanStringSlice(list)
  BY CleanIsClean, CleanStays
<1>2. <<"d", "e">> \in Seq(Known) /\ Clean(<<"d", "e">>) /\ <<"d", "e">> # <<>>
  <2>1. "d" \in Known /\ "e" \in Known
    BY DEF Known
  <2> DEFINE l == <<"d", "e">>
  <2>2. l \in Seq(Known) /\ Len(l) = 2 /\ l[1] = "d" /\ l[2] = "e" /\ l # <<>>
    BY <2>1
  <2> HIDE DEF l
  <2>3. Clean(l)
    <3>1. \A i \in 1 .. Len(l) : i = 1 \/ i = 2
      BY <2>2
    <3>2. Trim("d") = "d" /\ Trim("e") = "e"
      BY DEF Trim
    <3>3. QED
      BY <2>2, <3>1, <3>2 DEF Clean
  <2>4. QED
    BY <2>2, <2>3 DEF l
<1>3. <<>> \in Seq(Known) /\ Clean(<<>>)
  BY DEF Clean
<1>4. Default.list = <<"d", "e">>
  BY DEF Default
<1>5. QED
  BY <1>1, <1>2, <1>3, <1>4, CleanStays

(* What the files hold at first, and what the settings page sends.         *)
LEMMA KindOf ==
  /\ DOMAIN Values = Kinds
  /\ \A k \in Kinds : /\ Values[k] \subseteq Written[k] /\ PageValues[k] \subseteq Held[k]
                       /\ Held[k] \subseteq Written[k] /\ Written[k] # {}
<1>0. Ports \subseteq Nat /\ Seconds \subseteq Int /\ Lists \subseteq Seq(Words \cup {"", " "})
  BY SettingsAssumption DEF SettingsAssumption
<1>1. Lists \subseteq Seq(Known)
  <2>1. ASSUME NEW l \in Lists PROVE l \in Seq(Known)
    <3>1. l \in Seq(Words \cup {"", " "})
      BY <1>0
    <3>2. QED
      BY <3>1, SeqMonotonic DEF Known
  <2>2. QED
    BY <2>1
<1>2. <<>> \in Seq(Known)
  BY Cleaned
<1> DEFINE L == Seq(Known)
<1> HIDE DEF L
<1>3. Values.list \subseteq L
  BY <1>1, <1>2 DEF Values, L
<1>4. DOMAIN Values = Kinds
  BY DEF Values, Kinds
<1>5. /\ Values.text = {"", " "} \cup Words /\ Values.count = {0} \cup Ports /\ Values.seconds = {0} \cup Seconds
      /\ Values.switch = {"", "on", "off"} /\ Values.choice = {"", "auto", "reuse", "odd"}
  BY DEF Values
<1>6. /\ Written.text = Known /\ Written.count = Nat /\ Written.seconds = Int /\ Written.list = L
      /\ Written.switch = {"", "on", "off"} /\ Written.choice = {"", "auto", "reuse", "odd"}
  BY DEF Written, L
<1>7. /\ Held.text = Known /\ Held.count = Nat /\ Held.seconds = Nat /\ Held.list = L
      /\ Held.switch = {"on", "off"} /\ Held.choice = {"auto", "reuse", "odd"}
  BY DEF Held, L
<1>8. /\ PageValues.text = Values.text /\ PageValues.count = Values.count /\ PageValues.list = Values.list
      /\ PageValues.seconds = {n \in Values.seconds : n >= 0}
      /\ PageValues.switch = {"on", "off"} /\ PageValues.choice = {"auto", "reuse"}
  BY <1>4 DEF PageValues, Kinds
<1>9. Values.text \subseteq Known /\ Values.count \subseteq Nat /\ Values.seconds \subseteq Int
  <2>1. Values.text \subseteq Known
    BY <1>5 DEF Known
  <2>0. Ports \subseteq Nat /\ Seconds \subseteq Int
    BY <1>0
  <2>2. Values.count \subseteq Nat
    <3>1. Values.count = {0} \cup Ports
      BY <1>5
    <3>2. QED
      BY <2>0, <3>1
  <2>3. Values.seconds \subseteq Int
    <3>1. Values.seconds = {0} \cup Seconds
      BY <1>5
    <3>2. QED
      BY <2>0, <3>1
  <2>4. QED
    BY <2>1, <2>2, <2>3
<1>10. PageValues.seconds \subseteq Nat
  <2>1. ASSUME NEW n \in PageValues.seconds PROVE n \in Nat
    <3>1. n \in Int /\ n >= 0
      BY <1>8, <1>9
    <3>2. QED
      BY <3>1
  <2>2. QED
    BY <2>1
<1>11. ASSUME NEW k \in Kinds PROVE Values[k] \subseteq Written[k] /\ PageValues[k] \subseteq Held[k]
  BY <1>3, <1>5, <1>6, <1>7, <1>8, <1>9, <1>10 DEF Kinds
<1>12. ASSUME NEW k \in Kinds PROVE Held[k] \subseteq Written[k] /\ Written[k] # {}
  <2>1. Nat \subseteq Int /\ Nat # {} /\ Known # {} /\ L # {}
    <3>1. "" \in Known /\ 0 \in Nat /\ <<>> \in L
      BY <1>2 DEF Known, L
    <3>2. Nat \subseteq Int
      OBVIOUS
    <3>3. QED
      BY <3>1, <3>2, Zenon
  <2>2. QED
    BY <1>6, <1>7, <2>1 DEF Kinds
<1>13. QED
  BY <1>4, <1>11, <1>12

(* Reading what the app wrote gives what it held, or what it would serve.  *)
LEMMA LoadedMade ==
  ASSUME NEW k \in Kinds, NEW v \in Written[k]
  PROVE  /\ Loaded(k, v) \in Held[k] /\ Loaded(k, v) \in Written[k] /\ Default[k] \in Held[k] /\ Default[k] \in Written[k]
         /\ Made(k, Loaded(k, Loaded(k, v))) = Made(k, Loaded(k, v))
         /\ v \in Held[k] => Made(k, Loaded(k, v)) = Chosen(k, v)
<1>1. CASE k = "list"
  <2>1. v \in Seq(Known) /\ Held[k] = Seq(Known) /\ Written[k] = Seq(Known)
    BY <1>1 DEF Held, Written
  <2>2. QED
    BY <1>1, <2>1, Cleaned DEF Loaded, Made, Chosen
<1>2. CASE k # "list"
  <2>1. CASE k = "text"
    <3>0. Default.text = "d"
      BY DEF Default
    <3>1. ASSUME NEW w
          PROVE  /\ Loaded("text", w) = IF w = "" THEN "d" ELSE w
                 /\ Made("text", w) = w /\ Chosen("text", w) = IF w = "" THEN "d" ELSE w
      <4>1. Loaded("text", w) = IF w = "" THEN "d" ELSE w
        BY <3>0 DEF Loaded
      <4>2. Made("text", w) = w
        BY DEF Made
      <4>3. Chosen("text", w) = IF w = "" THEN "d" ELSE w
        BY <3>0, <4>2 DEF Chosen
      <4>4. QED
        BY <4>1, <4>2, <4>3
    <3>2. Held.text = Known /\ Written.text = Known /\ Default.text = "d" /\ "d" \in Known
      BY DEF Held, Written, Default, Known
    <3>3. QED
      BY <2>1, <3>1, <3>2
  <2>2. CASE k = "count"
    <3>0. Default.count = 9
      BY DEF Default
    <3>1. ASSUME NEW w
          PROVE  /\ Loaded("count", w) = IF w > 0 THEN w ELSE 9
                 /\ Made("count", w) = w /\ Chosen("count", w) = IF w = 0 THEN 9 ELSE w
      <4>1. Loaded("count", w) = IF w > 0 THEN w ELSE 9
        BY <3>0 DEF Loaded
      <4>2. Made("count", w) = w
        BY DEF Made
      <4>3. Chosen("count", w) = IF w = 0 THEN 9 ELSE w
        BY <3>0, <4>2 DEF Chosen
      <4>4. QED
        BY <4>1, <4>2, <4>3
    <3>2. Held.count = Nat /\ Written.count = Nat /\ Default.count = 9
      BY DEF Held, Written, Default
    <3>3. QED
      BY <2>2, <3>1, <3>2
  <2>3. CASE k = "seconds"
    BY <2>3 DEF Held, Written, Loaded, Made, Chosen, Default
  <2>4. CASE k = "switch"
    BY <2>4 DEF Held, Written, Loaded, Made, Chosen, Default
  <2>5. CASE k = "choice"
    BY <2>5 DEF Held, Written, Loaded, Made, Chosen, Default
  <2>6. QED
    BY <1>2, <2>1, <2>2, <2>3, <2>4, <2>5 DEF Kinds
<1>3. QED
  BY <1>1, <1>2

(* The inductive invariant.                                                *)
SettingsTypes ==
  /\ kind \in Kinds
  /\ files \in [Places -> [state : {"absent", "torn", "whole"}, value : Written[kind]]]
  /\ app \in {"off", "on"} /\ cfg \in Held[kind]
  /\ kept = <<>> \/ \E v \in Held[kind] : kept = <<v>>

NoneFirst == files["current"].state = "absent" /\ files["currentLegacy"].state = "absent"

(* As long as no other file comes first, the app's own holds what was      *)
(* chosen, or what the app made of it at a start.                          *)
ChoiceKept ==
  kept # <<>> /\ NoneFirst =>
    /\ files["own"].state = "whole"
    /\ Made(kind, Loaded(kind, files["own"].value)) = Chosen(kind, kept[1])
    /\ app = "on" => Made(kind, cfg) \in {Made(kind, kept[1]), Chosen(kind, kept[1])}

SettingsInv == SettingsTypes /\ ChoiceKept

(* The program's words and the invariant's.                                *)
LEMMA InOtherWords ==
  ASSUME kind \in Kinds, NEW v
  PROVE  /\ Loaded(kind, v) = IF ~AppSays(v) THEN Default[kind] ELSE IF kind = "list" THEN cleanStringSlice(v) ELSE v
         /\ Effective(v) = Made(kind, v)
         /\ (IF Cleared(v) THEN Default[kind] ELSE Effective(v)) = Chosen(kind, v)
<1>1. Effective(v) = Made(kind, v)
  BY DEF Effective, Made
<1>2. Loaded(kind, v) = IF ~AppSays(v) THEN Default[kind] ELSE IF kind = "list" THEN cleanStringSlice(v) ELSE v
  BY DEF Loaded, AppSays, Says, Kinds
<1>3. (IF Cleared(v) THEN Default[kind] ELSE Effective(v)) = Chosen(kind, v)
  BY <1>1 DEF Cleared, Chosen, Kinds, Made
<1>4. QED
  BY <1>1, <1>2, <1>3

(* The app's own file is read unless another comes first.                  *)
LEMMA ReadAtStart ==
  ASSUME SettingsTypes
  PROVE  /\ defaultConfig \in Held[kind]
         /\ NoneFirst /\ files["own"].state = "whole" => defaultConfig = Loaded(kind, files["own"].value)
<1> DEFINE paths == <<"current", "currentLegacy", "own", "ownLegacy">>
           present == {i \in 1 .. Len(paths) : files[paths[i]].state # "absent"}
           path == FirstPresent(paths)
<1>1. kind \in Kinds /\ (\A p \in Places : files[p].state \in {"absent", "torn", "whole"} /\ files[p].value \in Written[kind])
  BY DEF SettingsTypes
<1>2. /\ Len(paths) = 4 /\ paths[1] = "current" /\ paths[2] = "currentLegacy" /\ paths[3] = "own" /\ paths[4] = "ownLegacy"
      /\ \A i \in 1 .. 4 : paths[i] \in Places
  BY DEF Places
<1>3. path = IF present # {} THEN <<paths[Min(present)]>> ELSE <<>>
  <2>1. present \in SUBSET Nat /\ 0 \notin present
    BY <1>2
  <2>2. present # {} => Min(present) # 0
    BY <2>1, MinIs
  <2>3. SelectInSeq(paths, LAMBDA p : files[p].state # "absent") = IF present # {} THEN Min(present) ELSE 0
    BY DEF SelectInSeq
  <2> HIDE DEF paths, present
  <2>4. QED
    BY <2>2, <2>3 DEF FirstPresent
<1>4. path = <<>> \/ \E p \in Places : path = <<p>>
  <2>1. present \in SUBSET Nat /\ present \subseteq 1 .. 4
    BY <1>2
  <2>2. present # {} => Min(present) \in 1 .. 4
    BY <2>1, MinIs
  <2> HIDE DEF paths, present, path
  <2>3. QED
    BY <1>2, <1>3, <2>2
<1>5. NoneFirst /\ files["own"].state = "whole" => path = <<"own">>
  <2> SUFFICES ASSUME NoneFirst, files["own"].state = "whole" PROVE path = <<"own">>
    OBVIOUS
  <2>1. 1 \notin present /\ 2 \notin present /\ 3 \in present
    BY <1>2 DEF NoneFirst
  <2>2. present \in SUBSET Nat /\ present \subseteq 1 .. 4
    BY <1>2
  <2> HIDE DEF present
  <2>3. Min(present) \in present /\ Min(present) <= 3
    BY <2>1, <2>2, MinIs
  <2>4. Min(present) = 3
    <3> DEFINE m == Min(present)
    <3> HIDE DEF m
    <3>1. m \in 1 .. 4 /\ m # 1 /\ m # 2 /\ m <= 3
      BY <2>1, <2>2, <2>3 DEF m
    <3>2. m = 3
      BY <3>1
    <3>3. QED
      BY <3>2 DEF m
  <2> HIDE DEF paths, path
  <2>5. QED
    BY <1>2, <1>3, <2>1, <2>4
<1>6. defaultConfig = LET file == IF path = <<>> THEN Absent ELSE files[path[1]]
                      IN  IF file.state # "whole" \/ ~AppSays(file.value) THEN Default[kind]
                          ELSE IF kind = "list" THEN cleanStringSlice(file.value) ELSE file.value
  BY DEF defaultConfig
<1> HIDE DEF path
<1>7. Default[kind] \in Held[kind]
  <2>1. PICK v : v \in Written[kind]
    BY <1>1 DEF Places
  <2>2. QED
    BY <1>1, <2>1, LoadedMade
<1>8. path = <<>> => defaultConfig = Default[kind]
  BY <1>6 DEF Absent, File
<1>9. ASSUME NEW p \in Places, path = <<p>>
      PROVE  defaultConfig = IF files[p].state # "whole" THEN Default[kind] ELSE Loaded(kind, files[p].value)
  <2>1. path # <<>> /\ path[1] = p
    BY <1>9
  <2>2. QED
    BY <1>1, <1>6, <2>1, InOtherWords
<1>10. \A p \in Places : Loaded(kind, files[p].value) \in Held[kind]
  BY <1>1, LoadedMade
<1>11. QED
  BY <1>4, <1>5, <1>7, <1>8, <1>9, <1>10 DEF Places

(* At first nothing was chosen.                                            *)
LEMMA SettingsInitially == SettingsInit => SettingsInv
<1> SUFFICES ASSUME SettingsInit PROVE SettingsInv
  OBVIOUS
<1>1. kind \in Kinds /\ Values[kind] \subseteq Written[kind]
  BY KindOf DEF SettingsInit
<1>2. Default[kind] \in Held[kind] /\ Default[kind] \in Written[kind]
  <2>1. PICK v \in Written[kind] : TRUE
    BY <1>1, KindOf
  <2>2. QED
    BY <1>1, <2>1, LoadedMade
<1>3. \A p \in Places : files[p] \in [state : {"absent", "torn", "whole"}, value : Written[kind]]
  BY <1>1, <1>2 DEF SettingsInit, Absent, Torn, Whole, File
<1>4. QED
  BY <1>1, <1>2, <1>3 DEF SettingsInit, SettingsInv, SettingsTypes, ChoiceKept

(* At a start the file of the last choice is written back.                 *)
Reloaded(value, choice) ==
  choice = kept /\ (kept # <<>> /\ NoneFirst => value = Loaded(kind, files["own"].value))

(* Whatever becomes of a save.                                             *)
LEMMA SaveKeeps ==
  ASSUME SettingsInv, kind' = kind, NEW value \in Held[kind], value \in Written[kind], NEW choice, saveConfig(value, choice),
         \/ Reloaded(value, choice)
         \/ choice = <<value>> /\ Made(kind, Loaded(kind, value)) = Chosen(kind, value)
  PROVE  SettingsInv'
<1> USE DEF SettingsInv, Reloaded
<1>1. kind \in Kinds /\ files \in [Places -> [state : {"absent", "torn", "whole"}, value : Written[kind]]]
      /\ (kept = <<>> \/ \E v \in Held[kind] : kept = <<v>>)
  BY DEF SettingsTypes
<1>2. Default[kind] \in Held[kind] /\ Default[kind] \in Written[kind]
  BY <1>1, LoadedMade
<1>3. choice = <<>> \/ \E v \in Held[kind] : choice = <<v>>
  BY <1>1
<1>4. "own" \in Places /\ "current" \in Places /\ "currentLegacy" \in Places
  BY DEF Places
<1>5. CASE files' = [files EXCEPT !.own = Whole(value)] /\ app' = "on" /\ cfg' = value /\ kept' = choice
  <2>1. SettingsTypes'
    BY <1>1, <1>3, <1>5 DEF SettingsTypes, Whole, File
  <2>2. files'["own"].state = "whole" /\ files'["own"].value = value /\ (NoneFirst' <=> NoneFirst)
    BY <1>1, <1>4, <1>5 DEF Whole, File, NoneFirst
  <2>3. ASSUME kept' # <<>>, NoneFirst
        PROVE  /\ Made(kind, Loaded(kind, value)) = Chosen(kind, kept'[1])
               /\ Made(kind, value) \in {Made(kind, kept'[1]), Chosen(kind, kept'[1])}
    <3>1. CASE choice = <<value>> /\ Made(kind, Loaded(kind, value)) = Chosen(kind, value)
      BY <1>5, <3>1
    <3>2. CASE choice = kept /\ value = Loaded(kind, files["own"].value)
      <4>1. Made(kind, Loaded(kind, files["own"].value)) = Chosen(kind, kept[1])
        BY <1>5, <2>3, <3>2 DEF ChoiceKept
      <4>2. Made(kind, Loaded(kind, value)) = Made(kind, value)
        BY <1>1, <1>4, <3>2, LoadedMade
      <4>3. QED
        BY <1>5, <3>2, <4>1, <4>2
    <3>3. QED
      BY <1>5, <2>3, <3>1, <3>2
  <2>4. ChoiceKept'
    BY <1>5, <2>2, <2>3 DEF ChoiceKept
  <2>5. QED
    BY <2>1, <2>4
<1>6. CASE UNCHANGED files /\ app' = "on" /\ cfg' = value /\ kept' = IF choice = kept THEN kept ELSE <<>>
  <2>1. SettingsTypes'
    BY <1>1, <1>6 DEF SettingsTypes
  <2>2. NoneFirst' <=> NoneFirst
    BY <1>6 DEF NoneFirst
  <2>3. ASSUME kept' # <<>>, NoneFirst
        PROVE  Made(kind, value) \in {Made(kind, kept[1]), Chosen(kind, kept[1])}
    <3>1. choice = kept /\ kept # <<>>
      BY <1>6, <2>3
    <3>2. CASE choice = <<value>>
      BY <3>1, <3>2
    <3>3. CASE value = Loaded(kind, files["own"].value)
      BY <2>3, <3>1, <3>3 DEF ChoiceKept
    <3>4. QED
      BY <2>3, <3>1, <3>2, <3>3
  <2>4. ChoiceKept'
    BY <1>6, <2>2, <2>3 DEF ChoiceKept
  <2>5. QED
    BY <2>1, <2>4
<1>7. CASE files' = [files EXCEPT !.own = Torn] /\ app' = "off" /\ cfg' = Default[kind] /\ kept' = <<>>
  <2>1. SettingsTypes'
    BY <1>1, <1>2, <1>7 DEF SettingsTypes, Torn, File
  <2>2. QED
    BY <1>7, <2>1 DEF ChoiceKept
<1>8. QED
  BY <1>5, <1>6, <1>7 DEF saveConfig

(* Starts, changes and quitting leave the invariant.                       *)
LEMMA SettingsStep == SettingsInv /\ [SettingsNext]_settingsVars => SettingsInv'
<1> SUFFICES ASSUME SettingsInv, [SettingsNext]_settingsVars PROVE SettingsInv'
  OBVIOUS
<1>1. SettingsTypes /\ kind \in Kinds
  BY DEF SettingsInv, SettingsTypes
<1>2. CASE startup
  <2>1. defaultConfig \in Held[kind]
    BY <1>1, ReadAtStart
  <2>2. kept # <<>> /\ NoneFirst => defaultConfig = Loaded(kind, files["own"].value)
    BY <1>1, ReadAtStart DEF SettingsInv, ChoiceKept
  <2>3. defaultConfig \in Written[kind]
    BY <1>1, <2>1, KindOf
  <2>4. saveConfig(defaultConfig, kept) /\ kind' = kind
    BY <1>2 DEF startup
  <2>5. Reloaded(defaultConfig, kept)
    BY <2>2 DEF Reloaded
  <2>6. PICK value, choice : value = defaultConfig /\ choice = kept
    OBVIOUS
  <2>7. value \in Held[kind] /\ value \in Written[kind] /\ saveConfig(value, choice) /\ Reloaded(value, choice) /\ kind' = kind
    BY <2>1, <2>3, <2>4, <2>5, <2>6
  <2>8. QED
    BY <2>7, SaveKeeps
<1>3. CASE UpdateConfig
  <2>1. PICK value \in PageValues[kind] : saveConfig(value, <<value>>)
    BY <1>3 DEF UpdateConfig
  <2>2. value \in Held[kind]
    BY <1>1, KindOf
  <2>3. value \in Written[kind]
    BY <1>1, <2>2, KindOf
  <2>4. Made(kind, Loaded(kind, value)) = Chosen(kind, value)
    BY <1>1, <2>2, <2>3, LoadedMade
  <2> DEFINE choice == <<value>>
  <2>5. saveConfig(value, choice) /\ choice = <<value>> /\ kind' = kind
    BY <1>3, <2>1 DEF UpdateConfig
  <2> HIDE DEF choice
  <2>6. QED
    BY <2>2, <2>3, <2>4, <2>5, SaveKeeps
<1>4. CASE Quit
  <2>1. Default[kind] \in Held[kind]
    BY <1>1, LoadedMade DEF SettingsTypes, Places
  <2>2. QED
    BY <1>4, <2>1 DEF Quit, SettingsInv, SettingsTypes, ChoiceKept, NoneFirst
<1>5. CASE UNCHANGED settingsVars
  BY <1>5 DEF settingsVars, SettingsInv, SettingsTypes, ChoiceKept, NoneFirst
<1>6. QED
  BY <1>2, <1>3, <1>4, <1>5 DEF SettingsNext

(* What was kept is what is served.                                        *)
LEMMA ChoiceSurvives == SettingsInv => SavedSurvives
<1> SUFFICES ASSUME SettingsInv, kept # <<>>, NoneFirst
             PROVE  LET expected == IF Cleared(kept[1]) THEN Default[kind] ELSE Effective(kept[1])
                    IN  IF app = "off" THEN Effective(defaultConfig) = expected
                        ELSE Effective(cfg) \in {Effective(kept[1]), expected}
  BY DEF SavedSurvives, NoneFirst
<1>1. SettingsTypes /\ kind \in Kinds
  BY DEF SettingsInv, SettingsTypes
<1>2. (IF Cleared(kept[1]) THEN Default[kind] ELSE Effective(kept[1])) = Chosen(kind, kept[1])
  BY <1>1, InOtherWords
<1>3. /\ Effective(defaultConfig) = Made(kind, defaultConfig) /\ Effective(cfg) = Made(kind, cfg)
      /\ Effective(kept[1]) = Made(kind, kept[1])
  BY <1>1, InOtherWords
<1>4. /\ files["own"].state = "whole"
      /\ Made(kind, Loaded(kind, files["own"].value)) = Chosen(kind, kept[1])
      /\ app = "on" => Made(kind, cfg) \in {Made(kind, kept[1]), Chosen(kind, kept[1])}
  BY DEF SettingsInv, ChoiceKept
<1>5. defaultConfig = Loaded(kind, files["own"].value)
  BY <1>1, <1>4, ReadAtStart
<1>6. app = "off" \/ app = "on"
  BY <1>1 DEF SettingsTypes
<1>7. QED
  BY <1>2, <1>3, <1>4, <1>5, <1>6

(* Three layers, each of which may say something: the first that does is   *)
(* the first of what is given.                                             *)
Layer(x) == x = <<>> \/ x = <<x[1]>>

(* A list with one more layer behind it.                                   *)
LEMMA AddLayer ==
  ASSUME NEW o, IsList(o), NEW y, Layer(y)
  PROVE  LET g == o \o y
         IN  /\ IsList(g) /\ (g = <<>> <=> o = <<>> /\ y = <<>>)
             /\ g # <<>> => g[1] = IF o # <<>> THEN o[1] ELSE y[1]
             /\ \A S : (\A i \in DOMAIN g : g[i] \in S) <=>
                         (\A i \in DOMAIN o : o[i] \in S) /\ (y = <<>> \/ y[1] \in S)
<1>1. CASE y = <<>>
  BY <1>1, EmptyList
<1>2. CASE y # <<>>
  <2> DEFINE e == y[1]
             g == o \o <<e>>
             n == Len(o)
  <2>1. y = <<e>>
    BY <1>2 DEF Layer
  <2>2. /\ IsList(g) /\ n \in Nat /\ DOMAIN o = 1 .. n /\ DOMAIN g = 1 .. n + 1
        /\ g[n + 1] = e /\ \A i \in 1 .. n : g[i] = o[i]
        /\ \A i \in 1 .. n + 1 : i = n + 1 \/ i \in 1 .. n
        /\ \A i \in 1 .. n : i \in 1 .. n + 1
        /\ n + 1 \in 1 .. n + 1
    BY OneMore
  <2>3. o # <<>> => n # 0
    BY EmptySeq DEF IsList
  <2>4. o = <<>> => n = 0
    OBVIOUS
  <2> HIDE DEF e, g, n
  <2>5. g # <<>>
    BY <2>2
  <2>6. g[1] = IF o # <<>> THEN o[1] ELSE e
    BY <2>2, <2>3, <2>4
  <2>7. \A S : (\A i \in DOMAIN g : g[i] \in S) <=> (\A i \in DOMAIN o : o[i] \in S) /\ e \in S
    BY <2>2
  <2>8. o \o y = g
    BY <2>1 DEF g
  <2>9. QED
    BY <1>2, <2>2, <2>5, <2>6, <2>7, <2>8 DEF e
<1>3. QED
  BY <1>1, <1>2

LEMMA Layers ==
  ASSUME NEW x, Layer(x), NEW y, Layer(y), NEW z, Layer(z)
  PROVE  LET g == x \o y \o z
         IN  /\ g = <<>> <=> x = <<>> /\ y = <<>> /\ z = <<>>
             /\ g # <<>> => g[1] = IF x # <<>> THEN x[1] ELSE IF y # <<>> THEN y[1] ELSE z[1]
             /\ \A S : (\A i \in DOMAIN g : g[i] \in S) <=>
                         /\ x = <<>> \/ x[1] \in S
                         /\ y = <<>> \/ y[1] \in S
                         /\ z = <<>> \/ z[1] \in S
<1>1. IsList(x)
  BY EmptyList, ListOfOne DEF Layer
<1>2. /\ <<>> \o x = x
      /\ \A S : (\A i \in DOMAIN x : x[i] \in S) <=> x = <<>> \/ x[1] \in S
  <2>1. <<>> \o x = x
    BY <1>1, EmptyList
  <2>2. \A i : i \in DOMAIN <<>> <=> FALSE
    OBVIOUS
  <2> DEFINE o == <<>>
  <2>3. IsList(o) /\ o = <<>>
    BY EmptyList
  <2> HIDE DEF o
  <2>4. \A S : (\A i \in DOMAIN (o \o x) : (o \o x)[i] \in S) <=> (\A i \in DOMAIN o : o[i] \in S) /\ (x = <<>> \/ x[1] \in S)
    BY <2>3, AddLayer
  <2>5. QED
    BY <2>1, <2>2, <2>3, <2>4
<1> DEFINE h == x \o y
           g == h \o z
<1>3. /\ IsList(h) /\ (h = <<>> <=> x = <<>> /\ y = <<>>)
      /\ h # <<>> => h[1] = IF x # <<>> THEN x[1] ELSE y[1]
      /\ \A S : (\A i \in DOMAIN h : h[i] \in S) <=>
                  (\A i \in DOMAIN x : x[i] \in S) /\ (y = <<>> \/ y[1] \in S)
  BY <1>1, AddLayer
<1> HIDE DEF h
<1>4. /\ g = <<>> <=> h = <<>> /\ z = <<>>
      /\ g # <<>> => g[1] = IF h # <<>> THEN h[1] ELSE z[1]
      /\ \A S : (\A i \in DOMAIN g : g[i] \in S) <=>
                  (\A i \in DOMAIN h : h[i] \in S) /\ (z = <<>> \/ z[1] \in S)
  <2>1. IsList(h) /\ Layer(z)
    BY <1>3
  <2>2. QED
    BY <2>1, AddLayer
<1>5. g = x \o y \o z
  BY DEF h
<1> HIDE DEF g
<1>6. QED
  BY <1>2, <1>3, <1>4, <1>5

(* A layer is read without becoming invalid or valid.                      *)
LEMMA ParsedIs ==
  ASSUME kind \in Kinds, NEW v \in Written[kind]
  PROVE  /\ ~Invalid(Default[kind]) /\ (kind = "choice" => Default[kind] # "")
         /\ Invalid(Parsed(v)) <=> Invalid(v)
         /\ kind = "choice" => (Says(v) <=> v # "") /\ (Parsed(v) = v)
<1>1. kind = "choice" => Default[kind] = "auto" /\ v \in {"", "auto", "reuse", "odd"}
  <2>1. Default.choice = "auto" /\ Written.choice = {"", "auto", "reuse", "odd"}
    BY DEF Default, Written
  <2>2. QED
    BY <2>1
<1>2. kind = "choice" => Trim(v) = v
  BY <1>1 DEF Trim
<1>3. kind = "choice" => Parsed(v) = v /\ (Says(v) <=> v # "")
  BY <1>2 DEF Parsed, Says
<1>4. QED
  BY <1>1, <1>3 DEF Invalid

(* The first of the files there are.                                       *)
LEMMA FirstFound ==
  ASSUME NEW paths \in Seq(Places)
  PROVE  FirstPresent(paths) = <<>> \/ \E p \in Places : FirstPresent(paths) = <<p>>
<1> DEFINE present == {i \in 1 .. Len(paths) : files[paths[i]].state # "absent"}
<1>1. \A i \in 1 .. Len(paths) : paths[i] \in Places
  BY ElementOfSeq
<1>2. present \in SUBSET Nat /\ present \subseteq 1 .. Len(paths)
  OBVIOUS
<1>3. SelectInSeq(paths, LAMBDA p : files[p].state # "absent") = IF present # {} THEN Min(present) ELSE 0
  BY DEF SelectInSeq
<1> HIDE DEF present
<1>4. present # {} => Min(present) \in 1 .. Len(paths) /\ Min(present) # 0
  <2>1. present # {} => Min(present) \in present
    BY <1>2, MinIs
  <2>2. Len(paths) \in Nat
    OBVIOUS
  <2>3. \A i \in 1 .. Len(paths) : i # 0
    BY <2>2
  <2>4. QED
    BY <1>2, <2>1, <2>3
<1>5. QED
  BY <1>1, <1>3, <1>4 DEF FirstPresent

(* Where the program looks.                                                *)
LEMMA TwoPlaces == <<"current", "currentLegacy">> \in Seq(Places)
<1>1. "current" \in Places /\ "currentLegacy" \in Places
  BY DEF Places
<1>2. QED
  BY <1>1

(* A layer that need not be there.                                         *)
Maybe(values) == {<<>>} \cup {<<v>> : v \in values}

(* Such a layer is empty or one value.                                     *)
LEMMA MaybeIs == ASSUME NEW S, NEW x \in Maybe(S) PROVE Layer(x) /\ (x # <<>> => x[1] \in S)
<1>1. CASE x = <<>>
  BY <1>1 DEF Layer
<1>2. CASE \E v \in S : x = <<v>>
  <2>1. PICK v \in S : x = <<v>>
    BY <1>2
  <2>2. x[1] = v
    BY <2>1
  <2>3. QED
    BY <2>1, <2>2 DEF Layer
<1>3. QED
  BY <1>1, <1>2 DEF Maybe

(* The first of what is given is the value, and the app's own file gives   *)
(* the app's value (main.go 104-193).                                      *)
LEMMA HighestDecides == SettingsInv => Precedence
<1> SUFFICES ASSUME SettingsInv, app = "on" PROVE Precedence
  BY DEF Precedence
<1>1. SettingsTypes /\ kind \in Kinds /\ Values[kind] \subseteq Written[kind] /\ cfg \in Held[kind] /\ cfg \in Written[kind]
  BY KindOf DEF SettingsInv, SettingsTypes
<1>2. \A p \in Places : files[p].value \in Written[kind]
  BY <1>1 DEF SettingsTypes
<1> DEFINE Optional(values) == {<<>>} \cup {<<v>> : v \in values}
           flags == Optional(Values[kind] \ (IF kind = "switch" THEN {""} ELSE {}))
<1>3. ASSUME NEW arg \in Optional(Places), NEW env \in Optional(Values[kind]), NEW flag \in flags
      PROVE  LET path == resolveConfigPath(arg, <<>>)
                 file == IF path = <<>> THEN Absent ELSE files[path[1]]
                 given == flag
                            \o (IF EnvSays(env) THEN env ELSE <<>>)
                            \o (IF file.state = "whole" /\ Says(file.value) THEN <<file.value>> ELSE <<>>)
                 r == loadConfig(arg, <<>>, env, flag)
             IN  /\ r.starts => r.value = IF given = <<>> THEN Default[kind] ELSE Parsed(given[1])
                 /\ r.starts <=> /\ path = <<>> \/ file.state = "whole"
                                 /\ \A i \in DOMAIN given : ~Invalid(given[i])
                                 /\ kind = "choice" => flag # <<"">>
  <2> DEFINE path == resolveConfigPath(arg, <<>>)
             file == IF path = <<>> THEN Absent ELSE files[path[1]]
             set == IF EnvSays(env) THEN env ELSE <<>>
             said == IF file.state = "whole" /\ Says(file.value) THEN <<file.value>> ELSE <<>>
             given == flag \o set \o said
             r == loadConfig(arg, <<>>, env, flag)
             readable == path = <<>> \/ file.state = "whole"
             filed == IF said = <<>> THEN Default[kind] ELSE Parsed(said[1])
             laid == IF set = <<>> THEN filed ELSE Parsed(set[1])
             value == IF flag = <<>> THEN laid ELSE Parsed(flag[1])
             Valid == {v \in Written[kind] : ~Invalid(v)}
  <2>1. path = <<>> \/ \E p \in Places : path = <<p>>
    <3>1. <<"current", "currentLegacy">> \in Seq(Places)
      BY TwoPlaces
    <3>2. arg = <<>> \/ \E p \in Places : arg = <<p>>
      OBVIOUS
    <3>3. path = IF arg # <<>> THEN arg ELSE FirstPresent(<<"current", "currentLegacy">>)
      BY DEF resolveConfigPath
    <3> HIDE DEF path
    <3>4. QED
      BY <3>1, <3>2, <3>3, FirstFound
  <2>2. Absent.state = "absent" /\ Absent.value = Default[kind]
    BY DEF Absent, File
  <2>3. Default[kind] \in Written[kind]
    BY <1>1, LoadedMade
  <2>4. file.value \in Written[kind] /\ (path = <<>> => file.state # "whole") /\ (path # <<>> => file = files[path[1]])
    <3>1. CASE path = <<>>
      BY <2>2, <2>3, <3>1
    <3>2. CASE path # <<>>
      <4>1. PICK p \in Places : path = <<p>>
        BY <2>1, <3>2
      <4>2. path[1] = p
        <5> HIDE DEF path
        <5>1. QED
          BY <4>1
      <4>3. QED
        BY <1>2, <3>2, <4>2
    <3>3. QED
      BY <3>1, <3>2
  <2>5. /\ Layer(flag) /\ (flag # <<>> => flag[1] \in Written[kind])
        /\ Layer(env) /\ (env # <<>> => env[1] \in Written[kind])
    <3>1. flag \in Maybe(Values[kind]) /\ env \in Maybe(Values[kind])
      BY DEF Maybe
    <3>2. QED
      BY <1>1, <3>1, MaybeIs
  <2>6. Layer(said) /\ (said = <<>> <=> ~(file.state = "whole" /\ Says(file.value))) /\ (said # <<>> => said[1] = file.value)
    <3> HIDE DEF file
    <3>1. <<file.value>> # <<>> /\ <<file.value>>[1] = file.value
      OBVIOUS
    <3>2. QED
      BY <3>1 DEF Layer
  <2>7. Layer(set) /\ (set = <<>> <=> ~EnvSays(env)) /\ (set # <<>> => set = env)
    BY <2>5 DEF EnvSays, Layer
  <2>8. /\ r.value = value
        /\ r.starts <=> /\ readable
                        /\ ~Invalid(filed) /\ ~Invalid(laid) /\ ~Invalid(value)
                        /\ kind = "choice" => value # ""
    <3>1. filed = IF path = <<>> \/ ~readable THEN Default[kind] ELSE overlayFileConfig(Default[kind], file.value)
      <4> HIDE DEF path, file, said
      <4>1. QED
        BY <2>4, <2>6 DEF overlayFileConfig
    <3>2. laid = overlayEnvConfig(filed, env)
      <4> HIDE DEF filed, set
      <4>1. QED
        BY <2>7 DEF overlayEnvConfig
    <3> HIDE DEF filed, laid
    <3>3. r = [starts |-> /\ readable
                          /\ ~Invalid(filed) /\ ~Invalid(laid) /\ ~Invalid(value)
                          /\ kind = "choice" => value # "",
               value |-> value]
      <4>1. path # <<>> => (readable <=> files[path[1]].state = "whole")
        BY <2>4
      <4>2. path # <<>> => overlayFileConfig(Default[kind], file.value) = overlayFileConfig(Default[kind], files[path[1]].value)
        BY <2>4
      <4> HIDE DEF path
      <4>3. QED
        BY <3>1, <3>2, <4>1, <4>2 DEF loadConfig, path
    <3> HIDE DEF r, value, readable
    <3>4. QED
      BY <3>3
  <2>9. /\ given = <<>> <=> flag = <<>> /\ set = <<>> /\ said = <<>>
        /\ given # <<>> => given[1] = IF flag # <<>> THEN flag[1] ELSE IF set # <<>> THEN set[1] ELSE said[1]
        /\ (\A i \in DOMAIN given : given[i] \in Valid) <=>
             /\ flag = <<>> \/ flag[1] \in Valid
             /\ set = <<>> \/ set[1] \in Valid
             /\ said = <<>> \/ said[1] \in Valid
        /\ (\A i \in DOMAIN given : given[i] \in Written[kind]) <=>
             /\ flag = <<>> \/ flag[1] \in Written[kind]
             /\ set = <<>> \/ set[1] \in Written[kind]
             /\ said = <<>> \/ said[1] \in Written[kind]
    <3>1. Layer(flag) /\ Layer(set) /\ Layer(said)
      BY <2>5, <2>6, <2>7
    <3>2. PICK W : W = Written[kind]
      OBVIOUS
    <3> HIDE DEF set, said, Valid
    <3>3. /\ given = <<>> <=> flag = <<>> /\ set = <<>> /\ said = <<>>
          /\ given # <<>> => given[1] = IF flag # <<>> THEN flag[1] ELSE IF set # <<>> THEN set[1] ELSE said[1]
          /\ \A S : (\A i \in DOMAIN given : given[i] \in S) <=>
                      /\ flag = <<>> \/ flag[1] \in S
                      /\ set = <<>> \/ set[1] \in S
                      /\ said = <<>> \/ said[1] \in S
      BY <3>1, Layers, ZenonT(60)
    <3> HIDE DEF given
    <3>4. QED
      BY <3>2, <3>3
  <2>10. ASSUME NEW v \in Written[kind]
         PROVE  /\ ~Invalid(Default[kind]) /\ (kind = "choice" => Default[kind] # "")
                /\ Invalid(Parsed(v)) <=> Invalid(v)
                /\ kind = "choice" => (Says(v) <=> v # "") /\ Parsed(v) = v
    BY <1>1, ParsedIs
  <2>11. /\ said # <<>> => said[1] \in Written[kind] /\ Says(said[1])
         /\ set # <<>> => set[1] \in Written[kind] /\ Says(set[1])
    BY <2>4, <2>5, <2>6, <2>7 DEF EnvSays
  <2> HIDE DEF path, file, set, said, given, r
  <2>12. value = IF given = <<>> THEN Default[kind] ELSE Parsed(given[1])
    BY <2>9
  <2>13. (~Invalid(filed) /\ ~Invalid(laid) /\ ~Invalid(value)) <=> \A i \in DOMAIN given : given[i] \in Valid
    <3>1. ~Invalid(filed) <=> (said = <<>> \/ said[1] \in Valid)
      BY <2>3, <2>10, <2>11
    <3>2. set # <<>> => (~Invalid(laid) <=> set[1] \in Valid)
      BY <2>10, <2>11
    <3>3. flag # <<>> => (~Invalid(value) <=> flag[1] \in Valid)
      BY <2>5, <2>10
    <3>4. (set = <<>> => laid = filed) /\ (flag = <<>> => value = laid)
      OBVIOUS
    <3> HIDE DEF filed, laid, value, Valid
    <3>5. QED
      BY <2>9, <3>1, <3>2, <3>3, <3>4
  <2>14. kind = "choice" => (value # "" <=> flag # <<"">>)
    <3> SUFFICES ASSUME kind = "choice" PROVE value # "" <=> flag # <<"">>
      OBVIOUS
    <3>1. filed # ""
      BY <2>3, <2>10, <2>11
    <3>2. laid # ""
      <4> HIDE DEF filed
      <4>1. QED
        BY <2>10, <2>11, <3>1
    <3> HIDE DEF laid
    <3>3. CASE flag = <<>>
      BY <3>2, <3>3
    <3>4. CASE flag # <<>>
      <4>1. flag = <<flag[1]>> /\ value = flag[1]
        BY <2>5, <2>10, <3>4 DEF Layer
      <4>2. <<"">>[1] = ""
        OBVIOUS
      <4> HIDE DEF value
      <4>3. QED
        BY <4>1, <4>2
    <3>5. QED
      BY <3>3, <3>4
  <2>15. (\A i \in DOMAIN given : given[i] \in Valid) <=> \A i \in DOMAIN given : ~Invalid(given[i])
    BY <2>5, <2>9, <2>11
  <2> HIDE DEF readable, filed, laid, value, Valid
  <2>16. /\ r.starts => r.value = IF given = <<>> THEN Default[kind] ELSE Parsed(given[1])
         /\ r.starts <=> /\ path = <<>> \/ file.state = "whole"
                         /\ \A i \in DOMAIN given : ~Invalid(given[i])
                         /\ kind = "choice" => flag # <<"">>
    BY <2>8, <2>12, <2>13, <2>14, <2>15 DEF readable
  <2>17. QED
    BY <2>16 DEF path, file, set, said, given, r
<1>4. files["own"] = Whole(cfg) =>
        LET own == loadConfig(<<"own">>, <<>>, <<>>, <<>>)
            blank == kind \in {"text", "choice"} /\ Trim(cfg) = ""
        IN  /\ own.starts <=> ~Invalid(cfg)
            /\ own.starts => Effective(own.value) = IF blank \/ Cleared(cfg) THEN Default[kind] ELSE Effective(cfg)
  <2> SUFFICES ASSUME files["own"] = Whole(cfg)
               PROVE  LET own == loadConfig(<<"own">>, <<>>, <<>>, <<>>)
                          blank == kind \in {"text", "choice"} /\ Trim(cfg) = ""
                      IN  /\ own.starts <=> ~Invalid(cfg)
                          /\ own.starts => Effective(own.value) = IF blank \/ Cleared(cfg) THEN Default[kind] ELSE Effective(cfg)
    OBVIOUS
  <2> DEFINE own == loadConfig(<<"own">>, <<>>, <<>>, <<>>)
             value == overlayFileConfig(Default[kind], cfg)
             blank == kind \in {"text", "choice"} /\ Trim(cfg) = ""
  <2>1. files["own"].state = "whole" /\ files["own"].value = cfg
    BY DEF Whole, File
  <2>2. resolveConfigPath(<<"own">>, <<>>) = <<"own">> /\ <<"own">> # <<>> /\ <<"own">>[1] = "own"
    BY DEF resolveConfigPath
  <2>3. overlayEnvConfig(value, <<>>) = value
    BY DEF overlayEnvConfig, EnvSays
  <2>4. own = [starts |-> ~Invalid(value) /\ (kind = "choice" => value # ""), value |-> value]
    <3> HIDE DEF value
    <3>1. own = [starts |-> TRUE /\ (~Invalid(value) /\ ~Invalid(value) /\ ~Invalid(value)) /\ (kind = "choice" => value # ""),
                 value |-> value]
      BY <2>1, <2>2, <2>3 DEF loadConfig, value
    <3>2. QED
      BY <3>1
  <2>5. value = IF Says(cfg) THEN Parsed(cfg) ELSE Default[kind]
    BY DEF overlayFileConfig
  <2>6. /\ ~Invalid(Default[kind]) /\ (kind = "choice" => Default[kind] # "")
        /\ Invalid(Parsed(cfg)) <=> Invalid(cfg)
        /\ kind = "choice" => (Says(cfg) <=> cfg # "") /\ Parsed(cfg) = cfg
    BY <1>1, ParsedIs
  <2>7. own.starts <=> ~Invalid(value) /\ (kind = "choice" => value # "")
    <3> HIDE DEF own, value
    <3>1. QED
      BY <2>4
  <2>8. own.value = value
    <3> HIDE DEF own, value
    <3>1. QED
      BY <2>4
  <2> HIDE DEF own
  <2>9. kind = "choice" => cfg # ""
    <3>1. Held.choice = {"auto", "reuse", "odd"}
      BY DEF Held
    <3>2. QED
      BY <1>1, <3>1
  <2>10. Effective(value) = IF blank \/ Cleared(cfg) THEN Default[kind] ELSE Effective(cfg)
    <3>1. /\ Held.text = Known /\ Held.count = Nat /\ Held.seconds = Nat /\ Held.switch = {"on", "off"} /\ Held.list = Seq(Known)
      BY DEF Held
    <3>2. CASE kind = "list"
      <4>1. cfg \in Seq(Known)
        BY <1>1, <3>1, <3>2
      <4>2. ~blank /\ (Cleared(cfg) <=> cfg = <<>>) /\ Parsed(cfg) = cleanStringSlice(cfg) /\ (Says(cfg) <=> cfg # <<>>)
        BY <3>2 DEF Cleared, Parsed, Says
      <4>3. Default[kind] = Default.list
        BY <3>2
      <4>4. \A v : Effective(v) = IF cleanStringSlice(v) = <<>> THEN Default.list ELSE cleanStringSlice(v)
        BY <3>2 DEF Effective
      <4> HIDE DEF value, blank
      <4>5. QED
        BY <2>5, <4>1, <4>2, <4>3, <4>4, Cleaned
    <3>3. CASE kind = "text"
      <4>1. (blank <=> Trim(cfg) = "") /\ (Cleared(cfg) <=> cfg = "") /\ Parsed(cfg) = Trim(cfg) /\ (Says(cfg) <=> Trim(cfg) # "")
        BY <3>3 DEF Cleared, Parsed, Says
      <4>2. (\A v : Effective(v) = v) /\ (Trim(cfg) = "" \/ Trim(cfg) = cfg) /\ (cfg = "" => Trim(cfg) = "")
        BY <3>3 DEF Effective, Trim
      <4> HIDE DEF value, blank
      <4>3. QED
        BY <2>5, <4>1, <4>2
    <3>4. CASE kind = "choice"
      <4>1. Trim(cfg) # ""
        BY <1>1, <2>9, <3>4 DEF Trim, Held
      <4>2. ~blank /\ ~Cleared(cfg) /\ value = cfg
        BY <2>5, <2>6, <2>9, <3>4, <4>1 DEF Cleared
      <4> HIDE DEF value, blank
      <4>3. QED
        BY <4>2
    <3>5. CASE kind \in {"count", "seconds", "switch"}
      <4>1. ~blank /\ Parsed(cfg) = cfg /\ \A v : Effective(v) = v
        BY <3>5 DEF Parsed, Effective
      <4>2. Cleared(cfg) <=> ~Says(cfg)
        <5>1. CASE kind = "count"
          BY <1>1, <3>1, <5>1 DEF Cleared, Says
        <5>2. CASE kind = "seconds"
          BY <1>1, <3>1, <5>2 DEF Cleared, Says
        <5>3. CASE kind = "switch"
          BY <1>1, <3>1, <5>3 DEF Cleared, Says
        <5>4. QED
          BY <3>5, <5>1, <5>2, <5>3
      <4> HIDE DEF value, blank
      <4>3. QED
        BY <2>5, <4>1, <4>2
    <3>6. QED
      BY <1>1, <3>2, <3>3, <3>4, <3>5 DEF Kinds
  <2>11. Invalid(value) <=> Invalid(cfg)
    <3> HIDE DEF value
    <3>1. QED
      BY <2>5, <2>6, <2>9 DEF Invalid
  <2>12. kind = "choice" => value # ""
    BY <2>5, <2>6, <2>9
  <2> HIDE DEF value
  <2>13. QED
    BY <2>7, <2>8, <2>10, <2>11, <2>12 DEF own
<1>5. QED
  BY <1>3, <1>4 DEF Precedence

(* What the user chose last is what the app and every later start serve,   *)
(* whatever becomes of the saves between (app.go 457-534, 2066-2180): for  *)
(* any words, ports, timeouts and lists.                                   *)
THEOREM SavedTheorem == SettingsSpec => []SavedSurvives
BY ChoiceSurvives, SettingsInitially, SettingsStep, PTL DEF SettingsSpec

(* Of flag, environment and file the highest that gives the setting        *)
(* decides, and an invalid or unreadable one below it keeps the program    *)
(* from starting (main.go 104-193).                                        *)
THEOREM PrecedenceTheorem == SettingsSpec => []Precedence
BY HighestDecides, SettingsInitially, SettingsStep, PTL DEF SettingsSpec
=============================================================================
