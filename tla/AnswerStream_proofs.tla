------------------------- MODULE AnswerStream_proofs -------------------------
(* Proofs about AnswerStream: what the three formats write is well formed, *)
(* in order and complete, and the final response lists what was streamed,  *)
(* for any number of deltas and calls and any tail held back by the        *)
(* filter. A stream is followed through stretches of events: what each     *)
(* makes of the blocks that are open (Goes), of the items that are done    *)
(* (Adds), and of the text that is out (Pens).                             *)
EXTENDS AnswerStream, FoldTheorems, SequenceTheorems, TLAPS

-----------------------------------------------------------------------------
OpenIn(o, j) ==
  \E s \in DOMAIN o :
    /\ o[s].what = "start" /\ s < j /\ o[s].index = o[j].index /\ o[s].item = o[j].item
    /\ \A t \in DOMAIN o : o[t].what = "stop" /\ o[t].index = o[j].index => t < s \/ t >= j

(* A stream so far: what it has started is among S, and of that O is open. *)
Told(o, S, O) ==
  /\ IsList(o)
  /\ \A j \in DOMAIN o : o[j].what \in {"start", "delta", "stop"}
  /\ \A j \in DOMAIN o : o[j].what # "start" => OpenIn(o, j)
  /\ \A i, j \in DOMAIN o :
       o[i].what = "start" /\ o[j].what = "start" /\ i # j /\ o[i].index = o[j].index =>
         o[i].item = "thinking" /\ o[j].item = "thinking"
  /\ \A j \in DOMAIN o : o[j].what = "start" =>
       /\ <<o[j].index, o[j].item>> \in S
       /\ \/ <<o[j].index, o[j].item>> \in O
          \/ \E t \in DOMAIN o : o[t].what = "stop" /\ o[t].index = o[j].index /\ t > j
  /\ \A p \in O : \E s \in DOMAIN o :
       /\ o[s].what = "start" /\ o[s].index = p[1] /\ o[s].item = p[2]
       /\ \A t \in DOMAIN o : o[t].what = "stop" /\ o[t].index = p[1] => t < s

(* A stream that has begun nothing.                                        *)
LEMMA ToldNothing == ASSUME NEW S PROVE Told(<<>>, S, {})
BY EmptyList DEF Told

(* What is open, or not, stays so up to there.                             *)
LEMMA OpenStays ==
  ASSUME NEW o, IsList(o), NEW e, NEW j \in DOMAIN o, OpenIn(o, j)
  PROVE  OpenIn(o \o <<e>>, j)
<1> DEFINE u == o \o <<e>>
           n == Len(o)
<1>1. /\ n \in Nat /\ DOMAIN o = 1 .. n /\ DOMAIN u = 1 .. n + 1
      /\ \A i \in 1 .. n : u[i] = o[i]
      /\ \A i \in 1 .. n + 1 : i = n + 1 \/ i \in 1 .. n
      /\ \A i \in 1 .. n : i \in 1 .. n + 1 /\ i # n + 1 /\ i < n + 1
  BY OneMore
<1> HIDE DEF u, n
<1>2. PICK s \in DOMAIN o :
        /\ o[s].what = "start" /\ s < j /\ o[s].index = o[j].index /\ o[s].item = o[j].item
        /\ \A t \in DOMAIN o : o[t].what = "stop" /\ o[t].index = o[j].index => t < s \/ t >= j
  BY DEF OpenIn
<1>3. \A t \in DOMAIN u : u[t].what = "stop" /\ u[t].index = u[j].index => t < s \/ t >= j
  BY <1>1, <1>2
<1>4. OpenIn(u, j)
  BY <1>1, <1>2, <1>3 DEF OpenIn
<1>5. QED
  BY <1>4 DEF u

(* A start of what has not been started, unless it is thinking again.      *)
LEMMA ToldStart ==
  ASSUME NEW o, NEW S, NEW O, Told(o, S, O), NEW index, NEW item,
         \A p \in S : p[1] = index => p[2] = "thinking" /\ item = "thinking"
  PROVE  Told(o \o <<Start(index, item)>>, S \cup {<<index, item>>}, O \cup {<<index, item>>})
<1> DEFINE e == Start(index, item)
           u == o \o <<e>>
           n == Len(o)
<1>1. IsList(o)
  BY DEF Told
<1>2. /\ IsList(u) /\ n \in Nat /\ DOMAIN o = 1 .. n /\ DOMAIN u = 1 .. n + 1
      /\ u[n + 1] = e /\ \A i \in 1 .. n : u[i] = o[i]
      /\ \A i \in 1 .. n + 1 : i = n + 1 \/ i \in 1 .. n
      /\ \A i \in 1 .. n : i \in 1 .. n + 1 /\ i # n + 1 /\ i < n + 1
      /\ n + 1 \in 1 .. n + 1
  BY <1>1, OneMore
<1>3. e.what = "start" /\ e.index = index /\ e.item = item
  BY DEF Start, Event
<1>4. \A j \in DOMAIN o : OpenIn(o, j) => OpenIn(u, j)
  BY <1>1, OpenStays
<1> HIDE DEF u, e, n
<1> USE DEF Told
<1>5. \A j \in DOMAIN u : u[j].what \in {"start", "delta", "stop"} /\ (u[j].what # "start" => OpenIn(u, j))
  BY <1>2, <1>3, <1>4
<1>6. ASSUME NEW i \in DOMAIN u, NEW j \in DOMAIN u,
             u[i].what = "start", u[j].what = "start", i # j, u[i].index = u[j].index
      PROVE  u[i].item = "thinking" /\ u[j].item = "thinking"
  <2>1. CASE i \in 1 .. n /\ j \in 1 .. n
    BY <1>2, <1>6, <2>1
  <2>2. ASSUME NEW k \in 1 .. n, o[k].what = "start", o[k].index = index
        PROVE  o[k].item = "thinking" /\ item = "thinking"
    <3>1. <<o[k].index, o[k].item>> \in S
      BY <1>2, <2>2
    <3>2. QED
      BY <2>2, <3>1
  <2>3. QED
    BY <1>2, <1>3, <1>6, <2>1, <2>2
<1>7. ASSUME NEW j \in DOMAIN u, u[j].what = "start"
      PROVE  /\ <<u[j].index, u[j].item>> \in S \cup {<<index, item>>}
             /\ \/ <<u[j].index, u[j].item>> \in O \cup {<<index, item>>}
                \/ \E t \in DOMAIN u : u[t].what = "stop" /\ u[t].index = u[j].index /\ t > j
  <2>1. CASE j = n + 1
    BY <1>2, <1>3, <2>1
  <2>2. CASE j \in 1 .. n
    BY <1>2, <1>7, <2>2
  <2>3. QED
    BY <1>2, <2>1, <2>2
<1>8. ASSUME NEW p \in O \cup {<<index, item>>}
      PROVE  \E s \in DOMAIN u :
               /\ u[s].what = "start" /\ u[s].index = p[1] /\ u[s].item = p[2]
               /\ \A t \in DOMAIN u : u[t].what = "stop" /\ u[t].index = p[1] => t < s
  <2>1. CASE p \in O
    BY <1>2, <1>3, <2>1
  <2>2. CASE p = <<index, item>>
    <3>1. \A t \in DOMAIN u : u[t].what = "stop" => t < n + 1
      BY <1>2, <1>3
    <3>2. QED
      BY <1>2, <1>3, <2>2, <3>1
  <2>3. QED
    BY <2>1, <2>2
<1>9. Told(u, S \cup {<<index, item>>}, O \cup {<<index, item>>})
  BY <1>2, <1>5, <1>6, <1>7, <1>8
<1>10. QED
  BY <1>9 DEF u, e

(* A delta of what is open.                                                *)
LEMMA ToldDelta ==
  ASSUME NEW o, NEW S, NEW O, Told(o, S, O), NEW index, NEW item, <<index, item>> \in O, NEW content
  PROVE  Told(o \o <<Delta(index, item, content)>>, S, O)
<1> DEFINE e == Delta(index, item, content)
           u == o \o <<e>>
           n == Len(o)
<1>1. IsList(o)
  BY DEF Told
<1>2. /\ IsList(u) /\ n \in Nat /\ DOMAIN o = 1 .. n /\ DOMAIN u = 1 .. n + 1
      /\ u[n + 1] = e /\ \A i \in 1 .. n : u[i] = o[i]
      /\ \A i \in 1 .. n + 1 : i = n + 1 \/ i \in 1 .. n
      /\ \A i \in 1 .. n : i \in 1 .. n + 1 /\ i # n + 1 /\ i < n + 1
      /\ n + 1 \in 1 .. n + 1
  BY <1>1, OneMore
<1>3. e.what = "delta" /\ e.index = index /\ e.item = item
  BY DEF Delta, Event
<1>4. \A j \in DOMAIN o : OpenIn(o, j) => OpenIn(u, j)
  BY <1>1, OpenStays
<1> HIDE DEF u, e, n
<1> USE DEF Told
<1>5. OpenIn(u, n + 1)
  <2>1. PICK s \in DOMAIN o :
          /\ o[s].what = "start" /\ o[s].index = index /\ o[s].item = item
          /\ \A t \in DOMAIN o : o[t].what = "stop" /\ o[t].index = index => t < s
    BY <<index, item>>[1] = index, <<index, item>>[2] = item
  <2>2. \A t \in DOMAIN u : u[t].what = "stop" /\ u[t].index = index => t < s
    BY <1>2, <1>3, <2>1
  <2>3. QED
    BY <1>2, <1>3, <2>1, <2>2 DEF OpenIn
<1>6. \A j \in DOMAIN u : u[j].what \in {"start", "delta", "stop"} /\ (u[j].what # "start" => OpenIn(u, j))
  BY <1>2, <1>3, <1>4, <1>5
<1>7. \A i, j \in DOMAIN u :
        u[i].what = "start" /\ u[j].what = "start" /\ i # j /\ u[i].index = u[j].index =>
          u[i].item = "thinking" /\ u[j].item = "thinking"
  BY <1>2, <1>3
<1>8. \A j \in DOMAIN u : u[j].what = "start" =>
        /\ <<u[j].index, u[j].item>> \in S
        /\ \/ <<u[j].index, u[j].item>> \in O
           \/ \E t \in DOMAIN u : u[t].what = "stop" /\ u[t].index = u[j].index /\ t > j
  BY <1>2, <1>3
<1>9. \A p \in O : \E s \in DOMAIN u :
        /\ u[s].what = "start" /\ u[s].index = p[1] /\ u[s].item = p[2]
        /\ \A t \in DOMAIN u : u[t].what = "stop" /\ u[t].index = p[1] => t < s
  BY <1>2, <1>3
<1>10. Told(u, S, O)
  BY <1>2, <1>6, <1>7, <1>8, <1>9
<1>11. QED
  BY <1>10 DEF u, e

(* A stop of what is open: nothing of its index stays open.                *)
LEMMA ToldStop ==
  ASSUME NEW o, NEW S, NEW O, Told(o, S, O), NEW index, NEW item, <<index, item>> \in O
  PROVE  Told(o \o <<Stop(index, item)>>, S, {p \in O : p[1] # index})
<1> DEFINE e == Stop(index, item)
           u == o \o <<e>>
           n == Len(o)
           R == {p \in O : p[1] # index}
<1>1. IsList(o)
  BY DEF Told
<1>2. /\ IsList(u) /\ n \in Nat /\ DOMAIN o = 1 .. n /\ DOMAIN u = 1 .. n + 1
      /\ u[n + 1] = e /\ \A i \in 1 .. n : u[i] = o[i]
      /\ \A i \in 1 .. n + 1 : i = n + 1 \/ i \in 1 .. n
      /\ \A i \in 1 .. n : i \in 1 .. n + 1 /\ i # n + 1 /\ i < n + 1
      /\ n + 1 \in 1 .. n + 1
  BY <1>1, OneMore
<1>3. e.what = "stop" /\ e.index = index /\ e.item = item
  BY DEF Stop, Event
<1>4. \A j \in DOMAIN o : OpenIn(o, j) => OpenIn(u, j)
  BY <1>1, OpenStays
<1> HIDE DEF u, e, n
<1> USE DEF Told
<1>5. OpenIn(u, n + 1)
  <2>1. PICK s \in DOMAIN o :
          /\ o[s].what = "start" /\ o[s].index = index /\ o[s].item = item
          /\ \A t \in DOMAIN o : o[t].what = "stop" /\ o[t].index = index => t < s
    BY <<index, item>>[1] = index, <<index, item>>[2] = item
  <2>2. \A t \in DOMAIN u : u[t].what = "stop" /\ u[t].index = index => t < s \/ t >= n + 1
    BY <1>2, <1>3, <2>1
  <2>3. QED
    BY <1>2, <1>3, <2>1, <2>2 DEF OpenIn
<1>6. \A j \in DOMAIN u : u[j].what \in {"start", "delta", "stop"} /\ (u[j].what # "start" => OpenIn(u, j))
  BY <1>2, <1>3, <1>4, <1>5
<1>7. \A i, j \in DOMAIN u :
        u[i].what = "start" /\ u[j].what = "start" /\ i # j /\ u[i].index = u[j].index =>
          u[i].item = "thinking" /\ u[j].item = "thinking"
  BY <1>2, <1>3
<1>8. ASSUME NEW j \in DOMAIN u, u[j].what = "start"
      PROVE  /\ <<u[j].index, u[j].item>> \in S
             /\ \/ <<u[j].index, u[j].item>> \in R
                \/ \E t \in DOMAIN u : u[t].what = "stop" /\ u[t].index = u[j].index /\ t > j
  <2>1. j \in 1 .. n /\ u[j] = o[j] /\ j < n + 1
    BY <1>2, <1>3, <1>8
  <2>2. CASE u[j].index = index
    BY <1>2, <1>3, <1>8, <2>1, <2>2
  <2>3. CASE u[j].index # index
    BY <1>2, <1>8, <2>1, <2>3
  <2>4. QED
    BY <2>2, <2>3
<1>9. ASSUME NEW p \in R
      PROVE  \E s \in DOMAIN u :
        /\ u[s].what = "start" /\ u[s].index = p[1] /\ u[s].item = p[2]
        /\ \A t \in DOMAIN u : u[t].what = "stop" /\ u[t].index = p[1] => t < s
  BY <1>2, <1>3
<1> HIDE DEF R
<1>10. Told(u, S, R)
  BY <1>2, <1>6, <1>7, <1>8, <1>9
<1>11. QED
  BY <1>10 DEF u, e, R

-----------------------------------------------------------------------------
(* What some events more make of a stream: from S and O to S2 and O2.      *)
Goes(S, O, x, S2, O2) == IsList(x) /\ \A o : Told(o, S, O) => Told(o \o x, S2, O2)

(* No event changes nothing.                                               *)
LEMMA GoesNowhere ==
  ASSUME NEW S, NEW O PROVE Goes(S, O, <<>>, S, O)
<1>1. IsList(<<>>)
  BY EmptyList
<1>2. ASSUME NEW o, Told(o, S, O) PROVE Told(o \o <<>>, S, O)
  <2>1. o \o <<>> = o
    BY <1>2, EmptyList DEF Told
  <2>2. QED
    BY <1>2, <2>1
<1>3. QED
  BY <1>1, <1>2 DEF Goes

(* One stretch of events after another.                                    *)
LEMMA GoesOn ==
  ASSUME NEW S, NEW O, NEW x, NEW S2, NEW O2, Goes(S, O, x, S2, O2),
         NEW y, NEW S3, NEW O3, Goes(S2, O2, y, S3, O3)
  PROVE  Goes(S, O, x \o y, S3, O3)
<1>1. IsList(x) /\ IsList(y)
  BY DEF Goes
<1>2. IsList(x \o y)
  BY <1>1, JoinIsList DEF Joined
<1>3. ASSUME NEW o, Told(o, S, O) PROVE Told(o \o (x \o y), S3, O3)
  <2>1. Told((o \o x) \o y, S3, O3)
    BY <1>3 DEF Goes
  <2>2. IsList(o)
    BY <1>3 DEF Told
  <2>3. o \o (x \o y) = (o \o x) \o y
    BY <1>1, <2>2, JoinAssociates
  <2>4. QED
    BY <2>1, <2>3
<1>4. QED
  BY <1>2, <1>3 DEF Goes

(* A start, as a stretch of one event.                                     *)
LEMMA GoesStart ==
  ASSUME NEW S, NEW O, NEW index, NEW item, \A p \in S : p[1] = index => p[2] = "thinking" /\ item = "thinking"
  PROVE  Goes(S, O, <<Start(index, item)>>, S \cup {<<index, item>>}, O \cup {<<index, item>>})
BY ListOfOne, ToldStart DEF Goes

(* A delta, as a stretch of one event.                                     *)
LEMMA GoesDelta ==
  ASSUME NEW S, NEW O, NEW index, NEW item, <<index, item>> \in O, NEW content
  PROVE  Goes(S, O, <<Delta(index, item, content)>>, S, O)
BY ListOfOne, ToldDelta DEF Goes

(* A stop, as a stretch of one event.                                      *)
LEMMA GoesStop ==
  ASSUME NEW S, NEW O, NEW index, NEW item, <<index, item>> \in O
  PROVE  Goes(S, O, <<Stop(index, item)>>, S, {p \in O : p[1] # index})
BY ListOfOne, ToldStop DEF Goes

(* Three events, one after the other.                                      *)
LEMMA ThreeEvents ==
  ASSUME NEW a, NEW b, NEW c
  PROVE  <<a, b, c>> = (<<a>> \o <<b>>) \o <<c>>
<1> DEFINE T == {a, b, c}
           s == <<a, b, c>>
           t == (<<a>> \o <<b>>) \o <<c>>
<1>1. <<a>> \in Seq(T) /\ <<b>> \in Seq(T) /\ <<c>> \in Seq(T) /\ s \in Seq(T) /\ t \in Seq(T)
  OBVIOUS
<1>2. Len(s) = 3 /\ s[1] = a /\ s[2] = b /\ s[3] = c
  OBVIOUS
<1>3. Len(t) = 3 /\ t[1] = a /\ t[2] = b /\ t[3] = c
  <2> DEFINE u == <<a>> \o <<b>>
  <2>1. u \in Seq(T) /\ Len(u) = 2 /\ u[1] = a /\ u[2] = b
    BY <1>1
  <2> DEFINE v == <<c>>
  <2>2. v \in Seq(T) /\ Len(v) = 1 /\ v[1] = c
    BY <1>1
  <2> HIDE DEF u, v, T
  <2>3. Len(u \o v) = 3 /\ (u \o v)[1] = a /\ (u \o v)[2] = b /\ (u \o v)[3] = c
    BY <2>1, <2>2, ConcatProperties, SMTT(30)
  <2>4. QED
    BY <2>3 DEF u, v
<1> HIDE DEF s, t, T
<1>4. s = t
  BY <1>1, <1>2, <1>3, SeqEqual
<1>5. QED
  BY <1>4 DEF s, t

(* A block is started, written and stopped.                                *)
LEMMA GoesBlock ==
  ASSUME NEW S, NEW index, NEW item, \A p \in S : p[1] = index => p[2] = "thinking" /\ item = "thinking",
         NEW content
  PROVE  Goes(S, {}, Block(index, item, content), S \cup {<<index, item>>}, {})
<1> DEFINE p == <<index, item>>
           T == S \cup {p}
           a == Start(index, item)
           b == Delta(index, item, content)
           c == Stop(index, item)
<1>1. Goes(S, {}, <<a>>, T, {} \cup {p})
  BY GoesStart
<1>2. {} \cup {p} = {p} /\ {q \in {p} : q[1] # index} = {} /\ <<index, item>> \in {p}
  OBVIOUS
<1>3. Goes(T, {p}, <<b>>, T, {p})
  <2> HIDE DEF p
  <2>1. QED
    BY <1>2, GoesDelta
<1>4. Goes(T, {p}, <<c>>, T, {})
  <2> HIDE DEF p
  <2>1. Goes(T, {p}, <<c>>, T, {q \in {p} : q[1] # index})
    BY <1>2, GoesStop
  <2>2. QED
    BY <1>2, <2>1
<1> HIDE DEF p, T, a, b, c
<1>5. Goes(S, {}, <<a>> \o <<b>>, T, {p})
  BY <1>1, <1>2, <1>3, GoesOn
<1>6. Goes(S, {}, (<<a>> \o <<b>>) \o <<c>>, T, {})
  BY <1>4, <1>5, GoesOn
<1>7. Block(index, item, content) = (<<a>> \o <<b>>) \o <<c>>
  BY ThreeEvents DEF Block, a, b, c
<1>8. QED
  BY <1>6, <1>7 DEF T, p

(* Tool blocks, numbered after everything else.                            *)
LEMMA ToolsNone == ASSUME NEW from \in Nat PROVE Tools(from, 0) = <<>>
<1>1. [i \in 1 .. 0 |-> Block(from + i - 1, "tool", <<"call">>)] = <<>>
  OBVIOUS
<1>2. QED
  BY <1>1 DEF Tools, FlattenSeq

ToolEvents == UNION {{Start(i, "tool"), Delta(i, "tool", <<"call">>), Stop(i, "tool")} : i \in Nat}

(* The tool blocks are those of one call after the other.                  *)
LEMMA ToolBlocks ==
  ASSUME NEW from \in Nat, NEW n \in Nat
  PROVE  \E f \in [0 .. n -> Seq(ToolEvents)] :
           /\ f[0] = <<>> /\ f[n] = Tools(from, n)
           /\ \A k \in 1 .. n : f[k] = f[k - 1] \o Block(from + k - 1, "tool", <<"call">>)
<1> DEFINE block(k) == Block(from + k - 1, "tool", <<"call">>)
           E == [k \in 1 .. n |-> block(k)]
           T == ToolEvents
<1>1. \A k \in 1 .. n : block(k) \in Seq(T)
  <2> SUFFICES ASSUME NEW k \in 1 .. n PROVE block(k) \in Seq(T)
    OBVIOUS
  <2> DEFINE i == from + k - 1
  <2>1. i \in Nat
    OBVIOUS
  <2> HIDE DEF i
  <2>2. Start(i, "tool") \in T /\ Delta(i, "tool", <<"call">>) \in T /\ Stop(i, "tool") \in T
    BY <2>1 DEF ToolEvents
  <2> HIDE DEF T
  <2>3. block(k) = <<Start(i, "tool"), Delta(i, "tool", <<"call">>), Stop(i, "tool")>>
    BY DEF Block, i
  <2> DEFINE a == Start(i, "tool")
             b == Delta(i, "tool", <<"call">>)
             c == Stop(i, "tool")
  <2>4. a \in T /\ b \in T /\ c \in T /\ block(k) = <<a, b, c>>
    BY <2>2, <2>3
  <2> HIDE DEF a, b, c
  <2>5. <<a, b, c>> \in Seq(T)
    BY <2>4
  <2>6. QED
    BY <2>4, <2>5
<1> HIDE DEF T, block
<1>2. E \in Seq(Seq(T)) /\ Len(E) = n
  BY <1>1
<1>3. Tools(from, n) = FlattenSeq(E)
  BY DEF Tools, block
<1>4. \A k \in 1 .. n : E[k] = block(k)
  OBVIOUS
<1> HIDE DEF E
<1>5. PICK f \in [0 .. Len(E) -> Seq(T)] :
        /\ f[0] = <<>> /\ f[Len(E)] = FlattenSeq(E)
        /\ \A k \in 1 .. Len(E) : f[k] = f[k - 1] \o E[k]
  BY <1>2, FlattenSteps
<1>6. f \in [0 .. n -> Seq(T)] /\ f[0] = <<>> /\ f[n] = Tools(from, n) /\ \A k \in 1 .. n : f[k] = f[k - 1] \o block(k)
  BY <1>2, <1>3, <1>4, <1>5
<1>7. QED
  BY <1>6 DEF block, T

(* Tool blocks numbered after everything that was begun.                   *)
LEMMA GoesTools ==
  ASSUME NEW S, NEW from \in Nat, \A p \in S : p[1] \in Nat /\ p[1] < from, NEW n \in Nat
  PROVE  \E S2 : Goes(S, {}, Tools(from, n), S2, {})
<1> DEFINE block(k) == Block(from + k - 1, "tool", <<"call">>)
           Up(k) == S \cup {<<i, "tool">> : i \in from .. from + k - 1}
<1>2. PICK f \in [0 .. n -> Seq(ToolEvents)] :
        f[0] = <<>> /\ f[n] = Tools(from, n) /\ \A k \in 1 .. n : f[k] = f[k - 1] \o block(k)
  BY ToolBlocks
<1>3. Up(0) = S
  OBVIOUS
<1>4. ASSUME NEW k \in 1 .. n PROVE Goes(Up(k - 1), {}, block(k), Up(k), {})
  <2> DEFINE at == from + k - 1
  <2>1. at \in Nat /\ \A p \in Up(k - 1) : p[1] # at
    OBVIOUS
  <2>2. Up(k) = Up(k - 1) \cup {<<at, "tool">>}
    <3>1. k \in Int /\ k >= 1
      OBVIOUS
    <3>2. at \in Int /\ at >= from /\ from + (k - 1) - 1 = at - 1
      BY <3>1
    <3>3. from .. at = (from .. at - 1) \cup {at}
      <4> HIDE DEF at
      <4>1. QED
        BY <3>2
    <3>4. QED
      BY <3>2, <3>3
  <2> HIDE DEF Up, at
  <2>3. Goes(Up(k - 1), {}, Block(at, "tool", <<"call">>), Up(k - 1) \cup {<<at, "tool">>}, {})
    BY <2>1, GoesBlock
  <2>4. QED
    BY <2>2, <2>3 DEF at
<1> HIDE DEF block, Up
<1> DEFINE Done == {k \in 0 .. n : Goes(S, {}, f[k], Up(k), {})}
<1>5. 0 \in Done
  BY <1>2, <1>3, GoesNowhere
<1>6. ASSUME NEW k \in 1 .. n, k - 1 \in Done PROVE k \in Done
  <2>1. Goes(S, {}, f[k - 1] \o block(k), Up(k), {})
    BY <1>4, <1>6, GoesOn
  <2>2. f[k] = f[k - 1] \o block(k)
    BY <1>2
  <2>3. k \in 0 .. n
    OBVIOUS
  <2>4. QED
    BY <2>1, <2>2, <2>3
<1>7. n \in Done
  <2> HIDE DEF Done
  <2>1. 0 .. n \subseteq Done
    BY <1>5, <1>6, BoundedInduction
  <2>2. QED
    BY <2>1
<1>8. QED
  BY <1>2, <1>7

Deltas(index, item, d) == [i \in DOMAIN d |-> Delta(index, item, d[i])]

(* One delta for each piece of content.                                    *)
LEMMA DeltasAreList ==
  ASSUME NEW index, NEW item, NEW d, IsList(d)
  PROVE  /\ IsList(Deltas(index, item, d))
         /\ \A k \in 1 .. Len(Deltas(index, item, d)) : Deltas(index, item, d)[k] = Delta(index, item, d[k])
<1>1. PICK T : d \in Seq(T)
  BY DEF IsList
<1> DEFINE e == Deltas(index, item, d)
           n == Len(d)
<1>2. DOMAIN d = 1 .. n /\ n \in Nat /\ \A i \in 1 .. n : d[i] \in T
  BY <1>1
<1> HIDE DEF n
<1>3. e = [i \in 1 .. n |-> Delta(index, item, d[i])]
  BY <1>2 DEF Deltas
<1>4. e \in Seq({Delta(index, item, c) : c \in T}) /\ Len(e) = n /\ \A k \in 1 .. n : e[k] = Delta(index, item, d[k])
  BY <1>2, <1>3
<1> HIDE DEF e
<1>5. QED
  BY <1>4 DEF IsList, e

(* Deltas of a block that is open.                                         *)
LEMMA GoesDeltas ==
  ASSUME NEW S, NEW O, NEW index, NEW item, <<index, item>> \in O, NEW d, IsList(d)
  PROVE  Goes(S, O, Deltas(index, item, d), S, O)
<1> DEFINE e == Deltas(index, item, d)
           n == Len(e)
<1>1. IsList(e) /\ \A k \in 1 .. n : e[k] = Delta(index, item, d[k])
  BY DeltasAreList
<1>2. PICK f : n \in Nat /\ f[0] = <<>> /\ f[n] = e /\ \A k \in 1 .. n : f[k] = f[k - 1] \o <<e[k]>>
  <2> HIDE DEF e
  <2>1. QED
    BY <1>1, ListGrows
<1>3. \A k \in 1 .. n : e[k] = Delta(index, item, d[k])
  BY <1>1
<1> HIDE DEF e, n
<1> DEFINE Done == {k \in 0 .. n : Goes(S, O, f[k], S, O)}
<1>6. 0 \in Done
  BY <1>2, GoesNowhere
<1>7. ASSUME NEW k \in 1 .. n, k - 1 \in Done PROVE k \in Done
  <2>1. Goes(S, O, <<e[k]>>, S, O)
    BY <1>3, GoesDelta
  <2>2. Goes(S, O, f[k - 1] \o <<e[k]>>, S, O)
    BY <1>7, <2>1, GoesOn
  <2>3. Goes(S, O, f[k], S, O)
    BY <1>2, <2>2
  <2>4. k \in 0 .. n
    BY <1>2
  <2>5. QED
    BY <2>3, <2>4
<1>8. n \in Done
  <2> HIDE DEF Done
  <2>1. 0 .. n \subseteq Done
    BY <1>2, <1>6, <1>7, BoundedInduction
  <2>2. QED
    BY <1>2, <2>1
<1>9. QED
  BY <1>2, <1>8 DEF e

(* Thinking and text of the Anthropic format: whether there is reasoning,  *)
(* whether its block is open and whether the text's is.                    *)
At0(r) == IF r THEN 1 ELSE 0
Begun(r, x) == {p \in {<<0, "thinking">>} : r} \cup {p \in {<<At0(r), "text">>} : x}
Opened(r, h, x) == {p \in {<<0, "thinking">>} : h} \cup {p \in {<<At0(r), "text">>} : x}
ToThinking(h) == If(~h, <<Start(0, "thinking")>>) \o <<Delta(0, "thinking", <<"thinking">>)>>
ToText(r, h, x, d) ==
  If(h, <<Stop(0, "thinking")>>) \o If(~x, <<Start(At0(r), "text")>>) \o <<Delta(At0(r), "text", d)>>

(* A thinking delta, opening its block if it is not open.                  *)
LEMMA GoesThinking ==
  ASSUME NEW h \in BOOLEAN, NEW x \in BOOLEAN
  PROVE  Goes(Begun(TRUE, x), Opened(TRUE, h, x), ToThinking(h), Begun(TRUE, x), Opened(TRUE, TRUE, x))
<1>1. Goes(Begun(TRUE, x), Opened(TRUE, h, x), If(~h, <<Start(0, "thinking")>>), Begun(TRUE, x),
        Opened(TRUE, TRUE, x))
  <2>1. CASE h
    <3>1. If(~h, <<Start(0, "thinking")>>) = <<>> /\ Opened(TRUE, h, x) = Opened(TRUE, TRUE, x)
      BY <2>1 DEF If
    <3>2. QED
      BY <3>1, GoesNowhere
  <2>2. CASE ~h
    <3> DEFINE p == <<0, "thinking">>
    <3>1. If(~h, <<Start(0, "thinking")>>) = <<Start(0, "thinking")>>
      BY <2>2 DEF If
    <3>2. Begun(TRUE, x) = Begun(TRUE, x) \cup {p} /\ Opened(TRUE, TRUE, x) = Opened(TRUE, h, x) \cup {p}
      BY <2>2 DEF Begun, Opened, At0
    <3>3. \A q \in Begun(TRUE, x) : q[1] = 0 => q[2] = "thinking"
      BY DEF Begun, At0
    <3>4. Goes(Begun(TRUE, x), Opened(TRUE, h, x), <<Start(0, "thinking")>>, Begun(TRUE, x) \cup {p},
            Opened(TRUE, h, x) \cup {p})
      BY <3>3, GoesStart
    <3> HIDE DEF p
    <3>5. QED
      BY <3>1, <3>2, <3>4
  <2>3. QED
    BY <2>1, <2>2
<1>2. <<0, "thinking">> \in Opened(TRUE, TRUE, x)
  BY DEF Opened
<1>3. Goes(Begun(TRUE, x), Opened(TRUE, TRUE, x), <<Delta(0, "thinking", <<"thinking">>)>>, Begun(TRUE, x),
        Opened(TRUE, TRUE, x))
  BY <1>2, GoesDelta
<1>4. QED
  BY <1>1, <1>3, GoesOn DEF ToThinking

(* Closing the thinking block, if it is open.                              *)
LEMMA GoesStopThinking ==
  ASSUME NEW r \in BOOLEAN, NEW h \in BOOLEAN, NEW x \in BOOLEAN, h => r
  PROVE  Goes(Begun(r, x), Opened(r, h, x), If(h, <<Stop(0, "thinking")>>), Begun(r, x), Opened(r, FALSE, x))
<1>1. CASE h
  <2>1. If(h, <<Stop(0, "thinking")>>) = <<Stop(0, "thinking")>>
    BY <1>1 DEF If
  <2>2. <<0, "thinking">> \in Opened(r, h, x)
    BY <1>1 DEF Opened
  <2>3. {p \in Opened(r, h, x) : p[1] # 0} = Opened(r, FALSE, x)
    BY <1>1 DEF Opened, At0
  <2>4. Goes(Begun(r, x), Opened(r, h, x), <<Stop(0, "thinking")>>, Begun(r, x),
          {p \in Opened(r, h, x) : p[1] # 0})
    BY <2>2, GoesStop
  <2>5. QED
    BY <2>1, <2>3, <2>4
<1>2. CASE ~h
  <2>1. If(h, <<Stop(0, "thinking")>>) = <<>> /\ Opened(r, FALSE, x) = Opened(r, h, x)
    BY <1>2 DEF If
  <2>2. QED
    BY <2>1, GoesNowhere
<1>3. QED
  BY <1>1, <1>2

(* A text delta: thinking is closed, and text opened if it is not open.    *)
LEMMA GoesText ==
  ASSUME NEW r \in BOOLEAN, NEW h \in BOOLEAN, NEW x \in BOOLEAN, h => r, NEW d
  PROVE  Goes(Begun(r, x), Opened(r, h, x), ToText(r, h, x, d), Begun(r, TRUE), Opened(r, FALSE, TRUE))
<1> DEFINE at == At0(r)
           start == If(~x, <<Start(at, "text")>>)
           stop == If(h, <<Stop(0, "thinking")>>)
           delta == <<Delta(at, "text", d)>>
           p == <<at, "text">>
<1>1. Goes(Begun(r, x), Opened(r, h, x), stop, Begun(r, x), Opened(r, FALSE, x))
  BY GoesStopThinking
<1>2. Goes(Begun(r, x), Opened(r, FALSE, x), start, Begun(r, TRUE), Opened(r, FALSE, TRUE))
  <2>1. CASE x
    <3>1. start = <<>> /\ Begun(r, x) = Begun(r, TRUE) /\ Opened(r, FALSE, x) = Opened(r, FALSE, TRUE)
      BY <2>1 DEF If
    <3> HIDE DEF start
    <3>2. QED
      BY <3>1, GoesNowhere
  <2>2. CASE ~x
    <3>1. start = <<Start(at, "text")>>
      BY <2>2 DEF If
    <3>2. Begun(r, TRUE) = Begun(r, x) \cup {p} /\ Opened(r, FALSE, TRUE) = Opened(r, FALSE, x) \cup {p}
      BY <2>2 DEF Begun, Opened
    <3>3. \A q \in Begun(r, x) : q[1] # at
      BY <2>2 DEF Begun, At0
    <3> HIDE DEF at, start
    <3>4. Goes(Begun(r, x), Opened(r, FALSE, x), <<Start(at, "text")>>, Begun(r, x) \cup {p},
            Opened(r, FALSE, x) \cup {p})
      BY <3>3, GoesStart
    <3> HIDE DEF p
    <3>5. QED
      BY <3>1, <3>2, <3>4
  <2>3. QED
    BY <2>1, <2>2
<1>3. Goes(Begun(r, TRUE), Opened(r, FALSE, TRUE), delta, Begun(r, TRUE), Opened(r, FALSE, TRUE))
  <2>1. <<at, "text">> \in Opened(r, FALSE, TRUE)
    BY DEF Opened
  <2> HIDE DEF at
  <2>2. QED
    BY <2>1, GoesDelta
<1>4. ToText(r, h, x, d) = (stop \o start) \o delta
  BY DEF ToText
<1> HIDE DEF start, stop, delta
<1>5. QED
  BY <1>1, <1>2, <1>3, <1>4, GoesOn

(* What BlockProtocol says of a stream, whether or not the message is blank. *)
Followed(o, format, blank) ==
  /\ \A j \in DOMAIN o : o[j].what \in {"delta", "stop"} => OpenIn(o, j)
  /\ \A i, j \in DOMAIN o :
       o[i].what = "start" /\ o[j].what = "start" /\ i # j /\ o[i].index = o[j].index =>
         o[i].item = "thinking" /\ o[j].item = "thinking"
  /\ \A f \in DOMAIN o : o[f].what = "finish" =>
       /\ f = Len(o)
       /\ \A s \in DOMAIN o : o[s].what = "start" =>
            \/ \E t \in DOMAIN o : o[t].what = "stop" /\ o[t].index = o[s].index /\ t > s
            \/ format = "responses" /\ o[s].item = "text" /\ blank

(* A stream whose beginnings are told, and that is not over, follows the   *)
(* protocol.                                                               *)
LEMMA ToldFollowed ==
  ASSUME NEW o, NEW S, NEW O, Told(o, S, O), NEW format, NEW blank
  PROVE  Followed(o, format, blank)
BY DEF Told, Followed

(* So does one that ends with an error, or finishes with nothing open but  *)
(* a message of blanks.                                                    *)
LEMMA ToldEnds ==
  ASSUME NEW o, NEW S, NEW O, Told(o, S, O), NEW e, e.what \in {"finish", "error"}, NEW format, NEW blank,
         e.what = "finish" => \A p \in O : format = "responses" /\ p[2] = "text" /\ blank
  PROVE  Followed(o \o <<e>>, format, blank)
<1> DEFINE u == o \o <<e>>
           n == Len(o)
<1>1. IsList(o)
  BY DEF Told
<1>2. /\ IsList(u) /\ n \in Nat /\ DOMAIN o = 1 .. n /\ DOMAIN u = 1 .. n + 1
      /\ u[n + 1] = e /\ \A i \in 1 .. n : u[i] = o[i]
      /\ \A i \in 1 .. n + 1 : i = n + 1 \/ i \in 1 .. n
      /\ \A i \in 1 .. n : i \in 1 .. n + 1 /\ i # n + 1 /\ i < n + 1
      /\ n + 1 \in 1 .. n + 1
  BY <1>1, OneMore
<1>3. Len(u) = n + 1
  BY <1>1, ListOfOne, JoinIsList DEF Joined
<1>4. \A j \in DOMAIN o : OpenIn(o, j) => OpenIn(u, j)
  BY <1>1, OpenStays
<1> HIDE DEF u, n
<1> USE DEF Told
<1>5. \A j \in DOMAIN u : u[j].what \in {"delta", "stop"} => OpenIn(u, j)
  BY <1>2, <1>4
<1>6. \A i, j \in DOMAIN u :
        u[i].what = "start" /\ u[j].what = "start" /\ i # j /\ u[i].index = u[j].index =>
          u[i].item = "thinking" /\ u[j].item = "thinking"
  BY <1>2
<1>7. ASSUME NEW f \in DOMAIN u, u[f].what = "finish"
      PROVE  /\ f = Len(u)
             /\ \A s \in DOMAIN u : u[s].what = "start" =>
                  \/ \E t \in DOMAIN u : u[t].what = "stop" /\ u[t].index = u[s].index /\ t > s
                  \/ format = "responses" /\ u[s].item = "text" /\ blank
  <2>1. f = n + 1
    BY <1>2, <1>7
  <2>2. ASSUME NEW s \in DOMAIN u, u[s].what = "start"
        PROVE  \/ \E t \in DOMAIN u : u[t].what = "stop" /\ u[t].index = u[s].index /\ t > s
               \/ format = "responses" /\ u[s].item = "text" /\ blank
    <3>1. s \in 1 .. n /\ u[s] = o[s]
      BY <1>2, <2>2
    <3>2. CASE <<o[s].index, o[s].item>> \in O
      BY <1>2, <1>7, <2>1, <3>1, <3>2, <<o[s].index, o[s].item>>[2] = o[s].item
    <3>3. CASE \E t \in DOMAIN o : o[t].what = "stop" /\ o[t].index = o[s].index /\ t > s
      BY <1>2, <3>1, <3>3
    <3>4. QED
      BY <1>2, <2>2, <3>1, <3>2, <3>3
  <2>3. QED
    BY <1>3, <2>1, <2>2
<1>8. Followed(u, format, blank)
  BY <1>5, <1>6, <1>7 DEF Followed
<1>9. QED
  BY <1>8 DEF u

(* A stream that closes what is open and finishes.                         *)
LEMMA EndsWell ==
  ASSUME NEW o, NEW S, NEW O, Told(o, S, O), NEW x, NEW S2, NEW O2, Goes(S, O, x, S2, O2),
         NEW output, NEW format, NEW blank, \A p \in O2 : format = "responses" /\ p[2] = "text" /\ blank
  PROVE  Followed(o \o (x \o <<Finish(output)>>), format, blank)
<1> DEFINE e == Finish(output)
<1>1. e.what = "finish"
  BY DEF Finish, Event
<1>2. IsList(o) /\ IsList(x) /\ IsList(<<e>>)
  BY ListOfOne DEF Told, Goes
<1>3. Told(o \o x, S2, O2)
  BY DEF Goes
<1> HIDE DEF e
<1>4. Followed((o \o x) \o <<e>>, format, blank)
  BY <1>1, <1>3, ToldEnds
<1>5. o \o (x \o <<e>>) = (o \o x) \o <<e>>
  BY <1>2, JoinAssociates
<1>6. QED
  BY <1>4, <1>5 DEF e

(* The parts that the ends of the formats are put together of.             *)
LEMMA GoesThinkingBlock ==
  ASSUME NEW k \in BOOLEAN, NEW c
  PROVE  Goes({}, {}, If(k, Block(0, "thinking", c)), Begun(k, FALSE), {})
<1>1. CASE k
  <2>1. If(k, Block(0, "thinking", c)) = Block(0, "thinking", c) /\ Begun(k, FALSE) = {} \cup {<<0, "thinking">>}
    BY <1>1 DEF If, Begun
  <2>2. Goes({}, {}, Block(0, "thinking", c), {} \cup {<<0, "thinking">>}, {})
    BY GoesBlock
  <2>3. QED
    BY <2>1, <2>2
<1>2. CASE ~k
  <2>1. If(k, Block(0, "thinking", c)) = <<>> /\ Begun(k, FALSE) = {}
    BY <1>2 DEF If, Begun
  <2>2. QED
    BY <2>1, GoesNowhere
<1>3. QED
  BY <1>1, <1>2

(* A whole text block, if there is one.                                    *)
LEMMA GoesTextBlock ==
  ASSUME NEW k \in BOOLEAN, NEW y \in BOOLEAN, NEW c
  PROVE  Goes(Begun(k, FALSE), {}, If(y, Block(At0(k), "text", c)), Begun(k, y), {})
<1> DEFINE at == At0(k)
           p == <<at, "text">>
<1>1. CASE y
  <2>1. If(y, Block(at, "text", c)) = Block(at, "text", c) /\ Begun(k, y) = Begun(k, FALSE) \cup {p}
    BY <1>1 DEF If, Begun
  <2>2. \A q \in Begun(k, FALSE) : q[1] # at
    BY DEF Begun, At0
  <2> HIDE DEF at
  <2>3. Goes(Begun(k, FALSE), {}, Block(at, "text", c), Begun(k, FALSE) \cup {<<at, "text">>}, {})
    BY <2>2, GoesBlock
  <2>4. QED
    BY <2>1, <2>3 DEF at
<1>2. CASE ~y
  <2>1. If(y, Block(at, "text", c)) = <<>> /\ Begun(k, FALSE) = Begun(k, y)
    BY <1>2 DEF If
  <2>2. QED
    BY <2>1, GoesNowhere
<1>3. QED
  BY <1>1, <1>2

(* The start of the message, if there is one.                              *)
LEMMA GoesStartText ==
  ASSUME NEW k \in BOOLEAN, NEW y \in BOOLEAN
  PROVE  Goes(Begun(k, FALSE), {}, If(y, <<Start(At0(k), "text")>>), Begun(k, y), Opened(k, FALSE, y))
<1> DEFINE at == At0(k)
           p == <<at, "text">>
<1>1. CASE y
  <2>1. /\ If(y, <<Start(at, "text")>>) = <<Start(at, "text")>>
        /\ Begun(k, y) = Begun(k, FALSE) \cup {p} /\ Opened(k, FALSE, y) = {} \cup {p}
    BY <1>1 DEF If, Begun, Opened
  <2>2. \A q \in Begun(k, FALSE) : q[1] # at
    BY DEF Begun, At0
  <2> HIDE DEF at
  <2>3. Goes(Begun(k, FALSE), {}, <<Start(at, "text")>>, Begun(k, FALSE) \cup {<<at, "text">>},
          {} \cup {<<at, "text">>})
    BY <2>2, GoesStart
  <2>4. QED
    BY <2>1, <2>3 DEF at
<1>2. CASE ~y
  <2>1. If(y, <<Start(at, "text")>>) = <<>> /\ Begun(k, FALSE) = Begun(k, y) /\ Opened(k, FALSE, y) = {}
    BY <1>2 DEF If, Opened
  <2>2. QED
    BY <2>1, GoesNowhere
<1>3. QED
  BY <1>1, <1>2

(* The stop of the text, if there is some.                                 *)
LEMMA GoesStopText ==
  ASSUME NEW k \in BOOLEAN, NEW y \in BOOLEAN
  PROVE  Goes(Begun(k, y), Opened(k, FALSE, y), If(y, <<Stop(At0(k), "text")>>), Begun(k, y), {})
<1> DEFINE at == At0(k)
<1>1. CASE y
  <2>1. If(y, <<Stop(at, "text")>>) = <<Stop(at, "text")>>
    BY <1>1 DEF If
  <2>2. <<at, "text">> \in Opened(k, FALSE, y) /\ {p \in Opened(k, FALSE, y) : p[1] # at} = {}
    BY <1>1 DEF Opened
  <2> HIDE DEF at
  <2>3. Goes(Begun(k, y), Opened(k, FALSE, y), <<Stop(at, "text")>>, Begun(k, y),
          {p \in Opened(k, FALSE, y) : p[1] # at})
    BY <2>2, GoesStop
  <2>4. QED
    BY <2>1, <2>2, <2>3 DEF at
<1>2. CASE ~y
  <2>1. If(y, <<Stop(at, "text")>>) = <<>> /\ Opened(k, FALSE, y) = {}
    BY <1>2 DEF If, Opened
  <2>2. QED
    BY <2>1, GoesNowhere
<1>3. QED
  BY <1>1, <1>2

(* Tool blocks numbered after thinking and text.                           *)
LEMMA GoesToolsAfter ==
  ASSUME NEW k \in BOOLEAN, NEW y \in BOOLEAN, NEW from \in Nat, k => from >= 1, y => from >= At0(k) + 1,
         NEW n \in Nat
  PROVE  \E S2 : Goes(Begun(k, y), {}, Tools(from, n), S2, {})
<1>1. \A p \in Begun(k, y) : p[1] \in Nat /\ p[1] < from
  BY DEF Begun, At0
<1>2. QED
  BY <1>1, GoesTools

(* The end of a Responses stream but for the last event; m says whether    *)
(* the message has been started, speak whether it is part of the answer.   *)
Completing(k, m, speak, n) ==
  If(speak /\ ~m, <<Start(At0(k), "text")>>) \o If(speak, <<Stop(At0(k), "text")>>)
    \o Tools(IF speak THEN At0(k) + 1 ELSE At0(k), n)

(* Completing a Responses stream leaves open only a message that is not    *)
(* part of the answer.                                                     *)
LEMMA GoesCompleting ==
  ASSUME NEW k \in BOOLEAN, NEW m \in BOOLEAN, NEW speak \in BOOLEAN, NEW n \in Nat, m /\ ~speak => n = 0
  PROVE  \E S2 : Goes(Begun(k, m), Opened(k, FALSE, m), Completing(k, m, speak, n), S2,
         Opened(k, FALSE, m /\ ~speak))
<1> DEFINE at == At0(k)
           start == If(speak /\ ~m, <<Start(at, "text")>>)
           stop == If(speak, <<Stop(at, "text")>>)
           from == IF speak THEN at + 1 ELSE at
           w == m \/ speak
<1>1. at \in Nat /\ from \in Nat
  BY DEF At0
<1>2. Goes(Begun(k, m), Opened(k, FALSE, m), start, Begun(k, w), Opened(k, FALSE, w))
  <2>1. CASE m
    <3>1. start = <<>> /\ w
      BY <2>1 DEF If
    <3>2. Begun(k, w) = Begun(k, m) /\ Opened(k, FALSE, w) = Opened(k, FALSE, m)
      BY <2>1
    <3> HIDE DEF start, w
    <3>3. QED
      BY <3>1, <3>2, GoesNowhere
  <2>2. CASE ~m
    <3>1. Goes(Begun(k, FALSE), {}, If(speak, <<Start(at, "text")>>), Begun(k, speak), Opened(k, FALSE, speak))
      BY GoesStartText
    <3>2. start = If(speak, <<Start(at, "text")>>) /\ Opened(k, FALSE, m) = {} /\ Begun(k, m) = Begun(k, FALSE)
          /\ Begun(k, w) = Begun(k, speak) /\ Opened(k, FALSE, w) = Opened(k, FALSE, speak)
      BY <2>2 DEF If, Opened
    <3>3. QED
      BY <3>1, <3>2
  <2>3. QED
    BY <2>1, <2>2
<1>3. Completing(k, m, speak, n) = (start \o stop) \o Tools(from, n)
  BY DEF Completing
<1>4. CASE speak
  <2>1. stop = If(w, <<Stop(at, "text")>>) /\ w \in BOOLEAN /\ w /\ Opened(k, FALSE, m /\ ~speak) = {}
    BY <1>4 DEF If, Opened
  <2>2. Goes(Begun(k, w), Opened(k, FALSE, w), stop, Begun(k, w), {})
    BY <2>1, GoesStopText
  <2>3. PICK S2 : Goes(Begun(k, w), {}, Tools(from, n), S2, {})
    <3>1. from >= 1 /\ from >= At0(k) + 1
      BY <1>4 DEF At0
    <3> HIDE DEF from, w
    <3>2. QED
      BY <1>1, <2>1, <3>1, GoesToolsAfter
  <2> HIDE DEF start, stop, from, w
  <2>4. Goes(Begun(k, m), Opened(k, FALSE, m), Completing(k, m, speak, n), S2, {})
    BY <1>2, <1>3, <2>2, <2>3, GoesOn
  <2>5. QED
    BY <2>1, <2>4
<1>5. CASE ~speak /\ m
  <2>1. stop = <<>> /\ n = 0 /\ Opened(k, FALSE, m /\ ~speak) = Opened(k, FALSE, w)
    BY <1>5 DEF If, Opened
  <2>2. Tools(from, n) = <<>>
    <3> HIDE DEF from
    <3>1. QED
      BY <1>1, <2>1, ToolsNone
  <2> HIDE DEF start, stop, from, w
  <2>3. Goes(Begun(k, w), Opened(k, FALSE, w), stop, Begun(k, w), Opened(k, FALSE, w))
    BY <2>1, GoesNowhere
  <2>4. Goes(Begun(k, w), Opened(k, FALSE, w), Tools(from, n), Begun(k, w), Opened(k, FALSE, w))
    BY <2>2, GoesNowhere
  <2>5. Goes(Begun(k, m), Opened(k, FALSE, m), Completing(k, m, speak, n), Begun(k, w), Opened(k, FALSE, w))
    BY <1>2, <1>3, <2>3, <2>4, GoesOn
  <2>6. QED
    BY <2>1, <2>5
<1>6. CASE ~speak /\ ~m
  <2>1. stop = <<>> /\ ~w /\ Opened(k, FALSE, w) = {} /\ w \in BOOLEAN /\ Opened(k, FALSE, m /\ ~speak) = {}
    BY <1>6 DEF If, Opened
  <2>2. PICK S2 : Goes(Begun(k, w), {}, Tools(from, n), S2, {})
    <3>1. k => from >= 1
      BY <1>6 DEF At0
    <3> HIDE DEF from, w
    <3>2. QED
      BY <1>1, <2>1, <3>1, GoesToolsAfter
  <2> HIDE DEF start, stop, from, w
  <2>3. Goes(Begun(k, w), Opened(k, FALSE, w), stop, Begun(k, w), {})
    BY <2>1, GoesNowhere
  <2>4. Goes(Begun(k, m), Opened(k, FALSE, m), Completing(k, m, speak, n), S2, {})
    BY <1>2, <1>3, <2>2, <2>3, GoesOn
  <2>5. QED
    BY <2>1, <2>4
<1>7. QED
  BY <1>4, <1>5, <1>6

-----------------------------------------------------------------------------
StreamTyped ==
  /\ req \in Requests /\ Sensible(req)
  /\ text \in Seq(Kinds) /\ firstLen \in NoSecond .. Len(text) /\ (firstLen # NoSecond => req.tools)
  /\ thought \in BOOLEAN /\ thinkingOpen \in BOOLEAN /\ textOpen \in BOOLEAN
  /\ IsList(pendingText)

(* What has been written while the stream goes on: what it has begun, and  *)
(* open what the writer holds open; nothing, but in the Anthropic format.  *)
Underway ==
  /\ thinkingOpen => req.reasoning
  /\ req.format # "openai" =>
       Told(out, Begun(req.reasoning, textOpen), Opened(req.reasoning, thinkingOpen, textOpen))
  /\ req.format # "openai" /\ (req.format # "anthropic" \/ req.aggregate) =>
       out = <<>> /\ ~thinkingOpen /\ ~textOpen
StreamInv ==
  /\ StreamTyped
  /\ phase \in {"streaming", "answered", "failed", "cut"}
  /\ phase \in {"streaming", "cut"} => Underway
  /\ phase \notin {"streaming", "cut"} /\ req.format # "openai" => Followed(out, req.format, Blank(First))

(* Nothing has been written at the start.                                  *)
LEMMA StreamInvInit == Init => StreamInv
<1> SUFFICES ASSUME Init PROVE StreamInv
  OBVIOUS
<1> USE DEF Init
<1>1. StreamTyped
  <2>1. IsList(pendingText)
    BY EmptyList
  <2>2. text \in Seq(Kinds) /\ Len(text) = 0
    OBVIOUS
  <2>3. QED
    <3>1. firstLen \in NoSecond .. Len(text) /\ firstLen = NoSecond
      BY <2>2 DEF NoSecond
    <3>2. QED
      BY <2>1, <2>2, <3>1 DEF StreamTyped
<1>2. Underway
  <2>1. Opened(req.reasoning, thinkingOpen, textOpen) = {}
    BY DEF Opened
  <2>2. QED
    BY <2>1, ToldNothing DEF Underway
<1>3. QED
  BY <1>1, <1>2 DEF StreamInv

(* The invariant says of every stream what BlockProtocol says.             *)
LEMMA StreamInvProtocol == StreamInv => BlockProtocol
<1> SUFFICES ASSUME StreamInv, req.format # "openai" PROVE BlockProtocol
  BY DEF BlockProtocol
<1>1. Followed(out, req.format, Blank(First))
  BY ToldFollowed DEF StreamInv, Underway
<1>2. QED
  BY <1>1 DEF BlockProtocol, Followed, Is, At, OpenAt, OpenIn

(* A result counts its calls, and without calls its text is the first      *)
(* prompt's.                                                               *)
LEMMA ResultsAre ==
  ASSUME StreamTyped, NEW result \in Results
  PROVE  result.calls \in Nat /\ (result.calls = 0 => result.text = First)
<1> DEFINE parsed == IF HasBlock(First) THEN First ELSE Second
<1> USE StreamTyped DEF StreamTyped
<1>1. First \in Seq(Kinds) /\ Second \in Seq(Kinds)
  <2>1. CASE firstLen = NoSecond
    BY <2>1 DEF First, Second
  <2>2. CASE firstLen # NoSecond
    <3>1. firstLen \in 0 .. Len(text) /\ Len(text) \in Nat
      BY <2>2 DEF NoSecond
    <3>2. SubSeq(text, 1, firstLen) \in Seq(Kinds)
      BY <3>1
    <3>3. SubSeq(text, firstLen + 1, Len(text)) \in Seq(Kinds)
      BY <3>1
    <3>4. QED
      BY <2>2, <3>2, <3>3 DEF First, Second
  <2>3. QED
    BY <2>1, <2>2
<1>2. Blocks(parsed) \in Nat
  <2> DEFINE s == parsed
             D == {i \in DOMAIN s : InBlock(s, i) /\ s[i] # "action"}
  <2>1. s \in Seq(Kinds)
    BY <1>1
  <2> HIDE DEF s
  <2>2. D \subseteq 1 .. Len(s) /\ Len(s) \in Nat
    BY <2>1
  <2>3. IsFiniteSet(1 .. Len(s))
    BY <2>2, FS_Interval
  <2>4. IsFiniteSet(D)
    BY <2>2, <2>3, FS_Subset
  <2>5. Cardinality(D) \in Nat
    BY <2>4, FS_CardinalityType
  <2>6. QED
    BY <2>5 DEF Blocks, s
<1>3. CASE ~req.tools
  <2>1. result = [text |-> text, calls |-> 0]
    BY <1>3 DEF Results
  <2>2. First = text
    BY <1>3 DEF First
  <2>3. QED
    BY <2>1, <2>2
<1>4. CASE req.tools /\ HasBlock(parsed)
  <2> HIDE DEF parsed
  <2>1. PICK n \in 1 .. Blocks(parsed) : result = [text |-> Remaining(parsed), calls |-> n]
    BY <1>4 DEF Results, parsed
  <2>2. n \in Nat /\ n # 0
    BY <1>2
  <2>3. QED
    BY <2>1, <2>2
<1>5. CASE req.tools /\ ~HasBlock(parsed)
  <2> HIDE DEF parsed
  <2>1. \/ \E n \in 0 .. MaxCalls : result = [text |-> First, calls |-> n]
        \/ \E n \in 1 .. MaxCalls : result = [text |-> <<>>, calls |-> n]
    BY <1>5 DEF Results, parsed
  <2>2. MaxCalls \in Nat
    BY StreamAssumption
  <2>3. QED
    BY <2>1, <2>2
<1>6. QED
  BY <1>3, <1>4, <1>5

(* The ends of the formats.                                                *)
LEMMA AnthropicEnds ==
  ASSUME StreamTyped, Underway, req.format = "anthropic", NEW result, result.calls \in Nat, NEW blank
  PROVE  Followed(out \o AnthropicEnd(result), req.format, blank)
<1> DEFINE r == req.reasoning
           h == thinkingOpen
           x == textOpen
           n == result.calls
           rest == IF n = 0 THEN Flush ELSE <<>>
           y == x \/ rest # <<>>
           at == At0(r)
           a == TextEvents(rest)
           b == If(h /\ rest = <<>>, <<Stop(0, "thinking")>>)
           c == If(y, <<Stop(at, "text")>>)
           from == ToolIndex(y)
<1>1. r \in BOOLEAN /\ h \in BOOLEAN /\ x \in BOOLEAN /\ y \in BOOLEAN /\ (h => r) /\ n \in Nat
  BY DEF StreamTyped, Requests, Underway
<1>2. Told(out, Begun(r, x), Opened(r, h, x))
  BY DEF Underway
<1>3. TextIndex = at
  BY DEF TextIndex, At0
<1>4. from \in Nat /\ from >= 1 /\ (y => from >= at + 1)
  BY <1>3 DEF ToolIndex, At0
<1>5. AnthropicEnd(result) = (((a \o b) \o c) \o Tools(from, n)) \o <<Finish(<<>>)>>
  BY <1>3 DEF AnthropicEnd
<1>6. a = IF rest # <<>> THEN ToText(r, h, x, rest) ELSE <<>>
  BY <1>3 DEF TextEvents, ToText, If
<1> HIDE DEF r, h, x, n, a, at, from
<1>7. Goes(Begun(r, x), Opened(r, h, x), a \o b, Begun(r, y), Opened(r, FALSE, y))
  <2>1. CASE rest # <<>>
    <3>1. a = ToText(r, h, x, rest) /\ b = <<>> /\ y = TRUE
      BY <1>6, <2>1 DEF If
    <3> HIDE DEF b, y, rest
    <3>2. Goes(Begun(r, x), Opened(r, h, x), a, Begun(r, y), Opened(r, FALSE, y))
      BY <1>1, <3>1, GoesText
    <3>3. Goes(Begun(r, y), Opened(r, FALSE, y), b, Begun(r, y), Opened(r, FALSE, y))
      BY <3>1, GoesNowhere
    <3>4. QED
      BY <3>2, <3>3, GoesOn
  <2>2. CASE rest = <<>>
    <3>1. a = <<>> /\ b = If(h, <<Stop(0, "thinking")>>) /\ y = x
      BY <1>1, <1>6, <2>2
    <3> HIDE DEF b, y, rest
    <3>2. Goes(Begun(r, x), Opened(r, h, x), a, Begun(r, x), Opened(r, h, x))
      BY <3>1, GoesNowhere
    <3>3. Goes(Begun(r, x), Opened(r, h, x), b, Begun(r, x), Opened(r, FALSE, x))
      BY <1>1, <3>1, GoesStopThinking
    <3>4. QED
      BY <3>1, <3>2, <3>3, GoesOn
  <2>3. QED
    BY <2>1, <2>2
<1>8. Goes(Begun(r, y), Opened(r, FALSE, y), c, Begun(r, y), {})
  <2>1. c = If(y, <<Stop(At0(r), "text")>>)
    BY DEF at
  <2> HIDE DEF c, y
  <2>2. QED
    BY <1>1, <2>1, GoesStopText
<1> HIDE DEF b, c, y, rest
<1>9. PICK S2 : Goes(Begun(r, y), {}, Tools(from, n), S2, {})
  BY <1>1, <1>4, GoesToolsAfter DEF at
<1>10. Goes(Begun(r, x), Opened(r, h, x), ((a \o b) \o c) \o Tools(from, n), S2, {})
  BY <1>7, <1>8, <1>9, GoesOn
<1>11. QED
  BY <1>2, <1>5, <1>10, EndsWell

(* The Anthropic format, written at once.                                  *)
LEMMA AnthropicAggregatedEnds ==
  ASSUME StreamTyped, NEW o, Told(o, {}, {}), NEW result, result.calls \in Nat, NEW blank
  PROVE  Followed(o \o AnthropicAggregated(result), req.format, blank)
<1> DEFINE k == req.reasoning /\ thought
           y == ~Blank(result.text)
           n == result.calls
           a == If(k, Block(0, "thinking", <<"thinking">>))
           b == If(y, Block(At0(k), "text", result.text))
           from == IF y THEN At0(k) + 1 ELSE At0(k)
<1>1. k \in BOOLEAN /\ y \in BOOLEAN /\ n \in Nat
  BY DEF StreamTyped, Blank
<1>2. from \in Nat /\ (k => from >= 1) /\ (y => from >= At0(k) + 1)
  BY DEF At0
<1>3. AnthropicAggregated(result) = ((a \o b) \o Tools(from, n)) \o <<Finish(<<>>)>>
  BY DEF AnthropicAggregated, At0
<1> HIDE DEF k, y, n, from
<1>4. Goes({}, {}, a, Begun(k, FALSE), {})
  BY <1>1, GoesThinkingBlock
<1>5. Goes(Begun(k, FALSE), {}, b, Begun(k, y), {})
  BY <1>1, GoesTextBlock
<1>6. PICK S2 : Goes(Begun(k, y), {}, Tools(from, n), S2, {})
  BY <1>1, <1>2, GoesToolsAfter
<1> HIDE DEF a, b
<1>7. Goes({}, {}, (a \o b) \o Tools(from, n), S2, {})
  BY <1>4, <1>5, <1>6, GoesOn
<1>8. QED
  BY <1>3, <1>7, EndsWell

(* A hosted tool, written at once.                                         *)
LEMMA HostedEnds ==
  ASSUME NEW o, Told(o, {}, {}), NEW format, NEW blank
  PROVE  Followed(o \o (Tools(0, 1) \o <<Finish(<<>>)>>), format, blank)
<1>1. PICK S2 : Goes({}, {}, Tools(0, 1), S2, {})
  BY GoesTools
<1>2. QED
  BY <1>1, EndsWell

(* A message that is not part of the answer is one of blanks.              *)
LEMMA ResponsesFinish ==
  ASSUME NEW o, NEW S, NEW O, Told(o, S, O), NEW x, NEW k \in BOOLEAN, NEW m \in BOOLEAN,
         Goes(S, O, x, Begun(k, m), Opened(k, FALSE, m)),
         NEW result, result.calls \in Nat, m => result.calls = 0, NEW output, NEW format, NEW blank,
         m /\ ResponseText(result) = <<>> => format = "responses" /\ blank
  PROVE  Followed(o \o (x \o (Completing(k, m, ResponseText(result) # <<>>, result.calls) \o <<Finish(output)>>)), format, blank)
<1> DEFINE speak == ResponseText(result) # <<>>
           n == result.calls
           y == Completing(k, m, speak, n)
           e == <<Finish(output)>>
<1>1. PICK S2 : Goes(Begun(k, m), Opened(k, FALSE, m), y, S2, Opened(k, FALSE, m /\ ~speak))
  <2>1. speak \in BOOLEAN /\ n \in Nat /\ (m /\ ~speak => n = 0)
    OBVIOUS
  <2> HIDE DEF speak, n
  <2>2. QED
    BY <2>1, GoesCompleting
<1> HIDE DEF y, e
<1>2. Goes(S, O, x \o y, S2, Opened(k, FALSE, m /\ ~speak))
  BY <1>1, GoesOn
<1>3. \A p \in Opened(k, FALSE, m /\ ~speak) : format = "responses" /\ p[2] = "text" /\ blank
  BY DEF Opened
<1> HIDE DEF speak
<1>4. Followed(o \o ((x \o y) \o e), format, blank)
  BY <1>2, <1>3, EndsWell DEF e
<1>5. IsList(x) /\ IsList(y) /\ IsList(e)
  BY <1>1, ListOfOne DEF Goes, e
<1>6. x \o (y \o e) = (x \o y) \o e
  BY <1>5, JoinAssociates
<1>7. QED
  BY <1>4, <1>6 DEF y, e, speak, n

(* What completes a Responses stream, but for the last event.              *)
LEMMA CompletedIs ==
  ASSUME NEW result, NEW m \in BOOLEAN, NEW k \in BOOLEAN
  PROVE  Completed(result, m, k) =
           Completing(k, m, ResponseText(result) # <<>>, result.calls) \o <<Finish(ResponseOutput(result, k))>>
BY DEF Completed, Completing, At0

(* The Responses format, written at once.                                  *)
LEMMA ResponsesAggregatedEnds ==
  ASSUME StreamTyped, NEW o, Told(o, Begun(req.reasoning /\ thought, FALSE), {}), NEW result,
         result.calls \in Nat, NEW format, NEW blank
  PROVE  Followed(o \o ResponsesAggregated(result), format, blank)
<1> DEFINE k == req.reasoning /\ thought
           x == <<>>
           C == Completing(k, FALSE, ResponseText(result) # <<>>, result.calls) \o <<Finish(ResponseOutput(result, k))>>
<1>1. k \in BOOLEAN
  BY DEF StreamTyped
<1> HIDE DEF k
<1>2. ResponsesAggregated(result) = C
  BY <1>1, CompletedIs DEF ResponsesAggregated, k
<1>3. Opened(k, FALSE, FALSE) = {}
  BY DEF Opened
<1>4. Goes(Begun(k, FALSE), {}, x, Begun(k, FALSE), Opened(k, FALSE, FALSE))
  BY <1>3, GoesNowhere
<1>5. Told(o, Begun(k, FALSE), {})
  BY DEF k
<1> HIDE DEF x
<1>6. Followed(o \o (x \o C), format, blank)
  BY <1>1, <1>4, <1>5, ResponsesFinish
<1>7. IsList(C)
  <2>1. PICK S2 : Goes(Begun(k, FALSE), Opened(k, FALSE, FALSE),
          Completing(k, FALSE, ResponseText(result) # <<>>, result.calls), S2, Opened(k, FALSE, FALSE /\ ~(ResponseText(result) # <<>>)))
    BY <1>1, GoesCompleting
  <2>2. QED
    BY <2>1, ListOfOne, JoinIsList DEF Goes, Joined
<1> HIDE DEF C
<1>8. x \o C = C
  BY <1>7, EmptyList DEF x
<1>9. QED
  BY <1>2, <1>6, <1>8

(* The pieces of the message that was kept back.                           *)
LEMMA PendingIsList ==
  ASSUME StreamTyped, NEW n
  PROVE  IsList(IF n > 0 THEN <<>> ELSE pendingText \o If(Flush # <<>>, <<Flush>>))
<1> DEFINE w == If(Flush # <<>>, <<Flush>>)
<1>1. IsList(w) /\ IsList(pendingText) /\ IsList(<<>>)
  BY ListOfOne, EmptyList DEF If, StreamTyped
<1> HIDE DEF w
<1>2. IsList(pendingText \o w)
  BY <1>1, JoinIsList DEF Joined
<1>3. QED
  BY <1>1, <1>2 DEF w

(* The Responses format, written from what was kept back.                  *)
LEMMA ResponsesEnds ==
  ASSUME StreamTyped, NEW o, Told(o, {}, {}), NEW result, result.calls \in Nat,
         NEW blank, result.calls = 0 /\ Blank(result.text) => blank
  PROVE  Followed(o \o ResponsesEnd(result), "responses", blank)
<1> DEFINE k == req.reasoning /\ thought /\ thoughts > 0
           at == At0(k)
           d == IF result.calls > 0 THEN <<>> ELSE pendingText \o If(Flush # <<>>, <<Flush>>)
           m == d # <<>>
           a == If(k, Block(0, "thinking", <<"thinking">>))
           b == If(m, <<Start(at, "text")>>)
           c == [i \in DOMAIN d |-> Delta(at, "text", d[i])]
           C == Completing(k, m, ResponseText(result) # <<>>, result.calls) \o <<Finish(ResponseOutput(result, k))>>
<1>1. k \in BOOLEAN /\ m \in BOOLEAN /\ (m => result.calls = 0)
  BY DEF StreamTyped
<1>2. IsList(d)
  BY PendingIsList
<1>3. ResponsesEnd(result) = ((a \o b) \o c) \o Completed(result, m, k)
  BY DEF ResponsesEnd, At0
<1>4. DOMAIN <<>> = {}
  OBVIOUS
<1> HIDE DEF k, d
<1>5. ResponsesEnd(result) = ((a \o b) \o c) \o C
  <2> HIDE DEF m, a, b, c
  <2>1. QED
    BY <1>1, <1>3, CompletedIs
<1>6. Goes({}, {}, a, Begun(k, FALSE), {})
  BY <1>1, GoesThinkingBlock
<1>7. Goes(Begun(k, FALSE), {}, b, Begun(k, m), Opened(k, FALSE, m))
  <2> HIDE DEF m
  <2>1. QED
    BY <1>1, GoesStartText
<1>8. Goes(Begun(k, m), Opened(k, FALSE, m), c, Begun(k, m), Opened(k, FALSE, m))
  <2>1. CASE m
    <3>1. <<at, "text">> \in Opened(k, FALSE, m)
      BY <2>1 DEF Opened
    <3>2. c = Deltas(at, "text", d)
      BY DEF Deltas
    <3> HIDE DEF at, m, c
    <3>3. QED
      BY <1>2, <3>1, <3>2, GoesDeltas
  <2>2. CASE ~m
    <3>1. c = <<>>
      BY <1>4, <2>2
    <3> HIDE DEF c, m
    <3>2. QED
      BY <3>1, GoesNowhere
  <2>3. QED
    BY <2>1, <2>2
<1> HIDE DEF a, b, c, m
<1>9. Goes({}, {}, (a \o b) \o c, Begun(k, m), Opened(k, FALSE, m))
  BY <1>6, <1>7, <1>8, GoesOn
<1>10. m /\ ResponseText(result) = <<>> => blank
  <2>1. result.text = <<>> => Blank(result.text)
    BY DEF Blank
  <2>2. QED
    BY <1>1, <2>1 DEF ResponseText
<1> DEFINE x == (a \o b) \o c
<1>11. Goes({}, {}, x, Begun(k, m), Opened(k, FALSE, m))
  BY <1>9
<1> HIDE DEF x
<1>12. Followed(o \o (x \o C), "responses", blank)
  BY <1>1, <1>10, <1>11, ResponsesFinish, ZenonT(60)
<1> HIDE DEF C
<1>13. QED
  BY <1>5, <1>12 DEF x

(* Steps of the generation and the handlers.                               *)
LEMMA ShowKeeps ==
  ASSUME StreamTyped, Underway, ~req.aggregate, NEW delta, Show(delta), req' = req
  PROVE  Underway' /\ thinkingOpen' \in BOOLEAN /\ textOpen' \in BOOLEAN /\ IsList(pendingText)'
<1> DEFINE d == Push(delta).emit
           shown == d # <<>>
<1>1. /\ out' = out \o CASE req.format = "anthropic" -> TextEvents(d)
                         [] req.format = "openai" -> If(shown, <<Delta(0, "text", d)>>)
                         [] OTHER -> <<>>
      /\ thinkingOpen' = (thinkingOpen /\ ~shown)
      /\ textOpen' = (textOpen \/ (shown /\ req.format = "anthropic"))
      /\ pendingText' = pendingText \o If(shown /\ req.format = "responses", <<d>>)
  BY DEF Show
<1> HIDE DEF d
<1>2. IsList(pendingText)'
  <2> DEFINE w == If(shown /\ req.format = "responses", <<d>>)
  <2>1. IsList(w) /\ IsList(pendingText)
    BY ListOfOne, EmptyList DEF If, StreamTyped
  <2> HIDE DEF w
  <2>2. IsList(pendingText \o w)
    BY <2>1, JoinIsList DEF Joined
  <2>3. pendingText' = pendingText \o w
    BY <1>1 DEF w
  <2>4. QED
    BY <2>2, <2>3
<1>3. thinkingOpen' \in BOOLEAN /\ textOpen' \in BOOLEAN
  BY <1>1 DEF StreamTyped
<1>4. thinkingOpen' => req'.reasoning
  BY <1>1 DEF Underway
<1>5. CASE req.format = "openai"
  BY <1>2, <1>3, <1>4, <1>5 DEF Underway
<1>6. CASE req.format = "anthropic"
  <2> DEFINE r == req.reasoning
             h == thinkingOpen
             x == textOpen
  <2>1. Told(out, Begun(r, x), Opened(r, h, x)) /\ (h => r) /\ r \in BOOLEAN /\ h \in BOOLEAN /\ x \in BOOLEAN
    BY <1>6 DEF Underway, StreamTyped, Requests
  <2>2. out' = out \o TextEvents(d)
    BY <1>1, <1>6
  <2>3. Told(out', Begun(r, textOpen'), Opened(r, thinkingOpen', textOpen'))
    <3>1. CASE shown
      <4>1. TextEvents(d) = ToText(r, h, x, d)
        BY <3>1 DEF TextEvents, ToText, TextIndex, At0, If
      <4>2. thinkingOpen' = FALSE /\ textOpen' = TRUE
        BY <1>1, <1>6, <3>1
      <4> HIDE DEF r, h, x, shown
      <4>3. Goes(Begun(r, x), Opened(r, h, x), ToText(r, h, x, d), Begun(r, TRUE), Opened(r, FALSE, TRUE))
        BY <2>1, GoesText
      <4>4. Told(out \o ToText(r, h, x, d), Begun(r, TRUE), Opened(r, FALSE, TRUE))
        BY <2>1, <4>3 DEF Goes
      <4>5. QED
        BY <2>2, <4>1, <4>2, <4>4
    <3>2. CASE ~shown
      <4>1. TextEvents(d) = <<>> /\ thinkingOpen' = h /\ textOpen' = x
        BY <1>1, <2>1, <3>2 DEF TextEvents, If
      <4>2. out' = out
        BY <2>1, <2>2, <4>1, EmptyList DEF Told
      <4>3. QED
        BY <2>1, <4>1, <4>2
    <3>3. QED
      BY <3>1, <3>2
  <2>4. QED
    BY <1>2, <1>3, <1>4, <1>6, <2>3 DEF Underway
<1>7. CASE req.format # "openai" /\ req.format # "anthropic"
  <2>1. out = <<>> /\ ~thinkingOpen /\ ~textOpen /\ Told(out, Begun(req.reasoning, textOpen),
          Opened(req.reasoning, thinkingOpen, textOpen))
    BY <1>7 DEF Underway
  <2>2. out' = out \o <<>>
    BY <1>1, <1>7
  <2>3. out' = out
    BY <2>1, <2>2, EmptyList DEF Told
  <2>4. thinkingOpen' = thinkingOpen /\ textOpen' = textOpen
    BY <1>1, <1>7, <2>1 DEF StreamTyped
  <2>5. QED
    BY <1>2, <1>3, <1>4, <1>7, <2>1, <2>3, <2>4 DEF Underway
<1>8. QED
  BY <1>5, <1>6, <1>7

(* A thinking delta keeps a stream as it should be under way.              *)
LEMMA ThinkKeeps ==
  ASSUME StreamInv, Think
  PROVE  Underway' /\ thinkingOpen' \in BOOLEAN /\ textOpen' \in BOOLEAN /\ IsList(pendingText)'
<1>1. StreamTyped /\ Underway /\ req' = req
  BY DEF StreamInv, Think, Generating
<1>2. CASE req.format = "openai" /\ ~req.aggregate
  <2>1. Show("thought")
    BY <1>2 DEF Think
  <2>2. QED
    BY <1>1, <1>2, <2>1, ShowKeeps
<1>3. CASE req.format = "anthropic" /\ req.reasoning /\ ~req.aggregate
  <2>1. out' = out \o ThinkingEvents /\ thinkingOpen' = TRUE /\ textOpen' = textOpen /\ pendingText' = pendingText
    BY <1>3 DEF Think
  <2> DEFINE h == thinkingOpen
             x == textOpen
  <2>2. Told(out, Begun(TRUE, x), Opened(TRUE, h, x)) /\ h \in BOOLEAN /\ x \in BOOLEAN
    BY <1>1, <1>3 DEF Underway, StreamTyped, Requests
  <2>3. ThinkingEvents = ToThinking(h)
    BY DEF ThinkingEvents, ToThinking
  <2> HIDE DEF h, x
  <2>4. Told(out \o ToThinking(h), Begun(TRUE, x), Opened(TRUE, TRUE, x))
    BY <2>2, GoesThinking DEF Goes
  <2>5. req.reasoning = TRUE
    BY <1>1, <1>3 DEF StreamTyped, Requests
  <2>6. Told(out', Begun(req'.reasoning, textOpen'), Opened(req'.reasoning, thinkingOpen', textOpen'))
    BY <1>1, <2>1, <2>3, <2>4, <2>5 DEF x
  <2>7. QED
    BY <1>1, <1>3, <2>1, <2>6 DEF Underway, StreamTyped
<1>4. CASE ~(req.format = "openai" /\ ~req.aggregate) /\ ~(req.format = "anthropic" /\ req.reasoning /\ ~req.aggregate)
  <2>1. UNCHANGED <<writerVars, out>>
    BY <1>4 DEF Think, Hide
  <2>2. QED
    BY <1>1, <2>1 DEF Underway, StreamTyped, writerVars
<1>5. QED
  BY <1>2, <1>3, <1>4

(* So does a text delta.                                                   *)
LEMMA SpeakKeeps ==
  ASSUME StreamInv, NEW delta \in Kinds, Speak(delta)
  PROVE  Underway' /\ thinkingOpen' \in BOOLEAN /\ textOpen' \in BOOLEAN /\ IsList(pendingText)'
<1>1. StreamTyped /\ Underway /\ req' = req
  BY DEF StreamInv, Speak, Generating
<1>2. CASE req.aggregate
  <2>1. UNCHANGED <<writerVars, out>>
    BY <1>2 DEF Speak, Hide
  <2>2. QED
    BY <1>1, <2>1 DEF Underway, StreamTyped, writerVars
<1>3. CASE ~req.aggregate
  BY <1>1, <1>3, ShowKeeps DEF Speak
<1>4. QED
  BY <1>2, <1>3

(* An answer ends its stream as the protocol says.                         *)
LEMMA SucceedKeeps ==
  ASSUME StreamInv, NEW result \in Results, Succeed(result), req.format # "openai"
  PROVE  Followed(out', req.format, Blank(First))
<1>1. StreamTyped /\ Underway /\ req.format # "hosted"
  BY DEF StreamInv, Succeed, Generating
<1>2. result.calls \in Nat /\ (result.calls = 0 => result.text = First)
  BY <1>1, ResultsAre
<1>3. CASE req.format = "anthropic" /\ ~req.aggregate
  <2>1. out' = out \o AnthropicEnd(result)
    BY <1>3 DEF Succeed
  <2>2. QED
    BY <1>1, <1>2, <1>3, <2>1, AnthropicEnds
<1>4. CASE req.format = "anthropic" /\ req.aggregate
  <2>1. out' = out \o AnthropicAggregated(result)
    BY <1>4 DEF Succeed
  <2>2. Told(out, {}, {})
    BY <1>1, <1>4, ToldNothing DEF Underway
  <2>3. QED
    BY <1>1, <1>2, <2>1, <2>2, AnthropicAggregatedEnds
<1>5. CASE req.format = "responses"
  <2>1. \A S : Told(out, S, {})
    BY <1>1, <1>5, ToldNothing DEF Underway
  <2>2. CASE req.aggregate
    <3>1. out' = out \o ResponsesAggregated(result)
      BY <1>5, <2>2 DEF Succeed
    <3>2. Followed(out', "responses", Blank(First))
      BY <1>1, <1>2, <2>1, <3>1, ResponsesAggregatedEnds
    <3>3. QED
      BY <1>2, <1>5, <3>2
  <2>3. CASE ~req.aggregate
    <3>1. out' = out \o ResponsesEnd(result)
      BY <1>5, <2>3 DEF Succeed
    <3>2. Followed(out', "responses", Blank(First))
      BY <1>1, <1>2, <2>1, <3>1, ResponsesEnds
    <3>3. QED
      BY <1>2, <1>5, <3>2
  <2>4. QED
    BY <2>2, <2>3
<1>6. QED
  BY <1>1, <1>3, <1>4, <1>5 DEF StreamTyped, Requests, Formats

(* Typing of the generation's part of the state, step by step.             *)
LEMMA StreamTypedNext ==
  ASSUME StreamInv, Next, thinkingOpen' \in BOOLEAN, textOpen' \in BOOLEAN, IsList(pendingText)'
  PROVE  StreamTyped'
<1> USE DEF StreamTyped
<1>1. StreamTyped /\ Len(text) \in Nat
  BY DEF StreamInv
<1>2. CASE Think
  BY <1>1, <1>2 DEF Think
<1>3. ASSUME NEW delta \in Kinds, Speak(delta) PROVE StreamTyped'
  <2>1. text' = Append(text, delta) /\ UNCHANGED <<req, firstLen, thought>>
    BY <1>3 DEF Speak
  <2>2. text' \in Seq(Kinds) /\ Len(text') = Len(text) + 1
    BY <1>1, <2>1
  <2>3. firstLen' \in NoSecond .. Len(text')
    BY <1>1, <2>1, <2>2 DEF NoSecond
  <2>4. QED
    BY <1>1, <2>1, <2>2, <2>3
<1>4. CASE PromptAgain
  <2>1. firstLen' = Len(text) /\ req.tools /\ UNCHANGED <<req, text, thought>>
    BY <1>4 DEF PromptAgain
  <2>2. firstLen' \in NoSecond .. Len(text')
    BY <1>1, <2>1 DEF NoSecond
  <2>3. QED
    BY <1>1, <2>1, <2>2
<1>5. CASE UNCHANGED genVars
  BY <1>1, <1>5 DEF genVars
<1>6. QED
  BY <1>2, <1>3, <1>4, <1>5 DEF Next, Succeed, HostedAnswer, Fail, Leave, Over, vars

(* Every step keeps the invariant.                                         *)
LEMMA StreamInvNext == StreamInv /\ [Next]_vars => StreamInv'
<1> SUFFICES ASSUME StreamInv, [Next]_vars PROVE StreamInv'
  OBVIOUS
<1>1. StreamTyped /\ phase \in {"streaming", "answered", "failed", "cut"}
  BY DEF StreamInv
<1>2. ASSUME Next, phase' = "streaming", phase = "streaming", Underway',
             thinkingOpen' \in BOOLEAN, textOpen' \in BOOLEAN, IsList(pendingText)'
      PROVE  StreamInv'
  BY <1>2, StreamTypedNext DEF StreamInv
<1>3. ASSUME Next, UNCHANGED <<genVars, writerVars>>, phase' \in {"answered", "failed"},
             req.format # "openai" => Followed(out', req.format, Blank(First))
      PROVE  StreamInv'
  <2>1. StreamTyped'
    BY <1>1, <1>3, StreamTypedNext DEF StreamTyped, writerVars
  <2>2. req' = req /\ Blank(First)' = Blank(First)
    BY <1>3 DEF genVars, Blank, First
  <2>3. QED
    BY <1>3, <2>1, <2>2 DEF StreamInv
<1>4. CASE Think
  <2>1. phase = "streaming" /\ phase' = "streaming" /\ Next
    BY <1>4 DEF Think, Generating, Next
  <2>2. QED
    BY <1>2, <1>4, <2>1, ThinkKeeps
<1>5. ASSUME NEW delta \in Kinds, Speak(delta) PROVE StreamInv'
  <2>1. phase = "streaming" /\ phase' = "streaming" /\ Next
    BY <1>5 DEF Speak, Generating, Next
  <2>2. QED
    BY <1>2, <1>5, <2>1, SpeakKeeps
<1>6. ASSUME NEW result \in Results, Succeed(result) PROVE StreamInv'
  <2>1. UNCHANGED <<genVars, writerVars>> /\ phase' = "answered" /\ Next
    BY <1>6 DEF Succeed, Next
  <2>2. QED
    BY <1>3, <1>6, <2>1, SucceedKeeps
<1>7. CASE PromptAgain
  <2>1. phase = "streaming" /\ phase' = "streaming" /\ Next /\ req' = req /\ UNCHANGED <<writerVars, out>>
    BY <1>7 DEF PromptAgain, Generating, Next
  <2>2. Underway' /\ thinkingOpen' \in BOOLEAN /\ textOpen' \in BOOLEAN /\ IsList(pendingText)'
    BY <1>1, <2>1 DEF StreamInv, Underway, StreamTyped, writerVars
  <2>3. QED
    BY <1>2, <2>1, <2>2
<1>8. CASE HostedAnswer
  <2>1. /\ phase = "streaming" /\ req.format = "hosted" /\ phase' = "answered" /\ Next
        /\ UNCHANGED <<genVars, writerVars>> /\ out' = Tools(0, 1) \o <<Finish(<<>>)>>
    BY <1>8 DEF HostedAnswer, Next
  <2>2. Followed(<<>> \o out', req.format, Blank(First)) /\ IsList(out')
    <3>1. Told(<<>>, {}, {})
      BY ToldNothing
    <3>2. PICK S2 : Goes({}, {}, Tools(0, 1), S2, {})
      BY GoesTools
    <3>3. IsList(Tools(0, 1) \o <<Finish(<<>>)>>)
      BY <3>2, ListOfOne, JoinIsList DEF Joined, Goes
    <3>4. QED
      BY <2>1, <3>1, <3>3, HostedEnds
  <2>3. Followed(out', req.format, Blank(First))
    BY <2>2, EmptyList
  <2>4. QED
    BY <1>3, <2>1, <2>3
<1>9. CASE Fail
  <2>1. phase = "streaming" /\ phase' = "failed" /\ out' = Append(out, Error) /\ Next /\ UNCHANGED <<genVars, writerVars>>
    BY <1>9 DEF Fail, Generating, Next
  <2>2. ASSUME req.format # "openai" PROVE Followed(out', req.format, Blank(First))
    <3>1. Told(out, Begun(req.reasoning, textOpen), Opened(req.reasoning, thinkingOpen, textOpen))
      BY <2>1, <2>2 DEF StreamInv, Underway
    <3>2. Error.what = "error"
      BY DEF Error, Event
    <3>3. out' = out \o <<Error>>
      <4>1. PICK T : out \in Seq(T)
        BY <3>1 DEF Told, IsList
      <4>2. out \in Seq(T \cup {Error})
        BY <4>1, SeqMonotonic
      <4>3. QED
        BY <2>1, <4>2, AppendIsConcat
    <3>4. QED
      BY <3>1, <3>2, <3>3, ToldEnds
  <2>3. QED
    BY <1>3, <2>1, <2>2
<1>10. CASE Leave
  <2>1. phase' = "cut" /\ phase = "streaming" /\ UNCHANGED <<genVars, writerVars, out>> /\ Next
    BY <1>10 DEF Leave, Next
  <2>2. StreamTyped'
    BY <1>1, <2>1, StreamTypedNext DEF StreamTyped, writerVars
  <2>3. Underway'
    BY <2>1 DEF StreamInv, Underway, genVars, writerVars
  <2>4. QED
    BY <2>1, <2>2, <2>3 DEF StreamInv
<1>11. CASE UNCHANGED vars
  BY <1>11 DEF StreamInv, StreamTyped, Underway, First, Blank, vars, genVars, writerVars
<1>12. QED
  BY <1>4, <1>5, <1>6, <1>7, <1>8, <1>9, <1>10, <1>11 DEF Next, Over

(* BlockProtocol holds for any number of deltas and calls and any tail     *)
(* held back: what is written in the Anthropic and Responses formats       *)
(* belongs to blocks that were announced and are open, no index is used    *)
(* for two items, and a finished stream has everything stopped (server.go  *)
(* 946-1142, 1550-1594, 2520-2602).                                        *)
THEOREM BlocksTheorem == Spec => []BlockProtocol
BY StreamInvInit, StreamInvNext, StreamInvProtocol, PTL DEF Spec

-----------------------------------------------------------------------------
(* The stops of a stream so far are those of items, each at its place.     *)
Listed(o, items) ==
  /\ IsList(o) /\ IsList(items)
  /\ \A j \in DOMAIN o : o[j].what # "finish"
  /\ IsFiniteSet({j \in DOMAIN o : o[j].what = "stop"})
  /\ Cardinality({j \in DOMAIN o : o[j].what = "stop"}) = Len(items)
  /\ \A j \in DOMAIN o : o[j].what = "stop" =>
       o[j].index \in 0 .. Len(items) - 1 /\ items[o[j].index + 1] = o[j].item
Adds(items, x, items2) == IsList(x) /\ \A o : Listed(o, items) => Listed(o \o x, items2)

(* No event lists nothing.                                                 *)
LEMMA AddsNothing == ASSUME NEW items PROVE Adds(items, <<>>, items)
<1>1. IsList(<<>>)
  BY EmptyList
<1>2. ASSUME NEW o, Listed(o, items) PROVE Listed(o \o <<>>, items)
  <2>1. o \o <<>> = o
    BY <1>2, EmptyList DEF Listed
  <2>2. QED
    BY <1>2, <2>1
<1>3. QED
  BY <1>1, <1>2 DEF Adds

(* One stretch of events after another.                                    *)
LEMMA AddsOn ==
  ASSUME NEW items, NEW x, NEW items2, Adds(items, x, items2), NEW y, NEW items3, Adds(items2, y, items3)
  PROVE  Adds(items, x \o y, items3)
<1>1. IsList(x) /\ IsList(y)
  BY DEF Adds
<1>2. IsList(x \o y)
  BY <1>1, JoinIsList DEF Joined
<1>3. ASSUME NEW o, Listed(o, items) PROVE Listed(o \o (x \o y), items3)
  <2>1. Listed((o \o x) \o y, items3)
    BY <1>3 DEF Adds
  <2>2. IsList(o)
    BY <1>3 DEF Listed
  <2>3. o \o (x \o y) = (o \o x) \o y
    BY <1>1, <2>2, JoinAssociates
  <2>4. QED
    BY <2>1, <2>3
<1>4. QED
  BY <1>2, <1>3 DEF Adds

(* What neither stops nor finishes lists nothing.                          *)
LEMMA AddsQuiet ==
  ASSUME NEW items, NEW e, e.what # "stop", e.what # "finish"
  PROVE  Adds(items, <<e>>, items)
<1>1. ASSUME NEW o, Listed(o, items) PROVE Listed(o \o <<e>>, items)
  <2> DEFINE u == o \o <<e>>
             n == Len(o)
  <2>1. IsList(o)
    BY <1>1 DEF Listed
  <2>2. /\ IsList(u) /\ n \in Nat /\ DOMAIN o = 1 .. n /\ DOMAIN u = 1 .. n + 1
        /\ u[n + 1] = e /\ \A i \in 1 .. n : u[i] = o[i]
        /\ \A i \in 1 .. n + 1 : i = n + 1 \/ i \in 1 .. n
        /\ \A i \in 1 .. n : i \in 1 .. n + 1 /\ i # n + 1 /\ i < n + 1
    BY <2>1, OneMore
  <2> HIDE DEF u, n
  <2>3. {j \in DOMAIN u : u[j].what = "stop"} = {j \in DOMAIN o : o[j].what = "stop"}
    BY <2>2
  <2>4. \A j \in DOMAIN u : u[j].what # "finish"
    BY <1>1, <2>2 DEF Listed
  <2>5. \A j \in DOMAIN u : u[j].what = "stop" => j \in DOMAIN o /\ u[j] = o[j]
    BY <2>2
  <2>6. Listed(u, items)
    BY <1>1, <2>2, <2>3, <2>4, <2>5 DEF Listed
  <2>7. QED
    BY <2>6 DEF u
<1>2. QED
  BY <1>1, ListOfOne DEF Adds

(* A stop at the next index lists its item.                                *)
LEMMA AddsStop ==
  ASSUME NEW items, NEW index, index = Len(items), NEW item
  PROVE  Adds(items, <<Stop(index, item)>>, items \o <<item>>)
<1> DEFINE e == Stop(index, item)
           more == items \o <<item>>
<1>0. e.what = "stop" /\ e.index = index /\ e.item = item
  BY DEF Stop, Event
<1> HIDE DEF e
<1>1. ASSUME NEW o, Listed(o, items) PROVE Listed(o \o <<e>>, more)
  <2> DEFINE u == o \o <<e>>
             n == Len(o)
             m == Len(items)
             stops == {j \in DOMAIN o : o[j].what = "stop"}
  <2>1. IsList(o) /\ IsList(items)
    BY <1>1 DEF Listed
  <2>2. /\ IsList(u) /\ n \in Nat /\ DOMAIN o = 1 .. n /\ DOMAIN u = 1 .. n + 1
        /\ u[n + 1] = e /\ \A i \in 1 .. n : u[i] = o[i]
        /\ \A i \in 1 .. n + 1 : i = n + 1 \/ i \in 1 .. n
        /\ \A i \in 1 .. n : i \in 1 .. n + 1 /\ i # n + 1 /\ i < n + 1
        /\ n + 1 \in 1 .. n + 1
    BY <2>1, OneMore
  <2>3. /\ IsList(more) /\ m \in Nat /\ more[m + 1] = item /\ \A i \in 1 .. m : more[i] = items[i]
    BY <2>1, OneMore
  <2>4. Len(more) = m + 1
    BY <2>1, ListOfOne, JoinIsList DEF Joined
  <2>5. IsFiniteSet(stops) /\ Cardinality(stops) = m
    BY <1>1 DEF Listed
  <2> HIDE DEF u, n, more
  <2>6. {j \in DOMAIN u : u[j].what = "stop"} = stops \cup {n + 1} /\ n + 1 \notin stops
    BY <1>0, <2>2
  <2>7. \A j \in DOMAIN u : u[j].what # "finish"
    BY <1>0, <1>1, <2>2 DEF Listed
  <2>8. ASSUME NEW j \in DOMAIN u, u[j].what = "stop"
        PROVE  u[j].index \in 0 .. Len(more) - 1 /\ more[u[j].index + 1] = u[j].item
    <3>1. CASE j = n + 1
      BY <1>0, <2>2, <2>3, <2>4, <3>1
    <3>2. CASE j \in 1 .. n
      <4>1. o[j].index \in 0 .. m - 1 /\ items[o[j].index + 1] = o[j].item /\ u[j] = o[j]
        BY <1>1, <2>2, <2>8, <3>2 DEF Listed
      <4>2. o[j].index + 1 \in 1 .. m /\ o[j].index \in 0 .. m
        BY <2>3, <4>1
      <4>3. QED
        BY <2>3, <2>4, <4>1, <4>2
    <3>3. QED
      BY <2>2, <3>1, <3>2
  <2> HIDE DEF m, stops
  <2>9. IsFiniteSet(stops \cup {n + 1}) /\ Cardinality(stops \cup {n + 1}) = m + 1
    BY <2>5, <2>6, FS_AddElement
  <2>10. Listed(u, more)
    BY <2>2, <2>3, <2>4, <2>6, <2>7, <2>8, <2>9 DEF Listed
  <2>11. QED
    BY <2>10 DEF u
<1>2. QED
  BY <1>1, ListOfOne DEF Adds, e

(* A whole block at the next index lists its item.                         *)
LEMMA AddsBlock ==
  ASSUME NEW items, NEW index, index = Len(items), NEW item, NEW content
  PROVE  Adds(items, Block(index, item, content), items \o <<item>>)
<1> DEFINE a == Start(index, item)
           b == Delta(index, item, content)
           c == Stop(index, item)
<1>1. a.what = "start" /\ b.what = "delta"
  BY DEF Start, Delta, Event
<1>2. Adds(items, <<c>>, items \o <<item>>)
  BY AddsStop
<1>3. Block(index, item, content) = (<<a>> \o <<b>>) \o <<c>>
  BY ThreeEvents DEF Block
<1> HIDE DEF a, b, c
<1>4. Adds(items, <<a>>, items) /\ Adds(items, <<b>>, items)
  BY <1>1, AddsQuiet
<1>5. QED
  BY <1>2, <1>3, <1>4, AddsOn

(* Deltas list nothing.                                                    *)
LEMMA AddsDeltas ==
  ASSUME NEW items, NEW index, NEW item, NEW d, IsList(d)
  PROVE  Adds(items, Deltas(index, item, d), items)
<1> DEFINE e == Deltas(index, item, d)
           n == Len(e)
<1>1. IsList(e) /\ \A k \in 1 .. n : e[k] = Delta(index, item, d[k])
  BY DeltasAreList
<1>2. PICK f : n \in Nat /\ f[0] = <<>> /\ f[n] = e /\ \A k \in 1 .. n : f[k] = f[k - 1] \o <<e[k]>>
  <2> HIDE DEF e
  <2>1. QED
    BY <1>1, ListGrows
<1>3. \A k \in 1 .. n : e[k].what = "delta"
  <2>1. \A c : Delta(index, item, c).what = "delta"
    BY DEF Delta, Event
  <2> HIDE DEF e, n
  <2>2. QED
    BY <1>1, <2>1
<1> HIDE DEF e, n
<1> DEFINE Done == {k \in 0 .. n : Adds(items, f[k], items)}
<1>4. 0 \in Done
  BY <1>2, AddsNothing
<1>5. ASSUME NEW k \in 1 .. n, k - 1 \in Done PROVE k \in Done
  <2>1. Adds(items, <<e[k]>>, items)
    BY <1>3, AddsQuiet
  <2>2. Adds(items, f[k - 1] \o <<e[k]>>, items)
    BY <1>5, <2>1, AddsOn
  <2>3. Adds(items, f[k], items)
    BY <1>2, <2>2
  <2>4. k \in 0 .. n
    BY <1>2
  <2>5. QED
    BY <2>3, <2>4
<1>6. n \in Done
  <2> HIDE DEF Done
  <2>1. 0 .. n \subseteq Done
    BY <1>2, <1>4, <1>5, BoundedInduction
  <2>2. QED
    BY <1>2, <2>1
<1>7. QED
  BY <1>2, <1>6 DEF e

(* The items of the calls.                                                 *)
LEMMA ToolItems ==
  ASSUME NEW n \in Nat
  PROVE  IsList([i \in 1 .. n |-> "tool"]) /\ Len([i \in 1 .. n |-> "tool"]) = n
<1> DEFINE t == [i \in 1 .. n |-> "tool"]
<1>1. t \in Seq({"tool"}) /\ Len(t) = n
  OBVIOUS
<1> HIDE DEF t
<1>2. IsList(t) /\ Len(t) = n
  BY <1>1 DEF IsList
<1>3. QED
  BY <1>2 DEF t

(* Tool blocks at the next indices list one call each.                     *)
LEMMA AddsTools ==
  ASSUME NEW items, IsList(items), NEW from \in Nat, from = Len(items), NEW n \in Nat
  PROVE  Adds(items, Tools(from, n), items \o [i \in 1 .. n |-> "tool"])
<1> DEFINE block(k) == Block(from + k - 1, "tool", <<"call">>)
           t == [i \in 1 .. n |-> "tool"]
<1>2. PICK f \in [0 .. n -> Seq(ToolEvents)] :
        f[0] = <<>> /\ f[n] = Tools(from, n) /\ \A k \in 1 .. n : f[k] = f[k - 1] \o block(k)
  BY ToolBlocks
<1>3. IsList(t) /\ Len(t) = n
  BY ToolItems
<1>4. \A k \in 1 .. n : t[k] = "tool"
  OBVIOUS
<1> HIDE DEF t
<1>5. PICK g : g[0] = <<>> /\ g[n] = t /\ \A k \in 1 .. n : g[k] = g[k - 1] \o <<t[k]>>
  BY <1>3, ListGrows, ZenonT(60)
<1> DEFINE Sized == {k \in 0 .. n : IsList(g[k]) /\ Len(g[k]) = k}
<1>6. ASSUME NEW k \in 0 .. n PROVE IsList(g[k]) /\ Len(g[k]) = k
  <2>1. 0 \in Sized
    BY <1>5, EmptyList
  <2>2. ASSUME NEW j \in 1 .. n, j - 1 \in Sized PROVE j \in Sized
    <3> DEFINE s == g[j - 1]
               v == <<t[j]>>
    <3>1. IsList(s) /\ Len(s) = j - 1 /\ IsList(v) /\ Len(v) = 1
      BY <2>2, ListOfOne
    <3>2. g[j] = s \o v
      BY <1>5
    <3> HIDE DEF s, v, Sized
    <3>3. IsList(s \o v) /\ Len(s \o v) = Len(s) + Len(v)
      BY <3>1, JoinIsList DEF Joined
    <3>4. IsList(g[j]) /\ Len(g[j]) = j
      BY <3>1, <3>2, <3>3
    <3>5. QED
      BY <3>4 DEF Sized
  <2>3. 0 .. n \subseteq Sized
    <3> HIDE DEF Sized
    <3>1. QED
      BY <2>1, <2>2, BoundedInduction
  <2>4. QED
    BY <2>3
<1>7. ASSUME NEW k \in 1 .. n PROVE Adds(items \o g[k - 1], block(k), items \o g[k])
  <2> DEFINE s == items \o g[k - 1]
             at == from + k - 1
             v == <<"tool">>
  <2>1. k - 1 \in 0 .. n
    OBVIOUS
  <2>2. IsList(g[k - 1]) /\ Len(g[k - 1]) = k - 1
    BY <1>6, <2>1
  <2>3. Len(s) = Len(items) + Len(g[k - 1])
    BY <2>2, JoinIsList DEF Joined
  <2>4. at = Len(s)
    BY <2>2, <2>3
  <2>5. IsList(v)
    BY ListOfOne
  <2>6. items \o g[k] = s \o v
    <3>1. g[k] = g[k - 1] \o v
      BY <1>4, <1>5
    <3> DEFINE w == g[k - 1]
    <3>2. IsList(w)
      BY <2>2
    <3> HIDE DEF v, w
    <3>3. items \o (w \o v) = (items \o w) \o v
      BY <2>5, <3>2, JoinAssociates, SMTT(30)
    <3>4. QED
      BY <3>1, <3>3 DEF w
  <2> HIDE DEF s, at
  <2>7. Adds(s, Block(at, "tool", <<"call">>), s \o <<"tool">>)
    BY <2>4, AddsBlock
  <2>8. QED
    BY <2>6, <2>7 DEF s, at, v
<1> HIDE DEF block
<1> DEFINE Done == {k \in 0 .. n : Adds(items, f[k], items \o g[k])}
<1>8. 0 \in Done
  <2>1. items \o g[0] = items
    BY <1>5, EmptyList
  <2>2. Adds(items, f[0], items \o g[0])
    BY <1>2, <2>1, AddsNothing
  <2>3. QED
    BY <2>2
<1>9. ASSUME NEW k \in 1 .. n, k - 1 \in Done PROVE k \in Done
  <2>1. Adds(items, f[k - 1] \o block(k), items \o g[k])
    BY <1>7, <1>9, AddsOn
  <2>2. f[k] = f[k - 1] \o block(k)
    BY <1>2
  <2>3. k \in 0 .. n
    OBVIOUS
  <2>4. QED
    BY <2>1, <2>2, <2>3
<1>10. n \in Done
  <2> HIDE DEF Done
  <2>1. 0 .. n \subseteq Done
    BY <1>8, <1>9, BoundedInduction
  <2>2. QED
    BY <2>1
<1>11. QED
  BY <1>2, <1>5, <1>10 DEF t

(* What the final response lists is what was streamed.                     *)
Matches(o) ==
  \A f \in DOMAIN o : o[f].what = "finish" =>
    /\ Cardinality({j \in DOMAIN o : o[j].what = "stop"}) = Len(o[f].content)
    /\ \A t \in DOMAIN o : o[t].what = "stop" =>
         o[t].index < Len(o[f].content) /\ o[f].content[o[t].index + 1] = o[t].item

(* A stream that finishes with the items it stopped matches them.          *)
LEMMA ListedFinish ==
  ASSUME NEW o, NEW items, Listed(o, items)
  PROVE  Matches(o \o <<Finish(items)>>)
<1> DEFINE e == Finish(items)
           u == o \o <<e>>
           n == Len(o)
<1>1. e.what = "finish" /\ e.content = items
  BY DEF Finish, Event
<1>2. IsList(o) /\ IsList(items)
  BY DEF Listed
<1> HIDE DEF e
<1>3. /\ IsList(u) /\ n \in Nat /\ DOMAIN o = 1 .. n /\ DOMAIN u = 1 .. n + 1
      /\ u[n + 1] = e /\ \A i \in 1 .. n : u[i] = o[i]
      /\ \A i \in 1 .. n + 1 : i = n + 1 \/ i \in 1 .. n
      /\ \A i \in 1 .. n : i \in 1 .. n + 1 /\ i # n + 1 /\ i < n + 1
  BY <1>2, OneMore
<1>4. Len(items) \in Nat
  BY <1>2, ListOfOne, JoinIsList DEF Joined
<1> HIDE DEF u, n
<1>5. {j \in DOMAIN u : u[j].what = "stop"} = {j \in DOMAIN o : o[j].what = "stop"}
  BY <1>1, <1>3
<1>6. ASSUME NEW f \in DOMAIN u, u[f].what = "finish"
      PROVE  u[f].content = items
  BY <1>1, <1>3, <1>6 DEF Listed
<1>7. ASSUME NEW t \in DOMAIN u, u[t].what = "stop"
      PROVE  u[t].index < Len(items) /\ items[u[t].index + 1] = u[t].item
  <2>1. t \in DOMAIN o /\ u[t] = o[t]
    BY <1>1, <1>3, <1>7
  <2>2. o[t].index \in 0 .. Len(items) - 1 /\ items[o[t].index + 1] = o[t].item
    BY <1>7, <2>1 DEF Listed
  <2>3. QED
    BY <1>4, <2>1, <2>2
<1>8. Cardinality({j \in DOMAIN o : o[j].what = "stop"}) = Len(items)
  BY DEF Listed
<1>9. Matches(u)
  BY <1>5, <1>6, <1>7, <1>8 DEF Matches
<1>10. QED
  BY <1>9 DEF u, e

(* The items: a thought, a message, and the tool calls.                    *)
Items(k, speak) == If(k, <<"thinking">>) \o If(speak, <<"text">>)

(* How many items come before the calls.                                   *)
LEMMA ItemsAre ==
  ASSUME NEW k \in BOOLEAN, NEW speak \in BOOLEAN
  PROVE  /\ IsList(If(k, <<"thinking">>)) /\ Len(If(k, <<"thinking">>)) = At0(k)
         /\ IsList(Items(k, speak)) /\ Len(Items(k, speak)) = IF speak THEN At0(k) + 1 ELSE At0(k)
<1> DEFINE a == If(k, <<"thinking">>)
           b == If(speak, <<"text">>)
<1>1. IsList(<<>>) /\ Len(<<>>) = 0 /\ IsList(<<"thinking">>) /\ IsList(<<"text">>)
  BY EmptyList, ListOfOne
<1>2. IsList(a) /\ Len(a) = At0(k)
  BY <1>1 DEF If, At0
<1>3. IsList(b) /\ Len(b) = IF speak THEN 1 ELSE 0
  BY <1>1 DEF If
<1>4. Items(k, speak) = a \o b
  BY DEF Items
<1> HIDE DEF a, b
<1>5. IsList(a \o b) /\ Len(a \o b) = Len(a) + Len(b)
  BY <1>2, <1>3, JoinIsList DEF Joined
<1>6. At0(k) \in Nat
  BY DEF At0
<1>7. QED
  BY <1>2, <1>3, <1>4, <1>5, <1>6 DEF a

(* Completing a Responses stream lists the message, if it is part of the   *)
(* answer, and the calls.                                                  *)
LEMMA AddsCompleting ==
  ASSUME NEW k \in BOOLEAN, NEW m \in BOOLEAN, NEW speak \in BOOLEAN, NEW n \in Nat
  PROVE  Adds(If(k, <<"thinking">>), Completing(k, m, speak, n), Items(k, speak) \o [i \in 1 .. n |-> "tool"])
<1> DEFINE at == At0(k)
           start == If(speak /\ ~m, <<Start(at, "text")>>)
           stop == If(speak, <<Stop(at, "text")>>)
           from == IF speak THEN at + 1 ELSE at
           thinking == If(k, <<"thinking">>)
           both == Items(k, speak)
<1>1. at \in Nat /\ from \in Nat /\ IsList(thinking) /\ Len(thinking) = at /\ IsList(both) /\ Len(both) = from
  BY ItemsAre DEF At0
<1>2. Start(at, "text").what = "start"
  BY DEF Start, Event
<1>3. start = <<>> \/ start = <<Start(at, "text")>>
  BY DEF If
<1>4. Completing(k, m, speak, n) = (start \o stop) \o Tools(from, n)
  BY DEF Completing
<1>5. (speak => stop = <<Stop(at, "text")>> /\ both = thinking \o <<"text">>) /\ (~speak => stop = <<>> /\ both = thinking \o <<>>)
  BY DEF If, Items
<1> HIDE DEF at, start, stop, from, thinking, both
<1>6. Adds(thinking, start, thinking)
  BY <1>2, <1>3, AddsNothing, AddsQuiet
<1>7. Adds(thinking, stop, both)
  <2>1. CASE speak
    BY <1>1, <1>5, <2>1, AddsStop
  <2>2. CASE ~speak
    <3>1. both = thinking
      BY <1>1, <1>5, <2>2, EmptyList
    <3>2. QED
      BY <1>5, <2>2, <3>1, AddsNothing
  <2>3. QED
    BY <2>1, <2>2
<1>8. Adds(both, Tools(from, n), both \o [i \in 1 .. n |-> "tool"])
  BY <1>1, AddsTools
<1> DEFINE all == both \o [i \in 1 .. n |-> "tool"]
<1> HIDE DEF all
<1>9. Adds(thinking, (start \o stop) \o Tools(from, n), all)
  <2>1. Adds(both, Tools(from, n), all)
    BY <1>8 DEF all
  <2>2. QED
    BY <1>6, <1>7, <2>1, AddsOn
<1>10. QED
  BY <1>4, <1>9 DEF all, both, thinking

(* A Responses stream finishes with the items it stopped.                  *)
LEMMA ResponsesEndMatches ==
  ASSUME StreamTyped, NEW o, Listed(o, <<>>), NEW result, result.calls \in Nat
  PROVE  Matches(o \o ResponsesEnd(result))
<1> DEFINE k == req.reasoning /\ thought /\ thoughts > 0
           at == At0(k)
           d == IF result.calls > 0 THEN <<>> ELSE pendingText \o If(Flush # <<>>, <<Flush>>)
           m == d # <<>>
           speak == ResponseText(result) # <<>>
           a == If(k, Block(0, "thinking", <<"thinking">>))
           b == If(m, <<Start(at, "text")>>)
           c == Deltas(at, "text", d)
           C == Completing(k, m, speak, result.calls)
           all == Items(k, speak) \o [i \in 1 .. result.calls |-> "tool"]
<1>1. k \in BOOLEAN /\ m \in BOOLEAN /\ speak \in BOOLEAN
  BY DEF StreamTyped
<1>2. IsList(d)
  BY PendingIsList
<1>3. ResponsesEnd(result) = ((a \o b) \o c) \o Completed(result, m, k)
  BY DEF ResponsesEnd, At0, Deltas
<1>4. ResponseOutput(result, k) = all
  <2>1. (k /\ thought) = k
    BY DEF StreamTyped
  <2>2. QED
    BY <2>1 DEF ResponseOutput, Items
<1> HIDE DEF k, d, m, speak, at, all
<1>5. Completed(result, m, k) = C \o <<Finish(all)>>
  BY <1>1, <1>4, CompletedIs DEF speak
<1> DEFINE thinking == If(k, <<"thinking">>)
<1>6. Adds(<<>>, a, thinking)
  <2>1. CASE k
    <3>1. Adds(<<>>, Block(0, "thinking", <<"thinking">>), <<>> \o <<"thinking">>)
      BY AddsBlock
    <3>2. <<>> \o <<"thinking">> = <<"thinking">>
      BY ListOfOne, EmptyList
    <3>3. a = Block(0, "thinking", <<"thinking">>) /\ thinking = <<"thinking">>
      BY <2>1 DEF If
    <3> HIDE DEF a, thinking
    <3>4. QED
      BY <3>1, <3>2, <3>3
  <2>2. CASE ~k
    <3>1. a = <<>> /\ thinking = <<>>
      BY <2>2 DEF If
    <3> HIDE DEF a, thinking
    <3>2. QED
      BY <3>1, AddsNothing
  <2>3. QED
    BY <1>1, <2>1, <2>2
<1>7. Adds(thinking, b, thinking)
  <2>1. Start(at, "text").what = "start"
    BY DEF Start, Event
  <2>2. b = <<>> \/ b = <<Start(at, "text")>>
    BY DEF If
  <2> HIDE DEF b
  <2>3. QED
    BY <2>1, <2>2, AddsNothing, AddsQuiet
<1>8. Adds(thinking, c, thinking)
  BY <1>2, AddsDeltas
<1>9. Adds(thinking, C, all)
  BY <1>1, AddsCompleting DEF all
<1> HIDE DEF a, b, c, C, thinking
<1> DEFINE x == (a \o b) \o c
<1>10. Adds(<<>>, x, thinking)
  BY <1>6, <1>7, <1>8, AddsOn
<1> HIDE DEF x
<1>11. Adds(<<>>, x \o C, all)
  BY <1>9, <1>10, AddsOn
<1>12. Listed(o \o (x \o C), all)
  BY <1>11 DEF Adds
<1>13. Matches((o \o (x \o C)) \o <<Finish(all)>>)
  BY <1>12, ListedFinish
<1>14. ResponsesEnd(result) = x \o (C \o <<Finish(all)>>)
  BY <1>3, <1>5 DEF x
<1> DEFINE e == <<Finish(all)>>
<1>15. IsList(o) /\ IsList(x) /\ IsList(C) /\ IsList(x \o C) /\ IsList(e)
  BY <1>9, <1>10, <1>11, ListOfOne DEF Listed, Adds
<1> HIDE DEF e
<1>16. o \o (x \o (C \o e)) = (o \o (x \o C)) \o e
  BY <1>15, JoinAssociates, SMTT(30)
<1>17. QED
  BY <1>13, <1>14, <1>16 DEF e

MatchInv ==
  /\ StreamInv
  /\ phase \notin {"streaming", "cut"} /\ req.format = "responses" /\ ~req.aggregate => Matches(out)

(* Every step keeps the match.                                             *)
LEMMA MatchInvNext == MatchInv /\ [Next]_vars => MatchInv'
<1> SUFFICES ASSUME MatchInv, [Next]_vars PROVE MatchInv'
  OBVIOUS
<1>1. StreamInv /\ StreamInv'
  BY StreamInvNext DEF MatchInv
<1>2. ASSUME phase = "streaming", req.format = "responses", ~req.aggregate
      PROVE  out = <<>> /\ Listed(out, <<>>)
  <2>1. out = <<>>
    BY <1>1, <1>2 DEF StreamInv, Underway
  <2>2. IsList(<<>>) /\ {j \in DOMAIN <<>> : <<>>[j].what = "stop"} = {} /\ Len(<<>>) = 0
    BY EmptyList
  <2>3. Listed(<<>>, <<>>)
    BY <2>2, FS_EmptySet DEF Listed
  <2>4. QED
    BY <2>1, <2>3
<1>3. CASE UNCHANGED <<req, out, phase>>
  BY <1>1, <1>3 DEF MatchInv, Matches
<1>4. CASE phase' \in {"streaming", "cut"}
  BY <1>1, <1>4 DEF MatchInv
<1>5. ASSUME NEW result \in Results, Succeed(result) PROVE MatchInv'
  <2> SUFFICES ASSUME req.format = "responses", ~req.aggregate PROVE Matches(out')
    BY <1>1, <1>5 DEF MatchInv, Succeed, genVars
  <2>1. phase = "streaming" /\ out' = out \o ResponsesEnd(result)
    BY <1>5 DEF Succeed, Generating
  <2>2. StreamTyped /\ result.calls \in Nat
    BY <1>1, ResultsAre DEF StreamInv
  <2>3. QED
    BY <1>2, <2>1, <2>2, ResponsesEndMatches
<1>6. CASE HostedAnswer
  BY <1>1, <1>6 DEF MatchInv, HostedAnswer, genVars
<1>7. CASE Fail
  <2> SUFFICES ASSUME req.format = "responses", ~req.aggregate PROVE Matches(out')
    BY <1>1, <1>7 DEF MatchInv, Fail, genVars
  <2>1. phase = "streaming" /\ out' = Append(out, Error)
    BY <1>7 DEF Fail, Generating
  <2>2. out' = <<Error>>
    <3>1. <<>> \in Seq({Error})
      OBVIOUS
    <3>2. Append(<<>>, Error) = <<>> \o <<Error>>
      BY <3>1, AppendIsConcat
    <3>3. <<>> \o <<Error>> = <<Error>>
      BY ListOfOne, EmptyList
    <3>4. QED
      BY <1>2, <2>1, <3>2, <3>3
  <2>3. Error.what = "error"
    BY DEF Error, Event
  <2>4. \A f \in DOMAIN out' : out'[f] = Error
    BY <2>2
  <2>5. QED
    BY <2>3, <2>4 DEF Matches
<1>8. CASE Think
  BY <1>4, <1>8 DEF Think, Generating
<1>9. ASSUME NEW delta \in Kinds, Speak(delta) PROVE MatchInv'
  BY <1>4, <1>9 DEF Speak, Generating
<1>10. CASE PromptAgain
  BY <1>4, <1>10 DEF PromptAgain, Generating
<1>11. CASE Leave
  BY <1>4, <1>11 DEF Leave
<1>12. QED
  BY <1>3, <1>5, <1>6, <1>7, <1>8, <1>9, <1>10, <1>11 DEF Next, Over, vars, genVars

(* The match is what CompletedMatchesItems says.                           *)
LEMMA MatchInvMatches == MatchInv => CompletedMatchesItems
<1> SUFFICES ASSUME MatchInv, req.format = "responses", ~req.aggregate PROVE CompletedMatchesItems
  BY DEF CompletedMatchesItems
<1>1. CASE phase \in {"streaming", "cut"}
  <2>1. out = <<>>
    BY <1>1 DEF MatchInv, StreamInv, Underway
  <2>2. QED
    BY <2>1 DEF CompletedMatchesItems, Is
<1>2. CASE phase \notin {"streaming", "cut"}
  BY <1>2 DEF MatchInv, Matches, CompletedMatchesItems, Is
<1>3. QED
  BY <1>1, <1>2

(* CompletedMatchesItems holds for any number of deltas and calls: the     *)
(* final response of a Responses stream lists exactly the items that were  *)
(* streamed, each at its index (server.go 2364-2404, 2520-2602).           *)
THEOREM ItemsTheorem == Spec => []CompletedMatchesItems
<1>1. Init => MatchInv
  BY StreamInvInit DEF MatchInv, Init
<1>2. QED
  BY <1>1, MatchInvNext, MatchInvMatches, PTL DEF Spec

-----------------------------------------------------------------------------
(* What one event writes as text, and what a stream has written.           *)
Part(e) == If(e.what = "delta" /\ e.item = "text", e.content)
Parts(o) == [j \in DOMAIN o |-> Part(o[j])]
Writes(o, w) == IsList(o) /\ w \in Seq(Shows) /\ Parts(o) \in Seq(Seq(Shows)) /\ FlattenSeq(Parts(o)) = w

(* An empty stream has written nothing.                                    *)
LEMMA WritesNothing == Writes(<<>>, <<>>)
<1>1. Parts(<<>>) = <<>>
  BY DEF Parts
<1>2. <<>> \in Seq(Shows) /\ <<>> \in Seq(Seq(Shows))
  OBVIOUS
<1>3. IsList(<<>>) /\ FlattenSeq(<<>>) = <<>>
  BY FlattenNothing, EmptyList
<1>4. QED
  BY <1>1, <1>2, <1>3, Zenon DEF Writes

(* One event more writes its part more.                                    *)
LEMMA WritesMore ==
  ASSUME NEW o, NEW w, Writes(o, w), NEW e, Part(e) \in Seq(Shows)
  PROVE  Writes(o \o <<e>>, w \o Part(e))
<1> DEFINE u == o \o <<e>>
           n == Len(o)
           E == Parts(o)
           E2 == Parts(u)
<1>1. IsList(o) /\ w \in Seq(Shows) /\ E \in Seq(Seq(Shows)) /\ FlattenSeq(E) = w
  BY DEF Writes
<1>2. /\ IsList(u) /\ n \in Nat /\ DOMAIN o = 1 .. n /\ DOMAIN u = 1 .. n + 1
      /\ u[n + 1] = e /\ \A i \in 1 .. n : u[i] = o[i]
      /\ \A i \in 1 .. n + 1 : i = n + 1 \/ i \in 1 .. n
      /\ \A i \in 1 .. n : i \in 1 .. n + 1 /\ i # n + 1 /\ i < n + 1
      /\ n + 1 \in 1 .. n + 1
  BY <1>1, OneMore
<1> HIDE DEF u, n
<1>3. Len(E) = n /\ \A i \in 1 .. n : E[i] = Part(o[i]) /\ E[i] \in Seq(Shows)
  <2>1. E = [j \in 1 .. n |-> Part(o[j])]
    BY <1>2 DEF Parts
  <2>2. DOMAIN E = 1 .. n
    BY <2>1
  <2> HIDE DEF E
  <2>3. Len(E) = n /\ \A i \in 1 .. n : E[i] \in Seq(Shows)
    BY <1>1, <1>2, <2>2
  <2>4. \A i \in 1 .. n : E[i] = Part(o[i])
    BY <2>1
  <2>5. QED
    BY <2>3, <2>4
<1> HIDE DEF E
<1>4. E2 = [j \in 1 .. n + 1 |-> Part(u[j])]
  BY <1>2 DEF Parts
<1>5. \A i \in 1 .. n + 1 : Part(u[i]) \in Seq(Shows)
  BY <1>2, <1>3
<1>6. E2 \in Seq(Seq(Shows)) /\ Len(E2) = n + 1 /\ E2[n + 1] = Part(e) /\ \A i \in 1 .. n : E2[i] = E[i]
  <2>1. \A i \in 1 .. n + 1 : E2[i] = Part(u[i])
    BY <1>4
  <2>2. E2 \in Seq(Seq(Shows)) /\ Len(E2) = n + 1
    BY <1>2, <1>4, <1>5
  <2>3. QED
    BY <1>2, <1>3, <2>1, <2>2
<1> HIDE DEF E2
<1>7. FlattenSeq(E2) = FlattenSeq(E) \o Part(e)
  BY <1>1, <1>3, <1>6, FlattenNext
<1>8. w \o Part(e) \in Seq(Shows)
  BY <1>1
<1>9. Writes(u, w \o Part(e))
  BY <1>1, <1>2, <1>6, <1>7, <1>8 DEF Writes, E2
<1>10. QED
  BY <1>9 DEF u

(* Some events more write v.                                               *)
Pens(x, v) == IsList(x) /\ v \in Seq(Shows) /\ \A o, w : Writes(o, w) => Writes(o \o x, w \o v)

(* No event writes nothing.                                                *)
LEMMA PensNothing == Pens(<<>>, <<>>)
<1>1. ASSUME NEW o, NEW w, Writes(o, w) PROVE Writes(o \o <<>>, w \o <<>>)
  <2>1. o \o <<>> = o
    BY <1>1, EmptyList DEF Writes
  <2>2. w \o <<>> = w
    BY <1>1, ConcatEmptySeq DEF Writes
  <2>3. QED
    BY <1>1, <2>1, <2>2
<1>2. QED
  BY <1>1, EmptyList DEF Pens

(* One event writes its part.                                              *)
LEMMA PensOne ==
  ASSUME NEW e, Part(e) \in Seq(Shows)
  PROVE  Pens(<<e>>, Part(e))
BY ListOfOne, WritesMore DEF Pens

(* One stretch of events after another.                                    *)
LEMMA PensOn ==
  ASSUME NEW x, NEW v, Pens(x, v), NEW y, NEW v2, Pens(y, v2)
  PROVE  Pens(x \o y, v \o v2)
<1>1. IsList(x) /\ IsList(y) /\ v \in Seq(Shows) /\ v2 \in Seq(Shows)
  BY DEF Pens
<1>2. IsList(x \o y) /\ v \o v2 \in Seq(Shows)
  BY <1>1, JoinIsList DEF Joined
<1>3. ASSUME NEW o, NEW w, Writes(o, w) PROVE Writes(o \o (x \o y), w \o (v \o v2))
  <2>1. Writes((o \o x) \o y, (w \o v) \o v2)
    BY <1>3 DEF Pens
  <2>2. IsList(o) /\ w \in Seq(Shows)
    BY <1>3 DEF Writes
  <2>3. o \o (x \o y) = (o \o x) \o y
    BY <1>1, <2>2, JoinAssociates
  <2>4. w \o (v \o v2) = (w \o v) \o v2
    BY <1>1, <2>2, ConcatAssociative, SMTT(30)
  <2>5. QED
    BY <2>1, <2>3, <2>4
<1>4. QED
  BY <1>2, <1>3 DEF Pens

(* The same, when only one of the two writes.                              *)
LEMMA PensFirst ==
  ASSUME NEW x, NEW v, Pens(x, v), NEW y, Pens(y, <<>>)
  PROVE  Pens(x \o y, v) /\ Pens(y \o x, v)
<1>1. v \o <<>> = v /\ <<>> \o v = v
  BY ConcatEmptySeq DEF Pens
<1>2. Pens(x \o y, v \o <<>>) /\ Pens(y \o x, <<>> \o v)
  BY PensOn
<1>3. QED
  BY <1>1, <1>2

(* Events without a part write nothing.                                    *)
LEMMA PensQuiet ==
  ASSUME NEW x, IsList(x), \A i \in 1 .. Len(x) : Part(x[i]) = <<>>
  PROVE  Pens(x, <<>>)
<1> DEFINE n == Len(x)
<1>1. PICK f : n \in Nat /\ f[0] = <<>> /\ f[n] = x /\ \A k \in 1 .. n : f[k] = f[k - 1] \o <<x[k]>>
  BY ListGrows
<1>2. \A k \in 1 .. n : Part(x[k]) = <<>>
  OBVIOUS
<1> HIDE DEF n
<1> DEFINE Done == {k \in 0 .. n : Pens(f[k], <<>>)}
<1>3. 0 \in Done
  BY <1>1, PensNothing
<1>4. ASSUME NEW k \in 1 .. n, k - 1 \in Done PROVE k \in Done
  <2>1. <<>> \in Seq(Shows)
    OBVIOUS
  <2>2. Part(x[k]) = <<>>
    BY <1>2
  <2>3. Pens(<<x[k]>>, <<>>)
    BY <2>1, <2>2, PensOne
  <2>4. Pens(f[k - 1] \o <<x[k]>>, <<>>)
    BY <1>4, <2>3, PensFirst
  <2>5. Pens(f[k], <<>>) /\ k \in 0 .. n
    <3>1. f[k] = f[k - 1] \o <<x[k]>>
      BY <1>1
    <3>2. k \in 0 .. n
      BY <1>1
    <3>3. QED
      BY <2>4, <3>1, <3>2
  <2>6. QED
    BY <2>5
<1>5. n \in Done
  <2> HIDE DEF Done
  <2>1. 0 .. n \subseteq Done
    BY <1>1, <1>3, <1>4, BoundedInduction
  <2>2. QED
    BY <1>1, <2>1
<1>6. QED
  BY <1>1, <1>5

-----------------------------------------------------------------------------
(* Text without the thoughts in it.                                        *)
Words(w) == [i \in DOMAIN w |-> If(w[i] # "thought", <<w[i]>>)]
Drop(w) == FlattenSeq(Words(w))

(* No text has no thoughts in it.                                          *)
LEMMA DropNothing == Drop(<<>>) = <<>>
<1>1. Words(<<>>) = <<>>
  BY DEF Words
<1>2. QED
  BY <1>1, FlattenNothing DEF Drop

(* One delta without the thought it may be.                                *)
LEMMA WordIs ==
  ASSUME NEW k \in Shows
  PROVE  If(k # "thought", <<k>>) \in Seq(Shows)
<1>1. <<>> \in Seq(Shows) /\ <<k>> \in Seq(Shows)
  OBVIOUS
<1>2. QED
  BY <1>1 DEF If

(* Text, delta by delta.                                                   *)
LEMMA WordsAre ==
  ASSUME NEW w \in Seq(Shows)
  PROVE  /\ Words(w) \in Seq(Seq(Shows)) /\ Len(Words(w)) = Len(w)
         /\ \A i \in 1 .. Len(w) : Words(w)[i] = If(w[i] # "thought", <<w[i]>>)
<1> DEFINE n == Len(w)
           word(i) == If(w[i] # "thought", <<w[i]>>)
<1>1. n \in Nat /\ DOMAIN w = 1 .. n /\ \A i \in 1 .. n : w[i] \in Shows
  OBVIOUS
<1>2. \A i \in 1 .. n : word(i) \in Seq(Shows)
  BY <1>1, WordIs
<1>3. Words(w) = [i \in 1 .. n |-> word(i)]
  BY <1>1 DEF Words
<1> HIDE DEF n, word
<1>4. Words(w) \in Seq(Seq(Shows)) /\ Len(Words(w)) = n /\ \A i \in 1 .. n : Words(w)[i] = word(i)
  BY <1>1, <1>2, <1>3
<1>5. QED
  BY <1>4 DEF n, word

(* One delta more is one word more, unless it is a thought.                *)
LEMMA DropMore ==
  ASSUME NEW w \in Seq(Shows), NEW k \in Shows
  PROVE  Drop(w) \in Seq(Shows) /\ Drop(w \o <<k>>) = Drop(w) \o If(k # "thought", <<k>>)
<1> DEFINE u == w \o <<k>>
           n == Len(w)
<1>1. u \in Seq(Shows) /\ Len(u) = n + 1 /\ u[n + 1] = k /\ n \in Nat /\ \A i \in 1 .. n : u[i] = w[i]
  OBVIOUS
<1> HIDE DEF u
<1>2. /\ Words(w) \in Seq(Seq(Shows)) /\ Len(Words(w)) = n
      /\ \A i \in 1 .. n : Words(w)[i] = If(w[i] # "thought", <<w[i]>>)
  BY WordsAre
<1>3. /\ Words(u) \in Seq(Seq(Shows)) /\ Len(Words(u)) = n + 1
      /\ \A i \in 1 .. n + 1 : Words(u)[i] = If(u[i] # "thought", <<u[i]>>)
  BY <1>1, WordsAre
<1> HIDE DEF n
<1>4. If(k # "thought", <<k>>) \in Seq(Shows)
  BY WordIs
<1>5. \A i \in 1 .. n : i \in 1 .. n + 1
  BY <1>1
<1>6. n + 1 \in 1 .. n + 1
  BY <1>1
<1>7. Words(u)[n + 1] = If(k # "thought", <<k>>) /\ \A i \in 1 .. n : Words(u)[i] = Words(w)[i]
  BY <1>1, <1>2, <1>3, <1>5, <1>6
<1>8. Drop(w) \in Seq(Shows) /\ Drop(u) = Drop(w) \o If(k # "thought", <<k>>)
  BY <1>2, <1>3, <1>4, <1>7, FlattenNext DEF Drop
<1>9. QED
  BY <1>8 DEF u

(* What comes first is shown first.                                        *)
LEMMA DropJoin ==
  ASSUME NEW w \in Seq(Shows), NEW v \in Seq(Shows)
  PROVE  Drop(w) \in Seq(Shows) /\ \E r \in Seq(Shows) : Drop(w \o v) = Drop(w) \o r
<1>0. Drop(w) \in Seq(Shows)
  BY DropMore, "word" \in Shows DEF Shows, Kinds
<1> DEFINE n == Len(v)
<1>1. IsList(v)
  BY DEF IsList
<1>2. PICK f : n \in Nat /\ f[0] = <<>> /\ f[n] = v /\ \A k \in 1 .. n : f[k] = f[k - 1] \o <<v[k]>>
  BY <1>1, ListGrows
<1>3. \A k \in 1 .. n : v[k] \in Shows
  OBVIOUS
<1> HIDE DEF n
<1> DEFINE After(s) == \E r \in Seq(Shows) : Drop(w \o s) = Drop(w) \o r
           Done == {k \in 0 .. n : f[k] \in Seq(Shows) /\ After(f[k])}
<1>4. 0 \in Done
  <2>1. <<>> \in Seq(Shows) /\ w \o <<>> = w /\ Drop(w) \o <<>> = Drop(w)
    BY <1>0, ConcatEmptySeq
  <2>2. After(<<>>)
    BY <2>1
  <2>3. f[0] = <<>> /\ 0 \in 0 .. n
    BY <1>2
  <2> HIDE DEF After
  <2>4. f[0] \in Seq(Shows) /\ After(f[0])
    BY <2>1, <2>2, <2>3
  <2>5. QED
    BY <2>3, <2>4
<1>5. ASSUME NEW k \in 1 .. n, k - 1 \in Done PROVE k \in Done
  <2> DEFINE s == f[k - 1]
             c == v[k]
             p == If(c # "thought", <<c>>)
  <2>1. s \in Seq(Shows) /\ After(s)
    BY <1>5
  <2>2. c \in Shows
    BY <1>3
  <2>3. p \in Seq(Shows) /\ <<c>> \in Seq(Shows)
    BY <2>2, WordIs
  <2>4. f[k] = s \o <<c>>
    BY <1>2
  <2> HIDE DEF s, c
  <2>5. PICK r \in Seq(Shows) : Drop(w \o s) = Drop(w) \o r
    BY <2>1
  <2>6. w \o s \in Seq(Shows)
    BY <2>1
  <2>7. Drop((w \o s) \o <<c>>) = Drop(w \o s) \o p
    BY <2>2, <2>6, DropMore
  <2> HIDE DEF p
  <2>8. w \o (s \o <<c>>) = (w \o s) \o <<c>>
    BY <2>1, <2>3, ConcatAssociative
  <2>9. (Drop(w) \o r) \o p = Drop(w) \o (r \o p)
    BY <1>0, <2>3, ConcatAssociative
  <2>10. r \o p \in Seq(Shows) /\ s \o <<c>> \in Seq(Shows)
    BY <2>1, <2>3
  <2>11. After(s \o <<c>>)
    BY <2>5, <2>7, <2>8, <2>9, <2>10
  <2> HIDE DEF After
  <2>12. k \in 0 .. n
    BY <1>2
  <2>13. QED
    BY <2>4, <2>10, <2>11, <2>12
<1>6. n \in Done
  <2> HIDE DEF Done
  <2>1. 0 .. n \subseteq Done
    BY <1>2, <1>4, <1>5, BoundedInduction
  <2>2. QED
    BY <1>2, <2>1
<1>7. QED
  BY <1>0, <1>2, <1>6

-----------------------------------------------------------------------------
(* No marker begins in w.                                                  *)
Unmarked(w) == \A i \in DOMAIN w : ~MarkerAt(w, i)

(* What is cut off at the end leaves nothing marked.                       *)
LEMMA UnmarkedPrefix ==
  ASSUME NEW T, NEW w \in Seq(T), NEW v \in Seq(T), NEW c \in Nat, Len(v) = c, c <= Len(w),
         \A i \in 1 .. c : v[i] = w[i], \A i \in 1 .. c : ~MarkerAt(w, i)
  PROVE  Unmarked(v)
<1>1. DOMAIN v = 1 .. c /\ Len(w) \in Nat
  OBVIOUS
<1>2. ASSUME NEW i \in 1 .. c, MarkerAt(v, i) PROVE FALSE
  <2>1. v[i] = w[i]
    OBVIOUS
  <2>2. i < c => i + 1 \in 1 .. c /\ v[i + 1] = w[i + 1] /\ i < Len(w)
    <3>1. i < c => i + 1 \in 1 .. c /\ i < Len(w)
      BY <1>1
    <3>2. QED
      BY <3>1
  <2>3. MarkerAt(w, i)
    BY <1>2, <2>1, <2>2 DEF MarkerAt
  <2>4. QED
    BY <2>3
<1>3. QED
  BY <1>1, <1>2 DEF Unmarked

(* What comes first in unmarked text is unmarked.                          *)
LEMMA UnmarkedFirst ==
  ASSUME NEW w \in Seq(Shows), NEW v \in Seq(Shows), Unmarked(w \o v)
  PROVE  Unmarked(w)
<1> DEFINE u == w \o v
           c == Len(w)
<1>1. u \in Seq(Shows) /\ c \in Nat /\ c <= Len(u) /\ \A i \in 1 .. c : w[i] = u[i] /\ i \in DOMAIN u
  OBVIOUS
<1>2. \A i \in 1 .. c : ~MarkerAt(u, i)
  BY <1>1 DEF Unmarked
<1> HIDE DEF u
<1>3. QED
  BY <1>1, <1>2, UnmarkedPrefix

(* A delta after text without a marker: one can only be in its last two.   *)
LEMMA UnmarkedMore ==
  ASSUME NEW w \in Seq(Shows), NEW b \in Seq(Shows), NEW k \in Shows,
         Unmarked(w \o b), Unmarked(b \o <<k>>), b = <<>> => w = <<>>
  PROVE  Unmarked((w \o b) \o <<k>>)
<1> DEFINE a == w \o b
           u == a \o <<k>>
           s == b \o <<k>>
           c == Len(a)
           d == Len(b)
           n == Len(w)
<1>1. a \in Seq(Shows) /\ c = n + d /\ n \in Nat /\ d \in Nat /\ \A i \in 1 .. d : a[n + i] = b[i]
  OBVIOUS
<1>2. s \in Seq(Shows) /\ Len(s) = d + 1 /\ s[d + 1] = k /\ \A i \in 1 .. d : s[i] = b[i]
  OBVIOUS
<1>3. d = 0 => n = 0
  OBVIOUS
<1>4. Unmarked(a) /\ Unmarked(s)
  OBVIOUS
<1> HIDE DEF a, s, n
<1>5. u \in Seq(Shows) /\ Len(u) = c + 1 /\ u[c + 1] = k /\ \A i \in 1 .. c : u[i] = a[i]
  BY <1>1, SMTT(30)
<1> HIDE DEF u, c, d
<1>6. c \in Nat /\ DOMAIN u = 1 .. c + 1 /\ DOMAIN a = 1 .. c /\ DOMAIN s = 1 .. d + 1 /\ Len(a) = c
  BY <1>1, <1>2, <1>5 DEF c
<1>7. ASSUME NEW i \in 1 .. c + 1, MarkerAt(u, i) PROVE FALSE
  <2>1. CASE i = c + 1
    <3>1. u[i] = "json"
      BY <1>5, <1>6, <1>7, <2>1 DEF MarkerAt
    <3>2. s[d + 1] = "json" /\ d + 1 \in 1 .. d + 1
      BY <1>1, <1>2, <1>5, <2>1, <3>1
    <3>3. QED
      BY <1>4, <1>6, <3>2 DEF Unmarked, MarkerAt
  <2>2. CASE i \in 1 .. c
    <3>1. u[i] = a[i] /\ ~MarkerAt(a, i)
      BY <1>4, <1>5, <1>6, <2>2 DEF Unmarked
    <3>2. u[i] = "half" /\ u[i + 1] = "action" /\ a[i] # "json"
      BY <1>7, <3>1 DEF MarkerAt
    <3>3. CASE i = c
      <4>1. d \in 1 .. d /\ d >= 1
        BY <1>1, <1>3, <1>6, <2>2
      <4>2. a[c] = b[d] /\ s[d] = b[d]
        BY <1>1, <1>2, <4>1
      <4>3. s[d] = "half" /\ s[d + 1] = "action" /\ d < d + 1 /\ d \in 1 .. d + 1
        BY <1>1, <1>2, <1>5, <3>1, <3>2, <3>3, <4>1, <4>2
      <4>4. MarkerAt(s, d)
        BY <1>2, <4>3 DEF MarkerAt
      <4>5. QED
        BY <1>4, <1>6, <4>3, <4>4 DEF Unmarked
    <3>4. CASE i # c
      <4>1. i < c /\ i + 1 \in 1 .. c
        BY <1>6, <2>2, <3>4
      <4>2. a[i + 1] = "action" /\ a[i] = "half"
        BY <1>5, <3>1, <3>2, <4>1
      <4>3. MarkerAt(a, i)
        BY <1>6, <4>1, <4>2 DEF MarkerAt
      <4>4. QED
        BY <3>1, <4>3
    <3>5. QED
      BY <3>3, <3>4
  <2>3. QED
    BY <1>6, <2>1, <2>2
<1>8. Unmarked(u)
  BY <1>6, <1>7 DEF Unmarked
<1>9. QED
  BY <1>8 DEF u, a

(* Where the first marker begins.                                          *)
LEMMA MarkerStartIs ==
  ASSUME NEW s \in Seq(Shows)
  PROVE  /\ MarkerStart(s) \in 1 .. Len(s) + 1
         /\ \A i \in 1 .. Len(s) : i < MarkerStart(s) => ~MarkerAt(s, i)
<1> DEFINE at == {i \in DOMAIN s : MarkerAt(s, i)}
<1>1. DOMAIN s = 1 .. Len(s) /\ Len(s) \in Nat
  OBVIOUS
<1>2. CASE at = {}
  <2>1. MarkerStart(s) = Len(s) + 1
    BY <1>2 DEF MarkerStart
  <2>2. QED
    BY <1>1, <1>2, <2>1
<1>3. CASE at # {}
  <2>1. MarkerStart(s) = CHOOSE i \in at : \A j \in at : i <= j
    BY <1>3 DEF MarkerStart
  <2>2. at \in SUBSET Nat
    BY <1>1
  <2> HIDE DEF at
  <2>3. \E i \in at : \A j \in at : i <= j
    BY <1>3, <2>2, LeastNumber
  <2>4. MarkerStart(s) \in at /\ \A j \in at : MarkerStart(s) <= j
    BY <2>1, <2>3
  <2>5. QED
    BY <1>1, <2>4 DEF at
<1>4. QED
  BY <1>2, <1>3

(* The filter passes on some of what it holds and the delta, keeps the     *)
(* rest, and blocks at the first marker.                                   *)
LEMMA PushIs ==
  ASSUME NEW buffer \in Seq(Shows), filter.buffer = buffer, filter.blocked \in BOOLEAN, NEW delta \in Shows,
         req.tools \in BOOLEAN, ~req.tools => buffer = <<>> /\ ~filter.blocked
  PROVE  LET p == Push(delta)
             s == buffer \o <<delta>>
         IN  /\ p.emit \in Seq(Shows) /\ p.buffer \in Seq(Shows) /\ p.blocked \in BOOLEAN
             /\ p.emit \o p.buffer = s
             /\ ~req.tools => p.buffer = <<>> /\ ~p.blocked
             /\ req.tools /\ filter.blocked => p.blocked /\ p.emit = <<>>
             /\ req.tools /\ ~filter.blocked /\ p.blocked =>
                  /\ Len(p.emit) <= Len(buffer) /\ \A i \in 1 .. Len(p.emit) : p.emit[i] = buffer[i]
             /\ req.tools => p.buffer # <<>>
             /\ req.tools /\ ~p.blocked => Unmarked(s)
<1> DEFINE p == Push(delta)
           s == buffer \o <<delta>>
           n == Len(s)
           start == MarkerStart(s)
           held == IF ActionPrefix(s) \/ n <= Held THEN n ELSE Held
           safe == n - held
<1>1. Append(filter.buffer, delta) = s
  BY AppendIsConcat
<1>2. s \in Seq(Shows) /\ n = Len(buffer) + 1 /\ n \in Nat /\ \A i \in 1 .. Len(buffer) : s[i] = buffer[i]
  OBVIOUS
<1>3. start \in 1 .. n + 1 /\ \A i \in 1 .. n : i < start => ~MarkerAt(s, i)
  BY <1>2, MarkerStartIs
<1>4. Held \in Nat /\ Held >= 1
  BY StreamAssumption
<1>5. <<>> \in Seq(Shows)
  OBVIOUS
<1>6. p = CASE ~req.tools -> [emit |-> <<delta>>, buffer |-> <<>>, blocked |-> FALSE]
            [] req.tools /\ filter.blocked -> [emit |-> <<>>, buffer |-> s, blocked |-> TRUE]
            [] req.tools /\ ~filter.blocked /\ start <= n ->
                 [emit |-> SubSeq(s, 1, start - 1), buffer |-> SubSeq(s, start, n), blocked |-> TRUE]
            [] OTHER -> [emit |-> SubSeq(s, 1, safe), buffer |-> SubSeq(s, safe + 1, n), blocked |-> FALSE]
  BY <1>1 DEF Push
<1> HIDE DEF p
<1>7. CASE ~req.tools
  <2>1. p = [emit |-> <<delta>>, buffer |-> <<>>, blocked |-> FALSE]
    BY <1>6, <1>7
  <2>2. <<delta>> \in Seq(Shows) /\ s = <<delta>> \o <<>>
    <3>1. <<delta>> \in Seq(Shows)
      OBVIOUS
    <3>2. s = <<>> \o <<delta>>
      BY <1>7
    <3>3. QED
      BY <3>1, <3>2, ConcatEmptySeq
  <2> HIDE DEF s
  <2>3. QED
    BY <1>5, <1>7, <2>1, <2>2 DEF p, s
<1>8. CASE req.tools /\ filter.blocked
  <2>1. p = [emit |-> <<>>, buffer |-> s, blocked |-> TRUE]
    BY <1>6, <1>8
  <2>2. <<>> \o s = s /\ s # <<>>
    BY <1>2, ConcatEmptySeq
  <2> HIDE DEF s
  <2>3. QED
    BY <1>2, <1>5, <1>8, <2>1, <2>2 DEF p, s
<1>9. CASE req.tools /\ ~filter.blocked /\ start <= n
  <2> DEFINE c == start - 1
             a == SubSeq(s, 1, c)
             b == SubSeq(s, c + 1, n)
  <2>1. p = [emit |-> a, buffer |-> b, blocked |-> TRUE]
    <3>1. (start - 1) + 1 = start
      BY <1>3
    <3>2. p = [emit |-> SubSeq(s, 1, start - 1), buffer |-> SubSeq(s, start, n), blocked |-> TRUE]
      BY <1>6, <1>9
    <3>3. QED
      BY <3>1, <3>2
  <2>2. c \in 0 .. n /\ c <= Len(buffer) /\ c < n
    BY <1>2, <1>3, <1>9
  <2> HIDE DEF start, c
  <2>3. /\ a \in Seq(Shows) /\ b \in Seq(Shows) /\ a \o b = s
        /\ Len(a) = c /\ Len(b) = n - c /\ \A i \in 1 .. c : a[i] = s[i]
    <3> HIDE DEF s
    <3>1. QED
      BY <1>2, <2>2, CutInTwo, SMTT(30)
  <2> HIDE DEF s, n, a, b
  <2>4. b # <<>>
    BY <1>2, <2>2, <2>3
  <2>5. p.emit = a /\ p.buffer = b /\ p.blocked
    BY <2>1
  <2>6. Len(a) <= Len(buffer) /\ \A i \in 1 .. Len(a) : a[i] = buffer[i]
    BY <1>2, <2>2, <2>3
  <2>7. QED
    BY <1>9, <2>3, <2>4, <2>5, <2>6 DEF p, s
<1>10. CASE req.tools /\ ~filter.blocked /\ ~(start <= n)
  <2> DEFINE a == SubSeq(s, 1, safe)
             b == SubSeq(s, safe + 1, n)
  <2>1. p = [emit |-> a, buffer |-> b, blocked |-> FALSE]
    BY <1>6, <1>10
  <2>2. held \in 1 .. n
    BY <1>2, <1>4
  <2> HIDE DEF held
  <2>3. safe \in 0 .. n /\ safe < n
    BY <1>2, <2>2
  <2>4. Unmarked(s)
    <3>1. DOMAIN s = 1 .. n /\ \A i \in 1 .. n : i < start
      BY <1>2, <1>3, <1>10
    <3>2. QED
      BY <1>3, <3>1 DEF Unmarked
  <2> HIDE DEF start, safe
  <2>5. /\ a \in Seq(Shows) /\ b \in Seq(Shows) /\ a \o b = s
        /\ Len(a) = safe /\ Len(b) = n - safe /\ \A i \in 1 .. safe : a[i] = s[i]
    <3> HIDE DEF s
    <3>1. QED
      BY <1>2, <2>3, CutInTwo, ZenonT(60)
  <2> HIDE DEF s, n, a, b
  <2>6. b # <<>>
    BY <1>2, <2>3, <2>5
  <2>7. p.emit = a /\ p.buffer = b /\ ~p.blocked
    BY <2>1
  <2>8. /\ p.emit \in Seq(Shows) /\ p.buffer \in Seq(Shows) /\ p.blocked \in BOOLEAN
        /\ p.emit \o p.buffer = s /\ p.buffer # <<>>
    BY <2>1, <2>5, <2>6, <2>7
  <2>9. QED
    BY <1>10, <2>4, <2>7, <2>8 DEF p, s
<1>11. QED
  BY <1>7, <1>8, <1>9, <1>10

-----------------------------------------------------------------------------
(* The filter after text that let w through: it holds b.                   *)
Filtered(t, tools, b, blocked, w) ==
  /\ w \in Seq(Shows) /\ b \in Seq(Shows) /\ blocked \in BOOLEAN
  /\ Drop(w \o b) = t
  /\ ~tools => b = <<>> /\ ~blocked
  /\ tools /\ ~blocked => Unmarked(w \o b)
  /\ tools /\ blocked => Unmarked(w)
  /\ tools /\ b = <<>> => w = <<>>

(* A push keeps it so, whatever the delta.                                 *)
LEMMA PushFilters ==
  ASSUME req.tools \in BOOLEAN, NEW w, Filtered(text, req.tools, filter.buffer, filter.blocked, w),
         NEW delta \in Shows
  PROVE  /\ Push(delta).emit \in Seq(Shows)
         /\ Filtered(text \o If(delta # "thought", <<delta>>), req.tools, Push(delta).buffer,
              Push(delta).blocked,
                     w \o Push(delta).emit)
<1> DEFINE b == filter.buffer
           s == b \o <<delta>>
           e == Push(delta).emit
           r == Push(delta).buffer
           c == Push(delta).blocked
           g == If(delta # "thought", <<delta>>)
<1>1. /\ w \in Seq(Shows) /\ b \in Seq(Shows) /\ filter.blocked \in BOOLEAN /\ Drop(w \o b) = text
      /\ ~req.tools => b = <<>> /\ ~filter.blocked
      /\ req.tools /\ ~filter.blocked => Unmarked(w \o b)
      /\ req.tools /\ filter.blocked => Unmarked(w)
      /\ req.tools /\ b = <<>> => w = <<>>
  BY DEF Filtered
<1>2. /\ e \in Seq(Shows) /\ r \in Seq(Shows) /\ c \in BOOLEAN /\ e \o r = s
      /\ ~req.tools => r = <<>> /\ ~c
      /\ req.tools /\ filter.blocked => c /\ e = <<>>
      /\ req.tools /\ ~filter.blocked /\ c =>
           Len(e) <= Len(b) /\ \A i \in 1 .. Len(e) : e[i] = b[i]
      /\ req.tools => r # <<>>
      /\ req.tools /\ ~c => Unmarked(s)
  BY <1>1, PushIs
<1>3. <<delta>> \in Seq(Shows) /\ g = If(delta # "thought", <<delta>>)
  OBVIOUS
<1>4. /\ s = b \o <<delta>> /\ e = Push(delta).emit /\ r = Push(delta).buffer /\ c = Push(delta).blocked
      /\ b = filter.buffer
  OBVIOUS
<1> HIDE DEF b, s, e, r, c, g
<1>5. (w \o e) \o r = (w \o b) \o <<delta>> /\ w \o e \in Seq(Shows) /\ w \o b \in Seq(Shows)
  <2>1. (w \o e) \o r = w \o (e \o r)
    <3>1. w \in Seq(Shows) /\ e \in Seq(Shows) /\ r \in Seq(Shows)
      BY <1>1, <1>2
    <3>2. QED
      BY <3>1, ConcatAssociative
  <2>2. w \o (b \o <<delta>>) = (w \o b) \o <<delta>>
    BY <1>1, <1>3, ConcatAssociative
  <2>3. QED
    BY <1>1, <1>2, <1>4, <2>1, <2>2, ConcatProperties
<1>6. Drop((w \o e) \o r) = text \o g
  BY <1>1, <1>3, <1>5, DropMore
<1>7. req.tools /\ ~c => Unmarked((w \o e) \o r)
  <2> SUFFICES ASSUME req.tools, ~c PROVE Unmarked((w \o b) \o <<delta>>)
    BY <1>5
  <2>1. ~filter.blocked
    BY <1>1, <1>2
  <2>2. Unmarked(w \o b) /\ Unmarked(b \o <<delta>>) /\ (b = <<>> => w = <<>>)
    BY <1>1, <1>2, <1>4, <2>1
  <2>3. QED
    BY <1>1, <2>2, UnmarkedMore
<1>8. req.tools /\ c => Unmarked(w \o e)
  <2>1. CASE filter.blocked /\ req.tools
    BY <1>1, <1>2, <2>1, ConcatEmptySeq
  <2>2. CASE ~filter.blocked /\ req.tools /\ c
    <3> DEFINE v == w \o e
               u == w \o b
    <3>1. /\ v \in Seq(Shows) /\ u \in Seq(Shows) /\ Len(v) = Len(w) + Len(e) /\ Len(u) = Len(w) + Len(b)
      BY <1>1, <1>2, ConcatProperties
    <3>2. Len(e) <= Len(b) /\ Len(w) \in Nat /\ Len(e) \in Nat /\ Len(b) \in Nat
      BY <1>1, <1>2, <2>2
    <3>3. Len(v) \in Nat /\ Len(v) <= Len(u) /\ DOMAIN u = 1 .. Len(u)
      BY <3>1, <3>2
    <3>4. ASSUME NEW i \in 1 .. Len(v) PROVE v[i] = u[i]
      <4>1. i \in 1 .. Len(w) + Len(e) /\ i \in 1 .. Len(w) + Len(b)
        BY <3>1, <3>2
      <4>2. v[i] = IF i <= Len(w) THEN w[i] ELSE e[i - Len(w)]
        BY <1>1, <1>2, <4>1, ConcatProperties
      <4>3. u[i] = IF i <= Len(w) THEN w[i] ELSE b[i - Len(w)]
        BY <1>1, <4>1, ConcatProperties
      <4>4. ~(i <= Len(w)) => i - Len(w) \in 1 .. Len(e)
        BY <3>2, <4>1
      <4>5. \A k \in 1 .. Len(e) : e[k] = b[k]
        BY <1>2, <2>2
      <4> HIDE DEF v, u
      <4>6. QED
        BY <4>2, <4>3, <4>4, <4>5
    <3>5. Unmarked(u)
      BY <1>1, <2>2
    <3> HIDE DEF v, u
    <3>6. \A i \in 1 .. Len(v) : ~MarkerAt(u, i)
      BY <3>3, <3>5 DEF Unmarked
    <3>7. Unmarked(v)
      BY <3>1, <3>3, <3>4, <3>6, UnmarkedPrefix
    <3>8. QED
      BY <3>7 DEF v
  <2>3. QED
    BY <1>1, <2>1, <2>2
<1>9. Filtered(text \o g, req.tools, r, c, w \o e)
  BY <1>2, <1>5, <1>6, <1>7, <1>8 DEF Filtered
<1>10. QED
  BY <1>2, <1>9 DEF g, e, r, c

-----------------------------------------------------------------------------
(* What each event writes.                                                 *)
LEMMA EventParts ==
  ASSUME NEW index, NEW item, NEW content
  PROVE  /\ Part(Start(index, item)) = <<>> /\ Part(Stop(index, item)) = <<>>
         /\ Part(Finish(content)) = <<>> /\ Part(Error) = <<>>
         /\ item # "text" => Part(Delta(index, item, content)) = <<>>
         /\ Part(Delta(index, "text", content)) = content
BY DEF Part, Start, Stop, Finish, Error, Delta, Event, If

(* An event without a part writes nothing.                                 *)
LEMMA PensQuietEvent ==
  ASSUME NEW e, Part(e) = <<>>
  PROVE  Pens(<<e>>, <<>>)
<1>1. <<>> \in Seq(Shows)
  OBVIOUS
<1>2. QED
  BY <1>1, PensOne

(* A text delta writes its content.                                        *)
LEMMA PensDelta ==
  ASSUME NEW index, NEW content \in Seq(Shows)
  PROVE  Pens(<<Delta(index, "text", content)>>, content)
BY EventParts, PensOne

(* Two stretches of which neither writes.                                  *)
LEMMA PensBoth ==
  ASSUME NEW x, NEW y, Pens(x, <<>>), Pens(y, <<>>)
  PROVE  Pens(x \o y, <<>>)
BY PensFirst

(* Events that may be left out, and write nothing.                         *)
LEMMA PensIf ==
  ASSUME NEW cond \in BOOLEAN, NEW x, cond => Pens(x, <<>>)
  PROVE  Pens(If(cond, x), <<>>)
BY PensNothing DEF If

(* A thinking block writes no text.                                        *)
LEMMA PensThinkingBlock ==
  ASSUME NEW index, NEW content
  PROVE  Pens(Block(index, "thinking", content), <<>>)
<1> DEFINE a == Start(index, "thinking")
           b == Delta(index, "thinking", content)
           c == Stop(index, "thinking")
<1>1. Pens(<<a>>, <<>>) /\ Pens(<<b>>, <<>>) /\ Pens(<<c>>, <<>>)
  BY EventParts, PensQuietEvent
<1>2. Block(index, "thinking", content) = <<a, b, c>>
  BY DEF Block
<1> HIDE DEF a, b, c
<1>3. Pens((<<a>> \o <<b>>) \o <<c>>, <<>>)
  BY <1>1, PensBoth
<1>4. <<a, b, c>> = (<<a>> \o <<b>>) \o <<c>>
  BY ThreeEvents
<1>5. QED
  BY <1>2, <1>3, <1>4

(* Tool blocks write no text.                                              *)
LEMMA PensTools ==
  ASSUME NEW from \in Nat, NEW n \in Nat
  PROVE  Pens(Tools(from, n), <<>>)
<1> DEFINE x == Tools(from, n)
<1>1. PICK f \in [0 .. n -> Seq(ToolEvents)] : f[n] = x
  BY ToolBlocks
<1>2. n \in 0 .. n
  OBVIOUS
<1>3. x \in Seq(ToolEvents)
  BY <1>1, <1>2
<1>4. \A e \in ToolEvents : Part(e) = <<>>
  BY EventParts DEF ToolEvents
<1> HIDE DEF x
<1>5. IsList(x) /\ \A i \in 1 .. Len(x) : x[i] \in ToolEvents
  BY <1>3 DEF IsList
<1>6. QED
  BY <1>4, <1>5, PensQuiet DEF x

(* The chunks of the OpenAI format's calls.                                *)
LEMMA ChunksAre ==
  ASSUME NEW n \in Nat
  PROVE  /\ IsList(ToolChunks(n)) /\ Len(ToolChunks(n)) = n /\ DOMAIN ToolChunks(n) = 1 .. n
         /\ \A i \in 1 .. n : ToolChunks(n)[i] = Delta(i - 1, "tool", <<"call">>)
<1> DEFINE chunk(i) == Delta(i - 1, "tool", <<"call">>)
           T == {chunk(i) : i \in 1 .. n}
           x == [i \in 1 .. n |-> chunk(i)]
<1>1. ToolChunks(n) = x
  BY DEF ToolChunks
<1>2. \A i \in 1 .. n : chunk(i) \in T
  OBVIOUS
<1> HIDE DEF chunk, T
<1>3. x \in Seq(T) /\ Len(x) = n /\ DOMAIN x = 1 .. n
  BY <1>2
<1>4. \A i \in 1 .. n : x[i] = Delta(i - 1, "tool", <<"call">>)
  BY DEF chunk
<1> HIDE DEF x
<1>5. QED
  BY <1>1, <1>3, <1>4 DEF IsList

(* They write no text.                                                     *)
LEMMA PensChunks ==
  ASSUME NEW n \in Nat
  PROVE  Pens(ToolChunks(n), <<>>)
<1>1. IsList(ToolChunks(n)) /\ Len(ToolChunks(n)) = n
  BY ChunksAre
<1>2. \A i \in 1 .. n : Part(ToolChunks(n)[i]) = <<>>
  BY ChunksAre, EventParts
<1>3. QED
  BY <1>1, <1>2, PensQuiet

(* Deltas of a message write what they carry, joined.                      *)
LEMMA PensDeltas ==
  ASSUME NEW index, NEW d \in Seq(Seq(Shows))
  PROVE  Pens(Deltas(index, "text", d), FlattenSeq(d))
<1> DEFINE e == Deltas(index, "text", d)
           n == Len(d)
<1>1. IsList(d)
  BY DEF IsList
<1>2. IsList(e) /\ Len(e) = n /\ \A k \in 1 .. n : e[k] = Delta(index, "text", d[k])
  <2>1. Len(e) = n
    BY DEF Deltas
  <2>2. QED
    BY <1>1, <2>1, DeltasAreList
<1>3. PICK g \in [0 .. n -> Seq(Shows)] :
        g[0] = <<>> /\ g[n] = FlattenSeq(d) /\ \A k \in 1 .. n : g[k] = g[k - 1] \o d[k]
  BY FlattenSteps
<1>4. \A k \in 1 .. n : d[k] \in Seq(Shows)
  OBVIOUS
<1> HIDE DEF e, n
<1>5. PICK f : n \in Nat /\ f[0] = <<>> /\ f[n] = e /\ \A k \in 1 .. n : f[k] = f[k - 1] \o <<e[k]>>
  BY <1>2, ListGrows, ZenonT(60)
<1> DEFINE Done == {k \in 0 .. n : Pens(f[k], g[k])}
<1>6. 0 \in Done
  BY <1>3, <1>5, PensNothing
<1>7. ASSUME NEW k \in 1 .. n, k - 1 \in Done PROVE k \in Done
  <2>1. Pens(<<e[k]>>, d[k])
    BY <1>2, <1>4, PensDelta
  <2>2. Pens(f[k - 1] \o <<e[k]>>, g[k - 1] \o d[k])
    BY <1>7, <2>1, PensOn
  <2>3. f[k] = f[k - 1] \o <<e[k]>> /\ g[k] = g[k - 1] \o d[k]
    BY <1>3, <1>5
  <2>4. k \in 0 .. n
    BY <1>5
  <2>5. QED
    BY <2>2, <2>3, <2>4
<1>8. n \in Done
  <2> HIDE DEF Done
  <2>1. 0 .. n \subseteq Done
    BY <1>5, <1>6, <1>7, BoundedInduction
  <2>2. QED
    BY <1>5, <2>1
<1>9. QED
  BY <1>3, <1>5, <1>8 DEF e

(* The text of the Anthropic format, and its thinking.                     *)
LEMMA PensText ==
  ASSUME thinkingOpen \in BOOLEAN, textOpen \in BOOLEAN, NEW delta \in Seq(Shows)
  PROVE  Pens(TextEvents(delta), delta)
<1> DEFINE a == If(thinkingOpen, <<Stop(0, "thinking")>>)
           b == If(~textOpen, <<Start(TextIndex, "text")>>)
           c == <<Delta(TextIndex, "text", delta)>>
<1>1. Pens(a, <<>>) /\ Pens(b, <<>>) /\ Pens(c, delta)
  BY EventParts, PensQuietEvent, PensIf, PensDelta
<1>2. TextEvents(delta) = If(delta # <<>>, (a \o b) \o c)
  BY DEF TextEvents
<1> HIDE DEF a, b, c
<1>3. Pens((a \o b) \o c, delta)
  BY <1>1, PensBoth, PensFirst
<1>4. QED
  BY <1>2, <1>3, PensNothing DEF If

(* Thinking writes no text.                                                *)
LEMMA PensThinking ==
  ASSUME thinkingOpen \in BOOLEAN
  PROVE  Pens(ThinkingEvents, <<>>)
<1> DEFINE a == If(~thinkingOpen, <<Start(0, "thinking")>>)
           b == <<Delta(0, "thinking", <<"thinking">>)>>
<1>1. Pens(a, <<>>) /\ Pens(b, <<>>)
  <2>1. Pens(<<Start(0, "thinking")>>, <<>>) /\ Pens(b, <<>>)
    BY EventParts, PensQuietEvent
  <2>2. QED
    BY <2>1, PensIf
<1>2. ThinkingEvents = a \o b
  BY DEF ThinkingEvents
<1> HIDE DEF a, b
<1>3. QED
  BY <1>1, <1>2, PensBoth

-----------------------------------------------------------------------------
(* A stretch of events that holds a tool's.                                *)
Calling(x) == IsList(x) /\ \E j \in DOMAIN x : x[j].item = "tool"

(* It still holds one when others come before or after.                    *)
LEMMA CallingOn ==
  ASSUME NEW x, Calling(x), NEW y, IsList(y)
  PROVE  Calling(x \o y) /\ Calling(y \o x)
<1>1. PICK j \in DOMAIN x : x[j].item = "tool"
  BY DEF Calling
<1>2. IsList(x)
  BY DEF Calling
<1>3. Calling(x \o y)
  <2>1. Joined(x, y)
    BY <1>2, JoinIsList
  <2>2. j \in DOMAIN (x \o y) /\ (x \o y)[j].item = "tool" /\ IsList(x \o y)
    BY <1>1, <2>1 DEF Joined
  <2>3. QED
    BY <2>2 DEF Calling
<1>4. Calling(y \o x)
  <2>1. Joined(y, x)
    BY <1>2, JoinIsList
  <2> DEFINE u == y \o x
             k == Len(y) + j
  <2>2. DOMAIN x = 1 .. Len(x) /\ Len(x) \in Nat
    BY <1>2 DEF IsList
  <2>3. IsList(u) /\ DOMAIN u = 1 .. Len(y) + Len(x) /\ Len(y) \in Nat /\ u[k] = x[j]
    BY <1>1, <2>1, <2>2 DEF Joined
  <2>4. k \in 1 .. Len(y) + Len(x)
    BY <1>1, <2>2, <2>3
  <2> HIDE DEF u, k
  <2>5. Calling(u)
    BY <1>1, <2>3, <2>4 DEF Calling
  <2>6. QED
    BY <2>5 DEF u
<1>5. QED
  BY <1>3, <1>4

(* The events of some calls hold one.                                      *)
LEMMA CallingTools ==
  ASSUME NEW from \in Nat, NEW n \in Nat, n > 0
  PROVE  Calling(Tools(from, n)) /\ Calling(ToolChunks(n))
<1>1. PICK f \in [0 .. n -> Seq(ToolEvents)] :
        f[n] = Tools(from, n) /\ \A k \in 1 .. n : f[k] = f[k - 1] \o Block(from + k - 1, "tool", <<"call">>)
  BY ToolBlocks
<1>2. n \in 1 .. n /\ n - 1 \in 0 .. n
  OBVIOUS
<1> DEFINE y == f[n - 1]
           x == Block(from + n - 1, "tool", <<"call">>)
<1>3. IsList(y) /\ Tools(from, n) = y \o x
  BY <1>1, <1>2 DEF IsList
<1>4. Calling(x)
  <2> DEFINE a == Start(from + n - 1, "tool")
             b == Delta(from + n - 1, "tool", <<"call">>)
             c == Stop(from + n - 1, "tool")
  <2>1. a.item = "tool"
    BY DEF Start, Event
  <2>2. x = <<a, b, c>>
    BY DEF Block
  <2> HIDE DEF a, b, c, x
  <2>3. x \in Seq({a, b, c}) /\ 1 \in DOMAIN x /\ x[1] = a
    BY <2>2
  <2>4. QED
    BY <2>1, <2>3 DEF Calling, IsList
<1> HIDE DEF x, y
<1>5. Calling(Tools(from, n))
  BY <1>3, <1>4, CallingOn
<1>6. Calling(ToolChunks(n))
  <2>1. 1 \in 1 .. n
    OBVIOUS
  <2>2. Delta(1 - 1, "tool", <<"call">>).item = "tool"
    BY DEF Delta, Event
  <2>3. QED
    BY <2>1, <2>2, ChunksAre DEF Calling
<1>7. QED
  BY <1>5, <1>6

(* What the end of an answer writes: v, and a tool's events if there are   *)
(* calls.                                                                  *)
Concludes(x, v, n) == Pens(x, v) /\ (n > 0 => Calling(x))

(* Text first, then what ends the answer.                                  *)
LEMMA ConcludesAfter ==
  ASSUME NEW n \in Nat, NEW y, Concludes(y, <<>>, n), NEW x, NEW v, Pens(x, v)
  PROVE  Concludes(x \o y, v, n)
<1>1. Pens(x \o y, v)
  BY PensFirst DEF Concludes
<1>2. n > 0 => Calling(x \o y)
  BY CallingOn DEF Concludes, Pens
<1>3. QED
  BY <1>1, <1>2 DEF Concludes

(* The calls and the last event.                                           *)
LEMMA ConcludesTools ==
  ASSUME NEW from \in Nat, NEW n \in Nat, NEW output
  PROVE  /\ Concludes(Tools(from, n) \o <<Finish(output)>>, <<>>, n)
         /\ Concludes(ToolChunks(n) \o <<Finish(output)>>, <<>>, n)
<1>1. Pens(<<Finish(output)>>, <<>>) /\ IsList(<<Finish(output)>>)
  BY EventParts, PensQuietEvent DEF Pens
<1>2. Pens(Tools(from, n), <<>>) /\ Pens(ToolChunks(n), <<>>)
  BY PensTools, PensChunks
<1>3. n > 0 => Calling(Tools(from, n)) /\ Calling(ToolChunks(n))
  BY CallingTools
<1> DEFINE f == <<Finish(output)>>
           x == Tools(from, n)
           y == ToolChunks(n)
<1> HIDE DEF f, x, y
<1>4. Pens(x \o f, <<>>) /\ Pens(y \o f, <<>>)
  BY <1>1, <1>2, PensBoth DEF f, x, y
<1>5. n > 0 => Calling(x \o f) /\ Calling(y \o f)
  BY <1>1, <1>3, CallingOn DEF f, x, y
<1>6. QED
  BY <1>4, <1>5 DEF Concludes, f, x, y

(* The end of the Anthropic format: the flushed rest, unless there are     *)
(* calls, then the calls.                                                  *)
LEMMA AnthropicConcludes ==
  ASSUME StreamTyped, Flush \in Seq(Shows), NEW result, result.calls \in Nat
  PROVE  Concludes(AnthropicEnd(result), If(result.calls = 0, Flush), result.calls)
<1> DEFINE n == result.calls
           rest == IF n = 0 THEN Flush ELSE <<>>
           hasText == textOpen \/ rest # <<>>
           a == TextEvents(rest)
           b == If(thinkingOpen /\ rest = <<>>, <<Stop(0, "thinking")>>)
           c == If(hasText, <<Stop(TextIndex, "text")>>)
           d == Tools(ToolIndex(hasText), n)
           f == <<Finish(<<>>)>>
<1>1. AnthropicEnd(result) = (((a \o b) \o c) \o d) \o f
  BY DEF AnthropicEnd
<1>2. rest \in Seq(Shows) /\ rest = If(n = 0, Flush)
  BY DEF If
<1>3. /\ thinkingOpen \in BOOLEAN /\ textOpen \in BOOLEAN /\ hasText \in BOOLEAN /\ n \in Nat
      /\ ToolIndex(hasText) \in Nat
  BY DEF StreamTyped, ToolIndex, TextIndex
<1> HIDE DEF rest
<1>4. Pens(a, rest) /\ Pens(b, <<>>) /\ Pens(c, <<>>)
  <2>1. Pens(a, rest)
    BY <1>2, <1>3, PensText
  <2>2. Pens(b, <<>>)
    BY <1>3, EventParts, PensQuietEvent, PensIf
  <2>3. Pens(c, <<>>)
    <3> HIDE DEF hasText
    <3>1. QED
      BY <1>3, EventParts, PensQuietEvent, PensIf
  <2>4. QED
    BY <2>1, <2>2, <2>3
<1>5. Concludes(d \o f, <<>>, n)
  <2> HIDE DEF hasText, n
  <2>1. QED
    BY <1>3, ConcludesTools
<1>6. IsList(d) /\ IsList(f)
  <2>1. IsList(d)
    <3> HIDE DEF hasText, n
    <3>1. QED
      BY <1>3, PensTools DEF Pens
  <2>2. QED
    BY <2>1, ListOfOne
<1> HIDE DEF a, b, c, d, f, n, hasText
<1>7. Pens((a \o b) \o c, rest)
  BY <1>4, PensFirst
<1>8. Concludes(((a \o b) \o c) \o (d \o f), rest, n)
  <2> DEFINE x == (a \o b) \o c
             y == d \o f
  <2>1. Pens(x, rest) /\ Concludes(y, <<>>, n) /\ n \in Nat
    BY <1>3, <1>5, <1>7
  <2> HIDE DEF x, y
  <2>2. Concludes(x \o y, rest, n)
    BY <2>1, ConcludesAfter
  <2>3. QED
    BY <2>2 DEF x, y
<1>9. ((a \o b) \o c) \o (d \o f) = (((a \o b) \o c) \o d) \o f
  <2> DEFINE x == (a \o b) \o c
  <2>1. IsList(x)
    BY <1>7 DEF Pens
  <2> HIDE DEF x
  <2>2. x \o (d \o f) = (x \o d) \o f
    BY <1>6, <2>1, JoinAssociates
  <2>3. QED
    BY <2>2 DEF x
<1>10. QED
  BY <1>1, <1>2, <1>8, <1>9 DEF n

(* The end of the OpenAI format.                                           *)
LEMMA OpenAIConcludes ==
  ASSUME Flush \in Seq(Shows), NEW result, result.calls \in Nat
  PROVE  Concludes(OpenAIEnd(result), If(result.calls = 0, Flush), result.calls)
<1> DEFINE n == result.calls
           rest == If(n = 0, Flush)
           a == If(n = 0 /\ Flush # <<>>, <<Delta(0, "text", Flush)>>)
           d == ToolChunks(n)
           f == <<Finish(<<>>)>>
<1>1. OpenAIEnd(result) = (a \o d) \o f
  BY DEF OpenAIEnd
<1>2. Pens(a, rest)
  BY PensNothing, PensDelta DEF If
<1>3. n \in Nat
  OBVIOUS
<1> HIDE DEF n
<1>4. Concludes(d \o f, <<>>, n) /\ IsList(d) /\ IsList(f)
  BY <1>3, ConcludesTools, PensChunks, ListOfOne DEF Pens
<1> HIDE DEF a, d, f, rest
<1>5. Concludes(a \o (d \o f), rest, n)
  <2> DEFINE y == d \o f
  <2>1. Concludes(y, <<>>, n)
    BY <1>4
  <2> HIDE DEF y
  <2>2. Concludes(a \o y, rest, n)
    BY <1>2, <1>3, <2>1, ConcludesAfter
  <2>3. QED
    BY <2>2 DEF y
<1>6. a \o (d \o f) = (a \o d) \o f
  BY <1>2, <1>4, JoinAssociates DEF Pens
<1>7. QED
  BY <1>1, <1>5, <1>6 DEF rest, n

(* One more piece of text, which may be nothing.                           *)
LEMMA PiecesMore ==
  ASSUME NEW d \in Seq(Seq(Shows)), NEW v \in Seq(Shows)
  PROVE  /\ d \o If(v # <<>>, <<v>>) \in Seq(Seq(Shows))
         /\ FlattenSeq(d) \in Seq(Shows)
         /\ FlattenSeq(d \o If(v # <<>>, <<v>>)) = FlattenSeq(d) \o v
<1>1. <<v>> \in Seq(Seq(Shows)) /\ Len(<<v>>) = 1 /\ <<v>>[1] = v
  OBVIOUS
<1> DEFINE u == d \o <<v>>
           n == Len(d)
<1>2. u \in Seq(Seq(Shows)) /\ Len(u) = n + 1 /\ u[n + 1] = v /\ \A i \in 1 .. n : u[i] = d[i]
  OBVIOUS
<1> HIDE DEF u
<1>3. FlattenSeq(d) \in Seq(Shows) /\ FlattenSeq(u) = FlattenSeq(d) \o v
  <2> DEFINE T == Shows
  <2>1. d \in Seq(Seq(T)) /\ v \in Seq(T)
    OBVIOUS
  <2>2. u \in Seq(Seq(T))
    BY <1>2
  <2>3. Len(u) = Len(d) + 1
    BY <1>2
  <2>4. u[Len(d) + 1] = v
    BY <1>2
  <2>5. \A i \in 1 .. Len(d) : u[i] = d[i]
    BY <1>2
  <2> HIDE DEF T
  <2>6. FlattenSeq(d) \in Seq(T) /\ FlattenSeq(u) = FlattenSeq(d) \o v
    BY <2>1, <2>2, <2>3, <2>4, <2>5, FlattenNext
  <2>7. QED
    BY <2>6 DEF T
<1>4. CASE v = <<>>
  <2>1. d \o <<>> = d /\ FlattenSeq(d) \o <<>> = FlattenSeq(d)
    BY <1>3, ConcatEmptySeq
  <2>2. QED
    BY <1>3, <1>4, <2>1 DEF If
<1>5. CASE v # <<>>
  BY <1>2, <1>3, <1>5 DEF If, u
<1>6. QED
  BY <1>4, <1>5

(* What completes a Responses stream writes no text.                       *)
LEMMA CompletedConcludes ==
  ASSUME NEW result, result.calls \in Nat, NEW m \in BOOLEAN, NEW k \in BOOLEAN
  PROVE  Concludes(Completed(result, m, k), <<>>, result.calls)
<1> DEFINE n == result.calls
           speak == ResponseText(result) # <<>>
           from == IF speak THEN At0(k) + 1 ELSE At0(k)
           a == If(speak /\ ~m, <<Start(At0(k), "text")>>)
           b == If(speak, <<Stop(At0(k), "text")>>)
           d == Tools(from, n)
           f == <<Finish(ResponseOutput(result, k))>>
<1>1. Completed(result, m, k) = ((a \o b) \o d) \o f
  BY CompletedIs DEF Completing
<1>2. n \in Nat /\ speak \in BOOLEAN /\ from \in Nat
  BY DEF At0
<1> HIDE DEF n, speak, from
<1>3. Pens(a, <<>>) /\ Pens(b, <<>>)
  BY <1>2, EventParts, PensQuietEvent, PensIf
<1>4. Concludes(d \o f, <<>>, n) /\ IsList(d) /\ IsList(f)
  BY <1>2, ConcludesTools, PensTools, ListOfOne DEF Pens
<1> HIDE DEF a, b, d, f
<1> DEFINE x == a \o b
           y == d \o f
<1>5. Pens(x, <<>>) /\ Concludes(y, <<>>, n)
  BY <1>3, <1>4, PensBoth
<1> HIDE DEF x, y
<1>6. Concludes(x \o y, <<>>, n)
  BY <1>2, <1>5, ConcludesAfter
<1>7. x \o y = (x \o d) \o f
  BY <1>4, <1>5, JoinAssociates DEF y, Pens
<1>8. QED
  BY <1>1, <1>6, <1>7 DEF x, n

(* The end of the Responses format: without calls, all that was kept back  *)
(* and the flushed rest.                                                   *)
LEMMA ResponsesConcludes ==
  ASSUME StreamTyped, pendingText \in Seq(Seq(Shows)), Flush \in Seq(Shows), NEW result, result.calls \in Nat
  PROVE  Concludes(ResponsesEnd(result), IF result.calls = 0 THEN FlattenSeq(pendingText) \o Flush ELSE <<>>,
                   result.calls)
<1> DEFINE n == result.calls
           rest == IF n = 0 THEN FlattenSeq(pendingText) \o Flush ELSE <<>>
           k == req.reasoning /\ thought /\ thoughts > 0
           d == IF n > 0 THEN <<>> ELSE pendingText \o If(Flush # <<>>, <<Flush>>)
           m == d # <<>>
           a == If(k, Block(0, "thinking", <<"thinking">>))
           b == If(m, <<Start(At0(k), "text")>>)
           c == Deltas(At0(k), "text", d)
           f == Completed(result, m, k)
<1>1. ResponsesEnd(result) = ((a \o b) \o c) \o f
  BY DEF ResponsesEnd, At0, Deltas
<1>2. k \in BOOLEAN /\ m \in BOOLEAN /\ n \in Nat
  BY DEF StreamTyped
<1>3. d \in Seq(Seq(Shows)) /\ FlattenSeq(d) = rest
  <2>1. CASE n = 0
    <3> DEFINE v == Flush
    <3>1. v \in Seq(Shows)
      OBVIOUS
    <3>2. d = pendingText \o If(v # <<>>, <<v>>) /\ rest = FlattenSeq(pendingText) \o v
      BY <2>1
    <3> HIDE DEF v
    <3>3. pendingText \o If(v # <<>>, <<v>>) \in Seq(Seq(Shows))
      BY <3>1, PiecesMore
    <3>4. FlattenSeq(pendingText \o If(v # <<>>, <<v>>)) = FlattenSeq(pendingText) \o v
      BY <3>1, PiecesMore
    <3> HIDE DEF d, rest
    <3>5. QED
      BY <3>2, <3>3, <3>4
  <2>2. CASE n > 0
    <3>1. <<>> \in Seq(Seq(Shows))
      OBVIOUS
    <3>2. QED
      BY <2>2, <3>1, FlattenNothing
  <2>3. QED
    BY <1>2, <2>1, <2>2
<1>4. Concludes(f, <<>>, n)
  <2> HIDE DEF m, k
  <2>1. QED
    BY <1>2, CompletedConcludes
<1> HIDE DEF d, k, m, n, rest
<1>5. Pens(a, <<>>) /\ Pens(b, <<>>) /\ Pens(c, rest)
  <2>1. Pens(c, FlattenSeq(d))
    BY <1>3, PensDeltas
  <2>2. QED
    BY <1>2, <1>3, <2>1, EventParts, PensQuietEvent, PensThinkingBlock, PensIf
<1> HIDE DEF a, b, c, f
<1> DEFINE x == (a \o b) \o c
<1>6. Pens(x, rest)
  <2>1. Pens(a \o b, <<>>)
    BY <1>5, PensBoth
  <2>2. QED
    BY <1>5, <2>1, PensFirst
<1> HIDE DEF x
<1>7. Concludes(x \o f, rest, n)
  BY <1>2, <1>4, <1>6, ConcludesAfter
<1>8. QED
  BY <1>1, <1>7 DEF x, rest, n

-----------------------------------------------------------------------------
(* What a stream in progress has let through: what it has written, or, for *)
(* the Responses format, what it has kept to write.                        *)
Through(w) ==
  IF req.format = "responses"
  THEN Writes(out, <<>>) /\ pendingText \in Seq(Seq(Shows)) /\ FlattenSeq(pendingText) = w
  ELSE Writes(out, w)

(* Showing a delta lets through what the filter emits.                     *)
LEMMA ShowThrough ==
  ASSUME StreamTyped, req.format \in {"anthropic", "openai", "responses"}, NEW w, Through(w), NEW delta,
         Show(delta),
         NEW e, e = Push(delta).emit, e \in Seq(Shows), req' = req
  PROVE  IF req.format = "responses"
         THEN Writes(out', <<>>) /\ pendingText' \in Seq(Seq(Shows)) /\ FlattenSeq(pendingText') = w \o e
         ELSE Writes(out', w \o e)
<1>1. /\ out' = out \o CASE req.format = "anthropic" -> TextEvents(e)
                          [] req.format = "openai" -> If(e # <<>>, <<Delta(0, "text", e)>>)
                          [] OTHER -> <<>>
      /\ pendingText' = pendingText \o If(e # <<>> /\ req.format = "responses", <<e>>)
  BY DEF Show
<1>2. CASE req.format = "anthropic"
  <2>1. out' = out \o TextEvents(e)
    BY <1>1, <1>2
  <2>2. Pens(TextEvents(e), e)
    BY PensText DEF StreamTyped
  <2>3. Writes(out, w)
    BY <1>2 DEF Through
  <2>4. Writes(out', w \o e)
    BY <2>1, <2>2, <2>3 DEF Pens
  <2>5. QED
    BY <1>2, <2>4
<1>3. CASE req.format = "openai"
  <2> DEFINE x == If(e # <<>>, <<Delta(0, "text", e)>>)
  <2>1. out' = out \o x
    BY <1>1, <1>3
  <2>2. Pens(x, e)
    BY PensNothing, PensDelta DEF If
  <2>3. Writes(out, w)
    BY <1>3 DEF Through
  <2> HIDE DEF x
  <2>4. Writes(out', w \o e)
    BY <2>1, <2>2, <2>3 DEF Pens
  <2>5. QED
    BY <1>3, <2>4
<1>4. CASE req.format = "responses"
  <2>1. Writes(out, <<>>) /\ pendingText \in Seq(Seq(Shows)) /\ FlattenSeq(pendingText) = w
    BY <1>4 DEF Through
  <2>2. out' = out \o <<>>
    BY <1>1, <1>4
  <2>3. Writes(out', <<>>)
    BY <2>1, <2>2, EmptyList DEF Writes
  <2>4. pendingText' = pendingText \o If(e # <<>>, <<e>>)
    BY <1>1, <1>4 DEF If
  <2>5. pendingText' \in Seq(Seq(Shows)) /\ FlattenSeq(pendingText') = w \o e
    BY <2>1, <2>4, PiecesMore
  <2>6. QED
    BY <1>4, <2>3, <2>5
<1>5. QED
  BY <1>2, <1>3, <1>4

(* A finished or broken stream: w is what it wrote.                        *)
Settled ==
  ~req.aggregate =>
    \E w \in Seq(Shows) :
      /\ Writes(out, w) /\ IsPrefix(Drop(w), text)
      /\ phase = "answered" /\ ~CallsTools /\ ~filter.blocked => Drop(w) = text
      /\ req.tools => Unmarked(w)

(* Of the blocks of a text without markers only one kind is left.          *)
LEMMA UnmarkedBlocks ==
  ASSUME NEW w \in Seq(Shows), Unmarked(w), NEW i \in DOMAIN w, InBlock(w, i)
  PROVE  w[i] = "fence"
<1>1. i \in 1 .. Len(w) /\ Len(w) \in Nat
  OBVIOUS
<1>2. ASSUME w[i] = "half", i < Len(w), w[i + 1] = "action" PROVE FALSE
  BY <1>2 DEF Unmarked, MarkerAt
<1>3. ASSUME w[i] = "action", i > 1, w[i - 1] = "half" PROVE FALSE
  <2>1. i - 1 \in DOMAIN w /\ i - 1 < Len(w) /\ (i - 1) + 1 = i
    BY <1>1, <1>3
  <2>2. QED
    BY <1>3, <2>1 DEF Unmarked, MarkerAt
<1>4. QED
  BY <1>2, <1>3 DEF InBlock

(* A settled stream is shown in order.                                     *)
LEMMA SettledShown == Settled => ShownInOrder
<1> SUFFICES ASSUME Settled, ~req.aggregate
             PROVE  /\ IsPrefix(WrittenText, text)
                    /\ phase = "answered" /\ ~CallsTools /\ ~filter.blocked => WrittenText = text
                    /\ req.tools => \A i \in DOMAIN Written :
                         ~MarkerAt(Written, i) /\ (InBlock(Written, i) => Written[i] = "fence")
  BY DEF ShownInOrder
<1>1. PICK w \in Seq(Shows) :
        /\ Writes(out, w) /\ IsPrefix(Drop(w), text)
        /\ phase = "answered" /\ ~CallsTools /\ ~filter.blocked => Drop(w) = text
        /\ req.tools => Unmarked(w)
  BY DEF Settled
<1>2. Written = FlattenSeq(Parts(out))
  BY DEF Written, Parts, Part
<1>3. Written = w
  BY <1>1, <1>2 DEF Writes
<1>4. WrittenText = Drop(w)
  BY <1>3 DEF WrittenText, Drop, Words
<1>5. ASSUME req.tools, NEW i \in DOMAIN Written
      PROVE  ~MarkerAt(Written, i) /\ (InBlock(Written, i) => Written[i] = "fence")
  BY <1>1, <1>3, <1>5, UnmarkedBlocks DEF Unmarked
<1>6. QED
  BY <1>1, <1>4, <1>5

(* A stream in progress.                                                   *)
Streaming ==
  phase = "streaming" /\ ~req.aggregate =>
    \E w : Filtered(text, req.tools, filter.buffer, filter.blocked, w) /\ Through(w)
ShownInv == StreamInv /\ Streaming /\ (phase # "streaming" => Settled)

(* What is held back does not matter to order: a stream left in progress   *)
(* is in order.                                                            *)
LEMMA FilteredInOrder ==
  ASSUME NEW t, NEW tools, NEW b, NEW blocked, NEW w, Filtered(t, tools, b, blocked, w)
  PROVE  w \in Seq(Shows) /\ IsPrefix(Drop(w), t) /\ (tools => Unmarked(w))
<1>1. w \in Seq(Shows) /\ b \in Seq(Shows) /\ Drop(w \o b) = t
  BY DEF Filtered
<1>2. PICK r \in Seq(Shows) : Drop(w \o b) = Drop(w) \o r
  BY <1>1, DropJoin
<1>3. Drop(w) \in Seq(Shows)
  BY <1>1, DropJoin
<1>4. IsPrefix(Drop(w), Drop(w) \o r)
  BY <1>3, PrefixOfJoin
<1>5. tools => Unmarked(w)
  BY <1>1, UnmarkedFirst DEF Filtered
<1>6. QED
  BY <1>1, <1>2, <1>4, <1>5

(* What a stream in progress has written is in order.                      *)
LEMMA ThroughInOrder ==
  ASSUME StreamTyped, NEW w, Filtered(text, req.tools, filter.buffer, filter.blocked, w), Through(w)
  PROVE  \E u \in Seq(Shows) : Writes(out, u) /\ IsPrefix(Drop(u), text) /\ (req.tools => Unmarked(u))
<1>1. CASE req.format = "responses"
  <2> DEFINE u == <<>>
  <2>1. u \in Seq(Shows) /\ u \in Seq(Kinds)
    OBVIOUS
  <2>2. Writes(out, u) /\ Drop(u) = u
    BY <1>1, DropNothing DEF Through
  <2>3. Unmarked(u)
    BY DEF Unmarked
  <2>4. text \in Seq(Kinds) /\ u \o text = text
    BY ConcatEmptySeq DEF StreamTyped
  <2> HIDE DEF u
  <2>5. IsPrefix(u, u \o text)
    BY <2>1, <2>4, PrefixOfJoin
  <2>6. QED
    BY <2>1, <2>2, <2>3, <2>4, <2>5
<1>2. CASE req.format # "responses"
  <2>1. Writes(out, w)
    BY <1>2 DEF Through
  <2>2. QED
    BY <2>1, FilteredInOrder
<1>3. QED
  BY <1>1, <1>2

(* The rest that is flushed completes the text, unless the filter blocks.  *)
LEMMA FlushedInOrder ==
  ASSUME NEW w, Filtered(text, req.tools, filter.buffer, filter.blocked, w), req.tools \in BOOLEAN
  PROVE  /\ Flush \in Seq(Shows) /\ w \o Flush \in Seq(Shows) /\ IsPrefix(Drop(w \o Flush), text)
         /\ ~filter.blocked => Drop(w \o Flush) = text
         /\ req.tools => Unmarked(w \o Flush)
<1> DEFINE b == filter.buffer
<1>1. /\ w \in Seq(Shows) /\ b \in Seq(Shows) /\ filter.blocked \in BOOLEAN /\ Drop(w \o b) = text
      /\ req.tools /\ ~filter.blocked => Unmarked(w \o b)
      /\ req.tools /\ filter.blocked => Unmarked(w)
  BY DEF Filtered
<1>2. CASE filter.blocked
  <2>1. Flush = <<>>
    BY <1>2 DEF Flush
  <2>2. w \o <<>> = w /\ <<>> \in Seq(Shows)
    BY <1>1, ConcatEmptySeq
  <2>3. w \in Seq(Shows) /\ IsPrefix(Drop(w), text) /\ (req.tools => Unmarked(w))
    BY FilteredInOrder
  <2>4. QED
    BY <1>2, <2>1, <2>2, <2>3
<1>3. CASE ~filter.blocked
  <2>1. Flush = b
    BY <1>3 DEF Flush
  <2> HIDE DEF b
  <2> DEFINE u == w \o b
  <2>2. u \in Seq(Shows)
    BY <1>1, ConcatProperties
  <2>3. Drop(u) = text /\ (req.tools => Unmarked(u))
    BY <1>1, <1>3
  <2> HIDE DEF u
  <2>4. Drop(u) \in Seq(Shows)
    <3>1. <<>> \in Seq(Shows)
      OBVIOUS
    <3>2. QED
      BY <2>2, <3>1, DropJoin
  <2>5. IsPrefix(Drop(u), Drop(u) \o <<>>) /\ Drop(u) \o <<>> = Drop(u)
    <3>1. <<>> \in Seq(Shows)
      OBVIOUS
    <3>2. QED
      BY <2>4, <3>1, PrefixOfJoin, ConcatEmptySeq
  <2>6. u \in Seq(Shows) /\ IsPrefix(Drop(u), text)
    BY <2>2, <2>3, <2>5
  <2>7. QED
    BY <1>1, <2>1, <2>3, <2>6 DEF u
<1>4. QED
  BY <1>1, <1>2, <1>3

(* The end of an answer.                                                   *)
LEMMA SucceedSettles ==
  ASSUME StreamTyped, ~req.aggregate, req.format \in {"anthropic", "openai", "responses"},
         NEW w, Filtered(text, req.tools, filter.buffer, filter.blocked, w), Through(w),
         NEW result, result.calls \in Nat, Succeed(result)
  PROVE  Settled'
<1> DEFINE n == result.calls
           x == CASE req.format = "anthropic" -> AnthropicEnd(result)
                  [] req.format = "openai" -> OpenAIEnd(result)
                  [] OTHER -> ResponsesEnd(result)
<1>1. /\ out' = out \o x /\ phase' = "answered" /\ req' = req /\ text' = text /\ filter' = filter
  BY DEF Succeed, genVars, writerVars
<1>2. /\ Flush \in Seq(Shows) /\ w \o Flush \in Seq(Shows) /\ IsPrefix(Drop(w \o Flush), text)
      /\ ~filter.blocked => Drop(w \o Flush) = text
      /\ req.tools => Unmarked(w \o Flush)
  <2>1. req.tools \in BOOLEAN
    BY DEF StreamTyped, Requests
  <2>2. QED
    BY <2>1, FlushedInOrder
<1>3. \E u \in Seq(Shows) :
        /\ Writes(out, u)
        /\ \/ u = w /\ Concludes(x, IF n = 0 THEN Flush ELSE <<>>, n)
           \/ u = <<>> /\ Concludes(x, IF n = 0 THEN w \o Flush ELSE <<>>, n)
  <2>1. CASE req.format = "anthropic"
    <3>1. Writes(out, w) /\ x = AnthropicEnd(result)
      BY <2>1 DEF Through
    <3>2. Concludes(x, IF n = 0 THEN Flush ELSE <<>>, n)
      BY <1>2, <3>1, AnthropicConcludes DEF If
    <3>3. w \in Seq(Shows)
      BY DEF Filtered
    <3> HIDE DEF x, n
    <3>4. QED
      <4> WITNESS w \in Seq(Shows)
      <4>1. QED
        BY <3>1, <3>2
  <2>2. CASE req.format = "openai"
    <3>1. Writes(out, w) /\ x = OpenAIEnd(result)
      BY <2>2 DEF Through
    <3>2. Concludes(x, IF n = 0 THEN Flush ELSE <<>>, n)
      BY <1>2, <3>1, OpenAIConcludes DEF If
    <3>3. w \in Seq(Shows)
      BY DEF Filtered
    <3> HIDE DEF x, n
    <3>4. QED
      <4> WITNESS w \in Seq(Shows)
      <4>1. QED
        BY <3>1, <3>2
  <2>3. CASE req.format = "responses"
    <3>1. Writes(out, <<>>) /\ pendingText \in Seq(Seq(Shows)) /\ FlattenSeq(pendingText) = w /\ x = ResponsesEnd(result)
      BY <2>3 DEF Through
    <3>2. Concludes(x, IF n = 0 THEN w \o Flush ELSE <<>>, n)
      BY <1>2, <3>1, ResponsesConcludes
    <3>3. <<>> \in Seq(Shows)
      OBVIOUS
    <3> HIDE DEF x, n
    <3>4. QED
      BY <3>1, <3>2, <3>3
  <2>4. QED
    BY <2>1, <2>2, <2>3
<1>4. n \in Nat
  OBVIOUS
<1>5. PICK u \in Seq(Shows) :
        /\ Writes(out, u)
        /\ \/ u = w /\ Concludes(x, IF n = 0 THEN Flush ELSE <<>>, n)
           \/ u = <<>> /\ Concludes(x, IF n = 0 THEN w \o Flush ELSE <<>>, n)
  BY <1>3
<1> HIDE DEF x, n
<1>6. CASE n = 0
  <2>1. Writes(out \o x, w \o Flush)
    <3>1. CASE Concludes(x, Flush, n) /\ u = w
      BY <1>5, <3>1 DEF Concludes, Pens
    <3>2. CASE Concludes(x, w \o Flush, n) /\ u = <<>>
      <4>1. Writes(out \o x, <<>> \o (w \o Flush))
        BY <1>5, <3>2 DEF Concludes, Pens
      <4>2. <<>> \o (w \o Flush) = w \o Flush
        BY <1>2, ConcatEmptySeq
      <4>3. QED
        BY <4>1, <4>2
    <3>3. QED
      BY <1>5, <1>6, <3>1, <3>2
  <2> DEFINE v == w \o Flush
  <2>2. /\ v \in Seq(Shows) /\ Writes(out', v) /\ IsPrefix(Drop(v), text')
        /\ ~filter'.blocked => Drop(v) = text'
        /\ req'.tools => Unmarked(v)
    BY <1>1, <1>2, <2>1
  <2> HIDE DEF v
  <2>3. QED
    BY <2>2 DEF Settled
<1>7. CASE n > 0
  <2>1. \E v \in Seq(Shows) : Writes(out, v) /\ IsPrefix(Drop(v), text) /\ (req.tools => Unmarked(v))
    BY ThroughInOrder
  <2>2. PICK v \in Seq(Shows) : Writes(out, v) /\ IsPrefix(Drop(v), text) /\ (req.tools => Unmarked(v))
    BY <2>1
  <2>3. Pens(x, <<>>) /\ Calling(x)
    BY <1>5, <1>7 DEF Concludes
  <2>4. Writes(out', v)
    <3>1. Writes(out \o x, v \o <<>>) /\ v \o <<>> = v
      BY <2>2, <2>3, ConcatEmptySeq DEF Pens
    <3>2. QED
      BY <1>1, <3>1
  <2>5. CallsTools'
    <3>1. Calling(out \o x)
      BY <2>2, <2>3, CallingOn DEF Writes
    <3>2. Calling(out')
      BY <1>1, <3>1
    <3>3. QED
      BY <3>2 DEF Calling, CallsTools
  <2>6. IsPrefix(Drop(v), text') /\ (req'.tools => Unmarked(v))
    BY <1>1, <2>2
  <2>7. QED
    BY <2>4, <2>5, <2>6 DEF Settled
<1>8. QED
  BY <1>4, <1>6, <1>7

(* Nothing has been let through at the start.                              *)
LEMMA ShownInvInit == Init => ShownInv
<1> SUFFICES ASSUME Init PROVE ShownInv
  OBVIOUS
<1> DEFINE w == <<>>
<1>1. w \in Seq(Shows) /\ w \o w = w /\ Drop(w) = w /\ Writes(w, w) /\ FlattenSeq(w) = w
  <2>1. <<>> \in Seq(Shows)
    OBVIOUS
  <2>2. QED
    BY <2>1, ConcatEmptySeq, DropNothing, WritesNothing, FlattenNothing
<1>2. w \in Seq(Seq(Shows)) /\ Unmarked(w)
  BY DEF Unmarked
<1>3. /\ text = w /\ filter.buffer = w /\ filter.blocked = FALSE /\ pendingText = w /\ out = w
      /\ phase = "streaming" /\ req.tools \in BOOLEAN
  BY DEF Init, Requests
<1> HIDE DEF w
<1>4. Filtered(text, req.tools, filter.buffer, filter.blocked, w)
  <2> DEFINE u == w \o w
  <2>1. u = w /\ Drop(u) = w
    BY <1>1
  <2>2. Filtered(w, req.tools, w, FALSE, w)
    <3>1. Unmarked(u)
      BY <1>2, <2>1
    <3>2. Drop(w \o w) = w /\ Unmarked(w \o w)
      BY <2>1, <3>1 DEF u
    <3>3. w \in Seq(Shows) /\ FALSE \in BOOLEAN /\ w = <<>>
      BY <1>1 DEF w
    <3>4. QED
      BY <1>2, <3>2, <3>3 DEF Filtered
  <2>3. QED
    BY <1>3, <2>2
<1>5. Through(w)
  BY <1>1, <1>2, <1>3 DEF Through, w
<1>6. QED
  BY <1>3, <1>4, <1>5, StreamInvInit DEF ShownInv, Streaming

(* A shown delta keeps the stream in order.                                *)
LEMMA ShowStreams ==
  ASSUME ShownInv, Generating, ~req.aggregate, NEW delta \in Shows, Show(delta), req' = req,
         text' = text \o If(delta # "thought", <<delta>>)
  PROVE  Streaming'
<1>1. StreamTyped /\ Streaming /\ phase = "streaming" /\ req.format # "hosted"
  BY DEF ShownInv, StreamInv, Generating
<1>2. PICK w : Filtered(text, req.tools, filter.buffer, filter.blocked, w) /\ Through(w)
  BY <1>1 DEF Streaming
<1>3. req.tools \in BOOLEAN /\ req.format \in {"anthropic", "openai", "responses"}
  BY <1>1 DEF StreamTyped, Requests, Formats
<1> DEFINE p == Push(delta)
           e == p.emit
<1>4. e \in Seq(Shows) /\ Filtered(text', req.tools, p.buffer, p.blocked, w \o e)
  BY <1>2, <1>3, PushFilters
<1>5. filter'.buffer = p.buffer /\ filter'.blocked = p.blocked /\ e = Push(delta).emit
  BY DEF Show
<1> HIDE DEF p, e
<1>6. IF req.format = "responses"
      THEN Writes(out', <<>>) /\ pendingText' \in Seq(Seq(Shows)) /\ FlattenSeq(pendingText') = w \o e
      ELSE Writes(out', w \o e)
  BY <1>1, <1>2, <1>3, <1>4, <1>5, ShowThrough
<1> DEFINE v == w \o e
<1>7. Filtered(text', req'.tools, filter'.buffer, filter'.blocked, v)
  BY <1>4, <1>5
<1>8. IF req'.format = "responses"
      THEN Writes(out', <<>>) /\ pendingText' \in Seq(Seq(Shows)) /\ FlattenSeq(pendingText') = v
      ELSE Writes(out', v)
  BY <1>6
<1> HIDE DEF v
<1>9. QED
  BY <1>7, <1>8 DEF Streaming, Through

(* A thinking delta keeps the stream in order.                             *)
LEMMA ThinkStreams == ASSUME ShownInv, Think PROVE Streaming'
<1>1. StreamTyped /\ Streaming /\ phase = "streaming" /\ Generating
  BY DEF ShownInv, StreamInv, Think, Generating
<1>2. req' = req /\ text' = text
  BY DEF Think
<1>3. CASE req.format = "openai" /\ ~req.aggregate
  <2>1. Show("thought")
    BY <1>3 DEF Think
  <2>2. "thought" \in Shows /\ text' = text \o If("thought" # "thought", <<"thought">>)
    BY <1>1, <1>2, ConcatEmptySeq DEF If, Shows, StreamTyped
  <2>3. QED
    BY <1>1, <1>2, <1>3, <2>1, <2>2, ShowStreams
<1>4. CASE req.format = "anthropic" /\ req.reasoning /\ ~req.aggregate
  <2>1. out' = out \o ThinkingEvents /\ filter' = filter /\ pendingText' = pendingText
    BY <1>4 DEF Think
  <2>2. PICK w : Filtered(text, req.tools, filter.buffer, filter.blocked, w) /\ Through(w)
    BY <1>1, <1>4 DEF Streaming
  <2>3. Writes(out', w)
    <3>1. Writes(out, w)
      BY <1>4, <2>2 DEF Through
    <3>2. Pens(ThinkingEvents, <<>>)
      BY <1>1, PensThinking DEF StreamTyped
    <3>3. Writes(out \o ThinkingEvents, w \o <<>>) /\ w \o <<>> = w
      BY <3>1, <3>2, ConcatEmptySeq DEF Pens, Writes
    <3>4. QED
      BY <2>1, <3>3
  <2>4. Filtered(text', req'.tools, filter'.buffer, filter'.blocked, w) /\ req'.format # "responses"
    BY <1>2, <1>4, <2>1, <2>2
  <2>5. QED
    BY <2>3, <2>4 DEF Streaming, Through
<1>5. CASE ~(req.format = "openai" /\ ~req.aggregate) /\ ~(req.format = "anthropic" /\ req.reasoning /\ ~req.aggregate)
  <2>1. Hide
    BY <1>5 DEF Think
  <2>2. filter' = filter /\ pendingText' = pendingText /\ out' = out
    BY <2>1 DEF Hide, writerVars
  <2>3. QED
    BY <1>1, <1>2, <2>2 DEF Streaming, Through
<1>6. QED
  BY <1>3, <1>4, <1>5

(* So does a text delta.                                                   *)
LEMMA SpeakStreams == ASSUME ShownInv, NEW delta \in Kinds, Speak(delta) PROVE Streaming'
<1>1. Generating /\ req' = req /\ text' = Append(text, delta)
  BY DEF Speak
<1>2. CASE req.aggregate
  BY <1>1, <1>2 DEF Streaming
<1>3. CASE ~req.aggregate
  <2>1. Show(delta)
    BY <1>3 DEF Speak
  <2>2. delta \in Shows /\ delta # "thought"
    BY DEF Shows, Kinds
  <2>3. text' = text \o If(delta # "thought", <<delta>>)
    <3>1. text \in Seq(Kinds)
      BY DEF ShownInv, StreamInv, StreamTyped
    <3>2. Append(text, delta) = text \o <<delta>>
      BY <3>1, AppendIsConcat
    <3>3. QED
      BY <1>1, <2>2, <3>2 DEF If
  <2>4. QED
    BY <1>1, <1>3, <2>1, <2>2, <2>3, ShowStreams
<1>4. QED
  BY <1>2, <1>3

(* A stream that stops where it is, after events that write nothing.       *)
LEMMA StopSettles ==
  ASSUME ShownInv, phase = "streaming", NEW x, Pens(x, <<>>), out' = out \o x, phase' # "answered",
         req' = req, text' = text, filter' = filter
  PROVE  Settled'
<1> SUFFICES ASSUME ~req.aggregate PROVE Settled'
  BY DEF Settled
<1>1. StreamTyped /\ Streaming
  BY DEF ShownInv, StreamInv
<1>2. PICK w : Filtered(text, req.tools, filter.buffer, filter.blocked, w) /\ Through(w)
  BY <1>1 DEF Streaming
<1>3. PICK u \in Seq(Shows) : Writes(out, u) /\ IsPrefix(Drop(u), text) /\ (req.tools => Unmarked(u))
  BY <1>1, <1>2, ThroughInOrder
<1>4. Writes(out \o x, u \o <<>>) /\ u \o <<>> = u
  BY <1>3, ConcatEmptySeq DEF Pens
<1>5. Writes(out', u) /\ IsPrefix(Drop(u), text') /\ (req'.tools => Unmarked(u))
  BY <1>3, <1>4
<1>6. QED
  BY <1>5 DEF Settled

(* A hosted tool shows no text.                                            *)
LEMMA HostedSettles == ASSUME ShownInv, HostedAnswer PROVE Settled'
<1>1. /\ phase = "streaming" /\ req' = req /\ text' = text /\ filter' = filter
      /\ out' = Tools(0, 1) \o <<Finish(<<>>)>>
  BY DEF HostedAnswer, genVars, writerVars
<1> DEFINE x == Tools(0, 1) \o <<Finish(<<>>)>>
           u == <<>>
<1>2. Concludes(x, u, 1)
  BY ConcludesTools
<1>3. Writes(x, u) /\ Calling(x)
  <2>1. Pens(x, u) /\ Calling(x)
    BY <1>2 DEF Concludes
  <2> HIDE DEF x
  <2>2. Writes(<<>> \o x, <<>> \o u)
    BY <2>1, WritesNothing DEF Pens
  <2>3. <<>> \o x = x /\ <<>> \o u = u
    BY <2>1, EmptyList DEF Pens
  <2>4. QED
    BY <2>1, <2>2, <2>3
<1>4. u \in Seq(Shows) /\ Unmarked(u) /\ Drop(u) = u
  BY DropNothing DEF Unmarked
<1>5. IsPrefix(u, text)
  <2>1. text \in Seq(Kinds) /\ u \in Seq(Kinds) /\ u \o text = text
    BY ConcatEmptySeq DEF ShownInv, StreamInv, StreamTyped
  <2> HIDE DEF u
  <2>2. IsPrefix(u, u \o text)
    BY <2>1, PrefixOfJoin
  <2>3. QED
    BY <2>1, <2>2
<1> HIDE DEF x, u
<1>6. out' = x
  BY <1>1 DEF x
<1>7. CallsTools'
  BY <1>3, <1>6 DEF Calling, CallsTools
<1>8. Writes(out', u) /\ IsPrefix(Drop(u), text')
  BY <1>1, <1>3, <1>4, <1>5, <1>6
<1>9. QED
  BY <1>4, <1>7, <1>8 DEF Settled

(* Every step keeps the stream in order.                                   *)
LEMMA ShownInvNext == ShownInv /\ [Next]_vars => ShownInv'
<1> SUFFICES ASSUME ShownInv, [Next]_vars PROVE ShownInv'
  OBVIOUS
<1>1. StreamInv /\ StreamTyped /\ Streaming /\ (phase # "streaming" => Settled)
  BY DEF ShownInv, StreamInv
<1>2. StreamInv'
  BY <1>1, StreamInvNext
<1>3. ASSUME phase' = "streaming", Streaming' PROVE ShownInv'
  BY <1>2, <1>3 DEF ShownInv
<1>4. ASSUME phase' # "streaming", Settled' PROVE ShownInv'
  BY <1>2, <1>4 DEF ShownInv, Streaming
<1>5. CASE Think
  <2>1. phase' = "streaming"
    BY <1>5 DEF Think, Generating
  <2>2. QED
    BY <1>3, <1>5, <2>1, ThinkStreams
<1>6. ASSUME NEW delta \in Kinds, Speak(delta) PROVE ShownInv'
  <2>1. phase' = "streaming"
    BY <1>6 DEF Speak, Generating
  <2>2. QED
    BY <1>3, <1>6, <2>1, SpeakStreams
<1>7. ASSUME NEW result \in Results, Succeed(result) PROVE ShownInv'
  <2>1. phase' = "answered" /\ phase = "streaming" /\ req' = req /\ req.format # "hosted"
    BY <1>7 DEF Succeed, Generating, genVars
  <2>2. result.calls \in Nat
    BY <1>1, <1>7, ResultsAre
  <2>3. Settled'
    <3>1. CASE req.aggregate
      BY <2>1, <3>1 DEF Settled
    <3>2. CASE ~req.aggregate
      <4>1. PICK w : Filtered(text, req.tools, filter.buffer, filter.blocked, w) /\ Through(w)
        BY <1>1, <2>1, <3>2 DEF Streaming
      <4>2. req.format \in {"anthropic", "openai", "responses"}
        BY <1>1, <2>1 DEF StreamTyped, Requests, Formats
      <4>3. QED
        BY <1>1, <1>7, <2>2, <3>2, <4>1, <4>2, SucceedSettles
    <3>3. QED
      BY <3>1, <3>2
  <2>4. QED
    BY <1>4, <2>1, <2>3
<1>8. CASE PromptAgain
  <2>1. phase = "streaming" /\ phase' = "streaming" /\ req' = req /\ text' = text /\ UNCHANGED <<filter, pendingText, out>>
    BY <1>8 DEF PromptAgain, Generating, writerVars
  <2>2. Streaming'
    BY <1>1, <2>1 DEF Streaming, Through
  <2>3. QED
    BY <1>3, <2>1, <2>2
<1>9. CASE HostedAnswer
  <2>1. phase' = "answered"
    BY <1>9 DEF HostedAnswer
  <2>2. QED
    BY <1>4, <1>9, <2>1, HostedSettles
<1>10. CASE Fail
  <2>1. /\ phase = "streaming" /\ phase' = "failed" /\ out' = Append(out, Error)
        /\ req' = req /\ text' = text /\ filter' = filter
    BY <1>10 DEF Fail, Generating, genVars, writerVars
  <2>2. Pens(<<Error>>, <<>>)
    BY EventParts, PensQuietEvent
  <2>3. ASSUME ~req.aggregate PROVE Settled'
    <3>1. PICK w : Through(w)
      BY <1>1, <2>1, <2>3 DEF Streaming
    <3>2. IsList(out)
      BY <3>1 DEF Through, Writes
    <3>3. out' = out \o <<Error>>
      <4>1. PICK T : out \in Seq(T)
        BY <3>2 DEF IsList
      <4>2. out \in Seq(T \cup {Error})
        BY <4>1, SeqMonotonic
      <4>3. QED
        BY <2>1, <4>2, AppendIsConcat
    <3>4. QED
      BY <2>1, <2>2, <3>3, StopSettles
  <2>4. Settled'
    BY <2>1, <2>3 DEF Settled
  <2>5. QED
    BY <1>4, <2>1, <2>4
<1>11. CASE Leave
  <2>1. phase = "streaming" /\ phase' = "cut" /\ out' = out /\ req' = req /\ text' = text /\ filter' = filter
    BY <1>11 DEF Leave, genVars, writerVars
  <2>2. ASSUME ~req.aggregate PROVE Settled'
    <3>1. PICK w : Through(w)
      BY <1>1, <2>1, <2>2 DEF Streaming
    <3>2. out' = out \o <<>>
      BY <2>1, <3>1, EmptyList DEF Through, Writes
    <3>3. QED
      BY <2>1, <3>2, PensNothing, StopSettles
  <2>3. Settled'
    BY <2>1, <2>2 DEF Settled
  <2>4. QED
    BY <1>4, <2>1, <2>3
<1>12. CASE UNCHANGED vars
  <2>1. /\ req' = req /\ text' = text /\ filter' = filter /\ out' = out /\ pendingText' = pendingText /\ phase' = phase
    BY <1>12 DEF vars, genVars, writerVars
  <2>2. Streaming' /\ (phase' # "streaming" => Settled')
    BY <1>1, <2>1 DEF Streaming, Settled, Through, CallsTools
  <2>3. QED
    BY <1>2, <2>2 DEF ShownInv
<1>13. QED
  BY <1>5, <1>6, <1>7, <1>8, <1>9, <1>10, <1>11, <1>12 DEF Next, Over

(* The invariant says of every stream what ShownInOrder says.              *)
LEMMA ShownInvShown == ShownInv => ShownInOrder
<1> SUFFICES ASSUME ShownInv PROVE Settled
  BY SettledShown
<1>1. CASE phase # "streaming"
  BY <1>1 DEF ShownInv
<1>2. ASSUME phase = "streaming", ~req.aggregate PROVE Settled
  <2>1. StreamTyped /\ Streaming
    BY DEF ShownInv, StreamInv
  <2>2. PICK w : Filtered(text, req.tools, filter.buffer, filter.blocked, w) /\ Through(w)
    BY <1>2, <2>1 DEF Streaming
  <2>3. PICK u \in Seq(Shows) : Writes(out, u) /\ IsPrefix(Drop(u), text) /\ (req.tools => Unmarked(u))
    BY <2>1, <2>2, ThroughInOrder
  <2>4. QED
    BY <1>2, <2>3 DEF Settled
<1>3. QED
  BY <1>1, <1>2 DEF Settled

(* ShownInOrder holds for any number of deltas and calls and any tail held *)
(* back: what a client sees is the text in order and without gaps, all of  *)
(* it when no tool is called and nothing is blocked, and never a marker of *)
(* the filter: of the parsed blocks, only those that the filter does not   *)
(* know (server.go 1613-1693).                                             *)
THEOREM OrderTheorem == Spec => []ShownInOrder
BY ShownInvInit, ShownInvNext, ShownInvShown, PTL DEF Spec
=============================================================================
