---------------------------- MODULE FoldTheorems ----------------------------
(* Induction on the natural numbers, stated of a set where the library     *)
(* states it of an operator, and what it says of FoldLeft: the fold over a *)
(* list is its last intermediate result. The second part is about lists    *)
(* that are spread, each element replaced by a list, and flattened.        *)
EXTENDS Integers, SequencesExt, FiniteSetTheorems, SequenceTheorems, WellFoundedInduction, TLAPS

(* A non-empty set of natural numbers has a least element, as the          *)
(* intervals below its elements are well-founded under inclusion.          *)
LEMMA LeastNumber ==
  ASSUME NEW D \in SUBSET Nat, D # {}
  PROVE  \E k \in D : \A j \in D : k <= j
<1> DEFINE T == {1 .. k : k \in D}
           R == StrictSubsetOrdering(Nat)
<1>1. IsWellFoundedOn(R, FiniteSubsetsOf(Nat))
  BY FS_StrictSubsetOrderingWellFounded
<1>2. \A k \in D : 1 .. k \in FiniteSubsetsOf(Nat)
  BY FS_Interval DEF FiniteSubsetsOf
<1>3. T \subseteq FiniteSubsetsOf(Nat) /\ T # {}
  BY <1>2
<1>4. PICK s \in T : \A t \in T : ~(<<t, s>> \in R)
  <2> HIDE DEF R, T
  <2>1. QED
    BY <1>1, <1>3, WFMin, Zenon
<1>5. PICK k \in D : s = 1 .. k
  BY <1>4
<1>6. ASSUME NEW j \in D, j < k PROVE FALSE
  <2>1. 1 .. j \in T /\ 1 .. j \subseteq 1 .. k /\ k \in 1 .. k /\ k \notin 1 .. j
    BY <1>6
  <2>2. <<1 .. j, 1 .. k>> \in R
    BY <2>1 DEF StrictSubsetOrdering
  <2>3. QED
    BY <2>1, <2>2, <1>4, <1>5
<1>7. QED
  BY <1>6

(* Induction.                                                              *)
LEMMA NumberInduction ==
  ASSUME NEW S, 0 \in S, \A n \in Nat : n \in S => n + 1 \in S
  PROVE  Nat \subseteq S
<1> SUFFICES ASSUME Nat \ S # {} PROVE FALSE
  OBVIOUS
<1>1. PICK k \in Nat \ S : \A j \in Nat \ S : k <= j
  BY LeastNumber
<1>2. k - 1 \in Nat /\ k - 1 \in S
  BY <1>1
<1>3. QED
  BY <1>1, <1>2

(* Induction up to a bound.                                                *)
LEMMA BoundedInduction ==
  ASSUME NEW n \in Nat, NEW S, 0 \in S, \A k \in 1 .. n : k - 1 \in S => k \in S
  PROVE  0 .. n \subseteq S
<1> DEFINE T == {k \in Nat : k <= n => k \in S}
<1>1. 0 \in T /\ \A k \in Nat : k \in T => k + 1 \in T
  BY Z3
<1>2. Nat \subseteq T
  <2> HIDE DEF T
  <2>1. QED
    BY <1>1, NumberInduction
<1>3. QED
  BY <1>2

(* Min is the least of the set's elements.                                  *)
LEMMA MinIs ==
  ASSUME NEW D \in SUBSET Nat, D # {}
  PROVE  Min(D) \in D /\ \A j \in D : Min(D) <= j
BY LeastNumber DEF Min

(* Max is one of the set's elements, and none is greater.                  *)
LEMMA MaxTops ==
  ASSUME NEW n \in Nat, NEW s \in SUBSET (1 .. n), s # {}
  PROVE  Max(s) \in s /\ \A i \in s : Max(s) >= i
<1> DEFINE D == {i \in 0 .. n : n - i \in s}
<1>1. D \in SUBSET Nat /\ D # {}
  <2>1. PICK i \in s : TRUE
    OBVIOUS
  <2>2. n - i \in D
    BY <2>1
  <2>3. D \in SUBSET Nat
    OBVIOUS
  <2> HIDE DEF D
  <2>4. QED
    BY <2>2, <2>3
<1>2. PICK k \in D : \A j \in D : k <= j
  <2> HIDE DEF D
  <2>1. QED
    BY <1>1, LeastNumber
<1>3. n - k \in s /\ k \in 0 .. n
  OBVIOUS
<1>4. ASSUME NEW i \in s PROVE n - k >= i
  <2>1. n - i \in D
    OBVIOUS
  <2>2. k <= n - i
    BY <1>2, <2>1
  <2>3. QED
    BY <1>3, <2>2
<1>5. QED
  BY <1>3, <1>4 DEF Max

(* The greatest element of a set of numbers is in it.                      *)
LEMMA MaxIn ==
  ASSUME NEW n \in Nat, NEW s \in SUBSET (1 .. n), s # {}
  PROVE  Max(s) \in s
BY MaxTops

(* The last number of an interval is the Max of every set that has it.     *)
LEMMA MaxIs ==
  ASSUME NEW n \in Nat, NEW s \in SUBSET (1 .. n), n \in s
  PROVE  Max(s) = n
<1>1. \A x \in s : x \in Int /\ n >= x
  OBVIOUS
<1>2. \A x \in s : (\A y \in s : x >= y) => x = n
  BY <1>1
<1>3. QED
  BY <1>1, <1>2 DEF Max

(* A bounded sequence is a sequence.                                       *)
LEMMA BoundedIsSeq ==
  ASSUME NEW S, NEW n \in Nat, NEW s \in BoundedSeq(S, n)
  PROVE  s \in Seq(S) /\ Len(s) <= n
<1>1. PICK m \in 0 .. n : s \in [1 .. m -> S]
  BY DEF BoundedSeq, SeqOf
<1>2. QED
  BY <1>1

(* The intermediate results of a fold, for every set of the first elements *)
(* of a list of n.                                                         *)
IsFold(g, n, base, F) ==
  \A s \in SUBSET (1 .. n) : g[s] = IF s = {} THEN base ELSE F[g[s \ {Max(s)}]][Max(s)]

(* The recursive function by which FoldLeft is defined exists: one for a   *)
(* list gives one for a list with an element more.                         *)
LEMMA FoldExists ==
  ASSUME NEW R, NEW base \in R, NEW n \in Nat, NEW F \in [R -> [1 .. n -> R]]
  PROVE  \E g \in [SUBSET (1 .. n) -> R] : IsFold(g, n, base, F)
<1> USE DEF IsFold
<1> DEFINE Folds(g, k) == IsFold(g, k, base, F)
           S == {k \in 0 .. n : \E g \in [SUBSET (1 .. k) -> R] : Folds(g, k)}
<1>1. 0 \in S
  <2> DEFINE g == [s \in SUBSET (1 .. 0) |-> base]
  <2>1. 1 .. 0 = {} /\ SUBSET (1 .. 0) = {{}}
    OBVIOUS
  <2>2. g \in [SUBSET (1 .. 0) -> R]
    OBVIOUS
  <2>3. Folds(g, 0)
    BY <2>1
  <2> HIDE DEF g, Folds
  <2>4. \E f \in [SUBSET (1 .. 0) -> R] : Folds(f, 0)
    BY <2>2, <2>3
  <2>5. 0 \in 0 .. n
    OBVIOUS
  <2>6. QED
    BY <2>4, <2>5, Zenon
<1>2. ASSUME NEW k \in 1 .. n, k - 1 \in S PROVE k \in S
  <2>1. PICK g \in [SUBSET (1 .. k - 1) -> R] : Folds(g, k - 1)
    BY <1>2
  <2> DEFINE h == [s \in SUBSET (1 .. k) |-> IF k \in s THEN F[g[s \ {k}]][k] ELSE g[s]]
  <2>2. \A s \in SUBSET (1 .. k) : s \ {k} \in SUBSET (1 .. k - 1) /\ (k \notin s => s \in SUBSET (1 .. k - 1))
    <3>1. \A i \in 1 .. k : i # k => i \in 1 .. k - 1
      OBVIOUS
    <3>2. QED
      BY <3>1
  <2>3. h \in [SUBSET (1 .. k) -> R]
    BY <2>2
  <2>4. ASSUME NEW s \in SUBSET (1 .. k - 1) PROVE s \in SUBSET (1 .. k) /\ h[s] = g[s]
    <3>1. s \in SUBSET (1 .. k) /\ k \notin s
      BY Z3
    <3>2. QED
      BY <3>1
  <2>5. ASSUME NEW s \in SUBSET (1 .. k)
        PROVE  h[s] = IF s = {} THEN base ELSE F[h[s \ {Max(s)}]][Max(s)]
    <3>1. CASE k \in s
      <4>1. Max(s) = k
        BY <3>1, MaxIs
      <4>2. h[s \ {k}] = g[s \ {k}] /\ h[s] = F[g[s \ {k}]][k]
        BY <2>2, <2>4, <3>1
      <4>3. QED
        BY <3>1, <4>1, <4>2
    <3>2. CASE k \notin s
      <4>1. s \in SUBSET (1 .. k - 1) /\ s \ {Max(s)} \in SUBSET (1 .. k - 1)
        BY <2>2, <3>2
      <4>2. h[s] = g[s] /\ h[s \ {Max(s)}] = g[s \ {Max(s)}]
        BY <4>1, <2>4
      <4>3. QED
        BY <2>1, <4>1, <4>2
    <3>3. QED
      BY <3>1, <3>2
  <2>6. Folds(h, k)
    BY <2>5
  <2> HIDE DEF h, Folds
  <2>7. QED
    BY <2>3, <2>6
<1>3. n \in S
  <2> HIDE DEF S
  <2>1. 0 .. n \subseteq S
    BY <1>1, <1>2, BoundedInduction
  <2>2. QED
    BY <2>1
<1>4. QED
  <2> HIDE DEF IsFold
  <2>1. QED
    BY <1>3

(* FlattenSeq joins the sequences one after the other.                     *)
LEMMA FlattenSteps ==
  ASSUME NEW T, NEW E \in Seq(Seq(T))
  PROVE  \E f \in [0 .. Len(E) -> Seq(T)] :
           /\ f[0] = <<>> /\ f[Len(E)] = FlattenSeq(E)
           /\ \A k \in 1 .. Len(E) : f[k] = f[k - 1] \o E[k]
<1> DEFINE n == Len(E)
           total == FlattenSeq(E)
           Eq(g) == g = [i \in 1 .. Len(E) |-> IF i = 1 THEN E[i] ELSE g[i - 1] \o E[i]]
           flatten == CHOOSE g : Eq(g)
<1>1. n \in Nat /\ \A k \in 1 .. n : E[k] \in Seq(T) /\ Len(E[k]) \in Nat
  BY ElementOfSeq
<1>2. CASE n = 0
  <2>1. E = <<>> /\ total = <<>>
    BY <1>2 DEF FlattenSeq
  <2> DEFINE f == [k \in 0 .. n |-> <<>>]
  <2>2. f \in [0 .. n -> Seq(T)] /\ f[0] = <<>> /\ f[n] = total /\ 1 .. n = {}
    BY <1>2, <2>1
  <2> HIDE DEF total, f
  <2>3. QED
    BY <2>2 DEF total
<1>3. CASE n # 0
  <2>1. total = flatten[n]
    BY <1>3 DEF FlattenSeq
  <2> HIDE DEF n
  <2> DEFINE Flat(g, k) == \A i \in 1 .. k : g[i] = IF i = 1 THEN E[i] ELSE g[i - 1] \o E[i]
             S == {k \in 0 .. n : \E g \in [1 .. k -> Seq(T)] : Flat(g, k)}
  <2>2. 0 \in S
    <3> DEFINE g == [i \in 1 .. 0 |-> <<>>]
    <3>1. g \in [1 .. 0 -> Seq(T)] /\ Flat(g, 0)
      OBVIOUS
    <3> HIDE DEF g, Flat
    <3>2. \E f \in [1 .. 0 -> Seq(T)] : Flat(f, 0)
      BY <3>1
    <3>3. 0 \in 0 .. n
      BY <1>1
    <3>4. QED
      BY <3>2, <3>3, Zenon
  <2>3. ASSUME NEW k \in 1 .. n, k - 1 \in S PROVE k \in S
    <3>1. PICK g \in [1 .. k - 1 -> Seq(T)] : Flat(g, k - 1)
      BY <2>3
    <3> DEFINE h == [i \in 1 .. k |-> IF i = k THEN (IF k = 1 THEN E[k] ELSE g[k - 1] \o E[k]) ELSE g[i]]
    <3>2. \A i \in 1 .. k : i = k \/ i \in 1 .. k - 1
      BY <1>1
    <3>3. k # 1 => k - 1 \in 1 .. k - 1 /\ g[k - 1] \in Seq(T)
      BY <1>1
    <3>4. (IF k = 1 THEN E[k] ELSE g[k - 1] \o E[k]) \in Seq(T)
      BY <1>1, <3>3
    <3>5. h \in [1 .. k -> Seq(T)]
      BY <3>2, <3>4
    <3>6. Flat(h, k)
      <4> SUFFICES ASSUME NEW i \in 1 .. k
                   PROVE  h[i] = IF i = 1 THEN E[i] ELSE h[i - 1] \o E[i]
        OBVIOUS
      <4>1. i # 1 => i - 1 \in 1 .. k /\ i - 1 # k
        BY <1>1
      <4>2. i # 1 => h[i - 1] = g[i - 1]
        BY <4>1
      <4>3. QED
        BY <3>1, <3>2, <4>2
    <3> HIDE DEF h, Flat
    <3>7. \E f \in [1 .. k -> Seq(T)] : Flat(f, k)
      BY <3>5, <3>6
    <3>8. k \in 0 .. n
      BY <1>1
    <3>9. QED
      BY <3>7, <3>8, Zenon
  <2>4. PICK g \in [1 .. n -> Seq(T)] : Flat(g, n)
    <3> HIDE DEF Flat
    <3>1. n \in S
      <4> HIDE DEF S
      <4>1. 0 .. n \subseteq S
        BY <1>1, <2>2, <2>3, BoundedInduction
      <4>2. QED
        BY <1>1, <4>1
    <3>2. QED
      BY <3>1
  <2>5. Eq(g)
    BY <2>4 DEF n
  <2>6. Eq(flatten)
    <3> HIDE DEF Eq
    <3>1. QED
      BY <2>5
  <2> HIDE DEF flatten
  <2> DEFINE f == flatten
  <2>7. \A i \in 1 .. n : f[i] = IF i = 1 THEN E[i] ELSE f[i - 1] \o E[i]
    BY <2>6 DEF n
  <2> HIDE DEF f, Eq
  <2> DEFINE Typed == {k \in 0 .. n : k # 0 => f[k] \in Seq(T)}
  <2>8. \A k \in 1 .. n : f[k] \in Seq(T)
    <3>1. 0 \in Typed
      BY <1>1
    <3>2. ASSUME NEW k \in 1 .. n, k - 1 \in Typed PROVE k \in Typed
      <4>1. k \in 0 .. n /\ E[k] \in Seq(T)
        BY <1>1
      <4>2. CASE k = 1
        BY <2>7, <4>1, <4>2
      <4>3. CASE k # 1
        <5>1. k - 1 # 0
          BY <1>1, <4>3
        <5>2. f[k - 1] \in Seq(T)
          BY <3>2, <5>1
        <5>3. f[k] = f[k - 1] \o E[k]
          BY <2>7, <4>3
        <5>4. f[k] \in Seq(T)
          BY <4>1, <5>2, <5>3
        <5>5. QED
          BY <4>1, <5>4
      <4>4. QED
        BY <4>2, <4>3
    <3>3. 0 .. n \subseteq Typed
      <4> HIDE DEF Typed
      <4>1. QED
        BY <1>1, <3>1, <3>2, BoundedInduction
    <3>4. QED
      BY <1>1, <3>3
  <2> DEFINE h == [k \in 0 .. n |-> IF k = 0 THEN <<>> ELSE f[k]]
  <2>9. h \in [0 .. n -> Seq(T)] /\ h[0] = <<>>
    BY <1>1, <2>8
  <2>10. n \in 1 .. n /\ n \in 0 .. n
    BY <1>1, <1>3
  <2>11. h[n] = total
    BY <1>3, <2>1, <2>10 DEF f
  <2>12. ASSUME NEW k \in 1 .. n PROVE h[k] = h[k - 1] \o E[k]
    <3>1. k \in 0 .. n /\ k - 1 \in 0 .. n /\ k # 0 /\ h[k] = f[k]
      BY <1>1
    <3>2. CASE k = 1
      <4>1. h[k - 1] = <<>> /\ f[k] = E[k]
        BY <2>7, <2>9, <3>2
      <4>2. QED
        BY <1>1, <3>1, <4>1, ConcatEmptySeq
    <3>3. CASE k # 1
      <4>1. h[k - 1] = f[k - 1]
        BY <3>1, <3>3
      <4>2. QED
        BY <2>7, <3>1, <3>3, <4>1
    <3>4. QED
      BY <3>2, <3>3
  <2> HIDE DEF h, total
  <2>13. QED
    BY <2>9, <2>11, <2>12 DEF total, n
<1>4. QED
  BY <1>2, <1>3

(* So each begins where those before it end.                               *)
LEMMA FlattenLayout ==
  ASSUME NEW T, NEW E \in Seq(Seq(T))
  PROVE  LET n == Len(E)
             total == FlattenSeq(E)
         IN  /\ total \in Seq(T)
             /\ \E off \in [0 .. n -> Nat] :
                  /\ off[0] = 0 /\ off[n] = Len(total)
                  /\ \A k \in 1 .. n :
                       /\ off[k] = off[k - 1] + Len(E[k]) /\ off[k] <= Len(total)
                       /\ \A j \in 1 .. Len(E[k]) : total[off[k - 1] + j] = E[k][j]
<1> DEFINE n == Len(E)
           total == FlattenSeq(E)
<1>1. n \in Nat /\ \A k \in 1 .. n : E[k] \in Seq(T) /\ Len(E[k]) \in Nat
  BY ElementOfSeq
<1>2. PICK f \in [0 .. n -> Seq(T)] : f[0] = <<>> /\ f[n] = total /\ \A k \in 1 .. n : f[k] = f[k - 1] \o E[k]
  BY FlattenSteps
<1> HIDE DEF n, total
<1> DEFINE off == [k \in 0 .. n |-> Len(f[k])]
<1>3. off \in [0 .. n -> Nat] /\ off[0] = 0 /\ off[n] = Len(total) /\ total \in Seq(T)
  BY <1>1, <1>2
<1>4. \A k \in 0 .. n : off[k] = Len(f[k]) /\ off[k] \in Nat /\ f[k] \in Seq(T)
  BY <1>1, <1>2
<1> HIDE DEF off
<1>5. ASSUME NEW k \in 1 .. n
      PROVE  /\ off[k] = off[k - 1] + Len(E[k])
             /\ \A i \in 1 .. off[k - 1] : f[k][i] = f[k - 1][i]
             /\ \A j \in 1 .. Len(E[k]) : f[k][off[k - 1] + j] = E[k][j]
  <2> DEFINE s == f[k - 1]
             t == E[k]
  <2>1. k - 1 \in 0 .. n /\ k \in 0 .. n
    BY <1>1
  <2>2. s \in Seq(T) /\ t \in Seq(T) /\ off[k - 1] = Len(s) /\ off[k] = Len(f[k]) /\ f[k] = s \o t
    BY <1>1, <1>2, <1>4, <2>1
  <2> HIDE DEF s, t
  <2>3. /\ Len(s \o t) = Len(s) + Len(t)
        /\ \A i \in 1 .. Len(s) : (s \o t)[i] = s[i]
        /\ \A j \in 1 .. Len(t) : (s \o t)[Len(s) + j] = t[j]
    BY <2>2
  <2>4. QED
    BY <2>2, <2>3 DEF s, t
<1> DEFINE Laid == {m \in 0 .. n :
             \A k \in 1 .. m : /\ off[k] <= off[m]
                               /\ \A j \in 1 .. Len(E[k]) : f[m][off[k - 1] + j] = E[k][j]}
<1>6. 0 \in Laid
  BY <1>1
<1>7. ASSUME NEW m \in 1 .. n, m - 1 \in Laid PROVE m \in Laid
  <2>m. m \in 0 .. n
    BY <1>1
  <2> SUFFICES ASSUME NEW k \in 1 .. m
               PROVE  /\ off[k] <= off[m]
                      /\ \A j \in 1 .. Len(E[k]) : f[m][off[k - 1] + j] = E[k][j]
    BY <2>m, SMTT(30)
  <2>0. m \in 0 .. n /\ m - 1 \in 0 .. n /\ k \in 0 .. n /\ k - 1 \in 0 .. n /\ k \in 1 .. n
    BY <1>1
  <2>1. CASE k = m
    <3>1. off[m] \in Nat
      BY <1>4, <2>0
    <3>2. QED
      BY <1>5, <2>1, <3>1
  <2>2. CASE k # m
    <3>1. k \in 1 .. m - 1
      BY <1>1, <2>2
    <3>2. off[k] <= off[m - 1]
      BY <1>7, <3>1
    <3>3. off[m] = off[m - 1] + Len(E[m]) /\ Len(E[m]) \in Nat /\ off[m - 1] \in Nat /\ off[k] \in Nat
      BY <1>1, <1>4, <1>5, <2>0
    <3>4. ASSUME NEW j \in 1 .. Len(E[k]) PROVE f[m][off[k - 1] + j] = E[k][j]
      <4>1. off[k - 1] + j \in 1 .. off[m - 1]
        <5>1. off[k] = off[k - 1] + Len(E[k]) /\ off[k - 1] \in Nat /\ Len(E[k]) \in Nat
          BY <1>1, <1>4, <1>5, <2>0
        <5>2. QED
          BY <3>2, <3>3, <5>1, SMTT(30)
      <4>2. f[m][off[k - 1] + j] = f[m - 1][off[k - 1] + j]
        BY <1>5, <4>1
      <4>3. f[m - 1][off[k - 1] + j] = E[k][j]
        BY <1>7, <3>1
      <4>4. QED
        BY <4>2, <4>3
    <3>5. QED
      BY <3>2, <3>3, <3>4
  <2>3. QED
    BY <2>1, <2>2
<1>8. n \in Laid
  <2> HIDE DEF Laid
  <2>1. 0 .. n \subseteq Laid
    BY <1>1, <1>6, <1>7, BoundedInduction
  <2>2. QED
    BY <1>1, <2>1
<1>9. \A k \in 1 .. n :
        /\ off[k] = off[k - 1] + Len(E[k]) /\ off[k] <= Len(total)
        /\ \A j \in 1 .. Len(E[k]) : total[off[k - 1] + j] = E[k][j]
  BY <1>2, <1>3, <1>5, <1>8
<1>10. QED
  BY <1>3, <1>9 DEF n, total

-----------------------------------------------------------------------------
(* A sequence, of whatever.                                                *)
IsList(s) == \E T : s \in Seq(T)

(* Two sequences have a set of elements in common.                         *)
LEMMA ListJoin ==
  ASSUME NEW s, IsList(s), NEW t, IsList(t)
  PROVE  \E T : s \in Seq(T) /\ t \in Seq(T)
<1>1. PICK S : s \in Seq(S)
  BY DEF IsList
<1>2. PICK T : t \in Seq(T)
  BY DEF IsList
<1>3. s \in Seq(S \cup T)
  BY <1>1, SeqMonotonic
<1>4. t \in Seq(S \cup T)
  BY <1>2, SeqMonotonic
<1>5. QED
  BY <1>3, <1>4

(* What a concatenation holds, and where.                                  *)
Joined(s, t) ==
  /\ IsList(s \o t) /\ Len(s) \in Nat /\ Len(t) \in Nat /\ Len(s \o t) = Len(s) + Len(t)
  /\ DOMAIN s = 1 .. Len(s) /\ DOMAIN (s \o t) = 1 .. Len(s) + Len(t)
  /\ \A i \in 1 .. Len(s) : (s \o t)[i] = s[i]
  /\ \A i \in 1 .. Len(t) : (s \o t)[Len(s) + i] = t[i]

(* Joining two sequences: the first, then the second.                      *)
LEMMA JoinIsList ==
  ASSUME NEW s, IsList(s), NEW t, IsList(t)
  PROVE  Joined(s, t)
<1>1. PICK T : s \in Seq(T) /\ t \in Seq(T)
  BY ListJoin
<1>2. s \o t \in Seq(T)
  BY <1>1
<1>3. Len(s \o t) = Len(s) + Len(t) /\ Len(s) \in Nat /\ Len(t) \in Nat
  BY <1>1
<1>4. DOMAIN (s \o t) = 1 .. Len(s) + Len(t) /\ DOMAIN s = 1 .. Len(s)
  BY <1>1, <1>2, <1>3
<1>5. /\ \A i \in 1 .. Len(s) : (s \o t)[i] = s[i]
      /\ \A i \in 1 .. Len(t) : (s \o t)[Len(s) + i] = t[i]
  BY <1>1
<1>6. QED
  BY <1>2, <1>3, <1>4, <1>5 DEF IsList, Joined

(* Joining associates, whatever the elements.                              *)
LEMMA JoinAssociates ==
  ASSUME NEW s, IsList(s), NEW t, IsList(t), NEW u, IsList(u)
  PROVE  s \o (t \o u) = (s \o t) \o u
<1>1. PICK S : s \in Seq(S) /\ t \in Seq(S)
  BY ListJoin
<1>2. PICK U : u \in Seq(U)
  BY DEF IsList
<1>3. s \in Seq(S \cup U)
  BY <1>1, SeqMonotonic
<1>4. t \in Seq(S \cup U)
  BY <1>1, SeqMonotonic
<1>5. u \in Seq(S \cup U)
  BY <1>2, SeqMonotonic
<1>6. QED
  BY <1>3, <1>4, <1>5, ConcatAssociative, SMTT(30)

(* A sequence of one element.                                              *)
LEMMA ListOfOne ==
  ASSUME NEW e
  PROVE  IsList(<<e>>) /\ Len(<<e>>) = 1 /\ <<e>>[1] = e
BY <<e>> \in Seq({e}) DEF IsList

(* The empty sequence, and joining it.                                     *)
LEMMA EmptyList ==
  IsList(<<>>) /\ \A s : IsList(s) => s \o <<>> = s /\ <<>> \o s = s
<1>1. <<>> \in Seq({})
  OBVIOUS
<1>2. ASSUME NEW s, IsList(s) PROVE s \o <<>> = s /\ <<>> \o s = s
  BY <1>2, ConcatEmptySeq DEF IsList
<1>3. QED
  BY <1>1, <1>2 DEF IsList

(* One event more.                                                         *)
LEMMA OneMore ==
  ASSUME NEW o, IsList(o), NEW e
  PROVE  LET u == o \o <<e>>
             n == Len(o)
         IN  /\ IsList(u) /\ n \in Nat /\ DOMAIN o = 1 .. n /\ DOMAIN u = 1 .. n + 1
             /\ u[n + 1] = e /\ \A i \in 1 .. n : u[i] = o[i]
             /\ \A i \in 1 .. n + 1 : i = n + 1 \/ i \in 1 .. n
             /\ \A i \in 1 .. n : i \in 1 .. n + 1 /\ i # n + 1 /\ i < n + 1
             /\ n + 1 \in 1 .. n + 1
<1> DEFINE t == <<e>>
<1>1. IsList(t) /\ Len(t) = 1 /\ t[1] = e
  BY ListOfOne
<1> HIDE DEF t
<1>2. Joined(o, t)
  BY <1>1, JoinIsList
<1>3. (o \o t)[Len(o) + 1] = e
  BY <1>1, <1>2 DEF Joined
<1>4. \A n \in Nat : /\ \A i \in 1 .. n + 1 : i = n + 1 \/ i \in 1 .. n
                     /\ \A i \in 1 .. n : i \in 1 .. n + 1 /\ i # n + 1 /\ i < n + 1
                     /\ n + 1 \in 1 .. n + 1
  OBVIOUS
<1>5. QED
  BY <1>1, <1>2, <1>3, <1>4 DEF t, Joined

(* A list grows from nothing, an element at a time.                        *)
LEMMA ListGrows ==
  ASSUME NEW e, IsList(e)
  PROVE  \E f : /\ Len(e) \in Nat /\ f[0] = <<>> /\ f[Len(e)] = e
                /\ \A k \in 1 .. Len(e) : f[k] = f[k - 1] \o <<e[k]>>
<1>1. PICK T : e \in Seq(T)
  BY DEF IsList
<1> DEFINE n == Len(e)
           f == [k \in 0 .. n |-> [i \in 1 .. k |-> e[i]]]
<1>2. n \in Nat /\ \A i \in 1 .. n : e[i] \in T
  BY <1>1
<1>0. e = [i \in 1 .. n |-> e[i]]
  BY <1>1
<1> HIDE DEF n
<1>3. \A k \in 0 .. n : f[k] \in Seq(T) /\ Len(f[k]) = k /\ \A i \in 1 .. k : f[k][i] = e[i]
  BY <1>2
<1>4. f[0] = <<>> /\ f[n] = e
  <2>1. f[n] = [i \in 1 .. n |-> e[i]]
    BY <1>2
  <2>2. f[0] = <<>>
    BY <1>2
  <2>3. QED
    BY <1>0, <2>1, <2>2
<1> HIDE DEF f
<1>5. ASSUME NEW k \in 1 .. n PROVE f[k] = f[k - 1] \o <<e[k]>>
  <2> DEFINE s == f[k - 1]
             v == <<e[k]>>
  <2>1. k \in Nat /\ k - 1 \in 0 .. n /\ k \in 0 .. n
    BY <1>2
  <2>2. s \in Seq(T) /\ Len(s) = k - 1
    BY <1>3, <2>1
  <2>3. v \in Seq(T) /\ Len(v) = 1 /\ v[1] = e[k]
    BY <1>2
  <2>4. \A i \in 1 .. k : i = k \/ (i \in 1 .. k - 1 /\ s[i] = e[i])
    <3>1. \A i \in 1 .. k : i = k \/ i \in 1 .. k - 1
      BY <2>1
    <3>2. \A i \in 1 .. k - 1 : f[k - 1][i] = e[i]
      BY <1>3, <2>1
    <3>3. QED
      BY <3>1, <3>2
  <2>5. f[k] \in Seq(T) /\ Len(f[k]) = k /\ \A i \in 1 .. k : f[k][i] = e[i]
    BY <1>3, <2>1
  <2> HIDE DEF s, v
  <2>6. s \o v \in Seq(T) /\ Len(s \o v) = k /\ \A i \in 1 .. k : (s \o v)[i] = IF i <= k - 1 THEN s[i] ELSE v[i - (k - 1)]
    <3>1. /\ s \o v \in Seq(T) /\ Len(s \o v) = Len(s) + Len(v)
          /\ \A i \in 1 .. Len(s) + Len(v) : (s \o v)[i] = IF i <= Len(s) THEN s[i] ELSE v[i - Len(s)]
      BY <2>2, <2>3, ConcatProperties
    <3>2. Len(s) + Len(v) = k
      BY <2>1, <2>2, <2>3
    <3>3. QED
      BY <2>2, <3>1, <3>2
  <2>7. ASSUME NEW i \in 1 .. k PROVE (s \o v)[i] = f[k][i]
    <3>1. (s \o v)[i] = IF i <= k - 1 THEN s[i] ELSE v[i - (k - 1)]
      BY <2>6
    <3>2. f[k][i] = e[i]
      BY <2>5
    <3>3. CASE i = k
      <4>1. ~(k <= k - 1) /\ k - (k - 1) = 1
        BY <2>1
      <4>2. (s \o v)[i] = v[1]
        BY <3>1, <3>3, <4>1
      <4>3. QED
        BY <2>3, <3>2, <3>3, <4>2
    <3>4. CASE i \in 1 .. k - 1 /\ s[i] = e[i]
      <4>1. i <= k - 1
        BY <2>1, <3>4
      <4>2. QED
        BY <3>1, <3>2, <3>4, <4>1
    <3>5. QED
      BY <2>4, <3>3, <3>4
  <2>8. f[k] = s \o v
    BY <2>5, <2>6, <2>7, SeqEqual
  <2>9. QED
    BY <2>8 DEF s, v
<1>6. QED
  BY <1>2, <1>4, <1>5 DEF n

(* Joining one sequence more.                                              *)
HasOneMore(E, x, E2) ==
  Len(E2) = Len(E) + 1 /\ E2[Len(E) + 1] = x /\ \A i \in 1 .. Len(E) : E2[i] = E[i]

(* A list of lists that is one list longer flattens to that much more.     *)
LEMMA FlattenOneMore ==
  ASSUME NEW T, NEW E \in Seq(Seq(T)), NEW x \in Seq(T), NEW E2 \in Seq(Seq(T)), HasOneMore(E, x, E2)
  PROVE  FlattenSeq(E) \in Seq(T) /\ FlattenSeq(E2) = FlattenSeq(E) \o x
<1> USE DEF HasOneMore
<1> DEFINE n == Len(E)
<1>1. n \in Nat
  OBVIOUS
<1>2. PICK f \in [0 .. n -> Seq(T)] :
        f[0] = <<>> /\ f[n] = FlattenSeq(E) /\ \A k \in 1 .. n : f[k] = f[k - 1] \o E[k]
  BY FlattenSteps
<1>3. PICK g \in [0 .. n + 1 -> Seq(T)] :
        g[0] = <<>> /\ g[n + 1] = FlattenSeq(E2) /\ \A k \in 1 .. n + 1 : g[k] = g[k - 1] \o E2[k]
  <2> DEFINE m == Len(E2)
  <2>1. \E g \in [0 .. m -> Seq(T)] :
          g[0] = <<>> /\ g[m] = FlattenSeq(E2) /\ \A k \in 1 .. m : g[k] = g[k - 1] \o E2[k]
    BY FlattenSteps
  <2>2. m = n + 1
    OBVIOUS
  <2> HIDE DEF m, n
  <2>3. QED
    BY <2>1, <2>2
<1>4. \A k \in 1 .. n : E2[k] = E[k]
  OBVIOUS
<1>5. E2[n + 1] = x
  OBVIOUS
<1> HIDE DEF n
<1> DEFINE S == {k \in 0 .. n : f[k] = g[k]}
<1>6. 0 \in S
  BY <1>1, <1>2, <1>3
<1>7. ASSUME NEW k \in 1 .. n, k - 1 \in S PROVE k \in S
  <2>1. k \in 1 .. n + 1 /\ k \in 0 .. n
    BY <1>1
  <2>2. f[k] = f[k - 1] \o E[k] /\ g[k] = g[k - 1] \o E2[k] /\ E2[k] = E[k] /\ f[k - 1] = g[k - 1]
    BY <1>2, <1>3, <1>4, <1>7, <2>1
  <2>3. QED
    BY <2>1, <2>2
<1>8. n \in S
  <2> HIDE DEF S
  <2>1. 0 .. n \subseteq S
    BY <1>1, <1>6, <1>7, BoundedInduction
  <2>2. QED
    BY <1>1, <2>1
<1>9. n + 1 \in 1 .. n + 1 /\ (n + 1) - 1 = n /\ n \in 0 .. n
  BY <1>1
<1>10. g[n + 1] = g[n] \o E2[n + 1]
  BY <1>3, <1>9
<1>11. QED
  BY <1>2, <1>3, <1>5, <1>8, <1>9, <1>10

(* The same, of the elements.                                              *)
LEMMA FlattenNext ==
  ASSUME NEW T, NEW E \in Seq(Seq(T)), NEW x \in Seq(T), NEW E2 \in Seq(Seq(T)),
         Len(E2) = Len(E) + 1, E2[Len(E) + 1] = x, \A i \in 1 .. Len(E) : E2[i] = E[i]
  PROVE  FlattenSeq(E) \in Seq(T) /\ FlattenSeq(E2) = FlattenSeq(E) \o x
<1>1. HasOneMore(E, x, E2)
  BY DEF HasOneMore
<1>2. QED
  BY <1>1, FlattenOneMore

(* Joining no sequences.                                                   *)
LEMMA FlattenNothing == FlattenSeq(<<>>) = <<>>
BY DEF FlattenSeq

(* A sequence is a prefix of what it is continued to.                      *)
LEMMA PrefixOfJoin ==
  ASSUME NEW T, NEW s \in Seq(T), NEW r \in Seq(T)
  PROVE  IsPrefix(s, s \o r)
<1> DEFINE u == s \o r
<1>1. Len(s) <= Len(u) /\ \A i \in 1 .. Len(s) : u[i] = s[i]
  OBVIOUS
<1>2. u \in Seq(T) /\ Len(s) \in Nat
  OBVIOUS
<1> HIDE DEF u
<1>3. SubSeq(u, 1, Len(s)) = SubSeq(s, 1, Len(s))
  BY <1>1, <1>2
<1>4. QED
  BY <1>1, <1>3 DEF IsPrefix, u

(* Two pieces that follow each other in s are s when joined.               *)
LEMMA Rejoin ==
  ASSUME NEW T, NEW s \in Seq(T), NEW a \in Seq(T), NEW b \in Seq(T), NEW n, n = Len(s), NEW c, c = Len(a),
         n = c + Len(b), \A i \in 1 .. c : a[i] = s[i], \A i \in 1 .. Len(b) : b[i] = s[c + i]
  PROVE  a \o b = s
<1>1. n \in Nat /\ c \in Nat /\ Len(b) \in Nat
  OBVIOUS
<1>2. a \o b \in Seq(T) /\ Len(a \o b) = n
  BY ConcatProperties
<1>3. ASSUME NEW i \in 1 .. n PROVE (a \o b)[i] = s[i]
  <2>1. (a \o b)[i] = IF i <= c THEN a[i] ELSE b[i - c]
    BY ConcatProperties
  <2>2. ~(i <= c) => i - c \in 1 .. Len(b) /\ c + (i - c) = i
    BY <1>1
  <2>3. i <= c => i \in 1 .. c
    BY <1>1
  <2>4. i <= c => a[i] = s[i]
    BY <2>3
  <2>5. ~(i <= c) => b[i - c] = s[i]
    BY <2>2
  <2>6. QED
    BY <2>1, <2>4, <2>5
<1>4. QED
  BY <1>2, <1>3, SeqEqual

(* A sequence cut in two.                                                  *)
LEMMA CutInTwo ==
  ASSUME NEW T, NEW s \in Seq(T), NEW c \in 0 .. Len(s),
         NEW a, NEW b, a = SubSeq(s, 1, c), b = SubSeq(s, c + 1, Len(s))
  PROVE  /\ a \in Seq(T) /\ b \in Seq(T) /\ a \o b = s
         /\ Len(a) = c /\ Len(b) = Len(s) - c /\ \A i \in 1 .. c : a[i] = s[i]
<1> DEFINE n == Len(s)
<1>1. n \in Nat /\ c \in Nat /\ c <= n
  OBVIOUS
<1>2. a \in Seq(T) /\ Len(a) = c /\ \A i \in 1 .. c : a[i] = s[i]
  OBVIOUS
<1>3. b \in Seq(T) /\ Len(b) = n - c /\ \A i \in 1 .. Len(b) : b[i] = s[c + i]
  OBVIOUS
<1>4. a \o b = s
  <2>1. n = c + (n - c)
    BY <1>1
  <2>2. n = c + Len(b)
    BY <1>3, <2>1
  <2> HIDE DEF n
  <2>3. QED
    BY <1>2, <1>3, <2>2, Rejoin, ZenonT(60) DEF n
<1>5. QED
  BY <1>2, <1>3, <1>4

-----------------------------------------------------------------------------
(* A set with the empty sequence and, with a sequence, each that has one   *)
(* element more, has all sequences.                                        *)
LEMMA ListInduction ==
  ASSUME NEW S, NEW P, <<>> \in P, \A s \in Seq(S) : s \in P => \A e \in S : s \o <<e>> \in P
  PROVE  \A s \in Seq(S) : s \in P
<1> SUFFICES ASSUME NEW s \in Seq(S) PROVE s \in P
  OBVIOUS
<1>1. IsList(s) /\ Len(s) \in Nat /\ \A k \in 1 .. Len(s) : s[k] \in S
  BY ElementOfSeq DEF IsList
<1>2. PICK f : f[0] = <<>> /\ f[Len(s)] = s /\ \A k \in 1 .. Len(s) : f[k] = f[k - 1] \o <<s[k]>>
  BY <1>1, ListGrows
<1> DEFINE n == Len(s)
           Q == {k \in 0 .. n : f[k] \in Seq(S) /\ f[k] \in P}
<1>3. n \in Nat /\ f[n] = s
  BY <1>1, <1>2
<1>4. 0 \in Q
  <2>1. 0 \in 0 .. n /\ f[0] = <<>>
    BY <1>2, <1>3
  <2>2. f[0] \in Seq(S) /\ f[0] \in P
    BY <2>1, <<>> \in Seq(S)
  <2>3. QED
    BY <2>1, <2>2
<1>5. ASSUME NEW k \in 1 .. n, k - 1 \in Q PROVE k \in Q
  <2>1. k \in 0 .. n /\ f[k - 1] \in Seq(S) /\ f[k - 1] \in P /\ s[k] \in S
    BY <1>1, <1>5
  <2>2. f[k] = f[k - 1] \o <<s[k]>>
    BY <1>2
  <2>3. f[k - 1] \o <<s[k]>> \in Seq(S)
    BY <2>1
  <2>4. QED
    BY <2>1, <2>2, <2>3
<1> HIDE DEF n, Q
<1>6. 0 .. n \subseteq Q
  BY <1>3, <1>4, <1>5, BoundedInduction
<1>7. QED
  BY <1>3, <1>6 DEF Q

(* The images of the elements, joined.                                     *)
Spreads(F, S, T) == \A x \in S : F[x] \in Seq(T)
(* Each element of s replaced by its list F[e], and the lists joined.      *)
Spread(F, s) == FlattenSeq([i \in DOMAIN s |-> F[s[i]]])

(* The empty list spreads to the empty list.                               *)
LEMMA SpreadNone == ASSUME NEW F PROVE Spread(F, <<>>) = <<>>
<1>1. [i \in DOMAIN <<>> |-> F[<<>>[i]]] = <<>>
  OBVIOUS
<1>2. QED
  BY <1>1, FlattenNothing DEF Spread

(* F is applied to an element to get a sequence.                           *)
LEMMA SpreadsTo ==
  ASSUME NEW S, NEW T, NEW F, Spreads(F, S, T), NEW e \in S
  PROVE  F[e] \in Seq(T)
BY DEF Spreads

(* Concatenation of lists over one set: type, unit and associativity.      *)
LEMMA JoinType == ASSUME NEW S, NEW s \in Seq(S), NEW t \in Seq(S) PROVE s \o t \in Seq(S)
OBVIOUS

LEMMA OneType == ASSUME NEW S, NEW e \in S PROVE <<e>> \in Seq(S)
OBVIOUS

LEMMA NoneType == ASSUME NEW S PROVE <<>> \in Seq(S)
OBVIOUS

LEMMA JoinNone == ASSUME NEW S, NEW s \in Seq(S) PROVE s \o <<>> = s
BY EmptyList DEF IsList

LEMMA NoneJoin == ASSUME NEW S, NEW s \in Seq(S) PROVE <<>> \o s = s
BY EmptyList DEF IsList

(* The two ways to join three lists.                                       *)
Associates(s, t, u) == s \o (t \o u) = (s \o t) \o u

LEMMA JoinThree ==
  ASSUME NEW S, NEW s \in Seq(S), NEW t \in Seq(S), NEW u \in Seq(S)
  PROVE  Associates(s, t, u)
BY JoinAssociates DEF IsList, Associates

(* Spreading a list that is one element longer.                            *)
LEMMA SpreadSteps ==
  ASSUME NEW S, NEW T, NEW F, Spreads(F, S, T), NEW s \in Seq(S), NEW e \in S
  PROVE  Spread(F, s) \in Seq(T) /\ Spread(F, s \o <<e>>) = Spread(F, s) \o F[e]
<1> DEFINE u == s \o <<e>>
           E == [i \in DOMAIN s |-> F[s[i]]]
           G == [i \in DOMAIN u |-> F[u[i]]]
           n == Len(s)
<1>0. \A x \in S : F[x] \in Seq(T)
  BY SpreadsTo
<1>1. n \in Nat /\ DOMAIN s = 1 .. n /\ \A i \in 1 .. n : s[i] \in S
  BY ElementOfSeq
<1>2. DOMAIN u = 1 .. n + 1 /\ u[n + 1] = e /\ \A i \in 1 .. n : u[i] = s[i]
  BY OneMore DEF IsList
<1> HIDE DEF u, n
<1>3. E \in [1 .. n -> Seq(T)] /\ E \in Seq(Seq(T)) /\ Len(E) = n
  BY <1>0, <1>1
<1>4. \A i \in 1 .. n + 1 : u[i] \in S
  <2>1. \A i \in 1 .. n + 1 : i = n + 1 \/ i \in 1 .. n
    BY <1>1
  <2>2. QED
    BY <1>1, <1>2, <2>1
<1>5. G \in [1 .. n + 1 -> Seq(T)] /\ G \in Seq(Seq(T)) /\ Len(G) = n + 1
  BY <1>0, <1>1, <1>2, <1>4
<1>6. G[n + 1] = F[e] /\ \A i \in 1 .. n : G[i] = E[i]
  <2>1. n + 1 \in 1 .. n + 1 /\ \A i \in 1 .. n : i \in 1 .. n + 1
    BY <1>1
  <2>2. QED
    BY <1>1, <1>2, <2>1
<1>7. Spread(F, s) = FlattenSeq(E) /\ Spread(F, u) = FlattenSeq(G)
  BY DEF Spread
<1>8. F[e] \in Seq(T)
  BY <1>0
<1> HIDE DEF E, G
<1>9. PICK x : x = F[e]
  OBVIOUS
<1>10. x \in Seq(T) /\ G[Len(E) + 1] = x /\ Len(G) = Len(E) + 1 /\ \A i \in 1 .. Len(E) : G[i] = E[i]
  BY <1>3, <1>5, <1>6, <1>8, <1>9
<1>11. FlattenSeq(E) \in Seq(T) /\ FlattenSeq(G) = FlattenSeq(E) \o x
  <2>1. E \in Seq(Seq(T)) /\ G \in Seq(Seq(T)) /\ x \in Seq(T)
    BY <1>3, <1>5, <1>10
  <2>2. HasOneMore(E, x, G)
    BY <1>10 DEF HasOneMore
  <2>3. QED
    BY <2>1, <2>2, FlattenOneMore
<1>12. QED
  BY <1>7, <1>9, <1>11, Zenon DEF u

(* The new element adds its own list.                                      *)
SpreadGrows(F, s, e) == Spread(F, s \o <<e>>) = Spread(F, s) \o F[e]

LEMMA SpreadMore ==
  ASSUME NEW S, NEW T, NEW F, Spreads(F, S, T), NEW s \in Seq(S), NEW e \in S
  PROVE  SpreadGrows(F, s, e)
<1>1. Spread(F, s) \in Seq(T) /\ Spread(F, s \o <<e>>) = Spread(F, s) \o F[e]
  BY SpreadSteps, SMTT(30)
<1>2. QED
  BY <1>1, Zenon DEF SpreadGrows

(* A single element spreads to its list.                                   *)
LEMMA SpreadOne ==
  ASSUME NEW S, NEW T, NEW F, Spreads(F, S, T), NEW e \in S
  PROVE  Spread(F, <<e>>) = F[e]
<1>1. <<>> \in Seq(S) /\ <<e>> \in Seq(S) /\ F[e] \in Seq(T)
  BY NoneType, OneType, SpreadsTo, Zenon
<1>2. Spread(F, <<>> \o <<e>>) = Spread(F, <<>>) \o F[e]
  <2>1. SpreadGrows(F, <<>>, e)
    BY <1>1, SpreadMore, Zenon
  <2>2. QED
    BY <2>1, Zenon DEF SpreadGrows
<1>3. Spread(F, <<>>) = <<>>
  BY SpreadNone, Zenon
<1>4. <<>> \o <<e>> = <<e>>
  BY <1>1, NoneJoin, Zenon
<1>5. <<>> \o F[e] = F[e]
  BY <1>1, NoneJoin, Zenon
<1>6. QED
  BY <1>2, <1>3, <1>4, <1>5, Zenon

(* The type of what a list spreads to.                                     *)
LEMMA SpreadType ==
  ASSUME NEW S, NEW T, NEW F, Spreads(F, S, T), NEW s \in Seq(S)
  PROVE  Spread(F, s) \in Seq(T)
<1>1. CASE S = {}
  <2>1. s = <<>>
    BY <1>1
  <2>2. QED
    BY <2>1, SpreadNone, NoneType, Zenon
<1>2. CASE S # {}
  <2>1. PICK e : e \in S
    BY <1>2
  <2>2. QED
    BY <2>1, SpreadSteps, Zenon
<1>3. QED
  BY <1>1, <1>2

(* A spread splits where the list does.                                    *)
SpreadSplits(F, s, t) == Spread(F, s \o t) = Spread(F, s) \o Spread(F, t)

LEMMA SpreadJoin ==
  ASSUME NEW S, NEW T, NEW F, Spreads(F, S, T), NEW s \in Seq(S), NEW t \in Seq(S)
  PROVE  SpreadSplits(F, s, t)
<1> DEFINE P == {u \in Seq(S) : SpreadSplits(F, s, u)}
<1>1. <<>> \in P
  <2>1. <<>> \in Seq(S) /\ Spread(F, s) \in Seq(T)
    BY NoneType, SpreadType, Zenon
  <2>4. s \o <<>> = s
    BY JoinNone, Zenon
  <2>2. Spread(F, s) \o <<>> = Spread(F, s)
    BY <2>1, JoinNone, Zenon
  <2>3. QED
    BY <2>1, <2>2, <2>4, SpreadNone, Zenon DEF SpreadSplits
<1>2. ASSUME NEW u \in Seq(S), u \in P, NEW e \in S PROVE u \o <<e>> \in P
  <2>1. <<e>> \in Seq(S) /\ u \o <<e>> \in Seq(S) /\ s \o u \in Seq(S)
    BY OneType, JoinType, Zenon
  <2>2. Associates(s, u, <<e>>)
    BY <2>1, JoinThree, Zenon
  <2>3. SpreadGrows(F, s \o u, e)
    BY <2>1, SpreadMore, Zenon
  <2>4. SpreadSplits(F, s, u)
    BY <1>2, Zenon
  <2>5. Spread(F, s) \in Seq(T) /\ Spread(F, u) \in Seq(T) /\ F[e] \in Seq(T)
    BY SpreadType, SpreadsTo, Zenon
  <2>6. Associates(Spread(F, s), Spread(F, u), F[e])
    BY <2>5, JoinThree, Zenon
  <2>7. SpreadGrows(F, u, e)
    BY SpreadMore, Zenon
  <2>8. SpreadSplits(F, s, u \o <<e>>)
    BY <2>2, <2>3, <2>4, <2>6, <2>7, Zenon DEF Associates, SpreadGrows, SpreadSplits
  <2>9. QED
    BY <2>1, <2>8, Zenon
<1> HIDE DEF P
<1>3. t \in P
  BY <1>1, <1>2, ListInduction, Zenon
<1>4. QED
  BY <1>3, Zenon DEF P

(* Twice is once, with the images of the images.                           *)
Composed(F, G, S) == [x \in S |-> Spread(G, F[x])]

(* Composition gives lists over the last set.                              *)
LEMMA ComposedSpreads ==
  ASSUME NEW S, NEW T, NEW U, NEW F, Spreads(F, S, T), NEW G, Spreads(G, T, U)
  PROVE  Spreads(Composed(F, G, S), S, U)
<1>1. \A x \in S : Spread(G, F[x]) \in Seq(U)
  BY SpreadsTo, SpreadType, Zenon
<1>2. QED
  BY <1>1 DEF Spreads, Composed

(* Spreading twice, and once along the composition.                        *)
SpreadChains(F, G, S, s) == Spread(G, Spread(F, s)) = Spread(Composed(F, G, S), s)

(* The two give the same list.                                             *)
LEMMA SpreadTwice ==
  ASSUME NEW S, NEW T, NEW U, NEW F, Spreads(F, S, T), NEW G, Spreads(G, T, U), NEW s \in Seq(S)
  PROVE  SpreadChains(F, G, S, s)
<1> DEFINE H == Composed(F, G, S)
           P == {u \in Seq(S) : Spread(G, Spread(F, u)) = Spread(H, u)}
<1>1. Spreads(H, S, U)
  BY ComposedSpreads, Zenon
<1>2. \A x \in S : H[x] = Spread(G, F[x])
  BY DEF Composed
<1> HIDE DEF H
<1>3. <<>> \in P
  <2>1. <<>> \in Seq(S) /\ Spread(F, <<>>) = <<>> /\ Spread(G, <<>>) = <<>> /\ Spread(H, <<>>) = <<>>
    BY SpreadNone, NoneType, Zenon
  <2>2. QED
    BY <2>1, Zenon
<1>4. ASSUME NEW u \in Seq(S), u \in P, NEW e \in S PROVE u \o <<e>> \in P
  <2>1. u \o <<e>> \in Seq(S)
    BY OneType, JoinType, Zenon
  <2>2. Spread(F, u) \in Seq(T) /\ F[e] \in Seq(T)
    BY SpreadType, SpreadsTo, Zenon
  <2>8. SpreadGrows(F, u, e)
    BY SpreadMore, Zenon
  <2>3. SpreadSplits(G, Spread(F, u), F[e])
    BY <2>2, SpreadJoin, Zenon
  <2>4. Spread(G, Spread(F, u)) = Spread(H, u)
    BY <1>4, Zenon
  <2>5. SpreadGrows(H, u, e)
    BY <1>1, SpreadMore, Zenon
  <2>6. Spread(G, Spread(F, u \o <<e>>)) = Spread(H, u \o <<e>>)
    BY <1>2, <2>3, <2>4, <2>5, <2>8, Zenon DEF SpreadGrows, SpreadSplits
  <2>7. QED
    BY <2>1, <2>6, Zenon
<1>5. s \in P
  <2> HIDE DEF P
  <2>1. QED
    BY <1>3, <1>4, ListInduction, Zenon
<1>6. QED
  BY <1>2, <1>5, Zenon DEF H, SpreadChains

(* What is spread is what the elements are spread to.                      *)
LEMMA SpreadIs ==
  ASSUME NEW S, NEW s \in Seq(S), NEW F, NEW E, E = [i \in DOMAIN s |-> E[i]],
         \A i \in DOMAIN s : s[i] \in S => E[i] = F[s[i]]
  PROVE  FlattenSeq(E) = Spread(F, s)
<1>1. \A i \in DOMAIN s : s[i] \in S
  BY ElementOfSeq
<1>2. \A i \in DOMAIN s : E[i] = F[s[i]]
  BY <1>1
<1>3. E = [i \in DOMAIN s |-> F[s[i]]]
  BY <1>2, Zenon
<1>4. QED
  BY <1>3, Zenon DEF Spread

(* Functions that agree on S.                                              *)
Agree(F, G, S) == \A x \in S : F[x] = G[x]

(* Functions that agree spread a list alike.                               *)
LEMMA SpreadSame ==
  ASSUME NEW S, NEW s \in Seq(S), NEW F, NEW G, Agree(F, G, S)
  PROVE  Spread(F, s) = Spread(G, s)
<1> USE DEF Agree
<1>1. \A i \in DOMAIN s : s[i] \in S
  BY ElementOfSeq
<1>2. [i \in DOMAIN s |-> F[s[i]]] = [i \in DOMAIN s |-> G[s[i]]]
  BY <1>1, Zenon
<1>3. QED
  BY <1>2, Zenon DEF Spread

(* Each element's image, one for one.                                      *)
Maps(H, S, T) == H \in [S -> T]

(* One value for each element is a spread with singletons.                 *)
LEMMA SpreadEach ==
  ASSUME NEW S, NEW T, NEW H, Maps(H, S, T), NEW s \in Seq(S)
  PROVE  LET F == [x \in S |-> <<H[x]>>]
         IN  /\ Spreads(F, S, T)
             /\ [i \in DOMAIN s |-> H[s[i]]] = Spread(F, s)
<1> DEFINE F == [x \in S |-> <<H[x]>>]
           M(u) == [i \in DOMAIN u |-> H[u[i]]]
           P == {u \in Seq(S) : M(u) = Spread(F, u)}
<1>1. Spreads(F, S, T) /\ \A x \in S : F[x] = <<H[x]>>
  BY DEF Maps, Spreads
<1> HIDE DEF F
<1>0. \A x \in S : H[x] \in T
  BY DEF Maps
<1>2. <<>> \in P
  <2>1. M(<<>>) = <<>>
    OBVIOUS
  <2>2. QED
    BY <2>1, SpreadNone, NoneType, Zenon
<1>3. ASSUME NEW u \in Seq(S), u \in P, NEW e \in S PROVE u \o <<e>> \in P
  <2> DEFINE w == u \o <<e>>
             n == Len(u)
             v == <<H[e]>>
             y == M(u)
  <2>1. SpreadGrows(F, u, e)
    BY <1>1, SpreadMore, Zenon
  <2>11. w \in Seq(S) /\ F[e] = v
    BY <1>1, OneType, JoinType, Zenon
  <2>2. n \in Nat /\ DOMAIN u = 1 .. n /\ DOMAIN w = 1 .. n + 1 /\ w[n + 1] = e /\ \A i \in 1 .. n : w[i] = u[i]
    BY OneMore DEF IsList
  <2>3. y = Spread(F, u)
    BY <1>3, Zenon
  <2>4. y \in Seq(T) /\ Len(y) = n
    <3>1. \A i \in 1 .. n : u[i] \in S
      BY ElementOfSeq
    <3> HIDE DEF n
    <3>2. QED
      BY <1>0, <2>2, <3>1
  <2>5. \A i \in 1 .. n : y[i] = H[u[i]]
    BY <2>2
  <2> HIDE DEF w, n, y
  <2> DEFINE z == y \o v
  <2>6. DOMAIN z = 1 .. n + 1 /\ z[n + 1] = H[e] /\ \A i \in 1 .. n : z[i] = y[i]
    BY <2>4, OneMore DEF IsList
  <2>7. z = [i \in DOMAIN z |-> z[i]]
    BY <2>4
  <2> HIDE DEF z
  <2>8. M(w) = z
    <3>1. \A i \in 1 .. n + 1 : i = n + 1 \/ i \in 1 .. n
      BY <2>2
    <3>2. \A i \in 1 .. n + 1 : H[w[i]] = z[i]
      BY <2>2, <2>5, <2>6, <3>1
    <3>3. QED
      BY <2>2, <2>6, <2>7, <3>2
  <2>9. M(w) = Spread(F, w)
    BY <2>1, <2>3, <2>8, <2>11, Zenon DEF w, z, SpreadGrows
  <2>10. QED
    BY <2>9, <2>11, Zenon DEF w
<1>4. s \in P
  <2> HIDE DEF P
  <2>1. QED
    BY <1>2, <1>3, ListInduction, Zenon
<1>5. QED
  BY <1>1, <1>4 DEF F

(* F does to each element of s what it is said to do.                      *)
LEMMA SpreadNothing ==
  ASSUME NEW S, NEW F, NEW s \in Seq(S), \A x \in S : F[x] = <<>>
  PROVE  Spread(F, s) = <<>>
<1> DEFINE P == {u \in Seq(S) : Spread(F, u) = <<>>}
<1>1. Spreads(F, S, {})
  BY NoneType, Zenon DEF Spreads
<1>2. <<>> \in P
  BY SpreadNone, NoneType, Zenon
<1>3. ASSUME NEW u \in Seq(S), u \in P, NEW e \in S PROVE u \o <<e>> \in P
  <2>1. SpreadGrows(F, u, e)
    BY <1>1, SpreadMore, Zenon
  <2>2. <<>> \o <<>> = <<>>
    BY EmptyList
  <2>3. Spread(F, u) = <<>> /\ F[e] = <<>>
    BY <1>3, Zenon
  <2>4. u \o <<e>> \in Seq(S)
    BY OneType, JoinType, Zenon
  <2>5. Spread(F, u \o <<e>>) = <<>>
    BY <2>1, <2>2, <2>3, Zenon DEF SpreadGrows
  <2>6. QED
    BY <2>4, <2>5, Zenon
<1>4. s \in P
  <2> HIDE DEF P
  <2>1. QED
    BY <1>2, <1>3, ListInduction, Zenon
<1>5. QED
  BY <1>4, Zenon

(* Each element replaced by itself leaves the list.                        *)
LEMMA SpreadAll ==
  ASSUME NEW S, NEW F, NEW s \in Seq(S), \A x \in S : F[x] = <<x>>
  PROVE  Spread(F, s) = s
<1> DEFINE P == {u \in Seq(S) : Spread(F, u) = u}
<1>1. Spreads(F, S, S)
  BY OneType, Zenon DEF Spreads
<1>2. <<>> \in P
  BY SpreadNone, NoneType, Zenon
<1>3. ASSUME NEW u \in Seq(S), u \in P, NEW e \in S PROVE u \o <<e>> \in P
  <2>1. SpreadGrows(F, u, e)
    BY <1>1, SpreadMore, Zenon
  <2>2. Spread(F, u) = u /\ F[e] = <<e>>
    BY <1>3, Zenon
  <2>3. u \o <<e>> \in Seq(S)
    BY OneType, JoinType, Zenon
  <2>4. Spread(F, u \o <<e>>) = u \o <<e>>
    BY <2>1, <2>2, Zenon DEF SpreadGrows
  <2>5. QED
    BY <2>3, <2>4, Zenon
<1>4. s \in P
  <2> HIDE DEF P
  <2>1. QED
    BY <1>2, <1>3, ListInduction, Zenon
<1>5. QED
  BY <1>4, Zenon

(* Each piece of what is spread comes from an element.                     *)
LandsIn(F, S, s, j) ==
  \E u \in Seq(S), x \in S, v \in Seq(S) :
    /\ s = (u \o <<x>>) \o v
    /\ \E p \in 1 .. Len(F[x]) : j = Len(Spread(F, u)) + p

(* Each place of the spread list is a place in the list of one element,    *)
(* after the lists of those before it.                                     *)
LEMMA SpreadFind ==
  ASSUME NEW S, NEW T, NEW F, Spreads(F, S, T), NEW s \in Seq(S)
  PROVE  \A j \in 1 .. Len(Spread(F, s)) : LandsIn(F, S, s, j)
<1> DEFINE L(u) == Len(Spread(F, u))
           P == {u \in Seq(S) : \A j \in 1 .. L(u) : LandsIn(F, S, u, j)}
<1>1. \A u \in Seq(S) : Spread(F, u) \in Seq(T)
  BY SpreadType, Zenon
<1>2. <<>> \in P
  <2>1. <<>> \in Seq(S) /\ Spread(F, <<>>) = <<>>
    BY SpreadNone, NoneType, Zenon
  <2>2. 1 .. L(<<>>) = {}
    BY <2>1
  <2>3. QED
    BY <2>1, <2>2, Zenon
<1>3. ASSUME NEW u \in Seq(S), u \in P, NEW e \in S PROVE u \o <<e>> \in P
  <2> DEFINE w == u \o <<e>>
  <2>1. w \in Seq(S) /\ <<e>> \in Seq(S)
    BY OneType, JoinType, Zenon
  <2>2. SpreadGrows(F, u, e)
    BY SpreadMore, Zenon
  <2>3. F[e] \in Seq(T) /\ Spread(F, u) \in Seq(T)
    BY <1>1, SpreadsTo, Zenon
  <2>4. Len(F[e]) \in Nat /\ L(u) \in Nat /\ L(w) = L(u) + Len(F[e])
    <3>1. PICK a, b : a = Spread(F, u) /\ b = F[e]
      OBVIOUS
    <3>2. Len(a \o b) = Len(a) + Len(b) /\ Len(a) \in Nat /\ Len(b) \in Nat
      BY <2>3, <3>1
    <3>3. Spread(F, w) = a \o b
      BY <2>2, <3>1, Zenon DEF SpreadGrows
    <3>4. QED
      BY <3>1, <3>2, <3>3, Zenon
  <2>5. ASSUME NEW j \in 1 .. L(u) PROVE LandsIn(F, S, w, j)
    <3>1. LandsIn(F, S, u, j)
      BY <1>3, Zenon
    <3>2. PICK a \in Seq(S), x \in S, v \in Seq(S) :
            u = (a \o <<x>>) \o v /\ \E p \in 1 .. Len(F[x]) : j = Len(Spread(F, a)) + p
      BY <3>1, Zenon DEF LandsIn
    <3>3. a \o <<x>> \in Seq(S) /\ v \o <<e>> \in Seq(S)
      BY <2>1, OneType, JoinType, Zenon
    <3>4. Associates(a \o <<x>>, v, <<e>>)
      BY <2>1, <3>3, JoinThree, Zenon
    <3>5. w = (a \o <<x>>) \o (v \o <<e>>)
      BY <3>2, <3>4, Zenon DEF Associates
    <3>6. QED
      BY <3>2, <3>3, <3>5, Zenon DEF LandsIn
  <2>6. ASSUME NEW p \in 1 .. Len(F[e]) PROVE LandsIn(F, S, w, L(u) + p)
    <3>1. <<>> \in Seq(S)
      BY NoneType, Zenon
    <3>2. w \o <<>> = w
      BY <2>1, JoinNone, Zenon
    <3>3. QED
      BY <3>1, <3>2, Zenon DEF LandsIn
  <2> HIDE DEF w, L
  <2>7. ASSUME NEW j \in 1 .. L(w) PROVE j \in 1 .. L(u) \/ \E p \in 1 .. Len(F[e]) : j = L(u) + p
    <3>1. j \in Nat /\ 1 <= j /\ j <= L(u) + Len(F[e])
      BY <2>4
    <3>2. CASE j <= L(u)
      BY <2>4, <3>1, <3>2
    <3>3. CASE ~(j <= L(u))
      <4>1. j - L(u) \in 1 .. Len(F[e]) /\ j = L(u) + (j - L(u))
        BY <2>4, <3>1, <3>3
      <4>2. QED
        BY <4>1, Zenon
    <3>4. QED
      BY <3>2, <3>3
  <2>8. \A j \in 1 .. L(w) : LandsIn(F, S, w, j)
    BY <2>5, <2>6, <2>7, Zenon
  <2>9. QED
    BY <2>1, <2>8, Zenon DEF w
<1>4. s \in P
  <2> HIDE DEF P
  <2>1. QED
    BY <1>2, <1>3, ListInduction, Zenon
<1>5. QED
  BY <1>4, Zenon

(* Where the last element of K is, or 0.                                   *)
LastIn(s, K) ==
  LET I == {i \in 1 .. Len(s) : s[i] \in K} IN IF I # {} THEN Max(I) ELSE 0

(* s is a, then m, then b without an element of K.                         *)
LastAt(S, K, s, a, m, b) ==
  a \in Seq(S) /\ m \in S /\ m \in K /\ b \in Seq(S \ K) /\ s = (a \o <<m>>) \o b

(* A list that avoids K has no last element of K.                          *)
LEMMA LastNone ==
  ASSUME NEW S, NEW K, NEW s \in Seq(S \ K)
  PROVE  s \in Seq(S) /\ LastIn(s, K) = 0
<1>1. s \in Seq(S)
  BY SeqMonotonic
<1>2. \A i \in 1 .. Len(s) : s[i] \in S \ K
  BY ElementOfSeq
<1>3. {i \in 1 .. Len(s) : s[i] \in K} = {}
  BY <1>2
<1>4. QED
  BY <1>1, <1>3, Zenon DEF LastIn

(* Concatenation of typed lists.                                           *)
LEMMA JoinedOf ==
  ASSUME NEW S, NEW s \in Seq(S), NEW t \in Seq(S)
  PROVE  Joined(s, t) /\ s \o t \in Seq(S)
BY JoinIsList DEF IsList

(* A list cut at an element of K after which there is none has its last    *)
(* element of K there.                                                     *)
LEMMA LastIs ==
  ASSUME NEW S, NEW K, NEW s, NEW a, NEW m, NEW b, LastAt(S, K, s, a, m, b)
  PROVE  /\ s \in Seq(S) /\ LastIn(s, K) = Len(a) + 1 /\ s[Len(a) + 1] = m
         /\ SubSeq(s, 1, Len(a)) = a /\ Len(a) \in Nat /\ Len(a) + 1 \in 1 .. Len(s)
<1> DEFINE c == a \o <<m>>
           n == Len(a)
<1>1. a \in Seq(S) /\ m \in S /\ m \in K /\ b \in Seq(S \ K) /\ s = c \o b /\ b \in Seq(S) /\ <<m>> \in Seq(S)
  BY OneType, SeqMonotonic DEF LastAt
<1>2. Joined(a, <<m>>) /\ c \in Seq(S) /\ <<m>>[1] = m /\ Len(<<m>>) = 1
  BY <1>1, JoinedOf, ListOfOne
<1>3. Joined(c, b) /\ s \in Seq(S)
  BY <1>1, <1>2, JoinedOf
<1>4. n \in Nat /\ Len(c) = n + 1 /\ c[n + 1] = m /\ \A i \in 1 .. n : c[i] = a[i]
  BY <1>2 DEF Joined
<1> HIDE DEF c
<1>5. Len(b) \in Nat /\ Len(s) = (n + 1) + Len(b)
      /\ (\A i \in 1 .. n + 1 : s[i] = c[i]) /\ (\A i \in 1 .. Len(b) : s[(n + 1) + i] = b[i])
  BY <1>1, <1>3, <1>4 DEF Joined
<1> HIDE DEF n
<1>6. n + 1 \in 1 .. n + 1 /\ \A i \in 1 .. n : i \in 1 .. n + 1
  BY <1>4
<1>7. s[n + 1] = m /\ \A i \in 1 .. n : s[i] = a[i]
  BY <1>4, <1>5, <1>6
<1> DEFINE I == {i \in 1 .. Len(s) : s[i] \in K}
<1>8. I \in SUBSET (1 .. n + 1)
  <2> SUFFICES ASSUME NEW i \in 1 .. Len(s), s[i] \in K PROVE i \in 1 .. n + 1
    OBVIOUS
  <2>1. CASE i <= n + 1
    BY <1>4, <1>5, <2>1
  <2>2. CASE ~(i <= n + 1)
    <3>1. i - (n + 1) \in 1 .. Len(b) /\ (n + 1) + (i - (n + 1)) = i
      BY <1>4, <1>5, <2>2
    <3>2. s[i] = b[i - (n + 1)]
      BY <1>5, <3>1
    <3>3. b[i - (n + 1)] \in S \ K
      BY <1>1, <3>1, ElementOfSeq
    <3>4. QED
      BY <3>2, <3>3
  <2>3. QED
    BY <2>1, <2>2
<1>9. n + 1 \in I
  <2>1. n + 1 \in 1 .. Len(s)
    BY <1>4, <1>5
  <2>2. QED
    BY <1>1, <1>7, <2>1
<1>10. Max(I) = n + 1
  <2> HIDE DEF I
  <2>1. n + 1 \in Nat
    BY <1>4
  <2>2. QED
    BY <1>8, <1>9, <2>1, MaxIs
<1>11. LastIn(s, K) = n + 1
  BY <1>9, <1>10, Zenon DEF LastIn
<1>12. SubSeq(s, 1, n) = a
  <2>1. n <= Len(s) /\ Len(s) \in Nat
    BY <1>4, <1>5
  <2> DEFINE t == SubSeq(s, 1, n)
  <2>2. t \in Seq(S) /\ Len(t) = n /\ \A i \in 1 .. n : t[i] = s[i]
    BY <1>3, <1>4, <2>1
  <2>3. a \in Seq(S) /\ Len(a) = n
    BY <1>1 DEF n
  <2> HIDE DEF t
  <2>4. \A i \in 1 .. Len(t) : t[i] = a[i]
    BY <1>7, <2>2
  <2>5. t = a
    BY <2>2, <2>3, <2>4, SeqEqual
  <2>6. QED
    BY <2>5 DEF t
<1>13. n + 1 \in 1 .. Len(s)
  BY <1>4, <1>5
<1>14. QED
  BY <1>3, <1>4, <1>7, <1>11, <1>12, <1>13 DEF n

(* And each list either avoids K or can be cut so.                         *)
LEMMA LastSplit ==
  ASSUME NEW S, NEW K, NEW s \in Seq(S)
  PROVE  s \in Seq(S \ K) \/ \E a, m, b : LastAt(S, K, s, a, m, b)
<1> DEFINE Q(w) == w \in Seq(S \ K) \/ \E a, m, b : LastAt(S, K, w, a, m, b)
           P == {w \in Seq(S) : Q(w)}
<1>1. <<>> \in P
  BY NoneType, Zenon
<1>2. ASSUME NEW u \in Seq(S), u \in P, NEW e \in S PROVE u \o <<e>> \in P
  <2>1. u \o <<e>> \in Seq(S) /\ <<e>> \in Seq(S)
    BY OneType, JoinType, Zenon
  <2>2. CASE e \in K
    <3>1. <<>> \in Seq(S \ K)
      BY NoneType, Zenon
    <3>2. (u \o <<e>>) \o <<>> = u \o <<e>>
      BY <2>1, JoinNone, Zenon
    <3>3. LastAt(S, K, u \o <<e>>, u, e, <<>>)
      BY <2>2, <3>1, <3>2, Zenon DEF LastAt
    <3>4. QED
      BY <2>1, <3>3, Zenon
  <2>3. CASE e \notin K /\ u \in Seq(S \ K)
    <3>1. e \in S \ K
      BY <2>3
    <3>2. u \o <<e>> \in Seq(S \ K)
      BY <2>3, <3>1, OneType, JoinType, Zenon
    <3>3. QED
      BY <2>1, <3>2, Zenon
  <2>4. CASE e \notin K /\ \E a, m, b : LastAt(S, K, u, a, m, b)
    <3>1. PICK a, m, b : LastAt(S, K, u, a, m, b)
      BY <2>4
    <3>2. e \in S \ K
      BY <2>4
    <3>3. a \in Seq(S) /\ m \in S /\ m \in K /\ b \in Seq(S \ K) /\ u = (a \o <<m>>) \o b /\ b \in Seq(S)
      BY <3>1, SeqMonotonic DEF LastAt
    <3>4. b \o <<e>> \in Seq(S \ K) /\ a \o <<m>> \in Seq(S)
      BY <3>2, <3>3, OneType, JoinType, Zenon
    <3>5. Associates(a \o <<m>>, b, <<e>>)
      BY <2>1, <3>3, <3>4, JoinThree, Zenon
    <3>6. u \o <<e>> = (a \o <<m>>) \o (b \o <<e>>)
      BY <3>3, <3>5, Zenon DEF Associates
    <3>7. LastAt(S, K, u \o <<e>>, a, m, b \o <<e>>)
      BY <3>3, <3>4, <3>6, Zenon DEF LastAt
    <3>8. QED
      BY <2>1, <3>7, Zenon
  <2>5. QED
    BY <1>2, <2>2, <2>3, <2>4, Zenon
<1>3. s \in P
  <2> HIDE DEF P
  <2>1. QED
    BY <1>1, <1>2, ListInduction, Zenon
<1>4. QED
  BY <1>3, Zenon

(* F gives one element for each.                                           *)
OneEach(F, S) == \A x \in S : F[x] = <<F[x][1]>>

(* The list E is F of the elements of s, or the one element F gives.       *)
Follows(E, F, s, S) == E = [i \in DOMAIN s |-> E[i]] /\ \A i \in DOMAIN s : s[i] \in S => E[i] = F[s[i]]

FollowsOne(E, F, s, S) == E = [i \in DOMAIN s |-> E[i]] /\ \A i \in DOMAIN s : s[i] \in S => E[i] = F[s[i]][1]

(* Such lists are the spread, flattened or as they are.                    *)
LEMMA SpreadFollows ==
  ASSUME NEW S, NEW s \in Seq(S), NEW F, NEW E, Follows(E, F, s, S)
  PROVE  FlattenSeq(E) = Spread(F, s)
BY SpreadIs DEF Follows

LEMMA EachIsSpread ==
  ASSUME NEW S, NEW s \in Seq(S), NEW F, OneEach(F, S), NEW E, FollowsOne(E, F, s, S)
  PROVE  E = Spread(F, s)
<1> DEFINE H == [x \in S |-> F[x][1]]
           T == {F[x][1] : x \in S}
           G == [x \in S |-> <<H[x]>>]
<1>1. Maps(H, S, T)
  BY DEF Maps
<1>2. [i \in DOMAIN s |-> H[s[i]]] = Spread(G, s)
  <2> HIDE DEF H, T
  <2>1. QED
    BY <1>1, SpreadEach
<1>3. Agree(G, F, S)
  BY DEF OneEach, Agree
<1>4. Spread(G, s) = Spread(F, s)
  <2> HIDE DEF G
  <2>1. QED
    BY <1>3, SpreadSame
<1>5. \A i \in DOMAIN s : s[i] \in S
  BY ElementOfSeq
<1>6. \A i \in DOMAIN s : E[i] = H[s[i]]
  BY <1>5 DEF FollowsOne
<1>7. E = [i \in DOMAIN s |-> H[s[i]]]
  <2> HIDE DEF H
  <2>1. QED
    BY <1>6 DEF FollowsOne
<1>8. QED
  BY <1>2, <1>4, <1>7, Zenon

(* What is spread over a list of four parts.                               *)
SplitsInFour(F, a, b, c, d) ==
  Spread(F, ((a \o b) \o c) \o d) = ((Spread(F, a) \o Spread(F, b)) \o Spread(F, c)) \o Spread(F, d)

(* A spread of four lists joined.                                          *)
LEMMA SpreadJoinFour ==
  ASSUME NEW S, NEW T, NEW F, Spreads(F, S, T), NEW a \in Seq(S), NEW b \in Seq(S), NEW c \in Seq(S), NEW d \in Seq(S)
  PROVE  SplitsInFour(F, a, b, c, d)
<1>1. a \o b \in Seq(S) /\ (a \o b) \o c \in Seq(S)
  BY JoinType, Zenon
<1>2. SpreadSplits(F, a, b)
  BY SpreadJoin, Zenon
<1>3. SpreadSplits(F, a \o b, c)
  BY <1>1, SpreadJoin, Zenon
<1>4. SpreadSplits(F, (a \o b) \o c, d)
  BY <1>1, SpreadJoin, Zenon
<1>5. QED
  BY <1>2, <1>3, <1>4, Zenon DEF SpreadSplits, SplitsInFour

(* Spreading with F and then with G gives r.                               *)
Gives(F, G, s, r) == Spread(G, Spread(F, s)) = r

(* G after F is H, on each element of S.                                   *)
Composes(F, G, H, S) == \A x \in S : Spread(G, F[x]) = H[x]

(* Then it is H on each list, too.                                         *)
LEMMA SpreadComposed ==
  ASSUME NEW S, NEW T, NEW U, NEW F, Spreads(F, S, T), NEW G, Spreads(G, T, U), NEW H, Composes(F, G, H, S),
         NEW s \in Seq(S)
  PROVE  Gives(F, G, s, Spread(H, s))
<1>1. SpreadChains(F, G, S, s)
  BY SpreadTwice, Zenon
<1>2. Agree(Composed(F, G, S), H, S)
  BY DEF Agree, Composed, Composes
<1>3. Spread(Composed(F, G, S), s) = Spread(H, s)
  BY <1>2, SpreadSame, Zenon
<1>4. QED
  BY <1>1, <1>3, Zenon DEF SpreadChains, Gives

(* G takes nothing of what F makes, or takes back the element.             *)
Cancels(F, G, S) == \A x \in S : Spread(G, F[x]) = <<>>

(* G gives back what F took.                                               *)
Restores(F, G, S) == \A x \in S : Spread(G, F[x]) = <<x>>

(* A spread whose images G drops leaves nothing; one whose images G gives  *)
(* back leaves the list.                                                   *)
LEMMA SpreadCancelled ==
  ASSUME NEW S, NEW T, NEW U, NEW F, Spreads(F, S, T), NEW G, Spreads(G, T, U), Cancels(F, G, S), NEW s \in Seq(S)
  PROVE  Gives(F, G, s, <<>>)
<1>1. SpreadChains(F, G, S, s)
  BY SpreadTwice, Zenon
<1>2. \A x \in S : Composed(F, G, S)[x] = <<>>
  BY DEF Composed, Cancels
<1>3. Spread(Composed(F, G, S), s) = <<>>
  BY <1>2, SpreadNothing
<1>4. QED
  BY <1>1, <1>3, Zenon DEF SpreadChains, Gives

LEMMA SpreadRestored ==
  ASSUME NEW S, NEW T, NEW U, NEW F, Spreads(F, S, T), NEW G, Spreads(G, T, U), Restores(F, G, S), NEW s \in Seq(S)
  PROVE  Gives(F, G, s, s)
<1>1. SpreadChains(F, G, S, s)
  BY SpreadTwice, Zenon
<1>2. \A x \in S : Composed(F, G, S)[x] = <<x>>
  BY DEF Composed, Restores
<1>3. Spread(Composed(F, G, S), s) = s
  BY <1>2, SpreadAll
<1>4. QED
  BY <1>1, <1>3, Zenon DEF SpreadChains, Gives
=============================================================================
