---------------------------- MODULE TokenizerProofs ----------------------------
(***************************************************************************)
(* Proofs about the tokenizer, for every list of merges, vocabulary, input *)
(* and size of the buffers: what is encoded spells what is typed, what is  *)
(* printed shows what a token means, and what is merged is what the rules  *)
(* applied in order merge.                                                 *)
(***************************************************************************)
EXTENDS Tokenizer, SequenceTheorems, FiniteSetTheorems, WellFoundedInduction, TLAPS

----------------------------------------------------------------------------
(***************************************************************************)
(* Induction over the natural numbers, in terms of sets: what is to be     *)
(* proved of all numbers is that a set of numbers is Nat.                  *)
(***************************************************************************)
Less == {pair \in Nat \X Nat : pair[1] < pair[2]}

LEMMA LessWellFounded == IsWellFoundedOn(Less, Nat)
BY NatLessThanWellFounded DEF OpToRel, Less

LEMMA LeastNumber ==
    ASSUME NEW T \in SUBSET Nat, T # {}
    PROVE  \E least \in T : \A m \in T : least <= m
<1>1. PICK least \in T : \A m \in T : <<m, least>> \notin Less
  BY LessWellFounded, WFMin
<1>2. ASSUME NEW m \in T PROVE least <= m
  <2>1. least \in Nat /\ m \in Nat
    OBVIOUS
  <2>2. ~(m < least)
    BY <1>1, <2>1 DEF Less
  <2> QED
    BY <2>1, <2>2
<1> QED
  BY <1>2

LEMMA SetInduction ==
    ASSUME NEW T \in SUBSET Nat, 0 \in T, \A n \in T : n + 1 \in T
    PROVE  T = Nat
<1> SUFFICES ASSUME T # Nat PROVE FALSE
  OBVIOUS
<1>1. PICK least \in Nat \ T : \A m \in Nat \ T : least <= m
  <2>1. Nat \ T # {}
    OBVIOUS
  <2> QED
    BY <2>1, LeastNumber
<1>2. least - 1 \in T
  BY <1>1
<1> QED
  BY <1>2

(* A function on 0 .. n defined from its value one place before exists.    *)
Recurs(g, n, first, step) ==
    \A k \in 0 .. n : g[k] = IF k = 0 THEN first ELSE step[<<k, g[k - 1]>>]

LEMMA RecursionExists ==
    ASSUME NEW V, NEW first \in V, NEW step \in [Nat \X V -> V], NEW n \in Nat
    PROVE  \E g \in [0 .. n -> V] : Recurs(g, n, first, step)
<1> USE DEF Recurs
<1> DEFINE Good(m, g) == Recurs(g, m, first, step)
           T == {m \in Nat : \E g \in [0 .. m -> V] : Good(m, g)}
<1>1. 0 \in T
  <2>1. [k \in 0 .. 0 |-> first] \in [0 .. 0 -> V]
    OBVIOUS
  <2>2. Good(0, [k \in 0 .. 0 |-> first])
    OBVIOUS
  <2> QED
    BY <2>1, <2>2
<1>2. ASSUME NEW m \in T PROVE m + 1 \in T
  <2>1. PICK g \in [0 .. m -> V] : Good(m, g)
    BY <1>2
  <2> DEFINE h == [k \in 0 .. m + 1 |-> IF k = m + 1 THEN step[<<m + 1, g[m]>>] ELSE g[k]]
  <2>2. m \in Nat /\ step[<<m + 1, g[m]>>] \in V
    OBVIOUS
  <2>3. h \in [0 .. m + 1 -> V]
    BY <2>2
  <2>4. ASSUME NEW k \in 0 .. m + 1
        PROVE  h[k] = IF k = 0 THEN first ELSE step[<<k, h[k - 1]>>]
    <3>1. /\ h[k] = IF k = m + 1 THEN step[<<m + 1, g[m]>>] ELSE g[k]
          /\ k # 0 => h[k - 1] = g[k - 1]
      BY <2>2
    <3>2. CASE k = m + 1
      <4>1. k # 0 /\ k - 1 = m
        BY <2>2, <3>2
      <4> HIDE DEF h
      <4> QED
        BY <3>1, <3>2, <4>1
    <3>3. CASE k # m + 1
      <4>1. k \in 0 .. m
        BY <2>2, <3>3
      <4> QED
        BY <2>1, <3>1, <3>3, <4>1
    <3> QED
      BY <3>2, <3>3
  <2>5. Good(m + 1, h)
    BY <2>4
  <2> HIDE DEF h, Good
  <2> QED
    BY <2>2, <2>3, <2>5
<1>3. T = Nat
  <2> HIDE DEF T
  <2>1. T \in SUBSET Nat
    BY DEF T
  <2> QED
    BY <1>1, <1>2, <2>1, SetInduction
<1> QED
  BY <1>3

----------------------------------------------------------------------------
(***************************************************************************)
(* Induction downwards from n, and functions defined that way.             *)
(***************************************************************************)
LEMMA Downward ==
    ASSUME NEW n \in Nat, NEW T \in SUBSET (0 .. n), n \in T,
           \A k \in 0 .. n - 1 : (\A m \in k + 1 .. n : m \in T) => k \in T
    PROVE  T = 0 .. n
<1> SUFFICES ASSUME T # 0 .. n PROVE FALSE
  OBVIOUS
<1> DEFINE U == {m \in 0 .. n : n - m \notin T}
<1>1. U # {} /\ U \in SUBSET Nat
  <2>1. PICK k \in 0 .. n : k \notin T
    OBVIOUS
  <2>2. n - k \in 0 .. n /\ n - (n - k) = k
    OBVIOUS
  <2>3. n - k \in U
    BY <2>1, <2>2
  <2>4. U \in SUBSET Nat
    OBVIOUS
  <2> HIDE DEF U
  <2> QED
    BY <2>3, <2>4
<1>2. PICK d \in U : \A e \in U : d <= e
  <2> HIDE DEF U
  <2> QED
    BY <1>1, LeastNumber
<1>3. d \in 0 .. n /\ n - d \notin T
  OBVIOUS
<1>4. n - d \in 0 .. n - 1
  BY <1>3
<1>5. ASSUME NEW m \in n - d + 1 .. n PROVE m \in T
  <2>1. n - m \in 0 .. n /\ n - m < d /\ n - (n - m) = m
    BY <1>3
  <2>2. n - m \notin U
    <3> HIDE DEF U
    <3>1. d \in Int
      BY <1>3
    <3> QED
      BY <1>2, <2>1, <3>1
  <2> QED
    BY <2>1, <2>2
<1> QED
  BY <1>3, <1>4, <1>5

(* The value at k comes from the one leap[k] places on.                    *)
Leaps(g, k, n, first, leap, step) ==
    \A m \in k .. n :
        g[m] = IF m = n THEN first ELSE step[<<m, g[m + leap[m]]>>]

LEMMA LeapsExist ==
    ASSUME NEW V, NEW n \in Nat, NEW first \in V, NEW leap \in [0 .. n - 1 -> Nat],
           \A k \in 0 .. n - 1 : leap[k] > 0 /\ k + leap[k] <= n,
           NEW step \in [(0 .. n - 1) \X V -> V]
    PROVE  \E g \in [0 .. n -> V] : Leaps(g, 0, n, first, leap, step)
<1> DEFINE Good(k, g) == Leaps(g, k, n, first, leap, step)
           T == {k \in 0 .. n : \E g \in [k .. n -> V] : Good(k, g)}
<1>1. n \in T
  <2>1. [m \in n .. n |-> first] \in [n .. n -> V]
    OBVIOUS
  <2>2. Good(n, [m \in n .. n |-> first])
    BY DEF Leaps
  <2> HIDE DEF Good
  <2>3. \E g \in [n .. n -> V] : Good(n, g)
    BY <2>1, <2>2, Zenon
  <2> QED
    BY <2>3
<1>2. ASSUME NEW k \in 0 .. n - 1, \A m \in k + 1 .. n : m \in T
      PROVE  k \in T
  <2>1. k + 1 \in T
    BY <1>2
  <2>2. PICK g \in [k + 1 .. n -> V] : Good(k + 1, g)
    BY <2>1
  <2>3. k + leap[k] \in k + 1 .. n
    OBVIOUS
  <2> DEFINE first_k == step[<<k, g[k + leap[k]]>>]
             h == [m \in k .. n |-> IF m = k THEN first_k ELSE g[m]]
  <2>4. first_k \in V
    BY <2>3
  <2>5. h \in [k .. n -> V]
    BY <2>4
  <2>6. ASSUME NEW m \in k .. n
        PROVE  h[m] = IF m = n THEN first ELSE step[<<m, h[m + leap[m]]>>]
    <3>1. CASE m = k
      <4>1. h[m] = first_k /\ h[k + leap[k]] = g[k + leap[k]]
        BY <2>3, <3>1
      <4> HIDE DEF h
      <4> QED
        BY <3>1, <4>1
    <3>2. CASE m # k
      <4>1. m \in k + 1 .. n /\ h[m] = g[m]
        BY <3>2
      <4>2. g[m] = IF m = n THEN first ELSE step[<<m, g[m + leap[m]]>>]
        BY <2>2, <4>1 DEF Leaps
      <4>3. CASE m = n
        <5> HIDE DEF h
        <5> QED
          BY <4>1, <4>2, <4>3
      <4>4. CASE m # n
        <5>1. m \in 0 .. n - 1 /\ m > k
          BY <4>1, <4>4
        <5>2. m + leap[m] \in k + 1 .. n
          BY <5>1
        <5>3. h[m + leap[m]] = g[m + leap[m]]
          BY <5>2
        <5> HIDE DEF h
        <5> QED
          BY <4>1, <4>2, <4>4, <5>3
      <4> QED
        BY <4>3, <4>4
    <3> QED
      BY <3>1, <3>2
  <2> HIDE DEF h
  <2>7. Good(k, h)
    BY <2>6 DEF Leaps
  <2> HIDE DEF Good
  <2> QED
    BY <2>5, <2>7
<1>3. T = 0 .. n
  <2> HIDE DEF T
  <2>1. T \in SUBSET (0 .. n)
    BY DEF T
  <2> QED
    BY <1>1, <1>2, <2>1, Downward
<1> QED
  BY <1>3

----------------------------------------------------------------------------
(***************************************************************************)
(* FlattenSeq.                                                             *)
(***************************************************************************)
Flattens(s, g) ==
    g = [i \in 1 .. Len(s) |-> IF i = 1 THEN s[i] ELSE g[i - 1] \o s[i]]

LEMMA FlattenEmpty == FlattenSeq(<<>>) = <<>>
BY DEF FlattenSeq

LEMMA FlattenFunction ==
    ASSUME NEW S, NEW s \in Seq(Seq(S)), Len(s) # 0
    PROVE  \E g \in [1 .. Len(s) -> Seq(S)] :
              Flattens(s, g) /\ FlattenSeq(s) = g[Len(s)]
<1> DEFINE n == Len(s)
           V == Seq(S)
           step == [p \in Nat \X V |-> IF p[1] \in 1 .. n THEN p[2] \o s[p[1]] ELSE p[2]]
<1>1. n \in Nat \ {0} /\ s \in [1 .. n -> V]
  OBVIOUS
<1>2. <<>> \in V /\ step \in [Nat \X V -> V]
  <2>1. \A v \in V, w \in V : v \o w \in V
    OBVIOUS
  <2> HIDE DEF V, n
  <2> QED
    BY <1>1, <2>1 DEF V
<1>3. PICK f \in [0 .. n -> V] : Recurs(f, n, <<>>, step)
  <2> HIDE DEF n, V, step
  <2> QED
    BY <1>1, <1>2, RecursionExists
<1> DEFINE g == [i \in 1 .. n |-> f[i]]
<1>4. g \in [1 .. n -> V]
  OBVIOUS
<1>5. ASSUME NEW i \in 1 .. n
      PROVE  g[i] = IF i = 1 THEN s[i] ELSE g[i - 1] \o s[i]
  <2>1. i \in 0 .. n /\ i # 0 /\ i - 1 \in 0 .. n /\ i \in Nat
    OBVIOUS
  <2>2. f[i] = step[<<i, f[i - 1]>>]
    <3> HIDE DEF step, n
    <3> QED
      BY <1>3, <2>1 DEF Recurs
  <2>3. f[i - 1] \in V /\ s[i] \in V
    BY <1>1, <2>1
  <2>4. f[i] = f[i - 1] \o s[i]
    <3>1. <<i, f[i - 1]>> \in Nat \X V
      BY <2>1, <2>3
    <3>2. step[<<i, f[i - 1]>>] = f[i - 1] \o s[i]
      <4> HIDE DEF n, V
      <4> QED
        BY <3>1
    <3> QED
      BY <2>2, <3>2, Zenon
  <2>5. g[i] = f[i]
    OBVIOUS
  <2>6. CASE i = 1
    <3>1. f[0] = <<>>
      <4>1. 0 \in 0 .. n
        BY <1>1
      <4> HIDE DEF step, n
      <4> QED
        BY <1>3, <4>1 DEF Recurs
    <3>2. <<>> \o s[i] = s[i]
      BY <2>3, ConcatEmptySeq
    <3>3. f[i - 1] = <<>>
      BY <2>6, <3>1
    <3> HIDE DEF g
    <3> QED
      BY <2>4, <2>5, <2>6, <3>2, <3>3, Zenon
  <2>7. CASE i # 1
    <3>1. i - 1 \in 1 .. n
      BY <2>1, <2>7
    <3>2. g[i - 1] = f[i - 1]
      BY <3>1
    <3> HIDE DEF g
    <3> QED
      BY <2>4, <2>5, <2>7, <3>2, Zenon
  <2> QED
    BY <2>6, <2>7
<1>6. Flattens(s, g)
  BY <1>5 DEF Flattens
<1>7. \E h : h = [i \in 1 .. n |-> IF i = 1 THEN s[i] ELSE h[i - 1] \o s[i]]
  <2> HIDE DEF g
  <2> QED
    BY <1>6 DEF Flattens
<1> DEFINE h == CHOOSE h : h = [i \in 1 .. n |-> IF i = 1 THEN s[i] ELSE h[i - 1] \o s[i]]
<1>8. Flattens(s, h) /\ FlattenSeq(s) = h[n]
  BY <1>7 DEF Flattens, FlattenSeq
<1>9. \A i \in 1 .. n : h[i] = g[i]
  <2> HIDE DEF h, g
  <2> DEFINE T == {k \in Nat : k + 1 \in 1 .. n => h[k + 1] = g[k + 1]}
  <2>1. ASSUME NEW k \in Nat, k + 1 \in 1 .. n
        PROVE  /\ h[k + 1] = IF k + 1 = 1 THEN s[k + 1] ELSE h[k] \o s[k + 1]
               /\ g[k + 1] = IF k + 1 = 1 THEN s[k + 1] ELSE g[k] \o s[k + 1]
    <3>1. (k + 1) - 1 = k
      OBVIOUS
    <3>2. h[k + 1] = IF k + 1 = 1 THEN s[k + 1] ELSE h[(k + 1) - 1] \o s[k + 1]
      BY <1>8, <2>1 DEF Flattens
    <3>3. g[k + 1] = IF k + 1 = 1 THEN s[k + 1] ELSE g[(k + 1) - 1] \o s[k + 1]
      BY <1>5, <2>1
    <3> QED
      BY <3>1, <3>2, <3>3
  <2>2. 0 \in T
    BY <2>1
  <2>3. ASSUME NEW k \in T PROVE k + 1 \in T
    <3>1. k \in Nat /\ (k + 1 \in 1 .. n => h[k + 1] = g[k + 1])
      BY <2>3
    <3>2. ASSUME (k + 1) + 1 \in 1 .. n PROVE h[(k + 1) + 1] = g[(k + 1) + 1]
      <4>1. k + 1 \in 1 .. n /\ (k + 1) + 1 # 1
        BY <3>1, <3>2
      <4> QED
        BY <2>1, <3>1, <3>2, <4>1
    <3> QED
      BY <3>1, <3>2
  <2>4. T = Nat
    <3> HIDE DEF T
    <3>1. T \in SUBSET Nat
      BY DEF T
    <3> QED
      BY <2>2, <2>3, <3>1, SetInduction
  <2>5. ASSUME NEW i \in 1 .. n PROVE h[i] = g[i]
    <3>1. i - 1 \in Nat /\ (i - 1) + 1 = i
      BY <1>1
    <3>2. i - 1 \in T
      BY <2>4, <3>1
    <3> QED
      BY <3>1, <3>2
  <2> QED
    BY <2>5
<1>10. h[n] = g[n]
  <2> HIDE DEF h, g, n
  <2> QED
    BY <1>1, <1>9
<1> HIDE DEF g, h
<1> QED
  BY <1>4, <1>6, <1>8, <1>10

LEMMA FlattenAppend ==
    ASSUME NEW S, NEW s \in Seq(Seq(S)), NEW x \in Seq(S)
    PROVE  FlattenSeq(s) \in Seq(S) /\ FlattenSeq(Append(s, x)) = FlattenSeq(s) \o x
<1> DEFINE n == Len(s)
           t == Append(s, x)
<1>1. n \in Nat /\ t \in Seq(Seq(S)) /\ Len(t) = n + 1
  OBVIOUS
<1>2. t[n + 1] = x /\ \A i \in 1 .. n : t[i] = s[i]
  OBVIOUS
<1>3. PICK h \in [1 .. Len(t) -> Seq(S)] : Flattens(t, h) /\ FlattenSeq(t) = h[Len(t)]
  <2> HIDE DEF t
  <2>1. Len(t) # 0
    BY <1>1
  <2> QED
    BY <1>1, <2>1, FlattenFunction
<1>4. \A i \in 1 .. n + 1 : h[i] = IF i = 1 THEN t[i] ELSE h[i - 1] \o t[i]
  BY <1>1, <1>3 DEF Flattens
<1>5. CASE n = 0
  <2>1. s = <<>>
    BY <1>5
  <2>2. FlattenSeq(s) = <<>>
    BY <2>1, FlattenEmpty
  <2>3. FlattenSeq(t) = x
    BY <1>1, <1>2, <1>3, <1>4, <1>5
  <2>4. <<>> \o x = x
    OBVIOUS
  <2> QED
    BY <2>2, <2>3, <2>4
<1>6. CASE n # 0
  <2>1. PICK g \in [1 .. n -> Seq(S)] : Flattens(s, g) /\ FlattenSeq(s) = g[n]
    BY <1>6, FlattenFunction
  <2>2. \A i \in 1 .. n : g[i] = IF i = 1 THEN s[i] ELSE g[i - 1] \o s[i]
    BY <2>1 DEF Flattens
  <2> DEFINE T == {k \in Nat : k + 1 \in 1 .. n => h[k + 1] = g[k + 1]}
  <2>3. 0 \in T
    <3> HIDE DEF t, n
    <3>1. ASSUME 1 \in 1 .. n PROVE h[1] = g[1]
      <4>1. 1 \in 1 .. n + 1
        BY <1>1
      <4>2. h[1] = t[1]
        BY <1>4, <4>1
      <4>3. g[1] = s[1]
        BY <2>2, <3>1
      <4>4. t[1] = s[1]
        BY <1>2, <3>1
      <4> QED
        BY <4>2, <4>3, <4>4
    <3> QED
      BY <3>1
  <2>4. ASSUME NEW k \in T PROVE k + 1 \in T
    <3> HIDE DEF t, n
    <3>1. k \in Nat /\ (k + 1 \in 1 .. n => h[k + 1] = g[k + 1])
      BY <2>4
    <3>2. ASSUME (k + 1) + 1 \in 1 .. n PROVE h[(k + 1) + 1] = g[(k + 1) + 1]
      <4> DEFINE m == (k + 1) + 1
      <4>1. k + 1 \in 1 .. n /\ m # 1 /\ m - 1 = k + 1 /\ m \in 1 .. n /\ m \in 1 .. n + 1
        BY <1>1, <3>1, <3>2
      <4> HIDE DEF m
      <4>2. h[m] = h[k + 1] \o t[m] /\ g[m] = g[k + 1] \o s[m]
        BY <1>4, <2>2, <4>1
      <4>3. t[m] = s[m] /\ h[k + 1] = g[k + 1]
        BY <1>2, <3>1, <4>1
      <4>4. h[m] = g[m]
        BY <4>2, <4>3
      <4> QED
        BY <4>4 DEF m
    <3> QED
      BY <3>1, <3>2
  <2>5. T = Nat
    <3> HIDE DEF T
    <3>1. T \in SUBSET Nat
      BY DEF T
    <3> QED
      BY <2>3, <2>4, <3>1, SetInduction
  <2>6. h[n] = g[n]
    <3>1. n - 1 \in Nat /\ (n - 1) + 1 = n /\ n \in 1 .. n
      BY <1>1, <1>6
    <3>2. n - 1 \in T
      BY <2>5, <3>1
    <3> QED
      BY <3>1, <3>2
  <2>7. h[n + 1] = h[n] \o x
    <3> HIDE DEF t, n
    <3>1. n + 1 # 1 /\ (n + 1) - 1 = n /\ n + 1 \in 1 .. n + 1
      BY <1>1, <1>6
    <3> QED
      BY <1>2, <1>4, <3>1
  <2>8. FlattenSeq(s) \in Seq(S)
    <3> HIDE DEF n
    <3> QED
      BY <1>1, <1>6, <2>1
  <2> HIDE DEF t, n
  <2> QED
    BY <1>1, <1>3, <2>1, <2>6, <2>7, <2>8 DEF t
<1> QED
  BY <1>5, <1>6

LEMMA FlattenType ==
    ASSUME NEW S, NEW s \in Seq(Seq(S))
    PROVE  FlattenSeq(s) \in Seq(S)
<1>1. <<>> \in Seq(S)
  OBVIOUS
<1> QED
  BY <1>1, FlattenAppend, Zenon

LEMMA FlattenOne ==
    ASSUME NEW S, NEW x \in Seq(S)
    PROVE  FlattenSeq(<<x>>) = x
<1>1. <<>> \in Seq(Seq(S)) /\ <<x>> = Append(<<>>, x) /\ <<>> \o x = x
  OBVIOUS
<1>2. FlattenSeq(Append(<<>>, x)) = FlattenSeq(<<>>) \o x
  BY <1>1, FlattenAppend, Zenon
<1> QED
  BY <1>1, <1>2, FlattenEmpty

LEMMA FlattenConcat ==
    ASSUME NEW S, NEW s \in Seq(Seq(S)), NEW t \in Seq(Seq(S))
    PROVE  FlattenSeq(s \o t) = FlattenSeq(s) \o FlattenSeq(t)
<1> DEFINE V == Seq(S)
           T == {n \in Nat : \A u \in Seq(V) :
                    Len(u) = n => FlattenSeq(s \o u) = FlattenSeq(s) \o FlattenSeq(u)}
<1>1. 0 \in T
  <2>1. ASSUME NEW u \in Seq(V), Len(u) = 0
        PROVE  FlattenSeq(s \o u) = FlattenSeq(s) \o FlattenSeq(u)
    <3>1. u = <<>> /\ s \o u = s
      BY <2>1
    <3>2. FlattenSeq(s) \in Seq(S)
      BY FlattenType
    <3>3. FlattenSeq(s) \o <<>> = FlattenSeq(s)
      BY <3>2
    <3> QED
      BY <3>1, <3>3, FlattenEmpty
  <2> QED
    BY <2>1
<1>2. ASSUME NEW n \in T PROVE n + 1 \in T
  <2>1. ASSUME NEW u \in Seq(V), Len(u) = n + 1
        PROVE  FlattenSeq(s \o u) = FlattenSeq(s) \o FlattenSeq(u)
    <3>1. u # <<>> /\ n \in Nat
      BY <2>1
    <3>2. PICK w \in Seq(V), x \in V : u = Append(w, x)
      BY <3>1, SequenceEmptyOrAppend
    <3>3. Len(w) = n
      BY <2>1, <3>1, <3>2
    <3>4. FlattenSeq(s \o w) = FlattenSeq(s) \o FlattenSeq(w)
      BY <3>3
    <3>5. s \o w \in Seq(V) /\ s \o u = Append(s \o w, x)
      BY <3>2
    <3>6. FlattenSeq(s \o u) = FlattenSeq(s \o w) \o x
      BY <3>5, FlattenAppend
    <3>7. FlattenSeq(u) = FlattenSeq(w) \o x
      BY <3>2, FlattenAppend
    <3>8. FlattenSeq(s) \in Seq(S) /\ FlattenSeq(w) \in Seq(S)
      BY FlattenType
    <3>9. (FlattenSeq(s) \o FlattenSeq(w)) \o x = FlattenSeq(s) \o (FlattenSeq(w) \o x)
      BY <3>8, ConcatAssociative, SMTT(30)
    <3> QED
      BY <3>4, <3>6, <3>7, <3>9
  <2> QED
    BY <2>1
<1>3. T = Nat
  <2> HIDE DEF T
  <2>1. T \in SUBSET Nat
    BY DEF T
  <2> QED
    BY <1>1, <1>2, <2>1, SetInduction
<1>4. Len(t) \in T
  BY <1>3
<1> QED
  BY <1>4

(* What replaces every element by the sequence of it, flattened.           *)
LEMMA FlattenSingletons ==
    ASSUME NEW S, NEW s \in Seq(S)
    PROVE  FlattenSeq([k \in DOMAIN s |-> <<s[k]>>]) = s
<1> DEFINE Wrap(u) == [k \in DOMAIN u |-> <<u[k]>>]
           T == {n \in Nat : \A u \in Seq(S) : Len(u) = n => FlattenSeq(Wrap(u)) = u}
<1>1. 0 \in T
  <2>1. ASSUME NEW u \in Seq(S), Len(u) = 0 PROVE FlattenSeq(Wrap(u)) = u
    <3>1. u = <<>> /\ Wrap(u) = <<>>
      BY <2>1
    <3> QED
      BY <3>1, FlattenEmpty
  <2> HIDE DEF Wrap
  <2> QED
    BY <2>1
<1>2. ASSUME NEW n \in T PROVE n + 1 \in T
  <2>1. ASSUME NEW u \in Seq(S), Len(u) = n + 1 PROVE FlattenSeq(Wrap(u)) = u
    <3>1. u # <<>> /\ n \in Nat
      BY <2>1
    <3>2. PICK w \in Seq(S), x \in S : u = Append(w, x)
      BY <3>1, SequenceEmptyOrAppend
    <3>3. Len(w) = n
      BY <2>1, <3>1, <3>2
    <3>4. FlattenSeq(Wrap(w)) = w
      <4> HIDE DEF Wrap
      <4> QED
        BY <3>3
    <3>5. Wrap(w) \in Seq(Seq(S)) /\ <<x>> \in Seq(S)
      <4>1. \A k \in 1 .. Len(w) : <<w[k]>> \in Seq(S)
        OBVIOUS
      <4>2. Wrap(w) = [k \in 1 .. Len(w) |-> <<w[k]>>]
        OBVIOUS
      <4>3. Len(w) \in Nat
        OBVIOUS
      <4> QED
        BY <4>1, <4>2, <4>3
    <3>6. Wrap(u) = Append(Wrap(w), <<x>>)
      BY <3>2, <3>5
    <3>7. FlattenSeq(Wrap(u)) = w \o <<x>>
      <4> HIDE DEF Wrap
      <4> QED
        BY <3>4, <3>5, <3>6, FlattenAppend
    <3>8. w \o <<x>> = u
      BY <3>2
    <3> HIDE DEF Wrap
    <3> QED
      BY <3>7, <3>8
  <2> HIDE DEF Wrap
  <2> QED
    BY <2>1
<1>3. T = Nat
  <2> HIDE DEF T
  <2>1. T \in SUBSET Nat
    BY DEF T
  <2> QED
    BY <1>1, <1>2, <2>1, SetInduction
<1>4. Len(s) \in T
  BY <1>3
<1> QED
  BY <1>4
----------------------------------------------------------------------------
(***************************************************************************)
(* UTF-8 and tokenizer_decode_token.                                       *)
(***************************************************************************)
Rest(e, k) == SubSeq(e, k + 1, Len(e))

LEMMA RestType ==
    ASSUME NEW S, NEW e \in Seq(S), NEW k \in 0 .. Len(e)
    PROVE  /\ Rest(e, k) \in Seq(S)
           /\ Len(Rest(e, k)) = Len(e) - k
           /\ \A i \in 1 .. Len(e) - k : Rest(e, k)[i] = e[k + i]
           /\ k < Len(e) => Rest(e, k) # <<>>
<1> DEFINE n == Len(e)
           r == SubSeq(e, k + 1, n)
<1>1. n \in Nat /\ k \in Nat /\ k <= n
  OBVIOUS
<1>2. r \in Seq(S)
  BY <1>1
<1>3. Len(r) = n - k
  BY <1>1
<1>4. \A i \in 1 .. n - k : r[i] = e[k + i]
  BY <1>1
<1> HIDE DEF r
<1>5. k < n => r # <<>>
  BY <1>1, <1>2, <1>3
<1> QED
  BY <1>2, <1>3, <1>4, <1>5 DEF Rest, r

LEMMA RestOfRest ==
    ASSUME NEW S, NEW e \in Seq(S), NEW d \in 0 .. Len(e), NEW k \in 0 .. Len(e) - d
    PROVE  Rest(Rest(e, d), k) = Rest(e, d + k)
<1> DEFINE x == Rest(Rest(e, d), k)
           y == Rest(e, d + k)
           r == Rest(e, d)
<1>1. Len(e) \in Nat /\ d + k \in 0 .. Len(e)
  OBVIOUS
<1>2. /\ r \in Seq(S) /\ Len(r) = Len(e) - d
      /\ \A i \in 1 .. Len(e) - d : r[i] = e[d + i]
  BY RestType
<1>3. /\ x \in Seq(S) /\ Len(x) = Len(r) - k
      /\ \A i \in 1 .. Len(r) - k : x[i] = r[k + i]
  <2> HIDE DEF r
  <2> QED
    BY <1>2, RestType DEF r
<1>4. /\ y \in Seq(S) /\ Len(y) = Len(e) - (d + k)
      /\ \A i \in 1 .. Len(e) - (d + k) : y[i] = e[(d + k) + i]
  BY <1>1, RestType
<1> HIDE DEF x, y, r
<1>5. ASSUME NEW i \in 1 .. Len(x) PROVE x[i] = y[i]
  <2>1. x[i] = r[k + i]
    BY <1>3, <1>5
  <2>2. r[k + i] = e[d + (k + i)]
    BY <1>1, <1>2, <1>3, <1>5
  <2>3. y[i] = e[(d + k) + i]
    BY <1>1, <1>2, <1>3, <1>4, <1>5
  <2>4. d + (k + i) = (d + k) + i
    BY <1>3
  <2> QED
    BY <2>1, <2>2, <2>3, <2>4
<1>6. Len(x) = Len(y)
  BY <1>1, <1>2, <1>3, <1>4
<1>7. x = y
  BY <1>3, <1>4, <1>5, <1>6, SeqEqual
<1> QED
  BY <1>7 DEF x, y

LEMMA RestOfConcat ==
    ASSUME NEW S, NEW e \in Seq(S), NEW t \in Seq(S)
    PROVE  Rest(e \o t, Len(e)) = t
<1> DEFINE x == Rest(e \o t, Len(e))
<1>1. e \o t \in Seq(S) /\ Len(e \o t) = Len(e) + Len(t) /\ Len(e) \in 0 .. Len(e \o t)
  OBVIOUS
<1>2. /\ x \in Seq(S) /\ Len(x) = Len(t)
      /\ \A i \in 1 .. Len(t) : x[i] = (e \o t)[Len(e) + i]
  <2>1. /\ x \in Seq(S) /\ Len(x) = Len(e \o t) - Len(e)
        /\ \A i \in 1 .. Len(e \o t) - Len(e) : x[i] = (e \o t)[Len(e) + i]
    BY <1>1, RestType
  <2>2. Len(e \o t) - Len(e) = Len(t)
    BY <1>1
  <2> HIDE DEF x
  <2> QED
    BY <2>1, <2>2
<1> HIDE DEF x
<1>3. ASSUME NEW i \in 1 .. Len(x) PROVE x[i] = t[i]
  <2>1. i \in 1 .. Len(t)
    BY <1>2
  <2>2. (e \o t)[Len(e) + i] = t[i]
    BY <2>1
  <2> QED
    BY <1>2, <2>1, <2>2
<1>4. x = t
  BY <1>2, <1>3, SeqEqual
<1> QED
  BY <1>4 DEF x

LEMMA CodepointTypes ==
    ASSUME NEW a \in Byte, NEW b \in Byte, NEW c \in Byte, NEW d \in Byte
    PROVE  /\ a \in Nat
           /\ Codepoint2(a, b) \in Nat
           /\ Codepoint3(a, b, c) \in Nat
           /\ Codepoint4(a, b, c, d) \in Nat
<1>1. a \in Nat /\ b \in Nat /\ c \in Nat /\ d \in Nat
  BY SMT DEF Byte
<1>2. /\ a % 32 \in Nat /\ a % 16 \in Nat /\ a % 8 \in Nat
      /\ b % 64 \in Nat /\ c % 64 \in Nat /\ d % 64 \in Nat
  BY <1>1, SMT
<1> QED
  BY <1>1, <1>2, SMT DEF Codepoint2, Codepoint3, Codepoint4

(* What Utf8DecodeOne makes of the length the first byte announces.        *)
LEMMA DecodeOneCases ==
    ASSUME NEW data \in Seq(Byte), data # <<>>
    PROVE  \/ Utf8DecodeOne(data) = [cp |-> data[1], used |-> 1]
           \/ /\ Len(data) >= 2
              /\ Utf8DecodeOne(data) = [used |-> 2, cp |-> Codepoint2(data[1], data[2])]
           \/ /\ Len(data) >= 3
              /\ Utf8DecodeOne(data) =
                    [used |-> 3, cp |-> Codepoint3(data[1], data[2], data[3])]
           \/ /\ Len(data) >= 4
              /\ Utf8DecodeOne(data) =
                    [used |-> 4, cp |-> Codepoint4(data[1], data[2], data[3], data[4])]
<1> DEFINE n == Announced(data[1])
<1>1. n = 1 \/ n = 2 \/ n = 3 \/ n = 4
  BY SMT DEF Announced
<1>2. Continues(data, n) => Len(data) >= n
  BY SMT DEF Continues
<1>3. CASE n = 1 \/ ~Continues(data, n)
  BY <1>3, SMT DEF Utf8DecodeOne
<1>4. CASE n = 2 /\ Continues(data, n)
  BY <1>2, <1>4, SMT DEF Utf8DecodeOne
<1>5. CASE n = 3 /\ Continues(data, n)
  BY <1>2, <1>5, SMT DEF Utf8DecodeOne
<1>6. CASE n = 4 /\ Continues(data, n)
  BY <1>2, <1>6, SMT DEF Utf8DecodeOne
<1> HIDE DEF n
<1> QED
  BY <1>1, <1>3, <1>4, <1>5, <1>6, SMT

LEMMA DecodeOneType ==
    ASSUME NEW data \in Seq(Byte), data # <<>>
    PROVE  /\ Utf8DecodeOne(data).cp \in Nat
           /\ Utf8DecodeOne(data).used \in 1 .. Len(data)
<1>1. Len(data) \in Nat \ {0} /\ \A i \in 1 .. Len(data) : data[i] \in Byte
  OBVIOUS
<1>2. CASE Utf8DecodeOne(data) = [cp |-> data[1], used |-> 1]
  <2>1. data[1] \in Byte
    BY <1>1
  <2>2. data[1] \in Nat
    BY <2>1, CodepointTypes, Zenon
  <2> QED
    BY <1>1, <1>2, <2>2, SMT
<1>3. CASE /\ Len(data) >= 2
           /\ Utf8DecodeOne(data) = [used |-> 2, cp |-> Codepoint2(data[1], data[2])]
  <2>1. data[1] \in Byte /\ data[2] \in Byte
    BY <1>1, <1>3
  <2>2. Codepoint2(data[1], data[2]) \in Nat
    BY <2>1, CodepointTypes, Zenon
  <2> QED
    BY <1>1, <1>3, <2>2, SMT
<1>4. CASE /\ Len(data) >= 3
           /\ Utf8DecodeOne(data) =
                 [used |-> 3, cp |-> Codepoint3(data[1], data[2], data[3])]
  <2>1. data[1] \in Byte /\ data[2] \in Byte /\ data[3] \in Byte
    BY <1>1, <1>4
  <2>2. Codepoint3(data[1], data[2], data[3]) \in Nat
    BY <2>1, CodepointTypes, Zenon
  <2> QED
    BY <1>1, <1>4, <2>2, SMT
<1>5. CASE /\ Len(data) >= 4
           /\ Utf8DecodeOne(data) =
                 [used |-> 4, cp |-> Codepoint4(data[1], data[2], data[3], data[4])]
  <2>1. data[1] \in Byte /\ data[2] \in Byte /\ data[3] \in Byte /\ data[4] \in Byte
    BY <1>1, <1>5
  <2>2. Codepoint4(data[1], data[2], data[3], data[4]) \in Nat
    BY <2>1, CodepointTypes, Zenon
  <2> QED
    BY <1>1, <1>5, <2>2, SMT
<1> QED
  BY <1>2, <1>3, <1>4, <1>5, DecodeOneCases

LEMMA Below512 == ASSUME NEW c \in Nat, c < 512 PROVE c \in 0 .. 511
OBVIOUS

LEMMA DecodedOneType ==
    ASSUME NEW data \in Seq(Byte), data # <<>>
    PROVE  DecodedOne(Utf8DecodeOne(data), data) \in Seq(Byte)
<1> DEFINE one == Utf8DecodeOne(data)
<1>1. one.cp \in Nat /\ one.used \in 1 .. Len(data)
  BY DecodeOneType
<1> HIDE DEF one
<1>2. CASE one.cp < 512 /\ byte_for_cp[one.cp] >= 0
  <2>1. one.cp \in 0 .. 511
    <3>1. one.cp < 512
      BY <1>2
    <3> QED
      BY <1>1, <3>1, Below512, Zenon
  <2>2. byte_for_cp[one.cp] = ByteForCodepoint(one.cp)
    BY <2>1 DEF byte_for_cp
  <2>3. ByteForCodepoint(one.cp) \in Byte \cup {-1}
    BY DEF ByteForCodepoint
  <2>4. ByteForCodepoint(one.cp) \in Byte
    BY <1>2, <2>2, <2>3
  <2>5. <<byte_for_cp[one.cp]>> \in Seq(Byte)
    BY <2>2, <2>4
  <2> QED
    BY <1>2, <2>5 DEF DecodedOne, one
<1>3. CASE ~(one.cp < 512 /\ byte_for_cp[one.cp] >= 0)
  <2>1. DecodedOne(one, data) = SubSeq(data, 1, one.used)
    BY <1>3 DEF DecodedOne
  <2>2. SubSeq(data, 1, one.used) \in Seq(Byte)
    BY <1>1
  <2> QED
    BY <2>1, <2>2 DEF one
<1> QED
  BY <1>2, <1>3

Decodes(e, g) ==
    g = [k \in 0 .. Len(e) |->
            IF k = Len(e) THEN <<>>
            ELSE DecodedOne(Utf8DecodeOne(Rest(e, k)), Rest(e, k))
                    \o g[k + Utf8DecodeOne(Rest(e, k)).used]]

LEMMA DecodesExists ==
    ASSUME NEW e \in Seq(Byte)
    PROVE  \E g : Decodes(e, g)
<1> DEFINE n == Len(e)
           V == Seq(Byte)
           leap == [k \in 0 .. n - 1 |-> Utf8DecodeOne(Rest(e, k)).used]
           bytes(k) == DecodedOne(Utf8DecodeOne(Rest(e, k)), Rest(e, k))
           step == [p \in (0 .. n - 1) \X V |-> bytes(p[1]) \o p[2]]
<1>1. n \in Nat /\ <<>> \in V
  OBVIOUS
<1>2. ASSUME NEW k \in 0 .. n - 1
      PROVE  /\ bytes(k) \in V
             /\ Utf8DecodeOne(Rest(e, k)).used \in 1 .. n - k
  <2>1. k \in 0 .. Len(e) /\ k < Len(e)
    BY <1>1
  <2>2. Rest(e, k) \in Seq(Byte) /\ Rest(e, k) # <<>> /\ Len(Rest(e, k)) = n - k
    BY <2>1, RestType, Zenon
  <2> QED
    BY <2>2, DecodeOneType, DecodedOneType
<1>3. leap \in [0 .. n - 1 -> Nat] /\ \A k \in 0 .. n - 1 : leap[k] > 0 /\ k + leap[k] <= n
  <2>1. ASSUME NEW k \in 0 .. n - 1
        PROVE  /\ Utf8DecodeOne(Rest(e, k)).used \in Nat
               /\ leap[k] = Utf8DecodeOne(Rest(e, k)).used
               /\ leap[k] > 0 /\ k + leap[k] <= n
    <3>1. leap[k] = Utf8DecodeOne(Rest(e, k)).used
      OBVIOUS
    <3>2. Utf8DecodeOne(Rest(e, k)).used \in 1 .. n - k
      BY <1>2
    <3> HIDE DEF leap, n
    <3> QED
      BY <1>1, <3>1, <3>2
  <2> QED
    BY <2>1
<1>4. step \in [(0 .. n - 1) \X V -> V]
  <2>1. ASSUME NEW p \in (0 .. n - 1) \X V PROVE bytes(p[1]) \o p[2] \in V
    <3>1. bytes(p[1]) \in V /\ p[2] \in V
      BY <1>2
    <3> HIDE DEF bytes
    <3> QED
      BY <3>1
  <2> HIDE DEF bytes, V, n
  <2> QED
    BY <2>1
<1>5. PICK g \in [0 .. n -> V] : Leaps(g, 0, n, <<>>, leap, step)
  <2> HIDE DEF n, V, leap, step
  <2> QED
    BY <1>1, <1>3, <1>4, LeapsExist
<1>6. ASSUME NEW k \in 0 .. n
      PROVE  g[k] = IF k = n THEN <<>>
                    ELSE bytes(k) \o g[k + Utf8DecodeOne(Rest(e, k)).used]
  <2>1. g[k] = IF k = n THEN <<>> ELSE step[<<k, g[k + leap[k]]>>]
    BY <1>5 DEF Leaps
  <2>2. CASE k # n
    <3>1. k \in 0 .. n - 1
      BY <1>1, <2>2
    <3>2. leap[k] = Utf8DecodeOne(Rest(e, k)).used
      BY <3>1
    <3>3. k + leap[k] \in 0 .. n
      <4> HIDE DEF leap, n
      <4> QED
        BY <1>1, <1>3, <3>1
    <3>4. g[k + leap[k]] \in V
      <4> HIDE DEF leap, n, V
      <4> QED
        BY <3>3
    <3>5. step[<<k, g[k + leap[k]]>>] = bytes(k) \o g[k + leap[k]]
      <4>1. <<k, g[k + leap[k]]>> \in (0 .. n - 1) \X V
        BY <3>1, <3>4, Zenon
      <4> HIDE DEF leap, n, V, bytes
      <4> QED
        BY <4>1
    <3> HIDE DEF leap, n, V, bytes, step
    <3> QED
      BY <2>1, <2>2, <3>2, <3>5, Zenon
  <2>3. CASE k = n
    <3> HIDE DEF bytes, step, leap, V, n
    <3> QED
      BY <2>1, <2>3, Zenon
  <2> QED
    BY <2>2, <2>3
<1>7. g = [k \in 0 .. n |-> g[k]]
  OBVIOUS
<1>8. Decodes(e, g)
  BY <1>6, <1>7, Zenon DEF Decodes
<1> QED
  BY <1>8

LEMMA DecodeTokenIs ==
    ASSUME NEW e \in Seq(Byte)
    PROVE  \E g : Decodes(e, g) /\ DecodeToken(e) = g[0]
<1> DEFINE h == CHOOSE g : g =
              [k \in 0 .. Len(e) |->
                  IF k = Len(e) THEN <<>>
                  ELSE DecodedOne(Utf8DecodeOne(Rest(e, k)), Rest(e, k))
                          \o g[k + Utf8DecodeOne(Rest(e, k)).used]]
<1>1. Decodes(e, h)
  BY DecodesExists, Zenon DEF Decodes
<1>2. DecodeToken(e) = h[0]
  BY Zenon DEF DecodeToken, Rest
<1> QED
  BY <1>1, <1>2, Zenon

(* The bytes of a rest are those of the whole from there on.               *)
LEMMA DecodesRest ==
    ASSUME NEW e \in Seq(Byte), NEW g, Decodes(e, g),
           NEW d \in 0 .. Len(e), NEW h, Decodes(Rest(e, d), h)
    PROVE  h[0] = g[d] /\ h[0] \in Seq(Byte)
<1> DEFINE f == Rest(e, d)
           n == Len(f)
           T == {k \in 0 .. n : h[k] = g[d + k] /\ h[k] \in Seq(Byte)}
<1>1. f \in Seq(Byte) /\ n = Len(e) - d /\ n \in Nat
  BY RestType
<1>2. ASSUME NEW k \in 0 .. n
      PROVE  /\ h[k] = IF k = n THEN <<>>
                       ELSE DecodedOne(Utf8DecodeOne(Rest(f, k)), Rest(f, k))
                                \o h[k + Utf8DecodeOne(Rest(f, k)).used]
             /\ g[d + k] = IF k = n THEN <<>>
                       ELSE DecodedOne(Utf8DecodeOne(Rest(f, k)), Rest(f, k))
                                \o g[d + (k + Utf8DecodeOne(Rest(f, k)).used)]
  <2>1. h[k] = IF k = n THEN <<>>
               ELSE DecodedOne(Utf8DecodeOne(Rest(f, k)), Rest(f, k))
                        \o h[k + Utf8DecodeOne(Rest(f, k)).used]
    BY Zenon DEF Decodes
  <2> HIDE DEF f, n
  <2>2. d + k \in 0 .. Len(e) /\ (d + k = Len(e) <=> k = n) /\ k \in 0 .. Len(e) - d
    BY <1>1
  <2>3. Rest(f, k) = Rest(e, d + k)
    BY <2>2, RestOfRest DEF f
  <2>4. g[d + k] = IF d + k = Len(e) THEN <<>>
                   ELSE DecodedOne(Utf8DecodeOne(Rest(e, d + k)), Rest(e, d + k))
                            \o g[(d + k) + Utf8DecodeOne(Rest(e, d + k)).used]
    BY <2>2, Zenon DEF Decodes
  <2>5. CASE k = n
    BY <2>1, <2>2, <2>4, <2>5, Zenon
  <2>6. CASE k # n
    <3>1. Rest(f, k) \in Seq(Byte) /\ Rest(f, k) # <<>>
      <4>1. k \in 0 .. Len(f) /\ k < Len(f)
        BY <1>1, <2>6 DEF n
      <4> QED
        BY <1>1, <4>1, RestType, Zenon
    <3>2. Utf8DecodeOne(Rest(f, k)).used \in Nat
      BY <3>1, DecodeOneType
    <3>3. (d + k) + Utf8DecodeOne(Rest(f, k)).used = d + (k + Utf8DecodeOne(Rest(f, k)).used)
      BY <3>2
    <3> QED
      BY <2>1, <2>2, <2>3, <2>4, <2>6, <3>3, Zenon
  <2> QED
    BY <2>5, <2>6
<1>3. n \in T
  <2>1. n \in 0 .. n
    BY <1>1
  <2>2. h[n] = <<>> /\ g[d + n] = <<>>
    BY <1>2, <2>1, Zenon
  <2>3. <<>> \in Seq(Byte)
    OBVIOUS
  <2> HIDE DEF n
  <2> QED
    BY <2>1, <2>2, <2>3
<1>4. ASSUME NEW k \in 0 .. n - 1, \A m \in k + 1 .. n : m \in T
      PROVE  k \in T
  <2> DEFINE used == Utf8DecodeOne(Rest(f, k)).used
             bytes == DecodedOne(Utf8DecodeOne(Rest(f, k)), Rest(f, k))
  <2>1. Rest(f, k) \in Seq(Byte) /\ Rest(f, k) # <<>> /\ Len(Rest(f, k)) = n - k
    <3>1. k \in 0 .. Len(f) /\ k < Len(f)
      BY <1>1
    <3> QED
      BY <1>1, <3>1, RestType, Zenon
  <2>2. used \in 1 .. n - k /\ bytes \in Seq(Byte)
    BY <2>1, DecodeOneType, DecodedOneType
  <2>3. k \in 0 .. n /\ k # n
    BY <1>1
  <2>4. h[k] = bytes \o h[k + used] /\ g[d + k] = bytes \o g[d + (k + used)]
    BY <1>2, <2>3, Zenon
  <2> HIDE DEF used, bytes
  <2>5. k + used \in k + 1 .. n
    BY <1>1, <2>2
  <2>6. k + used \in T
    BY <1>4, <2>5
  <2>7. h[k + used] = g[d + (k + used)] /\ h[k + used] \in Seq(Byte)
    BY <2>6
  <2>8. bytes \o h[k + used] \in Seq(Byte)
    BY <2>2, <2>7
  <2> QED
    BY <2>3, <2>4, <2>7, <2>8, Zenon
<1>5. T = 0 .. n
  <2> HIDE DEF T
  <2>1. T \in SUBSET (0 .. n)
    BY DEF T
  <2> QED
    BY <1>1, <1>3, <1>4, <2>1, Downward
<1>6. 0 \in T
  BY <1>1, <1>5
<1>7. d + 0 = d
  OBVIOUS
<1> QED
  BY <1>6, <1>7

LEMMA DecodeEmpty == DecodeToken(<<>>) = <<>>
<1> DEFINE e == <<>>
<1>1. e \in Seq(Byte) /\ Len(e) = 0
  OBVIOUS
<1>2. PICK g : Decodes(e, g) /\ DecodeToken(e) = g[0]
  BY <1>1, DecodeTokenIs, Zenon
<1>3. g[0] = <<>>
  <2> HIDE DEF e
  <2>1. 0 \in 0 .. Len(e)
    BY <1>1
  <2> QED
    BY <1>1, <1>2, <2>1, Zenon DEF Decodes
<1> QED
  BY <1>2, <1>3

LEMMA DecodeType ==
    ASSUME NEW e \in Seq(Byte)
    PROVE  DecodeToken(e) \in Seq(Byte)
<1>1. PICK g : Decodes(e, g) /\ DecodeToken(e) = g[0]
  BY DecodeTokenIs, Zenon
<1>2. Rest(e, 0) = e /\ 0 \in 0 .. Len(e)
  BY DEF Rest
<1>3. g[0] \in Seq(Byte)
  BY <1>1, <1>2, DecodesRest
<1> QED
  BY <1>1, <1>3

(* Decoding takes one character after the other.                           *)
LEMMA DecodeStep ==
    ASSUME NEW e \in Seq(Byte), e # <<>>
    PROVE  DecodeToken(e) = DecodedOne(Utf8DecodeOne(e), e)
                               \o DecodeToken(Rest(e, Utf8DecodeOne(e).used))
<1> DEFINE used == Utf8DecodeOne(e).used
<1>1. PICK g : Decodes(e, g) /\ DecodeToken(e) = g[0]
  BY DecodeTokenIs, Zenon
<1>2. Rest(e, 0) = e /\ 0 \in 0 .. Len(e) /\ 0 # Len(e)
  BY DEF Rest
<1>3. used \in 1 .. Len(e)
  BY DecodeOneType
<1>4. g[0] = DecodedOne(Utf8DecodeOne(e), e) \o g[0 + used]
  BY <1>1, <1>2, Zenon DEF Decodes
<1> HIDE DEF used
<1>5. used \in 0 .. Len(e) /\ 0 + used = used
  BY <1>3
<1>6. Rest(e, used) \in Seq(Byte)
  BY <1>5, RestType
<1>7. PICK h : Decodes(Rest(e, used), h) /\ DecodeToken(Rest(e, used)) = h[0]
  BY <1>6, DecodeTokenIs, Zenon
<1>8. h[0] = g[used]
  BY <1>1, <1>5, <1>7, DecodesRest
<1> QED
  BY <1>1, <1>4, <1>5, <1>7, <1>8, Zenon DEF used
----------------------------------------------------------------------------
(***************************************************************************)
(* The byte alphabet.                                                      *)
(***************************************************************************)
Shifted(byte) == {b \in 0 .. byte - 1 : b \notin Direct}

LEMMA ShiftedCount ==
    ASSUME NEW byte \in Byte
    PROVE  IsFiniteSet(Shifted(byte)) /\ Cardinality(Shifted(byte)) \in 0 .. 255
<1>1. byte \in 0 .. 255 /\ byte - 1 \in Int /\ 0 \in Int
  BY DEF Byte
<1>2. IsFiniteSet(0 .. byte - 1) /\ Cardinality(0 .. byte - 1) = byte
  <2>1. /\ IsFiniteSet(0 .. byte - 1)
        /\ Cardinality(0 .. byte - 1) = IF 0 > byte - 1 THEN 0 ELSE (byte - 1) - 0 + 1
    BY <1>1, FS_Interval, Zenon
  <2> QED
    BY <1>1, <2>1
<1>3. Shifted(byte) \subseteq 0 .. byte - 1
  BY DEF Shifted
<1>4. /\ IsFiniteSet(Shifted(byte))
      /\ Cardinality(Shifted(byte)) <= Cardinality(0 .. byte - 1)
  BY <1>2, <1>3, FS_Subset, Zenon
<1>5. Cardinality(Shifted(byte)) \in Nat
  BY <1>4, FS_CardinalityType, Zenon
<1> DEFINE many == Cardinality(Shifted(byte))
<1>6. many \in Nat /\ many <= byte
  BY <1>2, <1>4, <1>5
<1> HIDE DEF many
<1>7. many \in 0 .. 255
  BY <1>1, <1>6
<1> QED
  BY <1>4, <1>7 DEF many

LEMMA ShiftedGrows ==
    ASSUME NEW a \in Byte, NEW b \in Byte, a < b, a \notin Direct
    PROVE  Cardinality(Shifted(a)) < Cardinality(Shifted(b))
<1>1. a \in 0 .. 255 /\ b \in 0 .. 255
  BY DEF Byte
<1>2. a \notin Shifted(a) /\ Shifted(a) \cup {a} \subseteq Shifted(b)
  BY <1>1 DEF Shifted
<1>3. /\ IsFiniteSet(Shifted(a)) /\ Cardinality(Shifted(a)) \in 0 .. 255
      /\ IsFiniteSet(Shifted(b)) /\ Cardinality(Shifted(b)) \in 0 .. 255
  BY ShiftedCount, Zenon
<1>4. Cardinality(Shifted(a) \cup {a}) = Cardinality(Shifted(a)) + 1
  BY <1>2, <1>3, FS_AddElement, Zenon
<1>5. Cardinality(Shifted(a) \cup {a}) <= Cardinality(Shifted(b))
  BY <1>2, <1>3, FS_Subset, Zenon
<1> QED
  BY <1>3, <1>4, <1>5, SMTT(30)

LEMMA CodepointIs ==
    ASSUME NEW b \in Byte
    PROVE  codepoint_for_byte[b] = IF b \in Direct THEN b ELSE 256 + Cardinality(Shifted(b))
BY Zenon DEF codepoint_for_byte, Shifted

LEMMA CodepointRange ==
    ASSUME NEW b \in Byte
    PROVE  codepoint_for_byte[b] \in 0 .. 511 /\ (b \in Direct <=> codepoint_for_byte[b] < 256)
<1>1. b \in 0 .. 255
  BY DEF Byte
<1>2. Cardinality(Shifted(b)) \in 0 .. 255
  BY ShiftedCount
<1>3. CASE b \in Direct
  BY <1>1, <1>3, CodepointIs
<1>4. CASE b \notin Direct
  <2>1. codepoint_for_byte[b] = 256 + Cardinality(Shifted(b))
    BY <1>4, CodepointIs
  <2> QED
    BY <1>2, <1>4, <2>1
<1> QED
  BY <1>3, <1>4

(* No two bytes have the same codepoint.                                   *)
LEMMA CodepointInjective ==
    ASSUME NEW a \in Byte, NEW b \in Byte, codepoint_for_byte[a] = codepoint_for_byte[b]
    PROVE  a = b
<1>1. a \in 0 .. 255 /\ b \in 0 .. 255
  BY DEF Byte
<1>2. a \in Direct <=> b \in Direct
  BY CodepointRange
<1>3. CASE a \in Direct
  BY <1>2, <1>3, CodepointIs
<1>4. CASE a \notin Direct
  <2>1. Cardinality(Shifted(a)) = Cardinality(Shifted(b))
    <3>1. Cardinality(Shifted(a)) \in 0 .. 255 /\ Cardinality(Shifted(b)) \in 0 .. 255
      BY ShiftedCount
    <3>2. 256 + Cardinality(Shifted(a)) = 256 + Cardinality(Shifted(b))
      BY <1>2, <1>4, CodepointIs
    <3> QED
      BY <3>1, <3>2, SMTT(30)
  <2>2. Cardinality(Shifted(a)) \in Int
    BY ShiftedCount
  <2>3. ~(a < b)
    <3>1. ASSUME a < b PROVE FALSE
      <4>1. Cardinality(Shifted(a)) < Cardinality(Shifted(b))
        BY <1>4, <3>1, ShiftedGrows
      <4> QED
        BY <2>1, <2>2, <4>1
    <3> QED
      BY <3>1
  <2>4. ~(b < a)
    <3>1. ASSUME b < a PROVE FALSE
      <4>1. Cardinality(Shifted(b)) < Cardinality(Shifted(a))
        BY <1>2, <1>4, <3>1, ShiftedGrows
      <4> QED
        BY <2>1, <2>2, <4>1
    <3> QED
      BY <3>1
  <2> QED
    BY <1>1, <2>3, <2>4
<1> QED
  BY <1>3, <1>4

LEMMA ByteForCp ==
    ASSUME NEW b \in Byte
    PROVE  byte_for_cp[codepoint_for_byte[b]] = b
<1> DEFINE cp == codepoint_for_byte[b]
           p == CHOOSE byte \in Byte : codepoint_for_byte[byte] = cp
<1>1. p \in Byte /\ codepoint_for_byte[p] = cp
  OBVIOUS
<1>2. p = b
  <2> HIDE DEF p
  <2> QED
    BY <1>1, CodepointInjective
<1>3. ByteForCodepoint(cp) = p
  BY Zenon DEF ByteForCodepoint
<1>4. cp \in 0 .. 511
  BY CodepointRange
<1>5. byte_for_cp[cp] = ByteForCodepoint(cp)
  <2> HIDE DEF cp
  <2> QED
    BY <1>4 DEF byte_for_cp
<1> QED
  BY <1>2, <1>3, <1>5, Zenon

(* Two bytes hold the codepoints of the alphabet.                          *)
LEMMA TwoBytes ==
    ASSUME NEW c \in 128 .. 511
    PROVE  /\ 192 + c \div 64 \in 192 .. 223 /\ 128 + (c % 64) \in 128 .. 191
           /\ Codepoint2(192 + c \div 64, 128 + (c % 64)) = c
<1> DEFINE q == c \div 64
           r == c % 64
<1>1. q \in 2 .. 7 /\ r \in 0 .. 63 /\ c = q * 64 + r
  OBVIOUS
<1> HIDE DEF q, r
<1>2. (192 + q) % 32 = q /\ (128 + r) % 64 = r
  <2>1. q = 2 \/ q = 3 \/ q = 4 \/ q = 5 \/ q = 6 \/ q = 7
    BY <1>1
  <2> QED
    BY <1>1, <2>1
<1>3. Codepoint2(192 + q, 128 + r) = q * 64 + r
  BY <1>2 DEF Codepoint2
<1>4. 192 + q \in 192 .. 223 /\ 128 + r \in 128 .. 191
  BY <1>1
<1> QED
  BY <1>1, <1>3, <1>4 DEF q, r

LEMMA EncodeType ==
    ASSUME NEW c \in 0 .. 511
    PROVE  Utf8Encode(c) \in Seq(Byte) /\ Utf8Encode(c) # <<>>
<1>1. CASE c < 128
  <2>1. Utf8Encode(c) = <<c>> /\ c \in Byte
    BY <1>1 DEF Utf8Encode, Byte
  <2> QED
    BY <2>1
<1>2. CASE c >= 128
  <2>1. Utf8Encode(c) = <<192 + c \div 64, 128 + (c % 64)>>
    BY <1>2 DEF Utf8Encode, Continuation
  <2>2. 192 + c \div 64 \in Byte /\ 128 + (c % 64) \in Byte
    BY <1>2, TwoBytes DEF Byte
  <2> QED
    BY <2>1, <2>2
<1> QED
  BY <1>1, <1>2

LEMMA EncodeThenDecode ==
    ASSUME NEW c \in 0 .. 511, NEW t \in Seq(Byte)
    PROVE  Utf8DecodeOne(Utf8Encode(c) \o t) = [cp |-> c, used |-> Len(Utf8Encode(c))]
<1> DEFINE data == Utf8Encode(c) \o t
<1>1. CASE c < 128
  <2>1. Utf8Encode(c) = <<c>>
    BY <1>1 DEF Utf8Encode
  <2>2. data[1] = c /\ Len(<<c>>) = 1
    BY <2>1
  <2>3. Announced(c) = 1
    BY <1>1 DEF Announced
  <2> HIDE DEF data
  <2>4. Utf8DecodeOne(data) = [cp |-> c, used |-> 1]
    BY <2>2, <2>3 DEF Utf8DecodeOne
  <2> QED
    BY <2>1, <2>2, <2>4 DEF data
<1>2. CASE c >= 128
  <2> DEFINE x == 192 + c \div 64
             y == 128 + (c % 64)
  <2>1. Utf8Encode(c) = <<x, y>>
    BY <1>2 DEF Utf8Encode, Continuation
  <2>2. x \in 192 .. 223 /\ y \in 128 .. 191 /\ Codepoint2(x, y) = c
    <3>1. c \in 128 .. 511
      BY <1>2
    <3> QED
      BY <3>1, TwoBytes, Zenon
  <2> HIDE DEF x, y
  <2>3. data[1] = x /\ data[2] = y /\ Len(data) >= 2 /\ Len(<<x, y>>) = 2
    BY <2>1, <2>2
  <2>4. Announced(x) = 2
    BY <2>2 DEF Announced
  <2> HIDE DEF data
  <2>5. Continues(data, 2)
    <3>1. ASSUME NEW i \in 2 .. 2 PROVE data[i] \in 128 .. 191
      <4>1. i = 2
        OBVIOUS
      <4> QED
        BY <2>2, <2>3, <4>1, Zenon
    <3> QED
      BY <2>3, <3>1 DEF Continues
  <2>6. Utf8DecodeOne(data) = [cp |-> Codepoint2(x, y), used |-> 2]
    BY <2>3, <2>4, <2>5, SMT DEF Utf8DecodeOne
  <2> QED
    BY <2>1, <2>2, <2>3, <2>6 DEF data
<1> QED
  BY <1>1, <1>2

(***************************************************************************)
(* A spelling is whole when decoding it does not depend on what follows.   *)
(***************************************************************************)
Whole ==
    {e \in Seq(Byte) :
        \A t \in Seq(Byte) : DecodeToken(e \o t) = DecodeToken(e) \o DecodeToken(t)}

LEMMA WholeConcat ==
    ASSUME NEW e \in Whole, NEW f \in Whole
    PROVE  e \o f \in Whole /\ DecodeToken(e \o f) = DecodeToken(e) \o DecodeToken(f)
<1>1. e \in Seq(Byte) /\ f \in Seq(Byte)
  BY DEF Whole
<1>2. e \o f \in Seq(Byte)
  BY <1>1
<1>3. DecodeToken(e \o f) = DecodeToken(e) \o DecodeToken(f)
  BY <1>1 DEF Whole
<1>4. ASSUME NEW t \in Seq(Byte)
      PROVE  DecodeToken((e \o f) \o t) = DecodeToken(e \o f) \o DecodeToken(t)
  <2>1. (e \o f) \o t = e \o (f \o t) /\ f \o t \in Seq(Byte)
    BY <1>1, ConcatAssociative
  <2>2. DecodeToken(e \o (f \o t)) = DecodeToken(e) \o DecodeToken(f \o t)
    BY <2>1 DEF Whole
  <2>3. DecodeToken(f \o t) = DecodeToken(f) \o DecodeToken(t)
    BY DEF Whole
  <2>4. /\ DecodeToken(e) \in Seq(Byte) /\ DecodeToken(f) \in Seq(Byte)
        /\ DecodeToken(t) \in Seq(Byte)
    BY <1>1, DecodeType
  <2>5. (DecodeToken(e) \o DecodeToken(f)) \o DecodeToken(t)
            = DecodeToken(e) \o (DecodeToken(f) \o DecodeToken(t))
    BY <2>4, ConcatAssociative
  <2> QED
    BY <1>3, <2>1, <2>2, <2>3, <2>5
<1> QED
  BY <1>2, <1>3, <1>4 DEF Whole

(* Every byte has a spelling of its own that is whole and means the byte.  *)
LEMMA SpelledByte ==
    ASSUME NEW b \in Byte
    PROVE  /\ Utf8Encode(codepoint_for_byte[b]) \in Whole
           /\ DecodeToken(Utf8Encode(codepoint_for_byte[b])) = <<b>>
<1> DEFINE c == codepoint_for_byte[b]
           e == Utf8Encode(c)
<1>1. c \in 0 .. 511 /\ byte_for_cp[c] = b /\ b >= 0
  <2>1. c \in 0 .. 511 /\ byte_for_cp[c] = b
    BY CodepointRange, ByteForCp, Zenon
  <2>2. b >= 0
    BY DEF Byte
  <2> QED
    BY <2>1, <2>2
<1>2. e \in Seq(Byte) /\ e # <<>>
  BY <1>1, EncodeType
<1>3. ASSUME NEW t \in Seq(Byte)
      PROVE  DecodeToken(e \o t) = <<b>> \o DecodeToken(t)
  <2>1. e \o t \in Seq(Byte) /\ e \o t # <<>>
    BY <1>2
  <2>2. Utf8DecodeOne(e \o t) = [cp |-> c, used |-> Len(e)]
    BY <1>1, EncodeThenDecode
  <2>3. Rest(e \o t, Len(e)) = t
    BY <1>2, RestOfConcat
  <2>4. DecodeToken(e \o t) = DecodedOne(Utf8DecodeOne(e \o t), e \o t)
                                 \o DecodeToken(Rest(e \o t, Utf8DecodeOne(e \o t).used))
    BY <2>1, DecodeStep
  <2> HIDE DEF c, e
  <2>5. DecodedOne([cp |-> c, used |-> Len(e)], e \o t) = <<b>>
    <3>1. c < 512 /\ byte_for_cp[c] >= 0
      BY <1>1
    <3> QED
      BY <1>1, <3>1 DEF DecodedOne
  <2>6. Utf8DecodeOne(e \o t).used = Len(e)
    BY <2>2
  <2>7. DecodedOne(Utf8DecodeOne(e \o t), e \o t) = <<b>>
    BY <2>2, <2>5, Zenon
  <2> QED
    BY <2>3, <2>4, <2>6, <2>7, Zenon
<1>4. DecodeToken(e) = <<b>>
  <2>1. <<>> \in Seq(Byte) /\ e \o <<>> = e
    BY <1>2
  <2>2. DecodeToken(e \o <<>>) = <<b>> \o DecodeToken(<<>>)
    BY <1>3, <2>1, Zenon
  <2>3. <<b>> \o <<>> = <<b>>
    OBVIOUS
  <2> HIDE DEF e
  <2> QED
    BY <2>1, <2>2, <2>3, DecodeEmpty
<1>5. e \in Whole
  <2> HIDE DEF e
  <2> QED
    BY <1>2, <1>3, <1>4 DEF Whole
<1> QED
  BY <1>4, <1>5

----------------------------------------------------------------------------
(***************************************************************************)
(* What symbols and tokens show.                                           *)
(***************************************************************************)
Decoded(s) == [k \in DOMAIN s |-> DecodeToken(s[k])]

LEMMA DecodedType ==
    ASSUME NEW s \in Seq(Whole)
    PROVE  Decoded(s) \in Seq(Seq(Byte)) /\ Shown(s) \in Seq(Byte)
<1>1. ASSUME NEW k \in 1 .. Len(s) PROVE DecodeToken(s[k]) \in Seq(Byte)
  <2>1. s[k] \in Seq(Byte)
    <3>1. s[k] \in Whole
      OBVIOUS
    <3> QED
      BY <3>1 DEF Whole
  <2> QED
    BY <2>1, DecodeType
<1>2. Decoded(s) = [k \in 1 .. Len(s) |-> DecodeToken(s[k])] /\ Len(s) \in Nat
  BY DEF Decoded
<1>3. Decoded(s) \in Seq(Seq(Byte))
  BY <1>1, <1>2
<1> QED
  BY <1>3, FlattenType DEF Shown, Decoded

LEMMA ShownEmpty == Shown(<<>>) = <<>>
<1>1. [k \in DOMAIN <<>> |-> DecodeToken(<<>>[k])] = <<>>
  OBVIOUS
<1> QED
  BY <1>1, FlattenEmpty DEF Shown

LEMMA ShownConcat ==
    ASSUME NEW s \in Seq(Whole), NEW t \in Seq(Whole)
    PROVE  s \o t \in Seq(Whole) /\ Shown(s \o t) = Shown(s) \o Shown(t)
<1>1. s \o t \in Seq(Whole) /\ Len(s \o t) = Len(s) + Len(t)
  OBVIOUS
<1>2. /\ Decoded(s) \in Seq(Seq(Byte)) /\ Decoded(t) \in Seq(Seq(Byte))
      /\ Decoded(s \o t) \in Seq(Seq(Byte))
  BY <1>1, DecodedType
<1>3. /\ Len(Decoded(s)) = Len(s) /\ Len(Decoded(t)) = Len(t)
      /\ Len(Decoded(s \o t)) = Len(s) + Len(t)
  <2>1. ASSUME NEW u \in Seq(Whole) PROVE Len(Decoded(u)) = Len(u)
    <3>1. Decoded(u) = [k \in 1 .. Len(u) |-> DecodeToken(u[k])] /\ Len(u) \in Nat
      BY DEF Decoded
    <3> QED
      BY <3>1
  <2> QED
    BY <1>1, <2>1
<1>4. Decoded(s \o t) = Decoded(s) \o Decoded(t)
  <2> DEFINE x == Decoded(s \o t)
             y == Decoded(s) \o Decoded(t)
  <2>1. y \in Seq(Seq(Byte)) /\ Len(x) = Len(y) /\ Len(x) = Len(s) + Len(t)
    <3>1. /\ y \in Seq(Seq(Byte))
          /\ Len(y) = Len(Decoded(s)) + Len(Decoded(t))
      BY <1>2, ConcatProperties
    <3> HIDE DEF y
    <3> QED
      BY <1>3, <3>1
  <2>2. ASSUME NEW k \in 1 .. Len(s) + Len(t) PROVE x[k] = y[k]
    <3>1. x[k] = DecodeToken((s \o t)[k])
      BY <1>1 DEF Decoded
    <3>2. CASE k <= Len(s)
      <4>1. (s \o t)[k] = s[k] /\ y[k] = Decoded(s)[k] /\ k \in DOMAIN s
        BY <1>2, <1>3, <3>2
      <4> QED
        BY <3>1, <4>1 DEF Decoded
    <3>3. CASE k > Len(s)
      <4>1. /\ (s \o t)[k] = t[k - Len(s)] /\ y[k] = Decoded(t)[k - Len(s)]
            /\ k - Len(s) \in DOMAIN t
        BY <1>2, <1>3, <3>3
      <4> QED
        BY <3>1, <4>1 DEF Decoded
    <3>4. k <= Len(s) \/ k > Len(s)
      OBVIOUS
    <3> HIDE DEF x, y
    <3> QED
      BY <3>2, <3>3, <3>4
  <2> HIDE DEF x, y
  <2>3. x = y
    BY <1>2, <2>1, <2>2, SeqEqual DEF x
  <2> QED
    BY <2>3 DEF x, y
<1> QED
  BY <1>1, <1>2, <1>4, FlattenConcat DEF Shown, Decoded

LEMMA ShownOne ==
    ASSUME NEW e \in Whole
    PROVE  <<e>> \in Seq(Whole) /\ Shown(<<e>>) = DecodeToken(e)
<1>1. e \in Seq(Byte)
  BY DEF Whole
<1>2. DecodeToken(e) \in Seq(Byte)
  BY <1>1, DecodeType
<1>3. [k \in DOMAIN <<e>> |-> DecodeToken(<<e>>[k])] = <<DecodeToken(e)>>
  OBVIOUS
<1> QED
  BY <1>2, <1>3, FlattenOne DEF Shown

LEMMA SpelledShows ==
    ASSUME NEW bytes \in Seq(Byte)
    PROVE  Spelled(bytes) \in Seq(Whole) /\ Shown(Spelled(bytes)) = bytes
<1> DEFINE s == Spelled(bytes)
<1>1. ASSUME NEW k \in 1 .. Len(bytes)
      PROVE  /\ Utf8Encode(codepoint_for_byte[bytes[k]]) \in Whole
             /\ DecodeToken(Utf8Encode(codepoint_for_byte[bytes[k]])) = <<bytes[k]>>
  <2>1. bytes[k] \in Byte
    OBVIOUS
  <2> QED
    BY <2>1, SpelledByte
<1>2. s = [k \in 1 .. Len(bytes) |-> Utf8Encode(codepoint_for_byte[bytes[k]])]
  BY DEF Spelled
<1>3. Len(bytes) \in Nat /\ DOMAIN bytes = 1 .. Len(bytes)
  OBVIOUS
<1> HIDE DEF s
<1>4. s \in Seq(Whole)
  BY <1>1, <1>2, <1>3
<1>5. [k \in DOMAIN s |-> DecodeToken(s[k])] = [k \in DOMAIN bytes |-> <<bytes[k]>>]
  BY <1>1, <1>2, <1>3
<1> QED
  BY <1>4, <1>5, FlattenSingletons DEF Shown, s

LEMMA RestFirst ==
    ASSUME NEW S, NEW e \in Seq(S), NEW k \in 0 .. Len(e) - 1
    PROVE  Rest(e, k) = <<e[k + 1]>> \o Rest(e, k + 1)
<1>1. k + 1 \in 1 .. Len(e) /\ Len(e) \in k + 1 .. Len(e)
  OBVIOUS
<1> QED
  BY <1>1, SubSeqRecursiveFirst DEF Rest

LEMMA RestLast ==
    ASSUME NEW S, NEW e \in Seq(S)
    PROVE  Rest(e, Len(e)) = <<>>
BY SubSeqEmpty DEF Rest

LEMMA RestWhole ==
    ASSUME NEW S, NEW e \in Seq(S)
    PROVE  Rest(e, 0) = e
BY DEF Rest

(* A symbol is shown before the rest of the symbols.                       *)
LEMMA ShownFirst ==
    ASSUME NEW s \in Seq(Whole), NEW k \in 0 .. Len(s) - 1
    PROVE  /\ s[k + 1] \in Whole
           /\ Rest(s, k + 1) \in Seq(Whole)
           /\ Shown(Rest(s, k)) = DecodeToken(s[k + 1]) \o Shown(Rest(s, k + 1))
<1>1. s[k + 1] \in Whole /\ k + 1 \in 0 .. Len(s)
  OBVIOUS
<1>2. Rest(s, k + 1) \in Seq(Whole)
  BY <1>1, RestType
<1>3. Rest(s, k) = <<s[k + 1]>> \o Rest(s, k + 1)
  BY RestFirst
<1>4. <<s[k + 1]>> \in Seq(Whole) /\ Shown(<<s[k + 1]>>) = DecodeToken(s[k + 1])
  BY <1>1, ShownOne
<1> QED
  BY <1>1, <1>2, <1>3, <1>4, ShownConcat

(***************************************************************************)
(* One pass of merging.                                                    *)
(***************************************************************************)
Merges(s, rank, h) ==
    h = [i \in 1 .. Len(s) + 2 |->
            IF i > Len(s) THEN <<>>
            ELSE IF CanMerge(s, i, rank)
            THEN <<s[i] \o s[i + 1]>> \o h[i + 2]
            ELSE <<s[i]>> \o h[i + 1]]

LEMMA CanMergeInside ==
    ASSUME NEW s, NEW i, NEW rank, CanMerge(s, i, rank)
    PROVE  i \in 1 .. Len(s) - 1
BY DEF CanMerge, Places

LEMMA MergesExists ==
    ASSUME NEW s \in Seq(Whole), NEW rank
    PROVE  \E h : Merges(s, rank, h)
<1> DEFINE n == Len(s)
           V == Seq(Whole)
           leap == [k \in 0 .. n - 1 |-> IF CanMerge(s, k + 1, rank) THEN 2 ELSE 1]
           part(k) == IF CanMerge(s, k + 1, rank) THEN <<s[k + 1] \o s[k + 2]>> ELSE <<s[k + 1]>>
           step == [p \in (0 .. n - 1) \X V |-> part(p[1]) \o p[2]]
<1>1. n \in Nat /\ <<>> \in V
  OBVIOUS
<1>2. leap \in [0 .. n - 1 -> Nat] /\ \A k \in 0 .. n - 1 : leap[k] > 0 /\ k + leap[k] <= n
  <2>1. ASSUME NEW k \in 0 .. n - 1
        PROVE  (IF CanMerge(s, k + 1, rank) THEN 2 ELSE 1) \in 1 .. n - k
    <3>1. CASE CanMerge(s, k + 1, rank)
      <4>1. k + 1 \in 1 .. n - 1
        BY <3>1, CanMergeInside
      <4> QED
        BY <1>1, <3>1, <4>1
    <3>2. CASE ~CanMerge(s, k + 1, rank)
      BY <1>1, <3>2
    <3> QED
      BY <3>1, <3>2
  <2>2. ASSUME NEW k \in 0 .. n - 1 PROVE leap[k] \in 1 .. n - k
    BY <2>1
  <2> HIDE DEF n
  <2>3. leap \in [0 .. n - 1 -> Nat]
    BY <1>1, <2>1
  <2> HIDE DEF leap
  <2> QED
    BY <1>1, <2>2, <2>3
<1>3. ASSUME NEW k \in 0 .. n - 1 PROVE part(k) \in V
  <2>1. s[k + 1] \in Whole
    BY <1>1
  <2>2. CASE CanMerge(s, k + 1, rank)
    <3>1. k + 1 \in 1 .. n - 1
      BY <2>2, CanMergeInside
    <3>2. s[k + 2] \in Whole
      BY <1>1, <3>1
    <3>3. s[k + 1] \o s[k + 2] \in Whole
      BY <2>1, <3>2, WholeConcat
    <3> QED
      BY <2>2, <3>3
  <2>3. CASE ~CanMerge(s, k + 1, rank)
    BY <2>1, <2>3
  <2> QED
    BY <2>2, <2>3
<1>4. step \in [(0 .. n - 1) \X V -> V]
  <2>1. ASSUME NEW p \in (0 .. n - 1) \X V PROVE part(p[1]) \o p[2] \in V
    <3>1. part(p[1]) \in V /\ p[2] \in V
      BY <1>3
    <3> HIDE DEF part
    <3> QED
      BY <3>1
  <2> HIDE DEF part, V, n
  <2> QED
    BY <2>1
<1>5. PICK g \in [0 .. n -> V] : Leaps(g, 0, n, <<>>, leap, step)
  <2> HIDE DEF n, V, leap, step
  <2> QED
    BY <1>1, <1>2, <1>4, LeapsExist
<1> DEFINE h == [i \in 1 .. n + 2 |-> IF i > n THEN <<>> ELSE g[i - 1]]
<1>6. ASSUME NEW i \in 1 .. n + 2
      PROVE  h[i] = IF i > n THEN <<>>
                    ELSE IF CanMerge(s, i, rank)
                    THEN <<s[i] \o s[i + 1]>> \o h[i + 2]
                    ELSE <<s[i]>> \o h[i + 1]
  <2>1. CASE i > n
    BY <2>1
  <2>2. CASE ~(i > n)
    <3> DEFINE k == i - 1
    <3>1. k \in 0 .. n - 1 /\ k + 1 = i /\ k + 2 = i + 1 /\ k \in 0 .. n /\ k # n
      BY <1>1, <2>2
    <3>2. h[i] = g[k]
      BY <2>2
    <3>3. g[k] = step[<<k, g[k + leap[k]]>>]
      <4> HIDE DEF leap, step, k, n
      <4> QED
        BY <1>5, <3>1, Zenon DEF Leaps
    <3>4. leap[k] = IF CanMerge(s, i, rank) THEN 2 ELSE 1
      <4> HIDE DEF k
      <4> QED
        BY <3>1
    <3>5. k + leap[k] \in 0 .. n
      <4> HIDE DEF k, leap, n
      <4> QED
        BY <1>1, <1>2, <3>1
    <3>6. g[k + leap[k]] \in V
      <4> HIDE DEF k, leap, n, V
      <4> QED
        BY <3>5
    <3>7. step[<<k, g[k + leap[k]]>>] = part(k) \o g[k + leap[k]]
      <4>1. <<k, g[k + leap[k]]>> \in (0 .. n - 1) \X V
        BY <3>1, <3>6, Zenon
      <4> HIDE DEF k, leap, n, V, part
      <4> QED
        BY <4>1
    <3>8. h[i + leap[k]] = g[k + leap[k]]
      <4>1. i + leap[k] \in 1 .. n + 2 /\ (i + leap[k]) - 1 = k + leap[k]
        <5>1. leap[k] \in 0 .. n
          <6> HIDE DEF leap, n, k
          <6> QED
            BY <1>1, <1>2, <3>1, <3>5
        <5> HIDE DEF leap
        <5> QED
          BY <1>1, <3>5, <5>1
      <4>2. CASE i + leap[k] > n
        <5>1. k + leap[k] = n
          <6> HIDE DEF leap
          <6> QED
            BY <1>1, <3>5, <4>1, <4>2
        <5>2. g[n] = <<>>
          <6>1. n \in 0 .. n
            BY <1>1
          <6> HIDE DEF leap, step, n
          <6> QED
            BY <1>5, <6>1, Zenon DEF Leaps
        <5>3. h[i + leap[k]] = <<>>
          <6> HIDE DEF leap
          <6> QED
            BY <4>1, <4>2
        <5> HIDE DEF h, leap, n
        <5> QED
          BY <5>1, <5>2, <5>3
      <4>3. CASE ~(i + leap[k] > n)
        <5> HIDE DEF leap, k
        <5> QED
          BY <4>1, <4>3
      <4> QED
        BY <4>2, <4>3
    <3>9. part(k) = IF CanMerge(s, i, rank) THEN <<s[i] \o s[i + 1]>> ELSE <<s[i]>>
      <4> HIDE DEF k
      <4> QED
        BY <3>1
    <3> HIDE DEF h, part, leap, step, k, n
    <3>10. h[i] = part(k) \o h[i + leap[k]]
      BY <3>2, <3>3, <3>7, <3>8, Zenon
    <3> QED
      BY <2>2, <3>4, <3>9, <3>10, Zenon
  <2> QED
    BY <2>1, <2>2
<1>7. h = [i \in 1 .. n + 2 |-> h[i]]
  OBVIOUS
<1>8. Merges(s, rank, h)
  <2> HIDE DEF h
  <2> QED
    BY <1>6, <1>7, Zenon DEF Merges
<1> HIDE DEF h
<1> QED
  BY <1>8

(* Merging changes neither what the symbols show nor that they are whole.  *)
LEMMA MergedShows ==
    ASSUME NEW s \in Seq(Whole), NEW rank
    PROVE  Merged(s, rank) \in Seq(Whole) /\ Shown(Merged(s, rank)) = Shown(s)
<1> DEFINE h == CHOOSE f : f =
              [i \in 1 .. Len(s) + 2 |->
                  IF i > Len(s) THEN <<>>
                  ELSE IF CanMerge(s, i, rank)
                  THEN <<s[i] \o s[i + 1]>> \o f[i + 2]
                  ELSE <<s[i]>> \o f[i + 1]]
           n == Len(s)
           T == {k \in 0 .. n : h[k + 1] \in Seq(Whole) /\ Shown(h[k + 1]) = Shown(Rest(s, k))}
<1>1. Merges(s, rank, h)
  BY MergesExists, ZenonT(40) DEF Merges
<1>2. Merged(s, rank) = h[1]
  BY Zenon DEF Merged
<1>3. n \in Nat
  OBVIOUS
<1> HIDE DEF h
<1>4. ASSUME NEW i \in 1 .. n + 2
      PROVE  h[i] = IF i > n THEN <<>>
                    ELSE IF CanMerge(s, i, rank)
                    THEN <<s[i] \o s[i + 1]>> \o h[i + 2]
                    ELSE <<s[i]>> \o h[i + 1]
  BY <1>1, Zenon DEF Merges
<1>5. n \in T
  <2>1. n + 1 \in 1 .. n + 2 /\ n + 1 > n /\ n \in 0 .. n
    BY <1>3
  <2>2. h[n + 1] = <<>>
    BY <1>4, <2>1, Zenon
  <2>3. Rest(s, n) = <<>> /\ <<>> \in Seq(Whole)
    BY RestLast
  <2> HIDE DEF n
  <2> QED
    BY <2>1, <2>2, <2>3
<1>6. ASSUME NEW k \in 0 .. n - 1, \A m \in k + 1 .. n : m \in T
      PROVE  k \in T
  <2>1. k + 1 \in 1 .. n + 2 /\ ~(k + 1 > n) /\ k \in 0 .. n /\ k + 1 \in k + 1 .. n
    BY <1>3
  <2>2. s[k + 1] \in Whole /\ Shown(Rest(s, k)) = DecodeToken(s[k + 1]) \o Shown(Rest(s, k + 1))
    BY ShownFirst
  <2>3. CASE CanMerge(s, k + 1, rank)
    <3>1. k + 1 \in 1 .. n - 1
      BY <2>3, CanMergeInside
    <3>2. k + 1 \in 0 .. n - 1 /\ k + 2 \in k + 1 .. n /\ (k + 1) + 1 = k + 2 /\ (k + 1) + 2 = (k + 2) + 1
      BY <1>3, <3>1
    <3>3. /\ s[k + 2] \in Whole
          /\ Shown(Rest(s, k + 1)) = DecodeToken(s[k + 2]) \o Shown(Rest(s, k + 2))
      BY <3>2, ShownFirst
    <3>4. k + 2 \in T
      BY <1>6, <3>2
    <3>5. h[(k + 2) + 1] \in Seq(Whole) /\ Shown(h[(k + 2) + 1]) = Shown(Rest(s, k + 2))
      BY <3>4
    <3>6. h[k + 1] = <<s[k + 1] \o s[k + 2]>> \o h[(k + 2) + 1]
      BY <1>4, <2>1, <2>3, <3>2, Zenon
    <3>7. /\ s[k + 1] \o s[k + 2] \in Whole
          /\ DecodeToken(s[k + 1] \o s[k + 2]) = DecodeToken(s[k + 1]) \o DecodeToken(s[k + 2])
      BY <2>2, <3>3, WholeConcat
    <3>8. /\ <<s[k + 1] \o s[k + 2]>> \in Seq(Whole)
          /\ Shown(<<s[k + 1] \o s[k + 2]>>) = DecodeToken(s[k + 1]) \o DecodeToken(s[k + 2])
      BY <3>7, ShownOne
    <3>9. /\ h[k + 1] \in Seq(Whole)
          /\ Shown(h[k + 1]) = (DecodeToken(s[k + 1]) \o DecodeToken(s[k + 2]))
                                   \o Shown(Rest(s, k + 2))
      BY <3>5, <3>6, <3>8, ShownConcat
    <3>10. /\ DecodeToken(s[k + 1]) \in Seq(Byte) /\ DecodeToken(s[k + 2]) \in Seq(Byte)
           /\ Shown(Rest(s, k + 2)) \in Seq(Byte)
      <4>1. s[k + 1] \in Seq(Byte) /\ s[k + 2] \in Seq(Byte)
        BY <2>2, <3>3 DEF Whole
      <4>2. k + 2 \in 0 .. Len(s)
        BY <1>3, <3>1
      <4>3. Rest(s, k + 2) \in Seq(Whole)
        BY <4>2, RestType
      <4> QED
        BY <4>1, <4>3, DecodeType, DecodedType
    <3>11. (DecodeToken(s[k + 1]) \o DecodeToken(s[k + 2])) \o Shown(Rest(s, k + 2))
             = DecodeToken(s[k + 1]) \o (DecodeToken(s[k + 2]) \o Shown(Rest(s, k + 2)))
      BY <3>10, ConcatAssociative, SMTT(30)
    <3> HIDE DEF n
    <3> QED
      BY <2>1, <2>2, <3>3, <3>9, <3>11, Zenon
  <2>4. CASE ~CanMerge(s, k + 1, rank)
    <3>1. k + 1 \in T
      BY <1>6, <2>1
    <3>2. h[(k + 1) + 1] \in Seq(Whole) /\ Shown(h[(k + 1) + 1]) = Shown(Rest(s, k + 1))
      BY <3>1
    <3>3. h[k + 1] = <<s[k + 1]>> \o h[(k + 1) + 1]
      BY <1>4, <2>1, <2>4, Zenon
    <3>4. <<s[k + 1]>> \in Seq(Whole) /\ Shown(<<s[k + 1]>>) = DecodeToken(s[k + 1])
      BY <2>2, ShownOne
    <3>5. /\ h[k + 1] \in Seq(Whole)
          /\ Shown(h[k + 1]) = DecodeToken(s[k + 1]) \o Shown(Rest(s, k + 1))
      BY <3>2, <3>3, <3>4, ShownConcat
    <3> HIDE DEF n
    <3> QED
      BY <2>1, <2>2, <3>5, Zenon
  <2> QED
    BY <2>3, <2>4
<1>7. T = 0 .. n
  <2> HIDE DEF T
  <2>1. T \in SUBSET (0 .. n)
    BY DEF T
  <2> QED
    BY <1>3, <1>5, <1>6, <2>1, Downward
<1>8. 0 \in T /\ 0 + 1 = 1
  BY <1>3, <1>7
<1>9. h[1] \in Seq(Whole) /\ Shown(h[1]) = Shown(Rest(s, 0))
  BY <1>8
<1> QED
  BY <1>2, <1>9, RestWhole

(***************************************************************************)
(* The characters of a line.                                               *)
(***************************************************************************)
LEMMA FlattenFirst ==
    ASSUME NEW S, NEW x \in Seq(S), NEW t \in Seq(Seq(S))
    PROVE  FlattenSeq(<<x>> \o t) = x \o FlattenSeq(t)
<1>1. <<x>> \in Seq(Seq(S))
  OBVIOUS
<1>2. FlattenSeq(<<x>> \o t) = FlattenSeq(<<x>>) \o FlattenSeq(t)
  BY <1>1, FlattenConcat
<1> QED
  BY <1>2, FlattenOne

LEMMA RestParts ==
    ASSUME NEW S, NEW e \in Seq(S), NEW n \in 1 .. Len(e)
    PROVE  SubSeq(e, 1, n) \in Seq(S) /\ SubSeq(e, 1, n) \o Rest(e, n) = e
<1>1. /\ 1 \in 1 .. Len(e) + 1 /\ n \in 1 - 1 .. Len(e) /\ Len(e) \in n .. Len(e)
  OBVIOUS
<1>2. SubSeq(e, 1, n) \o SubSeq(e, n + 1, Len(e)) = SubSeq(e, 1, Len(e))
  BY <1>1, ConcatAdjacentSubSeq
<1>3. SubSeq(e, 1, n) \in Seq(S) /\ SubSeq(e, 1, Len(e)) = e
  BY SubSeqFull
<1> QED
  BY <1>2, <1>3 DEF Rest

CharacterAt(bytes, k) == SubSeq(Rest(bytes, k), 1, Utf8DecodeOne(Rest(bytes, k)).used)

Cuts(bytes, h) ==
    h = [k \in 0 .. Len(bytes) |->
            IF k = Len(bytes) THEN <<>>
            ELSE <<CharacterAt(bytes, k)>> \o h[k + Utf8DecodeOne(Rest(bytes, k)).used]]

LEMMA CharacterFacts ==
    ASSUME NEW e \in Seq(Byte), NEW k \in 0 .. Len(e) - 1
    PROVE  /\ Utf8DecodeOne(Rest(e, k)).used \in 1 .. Len(e) - k
           /\ CharacterAt(e, k) \in Seq(Byte)
           /\ CharacterAt(e, k) \o Rest(e, k + Utf8DecodeOne(Rest(e, k)).used) = Rest(e, k)
<1> DEFINE r == Rest(e, k)
           used == Utf8DecodeOne(r).used
<1>1. k \in 0 .. Len(e) /\ k < Len(e) /\ Len(e) \in Nat
  OBVIOUS
<1>2. r \in Seq(Byte) /\ r # <<>> /\ Len(r) = Len(e) - k
  BY <1>1, RestType, Zenon
<1>3. used \in 1 .. Len(e) - k
  <2>1. used \in 1 .. Len(r)
    BY <1>2, DecodeOneType
  <2> HIDE DEF r, used
  <2> QED
    BY <1>2, <2>1
<1>4. used \in 1 .. Len(r) /\ used \in 0 .. Len(e) - k
  <2> HIDE DEF r, used
  <2> QED
    BY <1>1, <1>2, <1>3
<1>5. SubSeq(r, 1, used) \in Seq(Byte) /\ SubSeq(r, 1, used) \o Rest(r, used) = r
  <2> HIDE DEF r, used
  <2> QED
    BY <1>2, <1>4, RestParts
<1>6. Rest(r, used) = Rest(e, k + used)
  <2> HIDE DEF used
  <2> QED
    BY <1>1, <1>4, RestOfRest
<1> HIDE DEF r, used
<1>7. CharacterAt(e, k) = SubSeq(r, 1, used)
  BY DEF CharacterAt, r, used
<1> QED
  BY <1>3, <1>5, <1>6, <1>7 DEF r, used

LEMMA CutsExists ==
    ASSUME NEW e \in Seq(Byte)
    PROVE  \E h : Cuts(e, h)
<1> DEFINE n == Len(e)
           V == Seq(Seq(Byte))
           leap == [k \in 0 .. n - 1 |-> Utf8DecodeOne(Rest(e, k)).used]
           step == [p \in (0 .. n - 1) \X V |-> <<CharacterAt(e, p[1])>> \o p[2]]
<1>1. n \in Nat /\ <<>> \in V
  OBVIOUS
<1>2. leap \in [0 .. n - 1 -> Nat] /\ \A k \in 0 .. n - 1 : leap[k] > 0 /\ k + leap[k] <= n
  <2>1. ASSUME NEW k \in 0 .. n - 1
        PROVE  /\ Utf8DecodeOne(Rest(e, k)).used \in Nat
               /\ leap[k] > 0 /\ k + leap[k] <= n
    <3>1. leap[k] = Utf8DecodeOne(Rest(e, k)).used
      OBVIOUS
    <3>2. Utf8DecodeOne(Rest(e, k)).used \in 1 .. n - k
      BY CharacterFacts
    <3> HIDE DEF leap, n
    <3> QED
      BY <1>1, <3>1, <3>2
  <2> QED
    BY <2>1
<1>3. step \in [(0 .. n - 1) \X V -> V]
  <2>1. ASSUME NEW p \in (0 .. n - 1) \X V PROVE <<CharacterAt(e, p[1])>> \o p[2] \in V
    <3>1. CharacterAt(e, p[1]) \in Seq(Byte) /\ p[2] \in V
      BY CharacterFacts
    <3>2. <<CharacterAt(e, p[1])>> \in V
      BY <3>1
    <3> QED
      BY <3>1, <3>2
  <2> HIDE DEF V, n
  <2> QED
    BY <2>1
<1>4. PICK g \in [0 .. n -> V] : Leaps(g, 0, n, <<>>, leap, step)
  <2> HIDE DEF n, V, leap, step
  <2> QED
    BY <1>1, <1>2, <1>3, LeapsExist
<1>5. ASSUME NEW k \in 0 .. n
      PROVE  g[k] = IF k = n THEN <<>>
                    ELSE <<CharacterAt(e, k)>> \o g[k + Utf8DecodeOne(Rest(e, k)).used]
  <2>1. g[k] = IF k = n THEN <<>> ELSE step[<<k, g[k + leap[k]]>>]
    BY <1>4 DEF Leaps
  <2>2. CASE k # n
    <3>1. k \in 0 .. n - 1
      BY <1>1, <2>2
    <3>2. leap[k] = Utf8DecodeOne(Rest(e, k)).used
      BY <3>1
    <3>3. k + leap[k] \in 0 .. n
      <4> HIDE DEF leap, n
      <4> QED
        BY <1>1, <1>2, <3>1
    <3>4. g[k + leap[k]] \in V
      <4> HIDE DEF leap, n, V
      <4> QED
        BY <3>3
    <3>5. step[<<k, g[k + leap[k]]>>] = <<CharacterAt(e, k)>> \o g[k + leap[k]]
      <4>1. <<k, g[k + leap[k]]>> \in (0 .. n - 1) \X V
        BY <3>1, <3>4, Zenon
      <4> HIDE DEF leap, n, V
      <4> QED
        BY <4>1
    <3> HIDE DEF leap, n, V, step
    <3> QED
      BY <2>1, <2>2, <3>2, <3>5, Zenon
  <2>3. CASE k = n
    <3> HIDE DEF step, leap, V, n
    <3> QED
      BY <2>1, <2>3, Zenon
  <2> QED
    BY <2>2, <2>3
<1>6. g = [k \in 0 .. n |-> g[k]]
  OBVIOUS
<1>7. Cuts(e, g)
  BY <1>5, <1>6, Zenon DEF Cuts
<1> QED
  BY <1>7

(* Cutting a line into characters loses none of its bytes.                 *)
LEMMA CharactersWhole ==
    ASSUME NEW e \in Seq(Byte)
    PROVE  Characters(e) \in Seq(Seq(Byte)) /\ FlattenSeq(Characters(e)) = e
<1> DEFINE h == CHOOSE f : f =
              [k \in 0 .. Len(e) |->
                  IF k = Len(e) THEN <<>>
                  ELSE <<CharacterAt(e, k)>> \o f[k + Utf8DecodeOne(Rest(e, k)).used]]
           n == Len(e)
           V == Seq(Seq(Byte))
           T == {k \in 0 .. n : h[k] \in V /\ FlattenSeq(h[k]) = Rest(e, k)}
<1>1. Cuts(e, h)
  BY CutsExists, Zenon DEF Cuts
<1>2. Characters(e) = h[0]
  BY Zenon DEF Characters, CharacterAt, Rest
<1>3. n \in Nat
  OBVIOUS
<1> HIDE DEF h
<1>4. ASSUME NEW k \in 0 .. n
      PROVE  h[k] = IF k = n THEN <<>>
                    ELSE <<CharacterAt(e, k)>> \o h[k + Utf8DecodeOne(Rest(e, k)).used]
  BY <1>1, Zenon DEF Cuts
<1>5. n \in T
  <2>1. n \in 0 .. n
    BY <1>3
  <2>2. h[n] = <<>> /\ Rest(e, n) = <<>> /\ <<>> \in V
    <3>1. h[n] = <<>>
      BY <1>4, <2>1, Zenon
    <3>2. Rest(e, n) = <<>>
      BY RestLast
    <3> QED
      BY <3>1, <3>2
  <2> HIDE DEF n, V
  <2> QED
    BY <2>1, <2>2, FlattenEmpty
<1>6. ASSUME NEW k \in 0 .. n - 1, \A m \in k + 1 .. n : m \in T
      PROVE  k \in T
  <2> DEFINE used == Utf8DecodeOne(Rest(e, k)).used
             c == CharacterAt(e, k)
  <2>1. used \in 1 .. n - k /\ c \in Seq(Byte) /\ c \o Rest(e, k + used) = Rest(e, k)
    BY CharacterFacts
  <2>2. k \in 0 .. n /\ k # n
    BY <1>3
  <2>3. h[k] = <<c>> \o h[k + used]
    BY <1>4, <2>2, Zenon
  <2> HIDE DEF used, c
  <2>4. k + used \in k + 1 .. n
    BY <1>3, <2>1
  <2>5. k + used \in T
    BY <1>6, <2>4
  <2>6. h[k + used] \in V /\ FlattenSeq(h[k + used]) = Rest(e, k + used)
    BY <2>5
  <2>7. <<c>> \o h[k + used] \in V
    <3>1. <<c>> \in V
      BY <2>1
    <3> QED
      BY <2>6, <3>1
  <2>8. FlattenSeq(<<c>> \o h[k + used]) = c \o FlattenSeq(h[k + used])
    BY <2>1, <2>6, FlattenFirst
  <2> HIDE DEF n, V
  <2> QED
    BY <2>1, <2>2, <2>3, <2>6, <2>7, <2>8, Zenon
<1>7. T = 0 .. n
  <2> HIDE DEF T
  <2>1. T \in SUBSET (0 .. n)
    BY DEF T
  <2> QED
    BY <1>3, <1>5, <1>6, <2>1, Downward
<1>8. 0 \in T
  BY <1>3, <1>7
<1> QED
  BY <1>2, <1>8, RestWhole

----------------------------------------------------------------------------
(***************************************************************************)
(* The invariant of tokenizer_encode.                                      *)
(***************************************************************************)
Types ==
    /\ input \in Seq(Byte) /\ taken \in 0 .. Len(input)
    /\ stage \in {"read", "encode", "complete", "ended"}
    /\ pc \in {"idle", "merge", "look_up", "failed"}
    /\ line \in Seq(Byte)
    /\ chars \in Seq(Seq(Byte)) /\ FlattenSeq(chars) = line
    /\ symbols \in Seq(Whole) /\ looked \in 0 .. Len(symbols)
    /\ output \in Seq(Whole)
    /\ prompts \in Seq(Seq(Whole))

(* bpe_piece keeps symbols only while it is called, and is called only     *)
(* from tokenizer_encode; a prompt is kept until its completion ends.      *)
Calls ==
    /\ pc = "idle" => symbols = <<>> /\ looked = 0
    /\ pc = "merge" => looked = 0
    /\ stage \in {"read", "complete"} => pc = "idle"
    /\ stage = "read" => line = <<>>

(* The piece in hand begins at offset and stays inside the line.           *)
Cursor ==
    /\ pieces \in Seq([from : Nat, to : Nat])
    /\ stage = "encode" =>
          /\ Len(text) = Len(chars)
          /\ offset \in 0 .. Len(chars)
          /\ mode \in {"spaced", "run", "spaces"} => end \in offset .. Len(chars)
          /\ mode = "spaces" => last_whitespace \in offset .. end

IInv == Types /\ Calls /\ Cursor /\ RoundTrip

(* What is left of a text after a piece of it.                             *)
LEMMA FlattenSplit ==
    ASSUME NEW S, NEW s \in Seq(Seq(S)), NEW from \in 0 .. Len(s), NEW to \in from .. Len(s)
    PROVE  /\ FlattenSeq(SubSeq(s, from + 1, to)) \in Seq(S)
           /\ FlattenSeq(Rest(s, to)) \in Seq(S)
           /\ FlattenSeq(SubSeq(s, from + 1, to)) \o FlattenSeq(Rest(s, to))
                = FlattenSeq(Rest(s, from))
<1>1. /\ from + 1 \in 1 .. Len(s) + 1 /\ to \in (from + 1) - 1 .. Len(s)
      /\ Len(s) \in to .. Len(s) /\ to \in 0 .. Len(s)
  OBVIOUS
<1>2. SubSeq(s, from + 1, to) \o SubSeq(s, to + 1, Len(s)) = SubSeq(s, from + 1, Len(s))
  BY <1>1, ConcatAdjacentSubSeq
<1>3. SubSeq(s, from + 1, to) \in Seq(Seq(S))
  OBVIOUS
<1>4. Rest(s, to) \in Seq(Seq(S))
  BY <1>1, RestType
<1> QED
  BY <1>2, <1>3, <1>4, FlattenConcat, FlattenType DEF Rest

(* The three summands of RoundTrip.                                        *)
Spells(out, syms, from, rest, whole) ==
    Shown(out) \o Shown(Rest(syms, from)) \o FlattenSeq(rest) = whole

LEMMA RoundTripIs ==
    RoundTrip <=> (stage = "encode" => Spells(output, symbols, looked, Rest(chars, offset), line))
BY Zenon DEF RoundTrip, Spells, Rest

LEMMA RoundTripIsNext ==
    RoundTrip' <=> (stage' = "encode" =>
        Spells(output', symbols', looked', Rest(chars', offset'), line'))
BY Zenon DEF RoundTrip, Spells, Rest, Shown

(* bpe_piece is called for what comes next in the line.                    *)
LEMMA SpellsCall ==
    ASSUME NEW out \in Seq(Whole), NEW cs \in Seq(Seq(Byte)), NEW whole,
           NEW from \in 0 .. Len(cs), NEW to \in from .. Len(cs),
           Spells(out, <<>>, 0, Rest(cs, from), whole)
    PROVE  /\ Spelled(FlattenSeq(SubSeq(cs, from + 1, to))) \in Seq(Whole)
           /\ Spells(out, Spelled(FlattenSeq(SubSeq(cs, from + 1, to))), 0, Rest(cs, to), whole)
<1> DEFINE p == FlattenSeq(SubSeq(cs, from + 1, to))
           r == FlattenSeq(Rest(cs, to))
           o == Shown(out)
<1>1. p \in Seq(Byte) /\ r \in Seq(Byte) /\ p \o r = FlattenSeq(Rest(cs, from))
  BY FlattenSplit
<1>2. p \in Seq(Byte) /\ r \in Seq(Byte) /\ o \in Seq(Byte)
  BY <1>1, DecodedType
<1>3. Spelled(p) \in Seq(Whole) /\ Shown(Spelled(p)) = p
  BY <1>1, SpelledShows
<1>4. Rest(Spelled(p), 0) = Spelled(p)
  BY <1>3, RestWhole
<1>5. Rest(<<>>, 0) = <<>>
  <2>1. <<>> \in Seq(Whole)
    OBVIOUS
  <2> QED
    BY <2>1, RestWhole
<1>6. (o \o <<>>) \o (p \o r) = whole
  BY <1>1, <1>5, ShownEmpty DEF Spells
<1> HIDE DEF p, r, o
<1>7. (o \o p) \o r = o \o (p \o r)
  BY <1>2, ConcatAssociative
<1>8. (o \o p) \o r = whole
  <2>1. o \o <<>> = o
    BY <1>2, ConcatEmptySeq
  <2> QED
    BY <1>6, <1>7, <2>1
<1>9. Spells(out, Spelled(p), 0, Rest(cs, to), whole)
  BY <1>3, <1>4, <1>8 DEF Spells, r, o
<1> QED
  BY <1>3, <1>9 DEF p

LEMMA SpellsMerge ==
    ASSUME NEW out, NEW syms \in Seq(Whole), NEW rest, NEW whole, NEW rank,
           Spells(out, syms, 0, rest, whole)
    PROVE  Merged(syms, rank) \in Seq(Whole) /\ Spells(out, Merged(syms, rank), 0, rest, whole)
<1>1. Merged(syms, rank) \in Seq(Whole) /\ Shown(Merged(syms, rank)) = Shown(syms)
  BY MergedShows
<1>2. Rest(Merged(syms, rank), 0) = Merged(syms, rank) /\ Rest(syms, 0) = syms
  BY <1>1, RestWhole
<1> QED
  BY <1>1, <1>2 DEF Spells

LEMMA SpellsLookUp ==
    ASSUME NEW out \in Seq(Whole), NEW syms \in Seq(Whole), NEW k \in 0 .. Len(syms) - 1,
           NEW rest, NEW whole, Spells(out, syms, k, rest, whole)
    PROVE  /\ Append(out, syms[k + 1]) \in Seq(Whole)
           /\ Spells(Append(out, syms[k + 1]), syms, k + 1, rest, whole)
<1> DEFINE x == syms[k + 1]
           d == DecodeToken(x)
           o == Shown(out)
           r == Shown(Rest(syms, k + 1))
<1>1. x \in Whole /\ Rest(syms, k + 1) \in Seq(Whole) /\ Shown(Rest(syms, k)) = d \o r
  BY ShownFirst
<1>2. <<x>> \in Seq(Whole) /\ Shown(<<x>>) = d
  BY <1>1, ShownOne
<1>3. Append(out, x) = out \o <<x>> /\ Append(out, x) \in Seq(Whole)
  BY <1>1, AppendIsConcat
<1>4. Shown(Append(out, x)) = o \o d
  BY <1>2, <1>3, ShownConcat, ZenonT(60)
<1>5. o \in Seq(Byte) /\ d \in Seq(Byte) /\ r \in Seq(Byte)
  <2>1. x \in Seq(Byte)
    BY <1>1 DEF Whole
  <2> QED
    BY <1>1, <2>1, DecodeType, DecodedType
<1> HIDE DEF x, d, o, r
<1>6. (o \o d) \o r = o \o (d \o r)
  BY <1>5, ConcatAssociative
<1>7. Spells(Append(out, x), syms, k + 1, rest, whole)
  BY <1>1, <1>4, <1>6, Zenon DEF Spells, o, r
<1> QED
  BY <1>3, <1>7 DEF x

----------------------------------------------------------------------------
(***************************************************************************)
(* Every step preserves the invariant.                                     *)
(***************************************************************************)
LEMMA InitInv == Init => IInv
<1> SUFFICES ASSUME Init PROVE IInv
  OBVIOUS
<1>1. /\ symbols = <<>> /\ looked = 0 /\ output = <<>> /\ pc = "idle" /\ stage = "read"
      /\ line = <<>> /\ chars = <<>> /\ prompts = <<>> /\ pieces = <<>> /\ taken = 0
  BY DEF Init, BpeInit
<1>2. input \in Seq(Byte)
  BY TokenizerAssumption DEF Init
<1>3. Types
  <2>1. /\ <<>> \in Seq(Byte) /\ <<>> \in Seq(Seq(Byte)) /\ <<>> \in Seq(Whole)
        /\ <<>> \in Seq(Seq(Whole)) /\ Len(input) \in Nat /\ 0 \in 0 .. Len(<<>>)
    BY <1>2
  <2>2. 0 \in 0 .. Len(input)
    BY <2>1
  <2> QED
    BY <1>1, <1>2, <2>1, <2>2, FlattenEmpty DEF Types
<1>4. Calls
  BY <1>1 DEF Calls
<1>5. Cursor
  BY <1>1 DEF Cursor
<1>6. RoundTrip
  BY <1>1 DEF RoundTrip
<1> QED
  BY <1>3, <1>4, <1>5, <1>6 DEF IInv

(* What fgets reads: a chunk that ends where a line, the buffer or the     *)
(* input ends.                                                             *)
LEMMA ChunkIs ==
    ASSUME input \in Seq(Byte), taken \in 0 .. Len(input), taken < Len(input)
    PROVE  \E n \in 1 .. Len(input) - taken :
              /\ n <= LineSize - 1
              /\ Chunk = SubSeq(input, taken + 1, taken + n)
              /\ \/ input[taken + n] = NL
                 \/ n = Len(input) - taken
                 \/ n = LineSize - 1
              /\ \A m \in 1 .. n - 1 : input[taken + m] # NL
<1> DEFINE most == IF Len(input) - taken < LineSize - 1 THEN Len(input) - taken
                   ELSE LineSize - 1
           ends == {n \in 1 .. most : input[taken + n] = NL \/ n = most}
<1>1. /\ most \in 1 .. Len(input) - taken /\ most <= LineSize - 1
      /\ most = Len(input) - taken \/ most = LineSize - 1
  BY TokenizerAssumption
<1>2. most \in ends /\ ends \in SUBSET Nat
  <2> HIDE DEF most
  <2> QED
    BY <1>1
<1>3. \E n \in ends : \A m \in ends : n <= m
  <2> HIDE DEF ends, most
  <2>1. ends # {}
    BY <1>2
  <2> QED
    BY <1>2, <2>1, LeastNumber
<1> DEFINE n == Min(ends)
<1>4. n \in ends /\ \A m \in ends : n <= m
  <2> HIDE DEF ends
  <2> QED
    BY <1>3 DEF Min
<1>5. Chunk = SubSeq(input, taken + 1, taken + n)
  BY DEF Chunk
<1> HIDE DEF n
<1>6. n \in 1 .. most /\ (input[taken + n] = NL \/ n = most)
  BY <1>4
<1>7. ASSUME NEW m \in 1 .. n - 1 PROVE input[taken + m] # NL
  <2>1. m \in 1 .. most /\ ~(n <= m)
    <3> HIDE DEF most
    <3> QED
      BY <1>1, <1>6
  <2>2. m \notin ends
    <3> HIDE DEF ends
    <3> QED
      BY <1>4, <2>1
  <2> QED
    BY <2>1, <2>2
<1> HIDE DEF most, ends
<1>8. n \in 1 .. Len(input) - taken /\ n <= LineSize - 1
  BY <1>1, <1>6, TokenizerAssumption
<1> QED
  BY <1>1, <1>5, <1>6, <1>7, <1>8

LEMMA LineOfType ==
    ASSUME NEW bytes \in Seq(Byte)
    PROVE  LineOf(bytes) \in Seq(Byte)
<1> DEFINE zeros  == {k \in DOMAIN bytes : bytes[k] = 0}
           string == IF zeros = {} THEN bytes ELSE SubSeq(bytes, 1, Min(zeros) - 1)
<1>1. string \in Seq(Byte)
  <2>1. CASE zeros = {}
    BY <2>1
  <2>2. CASE zeros # {}
    <3>1. zeros \in SUBSET Nat /\ zeros \subseteq 1 .. Len(bytes)
      OBVIOUS
    <3>2. \E k \in zeros : \A m \in zeros : k <= m
      <4> HIDE DEF zeros
      <4> QED
        BY <2>2, <3>1, LeastNumber
    <3>3. Min(zeros) \in zeros
      <4> HIDE DEF zeros
      <4> QED
        BY <3>2 DEF Min
    <3>4. Min(zeros) \in 1 .. Len(bytes)
      BY <3>1, <3>3
    <3> DEFINE z == Min(zeros)
    <3> HIDE DEF z
    <3>5. SubSeq(bytes, 1, z - 1) \in Seq(Byte)
      <4>1. z \in 1 .. Len(bytes)
        BY <3>4 DEF z
      <4> QED
        BY <4>1
    <3> QED
      BY <2>2, <3>5 DEF z
  <2> QED
    BY <2>1, <2>2
<1>2. LineOf(bytes) = IF string # <<>> /\ Last(string) = NL THEN Front(string) ELSE string
  BY DEF LineOf
<1> HIDE DEF string
<1>3. string # <<>> => Front(string) \in Seq(Byte)
  BY <1>1 DEF Front
<1> QED
  BY <1>1, <1>2, <1>3

LEMMA ReadLineInv == IInv /\ ReadLine => IInv'
<1> SUFFICES ASSUME IInv, ReadLine PROVE IInv'
  OBVIOUS
<1> USE DEF IInv
<1>1. stage = "read" /\ pc = "idle" /\ symbols = <<>> /\ looked = 0 /\ taken < Len(input)
  BY DEF ReadLine, Calls
<1>2. /\ pc' = pc /\ symbols' = symbols /\ looked' = looked /\ input' = input
      /\ prompts' = prompts
  BY DEF ReadLine
<1>3. PICK n \in 1 .. Len(input) - taken : Chunk = SubSeq(input, taken + 1, taken + n)
  BY <1>1, ChunkIs DEF Types
<1>4. Chunk \in Seq(Byte) /\ Len(Chunk) = n
  BY <1>1, <1>3 DEF Types
<1>5. line' \in Seq(Byte)
  <2>1. line' = LineOf(Chunk)
    BY DEF ReadLine
  <2> QED
    BY <1>4, <2>1, LineOfType
<1>6. chars' = Characters(line') /\ taken' = taken + n
  BY <1>4 DEF ReadLine
<1>7. chars' \in Seq(Seq(Byte)) /\ FlattenSeq(chars') = line'
  BY <1>5, <1>6, CharactersWhole
<1>8. taken' \in 0 .. Len(input')
  BY <1>1, <1>2, <1>6 DEF Types
<1>9. CASE line' \in Leaving
  <2>1. stage' = "ended" /\ output' = output /\ pieces' = pieces
    BY <1>9 DEF ReadLine, preVars
  <2>2. Types'
    BY <1>2, <1>5, <1>7, <1>8, <2>1 DEF Types
  <2>3. Calls'
    BY <1>1, <1>2, <2>1 DEF Calls
  <2>4. Cursor'
    BY <2>1 DEF Cursor
  <2>5. RoundTrip'
    BY <2>1, RoundTripIsNext
  <2> QED
    BY <2>2, <2>3, <2>4, <2>5
<1>10. CASE line' \notin Leaving
  <2>1. /\ stage' = "encode" /\ offset' = 0 /\ end' = 0 /\ mode' = "next" /\ pieces' = <<>>
        /\ output' = <<>>
        /\ text' = [k \in DOMAIN chars' |-> KindOf(chars', k)]
    BY <1>10 DEF ReadLine
  <2>2. Types'
    <3>1. <<>> \in Seq(Whole)
      OBVIOUS
    <3> QED
      BY <1>2, <1>5, <1>7, <1>8, <2>1, <3>1 DEF Types
  <2>3. Calls'
    BY <1>1, <1>2, <2>1 DEF Calls
  <2>4. Cursor'
    <3>1. Len(text') = Len(chars') /\ Len(chars') \in Nat
      BY <1>7, <2>1
    <3>2. <<>> \in Seq([from : Nat, to : Nat]) /\ 0 \in 0 .. Len(chars')
      BY <3>1
    <3> QED
      BY <2>1, <3>1, <3>2 DEF Cursor
  <2>5. RoundTrip'
    <3>1. Rest(symbols', looked') = <<>> /\ Rest(chars', offset') = chars'
      <4>1. <<>> \in Seq(Whole)
        OBVIOUS
      <4>2. Rest(<<>>, 0) = <<>>
        BY <4>1, RestWhole
      <4>3. Rest(chars', 0) = chars'
        BY <1>7, RestWhole
      <4> QED
        BY <1>1, <1>2, <2>1, <4>2, <4>3
    <3>2. (<<>> \o <<>>) \o line' = line'
      BY <1>5
    <3>3. Spells(output', symbols', looked', Rest(chars', offset'), line')
      BY <1>7, <2>1, <3>1, <3>2, ShownEmpty DEF Spells
    <3> QED
      BY <3>3, RoundTripIsNext
  <2> QED
    BY <2>2, <2>3, <2>4, <2>5
<1> QED
  BY <1>9, <1>10

LEMMA EndOfInputInv == IInv /\ EndOfInput => IInv'
<1> SUFFICES ASSUME IInv, EndOfInput PROVE IInv'
  OBVIOUS
<1> USE DEF IInv
<1>1. /\ stage = "read" /\ stage' = "ended"
      /\ UNCHANGED <<pc, symbols, looked, output, input, taken, line, chars, pieces, prompts>>
  BY DEF EndOfInput, bpeVars, tables, lineVars, preVars
<1>2. Types'
  BY <1>1 DEF Types
<1>3. Calls'
  BY <1>1 DEF Calls
<1>4. Cursor'
  BY <1>1 DEF Cursor
<1>5. RoundTrip'
  BY <1>1, RoundTripIsNext
<1> QED
  BY <1>2, <1>3, <1>4, <1>5

(* The pre-tokenizer between two pieces: offset and what has been encoded  *)
(* stay, the end of the piece in hand moves inside the line.               *)
LEMMA ScanInv == IInv /\ Scan => IInv'
<1> SUFFICES ASSUME IInv, Scan PROVE IInv'
  OBVIOUS
<1> USE DEF IInv
<1>1. /\ stage = "encode" /\ stage' = "encode" /\ pc = "idle"
      /\ UNCHANGED <<pc, symbols, looked, output, input, taken, line, chars, prompts>>
  BY DEF Scan, bpeVars, tables, lineVars
<1>2. /\ Len(text) = Len(chars) /\ offset \in 0 .. Len(chars) /\ Len(chars) \in Nat
      /\ mode \in {"spaced", "run", "spaces"} => end \in offset .. Len(chars)
      /\ mode = "spaces" => last_whitespace \in offset .. end
  BY <1>1 DEF Cursor, Types
<1>3. /\ text' = text /\ offset' = offset /\ pieces' = pieces
      /\ mode' \in {"spaced", "run", "spaces"} => end' \in offset .. Len(chars)
      /\ mode' = "spaces" => last_whitespace' \in offset .. end'
  <2>1. CASE Pre!BeginSpaced
    <3>1. /\ text' = text /\ offset' = offset /\ pieces' = pieces /\ mode' = "spaced"
          /\ end' = offset + 1 /\ offset < Len(text)
      BY <2>1 DEF Pre!BeginSpaced, Pre!AtNext, Pre!Inside
    <3> QED
      BY <1>2, <3>1
  <2>2. CASE Pre!BeginSpaces
    <3>1. /\ text' = text /\ offset' = offset /\ pieces' = pieces /\ mode' = "spaces"
          /\ end' = offset /\ last_whitespace' = offset
      BY <2>2 DEF Pre!BeginSpaces
    <3> QED
      BY <1>2, <3>1
  <2>3. CASE Pre!BeginRun
    <3>1. /\ text' = text /\ offset' = offset /\ pieces' = pieces /\ mode' = "run"
          /\ end' = offset
      BY <2>3 DEF Pre!BeginRun
    <3> QED
      BY <1>2, <3>1
  <2>4. CASE Pre!ExtendRun
    <3>1. /\ text' = text /\ offset' = offset /\ pieces' = pieces /\ mode' = mode
          /\ end' = end + 1 /\ end < Len(text) /\ mode \in {"spaced", "run"}
      BY <2>4 DEF Pre!ExtendRun, Pre!RunGoesOn, Pre!Inside
    <3> QED
      BY <1>2, <3>1
  <2>5. CASE Pre!ExtendSpaces
    <3>1. /\ text' = text /\ offset' = offset /\ pieces' = pieces /\ mode' = mode
          /\ end' = end + 1 /\ end < Len(text) /\ mode = "spaces" /\ last_whitespace' = end
      BY <2>5 DEF Pre!ExtendSpaces, Pre!SpacesGoOn, Pre!Inside
    <3> QED
      BY <1>2, <3>1
  <2> QED
    BY <2>1, <2>2, <2>3, <2>4, <2>5 DEF Scan
<1>4. Types'
  BY <1>1 DEF Types
<1>5. Calls'
  BY <1>1 DEF Calls
<1>6. Cursor'
  BY <1>1, <1>2, <1>3 DEF Cursor
<1>7. RoundTrip'
  BY <1>1, <1>3, RoundTripIs, RoundTripIsNext
<1> QED
  BY <1>4, <1>5, <1>6, <1>7

(* Whichever branch calls bpe_piece, it is with what begins at offset.     *)
LEMMA PieceEnds ==
    ASSUME Types, Cursor, stage = "encode",
           Pre!Contraction \/ Pre!EncodeRun \/ Pre!EncodeSpaces
    PROVE  \E to \in offset .. Len(chars) :
              /\ offset' = to /\ mode' = "next" /\ text' = text
              /\ pieces' = Append(pieces, [from |-> offset, to |-> to])
<1>1. /\ Len(text) = Len(chars) /\ offset \in 0 .. Len(chars) /\ Len(chars) \in Nat
      /\ mode \in {"spaced", "run", "spaces"} => end \in offset .. Len(chars)
      /\ mode = "spaces" => last_whitespace \in offset .. end
  BY DEF Cursor, Types
<1>2. CASE Pre!Contraction
  <2> DEFINE n == Pre!ContractionLength(offset)
  <2>1. n > 0 /\ text' = text /\ Pre!Encode(offset + n)
    BY <1>2 DEF Pre!Contraction
  <2>2. n \in 0 .. 3 /\ (n > 0 => offset + n <= Len(text))
    BY <1>1 DEF Pre!ContractionLength, Pre!Inside
  <2> HIDE DEF n
  <2>3. offset + n \in offset .. Len(chars)
    BY <1>1, <2>1, <2>2
  <2> QED
    BY <2>1, <2>3 DEF Pre!Encode
<1>3. CASE Pre!EncodeRun
  <2>1. text' = text /\ Pre!Encode(end) /\ mode \in {"spaced", "run"}
    BY <1>3 DEF Pre!EncodeRun
  <2> QED
    BY <1>1, <2>1 DEF Pre!Encode
<1>4. CASE Pre!EncodeSpaces
  <2>1. text' = text /\ Pre!Encode(Pre!SpacesEnd) /\ mode = "spaces"
    BY <1>4 DEF Pre!EncodeSpaces
  <2>2. Pre!SpacesEnd \in offset .. Len(chars)
    BY <1>1, <2>1 DEF Pre!SpacesEnd
  <2> QED
    BY <2>1, <2>2 DEF Pre!Encode
<1> QED
  BY <1>2, <1>3, <1>4

LEMMA CallBpeInv == IInv /\ CallBpe => IInv'
<1> SUFFICES ASSUME IInv, CallBpe PROVE IInv'
  OBVIOUS
<1> USE DEF IInv
<1>1. /\ stage = "encode" /\ stage' = "encode" /\ pc = "idle" /\ pc' = "merge"
      /\ looked' = 0 /\ symbols' = Spelled(BytesOf(Last(pieces')))
      /\ UNCHANGED <<output, input, taken, line, chars, prompts>>
  BY DEF CallBpe, BeginPiece, tables, lineVars
<1>2. PICK to \in offset .. Len(chars) :
              /\ offset' = to /\ mode' = "next" /\ text' = text
              /\ pieces' = Append(pieces, [from |-> offset, to |-> to])
  <2>1. Pre!Contraction \/ Pre!EncodeRun \/ Pre!EncodeSpaces
    BY DEF CallBpe
  <2> QED
    BY <1>1, <2>1, PieceEnds
<1>3. /\ Len(text) = Len(chars) /\ offset \in 0 .. Len(chars) /\ Len(chars) \in Nat
      /\ pieces \in Seq([from : Nat, to : Nat])
  BY <1>1 DEF Cursor, Types
<1> DEFINE p == [from |-> offset, to |-> to]
<1>4. p \in [from : Nat, to : Nat]
  BY <1>3
<1>5. Last(pieces') = p /\ pieces' \in Seq([from : Nat, to : Nat])
  <2> HIDE DEF p
  <2>1. pieces' = Append(pieces, p)
    BY <1>2 DEF p
  <2>2. Len(pieces') = Len(pieces) + 1 /\ pieces'[Len(pieces) + 1] = p
    BY <1>3, <1>4, <2>1
  <2> QED
    BY <1>3, <1>4, <2>1, <2>2 DEF Last
<1>6. symbols' = Spelled(FlattenSeq(SubSeq(chars, offset + 1, to)))
  <2>1. BytesOf(p) = FlattenSeq(SubSeq(chars, p.from + 1, p.to))
    BY DEF BytesOf
  <2>2. BytesOf(Last(pieces')) = BytesOf(p)
    <3> HIDE DEF p
    <3>1. CallBpe
      OBVIOUS
    <3> QED
      BY <1>1, <1>5
  <2> QED
    BY <1>1, <2>1, <2>2
<1>7. Spells(output, <<>>, 0, Rest(chars, offset), line)
  BY <1>1, RoundTripIs DEF Calls
<1>8. symbols' \in Seq(Whole) /\ Spells(output, symbols', 0, Rest(chars, to), line)
  <2>1. output \in Seq(Whole) /\ chars \in Seq(Seq(Byte))
    BY DEF Types
  <2> QED
    BY <1>3, <1>6, <1>7, <2>1, SpellsCall
<1>9. Types'
  <2>1. 0 \in 0 .. Len(symbols')
    BY <1>8
  <2> QED
    BY <1>1, <1>8, <2>1 DEF Types
<1>10. Calls'
  BY <1>1 DEF Calls
<1>11. Cursor'
  BY <1>1, <1>2, <1>3, <1>5 DEF Cursor
<1>12. RoundTrip'
  BY <1>1, <1>2, <1>8, RoundTripIsNext
<1> QED
  BY <1>9, <1>10, <1>11, <1>12

LEMMA BpeInv == IInv /\ Bpe => IInv'
<1> SUFFICES ASSUME IInv, Bpe PROVE IInv'
  OBVIOUS
<1> USE DEF IInv
<1>1. /\ pc' # "idle" => stage \notin {"read", "complete"}
      /\ UNCHANGED <<input, taken, stage, line, chars, offset, text, mode, end,
                     last_whitespace, pieces, prompts>>
  <2>1. UNCHANGED <<input, taken, stage, line, chars, offset, text, mode, end,
                    last_whitespace, pieces, prompts>>
    BY DEF Bpe, lineVars, preVars
  <2>2. stage \notin {"read", "complete"}
    BY DEF Bpe, MergePass, NothingToMerge, LookUp, Return, Calls
  <2> QED
    BY <2>1, <2>2
<1>2. Cursor'
  BY <1>1 DEF Cursor
<1>3. /\ symbols \in Seq(Whole) /\ looked \in 0 .. Len(symbols) /\ Len(symbols) \in Nat
      /\ output \in Seq(Whole)
  BY DEF Types
<1>4. CASE MergePass
  <2>1. /\ pc = "merge" /\ pc' = "merge" /\ looked = 0 /\ looked' = 0 /\ output' = output
        /\ symbols' = Merged(symbols, BestRank(symbols))
    BY <1>4 DEF MergePass, Calls
  <2>2. symbols' \in Seq(Whole)
    BY <1>3, <2>1, MergedShows
  <2>3. Types'
    <3>1. 0 \in 0 .. Len(symbols')
      BY <2>2
    <3> QED
      BY <1>1, <2>1, <2>2, <3>1 DEF Types
  <2>4. Calls'
    BY <1>1, <2>1 DEF Calls
  <2>5. ASSUME stage = "encode"
        PROVE  Spells(output, symbols', 0, Rest(chars, offset), line)
    <3>1. Spells(output, symbols, 0, Rest(chars, offset), line)
      BY <2>1, <2>5, RoundTripIs
    <3> QED
      BY <1>3, <2>1, <3>1, SpellsMerge
  <2>6. RoundTrip'
    BY <1>1, <2>1, <2>5, RoundTripIsNext
  <2> QED
    BY <1>2, <2>3, <2>4, <2>6
<1>5. CASE NothingToMerge
  <2>1. /\ pc = "merge" /\ pc' = "look_up" /\ looked' = looked /\ output' = output
        /\ symbols' = symbols
    BY <1>5 DEF NothingToMerge
  <2>2. Types' /\ Calls'
    BY <1>1, <2>1 DEF Types, Calls
  <2>3. RoundTrip'
    BY <1>1, <2>1, RoundTripIs, RoundTripIsNext
  <2> QED
    BY <1>2, <2>2, <2>3
<1>6. CASE LookUp
  <2>1. /\ pc = "look_up" /\ pc' = "look_up" /\ looked < Len(symbols)
        /\ looked' = looked + 1 /\ output' = Append(output, symbols[looked + 1])
        /\ symbols' = symbols
    BY <1>6 DEF LookUp, NextSymbol
  <2>2. looked \in 0 .. Len(symbols) - 1 /\ looked' \in 0 .. Len(symbols)
    BY <1>3, <2>1
  <2>3. output' \in Seq(Whole)
    BY <1>3, <2>1, <2>2
  <2>4. Types'
    BY <1>1, <2>1, <2>2, <2>3 DEF Types
  <2>5. Calls'
    BY <1>1, <2>1 DEF Calls
  <2>6. ASSUME stage = "encode"
        PROVE  Spells(output', symbols, looked + 1, Rest(chars, offset), line)
    <3>1. Spells(output, symbols, looked, Rest(chars, offset), line)
      BY <2>6, RoundTripIs
    <3> QED
      BY <1>3, <2>1, <2>2, <3>1, SpellsLookUp
  <2>7. RoundTrip'
    BY <1>1, <2>1, <2>6, RoundTripIsNext
  <2> QED
    BY <1>2, <2>4, <2>5, <2>7
<1>7. CASE Return
  <2>1. /\ looked = Len(symbols) /\ pc' = "idle" /\ looked' = 0 /\ symbols' = <<>>
        /\ output' = output
    BY <1>7 DEF Return
  <2>2. <<>> \in Seq(Whole) /\ 0 \in 0 .. Len(<<>>)
    OBVIOUS
  <2>3. Types'
    BY <1>1, <2>1, <2>2 DEF Types
  <2>4. Calls'
    BY <1>1, <2>1 DEF Calls
  <2>5. Rest(symbols, looked) = <<>> /\ Rest(<<>>, 0) = <<>>
    BY <1>3, <2>1, <2>2, RestLast, RestWhole
  <2>6. ASSUME stage = "encode"
        PROVE  Spells(output, <<>>, 0, Rest(chars, offset), line)
    <3>1. Spells(output, symbols, looked, Rest(chars, offset), line)
      BY <2>6, RoundTripIs
    <3> QED
      BY <2>5, <3>1 DEF Spells
  <2>7. RoundTrip'
    BY <1>1, <2>1, <2>6, RoundTripIsNext
  <2> QED
    BY <1>2, <2>3, <2>4, <2>7
<1> QED
  BY <1>4, <1>5, <1>6, <1>7 DEF Bpe

LEMMA EncodeFailsInv == IInv /\ EncodeFails => IInv'
<1> SUFFICES ASSUME IInv, EncodeFails PROVE IInv'
  OBVIOUS
<1> USE DEF IInv
<1>1. /\ stage' = "ended" /\ pc' = "failed" /\ output' = <<>> /\ <<>> \in Seq(Whole)
      /\ UNCHANGED <<symbols, looked, input, taken, line, chars, pieces, prompts>>
  BY DEF EncodeFails, LookUpFails, lineVars
<1>2. Types'
  BY <1>1 DEF Types
<1>3. Calls'
  BY <1>1 DEF Calls
<1>4. Cursor'
  BY <1>1 DEF Cursor
<1>5. RoundTrip'
  BY <1>1, RoundTripIsNext
<1> QED
  BY <1>2, <1>3, <1>4, <1>5

LEMMA EncodeReturnsInv == IInv /\ EncodeReturns => IInv'
<1> SUFFICES ASSUME IInv, EncodeReturns PROVE IInv'
  OBVIOUS
<1> USE DEF IInv
<1>1. /\ stage' = "complete" /\ pc = "idle" /\ prompts' = Append(prompts, output)
      /\ UNCHANGED <<pc, symbols, looked, output, input, taken, line, chars, pieces>>
  BY DEF EncodeReturns, Pre!Finish, bpeVars, tables, lineVars
<1>2. prompts' \in Seq(Seq(Whole))
  BY <1>1 DEF Types
<1>3. Types'
  BY <1>1, <1>2 DEF Types
<1>4. Calls'
  BY <1>1 DEF Calls
<1>5. Cursor'
  BY <1>1 DEF Cursor
<1>6. RoundTrip'
  BY <1>1, RoundTripIsNext
<1> QED
  BY <1>3, <1>4, <1>5, <1>6

LEMMA CompleteInv == IInv /\ (PrintToken \/ FinishPrompt) => IInv'
<1> SUFFICES ASSUME IInv, PrintToken \/ FinishPrompt PROVE IInv'
  OBVIOUS
<1> USE DEF IInv
<1>1. /\ stage = "complete" /\ stage' \in {"complete", "read", "ended"} /\ pc = "idle"
      /\ \/ line' = line /\ chars' = chars /\ stage' = "complete"
         \/ line' = <<>> /\ chars' = <<>>
      /\ UNCHANGED <<pc, symbols, looked, output, input, taken, pieces, prompts>>
  BY DEF PrintToken, FinishPrompt, bpeVars, tables, lineVars, preVars, Calls
<1>2. <<>> \in Seq(Byte) /\ <<>> \in Seq(Seq(Byte))
  OBVIOUS
<1>3. Types'
  BY <1>1, <1>2, FlattenEmpty DEF Types
<1>4. Calls'
  BY <1>1 DEF Calls
<1>5. Cursor'
  BY <1>1 DEF Cursor
<1>6. RoundTrip'
  BY <1>1, RoundTripIsNext
<1> QED
  BY <1>3, <1>4, <1>5, <1>6

LEMMA StutterInv == IInv /\ UNCHANGED vars => IInv'
<1> SUFFICES ASSUME IInv, UNCHANGED vars PROVE IInv'
  OBVIOUS
<1>1. UNCHANGED <<pc, symbols, looked, output, input, taken, stage, line, chars, text,
                  offset, mode, end, last_whitespace, pieces, prompts>>
  BY DEF vars, bpeVars, tables, lineVars, preVars
<1>2. RoundTrip'
  BY <1>1, RoundTripIs, RoundTripIsNext DEF IInv
<1> QED
  BY <1>1, <1>2 DEF IInv, Types, Calls, Cursor

LEMMA NextInv == IInv /\ [Next]_vars => IInv'
BY ReadLineInv, EndOfInputInv, ScanInv, CallBpeInv, BpeInv, EncodeFailsInv,
   EncodeReturnsInv, CompleteInv, StutterInv DEF Next

LEMMA InvariantHolds == Spec => []IInv
BY InitInv, NextInv, PTL DEF Spec

(* At every moment of tokenizer_encode what has been pushed, the symbols   *)
(* in hand and the characters not yet read spell the line that was typed:  *)
(* for every list of merges, every vocabulary, every line and every locale.*)
THEOREM RoundTripHolds == Spec => []RoundTrip
<1>1. IInv => RoundTrip
  BY DEF IInv
<1> QED
  BY <1>1, InvariantHolds, PTL

----------------------------------------------------------------------------
(***************************************************************************)
(* What is typed and what is encoded.                                      *)
(***************************************************************************)
Ends(bytes) == [k \in DOMAIN bytes |-> IF bytes[k] = NL THEN <<>> ELSE <<bytes[k]>>]

LEMMA EndsType ==
    ASSUME NEW bytes \in Seq(Byte)
    PROVE  /\ Ends(bytes) \in Seq(Seq(Byte))
           /\ Len(Ends(bytes)) = Len(bytes)
           /\ \A k \in 1 .. Len(bytes) :
                 Ends(bytes)[k] = IF bytes[k] = NL THEN <<>> ELSE <<bytes[k]>>
<1>1. ASSUME NEW k \in 1 .. Len(bytes)
      PROVE  (IF bytes[k] = NL THEN <<>> ELSE <<bytes[k]>>) \in Seq(Byte)
  <2>1. bytes[k] \in Byte
    OBVIOUS
  <2> QED
    BY <2>1
<1>2. Len(bytes) \in Nat /\ DOMAIN bytes = 1 .. Len(bytes)
  OBVIOUS
<1>3. Ends(bytes) = [k \in 1 .. Len(bytes) |-> IF bytes[k] = NL THEN <<>> ELSE <<bytes[k]>>]
  BY <1>2 DEF Ends
<1> QED
  BY <1>1, <1>2, <1>3

LEMMA EndsOfConcat ==
    ASSUME NEW a \in Seq(Byte), NEW b \in Seq(Byte)
    PROVE  Ends(a \o b) = Ends(a) \o Ends(b)
<1> DEFINE x == Ends(a \o b)
           y == Ends(a) \o Ends(b)
<1>1. a \o b \in Seq(Byte) /\ Len(a \o b) = Len(a) + Len(b)
  OBVIOUS
<1>2. /\ x \in Seq(Seq(Byte)) /\ Len(x) = Len(a \o b)
      /\ \A k \in 1 .. Len(a \o b) :
            x[k] = IF (a \o b)[k] = NL THEN <<>> ELSE <<(a \o b)[k]>>
  BY <1>1, EndsType
<1>3. /\ Ends(a) \in Seq(Seq(Byte)) /\ Len(Ends(a)) = Len(a)
      /\ Ends(b) \in Seq(Seq(Byte)) /\ Len(Ends(b)) = Len(b)
  BY EndsType
<1>4. y \in Seq(Seq(Byte)) /\ Len(y) = Len(a) + Len(b)
  <2>1. y \in Seq(Seq(Byte)) /\ Len(y) = Len(Ends(a)) + Len(Ends(b))
    BY <1>3, ConcatProperties
  <2> HIDE DEF y
  <2> QED
    BY <1>3, <2>1
<1>5. ASSUME NEW k \in 1 .. Len(a) + Len(b) PROVE x[k] = y[k]
  <2>1. x[k] = IF (a \o b)[k] = NL THEN <<>> ELSE <<(a \o b)[k]>>
    <3> HIDE DEF x
    <3> QED
      BY <1>1, <1>2
  <2>2. CASE k <= Len(a)
    <3>1. k \in 1 .. Len(a) /\ (a \o b)[k] = a[k] /\ y[k] = Ends(a)[k]
      BY <1>3, <2>2
    <3>2. Ends(a)[k] = IF a[k] = NL THEN <<>> ELSE <<a[k]>>
      BY <3>1, EndsType
    <3> HIDE DEF x, y
    <3> QED
      BY <2>1, <3>1, <3>2
  <2>3. CASE k > Len(a)
    <3>1. /\ k - Len(a) \in 1 .. Len(b) /\ (a \o b)[k] = b[k - Len(a)]
          /\ y[k] = Ends(b)[k - Len(a)]
      BY <1>3, <2>3
    <3>2. Ends(b)[k - Len(a)] = IF b[k - Len(a)] = NL THEN <<>> ELSE <<b[k - Len(a)]>>
      BY <3>1, EndsType
    <3> HIDE DEF x, y
    <3> QED
      BY <2>1, <3>1, <3>2
  <2> HIDE DEF x, y
  <2> QED
    BY <2>2, <2>3
<1> HIDE DEF x, y
<1>6. x = y
  BY <1>1, <1>2, <1>4, <1>5, SeqEqual
<1> QED
  BY <1>6 DEF x, y

LEMMA WithoutEndsConcat ==
    ASSUME NEW a \in Seq(Byte), NEW b \in Seq(Byte)
    PROVE  /\ WithoutEnds(a) \in Seq(Byte)
           /\ WithoutEnds(a \o b) = WithoutEnds(a) \o WithoutEnds(b)
<1>1. Ends(a) \in Seq(Seq(Byte)) /\ Ends(b) \in Seq(Seq(Byte))
  BY EndsType
<1> QED
  BY <1>1, EndsOfConcat, FlattenConcat, FlattenType DEF WithoutEnds, Ends

LEMMA WithoutEndsNone ==
    ASSUME NEW a \in Seq(Byte), \A k \in 1 .. Len(a) : a[k] # NL
    PROVE  WithoutEnds(a) = a
<1>1. [k \in DOMAIN a |-> IF a[k] = NL THEN <<>> ELSE <<a[k]>>] = [k \in DOMAIN a |-> <<a[k]>>]
  OBVIOUS
<1> QED
  BY <1>1, FlattenSingletons DEF WithoutEnds

LEMMA WithoutEndsLast == WithoutEnds(<<NL>>) = <<>>
<1>1. [k \in DOMAIN <<NL>> |-> IF <<NL>>[k] = NL THEN <<>> ELSE <<(<<NL>>[k])>>] = <<<<>>>>
  OBVIOUS
<1>2. <<>> \in Seq(Byte)
  OBVIOUS
<1> QED
  BY <1>1, <1>2, FlattenOne DEF WithoutEnds

(* A chunk without zeros whose only end of line may be its last byte.      *)
LEMMA LineOfIs ==
    ASSUME NEW c \in Seq(Byte), c # <<>>,
           \A k \in 1 .. Len(c) : c[k] # 0,
           \A k \in 1 .. Len(c) - 1 : c[k] # NL
    PROVE  LineOf(c) = WithoutEnds(c) /\ (c[Len(c)] # NL => Len(LineOf(c)) = Len(c))
<1>1. {k \in DOMAIN c : c[k] = 0} = {}
  OBVIOUS
<1>2. LineOf(c) = IF Last(c) = NL THEN Front(c) ELSE c
  BY <1>1, Zenon DEF LineOf
<1>3. Last(c) = c[Len(c)] /\ Len(c) \in Nat \ {0}
  BY DEF Last
<1>4. CASE c[Len(c)] # NL
  <2>1. \A k \in 1 .. Len(c) : c[k] # NL
    BY <1>3, <1>4
  <2> QED
    BY <1>2, <1>3, <1>4, <2>1, WithoutEndsNone
<1>5. CASE c[Len(c)] = NL
  <2> DEFINE f == Front(c)
  <2>1. /\ f \in Seq(Byte) /\ Len(f) = Len(c) - 1
        /\ \A k \in 1 .. Len(c) - 1 : f[k] = c[k]
    <3>1. f = SubSeq(c, 1, Len(c) - 1)
      BY DEF Front
    <3> HIDE DEF f
    <3> DEFINE m == Len(c) - 1
    <3>2. m \in Nat /\ m <= Len(c)
      BY <1>3
    <3>3. f = SubSeq(c, 1, m)
      BY <3>1
    <3> HIDE DEF m
    <3>4. f \in Seq(Byte) /\ Len(f) = m /\ \A k \in 1 .. m : f[k] = c[k]
      BY <1>3, <3>2, <3>3
    <3> QED
      BY <3>4 DEF m
  <2>2. <<NL>> \in Seq(Byte) /\ c[Len(c)] \in Byte
    BY <1>3, <1>5
  <2>3. c = f \o <<NL>>
    <3> HIDE DEF f
    <3>1. f \o <<NL>> \in Seq(Byte) /\ Len(f \o <<NL>>) = Len(c)
      BY <1>3, <2>1, <2>2
    <3>2. ASSUME NEW k \in 1 .. Len(c) PROVE c[k] = (f \o <<NL>>)[k]
      BY <1>3, <1>5, <2>1, <2>2
    <3> QED
      BY <3>1, <3>2, SeqEqual
  <2> HIDE DEF f
  <2>4. WithoutEnds(f) = f
    BY <1>3, <2>1, WithoutEndsNone
  <2>5. WithoutEnds(c) = WithoutEnds(f) \o <<>>
    BY <2>1, <2>2, <2>3, WithoutEndsConcat, WithoutEndsLast
  <2>6. WithoutEnds(c) = f
    BY <2>1, <2>4, <2>5
  <2>7. LineOf(c) = f
    BY <1>2, <1>3, <1>5 DEF f
  <2> QED
    BY <1>5, <2>6, <2>7
<1> QED
  BY <1>4, <1>5

AllShown(ps) == [k \in DOMAIN ps |-> Shown(ps[k])]

LEMMA AllShownAppend ==
    ASSUME NEW ps \in Seq(Seq(Whole)), NEW p \in Seq(Whole)
    PROVE  /\ FlattenSeq(AllShown(ps)) \in Seq(Byte)
           /\ FlattenSeq(AllShown(Append(ps, p))) = FlattenSeq(AllShown(ps)) \o Shown(p)
<1> DEFINE n == Len(ps)
<1>1. ASSUME NEW k \in 1 .. n PROVE Shown(ps[k]) \in Seq(Byte)
  <2>1. ps[k] \in Seq(Whole)
    OBVIOUS
  <2> QED
    BY <2>1, DecodedType
<1>2. n \in Nat /\ AllShown(ps) = [k \in 1 .. n |-> Shown(ps[k])]
  BY DEF AllShown
<1>3. AllShown(ps) \in Seq(Seq(Byte)) /\ Len(AllShown(ps)) = n
  BY <1>1, <1>2
<1>4. Shown(p) \in Seq(Byte)
  BY DecodedType
<1>5. AllShown(Append(ps, p)) = Append(AllShown(ps), Shown(p))
  <2> DEFINE x == AllShown(Append(ps, p))
             y == Append(AllShown(ps), Shown(p))
  <2>1. /\ Append(ps, p) \in Seq(Seq(Whole)) /\ Len(Append(ps, p)) = n + 1
        /\ Append(ps, p)[n + 1] = p /\ \A k \in 1 .. n : Append(ps, p)[k] = ps[k]
    OBVIOUS
  <2>2. /\ y \in Seq(Seq(Byte)) /\ Len(y) = n + 1
        /\ y[n + 1] = Shown(p) /\ \A k \in 1 .. n : y[k] = Shown(ps[k])
    <3>1. /\ y \in Seq(Seq(Byte)) /\ Len(y) = n + 1
          /\ y[n + 1] = Shown(p) /\ \A k \in 1 .. n : y[k] = AllShown(ps)[k]
      <4> HIDE DEF n
      <4>1. /\ y \in Seq(Seq(Byte)) /\ Len(y) = Len(AllShown(ps)) + 1
            /\ y[Len(AllShown(ps)) + 1] = Shown(p)
            /\ \A k \in 1 .. Len(AllShown(ps)) : y[k] = AllShown(ps)[k]
        BY <1>3, <1>4, AppendProperties
      <4> HIDE DEF y
      <4> QED
        BY <1>3, <4>1
    <3>2. \A k \in 1 .. n : AllShown(ps)[k] = Shown(ps[k])
      <4> HIDE DEF n
      <4> QED
        BY <1>2
    <3> HIDE DEF y, n
    <3> QED
      BY <3>1, <3>2
  <2>3. x = [k \in 1 .. n + 1 |-> Shown(Append(ps, p)[k])]
    <3>1. DOMAIN Append(ps, p) = 1 .. n + 1
      BY <2>1
    <3> QED
      BY <3>1 DEF AllShown
  <2> HIDE DEF y
  <2>4. y = [k \in 1 .. n + 1 |-> Shown(Append(ps, p)[k])]
    <3>1. y = [k \in 1 .. n + 1 |-> y[k]]
      BY <1>2, <2>2
    <3>2. ASSUME NEW k \in 1 .. n + 1 PROVE y[k] = Shown(Append(ps, p)[k])
      <4>1. k = n + 1 \/ k \in 1 .. n
        BY <1>2
      <4> HIDE DEF n
      <4> QED
        BY <2>1, <2>2, <4>1, Zenon
    <3> HIDE DEF n
    <3> QED
      BY <3>1, <3>2, Zenon
  <2> HIDE DEF x, n
  <2>5. x = y
    BY <2>3, <2>4, Zenon
  <2> QED
    BY <2>5 DEF x, y
<1> QED
  BY <1>3, <1>4, <1>5, FlattenAppend, Zenon

(* The two claims of PromptsAreTyped.                                      *)
AsTyped(ps, st, l, in, to) ==
    FlattenSeq(AllShown(ps)) \o (IF st \in {"encode", "ended"} THEN l ELSE <<>>)
        = WithoutEnds(SubSeq(in, 1, to))

Broken(st, l, in, to) ==
    st \in {"encode", "complete"} =>
        \/ to = Len(in) \/ in[to] = NL
        \/ Len(l) = LineSize - 1

LEMMA PromptsIs ==
    PromptsAreTyped <=>
        (0 \notin Range(input) => /\ AsTyped(prompts, stage, line, input, taken)
                                  /\ Broken(stage, line, input, taken))
BY Zenon DEF PromptsAreTyped, AsTyped, Broken, AllShown

LEMMA PromptsIsNext ==
    PromptsAreTyped' <=>
        (0 \notin Range(input') => /\ AsTyped(prompts', stage', line', input', taken')
                                   /\ Broken(stage', line', input', taken'))
BY Zenon DEF PromptsAreTyped, AsTyped, Broken, AllShown, Shown, WithoutEnds

LEMMA PromptsInit == Init => PromptsAreTyped
<1> SUFFICES ASSUME Init PROVE PromptsAreTyped
  OBVIOUS
<1>1. prompts = <<>> /\ stage = "read" /\ taken = 0 /\ input \in Seq(Byte)
  BY TokenizerAssumption DEF Init
<1>2. AllShown(<<>>) = <<>>
  BY DEF AllShown
<1>3. SubSeq(input, 1, 0) = <<>> /\ WithoutEnds(<<>>) = <<>>
  <2>1. SubSeq(input, 1, 0) = <<>> /\ <<>> \in Seq(Byte) /\ \A k \in 1 .. Len(<<>>) : FALSE
    BY <1>1
  <2> QED
    BY <2>1, WithoutEndsNone
<1>4. <<>> \o <<>> = <<>>
  OBVIOUS
<1>5. AsTyped(prompts, stage, line, input, taken)
  BY <1>1, <1>2, <1>3, <1>4, FlattenEmpty DEF AsTyped
<1>6. Broken(stage, line, input, taken)
  BY <1>1 DEF Broken
<1> QED
  BY <1>5, <1>6, PromptsIs

LEMMA PromptsReadLine == IInv /\ PromptsAreTyped /\ ReadLine => PromptsAreTyped'
<1> SUFFICES ASSUME IInv, PromptsAreTyped, ReadLine, 0 \notin Range(input')
             PROVE  /\ AsTyped(prompts', stage', line', input', taken')
                    /\ Broken(stage', line', input', taken')
  BY PromptsIsNext
<1>1. /\ stage = "read" /\ taken < Len(input) /\ input' = input /\ prompts' = prompts
      /\ taken' = taken + Len(Chunk) /\ line' = LineOf(Chunk)
      /\ stage' \in {"encode", "ended"}
  BY DEF ReadLine
<1>2. /\ input \in Seq(Byte) /\ taken \in 0 .. Len(input) /\ Len(input) \in Nat
      /\ prompts \in Seq(Seq(Whole))
  BY DEF IInv, Types
<1>3. PICK n \in 1 .. Len(input) - taken :
              /\ n <= LineSize - 1
              /\ Chunk = SubSeq(input, taken + 1, taken + n)
              /\ \/ input[taken + n] = NL
                 \/ n = Len(input) - taken
                 \/ n = LineSize - 1
              /\ \A m \in 1 .. n - 1 : input[taken + m] # NL
  BY <1>1, <1>2, ChunkIs
<1> DEFINE c == Chunk
<1>4. /\ c \in Seq(Byte) /\ Len(c) = n /\ c # <<>>
      /\ \A k \in 1 .. n : c[k] = input[taken + k]
  <2>1. c = SubSeq(input, taken + 1, taken + n)
    BY <1>3
  <2> HIDE DEF c
  <2>2. taken + 1 \in 1 .. Len(input) /\ taken + n \in taken + 1 .. Len(input)
    BY <1>1, <1>2
  <2>3. c \in Seq(Byte) /\ Len(c) = n
    BY <1>2, <2>1, <2>2
  <2>4. ASSUME NEW k \in 1 .. n PROVE c[k] = input[taken + k]
    BY <1>2, <2>1, <2>2
  <2> QED
    BY <2>3, <2>4
<1>5. \A k \in 1 .. Len(c) : c[k] # 0
  <2>1. ASSUME NEW k \in DOMAIN input PROVE input[k] # 0
    BY <1>1, Zenon DEF Range
  <2>2. ASSUME NEW k \in 1 .. n PROVE taken + k \in DOMAIN input
    BY <1>1, <1>2
  <2> HIDE DEF c
  <2> QED
    BY <1>4, <2>1, <2>2
<1>6. \A k \in 1 .. Len(c) - 1 : c[k] # NL
  <2>1. \A m \in 1 .. n - 1 : input[taken + m] # NL
    BY <1>3
  <2> HIDE DEF c
  <2>2. ASSUME NEW k \in 1 .. n - 1 PROVE c[k] # NL
    <3>1. k \in 1 .. n /\ n \in Nat
      BY <1>2
    <3>2. c[k] = input[taken + k]
      BY <1>4, <3>1
    <3> QED
      BY <2>1, <3>2
  <2> QED
    BY <1>4, <2>2
<1>7. /\ line' = WithoutEnds(c)
      /\ input[taken + n] # NL => Len(line') = n
  <2>1. LineOf(c) = WithoutEnds(c) /\ (c[Len(c)] # NL => Len(LineOf(c)) = Len(c))
    <3> HIDE DEF c
    <3> QED
      BY <1>4, <1>5, <1>6, LineOfIs
  <2>2. c[Len(c)] = input[taken + n] /\ line' = LineOf(c)
    BY <1>1, <1>4
  <2> HIDE DEF c
  <2> QED
    BY <1>4, <2>1, <2>2
<1>8. taken' = taken + n
  BY <1>1, <1>4
<1> DEFINE a == SubSeq(input, 1, taken)
<1>9. a \in Seq(Byte) /\ a \o c = SubSeq(input, 1, taken')
  <2>1. /\ 1 \in 1 .. Len(input) + 1 /\ taken \in 1 - 1 .. Len(input)
        /\ taken + n \in taken .. Len(input)
    BY <1>1, <1>2
  <2>2. SubSeq(input, 1, taken) \o SubSeq(input, taken + 1, taken + n)
            = SubSeq(input, 1, taken + n)
    BY <1>2, <2>1, ConcatAdjacentSubSeq
  <2>3. a \in Seq(Byte)
    BY <1>2
  <2> QED
    BY <1>3, <1>8, <2>2, <2>3
<1>10. FlattenSeq(AllShown(prompts)) = WithoutEnds(a)
  <2>1. FlattenSeq(AllShown(prompts)) \o <<>> = WithoutEnds(a)
    BY <1>1, PromptsIs DEF AsTyped
  <2>2. FlattenSeq(AllShown(prompts)) \in Seq(Byte)
    <3>1. <<>> \in Seq(Whole)
      OBVIOUS
    <3> QED
      BY <1>2, <3>1, AllShownAppend
  <2> HIDE DEF a
  <2> QED
    BY <2>1, <2>2, ConcatEmptySeq
<1> HIDE DEF a, c
<1>11. WithoutEnds(a \o c) = WithoutEnds(a) \o WithoutEnds(c)
  BY <1>4, <1>9, WithoutEndsConcat
<1>12. AsTyped(prompts', stage', line', input', taken')
  BY <1>1, <1>7, <1>9, <1>10, <1>11 DEF AsTyped
<1>13. Broken(stage', line', input', taken')
  <2>1. \/ input[taken + n] = NL \/ taken + n = Len(input) \/ n = LineSize - 1
    BY <1>2, <1>3
  <2> QED
    BY <1>1, <1>7, <1>8, <2>1 DEF Broken
<1> QED
  BY <1>12, <1>13

(* The steps that neither read a line nor finish encoding one.             *)
LEMMA PromptsKept ==
    ASSUME PromptsAreTyped, input' = input, taken' = taken, prompts' = prompts,
           \/ line' = line /\ (stage' \in {"encode", "ended"} <=> stage \in {"encode", "ended"})
           \/ stage \in {"read", "complete"} /\ line' = <<>>,
           stage' \in {"encode", "complete"} => line' = line /\ stage \in {"encode", "complete"}
    PROVE  PromptsAreTyped'
<1> SUFFICES ASSUME 0 \notin Range(input')
             PROVE  /\ AsTyped(prompts', stage', line', input', taken')
                    /\ Broken(stage', line', input', taken')
  BY PromptsIsNext
<1>1. AsTyped(prompts, stage, line, input, taken) /\ Broken(stage, line, input, taken)
  BY PromptsIs
<1>2. AsTyped(prompts', stage', line', input', taken')
  BY <1>1, Zenon DEF AsTyped
<1>3. Broken(stage', line', input', taken')
  BY <1>1, Zenon DEF Broken
<1> QED
  BY <1>2, <1>3

LEMMA PromptsEncodeReturns == IInv /\ PromptsAreTyped /\ EncodeReturns => PromptsAreTyped'
<1> SUFFICES ASSUME IInv, PromptsAreTyped, EncodeReturns, 0 \notin Range(input')
             PROVE  /\ AsTyped(prompts', stage', line', input', taken')
                    /\ Broken(stage', line', input', taken')
  BY PromptsIsNext
<1>1. /\ stage = "encode" /\ stage' = "complete" /\ pc = "idle"
      /\ prompts' = Append(prompts, output)
      /\ input' = input /\ taken' = taken /\ line' = line
      /\ ~(offset < Len(text))
  BY DEF EncodeReturns, Pre!Finish, Pre!Inside, lineVars
<1>2. /\ output \in Seq(Whole) /\ prompts \in Seq(Seq(Whole)) /\ line \in Seq(Byte)
      /\ chars \in Seq(Seq(Byte)) /\ symbols = <<>> /\ looked = 0
      /\ offset = Len(chars)
  <2>1. /\ output \in Seq(Whole) /\ prompts \in Seq(Seq(Whole)) /\ line \in Seq(Byte)
        /\ chars \in Seq(Seq(Byte)) /\ symbols = <<>> /\ looked = 0
    BY <1>1 DEF IInv, Types, Calls
  <2>2. Len(text) = Len(chars) /\ offset \in 0 .. Len(chars) /\ Len(chars) \in Nat
    BY <1>1, <2>1 DEF IInv, Cursor
  <2> QED
    BY <1>1, <2>1, <2>2
<1>3. Shown(output) = line
  <2>1. Shown(output) \o Shown(Rest(<<>>, 0)) \o FlattenSeq(Rest(chars, Len(chars))) = line
    BY <1>1, <1>2, RoundTripIs DEF IInv, Spells
  <2>2. Rest(<<>>, 0) = <<>>
    <3>1. <<>> \in Seq(Whole)
      OBVIOUS
    <3> QED
      BY <3>1, RestWhole
  <2>3. Rest(chars, Len(chars)) = <<>>
    BY <1>2, RestLast
  <2>4. (Shown(output) \o <<>>) \o <<>> = line
    BY <2>1, <2>2, <2>3, ShownEmpty, FlattenEmpty
  <2>5. Shown(output) \in Seq(Byte)
    BY <1>2, DecodedType
  <2> QED
    BY <2>4, <2>5, ConcatEmptySeq
<1>4. AsTyped(prompts, stage, line, input, taken) /\ Broken(stage, line, input, taken)
  BY <1>1, PromptsIs
<1>5. /\ FlattenSeq(AllShown(prompts)) \in Seq(Byte)
      /\ FlattenSeq(AllShown(prompts')) = FlattenSeq(AllShown(prompts)) \o line
  BY <1>1, <1>2, <1>3, AllShownAppend
<1>6. FlattenSeq(AllShown(prompts)) \o line = WithoutEnds(SubSeq(input, 1, taken))
  BY <1>1, <1>4 DEF AsTyped
<1>7. FlattenSeq(AllShown(prompts')) \o <<>> = FlattenSeq(AllShown(prompts'))
  <2>1. FlattenSeq(AllShown(prompts')) \in Seq(Byte)
    BY <1>2, <1>5
  <2> QED
    BY <2>1, ConcatEmptySeq
<1>8. AsTyped(prompts', stage', line', input', taken')
  BY <1>1, <1>5, <1>6, <1>7 DEF AsTyped
<1>9. Broken(stage', line', input', taken')
  BY <1>1, <1>4, Zenon DEF Broken
<1> QED
  BY <1>8, <1>9

LEMMA PromptsNext == IInv /\ PromptsAreTyped /\ [Next]_vars => PromptsAreTyped'
<1> SUFFICES ASSUME IInv, PromptsAreTyped, [Next]_vars PROVE PromptsAreTyped'
  OBVIOUS
<1>1. CASE ReadLine
  BY <1>1, PromptsReadLine
<1>2. CASE EndOfInput
  <2>1. /\ stage = "read" /\ line = <<>> /\ stage' = "ended"
        /\ input' = input /\ taken' = taken /\ prompts' = prompts /\ line' = line
    BY <1>2 DEF EndOfInput, IInv, Calls, lineVars
  <2> QED
    BY <2>1, PromptsKept
<1>3. CASE Scan \/ CallBpe \/ Bpe \/ PrintToken
  <2>1. /\ input' = input /\ taken' = taken /\ prompts' = prompts /\ line' = line
        /\ stage' = stage
    BY <1>3 DEF Scan, CallBpe, Bpe, PrintToken, lineVars
  <2> QED
    BY <2>1, PromptsKept
<1>4. CASE EncodeFails
  <2>1. /\ stage \in {"encode", "ended"} /\ stage' = "ended"
        /\ input' = input /\ taken' = taken /\ prompts' = prompts /\ line' = line
    BY <1>4 DEF EncodeFails, LookUpFails, IInv, Types, Calls, lineVars
  <2> QED
    BY <2>1, PromptsKept
<1>5. CASE EncodeReturns
  BY <1>5, PromptsEncodeReturns
<1>6. CASE FinishPrompt
  <2>1. /\ stage = "complete" /\ stage' \in {"read", "ended"} /\ line' = <<>>
        /\ input' = input /\ taken' = taken /\ prompts' = prompts
    BY <1>6 DEF FinishPrompt
  <2> QED
    BY <2>1, PromptsKept
<1>7. CASE UNCHANGED vars
  <2>1. /\ input' = input /\ taken' = taken /\ prompts' = prompts /\ line' = line
        /\ stage' = stage
    BY <1>7 DEF vars, lineVars
  <2> QED
    BY <2>1, PromptsKept
<1> QED
  BY <1>1, <1>2, <1>3, <1>4, <1>5, <1>6, <1>7 DEF Next

(* What is typed reaches the model: the prompts that were encoded and the  *)
(* line in hand make up what fgets has taken of any input without zeros,   *)
(* but for the ends of lines, whatever the size of the buffer; and a       *)
(* prompt ends in the middle of a line only when it fills the buffer.      *)
THEOREM PromptsAreTypedHolds == Spec => []PromptsAreTyped
BY InvariantHolds, PromptsInit, PromptsNext, PTL DEF Spec

----------------------------------------------------------------------------
(***************************************************************************)
(* What is printed.                                                        *)
(***************************************************************************)

(* A sequence of whole spellings is whole, and means what they mean.       *)
LEMMA WholeFlatten ==
    ASSUME NEW s \in Seq(Whole)
    PROVE  FlattenSeq(s) \in Whole /\ DecodeToken(FlattenSeq(s)) = Shown(s)
<1> DEFINE Joined(u) == FlattenSeq(u) \in Whole /\ DecodeToken(FlattenSeq(u)) = Shown(u)
           T == {n \in Nat : \A u \in Seq(Whole) : Len(u) = n => Joined(u)}
<1>1. 0 \in T
  <2>1. <<>> \in Whole
    <3>1. ASSUME NEW t \in Seq(Byte)
          PROVE  DecodeToken(<<>> \o t) = DecodeToken(<<>>) \o DecodeToken(t)
      <4>1. <<>> \o t = t
        OBVIOUS
      <4>2. DecodeToken(t) \in Seq(Byte)
        BY DecodeType
      <4>3. <<>> \o DecodeToken(t) = DecodeToken(t)
        BY <4>2
      <4> QED
        BY <4>1, <4>3, DecodeEmpty
    <3>2. <<>> \in Seq(Byte)
      OBVIOUS
    <3> QED
      BY <3>1, <3>2 DEF Whole
  <2>2. ASSUME NEW u \in Seq(Whole), Len(u) = 0 PROVE Joined(u)
    <3>1. u = <<>>
      BY <2>2
    <3> QED
      BY <2>1, <3>1, FlattenEmpty, DecodeEmpty, ShownEmpty
  <2> HIDE DEF Joined
  <2> QED
    BY <2>2
<1>2. ASSUME NEW n \in T PROVE n + 1 \in T
  <2>1. ASSUME NEW u \in Seq(Whole), Len(u) = n + 1 PROVE Joined(u)
    <3>1. u # <<>> /\ n \in Nat
      BY <2>1
    <3>2. PICK w \in Seq(Whole), x \in Whole : u = Append(w, x)
      BY <3>1, SequenceEmptyOrAppend
    <3>3. Len(w) = n
      BY <2>1, <3>1, <3>2
    <3>4. Joined(w)
      <4> HIDE DEF Joined
      <4> QED
        BY <3>3
    <3>5. w \in Seq(Seq(Byte)) /\ x \in Seq(Byte)
      <4>1. \A k \in 1 .. Len(w) : w[k] \in Seq(Byte)
        <5>1. \A k \in 1 .. Len(w) : w[k] \in Whole
          OBVIOUS
        <5> QED
          BY <5>1 DEF Whole
      <4>2. w = [k \in 1 .. Len(w) |-> w[k]] /\ Len(w) \in Nat
        OBVIOUS
      <4>3. x \in Seq(Byte)
        BY DEF Whole
      <4> QED
        BY <4>1, <4>2, <4>3
    <3>6. FlattenSeq(u) = FlattenSeq(w) \o x
      BY <3>2, <3>5, FlattenAppend
    <3>7. /\ FlattenSeq(w) \o x \in Whole
          /\ DecodeToken(FlattenSeq(w) \o x) = DecodeToken(FlattenSeq(w)) \o DecodeToken(x)
      BY <3>4, WholeConcat
    <3>8. u = w \o <<x>>
      BY <3>2, AppendIsConcat
    <3>9. Shown(u) = Shown(w) \o DecodeToken(x)
      BY <3>8, ShownOne, ShownConcat
    <3> QED
      BY <3>4, <3>6, <3>7, <3>9
  <2> HIDE DEF Joined
  <2> QED
    BY <2>1
<1>3. T = Nat
  <2> HIDE DEF T
  <2>1. T \in SUBSET Nat
    BY DEF T
  <2> QED
    BY <1>1, <1>2, <2>1, SetInduction
<1>4. Len(s) \in T
  BY <1>3
<1> QED
  BY <1>4

LEMMA Below256 == ASSUME NEW b \in Byte PROVE b < 256
BY DEF Byte

LEMMA FirstByte ==
    ASSUME NEW data \in Seq(Byte), data # <<>>
    PROVE  /\ data[1] \in Byte /\ data[1] < 256
           /\ SubSeq(data, 1, 1) = <<data[1]>>
<1>1. Len(data) \in Nat \ {0} /\ data[1] \in Byte
  OBVIOUS
<1>2. data[1] < 256
  BY <1>1, Below256, Zenon
<1>3. SubSeq(data, 1, 1) = <<data[1]>>
  <2> DEFINE x == SubSeq(data, 1, 1)
  <2>1. x \in Seq(Byte) /\ Len(x) = 1 /\ x[1] = data[1]
    BY <1>1
  <2> HIDE DEF x
  <2>2. x = <<data[1]>>
    BY <2>1
  <2> QED
    BY <2>2 DEF x
<1> QED
  BY <1>1, <1>2, <1>3

(* What is not in the byte alphabet, and no longer than a byte or not      *)
(* UTF-8, means itself.                                                    *)
LEMMA PlainOne ==
    ASSUME NEW data \in Seq(Byte), data # <<>>,
           Utf8DecodeOne(data).used > 1 => ~InAlphabet(Utf8DecodeOne(data).cp)
    PROVE  DecodedOne(Utf8DecodeOne(data), data) = SubSeq(data, 1, Utf8DecodeOne(data).used)
<1> DEFINE one == Utf8DecodeOne(data)
<1>1. one.cp \in Nat /\ one.used \in 1 .. Len(data)
  BY DecodeOneType
<1>2. CASE ~(one.cp < 512 /\ byte_for_cp[one.cp] >= 0)
  BY <1>2 DEF DecodedOne
<1>3. CASE one.cp < 512 /\ byte_for_cp[one.cp] >= 0
  <2> DEFINE cp == one.cp
             p == CHOOSE byte \in Byte : codepoint_for_byte[byte] = cp
  <2>1. cp \in 0 .. 511
    <3> HIDE DEF one
    <3> QED
      BY <1>1, <1>3, Below512, Zenon
  <2>2. byte_for_cp[cp] = ByteForCodepoint(cp)
    <3> HIDE DEF cp
    <3> QED
      BY <2>1 DEF byte_for_cp
  <2>3. InAlphabet(cp) /\ byte_for_cp[cp] = p
    <3>1. byte_for_cp[cp] # -1
      <4> HIDE DEF cp
      <4>1. byte_for_cp[cp] >= 0
        BY <1>3 DEF cp
      <4> QED
        BY <4>1
    <3>2. InAlphabet(cp)
      <4> HIDE DEF cp
      <4> QED
        BY <2>2, <3>1, Zenon DEF ByteForCodepoint, InAlphabet
    <3> HIDE DEF cp
    <3> QED
      BY <2>2, <3>2, Zenon DEF ByteForCodepoint, InAlphabet
  <2>4. p \in Byte /\ codepoint_for_byte[p] = cp
    <3> HIDE DEF cp
    <3> QED
      BY <2>3, Zenon DEF InAlphabet
  <2>5. ~(one.used > 1)
    BY <2>3
  <2> HIDE DEF p
  <2>6. one = [cp |-> data[1], used |-> 1]
    <3>1. /\ ~(2 > 1 /\ one.used = 2) /\ ~(3 > 1 /\ one.used = 3) /\ ~(4 > 1 /\ one.used = 4)
      <4> HIDE DEF one
      <4> QED
        BY <2>5
    <3>2. one.used # 2 /\ one.used # 3 /\ one.used # 4
      <4> HIDE DEF one
      <4> QED
        BY <3>1
    <3>3. \/ one = [cp |-> data[1], used |-> 1]
          \/ one = [used |-> 2, cp |-> Codepoint2(data[1], data[2])]
          \/ one = [used |-> 3, cp |-> Codepoint3(data[1], data[2], data[3])]
          \/ one = [used |-> 4, cp |-> Codepoint4(data[1], data[2], data[3], data[4])]
      BY DecodeOneCases, Zenon
    <3> HIDE DEF one
    <3> QED
      BY <3>2, <3>3
  <2>7. cp = data[1] /\ one.used = 1 /\ data[1] \in Byte
    <3>1. data[1] \in Byte
      OBVIOUS
    <3> HIDE DEF one
    <3> QED
      BY <2>6, <3>1
  <2>8. p = data[1]
    <3>1. data[1] < 256
      BY FirstByte, Zenon
    <3>2. p \in Direct
      <4>1. codepoint_for_byte[p] < 256
        BY <2>4, <2>7, <3>1, Zenon
      <4> QED
        BY <2>4, <4>1, CodepointRange
    <3>3. codepoint_for_byte[p] = p
      BY <2>4, <3>2, CodepointIs
    <3> QED
      BY <2>4, <2>7, <3>3, Zenon
  <2>9. DecodedOne(one, data) = <<byte_for_cp[cp]>>
    BY <1>3, Zenon DEF DecodedOne
  <2>10. SubSeq(data, 1, 1) = <<data[1]>>
    BY FirstByte, Zenon
  <2> HIDE DEF one
  <2> QED
    BY <2>3, <2>7, <2>8, <2>9, <2>10 DEF one
<1> QED
  BY <1>2, <1>3

LEMMA PlainDecodes ==
    ASSUME NEW e \in Seq(Byte), Plain(e)
    PROVE  DecodeToken(e) = e
<1> DEFINE n == Len(e)
<1>1. PICK g : Decodes(e, g) /\ DecodeToken(e) = g[0]
  BY DecodeTokenIs, Zenon
<1> DEFINE T == {k \in 0 .. n : g[k] = Rest(e, k)}
<1>2. n \in Nat
  OBVIOUS
<1>3. ASSUME NEW k \in 0 .. n
      PROVE  g[k] = IF k = n THEN <<>>
                    ELSE DecodedOne(Utf8DecodeOne(Rest(e, k)), Rest(e, k))
                            \o g[k + Utf8DecodeOne(Rest(e, k)).used]
  BY <1>1, Zenon DEF Decodes
<1>4. n \in T
  <2>1. n \in 0 .. n
    BY <1>2
  <2>2. g[n] = <<>>
    BY <1>3, <2>1, Zenon
  <2> QED
    BY <2>1, <2>2, RestLast
<1>5. ASSUME NEW k \in 0 .. n - 1, \A m \in k + 1 .. n : m \in T
      PROVE  k \in T
  <2> DEFINE r == Rest(e, k)
             used == Utf8DecodeOne(r).used
  <2>1. k \in 0 .. n /\ k # n /\ k + 1 \in DOMAIN e
    BY <1>2
  <2>2. r \in Seq(Byte) /\ r # <<>>
    BY <2>1, RestType
  <2>3. used > 1 => ~InAlphabet(Utf8DecodeOne(r).cp)
    BY <2>1, Zenon DEF Plain, Rest
  <2>4. DecodedOne(Utf8DecodeOne(r), r) = SubSeq(r, 1, used)
    <3> HIDE DEF r
    <3> QED
      BY <2>2, <2>3, PlainOne
  <2>5. used \in 1 .. n - k /\ SubSeq(r, 1, used) \o Rest(e, k + used) = r
    BY CharacterFacts DEF CharacterAt
  <2>6. g[k] = DecodedOne(Utf8DecodeOne(r), r) \o g[k + used]
    BY <1>3, <2>1, Zenon
  <2> HIDE DEF r, used
  <2>7. k + used \in k + 1 .. n
    BY <1>2, <2>5
  <2>8. g[k + used] = Rest(e, k + used)
    BY <1>5, <2>7
  <2> QED
    BY <2>1, <2>4, <2>5, <2>6, <2>8 DEF r
<1>6. T = 0 .. n
  <2> HIDE DEF T
  <2>1. T \in SUBSET (0 .. n)
    BY DEF T
  <2> QED
    BY <1>2, <1>4, <1>5, <2>1, Downward
<1>7. 0 \in T
  BY <1>2, <1>6
<1> QED
  BY <1>1, <1>7, RestWhole

(* Decoding what a token is spelled gives what it means.                   *)
LEMMA EmittedMeans ==
    ASSUME NEW token \in Emitted
    PROVE  token.means \in Seq(Byte) /\ DecodeToken(token.spelling) = token.means
<1>1. /\ token.means \in Seq(Byte)
      /\ \/ token.spelling = FlattenSeq(Spelled(token.means))
         \/ token.spelling = token.means /\ Plain(token.spelling)
  BY EmittedAssumption, Zenon
<1> DEFINE m == token.means
<1> HIDE DEF m
<1>2. m \in Seq(Byte)
  BY <1>1 DEF m
<1>3. DecodeToken(FlattenSeq(Spelled(m))) = m
  BY <1>2, SpelledShows, WholeFlatten
<1>4. Plain(m) => DecodeToken(m) = m
  BY <1>2, PlainDecodes
<1> QED
  BY <1>1, <1>3, <1>4, Zenon DEF m

(* A buffer of n bytes that nobody has written to, and a meaning in it.    *)
LEMMA BufferShows ==
    ASSUME NEW m \in Seq(Byte), NEW n \in Nat, NEW blank \in [1 .. n -> {-1}],
           NEW length \in Nat, length = IF Len(m) > n THEN n ELSE Len(m)
    PROVE  LET b == SubSeq([k \in DOMAIN blank |-> IF k <= Len(m) THEN m[k] ELSE blank[k]],
                           1, length)
           IN  b = SubSeq(m, 1, length) /\ Len(b) = length /\ length = Min({n, Len(m)})
<1> DEFINE v == Byte \cup {-1}
           f == [k \in DOMAIN blank |-> IF k <= Len(m) THEN m[k] ELSE blank[k]]
           b == SubSeq(f, 1, length)
<1>1. Len(m) \in Nat /\ length <= n /\ length <= Len(m) /\ DOMAIN blank = 1 .. n
  OBVIOUS
<1>2. f \in Seq(v) /\ Len(f) = n /\ \A k \in 1 .. length : f[k] = m[k]
  <2>1. ASSUME NEW k \in 1 .. n PROVE (IF k <= Len(m) THEN m[k] ELSE blank[k]) \in v
    OBVIOUS
  <2>2. f = [k \in 1 .. n |-> IF k <= Len(m) THEN m[k] ELSE blank[k]]
    BY <1>1
  <2>3. f \in [1 .. n -> v]
    <3> HIDE DEF v, f
    <3> QED
      BY <2>1, <2>2
  <2>4. f \in Seq(v) /\ Len(f) = n
    <3> HIDE DEF v, f
    <3> QED
      BY <2>3
  <2>5. \A k \in 1 .. length : f[k] = m[k]
    <3> HIDE DEF f
    <3> QED
      BY <1>1, <2>2
  <2> QED
    BY <2>4, <2>5
<1> HIDE DEF f, v
<1>3. b \in Seq(v) /\ Len(b) = length /\ \A k \in 1 .. length : b[k] = f[k]
  BY <1>1, <1>2
<1>4. /\ SubSeq(m, 1, length) \in Seq(Byte) /\ Len(SubSeq(m, 1, length)) = length
      /\ \A k \in 1 .. length : SubSeq(m, 1, length)[k] = m[k]
  BY <1>1
<1>5. b = SubSeq(m, 1, length)
  <2> DEFINE c == SubSeq(m, 1, length)
  <2> HIDE DEF b, c
  <2>1. /\ b \in Seq(v) /\ Len(b) = length /\ c \in Seq(Byte) /\ Len(c) = length
        /\ \A k \in 1 .. length : b[k] = c[k]
    BY <1>2, <1>3, <1>4 DEF c
  <2>2. b = c
    <3>1. c \in Seq(v)
      BY <2>1 DEF v
    <3> QED
      BY <2>1, <3>1, SeqEqual
  <2> QED
    BY <2>2 DEF c
<1>6. length = Min({n, Len(m)})
  <2>1. Len(m) > n => length = n
    OBVIOUS
  <2>2. length \in {n, Len(m)} /\ \A k \in {n, Len(m)} : length <= k
    BY <1>1
  <2> DEFINE q == Min({n, Len(m)})
  <2>3. q \in {n, Len(m)} /\ \A k \in {n, Len(m)} : q <= k
    BY <2>2 DEF Min
  <2> HIDE DEF q
  <2>4. q \in Nat /\ q <= length /\ length <= q
    BY <1>1, <2>2, <2>3
  <2> QED
    BY <2>4 DEF q
<1> QED
  BY <1>3, <1>5, <1>6 DEF f

(* Whatever token is printed, in a buffer of any size, what is written     *)
(* shows what the token means as far as the buffer goes, and nothing the   *)
(* buffer held before.                                                     *)
THEOREM PrintsMeaningHolds == Spec => []PrintsMeaning
<1>1. <<>> = SubSeq(<<>>, 1, Len(<<>>)) /\ Len(<<>>) = Min({PrintSize, Len(<<>>)})
  <2>1. Len(<<>>) = 0 /\ SubSeq(<<>>, 1, 0) = <<>>
    OBVIOUS
  <2> DEFINE q == Min({PrintSize, 0})
  <2>2. PrintSize \in Nat
    BY TokenizerAssumption
  <2>3. \E k \in {PrintSize, 0} : \A j \in {PrintSize, 0} : k <= j
    BY <2>2
  <2>4. q \in {PrintSize, 0} /\ \A k \in {PrintSize, 0} : q <= k
    BY <2>3 DEF Min
  <2> HIDE DEF q
  <2>5. q = 0
    BY <2>2, <2>4
  <2> QED
    BY <2>1, <2>5 DEF q
<1>2. Init => PrintsMeaning
  BY <1>1 DEF Init, PrintsMeaning
<1>3. PrintsMeaning /\ [Next]_vars => PrintsMeaning'
  <2> SUFFICES ASSUME PrintsMeaning, [Next]_vars PROVE PrintsMeaning'
    OBVIOUS
  <2>1. CASE printed' = printed
    BY <2>1 DEF PrintsMeaning
  <2>2. CASE PrintToken
    <3>1. PICK token \in Emitted :
            printed' = [means |-> token.means,
                        bytes |-> SubSeq(DecodeInto(token.spelling, Unwritten).buffer, 1,
                                    IF DecodeInto(token.spelling, Unwritten).written > PrintSize
                                    THEN PrintSize
                                    ELSE DecodeInto(token.spelling, Unwritten).written)]
      BY <2>2 DEF PrintToken
    <3> DEFINE m == token.means
               length == IF Len(m) > PrintSize THEN PrintSize ELSE Len(m)
               b == SubSeq([k \in DOMAIN Unwritten |-> IF k <= Len(m) THEN m[k] ELSE Unwritten[k]],
                           1, length)
    <3>2. m \in Seq(Byte) /\ DecodeToken(token.spelling) = m
      BY EmittedMeans
    <3>3. DecodeInto(token.spelling, Unwritten) =
            [written |-> Len(m),
             buffer |-> [k \in DOMAIN Unwritten |-> IF k <= Len(m) THEN m[k] ELSE Unwritten[k]]]
      BY <3>2, Zenon DEF DecodeInto
    <3> DEFINE d == DecodeInto(token.spelling, Unwritten)
    <3>4. printed'.means = m /\ printed'.bytes = b
      <4>1. /\ printed'.means = m
            /\ printed'.bytes = SubSeq(d.buffer, 1,
                                       IF d.written > PrintSize THEN PrintSize ELSE d.written)
        BY <3>1, Zenon
      <4>2. /\ d.written = Len(m)
            /\ d.buffer = [k \in DOMAIN Unwritten |-> IF k <= Len(m) THEN m[k] ELSE Unwritten[k]]
        <5> HIDE DEF m
        <5> QED
          BY <3>3
      <4> HIDE DEF m, d
      <4> QED
        BY <4>1, <4>2, Zenon
    <3>5. /\ PrintSize \in Nat /\ Unwritten \in [1 .. PrintSize -> {-1}]
          /\ length \in Nat
      <4>1. PrintSize \in Nat /\ Len(m) \in Nat
        BY <3>2, TokenizerAssumption
      <4> HIDE DEF m
      <4> QED
        BY <4>1 DEF Unwritten
    <3>6. b = SubSeq(m, 1, length) /\ Len(b) = length /\ length = Min({PrintSize, Len(m)})
      <4> HIDE DEF m
      <4>1. length = IF Len(m) > PrintSize THEN PrintSize ELSE Len(m)
        OBVIOUS
      <4> HIDE DEF length
      <4> QED
        BY <3>2, <3>5, <4>1, BufferShows
    <3> HIDE DEF m, b, length
    <3> QED
      BY <3>4, <3>6 DEF PrintsMeaning
  <2>3. CASE FinishPrompt
    <3>1. printed'.means = <<>> /\ printed'.bytes = <<>>
      BY <2>3 DEF FinishPrompt
    <3> QED
      BY <1>1, <3>1 DEF PrintsMeaning
  <2>4. ReadLine \/ EndOfInput \/ Scan \/ CallBpe \/ Bpe \/ EncodeFails \/ EncodeReturns
           => printed' = printed
    BY DEF ReadLine, EndOfInput, Scan, CallBpe, Bpe, EncodeFails, EncodeReturns
  <2>5. UNCHANGED vars => printed' = printed
    BY DEF vars
  <2> QED
    BY <2>1, <2>2, <2>3, <2>4, <2>5 DEF Next
<1> QED
  BY <1>2, <1>3, PTL DEF Spec

----------------------------------------------------------------------------
(***************************************************************************)
(* One application of a merge rule.                                        *)
(***************************************************************************)
LEMMA PlacesAre ==
    ASSUME NEW s \in Seq(Whole), NEW rule
    PROVE  PlacesOf(s, rule) \in SUBSET (1 .. Len(s) - 1)
BY DEF PlacesOf

LEMMA MergeAtIs ==
    ASSUME NEW s \in Seq(Whole), NEW i \in 1 .. Len(s) - 1
    PROVE  /\ MergeAt(s, i) \in Seq(Whole)
           /\ Len(MergeAt(s, i)) = Len(s) - 1
           /\ \A q \in 1 .. Len(s) - 1 :
                  MergeAt(s, i)[q] = IF q < i THEN s[q]
                                     ELSE IF q = i THEN s[i] \o s[i + 1] ELSE s[q + 1]
<1> DEFINE n == Len(s)
           x == s[i] \o s[i + 1]
           front == SubSeq(s, 1, i - 1)
           back == SubSeq(s, i + 2, n)
<1>1. n \in Nat /\ i \in Nat /\ i + 1 \in 1 .. n /\ i \in 1 .. n
  OBVIOUS
<1>2. x \in Whole
  <2>1. s[i] \in Whole /\ s[i + 1] \in Whole
    BY <1>1
  <2> QED
    BY <2>1, WholeConcat
<1>3. /\ front \in Seq(Whole) /\ Len(front) = i - 1
      /\ \A q \in 1 .. i - 1 : front[q] = s[q]
  BY <1>1
<1>4. /\ back \in Seq(Whole) /\ Len(back) = n - (i + 1)
      /\ \A q \in 1 .. n - (i + 1) : back[q] = s[(i + 1) + q]
  <2>1. i + 1 \in 0 .. n /\ back = Rest(s, i + 1)
    <3>1. (i + 1) + 1 = i + 2
      BY <1>1
    <3> QED
      BY <1>1, <3>1 DEF Rest
  <2> HIDE DEF back
  <2> QED
    BY <2>1, RestType
<1> HIDE DEF front, back, x
<1>5. /\ front \o <<x>> \in Seq(Whole) /\ Len(front \o <<x>>) = i
      /\ \A q \in 1 .. i : (front \o <<x>>)[q] = IF q < i THEN s[q] ELSE x
  BY <1>1, <1>2, <1>3
<1> DEFINE start == front \o <<x>>
<1> HIDE DEF start
<1>6. /\ start \in Seq(Whole) /\ Len(start) = i
      /\ \A q \in 1 .. i : start[q] = IF q < i THEN s[q] ELSE x
  BY <1>5 DEF start
<1>7. /\ start \o back \in Seq(Whole) /\ Len(start \o back) = n - 1
      /\ \A q \in 1 .. n - 1 : (start \o back)[q] = IF q <= i THEN start[q] ELSE back[q - i]
  <2>1. start \o back \in Seq(Whole) /\ Len(start \o back) = Len(start) + Len(back)
    BY <1>4, <1>6, ConcatProperties
  <2>2. \A q \in 1 .. Len(start) + Len(back) :
           (start \o back)[q] = IF q <= Len(start) THEN start[q] ELSE back[q - Len(start)]
    BY <1>4, <1>6, ConcatProperties
  <2>3. i + (n - (i + 1)) = n - 1
    BY <1>1
  <2> HIDE DEF n
  <2> QED
    BY <1>4, <1>6, <2>1, <2>2, <2>3
<1>8. MergeAt(s, i) = start \o back
  BY DEF MergeAt, start, front, back, x
<1>9. ASSUME NEW q \in 1 .. n - 1
      PROVE  (start \o back)[q] = IF q < i THEN s[q] ELSE IF q = i THEN x ELSE s[q + 1]
  <2>1. CASE q <= i
    <3>1. q \in 1 .. i
      BY <1>1, <2>1
    <3>2. q < i \/ q = i
      BY <1>1, <2>1
    <3> QED
      BY <1>1, <1>6, <1>7, <2>1, <3>1, <3>2
  <2>2. CASE ~(q <= i)
    <3>1. q - i \in 1 .. n - (i + 1) /\ (i + 1) + (q - i) = q + 1 /\ ~(q < i) /\ q # i
      BY <1>1, <2>2
    <3>2. back[q - i] = s[q + 1]
      BY <1>4, <3>1
    <3> QED
      BY <1>7, <2>2, <3>1, <3>2
  <2> QED
    BY <2>1, <2>2
<1> QED
  BY <1>7, <1>8, <1>9 DEF x

LEMMA LeastOf ==
    ASSUME NEW T \in SUBSET Nat, T # {}
    PROVE  Min(T) \in T /\ \A m \in T : Min(T) <= m
BY LeastNumber DEF Min

(* A rule is applied at the leftmost place.                                *)
LEMMA AppliedIs ==
    ASSUME NEW s \in Seq(Whole), NEW rule, PlacesOf(s, rule) # {}
    PROVE  \E i \in PlacesOf(s, rule) :
               /\ i \in 1 .. Len(s) - 1
               /\ \A j \in PlacesOf(s, rule) : i <= j
               /\ Applied(s, rule) = MergeAt(s, i)
<1> DEFINE P == PlacesOf(s, rule)
<1>1. P \in SUBSET (1 .. Len(s) - 1) /\ P \in SUBSET Nat
  BY PlacesAre
<1>2. Min(P) \in P /\ \A j \in P : Min(P) <= j
  <2> HIDE DEF P
  <2> QED
    BY <1>1, LeastOf DEF P
<1> QED
  BY <1>1, <1>2 DEF Applied

LEMMA AppliedType ==
    ASSUME NEW s \in Seq(Whole), NEW rule
    PROVE  Applied(s, rule) \in Seq(Whole)
<1>1. CASE PlacesOf(s, rule) = {}
  BY <1>1 DEF Applied
<1>2. CASE PlacesOf(s, rule) # {}
  BY <1>2, AppliedIs, MergeAtIs
<1> QED
  BY <1>1, <1>2

(* Applying it leaves one symbol less.                                     *)
LEMMA AppliedLen ==
    ASSUME NEW s \in Seq(Whole), NEW rule, PlacesOf(s, rule) # {}
    PROVE  Len(Applied(s, rule)) = Len(s) - 1
BY AppliedIs, MergeAtIs

(***************************************************************************)
(* A rule applied until it fits nowhere.                                   *)
(***************************************************************************)
Times(s, rule, times) ==
    times = [n \in 0 .. Len(s) |-> IF n = 0 THEN s ELSE Applied(times[n - 1], rule)]

LEMMA TimesExist ==
    ASSUME NEW s \in Seq(Whole), NEW rule
    PROVE  \E times : Times(s, rule, times)
<1> DEFINE V == Seq(Whole)
           n == Len(s)
           step == [p \in Nat \X V |-> Applied(p[2], rule)]
<1>1. n \in Nat /\ s \in V
  OBVIOUS
<1>2. step \in [Nat \X V -> V]
  <2>1. ASSUME NEW p \in Nat \X V PROVE Applied(p[2], rule) \in V
    BY AppliedType
  <2> HIDE DEF V
  <2> QED
    BY <2>1
<1>3. PICK g \in [0 .. n -> V] : Recurs(g, n, s, step)
  <2> HIDE DEF V, n, step
  <2> QED
    BY <1>1, <1>2, RecursionExists
<1>4. ASSUME NEW k \in 0 .. n
      PROVE  g[k] = IF k = 0 THEN s ELSE Applied(g[k - 1], rule)
  <2>1. g[k] = IF k = 0 THEN s ELSE step[<<k, g[k - 1]>>]
    <3> HIDE DEF V, n, step
    <3> QED
      BY <1>3 DEF Recurs
  <2>2. CASE k = 0
    BY <2>1, <2>2
  <2>3. CASE k # 0
    <3>1. k \in Nat /\ k - 1 \in 0 .. n
      BY <1>1, <2>3
    <3>2. <<k, g[k - 1]>> \in Nat \X V
      <4> HIDE DEF V, n
      <4> QED
        BY <1>3, <3>1
    <3>3. step[<<k, g[k - 1]>>] = Applied(g[k - 1], rule)
      <4> HIDE DEF V
      <4> QED
        BY <3>2
    <3> HIDE DEF step, V, n
    <3> QED
      BY <2>1, <2>3, <3>3
  <2> QED
    BY <2>2, <2>3
<1>5. g = [k \in 0 .. n |-> g[k]]
  <2> HIDE DEF V
  <2> QED
    BY <1>3
<1>6. Times(s, rule, g)
  <2> HIDE DEF V, step
  <2> QED
    BY <1>4, <1>5, Zenon DEF Times
<1> QED
  BY <1>6

LEMMA ExhaustIs ==
    ASSUME NEW s \in Seq(Whole), NEW rule
    PROVE  \E times :
               /\ Exhaust(s, rule) = times[Len(s)]
               /\ times[0] = s
               /\ \A n \in 0 .. Len(s) - 1 : times[n + 1] = Applied(times[n], rule)
<1> DEFINE t == CHOOSE f : f = [n \in 0 .. Len(s) |->
                                   IF n = 0 THEN s ELSE Applied(f[n - 1], rule)]
<1>1. Times(s, rule, t)
  BY TimesExist, Zenon DEF Times
<1>2. Exhaust(s, rule) = t[Len(s)]
  BY Zenon DEF Exhaust
<1> HIDE DEF t
<1>3. \A n \in 0 .. Len(s) : t[n] = IF n = 0 THEN s ELSE Applied(t[n - 1], rule)
  BY <1>1, Zenon DEF Times
<1>4. Len(s) \in Nat /\ 0 \in 0 .. Len(s)
  OBVIOUS
<1>5. ASSUME NEW n \in 0 .. Len(s) - 1 PROVE t[n + 1] = Applied(t[n], rule)
  <2>1. n + 1 \in 0 .. Len(s) /\ n + 1 # 0 /\ (n + 1) - 1 = n
    BY <1>4
  <2>2. t[n + 1] = IF n + 1 = 0 THEN s ELSE Applied(t[(n + 1) - 1], rule)
    BY <1>3, <2>1, Zenon
  <2> QED
    BY <2>1, <2>2
<1>6. t[0] = s
  BY <1>3, <1>4, Zenon
<1> QED
  BY <1>2, <1>5, <1>6

(* What applying a rule keeps, exhausting it keeps.                        *)
LEMMA ExhaustKeeps ==
    ASSUME NEW s \in Seq(Whole), NEW rule, NEW T, s \in T,
           \A t \in T : Applied(t, rule) \in T
    PROVE  Exhaust(s, rule) \in T
<1>1. PICK times :
          /\ Exhaust(s, rule) = times[Len(s)]
          /\ times[0] = s
          /\ \A n \in 0 .. Len(s) - 1 : times[n + 1] = Applied(times[n], rule)
  BY ExhaustIs
<1> DEFINE N == {n \in Nat : n <= Len(s) => times[n] \in T}
<1>2. Len(s) \in Nat
  OBVIOUS
<1>3. 0 \in N
  BY <1>1
<1>4. ASSUME NEW n \in N PROVE n + 1 \in N
  <2>1. SUFFICES ASSUME n + 1 <= Len(s) PROVE times[n + 1] \in T
    OBVIOUS
  <2>2. n \in 0 .. Len(s) - 1 /\ n <= Len(s)
    BY <1>2, <2>1
  <2>3. times[n] \in T
    BY <2>2
  <2> QED
    BY <1>1, <2>2, <2>3
<1>5. N = Nat
  <2>1. N \in SUBSET Nat
    OBVIOUS
  <2> HIDE DEF N
  <2> QED
    BY <1>3, <1>4, <2>1, SetInduction
<1>6. Len(s) \in N /\ Len(s) <= Len(s)
  <2> HIDE DEF N
  <2> QED
    BY <1>2, <1>5
<1> QED
  BY <1>1, <1>6

LEMMA ExhaustType ==
    ASSUME NEW s \in Seq(Whole), NEW rule
    PROVE  Exhaust(s, rule) \in Seq(Whole)
BY AppliedType, ExhaustKeeps

(* A rule that fits nowhere changes nothing.                               *)
LEMMA ExhaustNothing ==
    ASSUME NEW s \in Seq(Whole), NEW rule, PlacesOf(s, rule) = {}
    PROVE  Exhaust(s, rule) = s
<1>1. \A t \in {s} : Applied(t, rule) \in {s}
  BY DEF Applied
<1>2. Exhaust(s, rule) \in {s}
  BY <1>1, ExhaustKeeps
<1> QED
  BY <1>2

(* As many applications as there are symbols are enough.                   *)
LEMMA ExhaustEnds ==
    ASSUME NEW s \in Seq(Whole), NEW rule
    PROVE  PlacesOf(Exhaust(s, rule), rule) = {}
<1>1. PICK times :
          /\ Exhaust(s, rule) = times[Len(s)]
          /\ times[0] = s
          /\ \A n \in 0 .. Len(s) - 1 : times[n + 1] = Applied(times[n], rule)
  BY ExhaustIs
<1> DEFINE Good(n) == /\ times[n] \in Seq(Whole)
                      /\ \/ PlacesOf(times[n], rule) = {}
                         \/ Len(times[n]) = Len(s) - n
           N == {n \in Nat : n <= Len(s) => Good(n)}
<1>2. Len(s) \in Nat
  OBVIOUS
<1>3. 0 \in N
  BY <1>1
<1>4. ASSUME NEW n \in N PROVE n + 1 \in N
  <2>1. SUFFICES ASSUME n + 1 <= Len(s) PROVE Good(n + 1)
    OBVIOUS
  <2>2. n \in Nat /\ n \in 0 .. Len(s) - 1 /\ n <= Len(s)
    BY <1>2, <2>1
  <2>3. Good(n)
    BY <2>2
  <2>4. times[n + 1] = Applied(times[n], rule)
    BY <1>1, <2>2
  <2>5. times[n + 1] \in Seq(Whole)
    BY <2>3, <2>4, AppliedType
  <2>6. CASE PlacesOf(times[n], rule) = {}
    <3>1. times[n + 1] = times[n]
      BY <2>4, <2>6 DEF Applied
    <3> QED
      BY <2>5, <2>6, <3>1
  <2>7. CASE PlacesOf(times[n], rule) # {}
    <3>1. Len(times[n + 1]) = Len(times[n]) - 1
      BY <2>3, <2>4, <2>7, AppliedLen
    <3>2. Len(times[n + 1]) = Len(s) - (n + 1)
      BY <1>2, <2>2, <2>3, <2>7, <3>1
    <3> QED
      BY <2>5, <3>2
  <2> QED
    BY <2>6, <2>7
<1>5. N = Nat
  <2>1. N \in SUBSET Nat
    OBVIOUS
  <2> HIDE DEF N
  <2> QED
    BY <1>3, <1>4, <2>1, SetInduction
<1>6. Good(Len(s))
  <2>1. Len(s) \in N /\ Len(s) <= Len(s)
    <3> HIDE DEF N
    <3> QED
      BY <1>2, <1>5
  <2> HIDE DEF Good
  <2> QED
    BY <2>1
<1> DEFINE e == times[Len(s)]
<1>7. CASE Len(e) = Len(s) - Len(s)
  <2>1. e \in Seq(Whole) /\ Len(e) = 0
    BY <1>2, <1>6, <1>7
  <2> HIDE DEF e
  <2>2. PlacesOf(e, rule) \in SUBSET (1 .. Len(e) - 1)
    BY <2>1, PlacesAre
  <2>3. PlacesOf(e, rule) = {}
    BY <2>1, <2>2
  <2> QED
    BY <1>1, <2>3 DEF e
<1> QED
  BY <1>1, <1>6, <1>7

(***************************************************************************)
(* A pass merges where a rule fits, from left to right.                    *)
(***************************************************************************)
Passes(s, rank, h) ==
    \A i \in 1 .. Len(s) + 2 :
        h[i] = IF i > Len(s) THEN <<>>
               ELSE IF CanMerge(s, i, rank)
               THEN <<s[i] \o s[i + 1]>> \o h[i + 2]
               ELSE <<s[i]>> \o h[i + 1]

LEMMA PassIs ==
    ASSUME NEW s \in Seq(Whole), NEW rank
    PROVE  \E h : Merged(s, rank) = h[1] /\ Passes(s, rank, h)
<1> DEFINE h == CHOOSE f : f =
              [i \in 1 .. Len(s) + 2 |->
                  IF i > Len(s) THEN <<>>
                  ELSE IF CanMerge(s, i, rank)
                  THEN <<s[i] \o s[i + 1]>> \o f[i + 2]
                  ELSE <<s[i]>> \o f[i + 1]]
<1>1. Merges(s, rank, h)
  BY MergesExists, ZenonT(40) DEF Merges
<1>2. Merged(s, rank) = h[1]
  BY Zenon DEF Merged
<1> HIDE DEF h
<1>3. Passes(s, rank, h)
  BY <1>1, Zenon DEF Merges, Passes
<1> QED
  BY <1>2, <1>3, Zenon

(* The pairs of a rank are those of one rule.                              *)
RanksRule(rank, rule) ==
    \A s \in Seq(Whole), i \in Nat : CanMerge(s, i, rank) <=> i \in PlacesOf(s, rule)

(* A pass for a rule that fits nowhere changes nothing.                    *)
LEMMA PassOver ==
    ASSUME NEW s \in Seq(Whole), NEW rank, NEW rule, RanksRule(rank, rule),
           PlacesOf(s, rule) = {}
    PROVE  Merged(s, rank) = s
<1>1. PICK h : Merged(s, rank) = h[1] /\ Passes(s, rank, h)
  BY PassIs
<1> DEFINE n == Len(s)
           T == {k \in 0 .. n : h[k + 1] = Rest(s, k)}
<1>2. n \in Nat
  OBVIOUS
<1>3. ASSUME NEW k \in 0 .. n - 1 PROVE h[k + 1] = <<s[k + 1]>> \o h[(k + 1) + 1]
  <2>1. k + 1 \in 1 .. Len(s) + 2 /\ ~(k + 1 > Len(s)) /\ k + 1 \in Nat
    BY <1>2
  <2>2. ~CanMerge(s, k + 1, rank)
    BY <2>1 DEF RanksRule
  <2> QED
    BY <1>1, <2>1, <2>2, Zenon DEF Passes
<1>4. n \in T
  <2>1. n + 1 \in 1 .. Len(s) + 2 /\ n + 1 > Len(s) /\ n \in 0 .. n
    BY <1>2
  <2>2. h[n + 1] = <<>>
    BY <1>1, <2>1, Zenon DEF Passes
  <2>3. Rest(s, n) = <<>>
    BY RestLast
  <2> HIDE DEF n
  <2> QED
    BY <2>1, <2>2, <2>3
<1>5. ASSUME NEW k \in 0 .. n - 1, \A m \in k + 1 .. n : m \in T
      PROVE  k \in T
  <2>1. k \in 0 .. n /\ k + 1 \in k + 1 .. n
    BY <1>2
  <2>2. h[(k + 1) + 1] = Rest(s, k + 1)
    BY <1>5, <2>1
  <2>3. Rest(s, k) = <<s[k + 1]>> \o Rest(s, k + 1)
    BY RestFirst
  <2> HIDE DEF n
  <2> QED
    BY <1>3, <2>1, <2>2, <2>3
<1>6. T = 0 .. n
  <2> HIDE DEF T
  <2>1. T \in SUBSET (0 .. n)
    BY DEF T
  <2> QED
    BY <1>2, <1>4, <1>5, <2>1, Downward
<1>7. 0 \in T /\ 0 + 1 = 1
  BY <1>2, <1>6
<1>8. h[1] = Rest(s, 0)
  BY <1>7
<1> QED
  BY <1>1, <1>8, RestWhole

(* A rule whose symbol is neither of its own parts.                        *)
Makes(rule) == rule[1] \o rule[2]
NewSymbol(rule) == Makes(rule) \notin {rule[1], rule[2]}

(* Behind the first place a pass goes on as if the rule had been applied   *)
(* there already.                                                          *)
LEMMA PassBehind ==
    ASSUME NEW s \in Seq(Whole), NEW i \in 1 .. Len(s) - 1, NEW rank, NEW rule,
           RanksRule(rank, rule), NEW h, Passes(s, rank, h),
           NEW t \in Seq(Whole), t = MergeAt(s, i), NEW g, Passes(t, rank, g)
    PROVE  \A q \in i + 1 .. Len(s) : g[q] = h[q + 1]
<1> DEFINE n == Len(s)
           T == {q \in 0 .. n : q > i => g[q] = h[q + 1]}
<1>1. n \in Nat /\ i \in Nat /\ Len(t) = n - 1
  BY MergeAtIs
<1>2. \A q \in i + 1 .. n - 1 : t[q] = s[q + 1]
  <2>1. \A q \in 1 .. Len(s) - 1 : t[q] = IF q < i THEN s[q]
                                          ELSE IF q = i THEN s[i] \o s[i + 1] ELSE s[q + 1]
    BY MergeAtIs
  <2>2. ASSUME NEW q \in i + 1 .. n - 1 PROVE q \in 1 .. Len(s) - 1 /\ ~(q < i) /\ q # i
    BY <1>1
  <2> QED
    BY <2>1, <2>2
<1>3. n \in T
  <2>1. n \in 1 .. Len(t) + 2 /\ n > Len(t) /\ n + 1 \in 1 .. Len(s) + 2 /\ n + 1 > Len(s)
    BY <1>1
  <2>2. g[n] = <<>> /\ h[n + 1] = <<>>
    BY <2>1, Zenon DEF Passes
  <2> HIDE DEF n
  <2> QED
    BY <1>1, <2>2
<1>4. ASSUME NEW q \in 0 .. n - 1, \A m \in q + 1 .. n : m \in T
      PROVE  q \in T
  <2>1. SUFFICES ASSUME q > i PROVE g[q] = h[q + 1]
    <3> HIDE DEF n
    <3> QED
      BY <1>1
  <2>2. /\ q \in i + 1 .. n - 1 /\ q \in 1 .. Len(t) + 2 /\ ~(q > Len(t))
        /\ q + 1 \in 1 .. Len(s) + 2 /\ ~(q + 1 > Len(s)) /\ q \in Nat /\ q + 1 \in Nat
        /\ q + 1 \in q + 1 .. n /\ q + 1 > i /\ (q + 1) + 1 = q + 2 /\ (q + 1) + 2 = (q + 2) + 1
    BY <1>1, <2>1
  <2>3. t[q] = s[q + 1]
    BY <1>2, <2>2
  <2>4. g[q + 1] = h[(q + 1) + 1]
    BY <1>4, <2>2
  <2>5. CASE CanMerge(t, q, rank)
    <3>1. q \in PlacesOf(t, rule)
      BY <2>2, <2>5 DEF RanksRule
    <3>2. q \in 1 .. Len(t) - 1 /\ <<t[q], t[q + 1]>> = rule
      BY <3>1 DEF PlacesOf
    <3>3. q + 1 \in i + 1 .. n - 1 /\ q + 2 \in q + 1 .. n /\ q + 2 > i /\ q + 1 \in 1 .. Len(s) - 1
      BY <1>1, <2>2, <3>2
    <3>4. t[q + 1] = s[(q + 1) + 1]
      BY <1>2, <3>3
    <3>5. q + 1 \in PlacesOf(s, rule)
      BY <2>3, <3>2, <3>3, <3>4 DEF PlacesOf
    <3>6. CanMerge(s, q + 1, rank)
      BY <2>2, <3>5 DEF RanksRule
    <3>7. g[q + 2] = h[(q + 2) + 1]
      BY <1>4, <3>3
    <3>8. g[q] = <<t[q] \o t[q + 1]>> \o g[q + 2]
      BY <2>2, <2>5, Zenon DEF Passes
    <3>9. h[q + 1] = <<s[q + 1] \o s[(q + 1) + 1]>> \o h[(q + 1) + 2]
      BY <2>2, <3>6, Zenon DEF Passes
    <3> QED
      BY <2>2, <2>3, <3>4, <3>7, <3>8, <3>9, Zenon
  <2>6. CASE ~CanMerge(t, q, rank)
    <3>1. ~CanMerge(s, q + 1, rank)
      <4>1. SUFFICES ASSUME CanMerge(s, q + 1, rank) PROVE FALSE
        OBVIOUS
      <4>2. q + 1 \in PlacesOf(s, rule)
        BY <2>2, <4>1 DEF RanksRule
      <4>3. q + 1 \in 1 .. Len(s) - 1 /\ <<s[q + 1], s[(q + 1) + 1]>> = rule
        BY <4>2 DEF PlacesOf
      <4>4. q + 1 \in i + 1 .. n - 1 /\ q \in 1 .. Len(t) - 1
        BY <1>1, <2>2, <4>3
      <4>5. t[q + 1] = s[(q + 1) + 1]
        BY <1>2, <4>4
      <4>6. q \in PlacesOf(t, rule)
        BY <2>3, <4>3, <4>4, <4>5 DEF PlacesOf
      <4> QED
        BY <2>2, <2>6, <4>6 DEF RanksRule
    <3>2. g[q] = <<t[q]>> \o g[q + 1]
      BY <2>2, <2>6, Zenon DEF Passes
    <3>3. h[q + 1] = <<s[q + 1]>> \o h[(q + 1) + 1]
      BY <2>2, <3>1, Zenon DEF Passes
    <3> QED
      BY <2>3, <2>4, <3>2, <3>3, Zenon
  <2> QED
    BY <2>5, <2>6
<1>5. T = 0 .. n
  <2> HIDE DEF T
  <2>1. T \in SUBSET (0 .. n)
    BY DEF T
  <2> QED
    BY <1>1, <1>3, <1>4, <2>1, Downward
<1>6. ASSUME NEW q \in i + 1 .. n PROVE g[q] = h[q + 1]
  <2>1. q \in 0 .. n /\ q > i
    BY <1>1
  <2>2. q \in T
    <3> HIDE DEF T, n
    <3> QED
      BY <1>5, <2>1
  <2> QED
    BY <2>1, <2>2
<1> QED
  BY <1>6

(* A pass ends where it ends after the rule has been applied once.         *)
LEMMA PassKept ==
    ASSUME NEW s \in Seq(Whole), NEW rank, NEW rule, RanksRule(rank, rule), NewSymbol(rule)
    PROVE  Merged(Applied(s, rule), rank) = Merged(s, rank)
<1>1. CASE PlacesOf(s, rule) = {}
  BY <1>1 DEF Applied
<1>2. CASE PlacesOf(s, rule) # {}
  <2>1. PICK i \in PlacesOf(s, rule) :
               /\ i \in 1 .. Len(s) - 1
               /\ \A j \in PlacesOf(s, rule) : i <= j
               /\ Applied(s, rule) = MergeAt(s, i)
    BY <1>2, AppliedIs
  <2> DEFINE t == MergeAt(s, i)
             n == Len(s)
             x == s[i] \o s[i + 1]
  <2>2. t \in Seq(Whole) /\ Len(t) = n - 1
    BY <2>1, MergeAtIs
  <2>3. \A q \in 1 .. n - 1 : t[q] = IF q < i THEN s[q] ELSE IF q = i THEN x ELSE s[q + 1]
    BY <2>1, MergeAtIs
  <2> HIDE DEF t
  <2>4. PICK h : Merged(s, rank) = h[1] /\ Passes(s, rank, h)
    BY PassIs
  <2>5. PICK g : Merged(t, rank) = g[1] /\ Passes(t, rank, g)
    BY <2>2, PassIs
  <2>6. \A q \in i + 1 .. n : g[q] = h[q + 1]
    BY <2>1, <2>2, <2>4, <2>5, PassBehind DEF t
  <2>7. n \in Nat /\ i \in Nat /\ i \in 1 .. n - 1
    BY <2>1
  <2>8. rule = <<s[i], s[i + 1]>>
    BY <2>1 DEF PlacesOf
  <2>9. x # s[i] /\ x # s[i + 1]
    BY <2>8 DEF NewSymbol, Makes
  <2> HIDE DEF x
  <2>10. \A q \in 1 .. i : q \notin PlacesOf(t, rule)
    <3>1. SUFFICES ASSUME NEW q \in 1 .. i, q \in PlacesOf(t, rule) PROVE FALSE
      OBVIOUS
    <3>2. q \in 1 .. Len(t) - 1 /\ t[q] = s[i] /\ t[q + 1] = s[i + 1]
      BY <2>8, <3>1 DEF PlacesOf
    <3>3. q \in 1 .. n - 1 /\ q + 1 \in 1 .. n - 1
      BY <2>2, <2>7, <3>2
    <3>4. CASE q = i
      BY <2>3, <2>7, <2>9, <3>2, <3>3, <3>4
    <3>5. CASE q + 1 = i
      BY <2>3, <2>7, <2>9, <3>2, <3>3, <3>5
    <3>6. CASE q # i /\ q + 1 # i
      <4>1. q < i /\ q + 1 < i
        BY <2>7, <3>6
      <4>2. t[q] = s[q] /\ t[q + 1] = s[q + 1]
        BY <2>3, <3>3, <4>1
      <4>3. q \in PlacesOf(s, rule)
        BY <2>8, <3>2, <3>3, <4>2 DEF PlacesOf
      <4>4. i <= q
        BY <2>1, <4>3
      <4> QED
        BY <2>7, <4>1, <4>4
    <3> QED
      BY <3>4, <3>5, <3>6
  <2>11. \A q \in 1 .. i : ~CanMerge(t, q, rank)
    <3>1. ASSUME NEW q \in 1 .. i PROVE q \in Nat
      BY <2>7
    <3> QED
      BY <2>2, <2>10, <3>1 DEF RanksRule
  <2>12. g[i] = h[i]
    <3>1. /\ i \in 1 .. Len(t) + 2 /\ ~(i > Len(t)) /\ i \in 1 .. Len(s) + 2 /\ ~(i > Len(s))
          /\ i \in 1 .. i /\ i + 1 \in i + 1 .. n /\ (i + 1) + 1 = i + 2
      BY <2>2, <2>7
    <3>2. g[i] = <<t[i]>> \o g[i + 1]
      BY <2>5, <2>11, <3>1, Zenon DEF Passes
    <3>3. CanMerge(s, i, rank)
      BY <2>1, <2>7 DEF RanksRule
    <3>4. h[i] = <<s[i] \o s[i + 1]>> \o h[i + 2]
      BY <2>4, <3>1, <3>3, Zenon DEF Passes
    <3>5. t[i] = x
      BY <2>3, <2>7
    <3>6. g[i + 1] = h[i + 2]
      BY <2>6, <3>1
    <3> QED
      BY <3>2, <3>4, <3>5, <3>6, Zenon DEF x
  <2> DEFINE T == {k \in 0 .. i - 1 : g[k + 1] = h[k + 1]}
  <2>13. i - 1 \in T
    BY <2>7, <2>12
  <2>14. ASSUME NEW k \in 0 .. (i - 1) - 1, \A m \in k + 1 .. i - 1 : m \in T
         PROVE  k \in T
    <3>1. /\ k + 1 \in 1 .. Len(t) + 2 /\ ~(k + 1 > Len(t)) /\ k + 1 \in 1 .. Len(s) + 2
          /\ ~(k + 1 > Len(s)) /\ k + 1 \in 1 .. i /\ k + 1 \in k + 1 .. i - 1
          /\ k + 1 \in 1 .. n - 1 /\ k + 1 < i /\ k \in 0 .. i - 1 /\ k + 1 \in Nat
      BY <2>2, <2>7
    <3>2. t[k + 1] = s[k + 1]
      BY <2>3, <3>1
    <3>3. ~CanMerge(s, k + 1, rank)
      <4>1. k + 1 \notin PlacesOf(s, rule)
        BY <2>1, <2>7, <3>1
      <4> QED
        BY <3>1, <4>1 DEF RanksRule
    <3>4. g[k + 1] = <<t[k + 1]>> \o g[(k + 1) + 1]
      BY <2>5, <2>11, <3>1, Zenon DEF Passes
    <3>5. h[k + 1] = <<s[k + 1]>> \o h[(k + 1) + 1]
      BY <2>4, <3>1, <3>3, Zenon DEF Passes
    <3>6. g[(k + 1) + 1] = h[(k + 1) + 1]
      BY <2>14, <3>1
    <3>7. g[k + 1] = h[k + 1]
      BY <3>2, <3>4, <3>5, <3>6, Zenon
    <3> QED
      BY <3>1, <3>7
  <2>15. T = 0 .. i - 1
    <3>1. T \in SUBSET (0 .. i - 1) /\ i - 1 \in Nat
      BY <2>7
    <3> HIDE DEF T
    <3> QED
      BY <2>13, <2>14, <3>1, Downward
  <2>16. g[1] = h[1]
    <3>1. 0 \in T /\ 0 + 1 = 1
      BY <2>7, <2>15
    <3> QED
      BY <3>1
  <2> QED
    BY <2>1, <2>4, <2>5, <2>16 DEF t
<1> QED
  BY <1>1, <1>2

(* So a pass exhausts its rule.                                            *)
LEMMA PassExhausts ==
    ASSUME NEW s \in Seq(Whole), NEW rank, NEW rule, RanksRule(rank, rule), NewSymbol(rule)
    PROVE  Merged(s, rank) = Exhaust(s, rule)
<1> DEFINE T == {t \in Seq(Whole) : Merged(t, rank) = Merged(s, rank)}
           e == Exhaust(s, rule)
<1>1. s \in T
  OBVIOUS
<1>2. ASSUME NEW t \in T PROVE Applied(t, rule) \in T
  <2>1. t \in Seq(Whole) /\ Merged(t, rank) = Merged(s, rank)
    OBVIOUS
  <2>2. Applied(t, rule) \in Seq(Whole)
    BY <2>1, AppliedType
  <2>3. Merged(Applied(t, rule), rank) = Merged(t, rank)
    BY <2>1, PassKept
  <2> QED
    BY <2>1, <2>2, <2>3
<1>3. e \in T
  <2> HIDE DEF T
  <2> QED
    BY <1>1, <1>2, ExhaustKeeps
<1>4. e \in Seq(Whole) /\ Merged(e, rank) = Merged(s, rank)
  BY <1>3
<1>5. PlacesOf(e, rule) = {}
  BY ExhaustEnds
<1>6. Merged(e, rank) = e
  <2> HIDE DEF e
  <2> QED
    BY <1>4, <1>5, PassOver
<1> QED
  BY <1>4, <1>6

(***************************************************************************)
(* Ranks.                                                                  *)
(***************************************************************************)
Lists == Seq(Seq(Byte) \X Seq(Byte))

LEMMA FirstPosition ==
    ASSUME merges \in Lists, NEW l, NEW r, Ranked(l, r)
    PROVE  \E k \in 1 .. Len(merges) :
               /\ merges[k] = <<l, r>> /\ Rank(l, r) = k - 1
               /\ \A j \in 1 .. k - 1 : merges[j] # <<l, r>>
<1> DEFINE T == {k \in 1 .. Len(merges) : merges[k] = <<l, r>>}
           First(k) == merges[k] = <<l, r>> /\ \A j \in 1 .. k - 1 : merges[j] # <<l, r>>
<1>1. DOMAIN merges = 1 .. Len(merges) /\ Len(merges) \in Nat
  BY DEF Lists
<1>2. T # {} /\ T \in SUBSET Nat
  BY <1>1 DEF Ranked
<1>3. PICK least \in T : \A m \in T : least <= m
  <2> HIDE DEF T
  <2> QED
    BY <1>2, LeastNumber
<1>4. least \in DOMAIN merges /\ First(least)
  <2>1. ASSUME NEW j \in 1 .. least - 1 PROVE merges[j] # <<l, r>>
    <3>1. j \in 1 .. Len(merges) /\ ~(least <= j)
      BY <1>1
    <3>2. j \notin T
      <4> HIDE DEF T
      <4> QED
        BY <1>3, <3>1
    <3> QED
      BY <3>1, <3>2
  <2> QED
    BY <1>1, <2>1
<1> DEFINE f == CHOOSE k \in DOMAIN merges : First(k)
<1>5. f \in DOMAIN merges /\ First(f)
  <2> HIDE DEF First
  <2> QED
    BY <1>4
<1>6. Rank(l, r) = f - 1
  BY DEF Rank
<1> HIDE DEF f
<1> QED
  BY <1>1, <1>5, <1>6

(* The rank of a rule's first position is that of its pairs only.          *)
LEMMA RankIsOfRule ==
    ASSUME merges \in Lists, NEW k \in 1 .. Len(merges),
           \A j \in 1 .. k - 1 : merges[j] # merges[k]
    PROVE  RanksRule(k - 1, merges[k])
<1> SUFFICES ASSUME NEW s \in Seq(Whole), NEW i \in Nat
             PROVE  CanMerge(s, i, k - 1) <=> i \in PlacesOf(s, merges[k])
  BY DEF RanksRule
<1> DEFINE l == s[i]
           r == s[i + 1]
<1>1. CanMerge(s, i, k - 1) <=> i \in 1 .. Len(s) - 1 /\ Ranked(l, r) /\ Rank(l, r) = k - 1
  BY DEF CanMerge, Places, PlaceRank
<1>2. i \in PlacesOf(s, merges[k]) <=> i \in 1 .. Len(s) - 1 /\ <<l, r>> = merges[k]
  BY DEF PlacesOf
<1> HIDE DEF l, r
<1>3. ASSUME <<l, r>> = merges[k] PROVE Ranked(l, r)
  <2>1. k \in DOMAIN merges
    BY DEF Lists
  <2> QED
    BY <1>3, <2>1 DEF Ranked
<1>4. ASSUME Ranked(l, r) PROVE Rank(l, r) = k - 1 <=> <<l, r>> = merges[k]
  <2>1. PICK f \in 1 .. Len(merges) :
               /\ merges[f] = <<l, r>> /\ Rank(l, r) = f - 1
               /\ \A j \in 1 .. f - 1 : merges[j] # <<l, r>>
    BY <1>4, FirstPosition
  <2>2. f \in Nat /\ k \in Nat
    OBVIOUS
  <2>3. CASE f < k
    <3>1. f \in 1 .. k - 1
      BY <2>2, <2>3
    <3> QED
      BY <2>1, <2>2, <2>3, <3>1
  <2>4. CASE k < f
    <3>1. k \in 1 .. f - 1
      BY <2>2, <2>4
    <3> QED
      BY <2>1, <2>2, <2>4, <3>1
  <2>5. CASE f = k
    BY <2>1, <2>5
  <2> QED
    BY <2>2, <2>3, <2>4, <2>5
<1> QED
  BY <1>1, <1>2, <1>3, <1>4

(* A pass takes the first rule of the list that fits anywhere.             *)
LEMMA BestRankIs ==
    ASSUME merges \in Lists, NEW s \in Seq(Whole), Places(s) # {}
    PROVE  \E k \in 1 .. Len(merges) :
               /\ BestRank(s) = k - 1
               /\ RanksRule(k - 1, merges[k])
               /\ \A j \in 1 .. k - 1 : PlacesOf(s, merges[j]) = {}
<1> DEFINE R == {PlaceRank(s, i) : i \in Places(s)}
<1>1. ASSUME NEW i \in Places(s)
      PROVE  \E k \in 1 .. Len(merges) :
                 /\ merges[k] = <<s[i], s[i + 1]>> /\ PlaceRank(s, i) = k - 1
                 /\ \A j \in 1 .. k - 1 : merges[j] # <<s[i], s[i + 1]>>
  <2>1. Ranked(s[i], s[i + 1])
    BY DEF Places
  <2> QED
    BY <2>1, FirstPosition DEF PlaceRank
<1>2. R # {} /\ R \in SUBSET Nat
  <2>1. ASSUME NEW i \in Places(s) PROVE PlaceRank(s, i) \in Nat
    <3>1. PICK k \in 1 .. Len(merges) : PlaceRank(s, i) = k - 1
      BY <1>1
    <3> QED
      BY <3>1
  <2> QED
    BY <2>1
<1>3. BestRank(s) \in R /\ \A i \in Places(s) : BestRank(s) <= PlaceRank(s, i)
  <2>1. PICK least \in R : \A m \in R : least <= m
    <3> HIDE DEF R
    <3> QED
      BY <1>2, LeastNumber
  <2>2. \A i \in Places(s) : least <= PlaceRank(s, i)
    BY <2>1
  <2>3. BestRank(s) = CHOOSE b \in R : \A i \in Places(s) : b <= PlaceRank(s, i)
    BY DEF BestRank
  <2> HIDE DEF R
  <2> QED
    BY <2>2, <2>3
<1>4. PICK i \in Places(s) : BestRank(s) = PlaceRank(s, i)
  BY <1>3
<1>5. PICK k \in 1 .. Len(merges) :
          /\ merges[k] = <<s[i], s[i + 1]>> /\ PlaceRank(s, i) = k - 1
          /\ \A j \in 1 .. k - 1 : merges[j] # <<s[i], s[i + 1]>>
  BY <1>1
<1>6. RanksRule(k - 1, merges[k])
  BY <1>5, RankIsOfRule
<1>7. ASSUME NEW j \in 1 .. k - 1, NEW q \in PlacesOf(s, merges[j]) PROVE FALSE
  <2>1. q \in 1 .. Len(s) - 1 /\ <<s[q], s[q + 1]>> = merges[j]
    BY <1>7 DEF PlacesOf
  <2>2. j \in 1 .. Len(merges) /\ j \in DOMAIN merges
    BY DEF Lists
  <2>3. q \in Places(s)
    BY <2>1, <2>2 DEF Places, Ranked
  <2>4. PICK f \in 1 .. Len(merges) :
            /\ PlaceRank(s, q) = f - 1
            /\ \A m \in 1 .. f - 1 : merges[m] # <<s[q], s[q + 1]>>
    BY <1>1, <2>3
  <2>5. f <= j
    <3>1. j \notin 1 .. f - 1
      BY <2>1, <2>4
    <3> QED
      BY <3>1
  <2>6. k - 1 <= f - 1
    BY <1>3, <1>4, <1>5, <2>3, <2>4
  <2> QED
    BY <2>5, <2>6
<1> QED
  BY <1>4, <1>5, <1>6, <1>7

(***************************************************************************)
(* The rules in order.                                                     *)
(***************************************************************************)
RulesOf(list, p) ==
    CHOOSE after : after = [k \in 0 .. Len(list) |->
                               IF k = 0 THEN Spelled(p) ELSE Exhaust(after[k - 1], list[k])]

LEMMA RuleByRuleIs ==
    ASSUME NEW p
    PROVE  RuleByRule(p) = RulesOf(merges, p)[Len(merges)]
BY Zenon DEF RuleByRule, RulesOf

LEMMA RulesAre ==
    ASSUME NEW list \in Lists, NEW p, Spelled(p) \in Seq(Whole)
    PROVE  /\ RulesOf(list, p) \in [0 .. Len(list) -> Seq(Whole)]
           /\ RulesOf(list, p)[0] = Spelled(p)
           /\ \A k \in 1 .. Len(list) :
                  RulesOf(list, p)[k] = Exhaust(RulesOf(list, p)[k - 1], list[k])
<1> DEFINE V == Seq(Whole)
           n == Len(list)
           first == Spelled(p)
           step == [q \in Nat \X V |-> Exhaust(q[2], list[q[1]])]
           After(f) == f = [k \in 0 .. n |-> IF k = 0 THEN first
                                             ELSE Exhaust(f[k - 1], list[k])]
<1>1. n \in Nat /\ first \in V
  BY DEF Lists
<1>2. step \in [Nat \X V -> V]
  <2>1. ASSUME NEW q \in Nat \X V PROVE Exhaust(q[2], list[q[1]]) \in V
    BY ExhaustType
  <2> HIDE DEF V
  <2> QED
    BY <2>1
<1>3. PICK g \in [0 .. n -> V] : Recurs(g, n, first, step)
  <2> HIDE DEF V, n, step, first
  <2> QED
    BY <1>1, <1>2, RecursionExists
<1>4. ASSUME NEW k \in 0 .. n
      PROVE  g[k] = IF k = 0 THEN first ELSE Exhaust(g[k - 1], list[k])
  <2>1. g[k] = IF k = 0 THEN first ELSE step[<<k, g[k - 1]>>]
    <3> HIDE DEF V, n, step, first
    <3> QED
      BY <1>3 DEF Recurs
  <2>2. CASE k = 0
    BY <2>1, <2>2
  <2>3. CASE k # 0
    <3>1. k \in Nat /\ k - 1 \in 0 .. n
      BY <1>1, <2>3
    <3>2. <<k, g[k - 1]>> \in Nat \X V
      <4> HIDE DEF V, n
      <4> QED
        BY <1>3, <3>1
    <3>3. step[<<k, g[k - 1]>>] = Exhaust(g[k - 1], list[k])
      <4> HIDE DEF V
      <4> QED
        BY <3>2
    <3> HIDE DEF step, V, n, first
    <3> QED
      BY <2>1, <2>3, <3>3
  <2> QED
    BY <2>2, <2>3
<1>5. g = [k \in 0 .. n |-> g[k]]
  <2> HIDE DEF V
  <2> QED
    BY <1>3
<1>6. After(g)
  <2> HIDE DEF V, step, first, n
  <2> QED
    BY <1>4, <1>5, Zenon
<1> DEFINE h == RulesOf(list, p)
<1>7. h = CHOOSE f : After(f)
  BY Zenon DEF RulesOf
<1>8. After(h)
  <2> HIDE DEF After, h
  <2> QED
    BY <1>6, <1>7, Zenon
<1> HIDE DEF h
<1>9. \A k \in 0 .. n : h[k] = IF k = 0 THEN first ELSE Exhaust(h[k - 1], list[k])
  <2> HIDE DEF n, first
  <2> QED
    BY <1>8, Zenon
<1>10. h[0] = first
  <2>1. 0 \in 0 .. n
    BY <1>1
  <2> QED
    BY <1>9, <2>1, Zenon
<1>11. ASSUME NEW k \in 1 .. n PROVE h[k] = Exhaust(h[k - 1], list[k])
  <2>1. k \in 0 .. n /\ k # 0
    BY <1>1
  <2> QED
    BY <1>9, <2>1, Zenon
<1> DEFINE T == {k \in Nat : k <= n => h[k] \in V}
<1>12. T = Nat
  <2>1. 0 \in T
    BY <1>1, <1>10
  <2>2. ASSUME NEW k \in T PROVE k + 1 \in T
    <3>1. SUFFICES ASSUME k + 1 <= n PROVE h[k + 1] \in V
      OBVIOUS
    <3>2. k \in Nat /\ k + 1 \in 1 .. n /\ (k + 1) - 1 = k /\ k <= n
      BY <1>1, <3>1
    <3>3. h[k] \in V
      BY <3>2
    <3>4. h[k + 1] = Exhaust(h[k], list[k + 1])
      <4> HIDE DEF n
      <4> QED
        BY <1>11, <3>2
    <3> QED
      BY <3>3, <3>4, ExhaustType
  <2>3. T \in SUBSET Nat
    OBVIOUS
  <2> HIDE DEF T
  <2> QED
    BY <2>1, <2>2, <2>3, SetInduction
<1>13. h \in [0 .. n -> V]
  <2>1. ASSUME NEW k \in 0 .. n PROVE h[k] \in V
    <3>1. k \in T /\ k <= n
      <4> HIDE DEF T
      <4> QED
        BY <1>1, <1>12
    <3> QED
      BY <3>1
  <2>2. h = [k \in 0 .. n |-> h[k]]
    <3> DEFINE body(k) == IF k = 0 THEN first ELSE Exhaust(h[k - 1], list[k])
    <3>1. h = [k \in 0 .. n |-> body(k)]
      BY <1>8
    <3> HIDE DEF body, n
    <3> QED
      BY <3>1
  <2> HIDE DEF n, V
  <2> QED
    BY <2>1, <2>2
<1> QED
  BY <1>10, <1>11, <1>13 DEF h

(***************************************************************************)
(* In a trained list a rule makes no place for an earlier one.             *)
(***************************************************************************)
LEMMA TrainedNew ==
    ASSUME merges \in Lists, Trained, NEW k \in 1 .. Len(merges)
    PROVE  NewSymbol(merges[k])
<1>1. k \in DOMAIN merges /\ ~(k < k)
  BY DEF Lists
<1> QED
  BY <1>1 DEF NewSymbol, Makes, Trained

LEMMA TrainedOrder ==
    ASSUME merges \in Lists, Trained, NEW k \in 1 .. Len(merges), NEW j \in 1 .. k - 1
    PROVE  Makes(merges[k]) \notin {merges[j][1], merges[j][2]}
<1>1. j \in DOMAIN merges /\ k \in DOMAIN merges /\ ~(k < j)
  BY DEF Lists
<1> QED
  BY <1>1 DEF Makes, Trained

LEMMA AppliedKeepsGone ==
    ASSUME NEW s \in Seq(Whole), NEW rule, NEW other,
           Makes(rule) \notin {other[1], other[2]}, PlacesOf(s, other) = {}
    PROVE  PlacesOf(Applied(s, rule), other) = {}
<1>1. CASE PlacesOf(s, rule) = {}
  BY <1>1 DEF Applied
<1>2. CASE PlacesOf(s, rule) # {}
  <2>1. PICK i \in PlacesOf(s, rule) :
               i \in 1 .. Len(s) - 1 /\ Applied(s, rule) = MergeAt(s, i)
    BY <1>2, AppliedIs
  <2> DEFINE t == MergeAt(s, i)
             n == Len(s)
             x == s[i] \o s[i + 1]
  <2>2. t \in Seq(Whole) /\ Len(t) = n - 1
    BY <2>1, MergeAtIs
  <2>3. \A q \in 1 .. n - 1 : t[q] = IF q < i THEN s[q] ELSE IF q = i THEN x ELSE s[q + 1]
    BY <2>1, MergeAtIs
  <2> HIDE DEF t
  <2>4. n \in Nat /\ i \in Nat
    BY <2>1
  <2>5. x = Makes(rule)
    <3>1. <<s[i], s[i + 1]>> = rule
      BY <2>1 DEF PlacesOf
    <3> QED
      BY <3>1 DEF Makes
  <2> HIDE DEF x
  <2>6. ASSUME NEW q \in PlacesOf(t, other) PROVE FALSE
    <3>1. q \in 1 .. Len(t) - 1 /\ <<t[q], t[q + 1]>> = other
      BY <2>6 DEF PlacesOf
    <3>2. t[q] = other[1] /\ t[q + 1] = other[2]
      BY <3>1
    <3>3. t[q] # x /\ t[q + 1] # x
      BY <2>5, <3>2
    <3>4. q \in 1 .. n - 1 /\ q + 1 \in 1 .. n - 1 /\ q \in Nat
      BY <2>2, <2>4, <3>1
    <3>5. q # i /\ q + 1 # i
      BY <2>3, <2>4, <3>3, <3>4
    <3>6. CASE q < i
      <4>1. q + 1 < i
        BY <2>4, <3>4, <3>5, <3>6
      <4>2. t[q] = s[q] /\ t[q + 1] = s[q + 1]
        BY <2>3, <3>4, <3>6, <4>1
      <4> QED
        BY <3>1, <3>4, <4>2 DEF PlacesOf
    <3>7. CASE ~(q < i)
      <4>1. ~(q + 1 < i) /\ q + 1 \in 1 .. n - 1
        BY <2>4, <3>4, <3>7
      <4>2. t[q] = s[q + 1] /\ t[q + 1] = s[(q + 1) + 1]
        BY <2>3, <3>4, <3>5, <3>7, <4>1
      <4>3. q + 1 \in PlacesOf(s, other)
        BY <3>1, <4>1, <4>2 DEF PlacesOf
      <4> QED
        BY <4>3
    <3> QED
      BY <3>6, <3>7
  <2> QED
    BY <2>1, <2>6 DEF t
<1> QED
  BY <1>1, <1>2

LEMMA ExhaustKeepsGone ==
    ASSUME NEW s \in Seq(Whole), NEW rule, NEW other,
           Makes(rule) \notin {other[1], other[2]}, PlacesOf(s, other) = {}
    PROVE  PlacesOf(Exhaust(s, rule), other) = {}
<1> DEFINE T == {t \in Seq(Whole) : PlacesOf(t, other) = {}}
<1>1. s \in T
  OBVIOUS
<1>2. ASSUME NEW t \in T PROVE Applied(t, rule) \in T
  <2>1. t \in Seq(Whole) /\ PlacesOf(t, other) = {}
    OBVIOUS
  <2>2. Applied(t, rule) \in Seq(Whole)
    BY <2>1, AppliedType
  <2>3. PlacesOf(Applied(t, rule), other) = {}
    BY <2>1, AppliedKeepsGone
  <2> QED
    BY <2>2, <2>3
<1>3. Exhaust(s, rule) \in T
  <2> HIDE DEF T
  <2> QED
    BY <1>1, <1>2, ExhaustKeeps
<1> QED
  BY <1>3

(* A rule that has been exhausted fits nowhere any more.                   *)
LEMMA RulesGone ==
    ASSUME merges \in Lists, Trained, NEW p, Spelled(p) \in Seq(Whole)
    PROVE  \A m \in 0 .. Len(merges) : \A j \in 1 .. m :
               PlacesOf(RulesOf(merges, p)[m], merges[j]) = {}
<1> DEFINE after == RulesOf(merges, p)
           n == Len(merges)
           Gone(m) == \A j \in 1 .. m : PlacesOf(after[m], merges[j]) = {}
           T == {m \in Nat : m <= n => Gone(m)}
<1>1. /\ after \in [0 .. n -> Seq(Whole)]
      /\ \A k \in 1 .. n : after[k] = Exhaust(after[k - 1], merges[k])
  BY RulesAre
<1>2. n \in Nat
  BY DEF Lists
<1> HIDE DEF after
<1>3. 0 \in T
  OBVIOUS
<1>4. ASSUME NEW m \in T PROVE m + 1 \in T
  <2>1. SUFFICES ASSUME m + 1 <= n, NEW j \in 1 .. m + 1
                 PROVE  PlacesOf(after[m + 1], merges[j]) = {}
    OBVIOUS
  <2>2. m \in Nat /\ m <= n /\ m \in 0 .. n /\ m + 1 \in 1 .. n /\ (m + 1) - 1 = m
    BY <1>2, <2>1
  <2>3. after[m] \in Seq(Whole) /\ after[m + 1] = Exhaust(after[m], merges[m + 1])
    <3> HIDE DEF n
    <3> QED
      BY <1>1, <2>2
  <2>4. CASE j = m + 1
    BY <2>3, <2>4, ExhaustEnds
  <2>5. CASE j # m + 1
    <3>1. j \in 1 .. m /\ j \in 1 .. (m + 1) - 1
      BY <2>2, <2>5
    <3>2. PlacesOf(after[m], merges[j]) = {}
      BY <2>2, <3>1
    <3>3. Makes(merges[m + 1]) \notin {merges[j][1], merges[j][2]}
      BY <2>2, <3>1, TrainedOrder
    <3> QED
      BY <2>3, <3>2, <3>3, ExhaustKeepsGone
  <2> QED
    BY <2>4, <2>5
<1>5. T = Nat
  <2>1. T \in SUBSET Nat
    OBVIOUS
  <2> HIDE DEF T
  <2> QED
    BY <1>3, <1>4, <2>1, SetInduction
<1>6. ASSUME NEW m \in 0 .. n PROVE Gone(m)
  <2>1. m \in T /\ m <= n
    <3> HIDE DEF T
    <3> QED
      BY <1>2, <1>5
  <2> HIDE DEF Gone
  <2> QED
    BY <2>1
<1> QED
  BY <1>6 DEF after

(* Rules that fit nowhere leave the symbols as they are.                   *)
LEMMA RulesRest ==
    ASSUME merges \in Lists, NEW p, Spelled(p) \in Seq(Whole),
           NEW m \in 0 .. Len(merges), NEW to \in m .. Len(merges),
           \A j \in m + 1 .. to : PlacesOf(RulesOf(merges, p)[m], merges[j]) = {}
    PROVE  RulesOf(merges, p)[to] = RulesOf(merges, p)[m]
<1> DEFINE after == RulesOf(merges, p)
           n == Len(merges)
           T == {d \in Nat : m + d <= to => after[m + d] = after[m]}
<1>1. /\ after \in [0 .. n -> Seq(Whole)]
      /\ \A k \in 1 .. n : after[k] = Exhaust(after[k - 1], merges[k])
  BY RulesAre
<1>2. n \in Nat /\ m \in Nat /\ to \in Nat
  BY DEF Lists
<1>3. \A j \in m + 1 .. to : PlacesOf(after[m], merges[j]) = {}
  OBVIOUS
<1> HIDE DEF after
<1>4. 0 \in T
  BY <1>2
<1>5. ASSUME NEW d \in T PROVE d + 1 \in T
  <2>1. SUFFICES ASSUME m + (d + 1) <= to PROVE after[m + (d + 1)] = after[m]
    OBVIOUS
  <2>2. /\ d \in Nat /\ m + d <= to /\ m + (d + 1) \in 1 .. n /\ (m + (d + 1)) - 1 = m + d
        /\ m + (d + 1) \in m + 1 .. to /\ m \in 0 .. n
    BY <1>2, <2>1
  <2>3. after[m + d] = after[m]
    BY <2>2
  <2>4. after[m + (d + 1)] = Exhaust(after[m], merges[m + (d + 1)])
    <3> HIDE DEF n
    <3> QED
      BY <1>1, <2>2, <2>3
  <2>5. after[m] \in Seq(Whole)
    BY <1>1, <2>2
  <2> QED
    BY <1>3, <2>2, <2>4, <2>5, ExhaustNothing
<1>6. T = Nat
  <2>1. T \in SUBSET Nat
    OBVIOUS
  <2> HIDE DEF T
  <2> QED
    BY <1>4, <1>5, <2>1, SetInduction
<1>7. to - m \in T /\ m + (to - m) = to
  <2> HIDE DEF T
  <2> QED
    BY <1>2, <1>6
<1> QED
  BY <1>2, <1>7 DEF after

(***************************************************************************)
(* bpe_piece is always where some of the rules have been exhausted.        *)
(***************************************************************************)
LEMMA PassIsRule ==
    ASSUME merges \in Lists, Trained, NEW p, Spelled(p) \in Seq(Whole),
           NEW m \in 0 .. Len(merges), NEW s, s = RulesOf(merges, p)[m], Places(s) # {}
    PROVE  \E k \in 0 .. Len(merges) : Merged(s, BestRank(s)) = RulesOf(merges, p)[k]
<1>1. s \in Seq(Whole) /\ Len(merges) \in Nat
  <2>1. Len(merges) \in Nat
    BY DEF Lists
  <2> QED
    BY <2>1, RulesAre
<1>2. PICK k \in 1 .. Len(merges) :
               /\ BestRank(s) = k - 1
               /\ RanksRule(k - 1, merges[k])
               /\ \A j \in 1 .. k - 1 : PlacesOf(s, merges[j]) = {}
  BY <1>1, BestRankIs
<1>3. Merged(s, k - 1) = Exhaust(s, merges[k])
  <2>1. NewSymbol(merges[k])
    BY TrainedNew
  <2> QED
    BY <1>1, <1>2, <2>1, PassExhausts
<1>4. \A j \in 1 .. m : PlacesOf(s, merges[j]) = {}
  BY RulesGone
<1>5. CASE k <= m
  <2>1. k \in 1 .. m
    BY <1>5
  <2>2. Exhaust(s, merges[k]) = s
    BY <1>1, <1>4, <2>1, ExhaustNothing
  <2> QED
    BY <1>2, <1>3, <2>2
<1>6. CASE ~(k <= m)
  <2>1. k - 1 \in m .. Len(merges) /\ \A j \in m + 1 .. k - 1 : j \in 1 .. k - 1
    BY <1>1, <1>6
  <2>2. RulesOf(merges, p)[k - 1] = s
    <3>1. \A j \in m + 1 .. k - 1 : PlacesOf(RulesOf(merges, p)[m], merges[j]) = {}
      BY <1>2, <2>1
    <3> QED
      BY <2>1, <3>1, RulesRest
  <2>3. RulesOf(merges, p)[k] = Exhaust(RulesOf(merges, p)[k - 1], merges[k])
    BY RulesAre
  <2>4. k \in 0 .. Len(merges)
    BY <1>1
  <2> QED
    BY <1>2, <1>3, <2>2, <2>3, <2>4
<1> QED
  BY <1>5, <1>6

LEMMA NoPlaceIsEnd ==
    ASSUME merges \in Lists, NEW p, Spelled(p) \in Seq(Whole),
           NEW m \in 0 .. Len(merges), NEW s, s = RulesOf(merges, p)[m], Places(s) = {}
    PROVE  s = RuleByRule(p)
<1>1. Len(merges) \in Nat /\ DOMAIN merges = 1 .. Len(merges)
  BY DEF Lists
<1>2. ASSUME NEW j \in m + 1 .. Len(merges) PROVE PlacesOf(s, merges[j]) = {}
  <2>1. j \in DOMAIN merges
    BY <1>1
  <2> QED
    BY <2>1 DEF Places, PlacesOf, Ranked
<1>3. Len(merges) \in m .. Len(merges)
  BY <1>1
<1> QED
  BY <1>2, <1>3, RulesRest, RuleByRuleIs

Stepwise(list, p, s) == \E m \in 0 .. Len(list) : s = RulesOf(list, p)[m]

MergeInv ==
    /\ merges \in Lists
    /\ pc = "merge" => Spelled(piece) \in Seq(Whole)
    /\ pc = "merge" /\ Trained => Stepwise(merges, piece, symbols)
    /\ AgreesWithRules

LEMMA MergeInvNext ==
    ASSUME merges' = merges, piece' = piece, merges \in Lists,
           pc' = "merge" => Spelled(piece) \in Seq(Whole),
           pc' = "merge" /\ Trained => Stepwise(merges, piece, symbols'),
           pc' = "look_up" /\ looked' = 0 /\ Trained => symbols' = RuleByRule(piece)
    PROVE  MergeInv'
<1>1. Trained' <=> Trained
  BY DEF Trained
<1>2. RuleByRule(piece)' = RuleByRule(piece)
  <2>1. RuleByRule(piece)' = RulesOf(merges', piece')[Len(merges')]
    BY Zenon DEF RuleByRule, RulesOf
  <2>2. RuleByRule(piece) = RulesOf(merges, piece)[Len(merges)]
    BY RuleByRuleIs
  <2> QED
    BY <2>1, <2>2, Zenon
<1>3. AgreesWithRules'
  BY <1>1, <1>2 DEF AgreesWithRules
<1>4. Stepwise(merges, piece, symbols)' <=> Stepwise(merges, piece, symbols')
  BY Zenon DEF Stepwise
<1> QED
  BY <1>1, <1>3, <1>4 DEF MergeInv

LEMMA MergeInit == Init => MergeInv
<1> SUFFICES ASSUME Init PROVE MergeInv
  OBVIOUS
<1>1. pc = "idle" /\ merges \in Lists
  BY BpeAssumption DEF Init, BpeInit, Lists
<1> QED
  BY <1>1 DEF MergeInv, AgreesWithRules

LEMMA MergeKept ==
    MergeInv /\ UNCHANGED <<merges, pc, piece, symbols, looked>> => MergeInv'
BY MergeInvNext DEF MergeInv, AgreesWithRules

LEMMA MergeCall == IInv' /\ MergeInv /\ CallBpe => MergeInv'
<1> SUFFICES ASSUME IInv', MergeInv, CallBpe PROVE MergeInv'
  OBVIOUS
<1>1. /\ pc' = "merge" /\ merges' = merges
      /\ symbols' = Spelled(piece')
  BY DEF CallBpe, BeginPiece, tables
<1>2. Spelled(piece') \in Seq(Whole)
  BY <1>1 DEF IInv, Types
<1>3. merges' \in Lists
  BY <1>1 DEF MergeInv
<1>4. Stepwise(merges', piece', symbols')
  <2>1. RulesOf(merges', piece')[0] = Spelled(piece')
    BY <1>2, <1>3, RulesAre
  <2>2. 0 \in 0 .. Len(merges')
    BY <1>3 DEF Lists
  <2> QED
    BY <1>1, <2>1, <2>2 DEF Stepwise
<1>5. AgreesWithRules'
  BY <1>1 DEF AgreesWithRules
<1> QED
  BY <1>2, <1>3, <1>4, <1>5 DEF MergeInv

LEMMA MergeBpe == IInv /\ MergeInv /\ Bpe => MergeInv'
<1> SUFFICES ASSUME IInv, MergeInv, Bpe PROVE MergeInv'
  OBVIOUS
<1>1. merges' = merges /\ merges \in Lists
  BY DEF Bpe, MergePass, NothingToMerge, LookUp, Return, tables, MergeInv
<1>2. CASE MergePass
  <2>1. /\ pc = "merge" /\ pc' = "merge" /\ piece' = piece /\ Places(symbols) # {}
        /\ symbols' = Merged(symbols, BestRank(symbols))
    BY <1>2 DEF MergePass
  <2>2. Spelled(piece) \in Seq(Whole)
    BY <2>1 DEF MergeInv
  <2>3. ASSUME Trained PROVE Stepwise(merges, piece, symbols')
    <3>1. PICK m \in 0 .. Len(merges) : symbols = RulesOf(merges, piece)[m]
      BY <2>1, <2>3 DEF MergeInv, Stepwise
    <3>2. \E k \in 0 .. Len(merges) :
             Merged(symbols, BestRank(symbols)) = RulesOf(merges, piece)[k]
      BY <1>1, <2>1, <2>2, <2>3, <3>1, PassIsRule
    <3> QED
      BY <2>1, <3>2 DEF Stepwise
  <2> QED
    BY <1>1, <2>1, <2>2, <2>3, MergeInvNext
<1>3. CASE NothingToMerge
  <2>1. /\ pc = "merge" /\ pc' = "look_up" /\ piece' = piece /\ Places(symbols) = {}
        /\ symbols' = symbols
    BY <1>3 DEF NothingToMerge
  <2>2. Spelled(piece) \in Seq(Whole)
    BY <2>1 DEF MergeInv
  <2>3. ASSUME Trained PROVE symbols' = RuleByRule(piece)
    <3>1. PICK m \in 0 .. Len(merges) : symbols = RulesOf(merges, piece)[m]
      BY <2>1, <2>3 DEF MergeInv, Stepwise
    <3> QED
      BY <1>1, <2>1, <2>2, <3>1, NoPlaceIsEnd
  <2> QED
    BY <1>1, <2>1, <2>3, MergeInvNext
<1>4. CASE LookUp
  <2>1. pc' = "look_up" /\ piece' = piece /\ looked' = looked + 1 /\ looked \in Nat
    BY <1>4 DEF LookUp, IInv, Types
  <2>2. looked' # 0
    BY <2>1
  <2> QED
    BY <1>1, <2>1, <2>2, MergeInvNext
<1>5. CASE Return
  <2>1. pc' = "idle"
    BY <1>5 DEF Return
  <2> QED
    BY <1>1, <2>1 DEF MergeInv, AgreesWithRules
<1> QED
  BY <1>2, <1>3, <1>4, <1>5 DEF Bpe

LEMMA MergeFails == MergeInv /\ EncodeFails => MergeInv'
<1> SUFFICES ASSUME MergeInv, EncodeFails PROVE MergeInv'
  OBVIOUS
<1>1. pc' = "failed" /\ merges' = merges
  BY DEF EncodeFails, LookUpFails, tables
<1> QED
  BY <1>1 DEF MergeInv, AgreesWithRules

LEMMA MergeNext == IInv /\ MergeInv /\ [Next]_vars => MergeInv'
<1> SUFFICES ASSUME IInv, MergeInv, [Next]_vars PROVE MergeInv'
  OBVIOUS
<1>1. IInv'
  BY NextInv
<1>2. ASSUME ReadLine \/ EndOfInput \/ Scan \/ EncodeReturns \/ PrintToken \/ FinishPrompt
             \/ UNCHANGED vars
      PROVE  UNCHANGED <<merges, pc, piece, symbols, looked>>
  BY <1>2 DEF ReadLine, EndOfInput, Scan, EncodeReturns, PrintToken, FinishPrompt, vars,
              bpeVars, tables
<1> QED
  BY <1>1, <1>2, MergeKept, MergeCall, MergeBpe, MergeFails DEF Next

(* For every list that makes a symbol only before the rules that take it,  *)
(* bpe_piece, which takes the best rank of each pass, leaves every piece   *)
(* as the rules applied in order leave it.                                 *)
THEOREM AgreesWithRulesHolds == Spec => []AgreesWithRules
<1>1. Init => IInv /\ MergeInv
  BY InitInv, MergeInit
<1>2. IInv /\ MergeInv /\ [Next]_vars => (IInv /\ MergeInv)'
  BY NextInv, MergeNext
<1>3. MergeInv => AgreesWithRules
  BY DEF MergeInv
<1> QED
  BY <1>1, <1>2, <1>3, PTL DEF Spec
===============================================================================
