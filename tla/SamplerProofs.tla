---------------------------- MODULE SamplerProofs ----------------------------
(***************************************************************************)
(* Proofs about Sampler, for any number of ids, any logits, any history    *)
(* and any options: what sampler_sample may return, although qsort leaves  *)
(* the order of ties open.                                                 *)
(***************************************************************************)
EXTENDS MCSampler, FiniteSetTheorems, WellFoundedInduction, TLAPS

----------------------------------------------------------------------------
(***************************************************************************)
(* Induction over the natural numbers, in terms of sets: what is to be     *)
(* proved of all numbers is that a set of numbers is Nat.                  *)
(***************************************************************************)
Less == {pair \in Nat \X Nat : pair[1] < pair[2]}

LEMMA LessWellFounded == IsWellFoundedOn(Less, Nat)
BY NatLessThanWellFounded DEF OpToRel, Less

LEMMA LeastNumber ==
    ASSUME NEW T \in SUBSET Nat, T # {}
    PROVE  \E least \in T : \A m \in T : least <= m
<1>1. PICK least \in T : \A m \in T : <<m, least>> \notin Less
  BY LessWellFounded, WFMin
<1>2. ASSUME NEW m \in T PROVE least <= m
  <2>1. least \in Nat /\ m \in Nat
    OBVIOUS
  <2>2. ~(m < least)
    BY <1>1, <2>1 DEF Less
  <2> QED
    BY <2>1, <2>2
<1> QED
  BY <1>2

LEMMA SetInduction ==
    ASSUME NEW T \in SUBSET Nat, 0 \in T, \A n \in T : n + 1 \in T
    PROVE  T = Nat
<1> SUFFICES ASSUME T # Nat PROVE FALSE
  OBVIOUS
<1>1. PICK least \in Nat \ T : \A m \in Nat \ T : least <= m
  <2>1. Nat \ T # {}
    OBVIOUS
  <2> QED
    BY <2>1, LeastNumber
<1>2. least - 1 \in T
  BY <1>1
<1> QED
  BY <1>2

(* A function on 0 .. n defined from its value one place before exists.    *)
Recurs(g, n, first, step) ==
    \A k \in 0 .. n : g[k] = IF k = 0 THEN first ELSE step[<<k, g[k - 1]>>]

LEMMA RecursionExists ==
    ASSUME NEW V, NEW first \in V, NEW step \in [Nat \X V -> V], NEW n \in Nat
    PROVE  \E g \in [0 .. n -> V] : Recurs(g, n, first, step)
<1> USE DEF Recurs
<1> DEFINE Good(m, g) == Recurs(g, m, first, step)
           T == {m \in Nat : \E g \in [0 .. m -> V] : Good(m, g)}
<1>1. 0 \in T
  <2>1. [k \in 0 .. 0 |-> first] \in [0 .. 0 -> V]
    OBVIOUS
  <2>2. Good(0, [k \in 0 .. 0 |-> first])
    OBVIOUS
  <2> QED
    BY <2>1, <2>2
<1>2. ASSUME NEW m \in T PROVE m + 1 \in T
  <2>1. PICK g \in [0 .. m -> V] : Good(m, g)
    BY <1>2
  <2> DEFINE h == [k \in 0 .. m + 1 |-> IF k = m + 1 THEN step[<<m + 1, g[m]>>] ELSE g[k]]
  <2>2. m \in Nat /\ step[<<m + 1, g[m]>>] \in V
    OBVIOUS
  <2>3. h \in [0 .. m + 1 -> V]
    BY <2>2
  <2>4. ASSUME NEW k \in 0 .. m + 1
        PROVE  h[k] = IF k = 0 THEN first ELSE step[<<k, h[k - 1]>>]
    <3>1. /\ h[k] = IF k = m + 1 THEN step[<<m + 1, g[m]>>] ELSE g[k]
          /\ k # 0 => h[k - 1] = g[k - 1]
      BY <2>2
    <3>2. CASE k = m + 1
      <4>1. k # 0 /\ k - 1 = m
        BY <2>2, <3>2
      <4> HIDE DEF h
      <4> QED
        BY <3>1, <3>2, <4>1
    <3>3. CASE k # m + 1
      <4>1. k \in 0 .. m
        BY <2>2, <3>3
      <4> QED
        BY <2>1, <3>1, <3>3, <4>1
    <3> QED
      BY <3>2, <3>3
  <2>5. Good(m + 1, h)
    BY <2>4
  <2> HIDE DEF h, Good
  <2> QED
    BY <2>2, <2>3, <2>5
<1>3. T = Nat
  <2> HIDE DEF T
  <2>1. T \in SUBSET Nat
    BY DEF T
  <2> QED
    BY <1>1, <1>2, <2>1, SetInduction
<1> QED
  BY <1>3

----------------------------------------------------------------------------
LEMMA WeightIs ==
    /\ \A gap \in Nat : Weight(gap) \in Nat /\ (gap > 3 => Weight(gap) = 0)
    /\ Weight(0) > 0
<1>1. 2 ^ 3 = 8 /\ 2 ^ 2 = 4 /\ 2 ^ 1 = 2 /\ 2 ^ 0 = 1
  OBVIOUS
<1>2. ASSUME NEW gap \in Nat PROVE Weight(gap) \in Nat /\ (gap > 3 => Weight(gap) = 0)
  <2>1. CASE gap > 3
    BY <2>1 DEF Weight
  <2>2. CASE gap <= 3
    <3>1. gap = 0 \/ gap = 1 \/ gap = 2 \/ gap = 3
      BY <2>2
    <3>2. 3 - gap = 3 \/ 3 - gap = 2 \/ 3 - gap = 1 \/ 3 - gap = 0
      BY <3>1
    <3>3. 2 ^ (3 - gap) \in Nat
      <4>1. ASSUME NEW k, k = 3 \/ k = 2 \/ k = 1 \/ k = 0 PROVE 2 ^ k \in Nat
        <5>1. 2 ^ 3 \in Nat /\ 2 ^ 2 \in Nat /\ 2 ^ 1 \in Nat /\ 2 ^ 0 \in Nat
          OBVIOUS
        <5> QED
          BY <4>1, <5>1, Zenon
      <4> QED
        BY <3>2, <4>1
    <3>4. Weight(gap) = 2 ^ (3 - gap)
      BY <2>2 DEF Weight
    <3> QED
      BY <2>2, <3>3, <3>4
  <2> QED
    BY <2>1, <2>2
<1>3. Weight(0) > 0
  <2>1. Weight(0) = 2 ^ (3 - 0) /\ 3 - 0 = 3
    BY DEF Weight
  <2> QED
    BY <1>1, <2>1
<1> QED
  BY <1>2, <1>3

----------------------------------------------------------------------------
(* The greedy branch.                                                      *)
BestUpTo(values) ==
    CHOOSE f : f = [id \in DOMAIN values |->
        IF id = 0 THEN 0
        ELSE IF values[id] > values[f[id - 1]] THEN id ELSE f[id - 1]]

LEMMA GreedyScanIs ==
    ASSUME NEW n \in Nat \ {0}, NEW values \in [0 .. n - 1 -> Int]
    PROVE  GreedyScan(values) = BestUpTo(values)[n - 1]
<1> DEFINE last == CHOOSE id \in DOMAIN values : \A other \in DOMAIN values : other <= id
<1>1. DOMAIN values = 0 .. n - 1
  OBVIOUS
<1>2. GreedyScan(values) = BestUpTo(values)[last]
  BY DEF GreedyScan, BestUpTo
<1>3. last = n - 1
  BY <1>1
<1> QED
  BY <1>2, <1>3

LEMMA BestUpToIs ==
    ASSUME NEW n \in Nat \ {0}, NEW values \in [0 .. n - 1 -> Int]
    PROVE  \A id \in 0 .. n - 1 :
              BestUpTo(values)[id] = IF id = 0 THEN 0
                                  ELSE IF values[id] > values[BestUpTo(values)[id - 1]]
                                  THEN id ELSE BestUpTo(values)[id - 1]
<1> DEFINE Ns == 0 .. n - 1
           next == [pair \in Nat \X Ns |->
                       IF pair[1] \in Ns /\ values[pair[1]] > values[pair[2]]
                       THEN pair[1] ELSE pair[2]]
           Eq(f) == f = [id \in DOMAIN values |->
                            IF id = 0 THEN 0
                            ELSE IF values[id] > values[f[id - 1]] THEN id ELSE f[id - 1]]
<1>1. next \in [Nat \X Ns -> Ns] /\ 0 \in Ns /\ n - 1 \in Nat
  OBVIOUS
<1>2. PICK g \in [0 .. n - 1 -> Ns] : Recurs(g, n - 1, 0, next)
  <2> HIDE DEF next, Ns
  <2> QED
    BY <1>1, RecursionExists
<1>3. ASSUME NEW id \in Ns
      PROVE  g[id] = IF id = 0 THEN 0
                     ELSE IF values[id] > values[g[id - 1]] THEN id ELSE g[id - 1]
  <2>1. CASE id = 0
    BY <1>2, <2>1 DEF Recurs
  <2>2. CASE id # 0
    <3>1. id \in Nat /\ id - 1 \in Ns /\ g[id - 1] \in Ns
      BY <2>2
    <3>2. g[id] = next[<<id, g[id - 1]>>]
      <4> HIDE DEF next
      <4> QED
        BY <1>2, <2>2 DEF Recurs
    <3>3. next[<<id, g[id - 1]>>] = IF values[id] > values[g[id - 1]] THEN id ELSE g[id - 1]
      BY <3>1
    <3> QED
      BY <2>2, <3>2, <3>3
  <2> QED
    BY <2>1, <2>2
<1>4. Eq(g)
  <2> DEFINE h == [id \in DOMAIN values |->
                     IF id = 0 THEN 0
                     ELSE IF values[id] > values[g[id - 1]] THEN id ELSE g[id - 1]]
  <2>1. DOMAIN g = Ns /\ DOMAIN h = Ns /\ \A id \in Ns : g[id] = h[id]
    BY <1>3
  <2>2. g = [id \in Ns |-> g[id]] /\ h = [id \in Ns |-> h[id]]
    OBVIOUS
  <2> QED
    BY <2>1, <2>2
<1>5. Eq(BestUpTo(values))
  BY <1>4 DEF BestUpTo
<1> DEFINE f == BestUpTo(values)
<1>6. DOMAIN values = Ns
  OBVIOUS
<1> HIDE DEF f
<1>7. \A id \in Ns : f[id] = IF id = 0 THEN 0
                             ELSE IF values[id] > values[f[id - 1]] THEN id ELSE f[id - 1]
  BY <1>5, <1>6 DEF f
<1> QED
  BY <1>7 DEF f

(* The lowest id of the largest score.                                     *)
LEMMA GreedyFindsFirstMaximum ==
    ASSUME NEW n \in Nat \ {0}, NEW values \in [0 .. n - 1 -> Int]
    PROVE  /\ GreedyScan(values) \in 0 .. n - 1
           /\ \A id \in 0 .. n - 1 : values[id] <= values[GreedyScan(values)]
           /\ \A id \in 0 .. n - 1 :
                 id < GreedyScan(values) => values[id] < values[GreedyScan(values)]
<1> DEFINE f == BestUpTo(values)
           Ns == 0 .. n - 1
           T == {k \in Nat : k \in Ns =>
                    /\ f[k] \in 0 .. k
                    /\ \A id \in 0 .. k : values[id] <= values[f[k]]
                    /\ \A id \in 0 .. k : id < f[k] => values[id] < values[f[k]]}
<1>1. \A id \in Ns : f[id] = IF id = 0 THEN 0
                             ELSE IF values[id] > values[f[id - 1]] THEN id ELSE f[id - 1]
  BY BestUpToIs
<1> HIDE DEF f
<1>2. 0 \in T
  <2>1. 0 \in Ns /\ f[0] = 0
    BY <1>1
  <2> QED
    BY <2>1
<1>3. ASSUME NEW k \in T PROVE k + 1 \in T
  <2> SUFFICES ASSUME k + 1 \in Ns
               PROVE  /\ f[k + 1] \in 0 .. k + 1
                      /\ \A id \in 0 .. k + 1 : values[id] <= values[f[k + 1]]
                      /\ \A id \in 0 .. k + 1 : id < f[k + 1] => values[id] < values[f[k + 1]]
    OBVIOUS
  <2>1. k \in Nat /\ k \in Ns /\ k + 1 # 0 /\ (k + 1) - 1 = k
    OBVIOUS
  <2>2. /\ f[k] \in 0 .. k
        /\ \A id \in 0 .. k : values[id] <= values[f[k]]
        /\ \A id \in 0 .. k : id < f[k] => values[id] < values[f[k]]
    BY <2>1
  <2>3. f[k + 1] = IF values[k + 1] > values[f[k]] THEN k + 1 ELSE f[k]
    BY <1>1, <2>1
  <2>4. \A id \in 0 .. k + 1 : id = k + 1 \/ id \in 0 .. k
    BY <2>1
  <2>5. /\ f[k] \in Ns /\ values[f[k]] \in Int /\ values[k + 1] \in Int
        /\ \A id \in 0 .. k : values[id] \in Int
    BY <2>1, <2>2
  <2>6. CASE values[k + 1] > values[f[k]]
    <3>1. f[k + 1] = k + 1
      BY <2>3, <2>6
    <3>2. \A id \in 0 .. k : values[id] < values[k + 1]
      BY <2>2, <2>5, <2>6
    <3> QED
      BY <2>1, <2>4, <2>5, <3>1, <3>2
  <2>7. CASE ~(values[k + 1] > values[f[k]])
    <3>1. f[k + 1] = f[k] /\ values[k + 1] <= values[f[k]]
      BY <2>3, <2>5, <2>7
    <3> QED
      BY <2>1, <2>2, <2>4, <2>5, <3>1
  <2> QED
    BY <2>6, <2>7
<1>4. T = Nat
  <2> HIDE DEF T
  <2>1. T \in SUBSET Nat
    BY DEF T
  <2> QED
    BY <1>2, <1>3, <2>1, SetInduction
<1>5. n - 1 \in Nat /\ n - 1 \in Ns
  OBVIOUS
<1>6. /\ f[n - 1] \in 0 .. n - 1
      /\ \A id \in 0 .. n - 1 : values[id] <= values[f[n - 1]]
      /\ \A id \in 0 .. n - 1 : id < f[n - 1] => values[id] < values[f[n - 1]]
  BY <1>4, <1>5
<1> QED
  BY <1>6, GreedyScanIs DEF f

----------------------------------------------------------------------------
(* The orders qsort may leave.                                             *)
Higher(values, n, id) == {other \in 0 .. n - 1 : values[other] > values[id]}

Sorted(ranking, values, n) ==
    /\ ranking \in [1 .. n -> 0 .. n - 1]
    /\ \A i, j \in 1 .. n : ranking[i] = ranking[j] => i = j
    /\ \A i, j \in 1 .. n : i < j => values[ranking[i]] >= values[ranking[j]]
    /\ \A id \in 0 .. n - 1 : \E i \in 1 .. n : ranking[i] = id

LEMMA RankingIs ==
    ASSUME NEW n \in Nat \ {0}, NEW values \in [0 .. n - 1 -> Int],
           NEW ranking \in Rankings(values, n)
    PROVE  Sorted(ranking, values, n)
<1>1. ranking \in [1 .. n -> 0 .. n - 1]
  BY DEF Rankings
<1>2. \A i, j \in 1 .. n : i < j => ranking[i] # ranking[j] /\ values[ranking[i]] >= values[ranking[j]]
  BY DEF Rankings
<1>3. ASSUME NEW i \in 1 .. n, NEW j \in 1 .. n, ranking[i] = ranking[j] PROVE i = j
  <2>1. i < j \/ j < i \/ i = j
    OBVIOUS
  <2> QED
    BY <1>2, <1>3, <2>1
<1>4. ranking \in Injection(1 .. n, 0 .. n - 1)
  BY <1>1, <1>3 DEF Injection, IsInjective
<1>5. /\ IsFiniteSet(1 .. n) /\ IsFiniteSet(0 .. n - 1)
      /\ Cardinality(1 .. n) = n /\ Cardinality(0 .. n - 1) = n
  <2>1. /\ 0 \in Int /\ 1 \in Int /\ n \in Int /\ n - 1 \in Int /\ ~(1 > n) /\ ~(0 > n - 1)
        /\ (n - 1) - 0 + 1 = n /\ n - 1 + 1 = n
    OBVIOUS
  <2> QED
    BY <2>1, FS_Interval
<1>6. ranking \in Surjection(1 .. n, 0 .. n - 1)
  BY <1>4, <1>5, FS_Injection
<1>7. \A id \in 0 .. n - 1 : \E i \in 1 .. n : ranking[i] = id
  BY <1>6 DEF Surjection
<1> QED
  BY <1>1, <1>2, <1>3, <1>7 DEF Sorted

(* What beats the candidate at place j stands before it.                   *)
LEMMA HigherStandBefore ==
    ASSUME NEW n \in Nat \ {0}, NEW values \in [0 .. n - 1 -> Int],
           NEW ranking \in Rankings(values, n), NEW j \in 1 .. n
    PROVE  /\ \A i \in 1 .. n : values[ranking[i]] > values[ranking[j]] => i < j
           /\ IsFiniteSet(Higher(values, n, ranking[j]))
           /\ Cardinality(Higher(values, n, ranking[j])) < j
<1>1. /\ ranking \in [1 .. n -> 0 .. n - 1]
      /\ \A i, k \in 1 .. n : i < k => values[ranking[i]] >= values[ranking[k]]
      /\ \A id \in 0 .. n - 1 : \E i \in 1 .. n : ranking[i] = id
  <2>1. Sorted(ranking, values, n)
    BY RankingIs
  <2> QED
    BY <2>1 DEF Sorted
<1> DEFINE H == Higher(values, n, ranking[j])
           place == [id \in H |-> CHOOSE i \in 1 .. n : ranking[i] = id]
<1>2. ASSUME NEW i \in 1 .. n, values[ranking[i]] > values[ranking[j]] PROVE i < j
  <2>1. i < j \/ j < i \/ i = j
    OBVIOUS
  <2>2. values[ranking[i]] \in Int /\ values[ranking[j]] \in Int
    BY <1>1
  <2> QED
    BY <1>1, <1>2, <2>1, <2>2, SMTT(30)
<1>3. ASSUME NEW id \in H PROVE place[id] \in 1 .. j - 1 /\ ranking[place[id]] = id
  <2>1. id \in 0 .. n - 1 /\ values[id] > values[ranking[j]]
    BY DEF Higher
  <2>2. place[id] \in 1 .. n /\ ranking[place[id]] = id
    BY <1>1, <2>1
  <2> HIDE DEF place
  <2>3. place[id] < j
    BY <1>2, <2>1, <2>2
  <2> QED
    BY <2>2, <2>3
<1>4. place \in Injection(H, 1 .. j - 1)
  <2>1. place \in [H -> 1 .. j - 1]
    BY <1>3
  <2>2. \A a, b \in H : place[a] = place[b] => a = b
    BY <1>3
  <2> HIDE DEF place, H
  <2> QED
    BY <2>1, <2>2 DEF Injection, IsInjective
<1>5. IsFiniteSet(1 .. j - 1) /\ Cardinality(1 .. j - 1) = j - 1
  <2>1. 1 \in Int /\ j - 1 \in Int /\ (1 > j - 1 => j - 1 = 0) /\ (j - 1) - 1 + 1 = j - 1
    OBVIOUS
  <2> QED
    BY <2>1, FS_Interval
<1>6. IsFiniteSet(H) /\ Cardinality(H) <= j - 1
  BY <1>4, <1>5, FS_Injection
<1>7. Cardinality(H) \in Nat
  BY <1>6, FS_CardinalityType
<1>8. Cardinality(H) < j
  BY <1>6, <1>7
<1> QED
  BY <1>2, <1>6, <1>8

----------------------------------------------------------------------------
(* The probability the kept candidates add up to.                          *)
Gap(ranking, values, i) == values[ranking[1]] - values[ranking[i]]

SumTo(ranking, values) ==
    CHOOSE f : f = [i \in 0 .. Len(ranking) |->
        IF i = 0 THEN 0 ELSE f[i - 1] + Weight(values[ranking[1]] - values[ranking[i]])]

LEMMA MassIsSum == \A ranking, values : Mass(ranking, values) = SumTo(ranking, values)
BY DEF Mass, SumTo

LEMMA GapsAre ==
    ASSUME NEW n \in Nat \ {0}, NEW values \in [0 .. n - 1 -> Int],
           NEW ranking, Sorted(ranking, values, n)
    PROVE  \A i \in 1 .. n : /\ Gap(ranking, values, i) \in Nat
                             /\ Weight(Gap(ranking, values, i)) \in Nat
<1> SUFFICES ASSUME NEW i \in 1 .. n
             PROVE  Gap(ranking, values, i) \in Nat
  BY WeightIs
<1>1. i = 1 \/ 1 < i
  OBVIOUS
<1>2. 1 \in 1 .. n
  OBVIOUS
<1>3. values[ranking[1]] \in Int /\ values[ranking[i]] \in Int
  BY <1>2 DEF Sorted
<1>4. values[ranking[1]] >= values[ranking[i]]
  BY <1>1, <1>2, <1>3 DEF Sorted
<1> QED
  BY <1>3, <1>4 DEF Gap

LEMMA MassIs ==
    ASSUME NEW n \in Nat \ {0}, NEW values \in [0 .. n - 1 -> Int],
           NEW ranking, Sorted(ranking, values, n)
    PROVE  /\ Mass(ranking, values)[0] = 0
           /\ \A i \in 1 .. n : Mass(ranking, values)[i] =
                 Mass(ranking, values)[i - 1] + Weight(Gap(ranking, values, i))
           /\ \A i \in 0 .. n : Mass(ranking, values)[i] \in Nat
<1> DEFINE w == [i \in 1 .. n |-> Weight(values[ranking[1]] - values[ranking[i]])]
           next == [pair \in Nat \X Nat |->
                       IF pair[1] \in 1 .. n THEN pair[2] + w[pair[1]] ELSE 0]
           Eq(f) == f = [i \in 0 .. Len(ranking) |->
                            IF i = 0 THEN 0
                            ELSE f[i - 1] + Weight(values[ranking[1]] - values[ranking[i]])]
<1>1. /\ \A i \in 1 .. n : w[i] \in Nat /\ w[i] = Weight(Gap(ranking, values, i))
      /\ \A i \in 1 .. n : w[i] = Weight(values[ranking[1]] - values[ranking[i]])
  BY GapsAre DEF Gap
<1>2. Len(ranking) = n
  <2>1. ranking \in [1 .. n -> 0 .. n - 1]
    BY DEF Sorted
  <2>2. ranking \in Seq(0 .. n - 1) /\ DOMAIN ranking = 1 .. n
    BY <2>1
  <2> QED
    BY <2>2
<1> HIDE DEF w
<1>3. next \in [Nat \X Nat -> Nat]
  <2>1. ASSUME NEW pair \in Nat \X Nat, pair[1] \in 1 .. n PROVE pair[2] + w[pair[1]] \in Nat
    BY <1>1, <2>1
  <2> QED
    BY <2>1
<1>4. PICK g \in [0 .. n -> Nat] : Recurs(g, n, 0, next)
  <2> HIDE DEF next
  <2> QED
    BY <1>3, RecursionExists
<1>5. ASSUME NEW i \in 0 .. n PROVE g[i] = IF i = 0 THEN 0 ELSE g[i - 1] + w[i]
  <2>1. CASE i = 0
    BY <1>4, <2>1 DEF Recurs
  <2>2. CASE i # 0
    <3>1. i \in 1 .. n /\ i \in Nat /\ i - 1 \in 0 .. n /\ g[i - 1] \in Nat
      BY <2>2
    <3>2. g[i] = next[<<i, g[i - 1]>>]
      <4> HIDE DEF next
      <4> QED
        BY <1>4, <2>2 DEF Recurs
    <3>3. next[<<i, g[i - 1]>>] = g[i - 1] + w[i]
      BY <3>1
    <3> QED
      BY <2>2, <3>2, <3>3
  <2> QED
    BY <2>1, <2>2
<1>6. Eq(g)
  <2> DEFINE h == [i \in 0 .. Len(ranking) |->
                     IF i = 0 THEN 0
                     ELSE g[i - 1] + Weight(values[ranking[1]] - values[ranking[i]])]
  <2>1. ASSUME NEW i \in 0 .. n PROVE g[i] = h[i]
    <3>1. i # 0 => w[i] = Weight(values[ranking[1]] - values[ranking[i]])
      BY <1>1
    <3>2. h[i] = IF i = 0 THEN 0
                 ELSE g[i - 1] + Weight(values[ranking[1]] - values[ranking[i]])
      BY <1>2
    <3> HIDE DEF h
    <3> QED
      BY <1>5, <3>1, <3>2
  <2>2. DOMAIN g = 0 .. n /\ DOMAIN h = 0 .. n
    BY <1>2
  <2>3. g = [i \in 0 .. n |-> g[i]] /\ h = [i \in 0 .. n |-> h[i]]
    BY <1>2
  <2> QED
    BY <2>1, <2>2, <2>3
<1> DEFINE f == Mass(ranking, values)
           T == {i \in Nat : i \in 0 .. n => f[i] \in Nat}
<1>7. Eq(f)
  <2>1. Eq(SumTo(ranking, values))
    BY <1>6 DEF SumTo
  <2> QED
    BY <2>1, MassIsSum
<1> HIDE DEF f
<1>8. /\ f[0] = 0
      /\ \A i \in 1 .. n : f[i] = f[i - 1] + w[i]
  <2>1. \A i \in 0 .. n : f[i] = IF i = 0 THEN 0
                    ELSE f[i - 1] + Weight(values[ranking[1]] - values[ranking[i]])
    BY <1>2, <1>7
  <2>2. 0 \in 0 .. n /\ \A i \in 1 .. n : i \in 0 .. n /\ i # 0
    OBVIOUS
  <2> QED
    BY <1>1, <2>1, <2>2
<1>9. 0 \in T
  BY <1>8
<1>10. ASSUME NEW i \in T PROVE i + 1 \in T
  <2> SUFFICES ASSUME i + 1 \in 0 .. n PROVE f[i + 1] \in Nat
    OBVIOUS
  <2>1. i \in 0 .. n /\ i + 1 \in 1 .. n /\ (i + 1) - 1 = i
    OBVIOUS
  <2>2. f[i] \in Nat /\ w[i + 1] \in Nat
    BY <1>1, <2>1
  <2>3. f[i + 1] = f[i] + w[i + 1]
    BY <1>8, <2>1
  <2> QED
    BY <2>2, <2>3
<1>11. T = Nat
  <2> HIDE DEF T
  <2>1. T \in SUBSET Nat
    BY DEF T
  <2> QED
    BY <1>9, <1>10, <2>1, SetInduction
<1>12. \A i \in 0 .. n : f[i] \in Nat
  <2>1. \A i \in 0 .. n : i \in T
    BY <1>11
  <2> QED
    BY <2>1
<1> QED
  BY <1>1, <1>8, <1>12 DEF f

(* The nucleus is the shortest prefix that reaches its share.              *)
Narrows(o, ranking, values) == o.top_p \in 1 .. 99 /\ ~Undefined(ranking, values)

LEMMA ShareBelowWhole ==
    ASSUME NEW p \in 0 .. 100, NEW m \in Nat
    PROVE  p * m \in Nat /\ 100 * m >= p * m
<1> DEFINE T == {k \in Nat : p * k \in Nat /\ 100 * k >= p * k}
<1>1. 0 \in T
  OBVIOUS
<1>2. ASSUME NEW k \in T PROVE k + 1 \in T
  <2>1. p * (k + 1) = p * k + p
    OBVIOUS
  <2>2. 100 * (k + 1) = 100 * k + 100
    OBVIOUS
  <2>3. p * k \in Nat /\ 100 * k >= p * k /\ k \in Nat
    OBVIOUS
  <2> QED
    BY <2>1, <2>2, <2>3
<1>3. T = Nat
  <2> HIDE DEF T
  <2>1. T \in SUBSET Nat
    BY DEF T
  <2> QED
    BY <1>1, <1>2, <2>1, SetInduction
<1> QED
  BY <1>3

LEMMA TopPIs ==
    ASSUME NEW n \in Nat \ {0}, NEW values \in [0 .. n - 1 -> Int],
           NEW ranking, Sorted(ranking, values, n), NEW o, NEW keep \in 1 .. n
    PROVE  LET t == TopP(o, ranking, values, keep)
               mass == Mass(ranking, values)
           IN  /\ t \in 1 .. keep
               /\ Narrows(o, ranking, values) =>
                     /\ 100 * mass[t] >= o.top_p * mass[keep]
                     /\ \A i \in 1 .. t - 1 : 100 * mass[i] < o.top_p * mass[keep]
<1> DEFINE t == TopP(o, ranking, values, keep)
           mass == Mass(ranking, values)
           reached == {i \in 1 .. keep : 100 * mass[i] >= o.top_p * mass[keep]}
<1>1. CASE ~Narrows(o, ranking, values)
  <2>1. t = keep
    BY <1>1 DEF TopP, Narrows
  <2> QED
    BY <1>1, <2>1
<1>2. CASE Narrows(o, ranking, values)
  <2>1. \A i \in 0 .. n : mass[i] \in Nat
    BY MassIs
  <2>2. o.top_p \in 1 .. 99
    BY <1>2 DEF Narrows
  <2>3. t = CHOOSE i \in reached : \A j \in reached : i <= j
    BY <1>2 DEF TopP, Narrows
  <2> HIDE DEF t, mass
  <2>4. keep \in reached
    <3>1. mass[keep] \in Nat
      BY <2>1
    <3>2. o.top_p \in 0 .. 100
      BY <2>2
    <3>3. 100 * mass[keep] >= o.top_p * mass[keep]
      BY <3>1, <3>2, ShareBelowWhole
    <3> QED
      BY <3>3
  <2>5. reached \in SUBSET Nat /\ reached # {}
    BY <2>4
  <2> HIDE DEF reached
  <2>6. t \in reached /\ \A j \in reached : t <= j
    BY <2>3, <2>5, LeastNumber
  <2> USE DEF reached
  <2>7. ASSUME NEW i \in 1 .. t - 1 PROVE 100 * mass[i] < o.top_p * mass[keep]
    <3>1. t \in 1 .. keep /\ i \in 1 .. keep /\ ~(t <= i)
      BY <2>6
    <3>2. ~(100 * mass[i] >= o.top_p * mass[keep])
      BY <2>6, <3>1
    <3>3. mass[i] \in Nat /\ mass[keep] \in Nat /\ o.top_p \in 0 .. 100
      BY <2>1, <2>2, <3>1
    <3>4. o.top_p * mass[keep] \in Nat
      BY <3>3, ShareBelowWhole
    <3> QED
      BY <3>2, <3>3, <3>4
  <2>8. t \in 1 .. keep /\ 100 * mass[t] >= o.top_p * mass[keep]
    BY <2>6
  <2> QED
    BY <2>7, <2>8 DEF t, mass
<1> QED
  BY <1>1, <1>2

LEMMA MassGrows ==
    ASSUME NEW n \in Nat \ {0}, NEW values \in [0 .. n - 1 -> Int],
           NEW ranking, Sorted(ranking, values, n)
    PROVE  /\ \A i, j \in 0 .. n : i <= j => Mass(ranking, values)[i] <= Mass(ranking, values)[j]
           /\ \A i \in 1 .. n : Mass(ranking, values)[i] > 0
<1> DEFINE mass == Mass(ranking, values)
           T == {k \in Nat : k \in 0 .. n => \A i \in 0 .. k : mass[i] <= mass[k]}
<1>1. /\ mass[0] = 0
      /\ \A i \in 1 .. n : mass[i] = mass[i - 1] + Weight(Gap(ranking, values, i))
      /\ \A i \in 0 .. n : mass[i] \in Nat
      /\ \A i \in 1 .. n : Weight(Gap(ranking, values, i)) \in Nat
  BY MassIs, GapsAre
<1> HIDE DEF mass
<1>2. 0 \in T
  BY <1>1
<1>3. ASSUME NEW k \in T PROVE k + 1 \in T
  <2> SUFFICES ASSUME k + 1 \in 0 .. n, NEW i \in 0 .. k + 1
               PROVE  mass[i] <= mass[k + 1]
    OBVIOUS
  <2>1. k \in 0 .. n /\ k + 1 \in 1 .. n /\ (k + 1) - 1 = k /\ i \in 0 .. n
    OBVIOUS
  <2>2. mass[k + 1] = mass[k] + Weight(Gap(ranking, values, k + 1))
    BY <1>1, <2>1
  <2>3. mass[k] \in Nat /\ Weight(Gap(ranking, values, k + 1)) \in Nat /\ mass[i] \in Nat
    BY <1>1, <2>1
  <2>4. i = k + 1 \/ i \in 0 .. k
    BY <2>1
  <2>5. i \in 0 .. k => mass[i] <= mass[k]
    BY <2>1
  <2> QED
    BY <2>2, <2>3, <2>4, <2>5
<1>4. T = Nat
  <2> HIDE DEF T
  <2>1. T \in SUBSET Nat
    BY DEF T
  <2> QED
    BY <1>2, <1>3, <2>1, SetInduction
<1>5. \A i, j \in 0 .. n : i <= j => mass[i] <= mass[j]
  <2> TAKE i \in 0 .. n, j \in 0 .. n
  <2>1. j \in T
    BY <1>4
  <2> QED
    BY <2>1
<1>6. mass[1] > 0
  <2>1. 1 \in 1 .. n /\ 1 - 1 = 0
    OBVIOUS
  <2>2. Gap(ranking, values, 1) = 0
    <3>1. values[ranking[1]] \in Int
      BY <2>1 DEF Sorted
    <3> QED
      BY <3>1 DEF Gap
  <2>3. mass[1] = mass[0] + Weight(0) /\ mass[1] \in Nat
    BY <1>1, <2>1, <2>2
  <2> QED
    BY <1>1, <2>3, WeightIs
<1>7. ASSUME NEW i \in 1 .. n PROVE mass[i] > 0
  <2>1. 1 \in 0 .. n /\ i \in 0 .. n /\ 1 <= i
    OBVIOUS
  <2>2. mass[1] <= mass[i] /\ mass[1] \in Nat /\ mass[i] \in Nat
    BY <1>1, <1>5, <2>1
  <2> QED
    BY <1>6, <2>2
<1> QED
  BY <1>5, <1>7 DEF mass

(* The candidate the loop stops at has itself a probability, otherwise the *)
(* prefix without it would have reached the share already.                 *)
LEMMA LastKeptHasWeight ==
    ASSUME NEW n \in Nat \ {0}, NEW values \in [0 .. n - 1 -> Int],
           NEW ranking, Sorted(ranking, values, n), NEW o, NEW keep \in 1 .. n,
           Narrows(o, ranking, values)
    PROVE  Weight(Gap(ranking, values, TopP(o, ranking, values, keep))) > 0
<1> DEFINE t == TopP(o, ranking, values, keep)
           mass == Mass(ranking, values)
<1>1. /\ t \in 1 .. keep
      /\ 100 * mass[t] >= o.top_p * mass[keep]
      /\ \A i \in 1 .. t - 1 : 100 * mass[i] < o.top_p * mass[keep]
  BY TopPIs
<1>2. /\ mass[0] = 0
      /\ \A i \in 1 .. n : mass[i] = mass[i - 1] + Weight(Gap(ranking, values, i))
      /\ \A i \in 0 .. n : mass[i] \in Nat
      /\ \A i \in 1 .. n : Weight(Gap(ranking, values, i)) \in Nat
      /\ \A i \in 1 .. n : mass[i] > 0
  BY MassIs, GapsAre, MassGrows
<1> HIDE DEF t, mass
<1>3. t \in 1 .. n /\ t - 1 \in 0 .. n
  BY <1>1
<1>4. /\ mass[t] = mass[t - 1] + Weight(Gap(ranking, values, t))
      /\ mass[t - 1] \in Nat /\ mass[t] \in Nat /\ mass[t] > 0
      /\ Weight(Gap(ranking, values, t)) \in Nat
  BY <1>2, <1>3
<1>5. CASE t = 1
  <2>1. t - 1 = 0
    BY <1>5
  <2>2. mass[t - 1] = 0
    BY <1>2, <2>1
  <2>3. Weight(Gap(ranking, values, t)) > 0
    BY <1>4, <2>2
  <2> QED
    BY <2>3 DEF t
<1>6. CASE t # 1
  <2>1. t - 1 \in 1 .. t - 1
    BY <1>1, <1>6
  <2>2. 100 * mass[t - 1] < o.top_p * mass[keep]
    BY <1>1, <2>1
  <2>3. o.top_p * mass[keep] \in Nat
    <3>1. o.top_p \in 0 .. 100 /\ mass[keep] \in Nat
      BY <1>2 DEF Narrows
    <3> QED
      BY <3>1, ShareBelowWhole
  <2>4. 100 * mass[t - 1] < 100 * mass[t]
    BY <1>1, <1>4, <2>2, <2>3
  <2>5. Weight(Gap(ranking, values, t)) > 0
    BY <1>4, <2>4
  <2> QED
    BY <2>5 DEF t
<1> QED
  BY <1>5, <1>6

----------------------------------------------------------------------------
(* The states of the caller.                                               *)
TypeOK ==
    /\ options \in OptionSets
    /\ logits \in LogitVectors
    /\ history \in Seq(Ids)

LEMMA TypeInvariant == Spec => []TypeOK
<1>1. Init => TypeOK
  BY DEF Init, TypeOK
<1>2. TypeOK /\ [Draw]_vars => TypeOK'
  <2> SUFFICES ASSUME TypeOK, [Draw]_vars PROVE TypeOK'
    OBVIOUS
  <2> USE DEF TypeOK
  <2>1. CASE Draw
    <3>1. Returned \subseteq Ids
      BY SamplerAssumption DEF Returned, SamplerChoices, Ids
    <3>2. history' \in Seq(Ids)
      BY <2>1, <3>1 DEF Draw
    <3> QED
      BY <2>1, <3>2 DEF Draw
  <2>2. CASE UNCHANGED vars
    BY <2>2 DEF vars
  <2> QED
    BY <2>1, <2>2
<1> QED
  BY <1>1, <1>2, PTL DEF Spec

(* What the functions below assume of their arguments.                     *)
Arguments ==
    /\ options.temperature \in Nat /\ options.top_k \in Nat /\ options.top_p \in 0 .. 100
    /\ options.repeat_penalty \in Nat \ {0} /\ options.repeat_last_n \in Nat
    /\ Vocab \in Nat \ {0}
    /\ history \in Seq(Nat)
    /\ logits \in [Ids -> Int]
    /\ \E id \in Ids : logits[id] # NegInf
    /\ \A id \in Ids : logits[id] # NegInf =>
          {logits[id], Penalised(logits[id], options.repeat_penalty)}
             \subseteq NegInf + 4 .. PosInf - 1

LEMMA ArgumentsHold == Spec => []Arguments
<1>1. TypeOK => Arguments
  <2> SUFFICES ASSUME TypeOK PROVE Arguments
    OBVIOUS
  <2>1. /\ options \in OptionSets /\ logits \in [Ids -> LogitValues] /\ history \in Seq(Ids)
        /\ \E id \in Ids : logits[id] # NegInf
    BY DEF TypeOK, LogitVectors
  <2>2. LogitValues \subseteq Int
    BY SamplerAssumption
  <2>3. logits \in [Ids -> Int]
    BY <2>1, <2>2
  <2>4. \A id \in Ids : logits[id] # NegInf => logits[id] \in LogitValues \ {NegInf}
    BY <2>1
  <2>5. history \in Seq(Nat)
    <3>1. Ids \subseteq Nat
      BY SamplerAssumption DEF Ids
    <3> QED
      BY <2>1, <3>1
  <2> QED
    BY <2>1, <2>3, <2>4, <2>5, SamplerAssumption DEF Arguments
<1> QED
  BY <1>1, TypeInvariant, PTL

LEMMA PenaltyLowers ==
    ASSUME NEW logit \in Int, NEW penalty \in Nat \ {0}
    PROVE  Penalised(logit, penalty) \in Int /\ Penalised(logit, penalty) <= logit
<1>1. CASE logit = NegInf
  BY <1>1 DEF Penalised, NegInf
<1>2. CASE logit # NegInf /\ logit < 0
  <2>1. logit * penalty <= logit
    <3> DEFINE T == {k \in Nat : logit * (k + 1) <= logit}
    <3>1. 0 \in T
      OBVIOUS
    <3>2. ASSUME NEW k \in T PROVE k + 1 \in T
      <4>1. logit * ((k + 1) + 1) = logit * (k + 1) + logit
        OBVIOUS
      <4>2. logit * (k + 1) \in Int /\ logit * (k + 1) <= logit
        OBVIOUS
      <4> QED
        BY <1>2, <4>1, <4>2
    <3>3. T = Nat
      <4> HIDE DEF T
      <4>1. T \in SUBSET Nat
        BY DEF T
      <4> QED
        BY <3>1, <3>2, <4>1, SetInduction
    <3>4. penalty - 1 \in Nat /\ (penalty - 1) + 1 = penalty
      OBVIOUS
    <3>5. penalty - 1 \in T
      <4> HIDE DEF T
      <4> QED
        BY <3>3, <3>4
    <3> QED
      BY <3>4, <3>5
  <2> QED
    BY <1>2, <2>1 DEF Penalised
<1>3. CASE logit # NegInf /\ ~(logit < 0)
  <2>1. logit \in Nat /\ logit \div penalty \in Int
    BY <1>3
  <2>2. logit \div penalty <= logit
    BY <1>3
  <2> QED
    BY <1>3, <2>1, <2>2 DEF Penalised
<1> QED
  BY <1>1, <1>2, <1>3

LEMMA AdjustedIs ==
    ASSUME Arguments
    PROVE  /\ adjusted \in [Ids -> Int]
           /\ \A id \in Ids :
                 /\ adjusted[id] <= logits[id]
                 /\ id \notin Recent(options, history) => adjusted[id] = logits[id]
                 /\ logits[id] = NegInf => adjusted[id] = NegInf
                 /\ logits[id] # NegInf => adjusted[id] \in NegInf + 4 .. PosInf - 1
<1> DEFINE penalty == options.repeat_penalty
<1>1. DOMAIN logits = Ids /\ penalty \in Nat \ {0} /\ \A id \in Ids : logits[id] \in Int
  BY DEF Arguments
<1>2. adjusted = [id \in Ids |->
                    IF penalty > 1 /\ id \in Recent(options, history)
                    THEN Penalised(logits[id], penalty) ELSE logits[id]]
  BY <1>1 DEF adjusted, Adjusted
<1>3. ASSUME NEW id \in Ids
      PROVE  /\ adjusted[id] \in Int /\ adjusted[id] <= logits[id]
             /\ id \notin Recent(options, history) => adjusted[id] = logits[id]
             /\ logits[id] = NegInf => adjusted[id] = NegInf
             /\ logits[id] # NegInf => adjusted[id] \in NegInf + 4 .. PosInf - 1
  <2>1. /\ Penalised(logits[id], penalty) \in Int
        /\ Penalised(logits[id], penalty) <= logits[id]
    BY <1>1, PenaltyLowers
  <2>2. logits[id] = NegInf => Penalised(logits[id], penalty) = NegInf
    BY DEF Penalised
  <2>3. logits[id] # NegInf => {logits[id], Penalised(logits[id], penalty)}
                                  \subseteq NegInf + 4 .. PosInf - 1
    BY DEF Arguments
  <2>4. adjusted[id] = IF penalty > 1 /\ id \in Recent(options, history)
                       THEN Penalised(logits[id], penalty) ELSE logits[id]
    BY <1>2
  <2>5. logits[id] \in Int
    BY <1>1
  <2> QED
    BY <2>1, <2>2, <2>3, <2>4, <2>5
<1>4. adjusted \in [Ids -> Int]
  BY <1>2, <1>3
<1> QED
  BY <1>3, <1>4

LEMMA ScoresAre ==
    ASSUME Arguments
    PROVE  /\ scores \in [Ids -> Int]
           /\ options.temperature # Cold => scores = adjusted
<1>1. adjusted \in [Ids -> Int]
  BY AdjustedIs
<1>2. scores = [id \in Ids |->
                  IF options.temperature # Cold \/ adjusted[id] = 0 THEN adjusted[id]
                  ELSE IF adjusted[id] > 0 THEN PosInf ELSE NegInf]
  BY <1>1 DEF scores, Scaled
<1>3. scores \in [Ids -> Int]
  BY <1>1, <1>2 DEF PosInf, NegInf
<1> QED
  BY <1>1, <1>2, <1>3

(* How an id comes to be returned when the temperature is not 0.           *)
DrawnAt(id, ranking, j) ==
    LET topk == TopK(options, Vocab)
        t    == TopP(options, ranking, scores, topk)
    IN  /\ ranking \in Rankings(scores, Vocab) /\ Sorted(ranking, scores, Vocab)
        /\ topk \in 1 .. Vocab /\ t \in 1 .. topk /\ j \in 1 .. t /\ ranking[j] = id
        /\ (options.top_k > 0 => topk <= options.top_k)
        /\ Narrows(options, ranking, scores) => Weight(Gap(ranking, scores, j)) > 0

LEMMA ReturnedIsDrawn ==
    ASSUME Arguments, options.temperature # 0, NEW id \in Returned
    PROVE  \E ranking, j : DrawnAt(id, ranking, j)
<1> DEFINE topk == TopK(options, Vocab)
<1>1. Vocab \in Nat \ {0} /\ Vocab # 0 /\ options.top_k \in Nat
  BY DEF Arguments
<1>2. scores \in [0 .. Vocab - 1 -> Int]
  BY ScoresAre DEF Ids
<1>3. PICK ranking \in Rankings(scores, Vocab) :
         id \in Drawable(ranking, scores, TopP(options, ranking, scores, topk))
  <2>1. Scaled(options, Adjusted(options, logits, history)) = scores
    BY DEF scores, adjusted
  <2> QED
    BY <1>1, <2>1 DEF Returned, SamplerChoices
<1> DEFINE t == TopP(options, ranking, scores, topk)
<1>4. topk \in 1 .. Vocab /\ (options.top_k > 0 => topk <= options.top_k)
  BY <1>1 DEF TopK
<1>5. Sorted(ranking, scores, Vocab)
  BY <1>1, <1>2, RankingIs
<1> HIDE DEF topk
<1>6. t \in 1 .. topk
  BY <1>1, <1>2, <1>4, <1>5, TopPIs
<1>7. Narrows(options, ranking, scores) => Weight(Gap(ranking, scores, t)) > 0
  BY <1>1, <1>2, <1>4, <1>5, LastKeptHasWeight
<1> HIDE DEF t
<1>8. PICK j \in 1 .. t :
         /\ ranking[j] = id
         /\ \/ /\ ~Undefined(ranking, scores)
               /\ Weight(scores[ranking[1]] - scores[ranking[j]]) > 0
            \/ j = t
  BY <1>3 DEF Drawable, t
<1>9. Narrows(options, ranking, scores) => Weight(Gap(ranking, scores, j)) > 0
  BY <1>7, <1>8 DEF Gap
<1>10. DrawnAt(id, ranking, j)
  BY <1>4, <1>5, <1>6, <1>8, <1>9 DEF DrawnAt, topk, t
<1> QED
  BY <1>10

(* The largest score is the one at the head of every order.                *)
LEMMA BestIs ==
    ASSUME Arguments
    PROVE  /\ Best \in Int /\ \E id \in Ids : scores[id] = Best
           /\ \A id \in Ids : scores[id] <= Best
           /\ \A ranking : Sorted(ranking, scores, Vocab) => scores[ranking[1]] = Best
<1> DEFINE g == GreedyScan(scores)
           values == {scores[id] : id \in Ids}
<1>1. Vocab \in Nat \ {0} /\ scores \in [Ids -> Int] /\ scores \in [0 .. Vocab - 1 -> Int]
  BY ScoresAre DEF Arguments, Ids
<1>2. g \in Ids /\ \A id \in Ids : scores[id] <= scores[g]
  BY <1>1, GreedyFindsFirstMaximum DEF Ids
<1> HIDE DEF g
<1>3. \E x \in values : \A y \in values : x >= y
  <2>1. scores[g] \in values /\ \A y \in values : scores[g] >= y
    BY <1>1, <1>2
  <2> QED
    BY <2>1
<1>4. Best \in values /\ \A y \in values : Best >= y
  <2>1. Best = CHOOSE x \in values : \A y \in values : x >= y
    BY DEF Best, Max
  <2> HIDE DEF values
  <2> QED
    BY <1>3, <2>1
<1>5. /\ Best \in Int /\ \E id \in Ids : scores[id] = Best
      /\ \A id \in Ids : scores[id] <= Best
  BY <1>1, <1>4
<1>6. ASSUME NEW ranking, Sorted(ranking, scores, Vocab) PROVE scores[ranking[1]] = Best
  <2>1. PICK id \in 0 .. Vocab - 1 : scores[id] = Best
    BY <1>5 DEF Ids
  <2>2. PICK i \in 1 .. Vocab : ranking[i] = id
    BY <1>6 DEF Sorted
  <2>3. 1 \in 1 .. Vocab /\ (i = 1 \/ 1 < i)
    BY <1>1
  <2>4. ranking[1] \in 0 .. Vocab - 1
    BY <1>6, <2>3 DEF Sorted
  <2>5. i = 1 \/ scores[ranking[1]] >= scores[ranking[i]]
    BY <1>6, <2>3 DEF Sorted
  <2>6. scores[ranking[1]] \in Int /\ scores[ranking[1]] <= Best
    BY <1>1, <1>5, <2>4 DEF Ids
  <2> QED
    BY <1>5, <2>1, <2>2, <2>5, <2>6
<1> QED
  BY <1>5, <1>6

----------------------------------------------------------------------------
(* A greedy call has one possible answer, the lowest id of the largest     *)
(* adjusted logit (sampler.c:97-118), whatever the logits.                 *)
THEOREM GreedyChoosesFirstMaximum == Spec => []GreedyIsFirstMaximum
<1>1. Arguments => GreedyIsFirstMaximum
  <2> SUFFICES ASSUME Arguments, options.temperature = 0
               PROVE  Returned = {Min({id \in Ids : scores[id] = Best})}
    BY DEF GreedyIsFirstMaximum
  <2> DEFINE g == GreedyScan(scores)
             firsts == {id \in Ids : scores[id] = Best}
  <2>1. Vocab \in Nat \ {0} /\ scores \in [0 .. Vocab - 1 -> Int] /\ scores = adjusted
    BY ScoresAre DEF Arguments, Ids, Cold
  <2>2. /\ g \in Ids /\ \A id \in Ids : scores[id] <= scores[g]
        /\ \A id \in Ids : id < g => scores[id] < scores[g]
    BY <2>1, GreedyFindsFirstMaximum DEF Ids
  <2>3. Returned = {g}
    <3>1. Adjusted(options, logits, history) = scores
      BY <2>1 DEF adjusted
    <3>2. Returned = {id \in 0 .. Vocab - 1 : id = GreedyScan(scores)}
      BY <2>1, <3>1 DEF Returned, SamplerChoices
    <3> QED
      BY <2>2, <3>2 DEF Ids
  <2> HIDE DEF g
  <2>4. scores[g] = Best
    <3>1. PICK id \in Ids : scores[id] = Best
      BY BestIs
    <3>2. scores[id] <= scores[g] /\ scores[g] <= Best
      BY <2>2, BestIs
    <3>3. scores[g] \in Int /\ Best \in Int
      BY <2>1, <2>2, BestIs DEF Ids
    <3> QED
      BY <3>1, <3>2, <3>3
  <2>5. g \in firsts /\ \A y \in firsts : g <= y
    <3>1. ASSUME NEW y \in firsts PROVE g <= y
      <4>1. y \in Int /\ g \in Int /\ ~(y < g)
        BY <2>1, <2>2, <2>4 DEF Ids
      <4> QED
        BY <4>1
    <3> QED
      BY <2>2, <2>4, <3>1
  <2>6. firsts \subseteq Int
    BY <2>1 DEF Ids
  <2>7. Min(firsts) = g
    <3> HIDE DEF firsts
    <3>1. Min(firsts) = CHOOSE x \in firsts : \A y \in firsts : x =< y
      BY DEF Min
    <3>2. Min(firsts) \in firsts /\ \A y \in firsts : Min(firsts) <= y
      BY <2>5, <3>1
    <3>3. Min(firsts) <= g /\ g <= Min(firsts) /\ Min(firsts) \in Int /\ g \in Int
      BY <2>5, <2>6, <3>2
    <3> QED
      BY <3>3
  <2> QED
    BY <2>3, <2>7
<1> QED
  BY <1>1, ArgumentsHold, PTL

(* However qsort orders ties, fewer than top_k ids beat one that is drawn  *)
(* (sampler.c:140-142).                                                    *)
THEOREM DrawsWithinTopK == Spec => []WithinTopK
<1>1. Arguments => WithinTopK
  <2> SUFFICES ASSUME Arguments, options.temperature > 0, options.top_k > 0, NEW id \in Returned
               PROVE  Cardinality(Above(id)) < options.top_k
    BY DEF WithinTopK
  <2>1. /\ Vocab \in Nat \ {0} /\ scores \in [0 .. Vocab - 1 -> Int]
        /\ options.temperature # 0 /\ options.top_k \in Nat
    BY ScoresAre DEF Arguments, Ids
  <2>2. PICK ranking, j : DrawnAt(id, ranking, j)
    BY <2>1, ReturnedIsDrawn
  <2>3. /\ ranking \in Rankings(scores, Vocab) /\ j \in 1 .. Vocab /\ ranking[j] = id
        /\ j <= options.top_k
    BY <2>1, <2>2 DEF DrawnAt
  <2>4. /\ IsFiniteSet(Higher(scores, Vocab, id))
        /\ Cardinality(Higher(scores, Vocab, id)) < j
    BY <2>1, <2>3, HigherStandBefore
  <2>5. Cardinality(Higher(scores, Vocab, id)) \in Nat
    BY <2>4, FS_CardinalityType
  <2>6. Above(id) = Higher(scores, Vocab, id)
    BY DEF Above, Higher, Ids
  <2> QED
    BY <2>1, <2>3, <2>4, <2>5, <2>6
<1> QED
  BY <1>1, ArgumentsHold, PTL

(* The penalty lowers and never raises, and reaches only what occurred     *)
(* among the last repeat_last_n tokens (sampler.c:45-46).                  *)
THEOREM PenaltyReachesWindowOnly == Spec => []PenaltyWindow
<1>1. Arguments => PenaltyWindow
  <2> SUFFICES ASSUME Arguments, NEW id \in Ids
               PROVE  LET ages == {Len(history) - i :
                                      i \in {j \in DOMAIN history : history[j] = id}}
                      IN  /\ adjusted[id] <= logits[id]
                          /\ (\A age \in ages : age >= options.repeat_last_n)
                                => adjusted[id] = logits[id]
    BY DEF PenaltyWindow
  <2> DEFINE ages == {Len(history) - i : i \in {j \in DOMAIN history : history[j] = id}}
  <2>1. ASSUME \A age \in ages : age >= options.repeat_last_n
        PROVE  id \notin Recent(options, history)
    <3> SUFFICES ASSUME NEW i \in DOMAIN history, i > Len(history) - options.repeat_last_n,
                        history[i] = id
                 PROVE  FALSE
      BY DEF Recent
    <3>1. Len(history) - i >= options.repeat_last_n
      BY <2>1
    <3>2. options.repeat_last_n \in Nat /\ Len(history) \in Nat /\ i \in Int
      BY DEF Arguments
    <3> QED
      BY <3>1, <3>2
  <2> QED
    BY <2>1, AdjustedIs
<1> QED
  BY <1>1, ArgumentsHold, PTL

LEMMA MaskedLoses == Arguments => MaskedNeverDrawn
<1> DEFINE usable == {id \in Ids : logits[id] # NegInf}
<1> SUFFICES ASSUME Arguments, NEW id \in Returned,
                    \/ options.temperature = 0
                    \/ options.temperature # Cold /\ options.top_p \in 1 .. 99
                    \/ options.temperature # Cold /\ options.top_k \in 1 .. Cardinality(usable)
             PROVE  id \in usable
  BY DEF MaskedNeverDrawn
<1>1. /\ Vocab \in Nat \ {0} /\ Vocab # 0 /\ scores \in [0 .. Vocab - 1 -> Int]
      /\ scores = adjusted /\ Ids = 0 .. Vocab - 1
  BY ScoresAre DEF Arguments, Ids, Cold
<1>2. id \in Ids
  BY <1>1 DEF Returned, SamplerChoices
<1>3. /\ NegInf = -1000 /\ PosInf = 1000
      /\ \A other \in Ids : /\ other \in usable <=> scores[other] > NegInf
                            /\ other \notin usable <=> scores[other] = NegInf
                            /\ other \in usable => scores[other] \in NegInf + 4 .. PosInf - 1
                            /\ scores[other] \in Int
  <2>1. ASSUME NEW other \in Ids
        PROVE  /\ logits[other] = NegInf => adjusted[other] = NegInf
               /\ logits[other] # NegInf => adjusted[other] \in NegInf + 4 .. PosInf - 1
    BY AdjustedIs
  <2>2. ASSUME NEW other \in Ids
        PROVE  /\ other \in usable <=> scores[other] > NegInf
               /\ other \notin usable <=> scores[other] = NegInf
               /\ other \in usable => scores[other] \in NegInf + 4 .. PosInf - 1
               /\ scores[other] \in Int
    <3>1. scores[other] \in Int /\ scores[other] = adjusted[other]
      BY <1>1
    <3>2. other \in usable <=> logits[other] # NegInf
      OBVIOUS
    <3> HIDE DEF usable
    <3> QED
      BY <2>1, <3>1, <3>2, SMTT(30) DEF NegInf, PosInf
  <2> QED
    BY <2>2 DEF NegInf, PosInf
<1>4. PICK some \in Ids : some \in usable
  BY DEF Arguments
<1> HIDE DEF usable
<1>5. CASE options.temperature = 0
  <2>1. id = GreedyScan(scores)
    <3>1. Adjusted(options, logits, history) = scores
      BY <1>1 DEF adjusted
    <3> QED
      BY <1>1, <1>5, <3>1 DEF Returned, SamplerChoices
  <2>2. scores[some] <= scores[id]
    BY <1>1, <1>4, <2>1, GreedyFindsFirstMaximum
  <2>3. scores[some] > NegInf /\ scores[some] \in Int /\ scores[id] \in Int
    BY <1>2, <1>3, <1>4
  <2> QED
    BY <1>2, <1>3, <2>2, <2>3
<1>6. CASE options.temperature # 0
  <2>1. PICK ranking, j : DrawnAt(id, ranking, j)
    BY <1>6, ReturnedIsDrawn
  <2>2. /\ ranking \in Rankings(scores, Vocab) /\ Sorted(ranking, scores, Vocab)
        /\ j \in 1 .. Vocab /\ ranking[j] = id
        /\ options.top_k > 0 => j <= options.top_k
        /\ Narrows(options, ranking, scores) => Weight(Gap(ranking, scores, j)) > 0
    BY <1>1, <2>1 DEF Arguments, DrawnAt
  <2>3. scores[ranking[1]] = Best /\ Best \in Int /\ Best \in NegInf + 4 .. PosInf - 1
    <3>1. PICK top \in Ids : scores[top] = Best
      BY BestIs
    <3>2. scores[some] <= Best /\ scores[some] > NegInf /\ scores[some] \in Int /\ Best \in Int
      BY <1>3, <1>4, BestIs
    <3>3. top \in usable
      BY <1>3, <3>1, <3>2
    <3> QED
      BY <1>3, <2>2, <3>1, <3>2, <3>3, BestIs
  <2>4. CASE options.top_p \in 1 .. 99
    <3>1. Weight(Gap(ranking, scores, j)) > 0
      BY <1>3, <2>2, <2>3, <2>4, SMTT(30) DEF Narrows, Undefined
    <3>2. Gap(ranking, scores, j) \in Nat
      BY <1>1, <2>2, GapsAre
    <3>3. Gap(ranking, scores, j) <= 3
      BY <3>1, <3>2, WeightIs
    <3>4. Gap(ranking, scores, j) = Best - scores[id]
      BY <2>2, <2>3 DEF Gap
    <3>5. scores[id] \in Int /\ Best \in Int /\ Best >= -996
      BY <1>2, <1>3, <2>3
    <3>6. scores[id] > NegInf
      BY <1>3, <3>2, <3>3, <3>4, <3>5
    <3> QED
      BY <1>2, <1>3, <3>6
  <2>5. CASE options.top_k \in 1 .. Cardinality(usable)
    <3> SUFFICES ASSUME id \notin usable PROVE FALSE
      BY <1>2
    <3>1. Higher(scores, Vocab, id) = usable
      <4>1. scores[id] = NegInf
        BY <1>2, <1>3
      <4>2. usable \subseteq Ids
        BY DEF usable
      <4>3. \A other \in Ids : other \in usable <=> scores[other] > scores[id]
        BY <1>3, <4>1
      <4> QED
        BY <1>1, <4>2, <4>3 DEF Higher
    <3>2. IsFiniteSet(usable) /\ Cardinality(usable) < j
      BY <1>1, <2>2, <3>1, HigherStandBefore
    <3>3. Cardinality(usable) \in Nat
      BY <3>2, FS_CardinalityType
    <3> QED
      BY <2>2, <2>5, <3>2, <3>3
  <2> QED
    BY <1>6, <2>4, <2>5
<1> QED
  BY <1>5, <1>6

(* A masked id is out of reach of the greedy branch, of a nucleus smaller  *)
(* than 1 and of a top_k the usable ids fill (main.c:224).                 *)
THEOREM MaskedOutOfReach == Spec => []MaskedNeverDrawn
BY MaskedLoses, ArgumentsHold, PTL

----------------------------------------------------------------------------
(* Sums over some of the places 1 .. n of a ranking.                       *)
Sums(f, v, n, P) ==
    /\ f \in [0 .. n -> Nat] /\ f[0] = 0
    /\ \A i \in 1 .. n : f[i] = f[i - 1] + (IF i \in P THEN v[i] ELSE 0)

PlaceSum(v, n, P) == CHOOSE f : Sums(f, v, n, P)

LEMMA PlaceSumIs ==
    ASSUME NEW n \in Nat, NEW v \in [1 .. n -> Nat], NEW P
    PROVE  Sums(PlaceSum(v, n, P), v, n, P)
<1> DEFINE next == [pair \in Nat \X Nat |->
                       IF pair[1] \in P /\ pair[1] \in 1 .. n THEN pair[2] + v[pair[1]]
                       ELSE pair[2]]
<1>1. next \in [Nat \X Nat -> Nat]
  OBVIOUS
<1>2. PICK g \in [0 .. n -> Nat] : Recurs(g, n, 0, next)
  <2> HIDE DEF next
  <2> QED
    BY <1>1, RecursionExists
<1>3. g[0] = 0
  <2>1. 0 \in 0 .. n
    OBVIOUS
  <2> QED
    BY <1>2, <2>1 DEF Recurs
<1>4. ASSUME NEW i \in 1 .. n PROVE g[i] = g[i - 1] + (IF i \in P THEN v[i] ELSE 0)
  <2>1. i \in Nat /\ i # 0 /\ i - 1 \in 0 .. n /\ i \in 0 .. n /\ g[i - 1] \in Nat
    OBVIOUS
  <2>2. g[i] = next[<<i, g[i - 1]>>]
    <3> HIDE DEF next
    <3> QED
      BY <1>2, <2>1 DEF Recurs
  <2>3. next[<<i, g[i - 1]>>] = IF i \in P THEN g[i - 1] + v[i] ELSE g[i - 1]
    BY <2>1
  <2> QED
    BY <2>1, <2>2, <2>3
<1>5. Sums(g, v, n, P)
  BY <1>3, <1>4 DEF Sums
<1> QED
  BY <1>5 DEF PlaceSum

(* The sums of disjoint sets of places add up.                             *)
LEMMA DisjointSumsAdd ==
    ASSUME NEW n \in Nat, NEW v \in [1 .. n -> Nat], NEW P, NEW Q, P \cap Q = {}
    PROVE  /\ PlaceSum(v, n, P \cup Q)[n] = PlaceSum(v, n, P)[n] + PlaceSum(v, n, Q)[n]
           /\ PlaceSum(v, n, P)[n] \in Nat /\ PlaceSum(v, n, Q)[n] \in Nat
<1> DEFINE f == PlaceSum(v, n, P)
           g == PlaceSum(v, n, Q)
           h == PlaceSum(v, n, P \cup Q)
           T == {i \in Nat : i \in 0 .. n => h[i] = f[i] + g[i]}
<1>1. Sums(f, v, n, P) /\ Sums(g, v, n, Q) /\ Sums(h, v, n, P \cup Q)
  BY PlaceSumIs
<1> HIDE DEF f, g, h
<1>2. 0 \in T
  BY <1>1 DEF Sums
<1>3. ASSUME NEW i \in T PROVE i + 1 \in T
  <2> SUFFICES ASSUME i + 1 \in 0 .. n PROVE h[i + 1] = f[i + 1] + g[i + 1]
    OBVIOUS
  <2>1. i \in 0 .. n /\ i + 1 \in 1 .. n /\ (i + 1) - 1 = i /\ h[i] = f[i] + g[i]
    OBVIOUS
  <2>2. /\ f[i + 1] = f[i] + (IF i + 1 \in P THEN v[i + 1] ELSE 0)
        /\ g[i + 1] = g[i] + (IF i + 1 \in Q THEN v[i + 1] ELSE 0)
        /\ h[i + 1] = h[i] + (IF i + 1 \in P \cup Q THEN v[i + 1] ELSE 0)
        /\ f[i] \in Nat /\ g[i] \in Nat /\ h[i] \in Nat
    BY <1>1, <2>1 DEF Sums
  <2>3. v[i + 1] \in Nat
    BY <2>1
  <2> QED
    BY <2>1, <2>2, <2>3
<1>4. T = Nat
  <2> HIDE DEF T
  <2>1. T \in SUBSET Nat
    BY DEF T
  <2> QED
    BY <1>2, <1>3, <2>1, SetInduction
<1>5. n \in T /\ n \in 0 .. n
  BY <1>4
<1> QED
  BY <1>1, <1>5 DEF Sums, f, g, h

LEMMA NoPlaceSumsToZero ==
    ASSUME NEW n \in Nat, NEW v \in [1 .. n -> Nat]
    PROVE  PlaceSum(v, n, {})[n] = 0
<1>1. {} \cap {} = {} /\ {} \cup {} = {}
  OBVIOUS
<1>2. PlaceSum(v, n, {})[n] = PlaceSum(v, n, {})[n] + PlaceSum(v, n, {})[n]
      /\ PlaceSum(v, n, {})[n] \in Nat
  BY <1>1, DisjointSumsAdd
<1> QED
  BY <1>2

(* A set of places of equal weight sums to the weight times its size.      *)
LEMMA EqualWeightsSum ==
    ASSUME NEW n \in Nat, NEW v \in [1 .. n -> Nat], NEW c \in Nat,
           NEW P \in SUBSET (1 .. n), \A i \in P : v[i] = c
    PROVE  PlaceSum(v, n, P)[n] = c * Cardinality(P)
<1> DEFINE f == PlaceSum(v, n, P)
           Low(i) == P \cap (1 .. i)
           T == {i \in Nat : i \in 0 .. n =>
                    IsFiniteSet(Low(i)) /\ f[i] = c * Cardinality(Low(i))}
<1>1. Sums(f, v, n, P)
  BY PlaceSumIs
<1> HIDE DEF f
<1>2. 0 \in T
  <2>1. Low(0) = {}
    OBVIOUS
  <2>2. IsFiniteSet(Low(0)) /\ Cardinality(Low(0)) = 0
    BY <2>1, FS_EmptySet
  <2>3. f[0] = 0
    BY <1>1 DEF Sums
  <2> QED
    BY <2>2, <2>3
<1>3. ASSUME NEW i \in T PROVE i + 1 \in T
  <2> SUFFICES ASSUME i + 1 \in 0 .. n
               PROVE  IsFiniteSet(Low(i + 1)) /\ f[i + 1] = c * Cardinality(Low(i + 1))
    OBVIOUS
  <2>1. i \in Nat /\ i \in 0 .. n /\ i + 1 \in 1 .. n /\ (i + 1) - 1 = i
    OBVIOUS
  <2>2. IsFiniteSet(Low(i)) /\ f[i] = c * Cardinality(Low(i))
    BY <2>1
  <2>3. f[i + 1] = f[i] + (IF i + 1 \in P THEN v[i + 1] ELSE 0)
    BY <1>1, <2>1 DEF Sums
  <2>4. Cardinality(Low(i)) \in Nat
    BY <2>2, FS_CardinalityType
  <2>5. i + 1 \notin Low(i)
    BY <2>1
  <2>6. CASE i + 1 \in P
    <3>1. Low(i + 1) = Low(i) \cup {i + 1}
      BY <2>1, <2>6
    <3> HIDE DEF Low
    <3>2. IsFiniteSet(Low(i + 1)) /\ Cardinality(Low(i + 1)) = Cardinality(Low(i)) + 1
      BY <2>2, <2>5, <3>1, FS_AddElement
    <3>3. c * (Cardinality(Low(i)) + 1) = c * Cardinality(Low(i)) + c
      BY <2>4
    <3> QED
      BY <2>2, <2>3, <2>6, <3>2, <3>3
  <2>7. CASE i + 1 \notin P
    <3>1. Low(i + 1) = Low(i)
      BY <2>1, <2>7
    <3>2. c * Cardinality(Low(i)) \in Nat
      <4> HIDE DEF Low
      <4> QED
        BY <2>4
    <3> HIDE DEF Low
    <3> QED
      BY <2>2, <2>3, <2>7, <3>1, <3>2
  <2> QED
    BY <2>6, <2>7
<1>4. T = Nat
  <2> HIDE DEF T
  <2>1. T \in SUBSET Nat
    BY DEF T
  <2> QED
    BY <1>2, <1>3, <2>1, SetInduction
<1>5. n \in T /\ n \in 0 .. n
  <2> HIDE DEF T
  <2> QED
    BY <1>4
<1>6. Low(n) = P
  OBVIOUS
<1> QED
  BY <1>5, <1>6 DEF f

----------------------------------------------------------------------------
(* The sums WithinNucleus takes over sets of ids are sums over places.     *)
Fold(best, values, S) ==
    CHOOSE f : f = [s \in SUBSET S |->
        IF s = {} THEN 0
        ELSE Weight(best - values[CHOOSE x \in s : TRUE]) + f[s \ {CHOOSE x \in s : TRUE}]]

LEMMA TotalWeightIsFold == \A S : TotalWeight(S) = Fold(Best, scores, S)[S]
BY DEF TotalWeight, MapThenSumSet, MapThenFoldSet, Fold

Places(ranking, n, S) == {i \in 1 .. n : ranking[i] \in S}

GapWeights(ranking, values, n) == [i \in 1 .. n |-> Weight(Gap(ranking, values, i))]

LEMMA FoldIsPlaceSum ==
    ASSUME NEW n \in Nat \ {0}, NEW values \in [0 .. n - 1 -> Int],
           NEW ranking, Sorted(ranking, values, n), NEW S \in SUBSET (0 .. n - 1)
    PROVE  Fold(values[ranking[1]], values, S)[S] =
              PlaceSum(GapWeights(ranking, values, n), n, Places(ranking, n, S))[n]
<1> DEFINE v == GapWeights(ranking, values, n)
           best == values[ranking[1]]
           some(s) == CHOOSE x \in s : TRUE
           Eq(f) == f = [s \in SUBSET S |->
                            IF s = {} THEN 0
                            ELSE Weight(best - values[CHOOSE x \in s : TRUE])
                                 + f[s \ {CHOOSE x \in s : TRUE}]]
           sum(s) == PlaceSum(v, n, Places(ranking, n, s))[n]
           g == [s \in SUBSET S |-> sum(s)]
<1>1. v \in [1 .. n -> Nat] /\ \A i \in 1 .. n : v[i] = Weight(best - values[ranking[i]])
  BY GapsAre DEF GapWeights, Gap
<1>2. /\ ranking \in [1 .. n -> 0 .. n - 1]
      /\ \A i, j \in 1 .. n : ranking[i] = ranking[j] => i = j
      /\ \A id \in 0 .. n - 1 : \E i \in 1 .. n : ranking[i] = id
  BY DEF Sorted
<1> HIDE DEF v, best
<1>3. sum({}) = 0
  <2>1. Places(ranking, n, {}) = {}
    BY DEF Places
  <2> QED
    BY <1>1, <2>1, NoPlaceSumsToZero
<1>4. ASSUME NEW s \in SUBSET S, s # {}
      PROVE  /\ some(s) \in s /\ s \ {some(s)} \in SUBSET S
             /\ sum(s) = Weight(best - values[some(s)]) + sum(s \ {some(s)})
  <2>1. some(s) \in s
    BY <1>4
  <2>2. some(s) \in 0 .. n - 1
    BY <2>1
  <2> HIDE DEF some
  <2>3. PICK i \in 1 .. n : ranking[i] = some(s)
    BY <1>2, <2>2
  <2> DEFINE P == Places(ranking, n, s)
             Q == Places(ranking, n, s \ {some(s)})
  <2>4. P = {i} \cup Q /\ {i} \cap Q = {}
    BY <1>2, <2>1, <2>3 DEF Places
  <2>5. PlaceSum(v, n, {i})[n] = v[i]
    <3>1. {i} \in SUBSET (1 .. n) /\ v[i] \in Nat /\ \A k \in {i} : v[k] = v[i]
      BY <1>1
    <3>2. PlaceSum(v, n, {i})[n] = v[i] * Cardinality({i})
      BY <1>1, <3>1, EqualWeightsSum
    <3>3. Cardinality({i}) = 1
      BY FS_Singleton
    <3> QED
      BY <3>1, <3>2, <3>3
  <2>6. PlaceSum(v, n, P)[n] = PlaceSum(v, n, {i})[n] + PlaceSum(v, n, Q)[n]
    <3> HIDE DEF P, Q
    <3>1. {i} \cap Q = {} /\ {i} \cup Q = P
      BY <2>4
    <3>2. n \in Nat /\ v \in [1 .. n -> Nat]
      BY <1>1
    <3>3. PlaceSum(v, n, {i} \cup Q)[n] = PlaceSum(v, n, {i})[n] + PlaceSum(v, n, Q)[n]
      BY <3>1, <3>2, DisjointSumsAdd, Zenon
    <3> QED
      BY <3>1, <3>3
  <2> QED
    BY <1>1, <2>1, <2>3, <2>5, <2>6
<1> HIDE DEF sum, some
<1>5. Eq(g)
  <2> DEFINE h == [s \in SUBSET S |->
                     IF s = {} THEN 0
                     ELSE Weight(best - values[some(s)]) + g[s \ {some(s)}]]
  <2>1. ASSUME NEW s \in SUBSET S PROVE g[s] = h[s]
    <3>1. CASE s = {}
      BY <1>3, <3>1
    <3>2. CASE s # {}
      <4>1. g[s] = sum(s) /\ g[s \ {some(s)}] = sum(s \ {some(s)})
        BY <1>4, <3>2
      <4>2. h[s] = Weight(best - values[some(s)]) + g[s \ {some(s)}]
        BY <3>2
      <4> HIDE DEF g, h
      <4> QED
        BY <1>4, <3>2, <4>1, <4>2
    <3> QED
      BY <3>1, <3>2
  <2>2. g = h
    <3>1. g = [s \in SUBSET S |-> g[s]] /\ h = [s \in SUBSET S |-> h[s]]
      OBVIOUS
    <3> HIDE DEF g, h
    <3> QED
      BY <2>1, <3>1
  <2> QED
    BY <2>2 DEF some
<1> DEFINE f == Fold(best, values, S)
<1>6. Eq(f)
  <2> HIDE DEF g
  <2> QED
    BY <1>5 DEF Fold
<1> HIDE DEF f
<1>7. \A s \in SUBSET S : f[s] = IF s = {} THEN 0
                                 ELSE Weight(best - values[some(s)]) + f[s \ {some(s)}]
  BY <1>6 DEF some
<1> DEFINE T == {k \in Nat : \A s \in SUBSET S : Cardinality(s) = k => f[s] = sum(s)}
<1>8. IsFiniteSet(S)
  <2>1. IsFiniteSet(0 .. n - 1)
    <3>1. 0 \in Int /\ n - 1 \in Int
      OBVIOUS
    <3> QED
      BY <3>1, FS_Interval
  <2> QED
    BY <2>1, FS_Subset
<1>9. 0 \in T
  <2>1. ASSUME NEW s \in SUBSET S, Cardinality(s) = 0 PROVE f[s] = sum(s)
    <3>1. s = {}
      BY <1>8, <2>1, FS_Subset, FS_EmptySet
    <3> QED
      BY <1>3, <1>7, <3>1
  <2> QED
    BY <2>1
<1>10. ASSUME NEW k \in T PROVE k + 1 \in T
  <2>1. ASSUME NEW s \in SUBSET S, Cardinality(s) = k + 1 PROVE f[s] = sum(s)
    <3>1. IsFiniteSet(s) /\ k \in Nat
      BY <1>8, FS_Subset
    <3>2. s # {}
      BY <2>1, <3>1, FS_EmptySet
    <3>3. some(s) \in s /\ s \ {some(s)} \in SUBSET S
      BY <1>4, <3>2
    <3>4. Cardinality(s \ {some(s)}) = k
      <4>1. Cardinality(s \ {some(s)}) = Cardinality(s) - 1
        BY <3>1, <3>3, FS_RemoveElement
      <4>2. (k + 1) - 1 = k
        BY <3>1
      <4> QED
        BY <2>1, <4>1, <4>2
    <3>5. f[s \ {some(s)}] = sum(s \ {some(s)})
      BY <3>3, <3>4
    <3> HIDE DEF T
    <3> QED
      BY <1>4, <1>7, <3>2, <3>5
  <2> QED
    BY <2>1
<1>11. T = Nat
  <2> HIDE DEF T
  <2>1. T \in SUBSET Nat
    BY DEF T
  <2> QED
    BY <1>9, <1>10, <2>1, SetInduction
<1>12. Cardinality(S) \in Nat
  BY <1>8, FS_CardinalityType
<1>13. Cardinality(S) \in T
  <2> HIDE DEF T
  <2> QED
    BY <1>11, <1>12
<1>14. f[S] = sum(S)
  BY <1>13
<1> QED
  BY <1>14 DEF f, sum, v, best

(* The mass of the first k candidates.                                     *)
LEMMA PrefixSumIsMass ==
    ASSUME NEW n \in Nat \ {0}, NEW values \in [0 .. n - 1 -> Int],
           NEW ranking, Sorted(ranking, values, n), NEW k \in 0 .. n
    PROVE  PlaceSum(GapWeights(ranking, values, n), n, 1 .. k)[n] = Mass(ranking, values)[k]
<1> DEFINE v == GapWeights(ranking, values, n)
           mass == Mass(ranking, values)
           f == PlaceSum(v, n, 1 .. k)
           T == {i \in Nat : i \in 0 .. n => f[i] = IF i <= k THEN mass[i] ELSE mass[k]}
<1>1. v \in [1 .. n -> Nat] /\ \A i \in 1 .. n : v[i] = Weight(Gap(ranking, values, i))
  BY GapsAre DEF GapWeights
<1>2. /\ mass[0] = 0
      /\ \A i \in 1 .. n : mass[i] = mass[i - 1] + Weight(Gap(ranking, values, i))
      /\ \A i \in 0 .. n : mass[i] \in Nat
  BY MassIs
<1> HIDE DEF v, mass
<1>3. Sums(f, v, n, 1 .. k)
  BY <1>1, PlaceSumIs
<1> HIDE DEF f
<1>4. 0 \in T
  BY <1>2, <1>3 DEF Sums
<1>5. ASSUME NEW i \in T PROVE i + 1 \in T
  <2> SUFFICES ASSUME i + 1 \in 0 .. n
               PROVE  f[i + 1] = IF i + 1 <= k THEN mass[i + 1] ELSE mass[k]
    OBVIOUS
  <2>1. i \in Nat /\ i \in 0 .. n /\ i + 1 \in 1 .. n /\ (i + 1) - 1 = i
        /\ f[i] = IF i <= k THEN mass[i] ELSE mass[k]
    OBVIOUS
  <2>2. /\ f[i + 1] = f[i] + (IF i + 1 \in 1 .. k THEN v[i + 1] ELSE 0)
        /\ mass[i + 1] = mass[i] + v[i + 1]
        /\ f[i] \in Nat /\ v[i + 1] \in Nat
    BY <1>1, <1>2, <1>3, <2>1 DEF Sums
  <2>3. CASE i + 1 <= k
    <3>1. i + 1 \in 1 .. k /\ i <= k
      BY <2>1, <2>3
    <3> QED
      BY <2>1, <2>2, <2>3, <3>1
  <2>4. CASE ~(i + 1 <= k)
    <3>1. i + 1 \notin 1 .. k /\ (i <= k => i = k)
      BY <2>1, <2>4
    <3>2. f[i] = mass[k]
      BY <2>1, <3>1
    <3> QED
      BY <2>2, <2>4, <3>1, <3>2
  <2> QED
    BY <2>3, <2>4
<1>6. T = Nat
  <2> HIDE DEF T
  <2>1. T \in SUBSET Nat
    BY DEF T
  <2> QED
    BY <1>4, <1>5, <2>1, SetInduction
<1>7. n \in T /\ n \in 0 .. n
  <2> HIDE DEF T
  <2> QED
    BY <1>6
<1>8. f[n] = IF n <= k THEN mass[n] ELSE mass[k]
  BY <1>7
<1>9. n <= k => n = k
  OBVIOUS
<1>10. f[n] = mass[k]
  BY <1>8, <1>9
<1> QED
  BY <1>10 DEF f, v, mass

LEMMA PlacesCount ==
    ASSUME NEW n \in Nat \ {0}, NEW values \in [0 .. n - 1 -> Int],
           NEW ranking, Sorted(ranking, values, n), NEW S \in SUBSET (0 .. n - 1)
    PROVE  /\ IsFiniteSet(S) /\ IsFiniteSet(Places(ranking, n, S))
           /\ Cardinality(Places(ranking, n, S)) = Cardinality(S)
<1> DEFINE P == Places(ranking, n, S)
           f == [i \in P |-> ranking[i]]
<1>1. IsFiniteSet(1 .. n)
  <2>1. 1 \in Int /\ n \in Int
    OBVIOUS
  <2> QED
    BY <2>1, FS_Interval
<1>2. P \in SUBSET (1 .. n)
  BY DEF Places
<1>3. IsFiniteSet(P)
  BY <1>1, <1>2, FS_Subset
<1>4. f \in Bijection(P, S)
  <2>1. f \in [P -> S]
    BY DEF Places
  <2>2. \A a, b \in P : f[a] = f[b] => a = b
    BY DEF Sorted, Places
  <2>3. \A id \in S : \E a \in P : f[a] = id
    BY DEF Sorted, Places
  <2> HIDE DEF f, P
  <2>4. f \in Injection(P, S)
    BY <2>1, <2>2 DEF Injection, IsInjective
  <2>5. f \in Surjection(P, S)
    BY <2>1, <2>3 DEF Surjection
  <2> QED
    BY <2>4, <2>5 DEF Bijection
<1>5. ExistsBijection(P, S)
  BY <1>4 DEF ExistsBijection
<1> QED
  BY <1>3, <1>5, FS_Bijection

(* Every set of k ids that no other id beats weighs as much as the first k *)
(* candidates: where they differ they differ in ties.                      *)
LEMMA TopWeighsAsPrefix ==
    ASSUME NEW n \in Nat \ {0}, NEW values \in [0 .. n - 1 -> Int],
           NEW ranking, Sorted(ranking, values, n), NEW k \in 0 .. n,
           NEW S \in SUBSET (0 .. n - 1), Cardinality(S) = k,
           \A in \in S, out \in (0 .. n - 1) \ S : values[in] >= values[out]
    PROVE  Fold(values[ranking[1]], values, S)[S] = Mass(ranking, values)[k]
<1> DEFINE v == GapWeights(ranking, values, n)
           P == Places(ranking, n, S)
           Q == 1 .. k
           Both == P \cap Q
<1>1. /\ n \in Nat /\ v \in [1 .. n -> Nat]
      /\ \A i \in 1 .. n : v[i] = Weight(Gap(ranking, values, i))
  BY GapsAre DEF GapWeights
<1>2. /\ Fold(values[ranking[1]], values, S)[S] = PlaceSum(v, n, P)[n]
      /\ Mass(ranking, values)[k] = PlaceSum(v, n, Q)[n]
  BY FoldIsPlaceSum, PrefixSumIsMass
<1>3. /\ ranking \in [1 .. n -> 0 .. n - 1]
      /\ \A i, j \in 1 .. n : i < j => values[ranking[i]] >= values[ranking[j]]
  BY DEF Sorted
<1>4. P \in SUBSET (1 .. n) /\ Q \in SUBSET (1 .. n) /\ k \in Nat
  BY DEF Places
<1>5. ASSUME NEW a \in P \ Q, NEW b \in Q \ P PROVE v[a] = v[b]
  <2>1. /\ a \in 1 .. n /\ b \in 1 .. n /\ b < a
        /\ ranking[a] \in S /\ ranking[b] \in (0 .. n - 1) \ S
    BY <1>3 DEF Places
  <2>2. values[ranking[a]] >= values[ranking[b]] /\ values[ranking[b]] >= values[ranking[a]]
    BY <1>3, <2>1
  <2>3. values[ranking[a]] \in Int /\ values[ranking[b]] \in Int
    BY <1>3, <2>1
  <2>4. values[ranking[a]] = values[ranking[b]]
    BY <2>2, <2>3
  <2>5. Gap(ranking, values, a) = Gap(ranking, values, b)
    BY <2>4 DEF Gap
  <2> QED
    BY <1>1, <2>1, <2>5
<1>6. /\ IsFiniteSet(P) /\ IsFiniteSet(Q)
      /\ Cardinality(P) = k /\ Cardinality(Q) = k
  <2>1. IsFiniteSet(P) /\ Cardinality(P) = k
    BY PlacesCount
  <2>2. 1 \in Int /\ k \in Int /\ (1 > k => k = 0) /\ k - 1 + 1 = k
    OBVIOUS
  <2>3. IsFiniteSet(Q) /\ Cardinality(Q) = k
    BY <2>2, FS_Interval
  <2> QED
    BY <2>1, <2>3
<1> HIDE DEF v, P, Q
<1>7. /\ IsFiniteSet(P \ Q) /\ IsFiniteSet(Q \ P)
      /\ Cardinality(P \ Q) = Cardinality(Q \ P)
  <2>1. /\ IsFiniteSet(P \ Q) /\ Cardinality(P \ Q) = k - Cardinality(P \cap Q)
        /\ IsFiniteSet(Q \ P) /\ Cardinality(Q \ P) = k - Cardinality(Q \cap P)
    BY <1>6, FS_Difference
  <2>2. P \cap Q = Q \cap P
    OBVIOUS
  <2> QED
    BY <2>1, <2>2
<1>8. /\ PlaceSum(v, n, P)[n] = PlaceSum(v, n, Both)[n] + PlaceSum(v, n, P \ Q)[n]
      /\ PlaceSum(v, n, Q)[n] = PlaceSum(v, n, Both)[n] + PlaceSum(v, n, Q \ P)[n]
  <2>1. /\ Both \cap (P \ Q) = {} /\ Both \cup (P \ Q) = P
        /\ Both \cap (Q \ P) = {} /\ Both \cup (Q \ P) = Q
    OBVIOUS
  <2>2. n \in Nat /\ v \in [1 .. n -> Nat]
    BY <1>1
  <2> HIDE DEF Both
  <2>3. PlaceSum(v, n, Both \cup (P \ Q))[n] = PlaceSum(v, n, Both)[n] + PlaceSum(v, n, P \ Q)[n]
    BY <2>1, <2>2, DisjointSumsAdd, Zenon
  <2>4. PlaceSum(v, n, Both \cup (Q \ P))[n] = PlaceSum(v, n, Both)[n] + PlaceSum(v, n, Q \ P)[n]
    BY <2>1, <2>2, DisjointSumsAdd, Zenon
  <2> QED
    BY <2>1, <2>3, <2>4
<1>9. PlaceSum(v, n, P \ Q)[n] = PlaceSum(v, n, Q \ P)[n]
  <2>1. CASE P \ Q = {}
    <3>1. Q \ P = {}
      <4>1. Cardinality(P \ Q) = 0
        BY <2>1, FS_EmptySet
      <4> QED
        BY <1>7, <4>1, FS_EmptySet
    <3> QED
      BY <2>1, <3>1
  <2>2. CASE P \ Q # {}
    <3>1. Q \ P # {}
      <4>1. Cardinality(P \ Q) # 0
        BY <1>7, <2>2, FS_EmptySet
      <4> QED
        BY <1>7, <4>1, FS_EmptySet
    <3>2. PICK a \in P \ Q, b \in Q \ P : TRUE
      BY <2>2, <3>1
    <3>3. ASSUME NEW c \in Nat, NEW D \in SUBSET (1 .. n), \A i \in D : v[i] = c
          PROVE  PlaceSum(v, n, D)[n] = c * Cardinality(D)
      BY <1>1, <3>3, EqualWeightsSum, SMTT(30)
    <3>4. v[b] \in Nat /\ P \ Q \in SUBSET (1 .. n) /\ Q \ P \in SUBSET (1 .. n)
      BY <1>1, <1>4
    <3>5. (\A i \in P \ Q : v[i] = v[b]) /\ (\A i \in Q \ P : v[i] = v[b])
      BY <1>5
    <3>6. PlaceSum(v, n, P \ Q)[n] = v[b] * Cardinality(P \ Q)
      BY <3>3, <3>4, <3>5
    <3>7. PlaceSum(v, n, Q \ P)[n] = v[b] * Cardinality(Q \ P)
      BY <3>3, <3>4, <3>5
    <3> QED
      BY <1>7, <3>6, <3>7
  <2> QED
    BY <2>1, <2>2
<1>10. PlaceSum(v, n, P)[n] = PlaceSum(v, n, Q)[n]
  BY <1>8, <1>9
<1> QED
  BY <1>2, <1>10

(* The candidates before the last kept one do not reach the share, so      *)
(* neither do the ids that beat a kept one.                                *)
LEMMA HigherBelowShare ==
    ASSUME NEW n \in Nat \ {0}, NEW values \in [0 .. n - 1 -> Int],
           NEW ranking \in Rankings(values, n), NEW o, NEW keep \in 1 .. n,
           Narrows(o, ranking, values), NEW j \in 1 .. TopP(o, ranking, values, keep)
    PROVE  LET H == Higher(values, n, ranking[j])
           IN  100 * Fold(values[ranking[1]], values, H)[H] < o.top_p * Mass(ranking, values)[keep]
<1> DEFINE H == Higher(values, n, ranking[j])
           v == GapWeights(ranking, values, n)
           P == Places(ranking, n, H)
           Q == 1 .. j - 1
           mass == Mass(ranking, values)
           t == TopP(o, ranking, values, keep)
           weight == Fold(values[ranking[1]], values, H)[H]
<1>1. Sorted(ranking, values, n)
  BY RankingIs
<1>2. /\ t \in 1 .. keep /\ \A i \in 1 .. t - 1 : 100 * mass[i] < o.top_p * mass[keep]
      /\ o.top_p \in 1 .. 99
  BY <1>1, TopPIs DEF Narrows
<1>3. /\ mass[0] = 0 /\ \A i \in 0 .. n : mass[i] \in Nat
      /\ \A i, k \in 0 .. n : i <= k => mass[i] <= mass[k]
      /\ \A i \in 1 .. n : mass[i] > 0
  BY <1>1, MassIs, MassGrows
<1> HIDE DEF t
<1>4. j \in 1 .. t /\ j \in 1 .. n /\ j - 1 \in 0 .. n
  <2>1. j \in 1 .. t
    BY DEF t
  <2> QED
    BY <1>2, <2>1
<1>5. weight = PlaceSum(v, n, P)[n] /\ mass[j - 1] = PlaceSum(v, n, Q)[n]
  <2>1. H \in SUBSET (0 .. n - 1)
    BY DEF Higher
  <2> HIDE DEF H
  <2>2. weight = PlaceSum(v, n, P)[n]
    BY <1>1, <2>1, FoldIsPlaceSum
  <2>3. mass[j - 1] = PlaceSum(v, n, Q)[n]
    <3>1. \A k \in 0 .. n :
             PlaceSum(GapWeights(ranking, values, n), n, 1 .. k)[n] = Mass(ranking, values)[k]
      BY <1>1, PrefixSumIsMass
    <3> QED
      BY <1>4, <3>1
  <2> QED
    BY <2>2, <2>3
<1>6. P \subseteq Q
  <2>1. \A i \in 1 .. n : values[ranking[i]] > values[ranking[j]] => i < j
    BY <1>4, HigherStandBefore
  <2> QED
    BY <1>4, <2>1 DEF Places, Higher
<1>7. v \in [1 .. n -> Nat] /\ n \in Nat
  BY <1>1, GapsAre DEF GapWeights
<1> HIDE DEF v, P, Q, mass
<1>8. weight <= mass[j - 1] /\ weight \in Nat
  <2>1. P \cap (Q \ P) = {} /\ P \cup (Q \ P) = Q
    BY <1>6
  <2>2. /\ PlaceSum(v, n, P \cup (Q \ P))[n] = PlaceSum(v, n, P)[n] + PlaceSum(v, n, Q \ P)[n]
        /\ PlaceSum(v, n, P)[n] \in Nat /\ PlaceSum(v, n, Q \ P)[n] \in Nat
    BY <1>7, <2>1, DisjointSumsAdd, Zenon
  <2>3. mass[j - 1] = weight + PlaceSum(v, n, Q \ P)[n] /\ weight \in Nat
    BY <1>5, <2>1, <2>2
  <2> QED
    BY <2>2, <2>3
<1> HIDE DEF weight
<1>9. 100 * mass[j - 1] < o.top_p * mass[keep]
  <2>1. mass[keep] \in Nat /\ mass[keep] > 0
    BY <1>3
  <2>2. CASE j = 1
    <3>1. o.top_p - 1 \in 0 .. 100 /\ o.top_p \in Nat
      <4>1. o.top_p \in 1 .. 99
        BY <1>2
      <4>2. \A p \in 1 .. 99 : p - 1 \in 0 .. 100 /\ p \in Nat
        OBVIOUS
      <4> QED
        BY <4>1, <4>2
    <3>2. (o.top_p - 1) * mass[keep] \in Nat
      BY <2>1, <3>1, ShareBelowWhole
    <3>3. o.top_p * mass[keep] = (o.top_p - 1) * mass[keep] + mass[keep]
      BY <2>1, <3>1
    <3>4. j - 1 = 0
      BY <2>2
    <3> QED
      BY <1>3, <2>1, <3>2, <3>3, <3>4
  <2>3. CASE j # 1
    <3>1. j - 1 \in 1 .. t - 1
      BY <1>2, <1>4, <2>3
    <3> QED
      BY <1>2, <3>1
  <2> QED
    BY <2>2, <2>3
<1>10. 100 * weight < o.top_p * mass[keep]
  <2>1. mass[j - 1] \in Nat
    BY <1>3, <1>4
  <2>2. o.top_p * mass[keep] \in Nat
    <3>1. o.top_p \in 0 .. 100 /\ mass[keep] \in Nat
      BY <1>2, <1>3
    <3> QED
      BY <3>1, ShareBelowWhole
  <2> QED
    BY <1>8, <1>9, <2>1, <2>2
<1> QED
  BY <1>10 DEF weight, mass

(* An id is drawn only when those that beat it do not hold the share top_p *)
(* of what top_k left (sampler.c:158-183), whatever the order of ties and  *)
(* whichever top_k ids the share is taken of.                              *)
THEOREM DrawsWithinNucleus == Spec => []WithinNucleus
<1>1. Arguments => WithinNucleus
  <2> DEFINE size == TopK(options, Vocab)
             Upper(S) == \A in \in S, out \in Ids \ S : scores[in] >= scores[out]
             top == CHOOSE S \in kSubset(size, Ids) :
                       \A in \in S, out \in Ids \ S : scores[in] >= scores[out]
  <2> SUFFICES ASSUME Arguments, options.temperature > 0, options.top_p \in 1 .. 99,
                      Best \notin {NegInf, PosInf}, NEW id \in Returned
               PROVE  100 * TotalWeight(Above(id)) < options.top_p * TotalWeight(top)
    BY DEF WithinNucleus
  <2>1. /\ Vocab \in Nat \ {0} /\ scores \in [0 .. Vocab - 1 -> Int] /\ Ids = 0 .. Vocab - 1
        /\ options.temperature # 0
    BY ScoresAre DEF Arguments, Ids
  <2>2. PICK ranking, j : DrawnAt(id, ranking, j)
    BY <2>1, ReturnedIsDrawn
  <2>3. /\ ranking \in Rankings(scores, Vocab) /\ Sorted(ranking, scores, Vocab)
        /\ size \in 1 .. Vocab /\ j \in 1 .. TopP(options, ranking, scores, size)
        /\ ranking[j] = id
    BY <2>2 DEF DrawnAt
  <2>4. scores[ranking[1]] = Best
    BY <2>3, BestIs
  <2>5. Narrows(options, ranking, scores)
    BY <2>4 DEF Narrows, Undefined
  <2> HIDE DEF size
  <2>6. \E S \in kSubset(size, Ids) : Upper(S)
    <3> DEFINE S == {ranking[i] : i \in 1 .. size}
    <3>1. /\ ranking \in [1 .. Vocab -> 0 .. Vocab - 1]
          /\ \A i, k \in 1 .. Vocab : ranking[i] = ranking[k] => i = k
          /\ \A i, k \in 1 .. Vocab : i < k => scores[ranking[i]] >= scores[ranking[k]]
          /\ \A other \in 0 .. Vocab - 1 : \E i \in 1 .. Vocab : ranking[i] = other
      BY <2>3 DEF Sorted
    <3>2. S \in SUBSET Ids
      BY <2>1, <2>3, <3>1
    <3>3. Places(ranking, Vocab, S) = 1 .. size
      <4>1. 1 .. size \subseteq 1 .. Vocab
        BY <2>1, <2>3
      <4>2. ASSUME NEW i \in 1 .. Vocab PROVE ranking[i] \in S <=> i \in 1 .. size
        BY <3>1, <4>1
      <4> HIDE DEF S
      <4> QED
        BY <4>1, <4>2 DEF Places
    <3>4. Upper(S)
      <4> SUFFICES ASSUME NEW in \in S, NEW out \in Ids \ S PROVE scores[in] >= scores[out]
        OBVIOUS
      <4>1. PICK i \in 1 .. size : ranking[i] = in
        OBVIOUS
      <4>2. PICK k \in 1 .. Vocab : ranking[k] = out
        BY <2>1, <3>1
      <4>3. k \notin 1 .. size
        BY <4>2
      <4>4. i \in 1 .. Vocab /\ i < k
        BY <2>1, <2>3, <4>2, <4>3
      <4> QED
        BY <3>1, <4>1, <4>2, <4>4
    <3> HIDE DEF S
    <3>5. Cardinality(S) = size
      <4>1. Cardinality(S) = Cardinality(1 .. size)
        BY <2>1, <2>3, <3>2, <3>3, PlacesCount
      <4>2. 1 \in Int /\ size \in Int /\ ~(1 > size) /\ size - 1 + 1 = size
        BY <2>1, <2>3
      <4> QED
        BY <4>1, <4>2, FS_Interval
    <3> QED
      BY <3>2, <3>4, <3>5 DEF kSubset
  <2>7. top \in kSubset(size, Ids) /\ Upper(top)
    BY <2>6
  <2> HIDE DEF top
  <2>8. TotalWeight(top) = Mass(ranking, scores)[size]
    <3>1. /\ top \in SUBSET (0 .. Vocab - 1) /\ Cardinality(top) = size /\ size \in 0 .. Vocab
          /\ \A in \in top, out \in (0 .. Vocab - 1) \ top : scores[in] >= scores[out]
      BY <2>1, <2>3, <2>7 DEF kSubset
    <3>2. Fold(scores[ranking[1]], scores, top)[top] = Mass(ranking, scores)[size]
      BY <2>1, <2>3, <3>1, TopWeighsAsPrefix
    <3> QED
      BY <2>4, <3>2, TotalWeightIsFold
  <2>9. Above(id) = Higher(scores, Vocab, ranking[j])
    BY <2>1, <2>3 DEF Above, Higher
  <2> DEFINE H == Above(id)
  <2>10. 100 * Fold(Best, scores, H)[H] < options.top_p * Mass(ranking, scores)[size]
    BY <2>1, <2>3, <2>4, <2>5, <2>9, HigherBelowShare
  <2> QED
    BY <2>8, <2>10, TotalWeightIsFold
<1> QED
  BY <1>1, ArgumentsHold, PTL
=============================================================================
