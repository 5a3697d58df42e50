------------------------- MODULE MatvecKernelProofs -------------------------
(***************************************************************************)
(* Proofs about the matrix-vector kernel: the size of a group is the       *)
(* largest power of two within the limit, the passes of the reduction are  *)
(* free of races, and the element written is the sum of every column once, *)
(* for every device limit, input size and interleaving of the items.       *)
(***************************************************************************)
EXTENDS MatvecKernel, Integers, WellFoundedInduction, TLAPS

----------------------------------------------------------------------------
(***************************************************************************)
(* Induction over the natural numbers, in terms of sets: what is to be     *)
(* proved of all numbers is that a set of numbers is Nat.                  *)
(***************************************************************************)
Less == {pair \in Nat \X Nat : pair[1] < pair[2]}

LEMMA LessWellFounded == IsWellFoundedOn(Less, Nat)
BY NatLessThanWellFounded DEF OpToRel, Less

LEMMA LeastNumber ==
    ASSUME NEW T \in SUBSET Nat, T # {}
    PROVE  \E least \in T : \A m \in T : least <= m
<1>1. PICK least \in T : \A m \in T : <<m, least>> \notin Less
  BY LessWellFounded, WFMin
<1>2. ASSUME NEW m \in T PROVE least <= m
  <2>1. least \in Nat /\ m \in Nat
    OBVIOUS
  <2>2. ~(m < least)
    BY <1>1, <2>1 DEF Less
  <2> QED
    BY <2>1, <2>2
<1> QED
  BY <1>2

LEMMA SetInduction ==
    ASSUME NEW T \in SUBSET Nat, 0 \in T, \A n \in T : n + 1 \in T
    PROVE  T = Nat
<1> SUFFICES ASSUME T # Nat PROVE FALSE
  OBVIOUS
<1>1. PICK least \in Nat \ T : \A m \in Nat \ T : least <= m
  <2>1. Nat \ T # {}
    OBVIOUS
  <2> QED
    BY <2>1, LeastNumber
<1>2. least - 1 \in T
  BY <1>1
<1> QED
  BY <1>2

----------------------------------------------------------------------------
(* Quotients and remainders.                                               *)
LEMMA Quotient ==
    ASSUME NEW x \in Nat, NEW n \in Nat \ {0}
    PROVE  /\ x % n \in 0 .. n - 1
           /\ x \div n \in Nat
           /\ x = n * (x \div n) + (x % n)
OBVIOUS

LEMMA RemainderUnique ==
    ASSUME NEW n \in Nat \ {0}, NEW q \in Nat, NEW r \in 0 .. n - 1
    PROVE  (n * q + r) % n = r
OBVIOUS

LEMMA SmallMultiple ==
    ASSUME NEW n \in Nat \ {0}, NEW q \in Int, n * q < n, n * q > 0 - n
    PROVE  q = 0
<1>1. CASE q >= 1
  <2>1. n * q >= n
    BY <1>1
  <2> QED
    BY <2>1
<1>2. CASE q <= 0 - 1
  <2>1. n * q <= 0 - n
    BY <1>2
  <2> QED
    BY <2>1
<1> QED
  BY <1>1, <1>2

LEMMA SameRemainder ==
    ASSUME NEW n \in Nat \ {0}, NEW x \in Nat, NEW z \in Nat,
           x % n = z % n, x <= z, z < x + n
    PROVE  x = z
<1> DEFINE p == x \div n
           q == z \div n
           r == x % n
<1>1. /\ p \in Nat /\ q \in Nat /\ r \in 0 .. n - 1
      /\ x = n * p + r /\ z = n * q + r
  BY Quotient
<1> HIDE DEF p, q, r
<1>2. q - p \in Int /\ n * (q - p) = z - x
  BY <1>1
<1>3. q - p = 0
  BY <1>2, SmallMultiple
<1> QED
  BY <1>1, <1>3

LEMMA NextRemainder ==
    ASSUME NEW n \in Nat \ {0}, NEW x \in Nat
    PROVE  (x + n) % n = x % n
<1> DEFINE p == x \div n
           r == x % n
<1>1. p \in Nat /\ r \in 0 .. n - 1 /\ x = n * p + r
  BY Quotient
<1> HIDE DEF p, r
<1>2. p + 1 \in Nat /\ x + n = n * (p + 1) + r
  BY <1>1
<1> QED
  BY <1>1, <1>2, RemainderUnique DEF r

LEMMA RemainderOfHalf ==
    ASSUME NEW x \in Nat, NEW s \in Nat \ {0}
    PROVE  x % s = IF x % (2 * s) < s THEN x % (2 * s) ELSE (x % (2 * s)) - s
<1> DEFINE q == x \div (2 * s)
           r == x % (2 * s)
<1>1. q \in Nat /\ r \in 0 .. 2 * s - 1 /\ x = (2 * s) * q + r
  BY Quotient, 2 * s \in Nat \ {0}
<1> HIDE DEF q, r
<1>2. CASE r < s
  <2>1. x = s * (2 * q) + r /\ 2 * q \in Nat /\ r \in 0 .. s - 1
    BY <1>1, <1>2
  <2> QED
    BY <2>1, <1>2, RemainderUnique DEF r
<1>3. CASE ~(r < s)
  <2>1. x = s * (2 * q + 1) + (r - s) /\ 2 * q + 1 \in Nat /\ r - s \in 0 .. s - 1
    BY <1>1, <1>3
  <2> QED
    BY <2>1, <1>3, RemainderUnique DEF r
<1> QED
  BY <1>2, <1>3

----------------------------------------------------------------------------
(* The powers of two: the least set with 1 in it and closed under doubling.*)
Powers == {n \in Nat : \A D \in SUBSET Nat :
                          1 \in D /\ (\A d \in D : 2 * d \in D) => n \in D}

LEMMA PowersInduction ==
    ASSUME NEW D \in SUBSET Nat, 1 \in D, \A d \in D : 2 * d \in D
    PROVE  Powers \subseteq D
BY DEF Powers

LEMMA PowersBuilt ==
    /\ 1 \in Powers
    /\ \A d \in Powers : 2 * d \in Powers
<1>1. ASSUME NEW d \in Powers PROVE 2 * d \in Powers
  <2>1. d \in Nat /\ 2 * d \in Nat
    BY DEF Powers
  <2>2. ASSUME NEW D \in SUBSET Nat, 1 \in D, \A e \in D : 2 * e \in D
        PROVE  2 * d \in D
    BY <2>2, d \in D DEF Powers
  <2> QED
    BY <2>1, <2>2 DEF Powers
<1> QED
  BY <1>1 DEF Powers

LEMMA PowersPositive == Powers \subseteq Nat \ {0}
<1> DEFINE D == Nat \ {0}
<1>1. D \in SUBSET Nat /\ 1 \in D /\ \A d \in D : 2 * d \in D
  OBVIOUS
<1> HIDE DEF D
<1>2. Powers \subseteq D
  BY <1>1, PowersInduction
<1> QED
  BY <1>2 DEF D

LEMMA PowersHalve ==
    ASSUME NEW n \in Powers, n # 1
    PROVE  n = 2 * (n \div 2) /\ n \div 2 \in Powers
<1> DEFINE D == {1} \cup {m \in Nat : \E k \in Powers : m = 2 * k}
<1>1. D \in SUBSET Nat /\ 1 \in D
  OBVIOUS
<1>2. ASSUME NEW d \in D PROVE 2 * d \in D
  <2>1. d \in Powers
    BY <1>2, PowersBuilt
  <2>2. 2 * d \in Nat
    BY <2>1, PowersPositive
  <2> QED
    BY <2>1, <2>2
<1> HIDE DEF D
<1>3. n \in D
  BY <1>1, <1>2, PowersInduction
<1>4. PICK k \in Powers : n = 2 * k
  BY <1>3 DEF D
<1>5. k \in Nat /\ (2 * k) \div 2 = k
  BY <1>4, PowersPositive
<1> QED
  BY <1>4, <1>5

LEMMA PowersApart ==
    ASSUME NEW a \in Powers, NEW b \in Powers, a < b
    PROVE  2 * a <= b
<1> DEFINE D == {d \in Powers : \A e \in Powers : d < e => 2 * d <= e}
<1>1. D \in SUBSET Nat
  BY PowersPositive
<1>2. 1 \in D
  BY PowersBuilt, PowersPositive
<1>3. ASSUME NEW d \in D PROVE 2 * d \in D
  <2>1. d \in Powers /\ d \in Nat /\ 2 * d \in Powers
    BY PowersBuilt, PowersPositive
  <2>2. ASSUME NEW e \in Powers, 2 * d < e PROVE 2 * (2 * d) <= e
    <3>1. e \in Nat /\ e # 1 /\ d # 0
      BY <2>1, <2>2, PowersPositive
    <3>2. e = 2 * (e \div 2) /\ e \div 2 \in Powers /\ e \div 2 \in Nat
      BY <3>1, PowersHalve, PowersPositive
    <3>3. d < e \div 2
      BY <2>1, <2>2, <3>2
    <3>4. 2 * d <= e \div 2
      BY <3>2, <3>3
    <3> QED
      BY <2>1, <3>2, <3>4
  <2> QED
    BY <2>1, <2>2
<1> HIDE DEF D
<1>4. a \in D
  BY <1>1, <1>2, <1>3, PowersInduction
<1> QED
  BY <1>4 DEF D

----------------------------------------------------------------------------
(* choose_work_group_size.                                                 *)
LEMMA DoublingExists ==
    ASSUME NEW L \in Nat \ {0}, NEW limit \in Nat, limit <= L
    PROVE  \E g \in [1 .. 2 * L -> Nat] :
              g = [size \in 1 .. 2 * L |->
                      IF 2 * size <= limit THEN g[2 * size] ELSE size]
<1> DEFINE Eq(g, size) == g[size] = IF 2 * size <= limit THEN g[2 * size] ELSE size
           Good(g, m) == \A size \in 1 .. 2 * L : size > 2 * L - m => Eq(g, size)
           T == {m \in Nat : \E g \in [1 .. 2 * L -> Nat] : Good(g, m)}
<1>1. 0 \in T
  <2>1. [size \in 1 .. 2 * L |-> 0] \in [1 .. 2 * L -> Nat]
    OBVIOUS
  <2>2. Good([size \in 1 .. 2 * L |-> 0], 0)
    OBVIOUS
  <2> QED
    BY <2>1, <2>2
<1>2. ASSUME NEW m \in T PROVE m + 1 \in T
  <2>1. PICK g \in [1 .. 2 * L -> Nat] : Good(g, m)
    BY <1>2
  <2> DEFINE p == 2 * L - m
             value == IF 2 * p <= limit THEN g[2 * p] ELSE p
             h == [size \in 1 .. 2 * L |-> IF size = p THEN value ELSE g[size]]
  <2>2. m \in Nat /\ p \in Int
    OBVIOUS
  <2>3. CASE p < 1
    <3>1. Good(g, m + 1)
      BY <2>1, <2>2, <2>3
    <3> HIDE DEF Good
    <3> QED
      BY <2>1, <2>2, <3>1
  <2>4. CASE p >= 1
    <3>1. value \in Nat
      <4>1. 2 * p <= limit => 2 * p \in 1 .. 2 * L
        BY <2>2, <2>4
      <4> QED
        BY <2>2, <2>4, <4>1
    <3>2. h \in [1 .. 2 * L -> Nat]
      BY <3>1
    <3>3. ASSUME NEW size \in 1 .. 2 * L, size > 2 * L - (m + 1)
          PROVE  Eq(h, size)
      <4>1. size >= p /\ size \in Nat
        BY <2>2, <3>3
      <4>2. 2 * size # p
        BY <2>2, <2>4, <4>1
      <4>3. 2 * size <= limit => 2 * size \in 1 .. 2 * L /\ h[2 * size] = g[2 * size]
        BY <4>1, <4>2
      <4>4. CASE size = p
        <5>1. h[size] = value
          BY <4>4
        <5> HIDE DEF h, p
        <5> QED
          BY <4>3, <4>4, <5>1
      <4>5. CASE size # p
        <5>1. h[size] = g[size] /\ Eq(g, size)
          BY <2>1, <2>2, <4>1, <4>5
        <5> HIDE DEF h, p
        <5> QED
          BY <4>3, <5>1
      <4> QED
        BY <4>4, <4>5
    <3>4. Good(h, m + 1)
      BY <3>3
    <3> HIDE DEF Good, h
    <3> QED
      BY <2>2, <3>2, <3>4
  <2> HIDE DEF T
  <2> QED
    BY <2>2, <2>3, <2>4
<1>3. 2 * L \in T
  <2> HIDE DEF T
  <2>1. T \in SUBSET Nat
    BY DEF T
  <2> QED
    BY <1>1, <1>2, <2>1, SetInduction
<1>4. PICK g \in [1 .. 2 * L -> Nat] : Good(g, 2 * L)
  BY <1>3
<1>5. \A size \in 1 .. 2 * L : Eq(g, size)
  BY <1>4
<1>6. g = [size \in 1 .. 2 * L |-> IF 2 * size <= limit THEN g[2 * size] ELSE size]
  BY <1>5
<1> QED
  BY <1>6

(* The size of a group is a power of two, at most the limit the device and *)
(* the program set (or 1, when the device reports less than one item), and *)
(* no larger power of two is within it (choose_work_group_size).           *)
THEOREM GroupSizeIsLargestPower ==
    ASSUME NEW max \in Nat
    PROVE  LET limit == Smaller(max, GroupLimit)
           IN  /\ GroupSize(max) \in Powers
               /\ GroupSize(max) = 1 \/ GroupSize(max) <= limit
               /\ limit < 2 * GroupSize(max)
<1> DEFINE L == GroupLimit
           limit == Smaller(max, GroupLimit)
           double[size \in 1 .. 2 * GroupLimit] ==
               IF 2 * size <= limit THEN double[2 * size] ELSE size
<1>1. L \in Nat \ {0} /\ limit \in Nat /\ limit <= L
  BY KernelAssumption DEF Smaller
<1>2. double = [size \in 1 .. 2 * L |-> IF 2 * size <= limit THEN double[2 * size] ELSE size]
  <2>1. double = CHOOSE g : g = [size \in 1 .. 2 * L |->
                                    IF 2 * size <= limit THEN g[2 * size] ELSE size]
    OBVIOUS
  <2>2. \E g : g = [size \in 1 .. 2 * L |-> IF 2 * size <= limit THEN g[2 * size] ELSE size]
    <3> HIDE DEF L, limit
    <3> QED
      BY <1>1, DoublingExists
  <2> HIDE DEF L, limit, double
  <2> QED
    BY <2>1, <2>2
<1>3. GroupSize(max) = double[1]
  BY DEF GroupSize
<1> HIDE DEF L, limit, double
<1> DEFINE Right(s) == /\ s \in Powers
                       /\ s = 1 \/ s <= limit
                       /\ limit < 2 * s
           T == {m \in Nat : \A s \in Powers :
                   s <= 2 * L /\ s >= 2 * L - m /\ (s = 1 \/ s <= limit) => Right(double[s])}
<1>4. ASSUME NEW s \in Powers, s <= 2 * L
      PROVE  double[s] = IF 2 * s <= limit THEN double[2 * s] ELSE s
  BY <1>1, <1>2, <1>4, PowersPositive
<1>5. 0 \in T
  <2>1. ASSUME NEW s \in Powers, s = 2 * L, s = 1 \/ s <= limit PROVE FALSE
    BY <1>1, <2>1
  <2> QED
    BY <1>1, <2>1, PowersPositive
<1>6. ASSUME NEW m \in T PROVE m + 1 \in T
  <2>1. ASSUME NEW s \in Powers, s <= 2 * L, s >= 2 * L - (m + 1), s = 1 \/ s <= limit
        PROVE  Right(double[s])
    <3>1. m \in Nat /\ s \in Nat \ {0} /\ 2 * s \in Powers
      BY PowersBuilt, PowersPositive
    <3>2. CASE 2 * s <= limit
      <4>1. 2 * s <= 2 * L /\ 2 * s >= 2 * L - m
        BY <1>1, <2>1, <3>1, <3>2
      <4>2. Right(double[2 * s])
        BY <3>1, <3>2, <4>1
      <4> HIDE DEF Right
      <4> QED
        BY <1>4, <2>1, <3>2, <4>2
    <3>3. CASE ~(2 * s <= limit)
      BY <1>1, <1>4, <2>1, <3>1, <3>3
    <3> QED
      BY <3>2, <3>3
  <2> HIDE DEF Right
  <2> QED
    BY <2>1
<1>7. 2 * L \in T
  <2> HIDE DEF T
  <2>1. T \in SUBSET Nat
    BY DEF T
  <2> QED
    BY <1>1, <1>5, <1>6, <2>1, SetInduction
<1>8. Right(double[1])
  BY <1>1, <1>7, PowersBuilt
<1> QED
  BY <1>3, <1>8 DEF limit

----------------------------------------------------------------------------
(* The inductive invariant.  An item with stride s has folded the partial  *)
(* sums down to 2 * s of them (one, when no stride is left).               *)
Width(t) == IF stride[t] = 0 THEN 1 ELSE 2 * stride[t]

(* The columns that are to be in partial[u] when w partial sums are left.  *)
Residues(u, w) == [c \in Columns |-> IF (c % work_group_size) % w = u THEN 1 ELSE 0]

Typed ==
    /\ work_group_size \in Powers /\ input_size \in Nat \ {0}
    /\ pc \in [Items -> {"load", "barrier", "reduce", "done"}]
    /\ i \in [Items -> Nat]
    /\ sum \in [Items -> [Columns -> Nat]]
    /\ DOMAIN partial = Items
    /\ stride \in [Items -> Nat]
    /\ arrivals \in [Items -> Nat]

Loading == \A t \in Items :
    /\ i[t] % work_group_size = t
    /\ sum[t] = [c \in Columns |-> IF c % work_group_size = t /\ c < i[t] THEN 1 ELSE 0]

Strides == \A t \in Items :
    /\ stride[t] \in Powers \cup {0}
    /\ 2 * stride[t] <= work_group_size
    /\ pc[t] = "load" <=> arrivals[t] = 0
    /\ arrivals[t] = 0 => stride[t] = work_group_size \div 2
    /\ arrivals[t] = 1 => stride[t] = work_group_size \div 2
    /\ pc[t] = "done" => stride[t] = 0

(* No item is more than one barrier ahead of another one, and one that is  *)
(* ahead waits for it.                                                     *)
Lockstep == \A t, s \in Items :
    /\ arrivals[t] <= arrivals[s] + 1
    /\ arrivals[t] = arrivals[s] => stride[t] = stride[s]
    /\ arrivals[t] = arrivals[s] + 1 =>
          /\ pc[t] = "barrier"
          /\ arrivals[s] > 0 => stride[t] = stride[s] \div 2
    /\ pc[t] \in {"reduce", "done"} => arrivals[s] >= arrivals[t]

(* A partial sum that is still folded into is right for the width its item *)
(* has reached, ...                                                        *)
Live == \A u \in Items :
    arrivals[u] > 0 /\ u < Width(u) => partial[u] = Residues(u, Width(u))

(* ... and one that is not keeps what it had when it was last folded into. *)
Retired == \A u \in Items : \A s \in Powers :
    arrivals[u] > 0 /\ 2 * s <= work_group_size /\ Width(u) <= 2 * s /\ s <= u /\ u < 2 * s
        => partial[u] = Residues(u, 2 * s)

KernelInv == Typed /\ Loading /\ Strides /\ Lockstep /\ Live /\ Retired /\ SumExact

LEMMA ItemsAreNumbers ==
    ASSUME Typed
    PROVE  /\ work_group_size \in Nat \ {0}
           /\ \A t \in Items : t \in Nat /\ t < work_group_size
           /\ Columns \subseteq Nat
           /\ 0 \in Columns
<1>1. work_group_size \in Nat \ {0}
  BY PowersPositive DEF Typed
<1> QED
  BY <1>1 DEF Typed, Items, Columns

LEMMA StrideHalves ==
    ASSUME NEW s \in Powers
    PROVE  /\ s \div 2 \in Powers \cup {0}
           /\ (IF s \div 2 = 0 THEN 1 ELSE 2 * (s \div 2)) = s
           /\ 2 * (s \div 2) <= s
           /\ s \in Nat \ {0}
<1>1. CASE s = 1
  BY <1>1
<1>2. CASE s # 1
  BY <1>2, PowersHalve, PowersPositive
<1> QED
  BY <1>1, <1>2

LEMMA InitKernelInv == Init => KernelInv
<1> SUFFICES ASSUME Init PROVE KernelInv
  OBVIOUS
<1>1. PICK max \in DeviceLimits : work_group_size = GroupSize(max)
  BY DEF Init
<1>2. work_group_size \in Powers
  BY <1>1, GroupSizeIsLargestPower, KernelAssumption
<1>3. work_group_size \in Nat \ {0} /\ work_group_size \div 2 \in Nat
  BY <1>2, PowersPositive
<1>4. \A t \in Items : t \in Nat /\ t < work_group_size
  BY <1>3 DEF Items
<1>5. Typed
  BY <1>2, <1>3, <1>4, KernelAssumption DEF Init, Typed, Nothing
<1>6. Loading
  <2>1. ASSUME NEW t \in Items
        PROVE  /\ i[t] % work_group_size = t
               /\ sum[t] = [c \in Columns |->
                              IF c % work_group_size = t /\ c < i[t] THEN 1 ELSE 0]
    <3>1. i[t] = t /\ sum[t] = Nothing
      BY DEF Init
    <3>2. work_group_size * 0 + t = t /\ t \in 0 .. work_group_size - 1
      BY <1>3, <1>4
    <3>3. t % work_group_size = t
      BY <1>3, <3>2, RemainderUnique
    <3>4. ASSUME NEW c \in Columns PROVE ~(c % work_group_size = t /\ c < t)
      <4>1. c \in Nat
        BY <1>5, ItemsAreNumbers
      <4>2. t < c + work_group_size
        BY <1>3, <1>4, <4>1
      <4> QED
        BY <1>3, <1>4, <3>3, <4>1, <4>2, SameRemainder
    <3> QED
      BY <3>1, <3>3, <3>4 DEF Nothing
  <2> QED
    BY <2>1 DEF Loading
<1>7. Strides
  BY <1>2, <1>3, StrideHalves DEF Strides, Init
<1>8. Lockstep
  BY <1>3 DEF Lockstep, Init
<1>9. Live /\ Retired /\ SumExact
  BY DEF Live, Retired, SumExact, Init
<1> QED
  BY <1>5, <1>6, <1>7, <1>8, <1>9 DEF KernelInv

----------------------------------------------------------------------------
(* What an item finds in the place it folds in.                            *)
LEMMA Partner ==
    ASSUME KernelInv, NEW t \in Items, Folds(t)
    PROVE  /\ stride[t] \in Powers
           /\ t + stride[t] \in Items
           /\ partial[t + stride[t]] = Residues(t + stride[t], 2 * stride[t])
           /\ partial[t] = Residues(t, 2 * stride[t])
<1> DEFINE s == stride[t]
           u == t + s
<1>1. /\ t \in Nat /\ s \in Nat /\ t < s /\ pc[t] = "reduce" /\ s \in Powers
      /\ 2 * s <= work_group_size /\ work_group_size \in Nat
  BY ItemsAreNumbers DEF KernelInv, Typed, Strides, Folds
<1>2. u \in Items /\ s <= u /\ u < 2 * s /\ t < 2 * s /\ u \in Nat
  BY <1>1 DEF Items
<1>3. arrivals[t] \in Nat /\ arrivals[u] \in Nat /\ arrivals[t] > 0 /\ stride[u] \in Nat
  BY <1>1, <1>2 DEF KernelInv, Typed, Strides
<1>4. arrivals[u] = arrivals[t] \/ arrivals[u] = arrivals[t] + 1
  BY <1>1, <1>2, <1>3 DEF KernelInv, Lockstep
<1>5. Width(t) = 2 * s
  BY <1>1 DEF Width
<1>6. partial[t] = Residues(t, 2 * s)
  BY <1>1, <1>2, <1>3, <1>5 DEF KernelInv, Live
<1>7. partial[u] = Residues(u, 2 * s)
  <2>1. CASE arrivals[u] = arrivals[t]
    <3>1. stride[u] = s
      BY <1>2, <2>1 DEF KernelInv, Lockstep
    <3>2. Width(u) = 2 * s
      BY <3>1, <1>1 DEF Width
    <3> QED
      BY <1>2, <1>3, <2>1, <3>2 DEF KernelInv, Live
  <2>2. CASE arrivals[u] = arrivals[t] + 1
    <3>1. stride[u] = s \div 2
      BY <1>2, <1>3, <2>2 DEF KernelInv, Lockstep
    <3>2. Width(u) = s
      BY <3>1, <1>1, StrideHalves DEF Width
    <3>3. Width(u) <= 2 * s /\ arrivals[u] > 0
      BY <1>1, <1>3, <2>2, <3>2
    <3> QED
      BY <1>1, <1>2, <3>3 DEF KernelInv, Retired
  <2> QED
    BY <1>4, <2>1, <2>2
<1> QED
  BY <1>1, <1>2, <1>6, <1>7

LEMMA FoldsDoNotRaceFromInv == KernelInv => FoldsDoNotRace
<1> SUFFICES ASSUME KernelInv PROVE FoldsDoNotRace
  OBVIOUS
<1>1. ASSUME NEW s \in Items, NEW t \in Items, Folds(s), Folds(t), s # t
      PROVE  s + stride[s] # t
  <2>1. arrivals[s] = arrivals[t]
    <3>1. arrivals[s] \in Nat /\ arrivals[t] \in Nat
      BY DEF KernelInv, Typed
    <3>2. arrivals[s] >= arrivals[t] /\ arrivals[t] >= arrivals[s]
      BY <1>1 DEF KernelInv, Lockstep, Folds
    <3> QED
      BY <3>1, <3>2
  <2>2. stride[s] = stride[t] /\ t < stride[t]
    BY <1>1, <2>1 DEF KernelInv, Lockstep, Folds
  <2>3. s \in Nat /\ t \in Nat /\ stride[t] \in Nat
    BY ItemsAreNumbers DEF KernelInv, Typed
  <2> QED
    BY <2>2, <2>3
<1>2. ASSUME NEW t \in Items, Folds(t)
      PROVE  /\ partial[t + stride[t]] # <<>>
             /\ \A c \in Columns : partial[t + stride[t]][c] <= 1
  <2> DEFINE p == partial[t + stride[t]]
  <2>1. p = Residues(t + stride[t], 2 * stride[t])
    BY <1>2, Partner
  <2>2. DOMAIN p = Columns /\ \A c \in Columns : p[c] \in {0, 1}
    BY <2>1 DEF Residues
  <2>3. 0 \in Columns
    BY ItemsAreNumbers DEF KernelInv
  <2>4. p # <<>>
    BY <2>2, <2>3
  <2> QED
    BY <2>2, <2>4
<1> QED
  BY <1>1, <1>2 DEF FoldsDoNotRace

----------------------------------------------------------------------------
(* The steps, one lemma for each part of the invariant an item disturbs.   *)
LEMMA StepTyped ==
    ASSUME KernelInv, NEW t \in Items, ItemStep(t)
    PROVE  Typed' /\ Items' = Items /\ Columns' = Columns
<1>1. /\ work_group_size' = work_group_size /\ input_size' = input_size
  BY DEF ItemStep, Load, StorePartial, PassBarrier, Fold, SkipFold, Finish, shapeVars
<1>2. Items' = Items /\ Columns' = Columns
  BY <1>1 DEF Items, Columns
<1>3. work_group_size \in Nat \ {0} /\ Columns \subseteq Nat
  BY ItemsAreNumbers DEF KernelInv
<1>4. Typed
  BY DEF KernelInv
<1>5. CASE Load(t)
  <2>1. i[t] \in Nat /\ sum[t] \in [Columns -> Nat]
    BY <1>4 DEF Typed
  <2>2. Plus(sum[t], Term(i[t])) \in [Columns -> Nat]
    BY <2>1 DEF Plus, Term
  <2>3. i[t] + work_group_size \in Nat
    BY <2>1, <1>3
  <2> QED
    BY <1>2, <1>4, <1>5, <2>2, <2>3 DEF Load, Typed, shapeVars
<1>6. CASE StorePartial(t)
  BY <1>2, <1>4, <1>6 DEF StorePartial, Arrive, Typed, shapeVars
<1>7. CASE PassBarrier(t)
  BY <1>2, <1>4, <1>7 DEF PassBarrier, Typed, shapeVars
<1>8. CASE Fold(t)
  <2>1. stride[t] \div 2 \in Nat
    BY <1>4 DEF Typed
  <2> QED
    BY <1>2, <1>4, <1>8, <2>1 DEF Fold, Arrive, Typed, shapeVars
<1>9. CASE SkipFold(t)
  <2>1. stride[t] \div 2 \in Nat
    BY <1>4 DEF Typed
  <2> QED
    BY <1>2, <1>4, <1>9, <2>1 DEF SkipFold, Arrive, Typed, shapeVars
<1>10. CASE Finish(t)
  BY <1>2, <1>4, <1>10 DEF Finish, Typed, shapeVars
<1> QED
  BY <1>2, <1>5, <1>6, <1>7, <1>8, <1>9, <1>10 DEF ItemStep

LEMMA StepLoading ==
    ASSUME KernelInv, NEW t \in Items, ItemStep(t)
    PROVE  Loading'
<1>1. Items' = Items /\ Columns' = Columns /\ work_group_size' = work_group_size
  BY StepTyped DEF ItemStep, Load, StorePartial, PassBarrier, Fold, SkipFold, Finish,
                   shapeVars
<1>2. CASE ~Load(t)
  <2>1. i' = i /\ sum' = sum
    BY <1>2 DEF ItemStep, StorePartial, PassBarrier, Fold, SkipFold, Finish
  <2> QED
    BY <1>1, <2>1 DEF KernelInv, Loading
<1>3. CASE Load(t)
  <2> DEFINE W == work_group_size
  <2>1. /\ W \in Nat \ {0} /\ i[t] \in Nat /\ t \in Nat /\ Columns \subseteq Nat
        /\ i[t] % W = t /\ i[t] \in Columns
    BY <1>3, ItemsAreNumbers DEF KernelInv, Typed, Loading, Load, Columns
  <2>2. i'[t] = i[t] + W /\ (\A s \in Items : s # t => i'[s] = i[s] /\ sum'[s] = sum[s])
    BY <1>3 DEF Load, KernelInv, Typed
  <2>3. sum'[t] = [c \in Columns |-> sum[t][c] + (IF c = i[t] THEN 1 ELSE 0)]
    BY <1>3 DEF Load, KernelInv, Typed, Plus, Term
  <2>4. (i[t] + W) % W = t
    BY <2>1, NextRemainder
  <2>5. ASSUME NEW c \in Columns
        PROVE  sum[t][c] + (IF c = i[t] THEN 1 ELSE 0)
                 = IF c % W = t /\ c < i[t] + W THEN 1 ELSE 0
    <3>1. c \in Nat /\ sum[t][c] = IF c % W = t /\ c < i[t] THEN 1 ELSE 0
      BY <2>1 DEF KernelInv, Loading
    <3>2. CASE c = i[t]
      BY <2>1, <3>1, <3>2
    <3>3. CASE c < i[t]
      <4>1. c < i[t] + W /\ c # i[t]
        BY <2>1, <3>1, <3>3
      <4> QED
        BY <3>1, <3>3, <4>1
    <3>4. CASE c > i[t]
      <4>1. ~(c % W = t /\ c < i[t] + W)
        <5> SUFFICES ASSUME c % W = t, c < i[t] + W PROVE FALSE
          OBVIOUS
        <5>1. /\ W \in Nat \ {0} /\ i[t] \in Nat /\ c \in Nat
              /\ i[t] % W = c % W /\ i[t] <= c /\ c < i[t] + W
          BY <2>1, <3>1, <3>4
        <5> HIDE DEF W
        <5>2. i[t] = c
          BY <5>1, SameRemainder
        <5> QED
          BY <2>1, <3>1, <3>4, <5>2
      <4>2. c # i[t] /\ ~(c < i[t])
        BY <2>1, <3>1, <3>4
      <4> QED
        BY <3>1, <4>1, <4>2
    <3> QED
      BY <2>1, <3>1, <3>2, <3>3, <3>4
  <2>6. sum'[t] = [c \in Columns |-> IF c % W = t /\ c < i[t] + W THEN 1 ELSE 0]
    BY <2>3, <2>5
  <2> QED
    BY <1>1, <2>2, <2>4, <2>6 DEF KernelInv, Loading
<1> QED
  BY <1>2, <1>3

LEMMA StepStrides ==
    ASSUME KernelInv, NEW t \in Items, ItemStep(t)
    PROVE  Strides'
<1>1. Items' = Items /\ work_group_size' = work_group_size
  BY StepTyped DEF ItemStep, Load, StorePartial, PassBarrier, Fold, SkipFold, Finish,
                   shapeVars
<1>2. /\ arrivals[t] \in Nat /\ stride[t] \in Nat /\ work_group_size \in Nat
      /\ pc \in [Items -> {"load", "barrier", "reduce", "done"}]
      /\ stride \in [Items -> Nat] /\ arrivals \in [Items -> Nat]
      /\ Strides
  BY ItemsAreNumbers DEF KernelInv, Typed
<1>3. CASE Load(t) \/ PassBarrier(t) \/ Finish(t)
  BY <1>1, <1>2, <1>3 DEF Load, PassBarrier, Finish, Strides
<1>4. CASE StorePartial(t)
  BY <1>1, <1>2, <1>4 DEF StorePartial, Arrive, Strides
<1>5. CASE Fold(t) \/ SkipFold(t)
  <2>1. /\ stride[t] # 0 /\ pc[t] = "reduce" /\ Arrive(t)
        /\ stride' = [stride EXCEPT ![t] = stride[t] \div 2]
    BY <1>5, <1>2 DEF Fold, SkipFold, Folds
  <2>2. stride[t] \in Powers /\ 2 * stride[t] <= work_group_size /\ arrivals[t] # 0
    BY <1>2, <2>1 DEF Strides
  <2> DEFINE half == stride[t] \div 2
  <2>3. half \in Powers \cup {0} /\ 2 * half <= work_group_size /\ half \in Nat
    BY <1>2, <2>2, StrideHalves
  <2>4. arrivals'[t] = arrivals[t] + 1 /\ pc'[t] = "barrier" /\ stride'[t] = half
    BY <1>2, <2>1 DEF Arrive
  <2>5. arrivals'[t] # 0 /\ arrivals'[t] # 1
    BY <1>2, <2>2, <2>4
  <2>6. \A s \in Items : s # t =>
          stride'[s] = stride[s] /\ arrivals'[s] = arrivals[s] /\ pc'[s] = pc[s]
    BY <1>2, <2>1 DEF Arrive
  <2> HIDE DEF half
  <2>7. ASSUME NEW s \in Items'
        PROVE  /\ stride'[s] \in Powers \cup {0}
               /\ 2 * stride'[s] <= work_group_size
               /\ pc'[s] = "load" <=> arrivals'[s] = 0
               /\ arrivals'[s] = 0 => stride'[s] = work_group_size \div 2
               /\ arrivals'[s] = 1 => stride'[s] = work_group_size \div 2
               /\ pc'[s] = "done" => stride'[s] = 0
    BY <1>1, <1>2, <2>3, <2>4, <2>5, <2>6 DEF Strides
  <2> QED
    BY <1>1, <2>7 DEF Strides
<1> QED
  BY <1>3, <1>4, <1>5 DEF ItemStep

LEMMA StepLockstep ==
    ASSUME KernelInv, NEW t \in Items, ItemStep(t)
    PROVE  Lockstep'
<1>1. Items' = Items
  BY StepTyped
<1>2. /\ pc \in [Items -> {"load", "barrier", "reduce", "done"}]
      /\ stride \in [Items -> Nat] /\ arrivals \in [Items -> Nat]
      /\ Strides /\ Lockstep
  BY DEF KernelInv, Typed
<1>3. CASE Load(t)
  BY <1>1, <1>2, <1>3 DEF Load, Lockstep
<1>4. CASE PassBarrier(t)
  <2>1. /\ arrivals' = arrivals /\ stride' = stride /\ pc[t] = "barrier"
        /\ pc'[t] = "reduce" /\ \A s \in Items : s # t => pc'[s] = pc[s]
        /\ \A s \in Items : arrivals[s] >= arrivals[t]
    BY <1>2, <1>4 DEF PassBarrier, BarrierOpen
  <2>2. \A s \in Items : arrivals[t] # arrivals[s] + 1
    BY <1>2, <2>1
  <2> QED
    BY <1>1, <1>2, <2>1, <2>2 DEF Lockstep
<1>5. CASE Finish(t)
  <2>1. /\ arrivals' = arrivals /\ stride' = stride /\ pc[t] = "reduce"
        /\ pc'[t] = "done" /\ \A s \in Items : s # t => pc'[s] = pc[s]
    BY <1>2, <1>5 DEF Finish
  <2>2. \A s \in Items : arrivals[t] # arrivals[s] + 1
    BY <1>2, <2>1 DEF Lockstep
  <2> QED
    BY <1>1, <1>2, <2>1, <2>2 DEF Lockstep
<1>6. CASE StorePartial(t)
  <2>1. /\ pc[t] = "load" /\ arrivals[t] = 0 /\ stride' = stride
        /\ arrivals'[t] = 1 /\ pc'[t] = "barrier"
        /\ \A s \in Items : s # t => pc'[s] = pc[s] /\ arrivals'[s] = arrivals[s]
    BY <1>2, <1>6 DEF StorePartial, Arrive, Strides
  <2>2. ASSUME NEW s \in Items, s # t
        PROVE  /\ arrivals[s] \in {0, 1} /\ pc[s] \in {"load", "barrier"}
               /\ stride[s] = stride[t]
               /\ arrivals[s] = 0 => pc[s] = "load"
    <3>1. arrivals[s] \in Nat /\ arrivals[s] <= 1
      BY <1>2, <2>1 DEF Lockstep
    <3>2. pc[s] \notin {"reduce", "done"}
      <4> SUFFICES ASSUME pc[s] \in {"reduce", "done"} PROVE FALSE
        OBVIOUS
      <4>1. arrivals[t] >= arrivals[s] /\ pc[s] # "load"
        BY <1>2 DEF Lockstep
      <4> QED
        BY <1>2, <2>1, <3>1, <4>1 DEF Strides
    <3> QED
      BY <1>2, <2>1, <3>1, <3>2 DEF Strides
  <2>3. \A s \in Items : s # t => arrivals'[s] \in {0, 1} /\ stride[s] = stride[t]
    BY <2>1, <2>2
  <2>4. \A s \in Items : pc'[s] \notin {"reduce", "done"}
    BY <1>2, <2>1, <2>2
  <2>5. \A s \in Items : arrivals'[s] = 1 => pc'[s] = "barrier"
    BY <1>2, <2>1, <2>2 DEF Strides
  <2>6. \A s \in Items : arrivals'[s] \in {0, 1} /\ stride'[s] = stride[t]
    BY <2>1, <2>3
  <2>7. ASSUME NEW u \in Items, NEW s \in Items
        PROVE  /\ arrivals'[u] <= arrivals'[s] + 1
               /\ arrivals'[u] = arrivals'[s] + 1 => arrivals'[s] = 0 /\ arrivals'[u] = 1
    <3>1. arrivals'[u] \in {0, 1} /\ arrivals'[s] \in {0, 1}
      BY <2>6
    <3> QED
      BY <3>1
  <2> QED
    BY <1>1, <2>4, <2>5, <2>6, <2>7 DEF Lockstep
<1>7. CASE Fold(t) \/ SkipFold(t)
  <2>1. /\ pc[t] = "reduce" /\ stride[t] # 0 /\ Arrive(t)
        /\ stride' = [stride EXCEPT ![t] = stride[t] \div 2]
    BY <1>2, <1>7 DEF Fold, SkipFold, Folds
  <2>2. /\ arrivals'[t] = arrivals[t] + 1 /\ pc'[t] = "barrier"
        /\ stride'[t] = stride[t] \div 2 /\ arrivals[t] > 0 /\ arrivals[t] \in Nat
        /\ \A s \in Items : s # t =>
              stride'[s] = stride[s] /\ arrivals'[s] = arrivals[s] /\ pc'[s] = pc[s]
    BY <1>2, <2>1 DEF Arrive, Strides
  <2>3. ASSUME NEW s \in Items, s # t
        PROVE  \/ arrivals[s] = arrivals[t] /\ stride[s] = stride[t]
               \/ /\ arrivals[s] = arrivals[t] + 1 /\ stride[s] = stride[t] \div 2
                  /\ pc[s] = "barrier"
    <3>1. arrivals[s] >= arrivals[t] /\ arrivals[s] <= arrivals[t] + 1
      BY <1>2, <2>1 DEF Lockstep
    <3>2. arrivals[s] \in Nat
      BY <1>2
    <3>3. arrivals[s] = arrivals[t] \/ arrivals[s] = arrivals[t] + 1
      BY <2>2, <3>1, <3>2
    <3> QED
      BY <1>2, <2>2, <3>3 DEF Lockstep
  <2>4. ASSUME NEW s \in Items, s # t
        PROVE  /\ arrivals'[t] <= arrivals'[s] + 1
               /\ arrivals'[s] <= arrivals'[t]
               /\ arrivals'[t] = arrivals'[s] => stride'[t] = stride'[s]
               /\ arrivals'[t] = arrivals'[s] + 1 => stride'[t] = stride'[s] \div 2
    BY <2>2, <2>3, <2>4
  <2>5. \A u \in Items : arrivals'[u] \in Nat
    BY <1>2, <2>2
  <2>6. ASSUME NEW u \in Items, NEW s \in Items
        PROVE  /\ arrivals'[u] <= arrivals'[s] + 1
               /\ arrivals'[u] = arrivals'[s] => stride'[u] = stride'[s]
               /\ arrivals'[u] = arrivals'[s] + 1 =>
                     /\ pc'[u] = "barrier"
                     /\ arrivals'[s] > 0 => stride'[u] = stride'[s] \div 2
               /\ pc'[u] \in {"reduce", "done"} => arrivals'[s] >= arrivals'[u]
    <3>1. CASE u = t /\ s = t
      BY <2>2, <3>1, <2>5
    <3>2. CASE u = t /\ s # t
      BY <2>2, <2>4, <2>5, <3>2
    <3>3. CASE u # t /\ s = t
      BY <2>2, <2>4, <2>5, <3>3
    <3>4. CASE u # t /\ s # t
      BY <1>2, <2>2, <3>4 DEF Lockstep
    <3> QED
      BY <3>1, <3>2, <3>3, <3>4
  <2> QED
    BY <1>1, <2>6 DEF Lockstep
<1> QED
  BY <1>3, <1>4, <1>5, <1>6, <1>7 DEF ItemStep

----------------------------------------------------------------------------
(* Two halves of the columns make the whole.                               *)
LEMMA HalvesAdd ==
    ASSUME Typed, NEW t \in Nat, NEW s \in Nat \ {0}, t < s
    PROVE  Plus(Residues(t, 2 * s), Residues(t + s, 2 * s)) = Residues(t, s)
<1> DEFINE W == work_group_size
<1>1. ASSUME NEW c \in Columns
      PROVE  Residues(t, 2 * s)[c] + Residues(t + s, 2 * s)[c] = Residues(t, s)[c]
  <2> DEFINE x == c % W
             r == x % (2 * s)
  <2>1. x \in Nat
    BY ItemsAreNumbers, Quotient
  <2>2. r \in 0 .. 2 * s - 1
    <3> HIDE DEF x
    <3> QED
      BY <2>1, Quotient, 2 * s \in Nat \ {0}
  <2>3. x % s = IF r < s THEN r ELSE r - s
    <3> HIDE DEF x
    <3> QED
      BY <2>1, RemainderOfHalf
  <2>4. /\ Residues(t, 2 * s)[c] = IF r = t THEN 1 ELSE 0
        /\ Residues(t + s, 2 * s)[c] = IF r = t + s THEN 1 ELSE 0
        /\ Residues(t, s)[c] = IF x % s = t THEN 1 ELSE 0
    BY DEF Residues
  <2> HIDE DEF x, r, Residues
  <2> QED
    BY <2>2, <2>3, <2>4
<1>2. Residues(t, s) = [c \in Columns |-> Residues(t, s)[c]]
  BY DEF Residues
<1> HIDE DEF Residues
<1> QED
  BY <1>1, <1>2 DEF Plus

LEMMA WholeSum ==
    ASSUME Typed
    PROVE  Residues(0, 1) = [c \in Columns |-> 1]
<1>1. ASSUME NEW c \in Columns PROVE (c % work_group_size) % 1 = 0
  <2> DEFINE x == c % work_group_size
  <2>1. x \in Nat
    BY ItemsAreNumbers, Quotient
  <2> HIDE DEF x
  <2>2. x % 1 = 0
    BY <2>1
  <2> QED
    BY <2>2 DEF x
<1> QED
  BY <1>1 DEF Residues

LEMMA FirstPartial ==
    ASSUME KernelInv, NEW t \in Items, StorePartial(t)
    PROVE  sum[t] = Residues(t, work_group_size)
<1> DEFINE W == work_group_size
<1>1. W \in Nat \ {0} /\ Columns \subseteq Nat /\ i[t] \in Nat /\ input_size \in Nat
  BY ItemsAreNumbers DEF KernelInv, Typed
<1>2. ASSUME NEW c \in Columns
      PROVE  (c % W = t /\ c < i[t]) <=> (c % W) % W = t
  <2>1. c \in Nat /\ c < i[t]
    BY <1>1 DEF StorePartial, Columns
  <2> DEFINE x == c % W
  <2>2. x \in 0 .. W - 1
    BY <1>1, <2>1, Quotient
  <2> HIDE DEF x
  <2>3. x % W = x
    <3>1. W * 0 + x = x
      BY <1>1, <2>2
    <3> QED
      BY <1>1, <2>2, <3>1, RemainderUnique
  <2> QED
    BY <2>1, <2>3 DEF x
<1> QED
  BY <1>2 DEF KernelInv, Loading, Residues

(* Live, Retired and SumExact together: what is in local memory.           *)
Contents == Live /\ Retired /\ SumExact

LEMMA StepContents ==
    ASSUME KernelInv, NEW t \in Items, ItemStep(t)
    PROVE  Contents'
<1>1. /\ Items' = Items /\ Columns' = Columns
      /\ work_group_size' = work_group_size
      /\ \A u, w : Residues(u, w)' = Residues(u, w)
  BY StepTyped DEF ItemStep, Load, StorePartial, PassBarrier, Fold, SkipFold, Finish,
                   shapeVars, Residues
<1>2. /\ stride \in [Items -> Nat] /\ arrivals \in [Items -> Nat]
      /\ DOMAIN partial = Items /\ t \in Nat /\ work_group_size \in Powers
      /\ Typed /\ Strides /\ Live /\ Retired /\ SumExact
  BY ItemsAreNumbers DEF KernelInv, Typed
<1> USE <1>1, <1>2
<1>3. CASE Load(t) \/ PassBarrier(t)
  BY <1>3, ZenonT(60) DEF Load, PassBarrier, Contents, Live, Retired, SumExact, Width
<1>4. CASE Finish(t)
  <2>1. /\ partial' = partial /\ stride' = stride /\ arrivals' = arrivals
        /\ stride[t] = 0 /\ pc[t] = "reduce" /\ y' = IF t = 0 THEN partial[0] ELSE y
    BY <1>4 DEF Finish
  <2>2. t = 0 => partial[0] = Residues(0, 1)
    <3>1. arrivals[t] > 0 /\ Width(t) = 1
      BY <2>1 DEF Strides, Width
    <3> QED
      BY <3>1 DEF Live
  <2>3. SumExact'
    BY <2>1, <2>2, WholeSum DEF SumExact
  <2> QED
    BY <2>1, <2>3 DEF Contents, Live, Retired, Width
<1>5. CASE StorePartial(t)
  <2>1. /\ partial'[t] = sum[t] /\ arrivals'[t] = 1 /\ arrivals[t] = 0
        /\ stride' = stride /\ y' = y /\ stride[t] = work_group_size \div 2
        /\ \A s \in Items : s # t =>
              partial'[s] = partial[s] /\ arrivals'[s] = arrivals[s]
    BY <1>5 DEF StorePartial, Arrive, Strides
  <2>2. Width(t)' = work_group_size
    BY <2>1, StrideHalves DEF Width
  <2>3. partial'[t] = Residues(t, work_group_size)
    BY <2>1, <1>5, FirstPartial
  <2>4. \A s \in Items : Width(s)' = Width(s)
    BY <2>1 DEF Width
  <2>5. Live'
    BY <2>1, <2>2, <2>3, <2>4 DEF Live
  <2>6. Retired'
    <3>1. ASSUME NEW s \in Powers, 2 * s <= work_group_size, work_group_size <= 2 * s
          PROVE  2 * s = work_group_size
      BY <3>1, PowersPositive
    <3> QED
      BY <2>1, <2>2, <2>3, <2>4, <3>1 DEF Retired
  <2> QED
    BY <2>1, <2>5, <2>6 DEF Contents, SumExact
<1>6. CASE Fold(t) \/ SkipFold(t)
  <2> DEFINE s == stride[t]
  <2>1. /\ s # 0 /\ s \in Powers /\ s \in Nat \ {0} /\ 2 * s <= work_group_size
        /\ pc[t] = "reduce" /\ stride'[t] = s \div 2 /\ y' = y
        /\ arrivals'[t] = arrivals[t] + 1 /\ arrivals[t] > 0
        /\ \A u \in Items : u # t =>
              partial'[u] = partial[u] /\ arrivals'[u] = arrivals[u] /\ stride'[u] = stride[u]
    <3>1. s # 0
      BY <1>6 DEF Fold, SkipFold, Folds
    <3> QED
      BY <1>6, <3>1, PowersPositive DEF Fold, SkipFold, Folds, Arrive, Strides
  <2>2. Width(t)' = s /\ Width(t) = 2 * s
    BY <2>1, StrideHalves DEF Width
  <2>3. \A u \in Items : u # t => Width(u)' = Width(u)
    BY <2>1 DEF Width
  <2>4. /\ t < s => partial'[t] = Residues(t, s)
        /\ t >= s => partial'[t] = partial[t]
    <3>1. CASE Fold(t)
      <4>1. t < s /\ Folds(t) /\ partial'[t] = Plus(partial[t], partial[t + s])
        BY <3>1 DEF Fold, Folds
      <4>2. /\ partial[t] = Residues(t, 2 * s)
            /\ partial[t + s] = Residues(t + s, 2 * s)
        BY <4>1, Partner
      <4> HIDE DEF s
      <4>3. Plus(Residues(t, 2 * s), Residues(t + s, 2 * s)) = Residues(t, s)
        BY <2>1, <4>1, HalvesAdd
      <4>4. ~(t >= s)
        BY <2>1, <4>1
      <4> QED
        BY <4>1, <4>2, <4>3, <4>4
    <3>2. CASE SkipFold(t)
      BY <2>1, <3>2 DEF SkipFold
    <3> QED
      BY <1>6, <3>1, <3>2
  <2> HIDE DEF s
  <2>5. Live'
    BY <2>1, <2>2, <2>3, <2>4 DEF Live
  <2>6. ASSUME NEW d \in Powers, 2 * d <= work_group_size, s <= 2 * d, d <= t, t < 2 * d
        PROVE  partial'[t] = Residues(t, 2 * d)
    <3>1. d \in Nat \ {0} /\ 2 * d \in Powers
      BY PowersPositive, PowersBuilt
    <3>2. CASE t < s
      <4>1. d < s
        BY <2>1, <2>6, <3>1, <3>2
      <4>2. 2 * d <= s
        BY <2>1, <4>1, PowersApart
      <4>3. 2 * d = s
        BY <2>1, <2>6, <3>1, <4>2
      <4> QED
        BY <2>4, <3>2, <4>3
    <3>3. CASE t >= s
      <4>1. s < 2 * d
        BY <2>1, <2>6, <3>1, <3>3
      <4>2. 2 * s <= 2 * d
        BY <2>1, <3>1, <4>1, PowersApart
      <4>3. partial[t] = Residues(t, 2 * d)
        BY <2>1, <2>2, <2>6, <4>2 DEF Retired
      <4> QED
        BY <2>4, <3>3, <4>3
    <3> QED
      BY <2>1, <3>2, <3>3
  <2>7. Retired'
    BY <2>1, <2>2, <2>3, <2>6 DEF Retired
  <2> QED
    BY <2>1, <2>5, <2>7 DEF Contents, SumExact
<1> QED
  BY <1>3, <1>4, <1>5, <1>6 DEF ItemStep

----------------------------------------------------------------------------
LEMMA StepKernelInv == KernelInv /\ [Next]_vars => KernelInv'
<1> SUFFICES ASSUME KernelInv, [Next]_vars PROVE KernelInv'
  OBVIOUS
<1>1. CASE Next
  <2>1. PICK t \in Items : ItemStep(t)
    BY <1>1 DEF Next
  <2> QED
    BY <2>1, StepTyped, StepLoading, StepStrides, StepLockstep, StepContents
    DEF KernelInv, Contents
<1>2. CASE UNCHANGED vars
  BY <1>2 DEF vars, KernelInv, Typed, Loading, Strides, Lockstep, Live, Retired,
              SumExact, Items, Columns, Width, Residues
<1> QED
  BY <1>1, <1>2

THEOREM KernelInvHolds == Spec => []KernelInv
BY InitKernelInv, StepKernelInv, PTL DEF Spec

(* The element of y is the sum of every column's product, each once, in    *)
(* every group the device can be given and every order of its items.       *)
THEOREM SumExactAlways == Spec => []SumExact
<1>1. KernelInv => SumExact
  BY DEF KernelInv
<1> QED
  BY <1>1, KernelInvHolds, PTL

(* No item folds a partial sum that another one is about to change, and    *)
(* every sum an item folds in has been stored and counts no column twice.  *)
THEOREM FoldsDoNotRaceAlways == Spec => []FoldsDoNotRace
BY FoldsDoNotRaceFromInv, KernelInvHolds, PTL
=============================================================================
