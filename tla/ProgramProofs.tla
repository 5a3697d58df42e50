---------------------------- MODULE ProgramProofs ----------------------------
(***************************************************************************)
(* Proofs about module Program and the modules it is made of: what main    *)
(* takes it gives back exactly once, and what the session begins with,     *)
(* whatever the file contains and whatever fails.                          *)
(***************************************************************************)
EXTENDS Program, SequenceTheorems, FiniteSetTheorems, WellFoundedInduction, TLAPS

----------------------------------------------------------------------------
(***************************************************************************)
(* Induction over the natural numbers, in terms of sets: what is to be     *)
(* proved of all numbers is that a set of numbers is Nat.                  *)
(***************************************************************************)
Less == {pair \in Nat \X Nat : pair[1] < pair[2]}

LEMMA LessWellFounded == IsWellFoundedOn(Less, Nat)
BY NatLessThanWellFounded DEF OpToRel, Less

LEMMA LeastNumber ==
    ASSUME NEW T \in SUBSET Nat, T # {}
    PROVE  \E least \in T : \A m \in T : least <= m
<1>1. PICK least \in T : \A m \in T : <<m, least>> \notin Less
  BY LessWellFounded, WFMin
<1>2. ASSUME NEW m \in T PROVE least <= m
  <2>1. least \in Nat /\ m \in Nat
    OBVIOUS
  <2>2. ~(m < least)
    BY <1>1, <2>1 DEF Less
  <2> QED
    BY <2>1, <2>2
<1> QED
  BY <1>2

LEMMA SetInduction ==
    ASSUME NEW T \in SUBSET Nat, 0 \in T, \A n \in T : n + 1 \in T
    PROVE  T = Nat
<1> SUFFICES ASSUME T # Nat PROVE FALSE
  OBVIOUS
<1>1. PICK least \in Nat \ T : \A m \in Nat \ T : least <= m
  <2>1. Nat \ T # {}
    OBVIOUS
  <2> QED
    BY <2>1, LeastNumber
<1>2. least - 1 \in T
  BY <1>1
<1> QED
  BY <1>2

(* A function on 0 .. n defined from its value one place before exists.    *)
Recurs(g, n, first, step) ==
    \A k \in 0 .. n : g[k] = IF k = 0 THEN first ELSE step[<<k, g[k - 1]>>]

LEMMA RecursionExists ==
    ASSUME NEW V, NEW first \in V, NEW step \in [Nat \X V -> V], NEW n \in Nat
    PROVE  \E g \in [0 .. n -> V] : Recurs(g, n, first, step)
<1> USE DEF Recurs
<1> DEFINE Good(m, g) == Recurs(g, m, first, step)
           T == {m \in Nat : \E g \in [0 .. m -> V] : Good(m, g)}
<1>1. 0 \in T
  <2>1. [k \in 0 .. 0 |-> first] \in [0 .. 0 -> V]
    OBVIOUS
  <2>2. Good(0, [k \in 0 .. 0 |-> first])
    OBVIOUS
  <2> QED
    BY <2>1, <2>2
<1>2. ASSUME NEW m \in T PROVE m + 1 \in T
  <2>1. PICK g \in [0 .. m -> V] : Good(m, g)
    BY <1>2
  <2> DEFINE h == [k \in 0 .. m + 1 |-> IF k = m + 1 THEN step[<<m + 1, g[m]>>] ELSE g[k]]
  <2>2. m \in Nat /\ step[<<m + 1, g[m]>>] \in V
    OBVIOUS
  <2>3. h \in [0 .. m + 1 -> V]
    BY <2>2
  <2>4. ASSUME NEW k \in 0 .. m + 1
        PROVE  h[k] = IF k = 0 THEN first ELSE step[<<k, h[k - 1]>>]
    <3>1. /\ h[k] = IF k = m + 1 THEN step[<<m + 1, g[m]>>] ELSE g[k]
          /\ k # 0 => h[k - 1] = g[k - 1]
      BY <2>2
    <3>2. CASE k = m + 1
      <4>1. k # 0 /\ k - 1 = m
        BY <2>2, <3>2
      <4> HIDE DEF h
      <4> QED
        BY <3>1, <3>2, <4>1
    <3>3. CASE k # m + 1
      <4>1. k \in 0 .. m
        BY <2>2, <3>3
      <4> QED
        BY <2>1, <3>1, <3>3, <4>1
    <3> QED
      BY <3>2, <3>3
  <2>5. Good(m + 1, h)
    BY <2>4
  <2> HIDE DEF h, Good
  <2> QED
    BY <2>2, <2>3, <2>5
<1>3. T = Nat
  <2> HIDE DEF T
  <2>1. T \in SUBSET Nat
    BY DEF T
  <2> QED
    BY <1>1, <1>2, <2>1, SetInduction
<1> QED
  BY <1>3

----------------------------------------------------------------------------
(* Sequences.                                                              *)
LEMMA Joining ==
    ASSUME NEW S, NEW s \in Seq(S), NEW t \in Seq(S)
    PROVE  /\ s \o t \in Seq(S) /\ Len(s \o t) = Len(s) + Len(t)
           /\ \A k \in 1 .. Len(s) : (s \o t)[k] = s[k]
           /\ \A k \in 1 .. Len(t) : (s \o t)[Len(s) + k] = t[k]
           /\ \A k \in 1 .. Len(s) + Len(t) :
                 k \in 1 .. Len(s) \/ k - Len(s) \in 1 .. Len(t)
OBVIOUS

LEMMA FromFunction ==
    ASSUME NEW S, NEW n \in Nat, NEW s, s = [k \in 1 .. n |-> s[k]],
           \A k \in 1 .. n : s[k] \in S
    PROVE  s \in Seq(S) /\ Len(s) = n /\ DOMAIN s = 1 .. n
<1>1. s \in [1 .. n -> S]
  <2> DEFINE t == [k \in 1 .. n |-> s[k]]
  <2>1. t \in [1 .. n -> S]
    OBVIOUS
  <2> QED
    BY <2>1
<1>2. s \in Seq(S)
  BY <1>1, SeqDef
<1>3. DOMAIN s = 1 .. n
  BY <1>1
<1>4. Len(s) = n
  BY <1>2, <1>3, LenProperties
<1> QED
  BY <1>2, <1>3, <1>4

(* FlattenSeq joins the sequences of a sequence, one after the other.      *)
Joined(ss) == CHOOSE f : f = [i \in 1 .. Len(ss) |->
                                 IF i = 1 THEN ss[i] ELSE f[i - 1] \o ss[i]]

LEMMA FlattenIsJoined ==
    ASSUME NEW ss, Len(ss) # 0
    PROVE  SX!FlattenSeq(ss) = Joined(ss)[Len(ss)]
BY DEF SX!FlattenSeq, Joined

LEMMA JoinedIs ==
    ASSUME NEW P, NEW ss \in Seq(Seq(P)), Len(ss) # 0
    PROVE  \A i \in 1 .. Len(ss) :
              /\ Joined(ss)[i] \in Seq(P)
              /\ Joined(ss)[i] = IF i = 1 THEN ss[i] ELSE Joined(ss)[i - 1] \o ss[i]
<1> DEFINE Good == Seq(P)
           n == Len(ss)
           next == [pair \in Nat \X Good |->
                       IF pair[1] + 1 \in 1 .. n THEN pair[2] \o ss[pair[1] + 1] ELSE pair[2]]
           Eq(f) == f = [i \in 1 .. n |-> IF i = 1 THEN ss[i] ELSE f[i - 1] \o ss[i]]
<1>1. n \in Nat \ {0} /\ n - 1 \in Nat /\ \A i \in 1 .. n : ss[i] \in Good
  OBVIOUS
<1>2. next \in [Nat \X Good -> Good] /\ ss[1] \in Good
  <2>1. ASSUME NEW pair \in Nat \X Good, pair[1] + 1 \in 1 .. n
        PROVE  pair[2] \o ss[pair[1] + 1] \in Good
    BY <1>1, <2>1
  <2>2. \A pair \in Nat \X Good : pair[2] \in Good
    OBVIOUS
  <2>3. 1 \in 1 .. n
    BY <1>1
  <2> QED
    BY <1>1, <2>1, <2>2, <2>3
<1>3. PICK g \in [0 .. n - 1 -> Good] :
             \A k \in 0 .. n - 1 : g[k] = IF k = 0 THEN ss[1] ELSE next[<<k, g[k - 1]>>]
  <2> DEFINE m == n - 1
             a == ss[1]
  <2>1. m \in Nat /\ a \in Good /\ next \in [Nat \X Good -> Good]
    BY <1>1, <1>2
  <2> HIDE DEF next, n, m, a, Good
  <2>2. \E g \in [0 .. m -> Good] : Recurs(g, m, a, next)
    BY <2>1, RecursionExists
  <2> QED
    BY <2>2 DEF m, a, Recurs
<1> DEFINE f == [i \in 1 .. n |-> g[i - 1]]
<1>4. ASSUME NEW i \in 1 .. n
      PROVE  f[i] = IF i = 1 THEN ss[i] ELSE f[i - 1] \o ss[i]
  <2>1. CASE i = 1
    <3>1. 0 \in 0 .. n - 1 /\ f[i] = g[0]
      BY <1>1, <2>1
    <3>2. g[0] = ss[1]
      <4> HIDE DEF next
      <4> QED
        BY <1>3, <3>1
    <3> QED
      BY <2>1, <3>1, <3>2
  <2>2. CASE i # 1
    <3>1. /\ i - 1 \in 0 .. n - 1 /\ i - 1 # 0 /\ (i - 1) + 1 = i /\ i - 1 \in 1 .. n
          /\ (i - 1) - 1 \in 0 .. n - 1 /\ i - 1 \in Nat
      BY <1>1, <2>2
    <3>2. f[i] = g[i - 1] /\ f[i - 1] = g[(i - 1) - 1] /\ g[(i - 1) - 1] \in Good
      BY <3>1
    <3>3. g[i - 1] = next[<<i - 1, g[(i - 1) - 1]>>]
      <4> HIDE DEF next
      <4> QED
        BY <1>3, <3>1
    <3> HIDE DEF f
    <3>4. next[<<i - 1, g[(i - 1) - 1]>>] = g[(i - 1) - 1] \o ss[i]
      <4> HIDE DEF Good
      <4> QED
        BY <3>1, <3>2
    <3> QED
      BY <2>2, <3>2, <3>3, <3>4
  <2> QED
    BY <2>1, <2>2
<1>5. Eq(f)
  <2> DEFINE h == [i \in 1 .. n |-> IF i = 1 THEN ss[i] ELSE f[i - 1] \o ss[i]]
  <2>1. DOMAIN f = 1 .. n /\ DOMAIN h = 1 .. n /\ \A i \in 1 .. n : f[i] = h[i]
    BY <1>4
  <2>2. f = [i \in 1 .. n |-> f[i]] /\ h = [i \in 1 .. n |-> h[i]]
    OBVIOUS
  <2> QED
    BY <2>1, <2>2
<1> HIDE DEF f
<1>6. Eq(Joined(ss))
  BY <1>5 DEF Joined
<1> DEFINE j == Joined(ss)
           T == {k \in Nat : k + 1 \in 1 .. n => j[k + 1] \in Good}
<1> HIDE DEF n, next
<1>7. \A i \in 1 .. n : j[i] = IF i = 1 THEN ss[i] ELSE j[i - 1] \o ss[i]
  <2> HIDE DEF j
  <2> QED
    BY <1>6 DEF j
<1> HIDE DEF j
<1>8. 0 \in T
  BY <1>1, <1>2, <1>7
<1>9. ASSUME NEW k \in T PROVE k + 1 \in T
  <2> SUFFICES ASSUME (k + 1) + 1 \in 1 .. n PROVE j[(k + 1) + 1] \in Good
    OBVIOUS
  <2>1. /\ k \in Nat /\ (k + 1) + 1 # 1 /\ ((k + 1) + 1) - 1 = k + 1 /\ k + 1 \in 1 .. n
    BY <1>1
  <2>2. j[k + 1] \in Good /\ ss[(k + 1) + 1] \in Good
    BY <1>1, <2>1
  <2>3. j[(k + 1) + 1] = j[k + 1] \o ss[(k + 1) + 1]
    BY <1>7, <2>1
  <2> QED
    BY <2>2, <2>3
<1>10. T = Nat
  <2> HIDE DEF T
  <2>1. T \in SUBSET Nat
    BY DEF T
  <2> QED
    BY <1>8, <1>9, <2>1, SetInduction
<1>11. ASSUME NEW i \in 1 .. n PROVE j[i] \in Good
  <2>1. i - 1 \in Nat /\ (i - 1) + 1 = i
    BY <1>1
  <2> QED
    BY <1>10, <2>1
<1> QED
  BY <1>7, <1>11 DEF j, n

(* What holds of the parts and is kept by joining holds of the whole.      *)
LEMMA Flattening ==
    ASSUME NEW P, NEW ss \in Seq(Seq(P)), NEW Good \in SUBSET Seq(P), <<>> \in Good,
           \A i \in 1 .. Len(ss) : ss[i] \in Good /\ \A s \in Good : s \o ss[i] \in Good
    PROVE  SX!FlattenSeq(ss) \in Good
<1>1. CASE Len(ss) = 0
  <2>1. ss = <<>>
    BY <1>1
  <2> QED
    BY <1>1, <2>1 DEF SX!FlattenSeq
<1>2. CASE Len(ss) # 0
  <2> DEFINE j == Joined(ss)
             n == Len(ss)
             T == {k \in Nat : k + 1 \in 1 .. n => j[k + 1] \in Good}
  <2>1. n \in Nat \ {0} /\ \A i \in 1 .. n : j[i] = IF i = 1 THEN ss[i] ELSE j[i - 1] \o ss[i]
    BY <1>2, JoinedIs
  <2> HIDE DEF j, n
  <2>2. \A i \in 1 .. n : ss[i] \in Good /\ \A s \in Good : s \o ss[i] \in Good
    BY DEF n
  <2>3. 0 \in T
    BY <2>1, <2>2, SMTT(30)
  <2>4. ASSUME NEW k \in T PROVE k + 1 \in T
    <3> SUFFICES ASSUME (k + 1) + 1 \in 1 .. n PROVE j[(k + 1) + 1] \in Good
      OBVIOUS
    <3>1. /\ k \in Nat /\ (k + 1) + 1 # 1 /\ ((k + 1) + 1) - 1 = k + 1 /\ k + 1 \in 1 .. n
      BY <2>1
    <3>2. j[k + 1] \in Good
      BY <3>1
    <3>3. j[(k + 1) + 1] = j[k + 1] \o ss[(k + 1) + 1]
      BY <2>1, <3>1
    <3> QED
      BY <2>2, <3>2, <3>3
  <2>5. T = Nat
    <3> HIDE DEF T
    <3>1. T \in SUBSET Nat
      BY DEF T
    <3> QED
      BY <2>3, <2>4, <3>1, SetInduction
  <2>6. n - 1 \in Nat /\ (n - 1) + 1 = n /\ n \in 1 .. n
    BY <2>1
  <2>7. j[n] \in Good
    BY <2>5, <2>6
  <2> QED
    BY <1>2, <2>7, FlattenIsJoined DEF j, n
<1> QED
  BY <1>1, <1>2

(* Every member of a part is a member of the whole.                        *)
LEMMA FlattenContains ==
    ASSUME NEW P, NEW ss \in Seq(Seq(P)), NEW i \in 1 .. Len(ss), NEW k \in 1 .. Len(ss[i])
    PROVE  \E m \in DOMAIN SX!FlattenSeq(ss) : SX!FlattenSeq(ss)[m] = ss[i][k]
<1> DEFINE j == Joined(ss)
           n == Len(ss)
           e == ss[i][k]
           Member(s) == \E m \in DOMAIN s : s[m] = e
           T == {d \in Nat : i + d \in 1 .. n => Member(j[i + d])}
<1>1. /\ n \in Nat \ {0} /\ Len(ss) # 0 /\ i \in 1 .. n
      /\ \A x \in 1 .. n : ss[x] \in Seq(P)
  OBVIOUS
<1>2. \A x \in 1 .. n : /\ j[x] \in Seq(P)
                        /\ j[x] = IF x = 1 THEN ss[x] ELSE j[x - 1] \o ss[x]
  BY <1>1, JoinedIs
<1>3. ss[i] \in Seq(P) /\ Member(ss[i])
  BY <1>1
<1> HIDE DEF j, n, e
<1>4. ASSUME NEW s \in Seq(P), NEW t \in Seq(P), Member(s) \/ Member(t) PROVE Member(s \o t)
  <2>1. /\ DOMAIN s = 1 .. Len(s) /\ DOMAIN t = 1 .. Len(t) /\ DOMAIN (s \o t) = 1 .. Len(s) + Len(t)
        /\ Len(s) \in Nat /\ Len(t) \in Nat
        /\ \A m \in 1 .. Len(s) : (s \o t)[m] = s[m]
        /\ \A m \in 1 .. Len(t) : (s \o t)[Len(s) + m] = t[m]
    BY Joining
  <2> DEFINE q == s \o t
  <2> HIDE DEF q
  <2>2. CASE Member(s)
    <3>1. PICK m \in 1 .. Len(s) : s[m] = e
      BY <2>1, <2>2
    <3>2. m \in 1 .. Len(s) + Len(t)
      BY <2>1
    <3> QED
      BY <2>1, <3>1, <3>2
  <2>3. CASE Member(t)
    <3>1. PICK m \in 1 .. Len(t) : t[m] = e
      BY <2>1, <2>3
    <3>2. Len(s) + m \in 1 .. Len(s) + Len(t)
      BY <2>1
    <3> QED
      BY <2>1, <3>1, <3>2
  <2> QED
    BY <1>4, <2>2, <2>3
<1> HIDE DEF Member
<1>5. 0 \in T
  <2>1. i + 0 = i
    BY <1>1
  <2>2. Member(j[i])
    <3>1. CASE i = 1
      BY <1>1, <1>2, <1>3, <3>1
    <3>2. CASE i # 1
      <4>1. i - 1 \in 1 .. n
        BY <1>1, <3>2
      <4>2. j[i - 1] \in Seq(P) /\ j[i] = j[i - 1] \o ss[i]
        BY <1>1, <1>2, <3>2, <4>1
      <4> QED
        BY <1>3, <1>4, <4>2
    <3> QED
      BY <3>1, <3>2
  <2> QED
    BY <2>1, <2>2
<1>6. ASSUME NEW d \in T PROVE d + 1 \in T
  <2> SUFFICES ASSUME i + (d + 1) \in 1 .. n PROVE Member(j[i + (d + 1)])
    OBVIOUS
  <2>1. /\ d \in Nat /\ i + (d + 1) # 1 /\ (i + (d + 1)) - 1 = i + d /\ i + d \in 1 .. n
    BY <1>1
  <2>2. Member(j[i + d]) /\ j[i + d] \in Seq(P) /\ ss[i + (d + 1)] \in Seq(P)
    BY <1>1, <1>2, <2>1
  <2>3. j[i + (d + 1)] = j[i + d] \o ss[i + (d + 1)]
    BY <1>2, <2>1
  <2> QED
    BY <1>4, <2>2, <2>3
<1>7. T = Nat
  <2> HIDE DEF T
  <2>1. T \in SUBSET Nat
    BY DEF T
  <2> QED
    BY <1>5, <1>6, <2>1, SetInduction
<1>8. n - i \in Nat /\ i + (n - i) = n /\ n \in 1 .. n
  BY <1>1
<1>9. Member(j[n])
  BY <1>7, <1>8
<1> QED
  BY <1>1, <1>9, FlattenIsJoined DEF j, n, e, Member

----------------------------------------------------------------------------
(* The order in which a file is read.  A field that points to memory is    *)
(* preceded by what gguf_close looks at before it frees that memory.       *)
Allocated == {"metadata", "tensors", "data", "key", "text", "item", "name"}

Preceded(x, set) ==
    /\ x[1] \in {"key", "text", "data", "item"} => <<"metadata", 0, 0>> \in set
    /\ x[1] \in {"text", "data", "item"} => <<"type", x[2], 0>> \in set
    /\ x[1] = "item" => <<"elem", x[2], 0>> \in set /\ <<"data", x[2], 0>> \in set
    /\ x[1] = "name" => <<"tensors", 0, 0>> \in set

(* A field is a field of this file.                                        *)
Present(f, x) ==
    /\ x[1] \in {"metadata", "tensors", "fd", "map"} => x[2] = 0 /\ x[3] = 0
    /\ x[1] \in {"key", "text", "data", "item"} => x[2] \in DOMAIN f.metadata
    /\ x[1] \in {"key", "text", "data", "name"} => x[3] = 0
    /\ x[1] = "text" => f.metadata[x[2]].value.type = "string"
    /\ x[1] \in {"data", "item"} => f.metadata[x[2]].value.type = "array"
    /\ x[1] = "item" => /\ f.metadata[x[2]].value.elem = "string"
                        /\ x[3] \in DOMAIN f.metadata[x[2]].value.items
    /\ x[1] = "name" => x[2] \in DOMAIN f.tensors

Kinds == Allocated \cup {"magic", "version", "counts", "type", "elem", "scalar",
                         "alignment", "descriptor", "fd", "map"}

FieldType == Kinds \X Nat \X Nat
PieceType == [field : FieldType, bytes : Nat, valid : BOOLEAN]

Pieces(f) ==
    {p \in PieceType : /\ Present(f, p.field) /\ p.field[1] \notin {"fd", "map"}
                       /\ p.field[1] \in Allocated => p.valid}

FieldsOf(s) == {s[m].field : m \in DOMAIN s}

Follows(s, set) ==
    \A n \in DOMAIN s : Preceded(s[n].field, set \cup {s[m].field : m \in 1 .. n - 1})

Orderly(f, set) == {s \in Seq(Pieces(f)) : Follows(s, set)}

LEMMA FollowsMore ==
    ASSUME NEW s, NEW set, NEW more, set \subseteq more, Follows(s, set)
    PROVE  Follows(s, more)
BY DEF Follows, Preceded

LEMMA FollowsJoined ==
    ASSUME NEW S, NEW s \in Seq(S), NEW t \in Seq(S), NEW set,
           Follows(s, set), Follows(t, set \cup FieldsOf(s))
    PROVE  Follows(s \o t, set)
<1> DEFINE q == s \o t
<1>1. /\ q \in Seq(S) /\ Len(q) = Len(s) + Len(t) /\ Len(s) \in Nat /\ Len(t) \in Nat
      /\ \A k \in 1 .. Len(s) : q[k] = s[k]
      /\ \A k \in 1 .. Len(t) : q[Len(s) + k] = t[k]
      /\ DOMAIN s = 1 .. Len(s) /\ DOMAIN t = 1 .. Len(t)
      /\ DOMAIN q = 1 .. Len(s) + Len(t)
  BY Joining
<1> HIDE DEF q
<1>2. ASSUME NEW n \in DOMAIN q
      PROVE  Preceded(q[n].field, set \cup {q[m].field : m \in 1 .. n - 1})
  <2> DEFINE past == {q[m].field : m \in 1 .. n - 1}
  <2>1. CASE n \in 1 .. Len(s)
    <3>1. \A m \in 1 .. n - 1 : q[m] = s[m]
      BY <1>1, <2>1
    <3>2. {s[m].field : m \in 1 .. n - 1} \subseteq past
      BY <3>1
    <3>3. Preceded(q[n].field, set \cup {s[m].field : m \in 1 .. n - 1})
      BY <1>1, <2>1 DEF Follows
    <3> HIDE DEF past
    <3> QED
      BY <3>2, <3>3 DEF Preceded, past
  <2>2. CASE n \notin 1 .. Len(s)
    <3> DEFINE k == n - Len(s)
    <3>1. k \in 1 .. Len(t) /\ n = Len(s) + k
      BY <1>1, <2>2
    <3>2. \A m \in 1 .. k - 1 : Len(s) + m \in 1 .. n - 1 /\ q[Len(s) + m] = t[m]
      BY <1>1, <3>1
    <3>3. \A m \in 1 .. Len(s) : m \in 1 .. n - 1 /\ q[m] = s[m]
      BY <1>1, <3>1
    <3>4. FieldsOf(s) \subseteq past
      BY <1>1, <3>3 DEF FieldsOf
    <3>5. {t[m].field : m \in 1 .. k - 1} \subseteq past
      BY <3>2
    <3>6. Preceded(t[k].field, (set \cup FieldsOf(s)) \cup {t[m].field : m \in 1 .. k - 1})
      BY <1>1, <3>1 DEF Follows
    <3>7. q[n] = t[k]
      BY <1>1, <3>1
    <3> HIDE DEF past, k
    <3> QED
      BY <3>4, <3>5, <3>6, <3>7 DEF Preceded, past
  <2> QED
    BY <2>1, <2>2
<1> QED
  BY <1>2 DEF Follows, q

LEMMA OrderlyJoined ==
    ASSUME NEW f, NEW set, NEW s \in Orderly(f, set),
           NEW t \in Orderly(f, set \cup FieldsOf(s))
    PROVE  s \o t \in Orderly(f, set)
BY FollowsJoined, Joining DEF Orderly

LEMMA OrderlyMore ==
    ASSUME NEW f, NEW set, NEW more, set \subseteq more
    PROVE  Orderly(f, set) \subseteq Orderly(f, more)
BY FollowsMore DEF Orderly

LEMMA OrderlyFlattened ==
    ASSUME NEW f, NEW set, NEW ss \in Seq(Seq(Pieces(f))),
           \A i \in 1 .. Len(ss) : ss[i] \in Orderly(f, set)
    PROVE  SX!FlattenSeq(ss) \in Orderly(f, set)
<1> DEFINE Good == Orderly(f, set)
<1>1. Good \in SUBSET Seq(Pieces(f)) /\ <<>> \in Good
  BY DEF Orderly, Follows
<1>2. ASSUME NEW i \in 1 .. Len(ss), NEW s \in Good PROVE s \o ss[i] \in Good
  BY OrderlyJoined, OrderlyMore
<1>3. \A i \in 1 .. Len(ss) : ss[i] \in Good /\ \A s \in Good : s \o ss[i] \in Good
  BY <1>2
<1> HIDE DEF Good
<1>4. SX!FlattenSeq(ss) \in Good
  BY <1>1, <1>3, Flattening
<1> QED
  BY <1>4 DEF Good

(* The parts of a file.                                                    *)
LEMMA OnePiece ==
    ASSUME NEW f, NEW set, NEW p \in Pieces(f), Preceded(p.field, set)
    PROVE  <<p>> \in Orderly(f, set) /\ FieldsOf(<<p>>) = {p.field}
<1>1. /\ <<p>> \in Seq(Pieces(f)) /\ DOMAIN <<p>> = {1} /\ <<p>>[1] = p
  OBVIOUS
<1>2. Follows(<<p>>, set)
  BY <1>1 DEF Follows, Preceded
<1> QED
  BY <1>1, <1>2 DEF Orderly, FieldsOf

LEMMA TwoPieces ==
    ASSUME NEW f, NEW set, NEW p \in Pieces(f), NEW q \in Pieces(f),
           Preceded(p.field, set), Preceded(q.field, set \cup {p.field})
    PROVE  <<p, q>> \in Orderly(f, set) /\ FieldsOf(<<p, q>>) = {p.field, q.field}
<1>1. /\ <<p, q>> \in Seq(Pieces(f)) /\ DOMAIN <<p, q>> = {1, 2}
      /\ <<p, q>>[1] = p /\ <<p, q>>[2] = q
  OBVIOUS
<1> DEFINE s == <<p, q>>
<1> HIDE DEF s
<1>2. ASSUME NEW n \in DOMAIN s
      PROVE  Preceded(s[n].field, set \cup {s[m].field : m \in 1 .. n - 1})
  <2>1. CASE n = 1
    BY <1>1, <2>1 DEF s, Preceded
  <2>2. CASE n = 2
    <3>1. {s[m].field : m \in 1 .. n - 1} = {p.field}
      <4>1. 1 .. n - 1 = {1}
        BY <2>2
      <4> QED
        BY <1>1, <4>1 DEF s
    <3>2. s[n] = q
      BY <1>1, <2>2 DEF s
    <3> QED
      BY <3>1, <3>2
  <2> QED
    BY <1>1, <2>1, <2>2 DEF s
<1>3. s \in Orderly(f, set) /\ FieldsOf(s) = {p.field, q.field}
  BY <1>1, <1>2 DEF Orderly, Follows, FieldsOf, s
<1> QED
  BY <1>3 DEF s

LEMMA TwoFields ==
    ASSUME NEW p, NEW q
    PROVE  FieldsOf(<<p, q>>) = {p.field, q.field}
<1> DEFINE s == <<p, q>>
<1>1. DOMAIN s = {1, 2} /\ s[1] = p /\ s[2] = q
  OBVIOUS
<1> HIDE DEF s
<1>2. FieldsOf(s) = {p.field, q.field}
  BY <1>1 DEF FieldsOf
<1> QED
  BY <1>2 DEF s

LEMMA IsPiece ==
    ASSUME NEW f, NEW kind \in Kinds, NEW i \in Nat, NEW j \in Nat, NEW bytes \in Nat,
           NEW valid \in BOOLEAN, Present(f, <<kind, i, j>>), kind \notin {"fd", "map"},
           kind \in Allocated => valid
    PROVE  Piece(kind, i, j, bytes, valid) \in Pieces(f)
<1> DEFINE x == <<kind, i, j>>
<1>1. x \in FieldType /\ x[1] = kind
  BY DEF FieldType
<1> HIDE DEF x
<1>2. [field |-> x, bytes |-> bytes, valid |-> valid] \in Pieces(f)
  BY <1>1 DEF Pieces, PieceType, x
<1> QED
  BY <1>2 DEF Piece, x

LEMMA AllKinds ==
    /\ {"magic", "version", "counts", "type", "elem", "scalar", "alignment",
         "descriptor"} \subseteq Kinds \ (Allocated \cup {"fd", "map"})
    /\ {"metadata", "tensors", "data", "key", "text", "item", "name"} \subseteq Kinds \ {"fd", "map"}
BY DEF Kinds, Allocated

LEMMA ValueOrderly ==
    ASSUME NEW f, ProperFile(f), NEW i \in DOMAIN f.metadata
    PROVE  ValuePieces(i, f.metadata[i].value)
              \in Orderly(f, {<<"metadata", 0, 0>>, <<"key", i, 0>>, <<"type", i, 0>>})
<1> DEFINE v == f.metadata[i].value
           set == {<<"metadata", 0, 0>>, <<"key", i, 0>>, <<"type", i, 0>>}
<1>1. i \in Nat /\ ProperValue(v)
  BY DEF ProperFile, Sequence
<1> HIDE DEF set
<1>2. CASE v.type = "string"
  <2> DEFINE bytes == 8 + v.length
             p == Piece("text", i, 0, bytes, TRUE)
  <2>1. Present(f, <<"text", i, 0>>) /\ bytes \in Nat
    BY <1>1, <1>2 DEF Present, ProperValue
  <2>2. p \in Pieces(f) /\ p.field = <<"text", i, 0>>
    <3>1. p.field = <<"text", i, 0>>
      BY DEF Piece
    <3> HIDE DEF bytes
    <3>2. p \in Pieces(f)
      BY <1>1, <2>1, IsPiece, AllKinds
    <3> QED
      BY <3>1, <3>2
  <2>3. ValuePieces(i, v) = <<p>>
    BY <1>2 DEF ValuePieces
  <2> HIDE DEF p
  <2>4. Preceded(p.field, set)
    BY <2>2 DEF Preceded, set
  <2> QED
    BY <2>2, <2>3, <2>4, OnePiece DEF set
<1>3. CASE v.type = "array" /\ v.elem = "string"
  <2> DEFINE p == Piece("elem", i, 0, 12, TRUE)
             q == Piece("data", i, 0, 0, TRUE)
             items == [j \in DOMAIN v.items |-> Piece("item", i, j, 8 + v.items[j], TRUE)]
             more == set \cup FieldsOf(<<p, q>>)
  <2>1. v.items \in Seq(Nat)
    BY <1>1, <1>3 DEF ProperValue
  <2>2. Present(f, <<"elem", i, 0>>) /\ Present(f, <<"data", i, 0>>)
    BY <1>3 DEF Present
  <2>3. /\ p \in Pieces(f) /\ p.field = <<"elem", i, 0>>
        /\ q \in Pieces(f) /\ q.field = <<"data", i, 0>>
    <3>1. p.field = <<"elem", i, 0>> /\ q.field = <<"data", i, 0>>
      BY DEF Piece
    <3>2. p \in Pieces(f) /\ q \in Pieces(f)
      BY <1>1, <2>2, IsPiece, AllKinds
    <3> QED
      BY <3>1, <3>2
  <2>4. ASSUME NEW j \in DOMAIN v.items
        PROVE  items[j] \in Pieces(f) /\ items[j].field = <<"item", i, j>>
    <3> DEFINE bytes == 8 + v.items[j]
    <3>1. items[j] = Piece("item", i, j, bytes, TRUE)
      OBVIOUS
    <3>2. j \in Nat /\ bytes \in Nat
      BY <2>1
    <3>3. Present(f, <<"item", i, j>>)
      BY <1>3 DEF Present
    <3>4. items[j].field = <<"item", i, j>>
      BY <3>1 DEF Piece
    <3> HIDE DEF bytes, items
    <3>5. Piece("item", i, j, bytes, TRUE) \in Pieces(f)
      BY <1>1, <3>2, <3>3, IsPiece, AllKinds
    <3> QED
      BY <3>1, <3>4, <3>5
  <2>5. ValuePieces(i, v) = <<p, q>> \o items
    BY <1>3 DEF ValuePieces
  <2>6. DOMAIN items = DOMAIN v.items /\ DOMAIN v.items = 1 .. Len(v.items)
    BY <2>1
  <2>7. items \in Seq(Pieces(f))
    <3>1. Len(v.items) \in Nat
      BY <2>1
    <3>2. items = [j \in DOMAIN v.items |-> items[j]]
      OBVIOUS
    <3> HIDE DEF items
    <3>3. items = [j \in 1 .. Len(v.items) |-> items[j]]
      BY <2>6, <3>2
    <3> QED
      BY <2>4, <2>6, <3>1, <3>3, FromFunction
  <2> HIDE DEF p, q, items
  <2>8. Preceded(p.field, set) /\ Preceded(q.field, set \cup {p.field})
    BY <2>3 DEF Preceded, set
  <2>9. <<p, q>> \in Orderly(f, set) /\ FieldsOf(<<p, q>>) = {p.field, q.field}
    BY <2>3, <2>8, TwoPieces
  <2>10. \A j \in DOMAIN items : Preceded(items[j].field, more)
    BY <2>3, <2>4, <2>6, <2>9 DEF Preceded, set
  <2>11. items \in Orderly(f, more)
    BY <2>7, <2>10 DEF Orderly, Follows, Preceded
  <2>12. <<p, q>> \o items \in Orderly(f, set)
    BY <2>9, <2>11, OrderlyJoined
  <2> QED
    BY <2>5, <2>12 DEF set
<1>4. CASE v.type = "array" /\ v.elem # "string"
  <2> DEFINE known == v.elem # "unknown"
             bytes == v.count * v.bytes
             p == Piece("elem", i, 0, 12, known)
             q == Piece("data", i, 0, bytes, TRUE)
  <2>1. bytes \in Nat
    BY <1>1, <1>4 DEF ProperValue
  <2>2. Present(f, <<"elem", i, 0>>) /\ Present(f, <<"data", i, 0>>)
    BY <1>4 DEF Present
  <2>3. known \in BOOLEAN
    OBVIOUS
  <2>4. ValuePieces(i, v) = <<p, q>>
    BY <1>4 DEF ValuePieces
  <2> HIDE DEF known, bytes
  <2>5. /\ p \in Pieces(f) /\ p.field = <<"elem", i, 0>>
        /\ q \in Pieces(f) /\ q.field = <<"data", i, 0>>
    <3>1. p.field = <<"elem", i, 0>> /\ q.field = <<"data", i, 0>>
      BY DEF Piece
    <3>2. "elem" \in Allocated => known
      BY DEF Allocated
    <3>3. p \in Pieces(f) /\ q \in Pieces(f)
      BY <1>1, <2>1, <2>2, <2>3, <3>2, IsPiece, AllKinds
    <3> QED
      BY <3>1, <3>3
  <2> HIDE DEF p, q
  <2>6. Preceded(p.field, set) /\ Preceded(q.field, set \cup {p.field})
    BY <2>5 DEF Preceded, set
  <2>7. <<p, q>> \in Orderly(f, set)
    BY <2>5, <2>6, TwoPieces
  <2> QED
    BY <2>4, <2>7 DEF set
<1>5. CASE v.type = "unknown"
  BY <1>5 DEF ValuePieces, Orderly, Follows
<1>6. CASE v.type \notin {"string", "array", "unknown"}
  <2> DEFINE p == Piece("scalar", i, 0, v.bytes, TRUE)
  <2>1. Present(f, <<"scalar", i, 0>>) /\ v.bytes \in Nat
    BY <1>1, <1>6 DEF Present, ProperValue
  <2>2. p \in Pieces(f) /\ p.field = <<"scalar", i, 0>>
    <3>1. p.field = <<"scalar", i, 0>>
      BY DEF Piece
    <3>2. p \in Pieces(f)
      BY <1>1, <2>1, IsPiece, AllKinds
    <3> QED
      BY <3>1, <3>2
  <2>3. ValuePieces(i, v) = <<p>>
    BY <1>6 DEF ValuePieces
  <2> HIDE DEF p
  <2>4. Preceded(p.field, set)
    BY <2>2 DEF Preceded, set
  <2> QED
    BY <2>2, <2>3, <2>4, OnePiece DEF set
<1> QED
  BY <1>2, <1>3, <1>4, <1>5, <1>6 DEF set

LEMMA FieldsJoined ==
    ASSUME NEW S, NEW s \in Seq(S), NEW t \in Seq(S)
    PROVE  FieldsOf(s \o t) = FieldsOf(s) \cup FieldsOf(t)
<1> DEFINE q == s \o t
<1>1. /\ Len(s) \in Nat /\ Len(t) \in Nat
      /\ \A k \in 1 .. Len(s) : q[k] = s[k]
      /\ \A k \in 1 .. Len(t) : q[Len(s) + k] = t[k]
      /\ DOMAIN s = 1 .. Len(s) /\ DOMAIN t = 1 .. Len(t)
      /\ DOMAIN q = 1 .. Len(s) + Len(t)
      /\ \A k \in 1 .. Len(s) + Len(t) : k \in 1 .. Len(s) \/ k - Len(s) \in 1 .. Len(t)
  BY Joining
<1> HIDE DEF q
<1>2. ASSUME NEW k \in DOMAIN q PROVE q[k].field \in FieldsOf(s) \cup FieldsOf(t)
  <2>1. CASE k \in 1 .. Len(s)
    BY <1>1, <2>1 DEF FieldsOf
  <2>2. CASE k \notin 1 .. Len(s)
    <3>1. k - Len(s) \in 1 .. Len(t) /\ Len(s) + (k - Len(s)) = k
      BY <1>1, <2>2
    <3>2. q[k] = t[k - Len(s)]
      BY <1>1, <3>1
    <3> QED
      BY <1>1, <3>1, <3>2 DEF FieldsOf
  <2> QED
    BY <2>1, <2>2
<1>3. ASSUME NEW k \in DOMAIN s PROVE s[k].field \in FieldsOf(q)
  <2>1. k \in DOMAIN q /\ q[k] = s[k]
    BY <1>1
  <2> QED
    BY <2>1 DEF FieldsOf
<1>4. ASSUME NEW k \in DOMAIN t PROVE t[k].field \in FieldsOf(q)
  <2>1. Len(s) + k \in DOMAIN q /\ q[Len(s) + k] = t[k]
    BY <1>1
  <2> QED
    BY <2>1 DEF FieldsOf
<1>5. FieldsOf(q) \subseteq FieldsOf(s) \cup FieldsOf(t)
  BY <1>2 DEF FieldsOf
<1>6. FieldsOf(s) \cup FieldsOf(t) \subseteq FieldsOf(q)
  BY <1>3, <1>4 DEF FieldsOf
<1> QED
  BY <1>5, <1>6 DEF q

LEMMA EntryOrderly ==
    ASSUME NEW f, ProperFile(f), NEW i \in DOMAIN f.metadata
    PROVE  EntryPieces(f, i) \in Orderly(f, {<<"metadata", 0, 0>>})
<1> DEFINE set == {<<"metadata", 0, 0>>}
           v == f.metadata[i].value
           known == v.type # "unknown"
           bytes == 8 + NameLength
           p == Piece("key", i, 0, bytes, TRUE)
           q == Piece("type", i, 0, 4, known)
           rest == ValuePieces(i, v)
<1>1. i \in Nat /\ bytes \in Nat /\ known \in BOOLEAN
  BY InputAssumption DEF ProperFile, Sequence
<1>2. EntryPieces(f, i) = <<p, q>> \o rest
  BY DEF EntryPieces
<1>3. rest \in Orderly(f, {<<"metadata", 0, 0>>, <<"key", i, 0>>, <<"type", i, 0>>})
  BY ValueOrderly
<1>4. Present(f, <<"key", i, 0>>) /\ Present(f, <<"type", i, 0>>)
  BY DEF Present
<1>5. p.field = <<"key", i, 0>> /\ q.field = <<"type", i, 0>>
  BY DEF Piece
<1> HIDE DEF bytes, known, rest, set
<1>6. p \in Pieces(f)
  BY <1>1, <1>4, IsPiece, AllKinds
<1>7. q \in Pieces(f)
  BY <1>1, <1>4, IsPiece, AllKinds
<1> HIDE DEF p, q
<1>8. Preceded(p.field, set) /\ Preceded(q.field, set \cup {p.field})
  BY <1>5 DEF Preceded, set
<1>9. <<p, q>> \in Orderly(f, set) /\ FieldsOf(<<p, q>>) = {p.field, q.field}
  <2>1. <<p, q>> \in Orderly(f, set)
    BY <1>6, <1>7, <1>8, TwoPieces
  <2>2. FieldsOf(<<p, q>>) = {p.field, q.field}
    BY TwoFields
  <2> QED
    BY <2>1, <2>2
<1>10. rest \in Orderly(f, set \cup FieldsOf(<<p, q>>))
  <2>1. {<<"metadata", 0, 0>>, <<"key", i, 0>>, <<"type", i, 0>>} = set \cup FieldsOf(<<p, q>>)
    BY <1>5, <1>9 DEF set
  <2> QED
    BY <1>3, <2>1
<1>11. <<p, q>> \o rest \in Orderly(f, set)
  BY <1>9, <1>10, OrderlyJoined
<1> QED
  BY <1>2, <1>11 DEF set

LEMMA TensorOrderly ==
    ASSUME NEW f, ProperFile(f), NEW i \in DOMAIN f.tensors
    PROVE  TensorPieces(f, i) \in Orderly(f, {<<"tensors", 0, 0>>})
<1> DEFINE set == {<<"tensors", 0, 0>>}
           t == f.tensors[i]
           bytes == 8 + NameLength
           more == 16 + 8 * Len(t.dims)
           sound == /\ Len(t.dims) \in 1 .. 4
                    /\ \A d \in DOMAIN t.dims : t.dims[d] > 0
                    /\ Elements(t) < Word
           p == Piece("name", i, 0, bytes, TRUE)
           q == Piece("descriptor", i, 0, more, sound)
<1>1. i \in Nat /\ bytes \in Nat /\ more \in Nat /\ sound \in BOOLEAN
  <2>1. t.dims \in Seq(Nat)
    BY DEF ProperFile
  <2> QED
    BY <2>1, InputAssumption DEF ProperFile, Sequence
<1>2. TensorPieces(f, i) = <<p, q>>
  BY DEF TensorPieces
<1>4. Present(f, <<"name", i, 0>>) /\ Present(f, <<"descriptor", i, 0>>)
  BY DEF Present
<1>5. p.field = <<"name", i, 0>> /\ q.field = <<"descriptor", i, 0>>
  BY DEF Piece
<1> HIDE DEF bytes, more, sound, set
<1>6. p \in Pieces(f)
  BY <1>1, <1>4, IsPiece, AllKinds
<1>7. q \in Pieces(f)
  BY <1>1, <1>4, IsPiece, AllKinds
<1> HIDE DEF p, q
<1>8. Preceded(p.field, set) /\ Preceded(q.field, set \cup {p.field})
  BY <1>5 DEF Preceded, set
<1>9. <<p, q>> \in Orderly(f, set)
  BY <1>6, <1>7, <1>8, TwoPieces
<1> QED
  BY <1>2, <1>9 DEF set

(* A file is read in an order in which gguf_close finds everything that    *)
(* was taken, wherever the reading stops.                                  *)
LEMMA EntriesOrderly ==
    ASSUME NEW f, ProperFile(f)
    PROVE  SX!FlattenSeq([i \in DOMAIN f.metadata |-> EntryPieces(f, i)])
              \in Orderly(f, {<<"metadata", 0, 0>>})
<1> DEFINE ss == [i \in DOMAIN f.metadata |-> EntryPieces(f, i)]
           n == Len(f.metadata)
           set == {<<"metadata", 0, 0>>}
<1>1. n \in Nat /\ DOMAIN f.metadata = 1 .. n
  BY DEF ProperFile, Sequence
<1>2. \A i \in DOMAIN f.metadata : ss[i] = EntryPieces(f, i)
  OBVIOUS
<1>3. ss = [i \in DOMAIN f.metadata |-> ss[i]]
  OBVIOUS
<1> HIDE DEF ss, n
<1>4. \A i \in 1 .. n : ss[i] \in Orderly(f, set)
  BY <1>1, <1>2, EntryOrderly
<1> HIDE DEF set
<1>5. ss \in Seq(Seq(Pieces(f))) /\ Len(ss) = n
  <2>1. ss = [i \in 1 .. n |-> ss[i]]
    BY <1>1, <1>3
  <2>2. \A i \in 1 .. n : ss[i] \in Seq(Pieces(f))
    BY <1>4 DEF Orderly
  <2> QED
    BY <1>1, <2>1, <2>2, FromFunction
<1>6. SX!FlattenSeq(ss) \in Orderly(f, set)
  BY <1>4, <1>5, OrderlyFlattened
<1> QED
  BY <1>6 DEF ss, set

LEMMA TensorsOrderly ==
    ASSUME NEW f, ProperFile(f)
    PROVE  SX!FlattenSeq([i \in DOMAIN f.tensors |-> TensorPieces(f, i)])
              \in Orderly(f, {<<"tensors", 0, 0>>})
<1> DEFINE ss == [i \in DOMAIN f.tensors |-> TensorPieces(f, i)]
           n == Len(f.tensors)
           set == {<<"tensors", 0, 0>>}
<1>1. n \in Nat /\ DOMAIN f.tensors = 1 .. n
  BY DEF ProperFile, Sequence
<1>2. \A i \in DOMAIN f.tensors : ss[i] = TensorPieces(f, i)
  OBVIOUS
<1>3. ss = [i \in DOMAIN f.tensors |-> ss[i]]
  OBVIOUS
<1> HIDE DEF ss, n
<1>4. \A i \in 1 .. n : ss[i] \in Orderly(f, set)
  BY <1>1, <1>2, TensorOrderly
<1> HIDE DEF set
<1>5. ss \in Seq(Seq(Pieces(f))) /\ Len(ss) = n
  <2>1. ss = [i \in 1 .. n |-> ss[i]]
    BY <1>1, <1>3
  <2>2. \A i \in 1 .. n : ss[i] \in Seq(Pieces(f))
    BY <1>4 DEF Orderly
  <2> QED
    BY <1>1, <2>1, <2>2, FromFunction
<1>6. SX!FlattenSeq(ss) \in Orderly(f, set)
  BY <1>4, <1>5, OrderlyFlattened
<1> QED
  BY <1>6 DEF ss, set

LEMMA HeaderOrderly ==
    ASSUME NEW f, ProperFile(f)
    PROVE  Header(f) \in Orderly(f, {})
<1> DEFINE known == f.version \in 2 .. 3
           p == Piece("magic", 0, 0, 4, f.magic)
           q == Piece("version", 0, 0, 4, known)
           r == Piece("counts", 0, 0, 16, f.counts)
<1>1. Header(f) = <<p, q, r>>
  BY DEF Header
<1>2. known \in BOOLEAN /\ f.magic \in BOOLEAN /\ f.counts \in BOOLEAN
  BY DEF ProperFile
<1>3. /\ p.field = <<"magic", 0, 0>> /\ q.field = <<"version", 0, 0>>
      /\ r.field = <<"counts", 0, 0>>
  BY DEF Piece
<1>4. /\ Present(f, <<"magic", 0, 0>>) /\ Present(f, <<"version", 0, 0>>)
      /\ Present(f, <<"counts", 0, 0>>)
  BY DEF Present
<1> HIDE DEF known
<1>5. p \in Pieces(f) /\ q \in Pieces(f) /\ r \in Pieces(f)
  BY <1>2, <1>4, IsPiece, AllKinds
<1> HIDE DEF p, q, r
<1> DEFINE s == <<p, q, r>>
<1>6. s \in Seq(Pieces(f)) /\ DOMAIN s = {1, 2, 3} /\ s[1] = p /\ s[2] = q /\ s[3] = r
  BY <1>5
<1> HIDE DEF s
<1>7. Follows(s, {})
  BY <1>3, <1>6 DEF Follows, Preceded
<1> QED
  BY <1>1, <1>6, <1>7 DEF Orderly, s

LEMMA LayoutOrderly ==
    ASSUME NEW f, ProperFile(f)
    PROVE  Layout(f) \in Orderly(f, {})
<1> DEFINE aligned == PowerOfTwo(Alignment(f))
           m == Piece("metadata", 0, 0, 0, TRUE)
           a == Piece("alignment", 0, 0, 0, aligned)
           t == Piece("tensors", 0, 0, 0, TRUE)
           entries == SX!FlattenSeq([i \in DOMAIN f.metadata |-> EntryPieces(f, i)])
           tensors == SX!FlattenSeq([i \in DOMAIN f.tensors |-> TensorPieces(f, i)])
<1>1. Layout(f) = (((Header(f) \o <<m>>) \o entries) \o <<a, t>>) \o tensors
  BY DEF Layout
<1>2. entries \in Orderly(f, {m.field}) /\ tensors \in Orderly(f, {t.field})
  BY EntriesOrderly, TensorsOrderly DEF Piece
<1>3. /\ m.field = <<"metadata", 0, 0>> /\ t.field = <<"tensors", 0, 0>>
      /\ a.field = <<"alignment", 0, 0>>
  BY DEF Piece
<1>4. /\ Present(f, <<"metadata", 0, 0>>) /\ Present(f, <<"tensors", 0, 0>>)
      /\ Present(f, <<"alignment", 0, 0>>)
  BY DEF Present
<1>5. aligned \in BOOLEAN
  BY DEF PowerOfTwo
<1> HIDE DEF aligned, entries, tensors
<1>6. m \in Pieces(f) /\ a \in Pieces(f) /\ t \in Pieces(f)
  BY <1>4, <1>5, IsPiece, AllKinds
<1> HIDE DEF m, a, t
<1>7. \A set : Preceded(m.field, set) /\ Preceded(a.field, set) /\ Preceded(t.field, set)
  BY <1>3 DEF Preceded
<1>8. Header(f) \in Orderly(f, {})
  BY HeaderOrderly
<1> DEFINE s1 == Header(f) \o <<m>>
           s2 == s1 \o entries
           s3 == s2 \o <<a, t>>
<1>9. s1 \in Orderly(f, {}) /\ m.field \in FieldsOf(s1)
  <2>1. <<m>> \in Orderly(f, {} \cup FieldsOf(Header(f))) /\ FieldsOf(<<m>>) = {m.field}
    BY <1>6, <1>7, OnePiece
  <2>2. Header(f) \in Seq(Pieces(f)) /\ <<m>> \in Seq(Pieces(f))
    BY <1>8, <2>1 DEF Orderly
  <2>3. Header(f) \o <<m>> \in Orderly(f, {})
    BY <1>8, <2>1, OrderlyJoined
  <2>4. FieldsOf(Header(f) \o <<m>>) = FieldsOf(Header(f)) \cup FieldsOf(<<m>>)
    BY <2>2, FieldsJoined
  <2> QED
    BY <2>1, <2>3, <2>4
<1> HIDE DEF s1
<1>10. s2 \in Orderly(f, {})
  <2>1. {m.field} \subseteq {} \cup FieldsOf(s1)
    BY <1>9
  <2>2. entries \in Orderly(f, {} \cup FieldsOf(s1))
    BY <1>2, <2>1, OrderlyMore
  <2> QED
    BY <1>9, <2>2, OrderlyJoined
<1> HIDE DEF s2
<1>11. s3 \in Orderly(f, {}) /\ t.field \in FieldsOf(s3)
  <2>1. <<a, t>> \in Orderly(f, {} \cup FieldsOf(s2))
    BY <1>6, <1>7, TwoPieces
  <2>2. s2 \in Seq(Pieces(f)) /\ <<a, t>> \in Seq(Pieces(f))
    BY <1>10, <2>1 DEF Orderly
  <2>3. t.field \in FieldsOf(<<a, t>>)
    BY TwoFields
  <2>4. s3 \in Orderly(f, {})
    BY <1>10, <2>1, OrderlyJoined
  <2>5. FieldsOf(s3) = FieldsOf(s2) \cup FieldsOf(<<a, t>>)
    BY <2>2, FieldsJoined
  <2> QED
    BY <2>3, <2>4, <2>5
<1> HIDE DEF s3
<1>12. tensors \in Orderly(f, {} \cup FieldsOf(s3))
  <2>1. {t.field} \subseteq {} \cup FieldsOf(s3)
    BY <1>11
  <2> QED
    BY <1>2, <2>1, OrderlyMore
<1>13. s3 \o tensors \in Orderly(f, {})
  BY <1>11, <1>12, OrderlyJoined
<1> QED
  BY <1>1, <1>13 DEF s3, s2, s1

----------------------------------------------------------------------------
(* The inductive invariant.                                                *)

(* The memory the fields point to, the descriptor and the mapping.         *)
FileHeap(set) == {x \in set : x[1] \in Allocated \cup {"fd", "map"}}

(* What gguf_close can be called with.                                     *)
WellRead(f, set) == \A x \in set : x \in FieldType /\ Present(f, x) /\ Preceded(x, set)

(* What main releases in front of a return, and between which stages it    *)
(* holds what it releases.                                                 *)
Endings == {<<>>, <<"file">>, <<"tokenizer", "file">>, <<"model", "tokenizer", "file">>,
            <<"backend", "tokenizer", "file">>, <<"backend", "model", "tokenizer", "file">>,
            <<"model", "backend", "tokenizer", "file">>}

Waits(what, list) == \E k \in DOMAIN list : list[k] = what

WithBackend   == {"attach", "session"}
WithModel     == WithBackend \cup {"load", "backend"}
WithTokenizer == WithModel \cup {"tokenize"}
WithFile      == WithTokenizer \cup {"map", "read", "inspect", "tokenizer"}

Holds(what, stages) == stage \in stages \/ (stage = "ending" /\ Waits(what, ending))

Others == (IF Holds("tokenizer", WithTokenizer) THEN {Tokenizer} ELSE {})
          \cup (IF Holds("backend", WithBackend) THEN {Backend} ELSE {})

FileInv ==
    /\ ProperFile(file)
    /\ stage = "ending" => ending \in Endings
    /\ stage # "exited" =>
          /\ WellRead(file, fields)
          /\ Holds("file", WithFile) \/ fields = {}
          /\ stage = "read" => todo \in Orderly(file, fields)

HeapInv ==
    /\ misfreed = {}
    /\ stage # "exited" => heap = FileHeap(fields) \cup HeldByModel \cup Others
    /\ stage = "exited" => heap = {} \/ cause \in {"fatal", "fault"}

(* What gpt2_load still has to do: the tokens are counted before their     *)
(* number is compared, the layers exist before they are loaded, the output *)
(* matrix is set once and the caches come last.                            *)
Token == <<"token_embd", 0>>

Steps(blocks) ==
    {LoadStep(slot) : slot \in Slots(blocks) \ {<<"output", 0>>}}
    \cup [do : {"expect"}, slots : SUBSET Slots(blocks)]
    \cup {[do |-> "vocab", slots |-> {Token}], [do |-> "layers", slots |-> {}],
          [do |-> "output", slots |-> {<<"output", 0>>}], [do |-> "caches", slots |-> {}]}

InOrder(p, q) ==
    /\ p.do = "caches" => FALSE
    /\ p.do = "output" => q.do \notin {"output", "load"}
    /\ q.do = "layers" => p.do # "load" \/ p.slots \subseteq GlobalSlots
    /\ p.do = "expect" => q.do # "vocab"

Ordered(list) == \A k, m \in DOMAIN list : k < m => InOrder(list[k], list[m])

Planned(list, blocks) ==
    /\ list \in Seq(Steps(blocks)) /\ list # <<>>
    /\ list[Len(list)].do = "caches"
    /\ Ordered(list)

Does(list, do) == \E k \in DOMAIN list : list[k].do = do
Plans(do) == Does(plan, do)

NoModel == cfg = NoConfig /\ plan = <<>> /\ weights = NoWeights /\ kv_elements = 0

IsWeight(w) == w = [data |-> w.data, bytes |-> w.bytes, owns |-> w.owns, ne0 |-> w.ne0,
                    ne1 |-> w.ne1]
IsConfig(k) == /\ k = [c |-> k.c, f |-> k.f, context |-> k.context, blocks |-> k.blocks,
                       vocab |-> k.vocab]
               /\ {k.c, k.f, k.context, k.blocks} \subseteq Nat \ {0} /\ k.vocab \in Nat

WeightsInv ==
    /\ DOMAIN weights \in {GlobalSlots, Slots(cfg.blocks)}
    /\ \A slot \in DOMAIN weights :
          /\ IsWeight(weights[slot])
          /\ weights[slot].owns \in BOOLEAN /\ weights[slot].ne1 \in Nat
          /\ weights[slot].owns => weights[slot].data = <<"weight", slot, 0>>

ModelInv ==
    stage # "exited" =>
        /\ ~Holds("model", WithModel) => NoModel
        /\ stage = "load" => NoModel \/ Planned(plan, cfg.blocks)
        /\ NoModel \/ IsConfig(cfg)
        /\ WeightsInv
        /\ Plans("layers") \/ NoModel \/ DOMAIN weights = Slots(cfg.blocks)
        /\ Plans("output") => ~weights[<<"output", 0>>].owns

ProgramInv == FileInv /\ HeapInv /\ ModelInv

----------------------------------------------------------------------------
(* What the file answers.                                                  *)
LEMMA EntryFound ==
    ASSUME NEW list, Sequence(list), NEW name, Found(list, name)
    PROVE  \E i \in DOMAIN list :
              /\ Entry(list, name) = list[i] /\ list[i].name = name
              /\ \A j \in 1 .. i - 1 : list[j].name # name
<1> DEFINE T == {i \in DOMAIN list : list[i].name = name}
           Leads(i) == list[i].name = name /\ \A j \in 1 .. i - 1 : list[j].name # name
<1>1. DOMAIN list = 1 .. Len(list) /\ Len(list) \in Nat
  BY DEF Sequence
<1>2. PICK x \in T : \A y \in T : x <= y
  <2>1. T \in SUBSET Nat /\ T # {}
    BY <1>1 DEF Found
  <2> HIDE DEF T
  <2> QED
    BY <2>1, LeastNumber
<1>3. Leads(x) /\ x \in DOMAIN list
  <2>1. \A j \in 1 .. x - 1 : j \in DOMAIN list /\ ~(x <= j)
    BY <1>1, <1>2
  <2> QED
    BY <1>2, <2>1
<1> DEFINE e == CHOOSE i \in DOMAIN list : Leads(i)
<1>4. Leads(e) /\ e \in DOMAIN list
  BY <1>3
<1>5. Entry(list, name) = list[e]
  BY DEF Entry
<1> HIDE DEF e
<1> QED
  BY <1>4, <1>5

LEMMA NumberIsNatural ==
    ASSUME NEW f, ProperFile(f), NEW key, HasNumber(f, key)
    PROVE  Number(f, key) \in Nat
<1>1. PICK i \in DOMAIN f.metadata : Entry(f.metadata, key) = f.metadata[i]
  BY EntryFound DEF ProperFile, HasNumber
<1>2. Value(f, key) = f.metadata[i].value
  BY <1>1 DEF Value
<1>3. ProperValue(f.metadata[i].value)
  BY DEF ProperFile
<1> QED
  BY <1>2, <1>3 DEF HasNumber, Number, ProperValue

----------------------------------------------------------------------------
(* gguf_close frees what the file holds and nothing else.                  *)
EntriesFree(set) ==
    {x \in UNION {{<<"key", i, 0>>} \cup ValueFrees(i, set) : i \in DOMAIN file.metadata} :
        <<"metadata", 0, 0>> \in set}

LEMMA CloseFreesIs ==
    ASSUME NEW set, NEW x
    PROVE  x \in CloseFrees(set) <=>
              \/ x \in EntriesFree(set)
              \/ <<"metadata", 0, 0>> \in set /\ x = <<"metadata", 0, 0>>
              \/ /\ <<"tensors", 0, 0>> \in set
                 /\ x = <<"tensors", 0, 0>> \/ \E i \in DOMAIN file.tensors : x = <<"name", i, 0>>
              \/ x \in {<<"fd", 0, 0>>, <<"map", 0, 0>>}
<1> DEFINE all == UNION {{<<"key", i, 0>>} \cup ValueFrees(i, set) : i \in DOMAIN file.metadata}
           names == {<<"name", i, 0>> : i \in DOMAIN file.tensors}
<1>1. x \in names <=> \E i \in DOMAIN file.tensors : x = <<"name", i, 0>>
  OBVIOUS
<1>2. x \in EntriesFree(set) <=> x \in all /\ <<"metadata", 0, 0>> \in set
  BY DEF EntriesFree
<1>3. CloseFrees(set) =
        (IF <<"metadata", 0, 0>> \in set THEN all \cup {<<"metadata", 0, 0>>} ELSE {})
        \cup (IF <<"tensors", 0, 0>> \in set THEN names \cup {<<"tensors", 0, 0>>} ELSE {})
        \cup {Fd, Map}
  BY Zenon DEF CloseFrees
<1> HIDE DEF all, names
<1> QED
  BY <1>1, <1>2, <1>3 DEF Fd, Map

LEMMA ClosesAll ==
    ASSUME NEW set, WellRead(file, set)
    PROVE  CloseFrees(set) \cap set = FileHeap(set)
<1>1. ASSUME NEW x \in CloseFrees(set) PROVE x[1] \in Allocated \cup {"fd", "map"}
  <2>1. \A i : \A y \in ValueFrees(i, set) : y[1] \in {"text", "data", "item"}
    BY DEF ValueFrees
  <2>2. CASE x \in EntriesFree(set)
    BY <2>1, <2>2 DEF EntriesFree, Allocated
  <2>3. CASE x \notin EntriesFree(set)
    BY <2>3, CloseFreesIs DEF Allocated
  <2> QED
    BY <2>2, <2>3
<1>2. ASSUME NEW x \in FileHeap(set) PROVE x \in CloseFrees(set)
  <2>1. /\ x \in set /\ x = <<x[1], x[2], x[3]>> /\ Present(file, x) /\ Preceded(x, set)
        /\ x[1] \in Allocated \cup {"fd", "map"}
    BY <1>2 DEF FileHeap, WellRead, FieldType
  <2>2. CASE x[1] \in {"fd", "map", "metadata", "tensors"}
    <3>1. x \in {<<"fd", 0, 0>>, <<"map", 0, 0>>, <<"metadata", 0, 0>>, <<"tensors", 0, 0>>}
      BY <2>1, <2>2 DEF Present
    <3> QED
      BY <2>1, <3>1, CloseFreesIs
  <2>3. CASE x[1] = "name"
    <3>1. x = <<"name", x[2], 0>> /\ x[2] \in DOMAIN file.tensors /\ <<"tensors", 0, 0>> \in set
      BY <2>1, <2>3 DEF Present, Preceded
    <3> QED
      BY <3>1, CloseFreesIs
  <2>4. CASE x[1] = "key"
    <3>1. x = <<"key", x[2], 0>> /\ x[2] \in DOMAIN file.metadata /\ <<"metadata", 0, 0>> \in set
      BY <2>1, <2>4 DEF Present, Preceded
    <3>2. x \in EntriesFree(set)
      BY <3>1 DEF EntriesFree
    <3> QED
      BY <3>2, CloseFreesIs
  <2>5. CASE x[1] \in {"text", "data", "item"}
    <3> DEFINE i == x[2]
    <3>1. i \in DOMAIN file.metadata /\ <<"metadata", 0, 0>> \in set /\ <<"type", i, 0>> \in set
      BY <2>1, <2>5 DEF Present, Preceded
    <3>2. ValueFrees(i, set) \subseteq CloseFrees(set)
      <4>1. ValueFrees(i, set) \subseteq EntriesFree(set)
        BY <3>1 DEF EntriesFree
      <4> QED
        BY <4>1, CloseFreesIs
    <3>3. x \in ValueFrees(i, set)
      <4>1. CASE x[1] = "text"
        <5>1. TypeRead(i, "string", set) /\ x = <<"text", i, 0>>
          BY <2>1, <3>1, <4>1 DEF TypeRead, Present
        <5> QED
          BY <5>1 DEF ValueFrees
      <4>2. CASE x[1] = "data"
        <5>1. TypeRead(i, "array", set) /\ ~TypeRead(i, "string", set) /\ x = <<"data", i, 0>>
          BY <2>1, <3>1, <4>2 DEF TypeRead, Present
        <5> QED
          BY <5>1 DEF ValueFrees
      <4>3. CASE x[1] = "item"
        <5>1. TypeRead(i, "array", set) /\ ~TypeRead(i, "string", set)
          BY <2>1, <3>1, <4>3 DEF TypeRead, Present
        <5>2. ItemsRead(i, set) /\ x[3] \in DOMAIN file.metadata[i].value.items
          BY <2>1, <4>3 DEF ItemsRead, Present, Preceded
        <5>3. x = <<"item", i, x[3]>>
          BY <2>1, <4>3
        <5> QED
          BY <5>1, <5>2, <5>3 DEF ValueFrees
      <4> QED
        BY <2>5, <4>1, <4>2, <4>3
    <3> QED
      BY <3>2, <3>3
  <2> QED
    BY <2>1, <2>2, <2>3, <2>4, <2>5 DEF Allocated
<1> QED
  BY <1>1, <1>2 DEF FileHeap

----------------------------------------------------------------------------
(* The releases in front of a return.                                      *)
LEMMA WaitsFor ==
    /\ \A what : ~Waits(what, <<>>)
    /\ \A what, a : Waits(what, <<a>>) <=> what = a
    /\ \A what, a, b : Waits(what, <<a, b>>) <=> what \in {a, b}
    /\ \A what, a, b, c : Waits(what, <<a, b, c>>) <=> what \in {a, b, c}
    /\ \A what, a, b, c, d : Waits(what, <<a, b, c, d>>) <=> what \in {a, b, c, d}
<1>1. \A what : ~Waits(what, <<>>)
  BY DEF Waits
<1>2. ASSUME NEW what, NEW a PROVE Waits(what, <<a>>) <=> what = a
  <2>1. DOMAIN <<a>> = {1}
    OBVIOUS
  <2> QED
    BY <2>1 DEF Waits
<1>3. ASSUME NEW what, NEW a, NEW b PROVE Waits(what, <<a, b>>) <=> what \in {a, b}
  <2>1. DOMAIN <<a, b>> = {1, 2}
    OBVIOUS
  <2> QED
    BY <2>1 DEF Waits
<1>4. ASSUME NEW what, NEW a, NEW b, NEW c PROVE Waits(what, <<a, b, c>>) <=> what \in {a, b, c}
  <2>1. DOMAIN <<a, b, c>> = {1, 2, 3}
    OBVIOUS
  <2> QED
    BY <2>1 DEF Waits
<1>5. ASSUME NEW what, NEW a, NEW b, NEW c, NEW d
      PROVE  Waits(what, <<a, b, c, d>>) <=> what \in {a, b, c, d}
  <2>1. DOMAIN <<a, b, c, d>> = {1, 2, 3, 4}
    OBVIOUS
  <2> QED
    BY <2>1 DEF Waits
<1> QED
  BY <1>1, <1>2, <1>3, <1>4, <1>5

LEMMA Releasing ==
    ASSUME NEW list \in Endings, list # <<>>
    PROVE  /\ Tail(list) \in Endings
           /\ \A what : Waits(what, Tail(list)) <=> Waits(what, list) /\ what # Head(list)
           /\ Waits(Head(list), list)
           /\ Head(list) = "file" => list = <<"file">>
<1>1. CASE list = <<"file">>
  <2>1. Tail(list) = <<>> /\ Head(list) = "file"
    BY <1>1
  <2> QED
    BY <1>1, <2>1, WaitsFor DEF Endings
<1>2. CASE list = <<"tokenizer", "file">>
  <2>1. Tail(list) = <<"file">> /\ Head(list) = "tokenizer"
    BY <1>2
  <2> QED
    BY <1>2, <2>1, WaitsFor DEF Endings
<1>3. CASE list = <<"model", "tokenizer", "file">>
  <2>1. Tail(list) = <<"tokenizer", "file">> /\ Head(list) = "model"
    BY <1>3
  <2> QED
    BY <1>3, <2>1, WaitsFor DEF Endings
<1>4. CASE list = <<"backend", "tokenizer", "file">>
  <2>1. Tail(list) = <<"tokenizer", "file">> /\ Head(list) = "backend"
    BY <1>4
  <2> QED
    BY <1>4, <2>1, WaitsFor DEF Endings
<1>5. CASE list = <<"backend", "model", "tokenizer", "file">>
  <2>1. Tail(list) = <<"model", "tokenizer", "file">> /\ Head(list) = "backend"
    BY <1>5
  <2> QED
    BY <1>5, <2>1, WaitsFor DEF Endings
<1>6. CASE list = <<"model", "backend", "tokenizer", "file">>
  <2>1. Tail(list) = <<"backend", "tokenizer", "file">> /\ Head(list) = "model"
    BY <1>6
  <2> QED
    BY <1>6, <2>1, WaitsFor DEF Endings
<1> QED
  BY <1>1, <1>2, <1>3, <1>4, <1>5, <1>6 DEF Endings

----------------------------------------------------------------------------
(* gpt2_free frees what the model holds and nothing twice.                 *)
LEMMA NoModelHeld ==
    NoModel => /\ HeldByModel = {} /\ WeightsInv
               /\ \A do : ~Plans(do)
<1> SUFFICES ASSUME NoModel PROVE /\ HeldByModel = {} /\ WeightsInv /\ \A do : ~Plans(do)
  OBVIOUS
<1>1. /\ DOMAIN weights = GlobalSlots /\ kv_elements = 0 /\ plan = <<>>
      /\ \A slot \in GlobalSlots : weights[slot] = NoWeight
  BY DEF NoModel, NoWeights
<1>2. NoWeight.owns = FALSE /\ NoWeight.ne1 = 0 /\ IsWeight(NoWeight)
  BY DEF NoWeight, IsWeight
<1>3. WeightsInv
  <2>1. \A slot \in GlobalSlots :
           /\ IsWeight(weights[slot])
           /\ weights[slot].owns \in BOOLEAN /\ weights[slot].ne1 \in Nat
           /\ ~weights[slot].owns
    <3> SUFFICES ASSUME NEW slot \in GlobalSlots
                 PROVE  /\ IsWeight(weights[slot])
                        /\ weights[slot].owns \in BOOLEAN /\ weights[slot].ne1 \in Nat
                        /\ ~weights[slot].owns
      OBVIOUS
    <3>1. weights[slot] = NoWeight
      BY <1>1
    <3>2. NoWeight.owns \in BOOLEAN /\ NoWeight.ne1 \in Nat /\ ~NoWeight.owns
      BY DEF NoWeight
    <3>3. IsWeight(weights[slot])
      BY <1>2, <3>1 DEF IsWeight
    <3> QED
      BY <3>1, <3>2, <3>3
  <2> QED
    BY <1>1, <2>1 DEF WeightsInv
<1>4. HeldByModel = {}
  BY <1>1, <1>2 DEF HeldByModel, OwnedByModel
<1> QED
  BY <1>1, <1>3, <1>4 DEF Plans, Does

LEMMA Tags ==
    ASSUME WeightsInv
    PROVE  /\ \A x \in HeldByModel : x[1] \in {"weight", "layers", "buffer"}
           /\ \A x \in Others : x[1] \in {"tokenizer", "backend"}
           /\ \A set : \A x \in FileHeap(set) : x[1] \in Allocated \cup {"fd", "map"}
<1>1. \A x \in OwnedByModel : x[1] = "weight"
  BY DEF OwnedByModel, WeightsInv
<1>2. \A x \in Buffers : x[1] = "buffer"
  BY DEF Buffers
<1>3. Layers[1] = "layers"
  BY DEF Layers
<1>4. \A x \in HeldByModel : x[1] \in {"weight", "layers", "buffer"}
  BY <1>1, <1>2, <1>3 DEF HeldByModel
<1>5. \A x \in Others : x[1] \in {"tokenizer", "backend"}
  BY DEF Others, Tokenizer, Backend
<1> QED
  BY <1>4, <1>5 DEF FileHeap

LEMMA OwnedOnce ==
    ASSUME WeightsInv
    PROVE  {a \in OwnedByModel : Cardinality(Owning(a)) > 1} = {}
<1> SUFFICES ASSUME NEW a \in OwnedByModel PROVE ~(Cardinality(Owning(a)) > 1)
  OBVIOUS
<1>1. PICK slot \in DOMAIN weights : weights[slot].owns /\ a = weights[slot].data
  BY DEF OwnedByModel
<1>2. \A s \in Owning(a) : s = slot
  BY <1>1 DEF Owning, WeightsInv
<1>3. Owning(a) = {slot}
  BY <1>1, <1>2 DEF Owning
<1>4. Cardinality({slot}) = 1
  BY FS_Singleton
<1> QED
  BY <1>3, <1>4

LEMMA ModelFreed ==
    ASSUME ProgramInv, stage # "exited", FreeModel
    PROVE  /\ misfreed' = {} /\ heap' = FileHeap(fields) \cup Others
           /\ NoModel' /\ HeldByModel' = {} /\ WeightsInv' /\ (\A do : ~Plans(do))'
<1>1. WeightsInv /\ misfreed = {} /\ heap = FileHeap(fields) \cup HeldByModel \cup Others
  BY DEF ProgramInv, ModelInv, HeapInv
<1>2. misfreed' = {}
  BY <1>1, OwnedOnce DEF FreeModel
<1>3. heap' = FileHeap(fields) \cup Others
  BY <1>1, Tags DEF FreeModel, Allocated
<1>4. NoModel'
  BY DEF FreeModel, NoModel
<1>5. (NoModel => /\ HeldByModel = {} /\ WeightsInv /\ \A do : ~Plans(do))'
  BY NoModelHeld, PTL
<1> QED
  BY <1>2, <1>3, <1>4, <1>5

(* What a step of main keeps that takes nothing and gives nothing back.    *)
LEMMA Moves ==
    ASSUME ProgramInv, stage # "exited", stage' \notin {"exited", "read"},
           UNCHANGED <<file, heap, misfreed, fields, todo, modelVars>>,
           stage' = "load" => NoModel,
           stage' = "ending" => ending' \in Endings,
           Others' = Others,
           Holds("file", WithFile) => Holds("file", WithFile)',
           NoModel \/ (Holds("model", WithModel) => Holds("model", WithModel)')
    PROVE  ProgramInv'
<1>1. /\ HeldByModel' = HeldByModel /\ NoModel' = NoModel /\ WeightsInv' = WeightsInv
      /\ \A do : Plans(do)' = Plans(do)
  BY DEF modelVars, HeldByModel, OwnedByModel, NoModel, WeightsInv, Plans
<1>2. FileInv'
  BY DEF ProgramInv, FileInv
<1>3. HeapInv'
  BY <1>1 DEF ProgramInv, HeapInv
<1>4. ModelInv'
  BY <1>1 DEF ProgramInv, ModelInv, modelVars
<1> QED
  BY <1>2, <1>3, <1>4 DEF ProgramInv

LEMMA MainMoves ==
    ASSUME ProgramInv,
           \/ Answered \/ ParseOptions \/ Inspect \/ NoTokenizer \/ Tokenize \/ TokenizeFails
           \/ NoDeviceTaken \/ BackendRefused \/ Attach \/ AttachFails \/ Session
           \/ Opened /\ UNCHANGED modelVars
           \/ ConfigRefused
    PROVE  ProgramInv'
<1> USE WaitsFor DEF Others, Holds, WithFile, WithTokenizer, WithModel, WithBackend, Endings
<1>1. CASE Answered
  BY <1>1, Moves DEF Answered, End, fileVars
<1>2. CASE ParseOptions
  BY <1>2, Moves DEF ParseOptions, Go, fileVars
<1>3. CASE Inspect
  BY <1>3, Moves DEF Inspect, Go, End, fileVars
<1>4. CASE NoTokenizer
  BY <1>4, Moves DEF NoTokenizer, End, fileVars
<1>5. CASE Tokenize
  <2>1. NoModel
    BY <1>5 DEF Tokenize, ProgramInv, ModelInv
  <2> QED
    BY <1>5, <2>1, Moves DEF Tokenize, Go, End, fileVars
<1>6. CASE TokenizeFails
  BY <1>6, Moves DEF TokenizeFails, End, fileVars
<1>7. CASE NoDeviceTaken
  BY <1>7, Moves DEF NoDeviceTaken, End, fileVars
<1>8. CASE BackendRefused
  BY <1>8, Moves DEF BackendRefused, End, fileVars
<1>9. CASE Attach
  BY <1>9, Moves DEF Attach, Go, fileVars
<1>10. CASE AttachFails
  BY <1>10, Moves DEF AttachFails, End, fileVars
<1>11. CASE Session
  <2>1. PICK why : End(why, <<"model", "backend", "tokenizer", "file">>)
    BY <1>11 DEF Session
  <2> QED
    BY <1>11, <2>1, Moves DEF Session, End, fileVars
<1>12. CASE Opened /\ UNCHANGED modelVars
  BY <1>12, Moves DEF Opened
<1>13. CASE ConfigRefused
  <2>1. NoModel \/ Planned(plan, cfg.blocks)
    BY <1>13 DEF ConfigRefused, ProgramInv, ModelInv
  <2>2. NoModel
    BY <1>13, <2>1 DEF ConfigRefused, Planned
  <2>3. ProgramInv'
    BY <1>13, <2>2, Moves DEF ConfigRefused, fileVars
  <2> QED
    BY <2>3
<1> QED
  BY <1>1, <1>2, <1>3, <1>4, <1>5, <1>6, <1>7, <1>8, <1>9, <1>10, <1>11, <1>12, <1>13

----------------------------------------------------------------------------
(* The steps of gguf_open.                                                 *)
LEMMA OnlyTheFile ==
    ASSUME ProgramInv, stage \in {"open", "map", "read"}
    PROVE  /\ NoModel /\ Others = {} /\ HeldByModel = {} /\ heap = FileHeap(fields)
           /\ WellRead(file, fields) /\ misfreed = {}
<1>1. ~Holds("model", WithModel) /\ Others = {}
  BY DEF Others, Holds, WithTokenizer, WithModel, WithBackend
<1>2. NoModel
  BY <1>1 DEF ProgramInv, ModelInv
<1> QED
  BY <1>1, <1>2, NoModelHeld DEF ProgramInv, HeapInv, FileInv

LEMMA OpeningFails ==
    ASSUME ProgramInv, misfreed = {}, NEW set, NEW live, NEW why,
           OpenFails(set, live, why), WellRead(file, set), live = FileHeap(set)
    PROVE  ProgramInv'
<1>1. heap' = {} /\ misfreed' = {}
  BY ClosesAll DEF OpenFails, Close, Give
<1>2. stage' = "exited" /\ ProperFile(file)'
  BY DEF OpenFails, ProgramInv, FileInv
<1> QED
  BY <1>1, <1>2 DEF ProgramInv, FileInv, HeapInv, ModelInv

LEMMA HeapGrows ==
    ASSUME NEW set, NEW x
    PROVE  FileHeap(set \cup {x}) =
              FileHeap(set) \cup (IF x[1] \in Allocated \cup {"fd", "map"} THEN {x} ELSE {})
BY DEF FileHeap

LEMMA ReadMore ==
    ASSUME NEW f, NEW set, WellRead(f, set), NEW x \in FieldType, Present(f, x),
           Preceded(x, set)
    PROVE  WellRead(f, set \cup {x})
BY DEF WellRead, Preceded

LEMMA FirstOfTodo ==
    ASSUME NEW f, NEW set, NEW s \in Orderly(f, set), s # <<>>
    PROVE  /\ Head(s) \in Pieces(f) /\ Preceded(Head(s).field, set)
           /\ Tail(s) \in Orderly(f, set \cup {Head(s).field})
<1>1. /\ s \in Seq(Pieces(f)) /\ Len(s) \in Nat \ {0} /\ Head(s) = s[1]
      /\ Tail(s) \in Seq(Pieces(f)) /\ Len(Tail(s)) = Len(s) - 1
      /\ DOMAIN s = 1 .. Len(s) /\ DOMAIN Tail(s) = 1 .. Len(s) - 1
      /\ \A k \in 1 .. Len(s) - 1 : Tail(s)[k] = s[k + 1]
  BY DEF Orderly
<1>2. \A n \in DOMAIN s : Preceded(s[n].field, set \cup {s[m].field : m \in 1 .. n - 1})
  BY DEF Orderly, Follows
<1>3. Preceded(Head(s).field, set)
  <2>1. 1 \in DOMAIN s /\ 1 .. 1 - 1 = {}
    BY <1>1
  <2>2. {s[m].field : m \in 1 .. 1 - 1} = {}
    BY <2>1
  <2>3. Preceded(s[1].field, set \cup {s[m].field : m \in 1 .. 1 - 1})
    BY <1>2, <2>1
  <2> QED
    BY <1>1, <2>2, <2>3 DEF Preceded
<1> DEFINE t == Tail(s)
           more == set \cup {Head(s).field}
<1>4. ASSUME NEW n \in DOMAIN t
      PROVE  Preceded(t[n].field, more \cup {t[m].field : m \in 1 .. n - 1})
  <2> DEFINE old == set \cup {s[m].field : m \in 1 .. (n + 1) - 1}
             new == more \cup {t[m].field : m \in 1 .. n - 1}
  <2>1. n + 1 \in DOMAIN s /\ t[n] = s[n + 1] /\ n \in Nat
    BY <1>1
  <2>2. Preceded(s[n + 1].field, old)
    BY <1>2, <2>1
  <2>3. ASSUME NEW m \in 1 .. (n + 1) - 1 PROVE s[m].field \in new
    <3>1. CASE m = 1
      BY <1>1, <3>1
    <3>2. CASE m # 1
      <4>1. m - 1 \in 1 .. n - 1 /\ t[m - 1] = s[m]
        BY <1>1, <2>1, <3>2
      <4> HIDE DEF t
      <4> QED
        BY <4>1
    <3> QED
      BY <3>1, <3>2
  <2>4. old \subseteq new
    BY <2>3
  <2> HIDE DEF old, new
  <2>5. Preceded(t[n].field, new)
    BY <2>1, <2>2, <2>4 DEF Preceded
  <2> QED
    BY <2>5 DEF new
<1>5. t \in Orderly(f, more)
  <2> HIDE DEF t, more
  <2>1. t \in Seq(Pieces(f))
    BY <1>1 DEF t
  <2> QED
    BY <1>4, <2>1 DEF Orderly, Follows
<1> QED
  BY <1>1, <1>3, <1>5

LEMMA PieceHeap ==
    ASSUME NEW f, NEW p \in Pieces(f)
    PROVE  /\ p.field \in FieldType /\ Present(f, p.field) /\ p.field[1] \notin {"fd", "map"}
           /\ p.field[1] \in Allocated => p.valid
           /\ TakenBefore(p) \cup TakenAfter(p)
                 = IF p.field[1] \in Allocated THEN {p.field} ELSE {}
           /\ TakenBefore(p) \subseteq {p.field}
           /\ p.field[1] \notin Allocated => TakenBefore(p) = {}
           /\ TakenBefore(p) # {} => p.field[1] \in Allocated
BY DEF Pieces, PieceType, FieldType, TakenBefore, TakenAfter, Allocated

(* What the stages of the reader have in common.                           *)
LEMMA Reading ==
    ASSUME ProgramInv, UNCHANGED <<file, misfreed, modelVars>>,
           stage \in {"open", "map", "read"}, stage' \in {"map", "read"},
           heap' = FileHeap(fields'), WellRead(file, fields'),
           stage' = "read" => todo' \in Orderly(file, fields')
    PROVE  ProgramInv'
<1>1. NoModel /\ HeldByModel = {} /\ misfreed = {}
  BY OnlyTheFile
<1>2. /\ HeldByModel' = HeldByModel /\ NoModel' = NoModel
      /\ WeightsInv' = WeightsInv /\ \A do : Plans(do)' = Plans(do)
  BY DEF modelVars, HeldByModel, OwnedByModel, NoModel, WeightsInv, Plans
<1>3. Others' = {}
  BY DEF Others, Holds, WithTokenizer, WithModel, WithBackend
<1>4. FileInv'
  BY DEF ProgramInv, FileInv, Holds, WithFile
<1>5. HeapInv'
  BY <1>1, <1>2, <1>3 DEF HeapInv
<1>6. ModelInv'
  BY <1>1, <1>2, NoModelHeld DEF ModelInv
<1> QED
  BY <1>4, <1>5, <1>6 DEF ProgramInv

LEMMA FileSteps ==
    ASSUME ProgramInv, FileStep
    PROVE  ProgramInv'
<1> USE DEF FileStep, FileNext
<1>1. CASE OpenRefused
  <2>1. /\ NoModel /\ Others = {} /\ HeldByModel = {} /\ heap = FileHeap(fields) /\ misfreed = {}
    BY <1>1, OnlyTheFile DEF OpenRefused
  <2>2. fields = {}
    BY <1>1 DEF OpenRefused, ProgramInv, FileInv, Holds, WithFile, WithTokenizer, WithModel, WithBackend
  <2>3. heap' = {} /\ misfreed' = {}
    BY <1>1, <2>1, <2>2 DEF OpenRefused, FileHeap
  <2> QED
    BY <1>1, <2>3 DEF OpenRefused, ProgramInv, FileInv, HeapInv, ModelInv
<1>2. CASE Open
  <2>1. heap = FileHeap(fields) /\ misfreed = {}
    BY <1>2, OnlyTheFile DEF Open
  <2>2. fields = {}
    BY <1>2 DEF Open, ProgramInv, FileInv, Holds, WithFile, WithTokenizer, WithModel, WithBackend
  <2>3. heap' = FileHeap(fields')
    BY <1>2, <2>1, <2>2 DEF Open, FileHeap, Fd
  <2>4. WellRead(file, fields')
    BY <1>2 DEF Open, WellRead, Fd, FieldType, Kinds, Allocated, Present, Preceded
  <2> QED
    BY <1>2, <2>3, <2>4, Reading DEF Open
<1>3. CASE MapRefused
  <2>1. WellRead(file, fields) /\ heap = FileHeap(fields) /\ misfreed = {}
    BY <1>3, OnlyTheFile DEF MapRefused
  <2> QED
    BY <1>3, <2>1, OpeningFails DEF MapRefused
<1>4. CASE MapFile
  <2>1. WellRead(file, fields) /\ heap = FileHeap(fields) /\ misfreed = {} /\ ProperFile(file)
    BY <1>4, OnlyTheFile DEF MapFile, ProgramInv, FileInv
  <2>2. heap' = FileHeap(fields')
    BY <1>4, <2>1, HeapGrows DEF MapFile, Map
  <2>3. Map \in FieldType /\ Present(file, Map) /\ Preceded(Map, fields)
    BY DEF Map, FieldType, Kinds, Present, Preceded
  <2>4. WellRead(file, fields')
    BY <1>4, <2>1, <2>3, ReadMore DEF MapFile
  <2>5. Layout(file) \in Orderly(file, {}) /\ {} \subseteq fields'
    BY <2>1, LayoutOrderly
  <2>6. todo' \in Orderly(file, fields')
    <3>1. Layout(file) \in Orderly(file, fields')
      BY <2>5, OrderlyMore
    <3> QED
      BY <1>4, <3>1 DEF MapFile
  <2> QED
    BY <1>4, <2>2, <2>4, <2>6, Reading DEF MapFile
<1>5. CASE ReadPiece
  <2> DEFINE p == Head(todo)
  <2>1. WellRead(file, fields) /\ heap = FileHeap(fields) /\ todo \in Orderly(file, fields)
    BY <1>5, OnlyTheFile DEF ReadPiece, ProgramInv, FileInv
  <2>2. /\ p \in Pieces(file) /\ Preceded(p.field, fields)
        /\ Tail(todo) \in Orderly(file, fields \cup {p.field})
    BY <1>5, <2>1, FirstOfTodo DEF ReadPiece
  <2>3. /\ fields' = fields \cup {p.field} /\ todo' = Tail(todo)
        /\ heap' = heap \cup (TakenBefore(p) \cup TakenAfter(p))
        /\ stage = "read" /\ stage' = "read"
    BY <1>5 DEF ReadPiece, NextPiece
  <2> HIDE DEF p
  <2>4. p.field[1] \notin {"fd", "map"}
    BY <2>2, PieceHeap
  <2>5. heap' = FileHeap(fields')
    BY <2>1, <2>2, <2>3, <2>4, PieceHeap, HeapGrows
  <2>6. WellRead(file, fields')
    BY <2>1, <2>2, <2>3, PieceHeap, ReadMore
  <2> QED
    BY <1>5, <2>2, <2>3, <2>5, <2>6, Reading DEF ReadPiece
<1>6. CASE ReadFails
  <2> DEFINE p == Head(todo)
             set == fields \cup (IF Fits THEN {p.field} ELSE TakenBefore(p))
             live == heap \cup TakenBefore(p)
  <2>1. /\ WellRead(file, fields) /\ heap = FileHeap(fields) /\ todo \in Orderly(file, fields)
        /\ misfreed = {}
    BY <1>6, OnlyTheFile DEF ReadFails, ProgramInv, FileInv
  <2>2. p \in Pieces(file) /\ Preceded(p.field, fields)
    BY <1>6, <2>1, FirstOfTodo DEF ReadFails
  <2>3. ~(Fits /\ p.valid) /\ OpenFails(set, live, "file")
    BY <1>6 DEF ReadFails, NextPiece
  <2> HIDE DEF p
  <2>4. /\ p.field \in FieldType /\ Present(file, p.field)
        /\ p.field[1] \in Allocated => p.valid
        /\ TakenBefore(p) \subseteq {p.field}
        /\ p.field[1] \notin Allocated => TakenBefore(p) = {}
        /\ TakenBefore(p) # {} => p.field[1] \in Allocated
        /\ WellRead(file, fields \cup {p.field}) /\ p.field[1] \notin {"fd", "map"}
    BY <2>1, <2>2, PieceHeap, ReadMore
  <2>5. CASE TakenBefore(p) = {p.field}
    <3>1. set = fields \cup {p.field}
      BY <2>5
    <3>2. live = FileHeap(set)
      BY <2>1, <2>4, <2>5, <3>1, HeapGrows
    <3> HIDE DEF set, live
    <3> QED
      BY <2>1, <2>3, <2>4, <3>1, <3>2, OpeningFails
  <2>6. CASE TakenBefore(p) = {}
    <3>1. live = FileHeap(fields)
      BY <2>1, <2>6
    <3>2. CASE Fits
      <4>1. set = fields \cup {p.field} /\ p.field[1] \notin Allocated \cup {"fd", "map"}
        BY <2>3, <2>4, <3>2
      <4>2. live = FileHeap(set)
        BY <3>1, <4>1, HeapGrows
      <4> HIDE DEF set, live
      <4> QED
        BY <2>1, <2>3, <2>4, <4>1, <4>2, OpeningFails
    <3>3. CASE ~Fits
      <4>1. set = fields
        BY <2>6, <3>3
      <4> HIDE DEF set, live
      <4> QED
        BY <2>1, <2>3, <3>1, <4>1, OpeningFails
    <3> QED
      BY <3>2, <3>3
  <2> QED
    BY <2>4, <2>5, <2>6
<1>7. CASE Opened
  BY <1>7, MainMoves
<1>8. CASE RangesOutside
  <2>1. WellRead(file, fields) /\ heap = FileHeap(fields) /\ misfreed = {}
    BY <1>8, OnlyTheFile DEF RangesOutside
  <2> QED
    BY <1>8, <2>1, OpeningFails DEF RangesOutside
<1> QED
  BY <1>1, <1>2, <1>3, <1>4, <1>5, <1>6, <1>7, <1>8

----------------------------------------------------------------------------
(* What gpt2_load does is done in that order.                              *)
LEMMA OrderedJoined ==
    ASSUME NEW S, NEW s \in Seq(S), NEW t \in Seq(S), Ordered(s), Ordered(t),
           \A k \in DOMAIN s : \A m \in DOMAIN t : InOrder(s[k], t[m])
    PROVE  Ordered(s \o t)
<1> DEFINE q == s \o t
<1>1. /\ Len(s) \in Nat /\ Len(t) \in Nat
      /\ \A k \in 1 .. Len(s) : q[k] = s[k]
      /\ \A k \in 1 .. Len(t) : q[Len(s) + k] = t[k]
      /\ DOMAIN s = 1 .. Len(s) /\ DOMAIN t = 1 .. Len(t)
      /\ DOMAIN q = 1 .. Len(s) + Len(t)
      /\ \A k \in 1 .. Len(s) + Len(t) : k \in 1 .. Len(s) \/ k - Len(s) \in 1 .. Len(t)
  BY Joining
<1> HIDE DEF q
<1>2. ASSUME NEW k \in DOMAIN q, NEW m \in DOMAIN q, k < m PROVE InOrder(q[k], q[m])
  <2>1. CASE m \in 1 .. Len(s)
    <3>1. k \in 1 .. Len(s)
      BY <1>1, <1>2, <2>1
    <3> QED
      BY <1>1, <1>2, <2>1, <3>1 DEF Ordered
  <2>2. CASE k \in 1 .. Len(s) /\ m \notin 1 .. Len(s)
    <3>1. m - Len(s) \in 1 .. Len(t) /\ Len(s) + (m - Len(s)) = m
      BY <1>1, <2>2
    <3>2. q[m] = t[m - Len(s)] /\ q[k] = s[k]
      BY <1>1, <2>2, <3>1
    <3> QED
      BY <1>1, <2>2, <3>1, <3>2
  <2>3. CASE k \notin 1 .. Len(s) /\ m \notin 1 .. Len(s)
    <3>1. /\ m - Len(s) \in 1 .. Len(t) /\ Len(s) + (m - Len(s)) = m
          /\ k - Len(s) \in 1 .. Len(t) /\ Len(s) + (k - Len(s)) = k
          /\ k - Len(s) < m - Len(s)
      BY <1>1, <1>2, <2>3
    <3>2. q[m] = t[m - Len(s)] /\ q[k] = t[k - Len(s)]
      BY <1>1, <3>1
    <3> QED
      BY <1>1, <3>1, <3>2 DEF Ordered
  <2> QED
    BY <2>1, <2>2, <2>3
<1> QED
  BY <1>2 DEF Ordered, q

Mids(blocks) ==
    {LoadStep(<<LayerWeights[i], b>>) : i \in DOMAIN LayerWeights, b \in 0 .. blocks - 1}
    \cup {ExpectStep(LayerSlots(b)) : b \in 0 .. blocks - 1}

Early(p) == p.do \notin {"caches", "output"}
Late(q)  == q.do \notin {"layers", "vocab"}

LEMMA EarlyBeforeLate ==
    ASSUME NEW p, NEW q, Early(p), Late(q)
    PROVE  InOrder(p, q)
BY DEF Early, Late, InOrder

LayerNames == {"attn_norm_w", "attn_norm_b", "attn_qkv_w", "attn_qkv_b",
               "attn_out_w", "attn_out_b", "ffn_norm_w", "ffn_norm_b",
               "ffn_up_w", "ffn_up_b", "ffn_down_w", "ffn_down_b"}

LEMMA LayerWeightNames ==
    /\ DOMAIN LayerWeights = 1 .. 12
    /\ \A i \in 1 .. 12 : LayerWeights[i] \in LayerNames
    /\ LayerWeights[1] = "attn_norm_w"
<1>1. DOMAIN LayerWeights = 1 .. 12
  BY DEF LayerWeights
<1>2. ASSUME NEW i \in 1 .. 12 PROVE LayerWeights[i] \in LayerNames
  <2>1. i \in {1, 2, 3, 4, 5, 6, 7, 8, 9, 10, 11, 12}
    OBVIOUS
  <2> QED
    BY <2>1 DEF LayerWeights, LayerNames
<1> QED
  BY <1>1, <1>2 DEF LayerWeights

LEMMA SlotNames ==
    /\ \A slot \in GlobalSlots : slot[1] \notin LayerNames
    /\ \A b : \A slot \in LayerSlots(b) : slot[1] \in LayerNames /\ slot[2] = b
    /\ {Token, <<"position_embd", 0>>, <<"output", 0>>, <<"output_norm_w", 0>>,
        <<"output_norm_b", 0>>} = GlobalSlots
    /\ \A blocks : GlobalSlots \subseteq Slots(blocks)
    /\ \A blocks : \A b \in 0 .. blocks - 1 : LayerSlots(b) \subseteq Slots(blocks)
<1>1. \A slot \in GlobalSlots : slot[1] \notin LayerNames
  BY DEF GlobalSlots, LayerNames
<1>2. \A b : \A slot \in LayerSlots(b) : slot[1] \in LayerNames /\ slot[2] = b
  BY LayerWeightNames DEF LayerSlots
<1>3. {Token, <<"position_embd", 0>>, <<"output", 0>>, <<"output_norm_w", 0>>,
        <<"output_norm_b", 0>>} = GlobalSlots
  BY DEF GlobalSlots, Token
<1> QED
  BY <1>1, <1>2, <1>3 DEF Slots

LEMMA MidSteps ==
    ASSUME NEW blocks \in Nat
    PROVE  /\ Mids(blocks) \subseteq Steps(blocks)
           /\ \A p \in Mids(blocks) : Early(p) /\ Late(p)
<1>1. ASSUME NEW i \in DOMAIN LayerWeights, NEW b \in 0 .. blocks - 1
      PROVE  LET p == LoadStep(<<LayerWeights[i], b>>)
             IN  p \in Steps(blocks) /\ Early(p) /\ Late(p)
  <2> DEFINE slot == <<LayerWeights[i], b>>
             p == LoadStep(slot)
  <2>1. slot \in LayerSlots(b)
    BY DEF LayerSlots
  <2>2. slot \in Slots(blocks) /\ slot[1] \in LayerNames
    BY <2>1, SlotNames
  <2>3. slot # <<"output", 0>>
    BY <2>2 DEF LayerNames
  <2> HIDE DEF slot
  <2>4. p \in Steps(blocks)
    BY <2>2, <2>3 DEF Steps
  <2>5. p.do = "load" /\ p.slots = {slot}
    BY DEF LoadStep
  <2> QED
    BY <2>4, <2>5 DEF Early, Late, slot
<1>2. ASSUME NEW b \in 0 .. blocks - 1
      PROVE  LET p == ExpectStep(LayerSlots(b))
             IN  p \in Steps(blocks) /\ Early(p) /\ Late(p)
  <2> DEFINE slots == LayerSlots(b)
             p == ExpectStep(slots)
  <2>1. slots \in SUBSET Slots(blocks)
    BY SlotNames
  <2> HIDE DEF slots
  <2>2. p.do = "expect"
    BY DEF ExpectStep
  <2>3. p \in [do : {"expect"}, slots : SUBSET Slots(blocks)]
    BY <2>1 DEF ExpectStep
  <2>4. p \in Steps(blocks)
    BY <2>3 DEF Steps
  <2> HIDE DEF p
  <2>5. Early(p) /\ Late(p)
    BY <2>2 DEF Early, Late
  <2> QED
    BY <2>4, <2>5 DEF p, slots
<1>3. ASSUME NEW p \in Mids(blocks) PROVE p \in Steps(blocks) /\ Early(p) /\ Late(p)
  <2>1. CASE \E i \in DOMAIN LayerWeights, b \in 0 .. blocks - 1 :
                p = LoadStep(<<LayerWeights[i], b>>)
    BY <1>1, <2>1
  <2>2. CASE \E b \in 0 .. blocks - 1 : p = ExpectStep(LayerSlots(b))
    BY <1>2, <2>2
  <2>3. \/ \E i \in DOMAIN LayerWeights, b \in 0 .. blocks - 1 :
                p = LoadStep(<<LayerWeights[i], b>>)
        \/ \E b \in 0 .. blocks - 1 : p = ExpectStep(LayerSlots(b))
    BY DEF Mids
  <2> QED
    BY <2>1, <2>2, <2>3
<1> QED
  BY <1>3

LEMMA LayerPlanSteps ==
    ASSUME NEW blocks \in Nat, NEW b \in 0 .. blocks - 1
    PROVE  LayerPlan(b) \in Seq(Mids(blocks))
<1> DEFINE loads == [i \in DOMAIN LayerWeights |-> LoadStep(<<LayerWeights[i], b>>)]
           e == ExpectStep(LayerSlots(b))
<1>1. LayerPlan(b) = loads \o <<e>>
  BY DEF LayerPlan
<1>2. e \in Mids(blocks) /\ \A i \in 1 .. 12 : loads[i] \in Mids(blocks)
  <2>1. e \in Mids(blocks)
    BY DEF Mids
  <2>2. ASSUME NEW i \in 1 .. 12 PROVE loads[i] \in Mids(blocks)
    <3>1. i \in DOMAIN LayerWeights /\ loads[i] = LoadStep(<<LayerWeights[i], b>>)
      BY LayerWeightNames
    <3> HIDE DEF loads
    <3> QED
      BY <3>1 DEF Mids
  <2> QED
    BY <2>1, <2>2
<1>3. loads = [i \in 1 .. 12 |-> loads[i]]
  BY LayerWeightNames
<1> HIDE DEF loads, e
<1>4. loads \in Seq(Mids(blocks))
  BY <1>2, <1>3, FromFunction
<1> QED
  BY <1>1, <1>2, <1>4

LEMMA MiddleSteps ==
    ASSUME NEW blocks \in Nat
    PROVE  SX!FlattenSeq([b \in 1 .. blocks |-> LayerPlan(b - 1)]) \in Seq(Mids(blocks))
<1> DEFINE ss == [b \in 1 .. blocks |-> LayerPlan(b - 1)]
           P == Mids(blocks)
           Good == Seq(P)
<1>1. \A b \in 1 .. blocks : ss[b] \in Seq(P)
  BY LayerPlanSteps
<1>2. ss = [b \in 1 .. blocks |-> ss[b]]
  OBVIOUS
<1> HIDE DEF ss, P
<1>3. ss \in Seq(Seq(P)) /\ Len(ss) = blocks
  BY <1>1, <1>2, FromFunction
<1>4. /\ Good \in SUBSET Seq(P) /\ <<>> \in Good
      /\ \A i \in 1 .. Len(ss) : ss[i] \in Good /\ \A s \in Good : s \o ss[i] \in Good
  BY <1>1, <1>3
<1> HIDE DEF Good
<1>5. SX!FlattenSeq(ss) \in Good
  BY <1>3, <1>4, Flattening
<1> QED
  BY <1>5 DEF Good, ss, P

LEMMA PlanSound ==
    ASSUME NEW blocks \in Nat
    PROVE  /\ Planned(Plan(blocks), blocks)
           /\ Does(Plan(blocks), "layers")
<1> DEFINE Pos == <<"position_embd", 0>>
           Norm == <<"output_norm_w", 0>>
           Bias == <<"output_norm_b", 0>>
           Out == <<"output", 0>>
           a1 == LoadStep(Token)
           a2 == LoadStep(Pos)
           a3 == [do |-> "vocab", slots |-> {Token}]
           a4 == ExpectStep({Token, Pos})
           a5 == [do |-> "layers", slots |-> {}]
           c1 == LoadStep(Norm)
           c2 == LoadStep(Bias)
           c3 == ExpectStep({Norm, Bias})
           c4 == [do |-> "output", slots |-> {Out}]
           c5 == ExpectStep({Out})
           c6 == [do |-> "caches", slots |-> {}]
           a == <<a1, a2, a3, a4, a5>>
           c == <<c1, c2, c3, c4, c5, c6>>
           mid == SX!FlattenSeq([b \in 1 .. blocks |-> LayerPlan(b - 1)])
           S == Steps(blocks)
<1>1. Plan(blocks) = (a \o mid) \o c
  BY DEF Plan, Token
<1>2. /\ {Token, Pos, Norm, Bias, Out} \subseteq GlobalSlots /\ GlobalSlots \subseteq Slots(blocks)
      /\ Token # Out /\ Pos # Out /\ Norm # Out /\ Bias # Out
      /\ Token # Pos /\ Token # Norm /\ Token # Bias
  BY SlotNames DEF Token
<1> HIDE DEF Pos, Norm, Bias, Out
<1>3. {c1, c2, a1, a2} \subseteq S
  BY <1>2 DEF Steps, Out
<1>4. {a3, a5, c4, c6} \subseteq S
  BY DEF Steps, Out
<1>5. {a4, c3, c5} \subseteq S
  <2>1. /\ {Token, Pos} \in SUBSET Slots(blocks) /\ {Norm, Bias} \in SUBSET Slots(blocks)
        /\ {Out} \in SUBSET Slots(blocks)
    BY <1>2
  <2>2. \A slots \in SUBSET Slots(blocks) : ExpectStep(slots) \in S
    BY DEF ExpectStep, Steps
  <2> QED
    BY <2>1, <2>2
<1>6. /\ a1.do = "load" /\ a2.do = "load" /\ a3.do = "vocab" /\ a4.do = "expect" /\ a5.do = "layers"
      /\ c1.do = "load" /\ c2.do = "load" /\ c3.do = "expect" /\ c4.do = "output"
      /\ c5.do = "expect" /\ c6.do = "caches"
      /\ a1.slots = {Token} /\ a2.slots = {Pos} /\ c1.slots = {Norm} /\ c2.slots = {Bias}
      /\ c3.slots = {Norm, Bias} /\ c5.slots = {Out} /\ a4.slots = {Token, Pos}
  BY DEF LoadStep, ExpectStep
<1> HIDE DEF a1, a2, a3, a4, a5, c1, c2, c3, c4, c5, c6, mid, S
<1>8. mid \in Seq(Mids(blocks)) /\ mid \in Seq(S)
  BY MiddleSteps, MidSteps DEF mid, S
<1>9. a \in Seq(S) /\ c \in Seq(S)
  BY <1>3, <1>4, <1>5
<1>10. /\ DOMAIN a = {1, 2, 3, 4, 5} /\ a[1] = a1 /\ a[2] = a2 /\ a[3] = a3 /\ a[4] = a4 /\ a[5] = a5
       /\ DOMAIN c = {1, 2, 3, 4, 5, 6} /\ c[1] = c1 /\ c[2] = c2 /\ c[3] = c3 /\ c[4] = c4
       /\ c[5] = c5 /\ c[6] = c6 /\ Len(c) = 6 /\ Len(a) = 5
  OBVIOUS
<1> HIDE DEF a, c
<1>11. \A k \in DOMAIN a : Early(a[k])
  BY <1>6, <1>10 DEF Early
<1>12. \A k \in DOMAIN c : Late(c[k])
  BY <1>6, <1>10 DEF Late
<1>13. Ordered(a)
  <2>2. \A k \in {1, 2, 3} : a[k].do \notin {"caches", "output", "expect"}
    BY <1>6, <1>10
  <2>3. \A k \in {1, 2} : a[k].slots \subseteq GlobalSlots
    BY <1>2, <1>6, <1>10
  <2>4. a3.do # "load" /\ a4.do # "load"
    BY <1>6
  <2>5. a5.do # "vocab"
    BY <1>6
  <2>6. ASSUME NEW k \in DOMAIN a, NEW m \in DOMAIN a, k < m PROVE InOrder(a[k], a[m])
    <3>1. CASE k \in {1, 2}
      BY <2>2, <2>3, <3>1 DEF InOrder
    <3>2. CASE k = 3
      BY <1>10, <2>2, <2>4, <3>2 DEF InOrder
    <3>3. CASE k = 4
      <4>1. m = 5
        BY <1>10, <2>6, <3>3
      <4> QED
        BY <1>6, <1>10, <2>5, <3>3, <4>1 DEF InOrder
    <3>4. CASE k = 5
      BY <1>10, <2>6, <3>4
    <3> QED
      BY <1>10, <3>1, <3>2, <3>3, <3>4
  <2> QED
    BY <2>6 DEF Ordered
<1>14. Ordered(c)
  <2>1. ASSUME NEW k \in DOMAIN c, NEW m \in DOMAIN c, k < m PROVE InOrder(c[k], c[m])
    <3>1. CASE k \in {1, 2, 3, 5}
      <4>1. Early(c[k]) /\ Late(c[m])
        BY <1>6, <1>10, <1>12, <3>1 DEF Early
      <4> QED
        BY <4>1, EarlyBeforeLate
    <3>2. CASE k = 4
      <4>1. m \in {5, 6} /\ c[m].do \in {"expect", "caches"} /\ c[k].do = "output"
        BY <1>6, <1>10, <2>1, <3>2
      <4> QED
        BY <4>1 DEF InOrder
    <3>3. CASE k = 6
      BY <1>10, <2>1, <3>3
    <3> QED
      BY <1>10, <3>1, <3>2, <3>3
  <2> QED
    BY <2>1 DEF Ordered
<1>15. \A k \in DOMAIN mid : Early(mid[k]) /\ Late(mid[k])
  BY <1>8, MidSteps
<1>16. Ordered(mid)
  BY <1>15, EarlyBeforeLate DEF Ordered
<1> DEFINE s == a \o mid
<1>17. s \in Seq(S) /\ Ordered(s)
  BY <1>8, <1>9, <1>11, <1>13, <1>15, <1>16, EarlyBeforeLate, OrderedJoined
<1>18. /\ Len(s) = 5 + Len(mid) /\ Len(mid) \in Nat /\ DOMAIN s = 1 .. Len(s)
       /\ \A k \in 1 .. 5 : s[k] = a[k]
       /\ \A k \in DOMAIN s : Early(s[k])
  <2>1. /\ Len(s) = Len(a) + Len(mid) /\ Len(mid) \in Nat /\ DOMAIN s = 1 .. Len(s)
        /\ DOMAIN a = 1 .. Len(a) /\ DOMAIN mid = 1 .. Len(mid)
        /\ \A k \in 1 .. Len(a) : s[k] = a[k]
        /\ \A k \in 1 .. Len(mid) : s[Len(a) + k] = mid[k]
        /\ \A k \in 1 .. Len(a) + Len(mid) : k \in 1 .. Len(a) \/ k - Len(a) \in 1 .. Len(mid)
    BY <1>8, <1>9, Joining
  <2> HIDE DEF s
  <2>2. ASSUME NEW k \in DOMAIN s PROVE Early(s[k])
    <3>1. CASE k \in 1 .. Len(a)
      BY <1>11, <2>1, <3>1
    <3>2. CASE k \notin 1 .. Len(a)
      <4>1. k - Len(a) \in 1 .. Len(mid) /\ Len(a) + (k - Len(a)) = k
        BY <1>10, <2>1, <3>2
      <4>2. s[k] = mid[k - Len(a)]
        BY <2>1, <4>1
      <4> QED
        BY <1>15, <2>1, <4>1, <4>2
    <3> QED
      BY <3>1, <3>2
  <2> QED
    BY <1>10, <2>1, <2>2
<1> HIDE DEF s
<1> DEFINE p == s \o c
<1>19. p \in Seq(S) /\ Ordered(p)
  <2>1. \A k \in DOMAIN s : \A m \in DOMAIN c : InOrder(s[k], c[m])
    BY <1>12, <1>18, EarlyBeforeLate
  <2>2. Ordered(s \o c)
    BY <1>9, <1>14, <1>17, <2>1, OrderedJoined
  <2> QED
    BY <1>9, <1>17, <2>2
<1>20. /\ Len(p) = Len(s) + 6 /\ DOMAIN p = 1 .. Len(p) /\ p[Len(s) + 6] = c[6]
       /\ p[5] = a[5] /\ 5 \in DOMAIN p
  <2>1. /\ Len(p) = Len(s) + Len(c) /\ DOMAIN p = 1 .. Len(p)
        /\ \A k \in 1 .. Len(s) : p[k] = s[k]
        /\ \A k \in 1 .. Len(c) : p[Len(s) + k] = c[k]
    BY <1>9, <1>17, Joining
  <2> HIDE DEF p
  <2>2. 5 \in 1 .. Len(s) /\ 6 \in 1 .. Len(c) /\ 5 \in DOMAIN p
    BY <1>10, <1>18, <2>1
  <2> QED
    BY <1>10, <1>18, <2>1, <2>2
<1> HIDE DEF p
<1>21. Planned(p, blocks)
  BY <1>6, <1>10, <1>18, <1>19, <1>20 DEF Planned, S
<1> QED
  BY <1>1, <1>6, <1>10, <1>20, <1>21 DEF p, s, Does

(* The next thing gpt2_load does.                                          *)
LEMMA Planning ==
    ASSUME NEW blocks, NEW p, Planned(p, blocks)
    PROVE  /\ Head(p) \in Steps(blocks)
           /\ \A do : Does(p, do) <=> Head(p).do = do \/ Does(Tail(p), do)
           /\ \A k \in DOMAIN Tail(p) : InOrder(Head(p), Tail(p)[k])
           /\ Head(p).do = "caches" => Tail(p) = <<>>
           /\ Head(p).do # "caches" => Planned(Tail(p), blocks)
<1> DEFINE t == Tail(p)
           h == Head(p)
<1>1. /\ p \in Seq(Steps(blocks)) /\ Len(p) \in Nat \ {0} /\ h = p[1] /\ DOMAIN p = 1 .. Len(p)
      /\ t \in Seq(Steps(blocks)) /\ Len(t) = Len(p) - 1 /\ DOMAIN t = 1 .. Len(t)
      /\ \A k \in 1 .. Len(t) : t[k] = p[k + 1]
      /\ p[Len(p)].do = "caches" /\ Ordered(p)
  BY DEF Planned
<1> HIDE DEF t, h
<1>2. h \in Steps(blocks)
  BY <1>1
<1>3. ASSUME NEW do
      PROVE  (\E k \in DOMAIN p : p[k].do = do) <=> (h.do = do \/ \E k \in DOMAIN t : t[k].do = do)
  <2>1. ASSUME NEW k \in DOMAIN p, p[k].do = do PROVE h.do = do \/ \E m \in DOMAIN t : t[m].do = do
    <3>1. CASE k = 1
      BY <1>1, <2>1, <3>1
    <3>2. CASE k # 1
      <4>1. k - 1 \in 1 .. Len(t) /\ (k - 1) + 1 = k
        BY <1>1, <3>2
      <4>2. t[k - 1] = p[k]
        BY <1>1, <4>1
      <4> QED
        BY <1>1, <2>1, <4>1, <4>2
    <3> QED
      BY <3>1, <3>2
  <2>2. ASSUME NEW k \in DOMAIN t, t[k].do = do PROVE \E m \in DOMAIN p : p[m].do = do
    <3>1. k + 1 \in DOMAIN p /\ p[k + 1] = t[k]
      BY <1>1
    <3> QED
      BY <2>2, <3>1
  <2>3. 1 \in DOMAIN p
    BY <1>1
  <2> QED
    BY <1>1, <2>1, <2>2, <2>3
<1>4. ASSUME NEW k \in DOMAIN t PROVE InOrder(h, t[k])
  <2>1. 1 \in DOMAIN p /\ k + 1 \in DOMAIN p /\ 1 < k + 1 /\ t[k] = p[k + 1]
    BY <1>1
  <2> QED
    BY <1>1, <2>1 DEF Ordered
<1>5. h.do = "caches" => t = <<>>
  <2>1. ASSUME h.do = "caches", t # <<>> PROVE FALSE
    <3>1. 1 \in DOMAIN t
      BY <1>1, <2>1
    <3> QED
      BY <1>4, <2>1, <3>1 DEF InOrder
  <2> QED
    BY <2>1
<1>6. ASSUME h.do # "caches" PROVE Planned(t, blocks)
  <2>1. Len(t) # 0
    BY <1>1, <1>6
  <2>2. t # <<>> /\ t[Len(t)].do = "caches"
    BY <1>1, <2>1
  <2>3. ASSUME NEW k \in DOMAIN t, NEW m \in DOMAIN t, k < m PROVE InOrder(t[k], t[m])
    <3>1. /\ k + 1 \in DOMAIN p /\ m + 1 \in DOMAIN p /\ k + 1 < m + 1
          /\ t[k] = p[k + 1] /\ t[m] = p[m + 1]
      BY <1>1, <2>3
    <3> QED
      BY <1>1, <3>1 DEF Ordered
  <2> QED
    BY <1>1, <2>2, <2>3 DEF Planned, Ordered
<1> QED
  BY <1>2, <1>3, <1>4, <1>5, <1>6 DEF t, h, Does

----------------------------------------------------------------------------
(* The steps of gpt2_load.                                                 *)
LEMMA WhileLoading ==
    ASSUME ProgramInv, stage = "load", plan # <<>>
    PROVE  /\ ~NoModel /\ Planned(plan, cfg.blocks) /\ IsConfig(cfg) /\ cfg.blocks \in Nat \ {0}
           /\ WeightsInv /\ misfreed = {} /\ ProperFile(file)
           /\ heap = FileHeap(fields) \cup HeldByModel \cup Others
           /\ Plans("layers") \/ DOMAIN weights = Slots(cfg.blocks)
           /\ Plans("output") => ~weights[<<"output", 0>>].owns
           /\ GlobalSlots \subseteq DOMAIN weights
           /\ DOMAIN weights \subseteq Slots(cfg.blocks)
<1>1. ~NoModel
  BY DEF NoModel
<1>2. /\ Planned(plan, cfg.blocks) /\ IsConfig(cfg) /\ WeightsInv
      /\ Plans("layers") \/ DOMAIN weights = Slots(cfg.blocks)
      /\ Plans("output") => ~weights[<<"output", 0>>].owns
  BY <1>1 DEF ProgramInv, ModelInv
<1>3. cfg.blocks \in Nat \ {0}
  BY <1>2 DEF IsConfig
<1>4. GlobalSlots \subseteq DOMAIN weights /\ DOMAIN weights \subseteq Slots(cfg.blocks)
  BY <1>2, SlotNames DEF WeightsInv
<1> QED
  BY <1>1, <1>2, <1>3, <1>4 DEF ProgramInv, HeapInv, FileInv

LEMMA LoadProceeds ==
    ASSUME ProgramInv, stage = "load", plan # <<>>, Head(plan).do # "caches", plan' = Tail(plan),
           UNCHANGED <<file, stage, misfreed, fields, todo>>,
           IsConfig(cfg)', cfg'.blocks = cfg.blocks, WeightsInv',
           heap' = FileHeap(fields) \cup HeldByModel' \cup Others,
           DOMAIN weights' = DOMAIN weights \/ DOMAIN weights' = Slots(cfg.blocks),
           Head(plan).do = "layers" => DOMAIN weights' = Slots(cfg.blocks),
           Plans("output")' => ~weights'[<<"output", 0>>].owns
    PROVE  ProgramInv'
<1>1. /\ Planned(plan, cfg.blocks) /\ misfreed = {}
      /\ Plans("layers") \/ DOMAIN weights = Slots(cfg.blocks)
  BY WhileLoading
<1>2. Planned(plan', cfg'.blocks)
  BY <1>1, Planning
<1>3. Plans("layers") <=> (Head(plan).do = "layers" \/ Plans("layers")')
  <2>1. Does(plan, "layers") <=> Head(plan).do = "layers" \/ Does(Tail(plan), "layers")
    BY <1>1, Planning
  <2> QED
    BY <2>1 DEF Plans
<1>4. Others' = Others
  BY DEF Others, Holds, WithTokenizer, WithModel, WithBackend
<1>5. FileInv'
  BY DEF ProgramInv, FileInv, Holds, WithFile, WithTokenizer, WithModel
<1>6. HeapInv'
  BY <1>1, <1>4 DEF HeapInv
<1>7. ModelInv'
  <2>1. Plans("layers")' \/ DOMAIN weights' = Slots(cfg'.blocks)
    BY <1>1, <1>3
  <2> QED
    BY <1>2, <2>1 DEF ModelInv, Holds, WithModel
<1> QED
  BY <1>5, <1>6, <1>7 DEF ProgramInv

LEMMA LoadingFails ==
    ASSUME ProgramInv, stage = "load", LoadFails
    PROVE  ProgramInv'
<1>1. /\ misfreed' = {} /\ heap' = FileHeap(fields) \cup Others
      /\ NoModel' /\ HeldByModel' = {} /\ WeightsInv' /\ (\A do : ~Plans(do))'
  BY ModelFreed DEF LoadFails
<1>2. stage' = "ending" /\ ending' = <<"tokenizer", "file">> /\ UNCHANGED <<file, fields, todo>>
  BY DEF LoadFails, fileVars
<1>3. Others' = Others
  BY <1>2, WaitsFor DEF Others, Holds, WithTokenizer, WithModel, WithBackend
<1>4. FileInv'
  BY <1>2, WaitsFor DEF ProgramInv, FileInv, Holds, WithFile, Endings
<1>5. HeapInv'
  BY <1>1, <1>2, <1>3 DEF HeapInv
<1>6. ModelInv'
  BY <1>1, <1>2 DEF ModelInv
<1> QED
  BY <1>4, <1>5, <1>6 DEF ProgramInv

(* A weight of its own for a slot.                                         *)
LEMMA LoadedIsWeight ==
    ASSUME ProperFile(file), NEW slot, Loadable(slot)
    PROVE  /\ IsWeight(Loaded(slot)) /\ Loaded(slot).owns = TRUE
           /\ Loaded(slot).data = <<"weight", slot, 0>> /\ Loaded(slot).ne1 \in Nat
<1>1. PICK i \in DOMAIN file.tensors : Entry(file.tensors, slot) = file.tensors[i]
  BY EntryFound DEF ProperFile, Loadable
<1> DEFINE dims == Entry(file.tensors, slot).dims
           first == dims[1]
           rows == IF Len(dims) > 1 THEN dims[2] ELSE 1
           bytes == (4 * Elements(Entry(file.tensors, slot))) % Word
<1>2. dims \in Seq(Nat)
  BY <1>1 DEF ProperFile
<1>3. rows \in Nat
  BY <1>2
<1>4. Loaded(slot) = [data |-> <<"weight", slot, 0>>, bytes |-> bytes, owns |-> TRUE,
                      ne0 |-> first, ne1 |-> rows]
  BY DEF Loaded
<1> HIDE DEF first, rows, bytes
<1> QED
  BY <1>3, <1>4 DEF IsWeight

LEMMA Loads ==
    ASSUME ProgramInv, stage = "load", plan # <<>>, Head(plan).do # "caches", NEW slot \in DOMAIN weights,
           Loadable(slot), LoadInto(slot), Head(plan).do # "layers",
           slot = <<"output", 0>> => ~Plans("output")'
    PROVE  ProgramInv'
<1>1. /\ ProperFile(file) /\ IsConfig(cfg) /\ WeightsInv
      /\ heap = FileHeap(fields) \cup HeldByModel \cup Others
      /\ Plans("output") => ~weights[<<"output", 0>>].owns
      /\ Planned(plan, cfg.blocks) /\ <<"output", 0>> \in DOMAIN weights
  BY WhileLoading, SlotNames
<1> DEFINE w == Loaded(slot)
           x == <<"weight", slot, 0>>
<1>2. IsWeight(w) /\ w.owns = TRUE /\ w.data = x /\ w.ne1 \in Nat
  BY <1>1, LoadedIsWeight
<1>3. /\ weights' = [weights EXCEPT ![slot] = w] /\ heap' = heap \cup {x} /\ plan' = Tail(plan)
      /\ UNCHANGED <<file, stage, misfreed, fields, todo, cfg, kv_elements>>
  BY DEF LoadInto, Advance, fileVars
<1> HIDE DEF w, x
<1>4. /\ DOMAIN weights' = DOMAIN weights
      /\ \A s \in DOMAIN weights : weights'[s] = IF s = slot THEN w ELSE weights[s]
  BY <1>3
<1>5. WeightsInv'
  <2>1. ASSUME NEW s \in DOMAIN weights
        PROVE  /\ IsWeight(weights'[s])
               /\ weights'[s].owns \in BOOLEAN /\ weights'[s].ne1 \in Nat
               /\ weights'[s].owns => weights'[s].data = <<"weight", s, 0>>
    <3>1. CASE s = slot
      <4>1. weights'[s] = w /\ TRUE \in BOOLEAN
        BY <1>4, <3>1
      <4> QED
        BY <1>2, <3>1, <4>1 DEF x
    <3>2. CASE s # slot
      <4>1. weights'[s] = weights[s]
        BY <1>4, <3>2
      <4> QED
        BY <1>1, <4>1 DEF WeightsInv
    <3> QED
      BY <3>1, <3>2
  <2>2. DOMAIN weights \in {GlobalSlots, Slots(cfg.blocks)}
    BY <1>1 DEF WeightsInv
  <2> QED
    BY <1>3, <1>4, <2>1, <2>2 DEF WeightsInv
<1>6. OwnedByModel' = OwnedByModel \cup {x}
  <2>1. \A a : a \in OwnedByModel <=> \E s \in DOMAIN weights : weights[s].owns /\ a = weights[s].data
    BY DEF OwnedByModel
  <2>2. \A a : a \in OwnedByModel' <=> \E s \in DOMAIN weights : weights'[s].owns /\ a = weights'[s].data
    BY <1>4 DEF OwnedByModel
  <2>3. weights'[slot] = w /\ weights'[slot].owns
    BY <1>2, <1>4
  <2>4. weights[slot].owns => weights[slot].data = x
    BY <1>1 DEF WeightsInv, x
  <2>5. ASSUME NEW a \in OwnedByModel' PROVE a \in OwnedByModel \cup {x}
    BY <1>2, <1>4, <2>1, <2>2
  <2>6. ASSUME NEW a \in OwnedByModel \cup {x} PROVE a \in OwnedByModel'
    <3>1. CASE a = x
      BY <1>2, <2>2, <2>3, <3>1
    <3>2. CASE a # x
      <4>1. PICK s \in DOMAIN weights : weights[s].owns /\ a = weights[s].data
        BY <2>1, <2>6, <3>2
      <4>2. weights'[s] = weights[s]
        BY <1>4, <2>4, <3>2, <4>1
      <4> QED
        BY <2>2, <4>1, <4>2
    <3> QED
      BY <3>1, <3>2
  <2> QED
    BY <2>5, <2>6
<1>7. HeldByModel' = HeldByModel \cup {x}
  BY <1>3, <1>4, <1>6 DEF HeldByModel
<1>8. heap' = FileHeap(fields) \cup HeldByModel' \cup Others
  BY <1>1, <1>3, <1>7
<1>9. Plans("output")' => ~weights'[<<"output", 0>>].owns
  <2>1. Plans("output")' => Plans("output")
    BY <1>1, <1>3, Planning DEF Plans
  <2>2. slot # <<"output", 0>> => weights'[<<"output", 0>>] = weights[<<"output", 0>>]
    BY <1>1, <1>4
  <2> QED
    BY <1>1, <2>1, <2>2
<1>10. IsConfig(cfg)' /\ cfg'.blocks = cfg.blocks
  BY <1>1, <1>3 DEF IsConfig
<1> QED
  BY <1>3, <1>4, <1>5, <1>8, <1>9, <1>10, LoadProceeds

LEMMA StepKinds ==
    ASSUME NEW blocks, NEW step \in Steps(blocks)
    PROVE  /\ step.do = "load" => \E slot \in Slots(blocks) \ {<<"output", 0>>} :
                                     step = LoadStep(slot) /\ step.slots = {slot}
           /\ step.do = "vocab" => step.slots = {Token}
           /\ step.do = "output" => step.slots = {<<"output", 0>>}
<1> DEFINE loads == {LoadStep(slot) : slot \in Slots(blocks) \ {<<"output", 0>>}}
           expects == [do : {"expect"}, slots : SUBSET Slots(blocks)]
           v == [do |-> "vocab", slots |-> {Token}]
           l == [do |-> "layers", slots |-> {}]
           o == [do |-> "output", slots |-> {<<"output", 0>>}]
           c == [do |-> "caches", slots |-> {}]
<1>1. step \in loads \/ step \in expects \/ step \in {v, l, o, c}
  BY DEF Steps
<1>2. /\ v.do = "vocab" /\ l.do = "layers" /\ o.do = "output" /\ c.do = "caches"
      /\ v.slots = {Token} /\ o.slots = {<<"output", 0>>}
  OBVIOUS
<1>3. step \in expects => step.do = "expect"
  OBVIOUS
<1>4. \A slot : LoadStep(slot).do = "load" /\ LoadStep(slot).slots = {slot}
  BY DEF LoadStep
<1>5. step \in loads => /\ step.do = "load"
                        /\ \E slot \in Slots(blocks) \ {<<"output", 0>>} :
                              step = LoadStep(slot) /\ step.slots = {slot}
  BY <1>4
<1> HIDE DEF v, l, o, c, loads, expects
<1> QED
  BY <1>1, <1>2, <1>3, <1>5

LEMMA OnlySlot ==
    ASSUME NEW slot, Wanted = {slot}
    PROVE  WantedSlot = slot
BY DEF WantedSlot

(* A weight is loaded only into a slot that exists.                        *)
LEMMA KnownSlot ==
    ASSUME ProgramInv, stage = "load", plan # <<>>, Head(plan).do = "load"
    PROVE  \E slot \in DOMAIN weights \ {<<"output", 0>>} : Wanted = {slot} /\ WantedSlot = slot
<1>1. /\ Planned(plan, cfg.blocks) /\ GlobalSlots \subseteq DOMAIN weights
      /\ Plans("layers") \/ DOMAIN weights = Slots(cfg.blocks)
  BY WhileLoading
<1>2. Head(plan) \in Steps(cfg.blocks)
  BY <1>1, Planning
<1>3. PICK slot \in Slots(cfg.blocks) \ {<<"output", 0>>} : Head(plan).slots = {slot}
  BY <1>2, StepKinds
<1>4. Wanted = {slot} /\ WantedSlot = slot
  BY <1>3, OnlySlot DEF Wanted
<1>5. slot \in DOMAIN weights
  <2>1. CASE Plans("layers")
    <3>1. Does(Tail(plan), "layers")
      BY <1>1, <2>1, Planning DEF Plans
    <3>2. PICK k \in DOMAIN Tail(plan) : Tail(plan)[k].do = "layers"
      BY <3>1 DEF Does
    <3>3. InOrder(Head(plan), Tail(plan)[k])
      BY <1>1, Planning
    <3>4. Head(plan).slots \subseteq GlobalSlots
      BY <3>2, <3>3 DEF InOrder
    <3> QED
      BY <1>1, <1>3, <3>4
  <2>2. CASE DOMAIN weights = Slots(cfg.blocks)
    BY <2>2
  <2> QED
    BY <1>1, <2>1, <2>2
<1> QED
  BY <1>4, <1>5

LEMMA LoadSteps ==
    ASSUME ProgramInv, LoadWeight \/ LoadOutput
    PROVE  ProgramInv'
<1>1. stage = "load" /\ plan # <<>> /\ plan' = Tail(plan)
  BY DEF LoadWeight, LoadOutput, Loading, LoadInto, Advance
<1>2. /\ Planned(plan, cfg.blocks) /\ GlobalSlots \subseteq DOMAIN weights
      /\ Plans("layers") \/ DOMAIN weights = Slots(cfg.blocks)
  BY <1>1, WhileLoading
<1>3. Head(plan) \in Steps(cfg.blocks)
  BY <1>2, Planning
<1>4. CASE LoadWeight
  <2>1. Head(plan).do = "load" /\ Loadable(WantedSlot) /\ LoadInto(WantedSlot)
    BY <1>4 DEF LoadWeight, Loading
  <2>2. PICK slot \in DOMAIN weights \ {<<"output", 0>>} : WantedSlot = slot
    BY <1>1, <2>1, KnownSlot
  <2> QED
    BY <1>1, <2>1, <2>2, Loads
<1>5. CASE LoadOutput
  <2>1. Head(plan).do = "output" /\ Loadable(WantedSlot) /\ LoadInto(WantedSlot)
    BY <1>5 DEF LoadOutput, Loading
  <2>2. WantedSlot = <<"output", 0>>
    BY <1>3, <2>1, StepKinds, OnlySlot DEF Wanted
  <2>3. ~Does(Tail(plan), "output")
    <3>1. ASSUME NEW k \in DOMAIN Tail(plan) PROVE Tail(plan)[k].do # "output"
      BY <1>2, <2>1, Planning DEF InOrder
    <3> QED
      BY <3>1 DEF Does
  <2>4. ~Plans("output")'
    BY <1>1, <2>3 DEF Plans
  <2>5. <<"output", 0>> \in DOMAIN weights
    BY <1>2, SlotNames
  <2> QED
    BY <1>1, <2>1, <2>2, <2>4, <2>5, Loads
<1> QED
  BY <1>4, <1>5

LEMMA CountSteps ==
    ASSUME ProgramInv, CountVocabulary \/ Expect
    PROVE  ProgramInv'
<1>1. /\ stage = "load" /\ plan # <<>> /\ plan' = Tail(plan) /\ Head(plan).do \in {"vocab", "expect"}
      /\ UNCHANGED <<file, stage, misfreed, heap, fields, todo, weights, kv_elements>>
  BY DEF CountVocabulary, Expect, Loading, Advance, Goes, processVars, fileVars
<1>2. /\ Planned(plan, cfg.blocks) /\ GlobalSlots \subseteq DOMAIN weights /\ IsConfig(cfg)
      /\ WeightsInv /\ heap = FileHeap(fields) \cup HeldByModel \cup Others
      /\ Plans("output") => ~weights[<<"output", 0>>].owns
  BY <1>1, WhileLoading
<1>3. IsConfig(cfg)' /\ cfg'.blocks = cfg.blocks
  <2>1. CASE CountVocabulary
    <3> DEFINE n == weights[WantedSlot].ne1 % Word32
    <3>1. cfg' = [cfg EXCEPT !.vocab = n] /\ Head(plan).do = "vocab"
      BY <2>1 DEF CountVocabulary, Loading
    <3>2. Head(plan) \in Steps(cfg.blocks)
      BY <1>2, Planning
    <3>3. WantedSlot = Token
      BY <3>1, <3>2, StepKinds, OnlySlot DEF Wanted
    <3>4. Token \in DOMAIN weights
      BY <1>2, SlotNames
    <3>5. n \in Nat
      <4>1. weights[WantedSlot].ne1 \in Nat
        BY <1>2, <3>3, <3>4 DEF WeightsInv
      <4> QED
        BY <4>1, Word32Assumption
    <3> HIDE DEF n
    <3>6. cfg = [c |-> cfg.c, f |-> cfg.f, context |-> cfg.context, blocks |-> cfg.blocks,
                 vocab |-> cfg.vocab]
      BY <1>2 DEF IsConfig
    <3>7. cfg' = [c |-> cfg.c, f |-> cfg.f, context |-> cfg.context, blocks |-> cfg.blocks,
                  vocab |-> n]
      BY <3>1, <3>6
    <3>8. /\ cfg'.c = cfg.c /\ cfg'.f = cfg.f /\ cfg'.context = cfg.context
          /\ cfg'.blocks = cfg.blocks /\ cfg'.vocab = n
      BY <3>7
    <3> QED
      BY <1>2, <3>5, <3>7, <3>8 DEF IsConfig
  <2>2. CASE Expect
    BY <1>2, <2>2 DEF Expect, IsConfig
  <2> QED
    BY <2>1, <2>2
<1>4. WeightsInv' /\ HeldByModel' = HeldByModel
  BY <1>1, <1>2, <1>3 DEF WeightsInv, HeldByModel, OwnedByModel
<1>5. Plans("output")' => Plans("output")
  BY <1>1, <1>2, Planning DEF Plans
<1> QED
  BY <1>1, <1>2, <1>3, <1>4, <1>5, LoadProceeds

LEMMA LayersStep ==
    ASSUME ProgramInv, AllocateLayers
    PROVE  ProgramInv'
<1> DEFINE B == cfg.blocks
           D == DOMAIN weights
<1>1. /\ stage = "load" /\ plan # <<>> /\ plan' = Tail(plan) /\ Head(plan).do = "layers"
      /\ UNCHANGED <<file, stage, misfreed, fields, todo, cfg, kv_elements>>
      /\ heap' = heap \cup {Layers}
      /\ weights' = [slot \in Slots(B) |-> IF slot \in D THEN weights[slot] ELSE NoWeight]
  BY DEF AllocateLayers, Loading, Advance, fileVars
<1>2. /\ Planned(plan, B) /\ GlobalSlots \subseteq D /\ D \subseteq Slots(B) /\ IsConfig(cfg)
      /\ WeightsInv /\ heap = FileHeap(fields) \cup HeldByModel \cup Others
      /\ Plans("output") => ~weights[<<"output", 0>>].owns
      /\ B \in Nat \ {0}
  BY <1>1, WhileLoading
<1> HIDE DEF B, D
<1>3. /\ DOMAIN weights' = Slots(B)
      /\ \A slot \in Slots(B) : weights'[slot] = IF slot \in D THEN weights[slot] ELSE NoWeight
  BY <1>1
<1>4. /\ NoWeight.owns \in BOOLEAN /\ ~NoWeight.owns /\ NoWeight.ne1 \in Nat
      /\ IsWeight(NoWeight)
  BY DEF NoWeight, IsWeight
<1>5. WeightsInv'
  <2>1. ASSUME NEW slot \in Slots(B)
        PROVE  /\ IsWeight(weights'[slot])
               /\ weights'[slot].owns \in BOOLEAN /\ weights'[slot].ne1 \in Nat
               /\ weights'[slot].owns => weights'[slot].data = <<"weight", slot, 0>>
    <3>1. CASE slot \in D
      <4>1. weights'[slot] = weights[slot]
        BY <1>3, <3>1
      <4> QED
        BY <1>2, <3>1, <4>1 DEF WeightsInv, D
    <3>2. CASE slot \notin D
      <4>1. weights'[slot] = NoWeight
        BY <1>3, <3>2
      <4> QED
        BY <1>4, <4>1
    <3> QED
      BY <3>1, <3>2
  <2> QED
    BY <1>1, <1>3, <2>1 DEF WeightsInv, B
<1>6. OwnedByModel' = OwnedByModel
  <2>1. \A a : a \in OwnedByModel <=> \E s \in D : weights[s].owns /\ a = weights[s].data
    BY DEF OwnedByModel, D
  <2>2. \A a : a \in OwnedByModel' <=> \E s \in Slots(B) : weights'[s].owns /\ a = weights'[s].data
    BY <1>3 DEF OwnedByModel
  <2>3. \A s \in Slots(B) : weights'[s].owns => s \in D
    BY <1>3, <1>4
  <2>4. \A s \in D : s \in Slots(B) /\ weights'[s] = weights[s]
    BY <1>2, <1>3
  <2> QED
    BY <2>1, <2>2, <2>3, <2>4, SMTT(30)
<1>7. Slots(B) # GlobalSlots
  <2>1. 0 \in 0 .. B - 1 /\ 1 \in DOMAIN LayerWeights
    BY <1>2, LayerWeightNames
  <2>2. <<LayerWeights[1], 0>> \in LayerSlots(0)
    BY <2>1 DEF LayerSlots
  <2> QED
    BY <2>1, <2>2, SlotNames
<1>8. HeldByModel' = HeldByModel \cup {Layers}
  BY <1>1, <1>3, <1>6, <1>7 DEF HeldByModel
<1>9. heap' = FileHeap(fields) \cup HeldByModel' \cup Others
  BY <1>1, <1>2, <1>8
<1>10. Plans("output")' => ~weights'[<<"output", 0>>].owns
  <2>1. Plans("output")' => Plans("output")
    BY <1>1, <1>2, Planning DEF Plans
  <2>2. <<"output", 0>> \in D /\ <<"output", 0>> \in Slots(B)
    BY <1>2, SlotNames
  <2>3. weights'[<<"output", 0>>] = weights[<<"output", 0>>]
    BY <1>3, <2>2
  <2> QED
    BY <1>2, <2>1, <2>3
<1>11. IsConfig(cfg)' /\ cfg'.blocks = cfg.blocks
  BY <1>1, <1>2 DEF IsConfig
<1> QED
  BY <1>1, <1>3, <1>5, <1>9, <1>10, <1>11, LoadProceeds DEF B

LEMMA Shared ==
    ASSUME NEW t, NEW a, NEW b, NEW c, NEW d, NEW e,
           t = [data |-> a, owns |-> b, ne0 |-> c, ne1 |-> d]
    PROVE  [t EXCEPT !.owns = e] = [data |-> a, owns |-> e, ne0 |-> c, ne1 |-> d]
OBVIOUS

LEMMA TieStep ==
    ASSUME ProgramInv, TieOutput
    PROVE  ProgramInv'
<1> DEFINE out == <<"output", 0>>
           D == DOMAIN weights
           w == [weights[Token] EXCEPT !.owns = FALSE]
<1>1. /\ stage = "load" /\ plan # <<>> /\ plan' = Tail(plan) /\ Head(plan).do = "output"
      /\ UNCHANGED <<file, stage, misfreed, fields, todo, cfg, kv_elements, heap>>
      /\ weights' = [weights EXCEPT ![WantedSlot] = w]
  BY DEF TieOutput, Loading, Advance, Goes, processVars, fileVars, Token
<1>2. /\ Planned(plan, cfg.blocks) /\ GlobalSlots \subseteq D /\ IsConfig(cfg)
      /\ WeightsInv /\ heap = FileHeap(fields) \cup HeldByModel \cup Others
      /\ Plans("output") => ~weights[out].owns
  BY <1>1, WhileLoading
<1>3. Plans("output") /\ Head(plan) \in Steps(cfg.blocks)
  BY <1>1, <1>2, Planning DEF Plans
<1>4. WantedSlot = out
  BY <1>1, <1>3, StepKinds, OnlySlot DEF Wanted
<1>5. out \in D /\ Token \in D
  BY <1>2, SlotNames
<1>6. IsWeight(w) /\ w.owns \in BOOLEAN /\ ~w.owns /\ w.ne1 \in Nat
  <2> DEFINE t == weights[Token]
  <2>1. /\ t = [data |-> t.data, bytes |-> t.bytes, owns |-> t.owns, ne0 |-> t.ne0, ne1 |-> t.ne1]
        /\ t.ne1 \in Nat
    BY <1>2, <1>5 DEF WeightsInv, IsWeight
  <2>2. w = [data |-> t.data, bytes |-> t.bytes, owns |-> FALSE, ne0 |-> t.ne0, ne1 |-> t.ne1]
    <3> HIDE DEF t
    <3> DEFINE none == FALSE
    <3> HIDE DEF none
    <3>1. [t EXCEPT !.owns = none]
            = [data |-> t.data, bytes |-> t.bytes, owns |-> none, ne0 |-> t.ne0, ne1 |-> t.ne1]
      BY <2>1, Shared
    <3> QED
      BY <3>1 DEF t, none
  <2> HIDE DEF w, t
  <2> QED
    BY <2>1, <2>2 DEF IsWeight
<1> HIDE DEF w, out, D
<1>7. DOMAIN weights' = D /\ \A s \in D : weights'[s] = IF s = out THEN w ELSE weights[s]
  BY <1>1, <1>4, <1>5 DEF D
<1>8. WeightsInv'
  <2>1. ASSUME NEW s \in D
        PROVE  /\ IsWeight(weights'[s])
               /\ weights'[s].owns \in BOOLEAN /\ weights'[s].ne1 \in Nat
               /\ weights'[s].owns => weights'[s].data = <<"weight", s, 0>>
    <3>1. CASE s = out
      <4>1. weights'[s] = w
        BY <1>7, <3>1
      <4> QED
        BY <1>6, <4>1
    <3>2. CASE s # out
      <4>1. weights'[s] = weights[s]
        BY <1>7, <3>2
      <4> QED
        BY <1>2, <4>1 DEF WeightsInv, D
    <3> QED
      BY <3>1, <3>2
  <2>2. D \in {GlobalSlots, Slots(cfg.blocks)}
    BY <1>2 DEF WeightsInv, D
  <2> QED
    BY <1>1, <1>7, <2>1, <2>2 DEF WeightsInv
<1>9. OwnedByModel' = OwnedByModel
  <2>1. \A a : a \in OwnedByModel <=> \E s \in D : weights[s].owns /\ a = weights[s].data
    BY DEF OwnedByModel, D
  <2>2. \A a : a \in OwnedByModel' <=> \E s \in D : weights'[s].owns /\ a = weights'[s].data
    BY <1>7 DEF OwnedByModel
  <2>3. \A s \in D : (weights[s].owns \/ weights'[s].owns) => s # out
    BY <1>2, <1>3, <1>6, <1>7
  <2>4. \A s \in D : s # out => weights'[s] = weights[s]
    BY <1>7
  <2>5. ASSUME NEW a \in OwnedByModel PROVE a \in OwnedByModel'
    <3>1. PICK s \in D : weights[s].owns /\ a = weights[s].data
      BY <2>1
    <3>2. weights'[s] = weights[s]
      BY <2>3, <2>4, <3>1
    <3> QED
      BY <2>2, <3>1, <3>2
  <2>6. ASSUME NEW a \in OwnedByModel' PROVE a \in OwnedByModel
    <3>1. PICK s \in D : weights'[s].owns /\ a = weights'[s].data
      BY <2>2
    <3>2. weights'[s] = weights[s]
      BY <2>3, <2>4, <3>1
    <3> QED
      BY <2>1, <3>1, <3>2
  <2> QED
    BY <2>5, <2>6
<1>10. HeldByModel' = HeldByModel
  BY <1>1, <1>7, <1>9 DEF HeldByModel, D
<1>11. ~weights'[out].owns
  BY <1>5, <1>6, <1>7
<1>12. IsConfig(cfg)' /\ cfg'.blocks = cfg.blocks
  BY <1>1, <1>2 DEF IsConfig
<1> QED
  BY <1>1, <1>2, <1>7, <1>8, <1>10, <1>11, <1>12, LoadProceeds DEF D, out

(* The caches have a size.                                                 *)
LEMMA QuotientBelow ==
    ASSUME NEW n \in Nat, NEW a \in Nat \ {0}
    PROVE  n \div a \in Nat /\ a * (n \div a) <= n
<1>1. n \div a \in Nat /\ n = a * (n \div a) + (n % a) /\ n % a \in 0 .. a - 1
  OBVIOUS
<1> DEFINE q == n \div a
           r == n % a
           p == a * q
<1>2. p \in Int /\ n = p + r /\ r >= 0 /\ r \in Int
  BY <1>1
<1> HIDE DEF p, q, r
<1>3. p <= n
  BY <1>2
<1> QED
  BY <1>1, <1>3 DEF p, q

LEMMA MoreTimes ==
    ASSUME NEW a \in Nat, NEW x \in Nat, NEW y \in Nat, x <= y
    PROVE  a * x <= a * y
<1> DEFINE d == y - x
           u == a * x
           v == a * d
<1>1. d \in Nat /\ y = x + d
  OBVIOUS
<1> HIDE DEF d
<1>2. a * y = a * x + a * d /\ u \in Nat /\ v \in Nat
  BY <1>1
<1>3. a * y = u + v
  BY <1>2
<1> HIDE DEF u, v
<1>4. u <= u + v
  BY <1>2
<1> QED
  BY <1>3, <1>4 DEF u

LEMMA CachesHaveSize ==
    ASSUME NEW a \in Nat \ {0}, NEW b \in Nat \ {0}, NEW c \in Nat \ {0}, NEW W \in Nat \ {0},
           ~(b > ((W - 1) \div a) \div c)
    PROVE  (a * b * c) % W = a * b * c /\ a * b * c \in Nat \ {0}
<1> DEFINE n == W - 1
           q == n \div a
           r == q \div c
           x == c * b
           y == c * r
           z == a * x
<1>1. n \in Nat /\ q \in Nat /\ a * q <= n
  BY QuotientBelow
<1>2. r \in Nat /\ y <= q /\ y \in Nat
  <2> HIDE DEF q
  <2> QED
    BY <1>1, QuotientBelow
<1>3. b <= r
  BY <1>1, <1>2
<1>4. x <= y /\ x \in Nat
  <2> HIDE DEF r
  <2> QED
    BY <1>2, <1>3, MoreTimes
<1> HIDE DEF q, r, y
<1>5. z <= a * q /\ z \in Nat /\ a * q \in Nat
  <2>1. x <= q
    BY <1>1, <1>2, <1>4
  <2> HIDE DEF x
  <2> QED
    BY <1>1, <1>4, <2>1, MoreTimes
<1>6. z = a * b * c
  OBVIOUS
<1>7. z # 0
  <2>1. x # 0
    OBVIOUS
  <2> HIDE DEF x
  <2> QED
    BY <1>4, <2>1
<1> HIDE DEF z, n
<1>8. z < W
  BY <1>1, <1>5 DEF n
<1>9. z % W = z
  BY <1>5, <1>8
<1> QED
  BY <1>5, <1>6, <1>7, <1>9

LEMMA CachesStep ==
    ASSUME ProgramInv, AllocateCaches
    PROVE  ProgramInv'
<1>1. /\ stage = "load" /\ plan # <<>> /\ Head(plan).do = "caches" /\ stage' = "backend"
      /\ plan' = Tail(plan) /\ ~CachesTooLarge /\ kv_elements' = CacheElements
      /\ heap' = heap \cup Buffers
      /\ UNCHANGED <<file, misfreed, fields, todo, cfg, weights>>
  BY DEF AllocateCaches, Loading, Advance, fileVars
<1>2. /\ Planned(plan, cfg.blocks) /\ IsConfig(cfg) /\ WeightsInv /\ misfreed = {}
      /\ heap = FileHeap(fields) \cup HeldByModel \cup Others
      /\ Plans("layers") \/ DOMAIN weights = Slots(cfg.blocks)
  BY <1>1, WhileLoading
<1>3. Tail(plan) = <<>> /\ (Does(plan, "layers") => Does(Tail(plan), "layers"))
  BY <1>1, <1>2, Planning
<1>4. \A do : ~Does(Tail(plan), do)
  BY <1>3 DEF Does
<1>5. DOMAIN weights = Slots(cfg.blocks) /\ ~Plans("output")'
  BY <1>1, <1>2, <1>3, <1>4 DEF Plans
<1>6. kv_elements' \in Nat \ {0}
  <2>1. cfg.blocks \in Nat \ {0} /\ cfg.context \in Nat \ {0} /\ cfg.c \in Nat \ {0}
    BY <1>2 DEF IsConfig
  <2>2. ~(cfg.context > ((Word - 1) \div cfg.blocks) \div cfg.c) /\ Word \in Nat \ {0}
    BY <1>1, InputAssumption DEF CachesTooLarge
  <2>3. (cfg.blocks * cfg.context * cfg.c) % Word \in Nat \ {0}
    BY <2>1, <2>2, CachesHaveSize
  <2> QED
    BY <1>1, <2>3 DEF CacheElements
<1>7. HeldByModel' = HeldByModel \cup Buffers
  <2>1. OwnedByModel' = OwnedByModel
    BY <1>1 DEF OwnedByModel
  <2>2. kv_elements' > 0
    BY <1>6
  <2> QED
    BY <1>1, <2>1, <2>2 DEF HeldByModel
<1>8. Others' = Others
  BY <1>1 DEF Others, Holds, WithTokenizer, WithModel, WithBackend
<1>9. FileInv'
  BY <1>1 DEF ProgramInv, FileInv, Holds, WithFile, WithTokenizer, WithModel
<1>10. HeapInv'
  BY <1>1, <1>2, <1>7, <1>8 DEF HeapInv
<1>11. ModelInv'
  <2>1. WeightsInv' /\ IsConfig(cfg)'
    BY <1>1, <1>2 DEF WeightsInv, IsConfig
  <2> QED
    BY <1>1, <1>5, <2>1 DEF ModelInv, Holds, WithModel
<1> QED
  BY <1>9, <1>10, <1>11 DEF ProgramInv

LEMMA ReadSteps ==
    ASSUME ProgramInv, ReadConfig
    PROVE  ProgramInv'
<1> DEFINE B == Number(file, "block_count")
<1>1. /\ stage = "load" /\ plan = <<>> /\ ConfigUsable(file) /\ cfg' = Config(file)
      /\ plan' = Plan(B)
      /\ UNCHANGED <<file, stage, misfreed, heap, fields, todo, weights, kv_elements>>
  BY DEF ReadConfig, Goes, processVars, fileVars
<1>2. NoModel
  BY <1>1 DEF ProgramInv, ModelInv, Planned
<1>3. IsConfig(Config(file)) /\ Config(file).blocks = B /\ B \in Nat \ {0}
  <2> DEFINE C == Number(file, "embedding_length")
             F == FeedForwardLength(file)
             X == Number(file, "context_length")
  <2>1. ProperFile(file)
    BY DEF ProgramInv, FileInv
  <2>2. \A key \in Sizes : HasNumber(file, key) /\ Number(file, key) > 0
    BY <1>1 DEF ConfigUsable, HasU32
  <2>3. \A key \in Sizes : Number(file, key) \in Nat \ {0}
    BY <2>1, <2>2, NumberIsNatural
  <2>4. B \in Nat \ {0} /\ C \in Nat \ {0} /\ X \in Nat \ {0}
    BY <2>3 DEF Sizes
  <2>5. F \in Nat
    <3>1. CASE HasU32(file, "feed_forward_length")
      <4>1. Number(file, "feed_forward_length") \in Nat
        BY <2>1, <3>1, NumberIsNatural DEF HasU32
      <4> QED
        BY <3>1, <4>1 DEF FeedForwardLength
    <3>2. CASE ~HasU32(file, "feed_forward_length")
      <4>1. F = (4 * C) % Word32
        BY <3>2 DEF FeedForwardLength
      <4> HIDE DEF F
      <4> QED
        BY <2>4, <4>1, Word32Assumption
    <3> QED
      BY <3>1, <3>2
  <2>6. F > 0
    BY <1>1 DEF ConfigUsable
  <2> HIDE DEF B, C, F, X
  <2>7. Config(file) = [c |-> C, f |-> F, context |-> X, blocks |-> B, vocab |-> 0]
    BY DEF Config, B, C, F, X
  <2>8. /\ Config(file).c = C /\ Config(file).f = F /\ Config(file).context = X
        /\ Config(file).blocks = B /\ Config(file).vocab = 0
    BY <2>7
  <2> QED
    BY <2>4, <2>5, <2>6, <2>7, <2>8 DEF IsConfig
<1> HIDE DEF B
<1>4. Planned(Plan(B), B) /\ Does(Plan(B), "layers")
  BY <1>3, PlanSound
<1>5. /\ DOMAIN weights = GlobalSlots /\ HeldByModel = {} /\ ~weights[<<"output", 0>>].owns
      /\ \A slot \in GlobalSlots : weights[slot] = NoWeight
      /\ WeightsInv
  <2>1. DOMAIN weights = GlobalSlots /\ \A slot \in GlobalSlots : weights[slot] = NoWeight
    BY <1>2 DEF NoModel, NoWeights
  <2>2. weights[<<"output", 0>>] = NoWeight
    BY <2>1, SlotNames
  <2>3. ~NoWeight.owns
    BY DEF NoWeight
  <2> QED
    BY <1>2, <2>1, <2>2, <2>3, NoModelHeld
<1>6. WeightsInv' /\ HeldByModel' = HeldByModel
  BY <1>1, <1>5 DEF WeightsInv, HeldByModel, OwnedByModel
<1>7. Others' = Others
  BY <1>1 DEF Others, Holds, WithTokenizer, WithModel, WithBackend
<1>8. FileInv'
  BY <1>1 DEF ProgramInv, FileInv, Holds, WithFile, WithTokenizer, WithModel
<1>9. HeapInv'
  BY <1>1, <1>6, <1>7 DEF ProgramInv, HeapInv
<1>10. ModelInv'
  <2>1. Planned(plan', cfg'.blocks) /\ IsConfig(cfg)'
    BY <1>1, <1>3, <1>4 DEF IsConfig
  <2>2. Plans("layers")'
    BY <1>1, <1>4 DEF Plans
  <2>3. ~weights'[<<"output", 0>>].owns
    BY <1>1, <1>5
  <2> QED
    BY <1>1, <1>6, <2>1, <2>2, <2>3 DEF ModelInv, Holds, WithModel
<1> QED
  BY <1>8, <1>9, <1>10 DEF ProgramInv

LEMMA ModelSteps ==
    ASSUME ProgramInv, ModelStep
    PROVE  ProgramInv'
<1>1. CASE LoadWeightFails \/ ExpectFails \/ LoadOutputFails \/ CachesRefused
  BY <1>1, LoadingFails
     DEF LoadWeightFails, ExpectFails, LoadOutputFails, CachesRefused, Loading
<1>2. CASE CachesFatal \/ LoadFaults
  BY <1>2 DEF CachesFatal, LoadFaults, ProgramInv, FileInv, HeapInv, ModelInv
<1> QED
  BY <1>1, <1>2, MainMoves, ReadSteps, LoadSteps, CountSteps, LayersStep, TieStep, CachesStep
     DEF ModelStep, ModelNext

----------------------------------------------------------------------------
(* The steps that take and release the tokenizer, the model and the        *)
(* backend, and the return.                                                *)
LEMMA TokenizerSteps ==
    ASSUME ProgramInv, TokenizerStep
    PROVE  ProgramInv'
<1> USE DEF Holds, WithFile, WithTokenizer, WithModel, WithBackend
<1>1. /\ UNCHANGED <<file, fields, todo, modelVars>> /\ stage # "exited" /\ stage' # "exited"
      /\ WeightsInv /\ heap = FileHeap(fields) \cup HeldByModel \cup Others /\ misfreed = {}
  BY DEF TokenizerStep, InitTokenizer, EndTokenizer, Ending, Released, Go, fileVars,
         ProgramInv, ModelInv, HeapInv
<1>2. /\ HeldByModel' = HeldByModel /\ NoModel' = NoModel /\ WeightsInv' = WeightsInv
      /\ \A do : Plans(do)' = Plans(do)
  BY <1>1 DEF modelVars, HeldByModel, OwnedByModel, NoModel, WeightsInv, Plans
<1>3. CASE InitTokenizer
  <2>1. /\ stage = "tokenizer" /\ stage' = "tokenize" /\ heap' = heap \cup {Tokenizer}
        /\ misfreed' = misfreed
    BY <1>3 DEF InitTokenizer, Go
  <2>2. Others = {} /\ Others' = {Tokenizer}
    BY <2>1 DEF Others
  <2>3. FileInv'
    BY <1>1, <2>1 DEF ProgramInv, FileInv
  <2>4. HeapInv'
    BY <1>1, <1>2, <2>1, <2>2 DEF HeapInv
  <2>5. ModelInv'
    BY <1>1, <1>2, <2>1 DEF ProgramInv, ModelInv, modelVars
  <2> QED
    BY <2>3, <2>4, <2>5 DEF ProgramInv
<1>4. CASE EndTokenizer
  <2>1. /\ stage = "ending" /\ ending \in Endings /\ ending # <<>> /\ Head(ending) = "tokenizer"
        /\ stage' = stage /\ ending' = Tail(ending)
        /\ heap' = heap \ {Tokenizer} /\ misfreed' = misfreed \cup ({Tokenizer} \ heap)
    BY <1>4 DEF EndTokenizer, Ending, Released, Give, ProgramInv, FileInv
  <2>2. /\ ending' \in Endings
        /\ \A what : Waits(what, ending') <=> Waits(what, ending) /\ what # "tokenizer"
        /\ Waits("tokenizer", ending)
    BY <2>1, Releasing
  <2>3. Others = Others' \cup {Tokenizer} /\ Tokenizer \notin Others'
    BY <2>1, <2>2 DEF Others, Tokenizer, Backend
  <2>4. Tokenizer \notin FileHeap(fields) /\ Tokenizer \notin HeldByModel
    BY <1>1, Tags DEF Tokenizer, Allocated
  <2>5. FileInv'
    BY <1>1, <2>1, <2>2 DEF ProgramInv, FileInv
  <2>6. HeapInv'
    BY <1>1, <1>2, <2>1, <2>3, <2>4 DEF HeapInv
  <2>7. ModelInv'
    BY <1>1, <1>2, <2>1, <2>2 DEF ProgramInv, ModelInv, modelVars
  <2> QED
    BY <2>5, <2>6, <2>7 DEF ProgramInv
<1> QED
  BY <1>3, <1>4 DEF TokenizerStep

LEMMA BackendSteps ==
    ASSUME ProgramInv, BackendStep
    PROVE  ProgramInv'
<1> USE DEF Holds, WithFile, WithTokenizer, WithModel, WithBackend
<1>1. /\ UNCHANGED <<file, fields, todo, modelVars>> /\ stage # "exited" /\ stage' # "exited"
      /\ WeightsInv /\ heap = FileHeap(fields) \cup HeldByModel \cup Others /\ misfreed = {}
  BY DEF BackendStep, CreateBackend, EndBackend, Ending, Released, Go, fileVars,
         ProgramInv, ModelInv, HeapInv
<1>2. /\ HeldByModel' = HeldByModel /\ NoModel' = NoModel /\ WeightsInv' = WeightsInv
      /\ \A do : Plans(do)' = Plans(do)
  BY <1>1 DEF modelVars, HeldByModel, OwnedByModel, NoModel, WeightsInv, Plans
<1>3. CASE CreateBackend
  <2>1. /\ stage = "backend" /\ stage' = "attach" /\ heap' = heap \cup {Backend}
        /\ misfreed' = misfreed
    BY <1>3 DEF CreateBackend, Go
  <2>2. Others = {Tokenizer} /\ Others' = {Tokenizer, Backend}
    BY <2>1 DEF Others
  <2>3. FileInv'
    BY <1>1, <2>1 DEF ProgramInv, FileInv
  <2>4. HeapInv'
    BY <1>1, <1>2, <2>1, <2>2 DEF HeapInv
  <2>5. ModelInv'
    BY <1>1, <1>2, <2>1 DEF ProgramInv, ModelInv, modelVars
  <2> QED
    BY <2>3, <2>4, <2>5 DEF ProgramInv
<1>4. CASE EndBackend
  <2>1. /\ stage = "ending" /\ ending \in Endings /\ ending # <<>> /\ Head(ending) = "backend"
        /\ stage' = stage /\ ending' = Tail(ending)
        /\ heap' = heap \ {Backend} /\ misfreed' = misfreed \cup ({Backend} \ heap)
    BY <1>4 DEF EndBackend, Ending, Released, Give, ProgramInv, FileInv
  <2>2. /\ ending' \in Endings
        /\ \A what : Waits(what, ending') <=> Waits(what, ending) /\ what # "backend"
        /\ Waits("backend", ending)
    BY <2>1, Releasing
  <2>3. Others = Others' \cup {Backend} /\ Backend \notin Others'
    BY <2>1, <2>2 DEF Others, Tokenizer, Backend
  <2>4. Backend \notin FileHeap(fields) /\ Backend \notin HeldByModel
    BY <1>1, Tags DEF Backend, Allocated
  <2>5. FileInv'
    BY <1>1, <2>1, <2>2 DEF ProgramInv, FileInv
  <2>6. HeapInv'
    BY <1>1, <1>2, <2>1, <2>3, <2>4 DEF HeapInv
  <2>7. ModelInv'
    BY <1>1, <1>2, <2>1, <2>2 DEF ProgramInv, ModelInv, modelVars
  <2> QED
    BY <2>5, <2>6, <2>7 DEF ProgramInv
<1> QED
  BY <1>3, <1>4 DEF BackendStep

LEMMA EndingSteps ==
    ASSUME ProgramInv, EndModel \/ (EndFile \/ Return)
    PROVE  ProgramInv'
<1>1. stage = "ending" /\ ending \in Endings
  BY DEF EndModel, EndFile, Return, Ending, ProgramInv, FileInv
<1>2. CASE EndModel
  <2>1. /\ ending # <<>> /\ Head(ending) = "model" /\ FreeModel
        /\ stage' = stage /\ ending' = Tail(ending) /\ UNCHANGED <<file, fields, todo>>
    BY <1>2 DEF EndModel, Ending, Released, fileVars
  <2>2. /\ ending' \in Endings
        /\ \A what : Waits(what, ending') <=> Waits(what, ending) /\ what # "model"
    BY <1>1, <2>1, Releasing
  <2>3. /\ misfreed' = {} /\ heap' = FileHeap(fields) \cup Others
        /\ NoModel' /\ HeldByModel' = {} /\ WeightsInv' /\ (\A do : ~Plans(do))'
    BY <1>1, <2>1, ModelFreed
  <2>4. Others' = Others
    BY <1>1, <2>1, <2>2 DEF Others, Holds, WithTokenizer, WithModel, WithBackend
  <2>5. FileInv'
    BY <1>1, <2>1, <2>2
       DEF ProgramInv, FileInv, Holds, WithFile, WithTokenizer, WithModel, WithBackend
  <2>6. HeapInv'
    BY <1>1, <2>1, <2>3, <2>4 DEF HeapInv
  <2>7. ModelInv'
    BY <1>1, <2>1, <2>3 DEF ModelInv
  <2> QED
    BY <2>5, <2>6, <2>7 DEF ProgramInv
<1>3. CASE EndFile
  <2>1. /\ ending # <<>> /\ Head(ending) = "file" /\ Close(fields, heap)
        /\ stage' = stage /\ ending' = Tail(ending) /\ UNCHANGED <<file, todo, modelVars>>
    BY <1>3 DEF EndFile, Ending, Released
  <2>2. ending = <<"file">> /\ ending' = <<>>
    BY <1>1, <2>1, Releasing
  <2>3. Others = {} /\ ~Holds("model", WithModel)
    BY <1>1, <2>2, WaitsFor DEF Others, Holds, WithTokenizer, WithModel, WithBackend
  <2>4. NoModel /\ HeldByModel = {} /\ misfreed = {} /\ WellRead(file, fields)
    BY <1>1, <2>3, NoModelHeld DEF ProgramInv, ModelInv, HeapInv, FileInv
  <2>5. heap = FileHeap(fields)
    BY <1>1, <2>3, <2>4 DEF ProgramInv, HeapInv
  <2>6. heap' = {} /\ misfreed' = {} /\ fields' = {}
    BY <2>1, <2>4, <2>5, ClosesAll DEF Close, Give
  <2>7. /\ HeldByModel' = HeldByModel /\ NoModel' = NoModel /\ WeightsInv' = WeightsInv
        /\ \A do : Plans(do)' = Plans(do)
    BY <2>1 DEF modelVars, HeldByModel, OwnedByModel, NoModel, WeightsInv, Plans
  <2>8. Others' = {}
    BY <1>1, <2>1, <2>2, WaitsFor DEF Others, Holds, WithTokenizer, WithModel, WithBackend
  <2>9. FileInv'
    BY <1>1, <2>1, <2>2, <2>6 DEF ProgramInv, FileInv, WellRead, Endings
  <2>10. HeapInv'
    BY <1>1, <2>1, <2>4, <2>6, <2>7, <2>8 DEF HeapInv, FileHeap
  <2>11. ModelInv'
    BY <1>1, <2>1, <2>4, <2>7, NoModelHeld DEF ModelInv
  <2> QED
    BY <2>9, <2>10, <2>11 DEF ProgramInv
<1>4. CASE Return
  <2>1. /\ ending = <<>> /\ stage' = "exited" /\ UNCHANGED <<file, heap, misfreed>>
    BY <1>4 DEF Return
  <2>2. Others = {} /\ ~Holds("model", WithModel) /\ ~Holds("file", WithFile)
    BY <1>1, <2>1, WaitsFor DEF Others, Holds, WithFile, WithTokenizer, WithModel, WithBackend
  <2>3. NoModel /\ HeldByModel = {} /\ fields = {} /\ misfreed = {}
    BY <1>1, <2>2, NoModelHeld DEF ProgramInv, ModelInv, FileInv, HeapInv
  <2>4. heap = {}
    BY <1>1, <2>2, <2>3 DEF ProgramInv, HeapInv, FileHeap
  <2> QED
    BY <2>1, <2>3, <2>4 DEF ProgramInv, FileInv, HeapInv, ModelInv
<1> QED
  BY <1>2, <1>3, <1>4

----------------------------------------------------------------------------
LEMMA InitProgramInv == Init => ProgramInv
<1> SUFFICES ASSUME Init PROVE ProgramInv
  OBVIOUS
<1>1. /\ ProperFile(file) /\ stage = "options" /\ heap = {} /\ misfreed = {} /\ fields = {}
      /\ NoModel
  BY FileAssumption DEF Init, FileInit, ModelInit, NoModel
<1>2. HeldByModel = {} /\ WeightsInv /\ \A do : ~Plans(do)
  BY <1>1, NoModelHeld
<1>3. Others = {}
  BY <1>1 DEF Others, Holds, WithTokenizer, WithModel, WithBackend
<1> QED
  BY <1>1, <1>2, <1>3 DEF ProgramInv, FileInv, HeapInv, ModelInv, WellRead, FileHeap

LEMMA StepProgramInv == ProgramInv /\ [Next \/ Exited]_vars => ProgramInv'
<1> SUFFICES ASSUME ProgramInv, [Next \/ Exited]_vars PROVE ProgramInv'
  OBVIOUS
<1>1. CASE Move
  BY <1>1, MainMoves, FileSteps, ModelSteps, EndingSteps DEF Move
<1>2. CASE UNCHANGED vars
  <2>1. UNCHANGED <<file, stage, cause, ending, heap, misfreed, fields, todo, modelVars>>
    BY <1>2 DEF vars, processVars, fileVars
  <2>2. /\ HeldByModel' = HeldByModel /\ NoModel' = NoModel /\ WeightsInv' = WeightsInv
        /\ \A do : Plans(do)' = Plans(do)
    BY <2>1 DEF modelVars, HeldByModel, OwnedByModel, NoModel, WeightsInv, Plans
  <2>3. Others' = Others
    BY <2>1 DEF Others, Holds
  <2> QED
    BY <2>1, <2>2, <2>3 DEF ProgramInv, FileInv, HeapInv, ModelInv, Holds, modelVars
<1> QED
  BY <1>1, <1>2, TokenizerSteps, BackendSteps DEF Next, Exited

(* At every step of main, gguf_open and gpt2_load the memory that is held  *)
(* is what the fields that were read, the weights that were loaded and the *)
(* stage account for, whatever the file contains, whatever the options ask *)
(* for and whatever fails.                                                 *)
THEOREM ProgramInvHolds == Spec => []ProgramInv
BY InitProgramInv, StepProgramInv, PTL DEF Spec

(* Nothing is freed twice and nothing that is not held (gguf_close,        *)
(* weight_free, gpt2_free, main's returns): for every file, of any number  *)
(* of entries, tensors and blocks.                                         *)
THEOREM FreedOnceAlways == Spec => []FreedOnce
<1>1. ProgramInv => FreedOnce
  BY DEF ProgramInv, HeapInv, FreedOnce
<1> QED
  BY <1>1, ProgramInvHolds, PTL

(* main returns with nothing left, whatever failed and wherever, unless    *)
(* chris_xcalloc or a fault ended the process.                             *)
THEOREM ReleasedAtExitAlways == Spec => []ReleasedAtExit
<1>1. ProgramInv => ReleasedAtExit
  BY DEF ProgramInv, HeapInv, ReleasedAtExit
<1> QED
  BY <1>1, ProgramInvHolds, PTL

----------------------------------------------------------------------------
(* The device.                                                             *)
LEMMA FirstPlace ==
    ASSUME NEW places \in SUBSET (Nat \ {0})
    PROVE  /\ places = {} => First(places) = NoDevice
           /\ places # {} => /\ First(places) \in places /\ First(places) # NoDevice
                             /\ \A k \in places : First(places) <= k
<1>1. CASE places = {}
  BY <1>1 DEF First
<1>2. CASE places # {}
  <2>1. \E n \in places : \A k \in places : n <= k
    BY <1>2, LeastNumber
  <2>2. First(places) = CHOOSE n \in places : \A k \in places : n <= k
    BY <1>2 DEF First
  <2>3. First(places) \in places /\ \A k \in places : First(places) <= k
    BY <2>1, <2>2
  <2> QED
    BY <1>2, <2>3 DEF NoDevice
<1> QED
  BY <1>1, <1>2

LEMMA TakenIsPromised ==
    ASSUME NEW m, ProperMachine(m), NEW r, ProperRequest(r)
    PROVE  /\ Taken(m, r) # NoDevice => Taken(m, r) \in Promised(m.devices, r)
           /\ Taken(m, r) = NoDevice /\ m.build = "acpp" => Promised(m.devices, r) = {}
<1> DEFINE d == m.devices
           gpus == OfKind(d, "gpu")
<1>1. /\ DOMAIN d = 1 .. Len(d) /\ Len(d) \in Nat
      /\ \A kind : OfKind(d, kind) \subseteq DOMAIN d
      /\ \A word : Named(d, word) \subseteq DOMAIN d
      /\ r.index \in Nat \cup {NoIndex}
  <2>1. \A kind : OfKind(d, kind) \subseteq DOMAIN d
    BY DEF OfKind
  <2>2. \A word : Named(d, word) \subseteq DOMAIN d
    BY DEF Named
  <2>3. r.index \in Nat \cup {NoIndex}
    BY DEF ProperRequest
  <2>4. d \in Seq({d[n] : n \in DOMAIN d})
    BY DEF ProperMachine
  <2> HIDE DEF d
  <2>5. DOMAIN d = 1 .. Len(d) /\ Len(d) \in Nat
    BY <2>4
  <2> QED
    BY <2>1, <2>2, <2>3, <2>5
<1>2. \A places : places \subseteq DOMAIN d => places \in SUBSET (Nat \ {0})
  BY <1>1
<1>3. CASE m.build = "acpp" /\ r.index # NoIndex
  <2>1. Taken(m, r) = Indexed(d, r.index)
    BY <1>3 DEF Taken, choose_device
  <2>2. Promised(d, r) = {n \in DOMAIN d : n = r.index + 1}
    BY <1>3 DEF Promised
  <2> QED
    BY <1>1, <1>3, <2>1, <2>2 DEF Indexed, NoDevice
<1>4. CASE m.build = "acpp" /\ r.index = NoIndex /\ r.lower \in {"", "auto"}
  <2>1. Taken(m, r) = Preferred(d)
    BY <1>4 DEF Taken, choose_device, ProperRequest
  <2>2. Promised(d, r) = IF gpus # {} THEN gpus ELSE {n \in DOMAIN d : n = 1}
    BY <1>4 DEF Promised
  <2>3. CASE gpus # {}
    BY <1>1, <1>2, <2>1, <2>2, <2>3, FirstPlace DEF Preferred
  <2>4. CASE gpus = {} /\ DOMAIN d # {}
    <3>1. Taken(m, r) = First(DOMAIN d)
      BY <2>1, <2>4 DEF Preferred
    <3>2. 1 \in DOMAIN d /\ First(DOMAIN d) \in DOMAIN d /\ First(DOMAIN d) <= 1
      BY <1>1, <1>2, <2>4, FirstPlace, SMTT(30)
    <3>3. First(DOMAIN d) = 1
      BY <1>1, <3>2
    <3> QED
      BY <2>2, <2>4, <3>1, <3>2, <3>3 DEF NoDevice
  <2>5. CASE gpus = {} /\ DOMAIN d = {}
    BY <1>2, <2>1, <2>2, <2>5, FirstPlace DEF Preferred
  <2> QED
    BY <2>3, <2>4, <2>5
<1>5. CASE m.build = "acpp" /\ r.index = NoIndex /\ r.lower \in {"gpu", "cpu"}
  <2>1. Taken(m, r) = First(OfKind(d, r.lower))
    BY <1>5 DEF Taken, choose_device, ProperRequest
  <2>2. Promised(d, r) = OfKind(d, r.lower)
    BY <1>5 DEF Promised
  <2> QED
    BY <1>1, <1>2, <2>1, <2>2, FirstPlace
<1>6. CASE m.build = "acpp" /\ r.index = NoIndex /\ r.lower \notin {"", "auto", "gpu", "cpu"}
  <2>1. Taken(m, r) = First(Named(d, r.lower))
    BY <1>6 DEF Taken, choose_device, ProperRequest
  <2>2. Promised(d, r) = Named(d, r.lower)
    BY <1>6 DEF Promised
  <2> QED
    BY <1>1, <1>2, <2>1, <2>2, FirstPlace
<1>7. CASE m.build = "cpu"
  <2>1. Len(d) = 1 /\ d[1].kind = "cpu" /\ 1 \in DOMAIN d /\ DOMAIN d = {1}
    BY <1>1, <1>7 DEF ProperMachine
  <2>2. gpus = {} /\ OfKind(d, "cpu") = {1}
    BY <2>1 DEF OfKind
  <2>3. CASE r.typed = "auto"
    <3>1. r.lower = "auto" /\ r.index = NoIndex
      BY <2>3 DEF ProperRequest
    <3>2. Promised(d, r) = {n \in DOMAIN d : n = 1}
      BY <2>2, <3>1 DEF Promised
    <3> QED
      BY <1>7, <2>1, <2>3, <3>2 DEF Taken
  <2>4. CASE r.typed = "cpu"
    <3>1. r.lower = "cpu" /\ r.index = NoIndex
      BY <2>4 DEF ProperRequest
    <3>2. Promised(d, r) = {1}
      BY <2>2, <3>1 DEF Promised
    <3> QED
      BY <1>7, <2>4, <3>2 DEF Taken
  <2>5. CASE r.typed = "0"
    <3>0. r.index = 0
      BY <2>5 DEF ProperRequest
    <3>1. r.index = 0 /\ r.index # NoIndex
      BY <3>0 DEF NoIndex
    <3>2. Promised(d, r) = {n \in DOMAIN d : n = r.index + 1}
      BY <3>1 DEF Promised
    <3> QED
      BY <1>7, <2>1, <2>5, <3>1, <3>2 DEF Taken
  <2>6. CASE r.typed \notin {"auto", "cpu", "0"}
    BY <1>7, <2>6 DEF Taken
  <2> QED
    BY <1>7, <2>3, <2>4, <2>5, <2>6
<1> QED
  BY <1>3, <1>4, <1>5, <1>6, <1>7 DEF ProperMachine
----------------------------------------------------------------------------
(* What the session begins with: gguf_open takes exactly the well-formed   *)
(* files, gpt2_load leaves a model of the shape the forward pass indexes,  *)
(* and a device is refused only where none is promised.                    *)
(* The sizes of the pieces of a file, added up.                            *)
SumTo(s) == CHOOSE f : f = [n \in 0 .. Len(s) |-> IF n = 0 THEN 0 ELSE f[n - 1] + s[n].bytes]

LEMMA DeclaredIs == Declared = SumTo(Layout(file))[Len(Layout(file))]
BY DEF Declared, SumTo

LEMMA BytesNatural ==
    ASSUME NEW s \in Seq(PieceType)
    PROVE  Len(s) \in Nat /\ \A n \in 1 .. Len(s) : s[n].bytes \in Nat
<1>1. \A n \in 1 .. Len(s) : s[n] \in PieceType
  OBVIOUS
<1>2. \A piece \in PieceType : piece.bytes \in Nat
  BY DEF PieceType
<1> QED
  BY <1>1, <1>2

LEMMA SumToIs ==
    ASSUME NEW s \in Seq(PieceType)
    PROVE  /\ SumTo(s)[0] = 0
           /\ \A n \in 1 .. Len(s) : SumTo(s)[n] = SumTo(s)[n - 1] + s[n].bytes
           /\ \A n \in 0 .. Len(s) : SumTo(s)[n] \in Nat
<1> DEFINE l == Len(s)
           next == [pair \in Nat \X Nat |->
                       IF pair[1] \in 1 .. l THEN pair[2] + s[pair[1]].bytes ELSE 0]
           Eq(f) == f = [n \in 0 .. l |-> IF n = 0 THEN 0 ELSE f[n - 1] + s[n].bytes]
<1>1. l \in Nat /\ \A n \in 1 .. l : s[n].bytes \in Nat
  BY BytesNatural
<1>2. next \in [Nat \X Nat -> Nat]
  <2>1. ASSUME NEW pair \in Nat \X Nat, pair[1] \in 1 .. l PROVE pair[2] + s[pair[1]].bytes \in Nat
    BY <1>1, <2>1
  <2> QED
    BY <2>1
<1>3. PICK g \in [0 .. l -> Nat] : Recurs(g, l, 0, next)
  <2> HIDE DEF next, l
  <2> QED
    BY <1>1, <1>2, RecursionExists
<1>4. ASSUME NEW n \in 0 .. l PROVE g[n] = IF n = 0 THEN 0 ELSE g[n - 1] + s[n].bytes
  <2>1. CASE n = 0
    BY <1>3, <2>1 DEF Recurs
  <2>2. CASE n # 0
    <3>1. n \in 1 .. l /\ n \in Nat /\ n - 1 \in 0 .. l /\ g[n - 1] \in Nat
      BY <1>1, <2>2
    <3>2. g[n] = next[<<n, g[n - 1]>>]
      <4> HIDE DEF next
      <4> QED
        BY <1>3, <2>2 DEF Recurs
    <3>3. next[<<n, g[n - 1]>>] = g[n - 1] + s[n].bytes
      BY <3>1
    <3> QED
      BY <2>2, <3>2, <3>3
  <2> QED
    BY <2>1, <2>2
<1>5. Eq(g)
  <2> DEFINE h == [n \in 0 .. l |-> IF n = 0 THEN 0 ELSE g[n - 1] + s[n].bytes]
  <2>1. DOMAIN g = 0 .. l /\ DOMAIN h = 0 .. l /\ \A n \in 0 .. l : g[n] = h[n]
    BY <1>4
  <2>2. g = [n \in 0 .. l |-> g[n]] /\ h = [n \in 0 .. l |-> h[n]]
    OBVIOUS
  <2> QED
    BY <2>1, <2>2
<1>6. Eq(SumTo(s))
  BY <1>5 DEF SumTo
<1> DEFINE f == SumTo(s)
           T == {n \in Nat : n \in 0 .. l => f[n] \in Nat}
<1> HIDE DEF f, l
<1>7. \A n \in 0 .. l : f[n] = IF n = 0 THEN 0 ELSE f[n - 1] + s[n].bytes
  BY <1>6 DEF f
<1>8. 0 \in T
  BY <1>1, <1>7
<1>9. ASSUME NEW n \in T PROVE n + 1 \in T
  <2> SUFFICES ASSUME n + 1 \in 0 .. l PROVE f[n + 1] \in Nat
    OBVIOUS
  <2>1. n \in 0 .. l /\ n + 1 \in 1 .. l /\ n + 1 # 0 /\ (n + 1) - 1 = n
    BY <1>1
  <2>2. f[n] \in Nat /\ s[n + 1].bytes \in Nat
    BY <1>1, <2>1
  <2>3. f[n + 1] = f[n] + s[n + 1].bytes
    BY <1>7, <2>1
  <2> QED
    BY <2>2, <2>3
<1>10. T = Nat
  <2> HIDE DEF T
  <2>1. T \in SUBSET Nat
    BY DEF T
  <2> QED
    BY <1>8, <1>9, <2>1, SetInduction
<1>11. \A n \in 0 .. l : f[n] \in Nat
  <2>1. \A n \in 0 .. l : n \in T
    BY <1>1, <1>10, SMTT(30)
  <2> QED
    BY <2>1
<1>12. f[0] = 0 /\ \A n \in 1 .. l : f[n] = f[n - 1] + s[n].bytes
  BY <1>1, <1>7
<1> QED
  BY <1>11, <1>12 DEF f, l

LEMMA SumGrows ==
    ASSUME NEW s \in Seq(PieceType), NEW n \in 0 .. Len(s)
    PROVE  SumTo(s)[n] <= SumTo(s)[Len(s)]
<1> DEFINE l == Len(s)
           f == SumTo(s)
           T == {d \in Nat : n + d \in 0 .. l => f[n] <= f[n + d]}
<1>1. /\ l \in Nat /\ n \in 0 .. l /\ \A k \in 0 .. l : f[k] \in Nat
      /\ \A k \in 1 .. l : f[k] = f[k - 1] + s[k].bytes /\ s[k].bytes \in Nat
  BY SumToIs, BytesNatural
<1> HIDE DEF l, f
<1>2. 0 \in T
  BY <1>1
<1>3. ASSUME NEW d \in T PROVE d + 1 \in T
  <2> SUFFICES ASSUME n + (d + 1) \in 0 .. l PROVE f[n] <= f[n + (d + 1)]
    OBVIOUS
  <2>1. /\ d \in Nat /\ n + d \in 0 .. l /\ n + (d + 1) \in 1 .. l
        /\ (n + (d + 1)) - 1 = n + d
    BY <1>1
  <2>2. f[n] <= f[n + d] /\ f[n + d] \in Nat /\ f[n] \in Nat
    BY <1>1, <2>1
  <2>3. f[n + (d + 1)] = f[n + d] + s[n + (d + 1)].bytes /\ s[n + (d + 1)].bytes \in Nat
    BY <1>1, <2>1
  <2> QED
    BY <2>2, <2>3
<1>4. T = Nat
  <2> HIDE DEF T
  <2>1. T \in SUBSET Nat
    BY DEF T
  <2> QED
    BY <1>2, <1>3, <2>1, SetInduction
<1>5. f[n] <= f[l]
  <2>1. l - n \in Nat /\ n + (l - n) = l /\ l \in 0 .. l
    BY <1>1
  <2>2. l - n \in T
    BY <1>4, <2>1
  <2> QED
    BY <2>1, <2>2
<1> QED
  BY <1>5 DEF l, f

----------------------------------------------------------------------------
(* Tensors: how many elements and how many bytes.                          *)
Product(dims) ==
    CHOOSE f : f = [d \in 0 .. Len(dims) |-> IF d = 0 THEN 1 ELSE f[d - 1] * dims[d]]

LEMMA ElementsIsProduct ==
    ASSUME NEW t
    PROVE  Elements(t) = Product(t.dims)[Len(t.dims)]
BY DEF Elements, Product

LEMMA ProductIs ==
    ASSUME NEW dims \in Seq(Nat)
    PROVE  /\ Product(dims)[0] = 1
           /\ \A d \in 1 .. Len(dims) : Product(dims)[d] = Product(dims)[d - 1] * dims[d]
           /\ \A d \in 0 .. Len(dims) : Product(dims)[d] \in Nat
<1> DEFINE l == Len(dims)
           next == [pair \in Nat \X Nat |->
                       IF pair[1] \in 1 .. l THEN pair[2] * dims[pair[1]] ELSE 0]
           Eq(f) == f = [d \in 0 .. l |-> IF d = 0 THEN 1 ELSE f[d - 1] * dims[d]]
<1>1. l \in Nat /\ \A d \in 1 .. l : dims[d] \in Nat
  OBVIOUS
<1>2. next \in [Nat \X Nat -> Nat]
  <2>1. ASSUME NEW pair \in Nat \X Nat, pair[1] \in 1 .. l PROVE pair[2] * dims[pair[1]] \in Nat
    BY <1>1, <2>1
  <2> QED
    BY <2>1
<1>3. PICK g \in [0 .. l -> Nat] : Recurs(g, l, 1, next)
  <2> HIDE DEF next, l
  <2> QED
    BY <1>1, <1>2, RecursionExists
<1>4. ASSUME NEW d \in 0 .. l PROVE g[d] = IF d = 0 THEN 1 ELSE g[d - 1] * dims[d]
  <2>1. CASE d = 0
    BY <1>3, <2>1 DEF Recurs
  <2>2. CASE d # 0
    <3>1. d \in 1 .. l /\ d \in Nat /\ d - 1 \in 0 .. l /\ g[d - 1] \in Nat
      BY <1>1, <2>2
    <3>2. g[d] = next[<<d, g[d - 1]>>]
      <4> HIDE DEF next
      <4> QED
        BY <1>3, <2>2 DEF Recurs
    <3>3. next[<<d, g[d - 1]>>] = g[d - 1] * dims[d]
      BY <3>1
    <3> QED
      BY <2>2, <3>2, <3>3
  <2> QED
    BY <2>1, <2>2
<1>5. Eq(g)
  <2> DEFINE h == [d \in 0 .. l |-> IF d = 0 THEN 1 ELSE g[d - 1] * dims[d]]
  <2>1. DOMAIN g = 0 .. l /\ DOMAIN h = 0 .. l /\ \A d \in 0 .. l : g[d] = h[d]
    BY <1>4
  <2>2. g = [d \in 0 .. l |-> g[d]] /\ h = [d \in 0 .. l |-> h[d]]
    OBVIOUS
  <2> QED
    BY <2>1, <2>2
<1>6. Eq(Product(dims))
  BY <1>5 DEF Product
<1> DEFINE f == Product(dims)
           T == {d \in Nat : d \in 0 .. l => f[d] \in Nat}
<1> HIDE DEF f, l
<1>7. \A d \in 0 .. l : f[d] = IF d = 0 THEN 1 ELSE f[d - 1] * dims[d]
  BY <1>6 DEF f
<1>8. 0 \in T
  BY <1>1, <1>7
<1>9. ASSUME NEW d \in T PROVE d + 1 \in T
  <2> SUFFICES ASSUME d + 1 \in 0 .. l PROVE f[d + 1] \in Nat
    OBVIOUS
  <2>1. d \in 0 .. l /\ d + 1 \in 1 .. l /\ d + 1 # 0 /\ (d + 1) - 1 = d
    BY <1>1
  <2>2. f[d] \in Nat /\ dims[d + 1] \in Nat
    BY <1>1, <2>1
  <2>3. f[d + 1] = f[d] * dims[d + 1]
    BY <1>7, <2>1
  <2> QED
    BY <2>2, <2>3
<1>10. T = Nat
  <2> HIDE DEF T
  <2>1. T \in SUBSET Nat
    BY DEF T
  <2> QED
    BY <1>8, <1>9, <2>1, SetInduction
<1>11. \A d \in 0 .. l : f[d] \in Nat
  <2>1. \A d \in 0 .. l : d \in T
    BY <1>1, <1>10
  <2> QED
    BY <2>1
<1>12. f[0] = 1 /\ \A d \in 1 .. l : f[d] = f[d - 1] * dims[d]
  BY <1>1, <1>7
<1> QED
  BY <1>11, <1>12 DEF f, l

LEMMA ElementsIs ==
    ASSUME NEW t, t.dims \in Seq(Nat)
    PROVE  /\ Elements(t) \in Nat
           /\ Len(t.dims) = 1 => Elements(t) = t.dims[1]
           /\ Len(t.dims) = 2 => Elements(t) = t.dims[1] * t.dims[2]
<1> DEFINE dims == t.dims
           f == Product(dims)
<1>1. /\ Len(dims) \in Nat /\ f[0] = 1 /\ Elements(t) = f[Len(dims)]
      /\ \A d \in 1 .. Len(dims) : f[d] = f[d - 1] * dims[d] /\ dims[d] \in Nat
      /\ \A d \in 0 .. Len(dims) : f[d] \in Nat
  BY ProductIs, ElementsIsProduct
<1> HIDE DEF f, dims
<1>2. Elements(t) \in Nat
  BY <1>1
<1>3. Len(dims) >= 1 => f[1] = dims[1]
  <2> SUFFICES ASSUME Len(dims) >= 1 PROVE f[1] = dims[1]
    OBVIOUS
  <2>1. 1 \in 1 .. Len(dims) /\ 1 - 1 = 0
    BY <1>1
  <2>2. f[1] = 1 * dims[1] /\ dims[1] \in Nat
    BY <1>1, <2>1
  <2> QED
    BY <2>2
<1>4. Len(dims) = 2 => f[2] = dims[1] * dims[2]
  <2> SUFFICES ASSUME Len(dims) = 2 PROVE f[2] = dims[1] * dims[2]
    OBVIOUS
  <2>1. 2 \in 1 .. Len(dims) /\ 2 - 1 = 1
    BY <1>1
  <2> QED
    BY <1>1, <1>3, <2>1
<1> QED
  BY <1>1, <1>2, <1>3, <1>4, SMTT(30) DEF dims

LEMMA SmallRemainder ==
    ASSUME NEW n \in Nat, NEW m \in Nat \ {0}, n < m
    PROVE  n % m = n
OBVIOUS

LEMMA BytesIs ==
    ASSUME NEW t, t.dims \in Seq(Nat)
    PROVE  /\ Stored(t) \in Nat /\ Bytes(t) \in Nat
           /\ Stored(t) < Word => Bytes(t) = Stored(t)
<1>1. Stored(t) \in Nat
  <2>1. CASE t.type \in DOMAIN Block
    <3> DEFINE n == Elements(t)
               a == Block[t.type][1]
               b == Block[t.type][2]
    <3>1. n \in Nat
      BY ElementsIs
    <3>2. a \in Nat \ {0} /\ b \in Nat
      BY <2>1 DEF Block
    <3>3. Stored(t) = IF n % a # 0 THEN 0 ELSE (n \div a) * b
      BY <2>1 DEF Stored
    <3> HIDE DEF n, a, b
    <3>4. n \div a \in Nat
      BY <3>1, <3>2
    <3>5. (n \div a) * b \in Nat
      BY <3>2, <3>4
    <3> QED
      BY <3>3, <3>5
  <2>2. CASE t.type \notin DOMAIN Block
    BY <2>2 DEF Stored
  <2> QED
    BY <2>1, <2>2
<1>2. Bytes(t) = Stored(t) % Word
  BY DEF Bytes
<1> QED
  BY <1>1, <1>2, SmallRemainder, InputAssumption

----------------------------------------------------------------------------
(* Where the data begins.                                                  *)
LEMMA Quotient ==
    ASSUME NEW n \in Nat, NEW a \in Nat \ {0}
    PROVE  n \div a \in Nat /\ n = a * (n \div a) + (n % a) /\ n % a \in 0 .. a - 1
OBVIOUS

LEMMA NoMultipleBetween ==
    ASSUME NEW a \in Nat \ {0}, NEW p \in Nat, NEW q \in Nat
    PROVE  a * p < a * q => a * p + a <= a * q
<1> SUFFICES ASSUME a * p < a * q PROVE a * p + a <= a * q
  OBVIOUS
<1>1. p < q
  <2> SUFFICES ASSUME q <= p PROVE FALSE
    OBVIOUS
  <2>1. a * q <= a * p
    BY MoreTimes
  <2>2. a * p \in Nat /\ a * q \in Nat
    OBVIOUS
  <2> QED
    BY <2>1, <2>2
<1>2. p + 1 <= q /\ p + 1 \in Nat
  BY <1>1
<1>3. a * (p + 1) <= a * q
  BY <1>2, MoreTimes
<1>4. a * (p + 1) = a * p + a
  OBVIOUS
<1> QED
  BY <1>3, <1>4

LEMMA MultipleOf ==
    ASSUME NEW a \in Nat \ {0}, NEW q \in Nat
    PROVE  (a * q) % a = 0
<1> DEFINE n == a * q
<1>1. n \in Nat
  OBVIOUS
<1> DEFINE d == n \div a
           r == n % a
<1>2. d \in Nat /\ n = a * d + r /\ r \in 0 .. a - 1
  <2> HIDE DEF n
  <2> QED
    BY <1>1, Quotient
<1>3. a * d \in Nat /\ a * q \in Nat
  BY <1>2
<1> HIDE DEF d, r
<1>4. ~(a * d < a * q)
  <2> SUFFICES ASSUME a * d < a * q PROVE FALSE
    OBVIOUS
  <2>1. a * d + a <= a * q
    BY <1>2, NoMultipleBetween
  <2> QED
    BY <1>2, <1>3, <2>1
<1>5. a * d <= a * q
  BY <1>2, <1>3
<1>6. r = 0
  BY <1>2, <1>3, <1>4, <1>5
<1> QED
  BY <1>6 DEF r

LEMMA RoundedIsFirst ==
    ASSUME NEW n \in Nat, Alignment(file) \in Nat \ {0}
    PROVE  Rounded(n, Alignment(file)) = FirstMultiple(n)
<1> DEFINE a == Alignment(file)
           x == n + a - 1
           q == x \div a
           y == a * q
           First1(m) == m % a = 0 /\ \A k \in n .. m - 1 : k % a # 0
<1>1. a \in Nat \ {0} /\ x \in Nat
  OBVIOUS
<1>2. FirstMultiple(n) = CHOOSE m \in n .. n + a : First1(m)
  BY DEF FirstMultiple
<1>3. Rounded(n, a) = x - (x % a)
  BY DEF Rounded
<1> HIDE DEF a
<1>4. q \in Nat /\ x = y + (x % a) /\ x % a \in 0 .. a - 1
  <2> HIDE DEF x
  <2> QED
    BY <1>1, Quotient
<1>5. y \in Nat /\ y % a = 0
  <2> HIDE DEF q
  <2> QED
    BY <1>1, <1>4, MultipleOf
<1> HIDE DEF q
<1>6. Rounded(n, a) = y /\ n <= y /\ y <= n + a - 1
  <2> HIDE DEF y
  <2> QED
    BY <1>1, <1>3, <1>4, <1>5
<1>7. ASSUME NEW k \in n .. y - 1 PROVE k % a # 0
  <2> SUFFICES ASSUME k % a = 0 PROVE FALSE
    OBVIOUS
  <2> DEFINE p == k \div a
  <2>1. k \in Nat
    BY <1>5
  <2>2. p \in Nat /\ k = a * p + (k % a)
    BY <1>1, <2>1, Quotient
  <2> HIDE DEF p
  <2>3. k = a * p
    BY <1>1, <2>1, <2>2
  <2>4. a * p < a * q
    BY <1>5, <2>3
  <2>5. a * p + a <= a * q
    BY <1>1, <1>4, <2>2, <2>4, NoMultipleBetween
  <2>6. k + a <= y
    BY <2>3, <2>5
  <2> HIDE DEF y
  <2> QED
    BY <1>1, <1>5, <1>6, <2>1, <2>6
<1> HIDE DEF y, x
<1>8. y \in n .. n + a /\ First1(y)
  BY <1>1, <1>5, <1>6, <1>7
<1>9. ASSUME NEW m \in n .. n + a, First1(m) PROVE m = y
  <2>1. ~(m < y)
    BY <1>5, <1>7, <1>9
  <2>2. ~(y < m)
    BY <1>5, <1>6, <1>9
  <2> QED
    BY <1>1, <1>5, <2>1, <2>2
<1> HIDE DEF First1
<1>10. (CHOOSE m \in n .. n + a : First1(m)) = y
  BY <1>8, <1>9
<1> QED
  BY <1>2, <1>6, <1>10 DEF a

LEMMA AlignmentIs ==
    ASSUME NEW f, ProperFile(f)
    PROVE  Alignment(f) \in Nat \ {0}
<1>1. CASE HasNumber(f, "alignment") /\ Number(f, "alignment") > 0
  <2>1. Number(f, "alignment") \in Nat
    BY <1>1, NumberIsNatural
  <2> QED
    BY <1>1, <2>1 DEF Alignment
<1>2. CASE ~(HasNumber(f, "alignment") /\ Number(f, "alignment") > 0)
  BY <1>2 DEF Alignment
<1> QED
  BY <1>1, <1>2

LEMMA LayoutPieces ==
    ASSUME NEW f, ProperFile(f)
    PROVE  /\ Layout(f) \in Seq(PieceType) /\ Len(Layout(f)) \in Nat
           /\ DOMAIN Layout(f) = 1 .. Len(Layout(f))
<1>1. Layout(f) \in Seq(Pieces(f))
  BY LayoutOrderly DEF Orderly
<1>2. Pieces(f) \subseteq PieceType
  BY DEF Pieces
<1> QED
  BY <1>1, <1>2

(* WellFormed, as the reader decides it.                                   *)
Total(f)  == SumTo(Layout(f))[Len(Layout(f))]
Begins(f) == Rounded(Total(f), Alignment(f))

Lies(t, from, size) ==
    Bytes(t) = 0 \/ (AbsoluteOffset(t, from) <= size /\ Bytes(t) <= size - AbsoluteOffset(t, from))

AllLie(f) == Begins(f) <= f.size /\ \A i \in DOMAIN f.tensors : Lies(f.tensors[i], Begins(f), f.size)

AllValid(f, k) == \A m \in 1 .. k : Layout(f)[m].valid

Sound(f) == AllValid(f, Len(Layout(f))) /\ Total(f) <= f.size /\ AllLie(f)

LEMMA TotalIs ==
    ASSUME NEW f, ProperFile(f)
    PROVE  Total(f) \in Nat /\ Begins(f) \in Nat
<1>1. Total(f) \in Nat
  <2>1. Len(Layout(f)) \in 0 .. Len(Layout(f))
    BY LayoutPieces
  <2> QED
    BY <2>1, LayoutPieces, SumToIs DEF Total
<1>2. Begins(f) \in Nat
  <2> DEFINE a == Alignment(f)
             x == Total(f) + a - 1
  <2>1. a \in Nat \ {0}
    BY AlignmentIs
  <2>2. x \in Nat
    BY <1>1, <2>1
  <2>3. Begins(f) = x - (x % a)
    BY DEF Begins, Rounded
  <2> HIDE DEF x, a
  <2>4. x \div a \in Nat /\ x = a * (x \div a) + (x % a) /\ x % a \in Nat
    BY <2>1, <2>2, Quotient
  <2>5. a * (x \div a) \in Nat
    BY <2>1, <2>4
  <2> QED
    BY <2>2, <2>3, <2>4, <2>5
<1> QED
  BY <1>1, <1>2

LEMMA StartIs ==
    ASSUME ProperFile(file)
    PROVE  /\ FirstMultiple(Declared) = Begins(file)
           /\ PiecesWellFormed <=> /\ AllValid(file, Len(Layout(file)))
                                  /\ Total(file) <= file.size /\ Begins(file) <= file.size
<1>1. Declared = Total(file) /\ Total(file) \in Nat
  BY DeclaredIs, TotalIs DEF Total
<1>2. FirstMultiple(Declared) = Begins(file)
  <2>1. Alignment(file) \in Nat \ {0}
    BY AlignmentIs
  <2>2. Rounded(Total(file), Alignment(file)) = FirstMultiple(Total(file))
    BY <1>1, <2>1, RoundedIsFirst
  <2> QED
    BY <1>1, <2>2 DEF Begins
<1>3. (\A piece \in SX!ToSet(Layout(file)) : piece.valid) <=> AllValid(file, Len(Layout(file)))
  BY LayoutPieces DEF SX!ToSet, AllValid
<1> QED
  BY <1>1, <1>2, <1>3 DEF PiecesWellFormed

(* A tensor that lies in the file passes the test of gguf_open, since the  *)
(* file is too small for its sums to wrap; one that passes it lies in the  *)
(* file or wraps.                                                          *)
LEMMA InFileLies ==
    ASSUME NEW t, t.dims \in Seq(Nat), t.offset \in Nat, NEW from \in Nat, file.size \in Nat,
           2 * file.size < Word, Stored(t) > 0 => InFile(t, from)
    PROVE  Lies(t, from, file.size)
<1> DEFINE n == Stored(t)
           o == from + t.offset
<1>1. n \in Nat /\ Bytes(t) \in Nat /\ (n < Word => Bytes(t) = n)
  BY BytesIs
<1>2. o \in Nat /\ AbsoluteOffset(t, from) = o % Word
  BY DEF AbsoluteOffset
<1>3. CASE n = 0
  BY <1>1, <1>3, InputAssumption DEF Lies
<1>4. CASE n > 0
  <2>1. o + n <= file.size
    BY <1>4 DEF InFile
  <2> HIDE DEF n, o
  <2>2. o < Word /\ n < Word
    BY <1>1, <1>2, <2>1, InputAssumption
  <2>3. o % Word = o
    BY <1>2, <2>2, SmallRemainder, InputAssumption
  <2>4. AbsoluteOffset(t, from) = o /\ Bytes(t) = n
    BY <1>1, <1>2, <2>2, <2>3
  <2>5. o <= file.size /\ n <= file.size - o
    BY <1>1, <1>2, <2>1
  <2> QED
    BY <2>4, <2>5 DEF Lies
<1> QED
  BY <1>1, <1>3, <1>4

LEMMA LiesInFile ==
    ASSUME NEW t, t.dims \in Seq(Nat), t.offset \in Nat, NEW from \in Nat, file.size \in Nat,
           Lies(t, from, file.size), Stored(t) > 0, ~Wraps(t, from)
    PROVE  InFile(t, from)
<1> DEFINE n == Stored(t)
           o == from + t.offset
<1>1. n \in Nat /\ n > 0 /\ o \in Nat
  BY BytesIs
<1>2. o < Word /\ n < Word
  <2>1. ~(o >= Word) /\ ~(n >= Word)
    BY DEF Wraps
  <2> HIDE DEF n, o
  <2> QED
    BY <1>1, <2>1, InputAssumption
<1>3. Bytes(t) = n
  BY <1>2, BytesIs
<1>4. AbsoluteOffset(t, from) = o
  <2>1. AbsoluteOffset(t, from) = o % Word
    BY DEF AbsoluteOffset
  <2> HIDE DEF o
  <2> QED
    BY <1>1, <1>2, <2>1, SmallRemainder, InputAssumption
<1>5. n = 0 \/ (o <= file.size /\ n <= file.size - o)
  BY <1>3, <1>4 DEF Lies
<1>6. o + n <= file.size
  <2> HIDE DEF n, o
  <2> QED
    BY <1>1, <1>5
<1> QED
  BY <1>6 DEF InFile

(* How far a file has been read.                                           *)
Reached(k) ==
    /\ todo = SubSeq(Layout(file), k + 1, Len(Layout(file)))
    /\ cursor = SumTo(Layout(file))[k] /\ cursor <= file.size
    /\ AllValid(file, k)

Ready == WithTokenizer \cup {"inspect", "tokenizer"}

OpenInv ==
    /\ stage \in {"options", "open", "map"} => cursor = 0
    /\ stage \in Ready => Sound(file)
    /\ stage = "read" => \E k \in 0 .. Len(Layout(file)) : Reached(k)
    /\ fields # {} /\ stage \notin {"map", "read"} => Sound(file)
    /\ cause = "file" => ~Sound(file)

LEMMA Elsewhere ==
    ASSUME ProgramInv, OpenInv, stage \notin {"map", "read"}, stage' # "read",
           UNCHANGED <<file, cursor>>, cause' = "file" => cause = "file",
           stage' \in {"options", "open", "map"} => stage \in {"options", "open"},
           stage' \in Ready => stage \in Ready,
           stage' = "map" \/ fields' \in {fields, {}}
    PROVE  OpenInv'
BY DEF OpenInv

LEMMA OpeningSteps ==
    ASSUME ProgramInv, OpenInv, FileStep
    PROVE  OpenInv'
<1> USE DEF Ready, WithTokenizer, WithModel, WithBackend
<1> DEFINE L == Layout(file)
           l == Len(L)
           sum == SumTo(L)
<1>1. ProperFile(file) /\ file.size \in Nat /\ L \in Seq(PieceType) /\ l \in Nat
  BY LayoutPieces DEF ProgramInv, FileInv, ProperFile
<1>2. /\ sum[0] = 0 /\ \A n \in 0 .. l : sum[n] \in Nat /\ sum[n] <= sum[l]
      /\ \A n \in 1 .. l : sum[n] = sum[n - 1] + L[n].bytes /\ L[n].bytes \in Nat
  BY <1>1, SumToIs, SumGrows, BytesNatural
<1>3. CASE OpenRefused
  BY <1>3, Elsewhere DEF OpenRefused, fileVars
<1>4. CASE Open
  BY <1>4, Elsewhere DEF Open
<1>5. CASE MapRefused
  BY <1>5 DEF MapRefused, OpenFails, Close, OpenInv
<1>6. CASE MapFile
  <2>1. /\ todo' = L /\ UNCHANGED <<file, cursor, cause>> /\ stage' = "read" /\ cursor = 0
    BY <1>6 DEF MapFile, OpenInv
  <2>2. L = SubSeq(L, 0 + 1, l)
    <3> HIDE DEF L
    <3> QED
      BY <1>1
  <2>3. 0 \in 0 .. l /\ AllValid(file, 0) /\ 0 <= file.size
    BY <1>1 DEF AllValid
  <2> HIDE DEF l, sum
  <2>4. Reached(0)'
    BY <1>2, <2>1, <2>2, <2>3 DEF Reached, AllValid, l, sum
  <2> QED
    BY <2>1, <2>3, <2>4 DEF OpenInv, l
<1>7. CASE ReadPiece \/ ReadFails
  <2>1. stage = "read" /\ todo # <<>> /\ file' = file
    BY <1>7 DEF ReadPiece, ReadFails, OpenFails
  <2>2. PICK k \in 0 .. l : Reached(k)
    BY <2>1 DEF OpenInv
  <2>3. /\ todo = SubSeq(L, k + 1, l) /\ cursor = sum[k] /\ cursor <= file.size /\ AllValid(file, k)
    BY <2>2 DEF Reached
  <2> HIDE DEF L, sum
  <2>4. k + 1 \in 1 .. l /\ (k + 1) - 1 = k
    BY <1>1, <2>1, <2>3
  <2>5. /\ Head(todo) = L[k + 1] /\ Tail(todo) = SubSeq(L, (k + 1) + 1, l)
    BY <1>1, <2>3, <2>4
  <2> HIDE DEF l
  <2>6. /\ NextPiece = L[k + 1] /\ sum[k + 1] = cursor + L[k + 1].bytes /\ cursor \in Nat
        /\ L[k + 1].bytes \in Nat /\ sum[k + 1] <= sum[l] /\ sum[l] = Total(file)
    <3>1. /\ sum[k + 1] = sum[k] + L[k + 1].bytes /\ sum[k] \in Nat /\ k + 1 \in 0 .. l
      BY <1>1, <1>2, <2>4
    <3> QED
      BY <1>2, <2>3, <2>4, <2>5, <3>1 DEF NextPiece, Total, L, l, sum
  <2>7. CASE ReadPiece
    <3>1. /\ Fits /\ NextPiece.valid /\ cursor' = cursor + NextPiece.bytes /\ todo' = Tail(todo)
          /\ UNCHANGED <<stage, cause>>
      BY <2>7 DEF ReadPiece
    <3>2. cursor' = sum[k + 1] /\ cursor' <= file.size
      BY <1>1, <2>6, <3>1 DEF Fits
    <3>3. AllValid(file, k + 1)
      <4>1. ASSUME NEW m \in 1 .. k + 1 PROVE L[m].valid
        <5>1. m \in 1 .. k \/ m = k + 1
          BY <2>2
        <5> QED
          BY <2>3, <2>6, <3>1, <5>1 DEF AllValid, L
      <4> QED
        BY <4>1 DEF AllValid, L
    <3>4. Reached(k + 1)'
      BY <2>1, <2>5, <3>1, <3>2, <3>3 DEF Reached, AllValid, L, l, sum
    <3>5. k + 1 \in 0 .. l
      BY <1>1, <2>4
    <3>6. \E n \in 0 .. l : Reached(n)'
      BY <3>4, <3>5
    <3> QED
      BY <2>1, <3>1, <3>6 DEF OpenInv, L, l
  <2>8. CASE ReadFails
    <3>1. ~(Fits /\ NextPiece.valid) /\ stage' = "exited" /\ fields' = {} /\ cause' = "file"
      BY <2>8 DEF ReadFails, OpenFails, Close
    <3>2. ~Sound(file)
      <4>1. CASE ~Fits
        <5>1. sum[k + 1] > file.size /\ Total(file) \in Nat /\ sum[k + 1] \in Nat
          BY <1>1, <2>6, <4>1, TotalIs DEF Fits
        <5>2. Total(file) > file.size
          BY <1>1, <2>6, <5>1
        <5> QED
          BY <1>1, <5>1, <5>2 DEF Sound
      <4>2. CASE ~NextPiece.valid
        BY <2>4, <2>6, <4>2 DEF Sound, AllValid, L, l
      <4> QED
        BY <3>1, <4>1, <4>2
    <3> QED
      BY <2>1, <3>1, <3>2 DEF OpenInv
  <2> QED
    BY <1>7, <2>7, <2>8
<1>8. CASE Opened \/ RangesOutside
  <2>1. stage = "read" /\ todo = <<>> /\ file' = file
    BY <1>8 DEF Opened, RangesOutside, OpenFails
  <2>2. PICK k \in 0 .. l : Reached(k)
    BY <2>1 DEF OpenInv
  <2>3. /\ todo = SubSeq(L, k + 1, l) /\ cursor = sum[k] /\ cursor <= file.size /\ AllValid(file, k)
    BY <2>2 DEF Reached
  <2> HIDE DEF L, sum
  <2>4. k = l
    <3>1. SubSeq(L, k + 1, l) = <<>>
      BY <2>1, <2>3
    <3>2. k + 1 <= l => Len(SubSeq(L, k + 1, l)) = l - k
      BY <1>1
    <3> HIDE DEF l
    <3>3. k + 1 <= l => l - k = 0
      BY <3>1, <3>2
    <3> QED
      BY <1>1, <3>3
  <2>5. cursor = Total(file) /\ AllValid(file, Len(Layout(file))) /\ Total(file) <= file.size
    BY <2>3, <2>4 DEF Total, L, l, sum
  <2>6. RangesFit(Rounded(cursor, Alignment(file))) <=> AllLie(file)
    BY <2>5 DEF RangesFit, AllLie, Begins, Lies, InRange
  <2>7. CASE Opened
    <3>1. RangesFit(Rounded(cursor, Alignment(file))) /\ stage' = "inspect" /\ cause' = cause
      BY <2>7 DEF Opened
    <3>2. Sound(file)
      BY <2>5, <2>6, <3>1 DEF Sound
    <3> QED
      BY <2>1, <3>1, <3>2 DEF OpenInv
  <2>8. CASE RangesOutside
    <3>1. /\ ~RangesFit(Rounded(cursor, Alignment(file))) /\ stage' = "exited" /\ cause' = "file"
          /\ fields' = {}
      BY <2>8 DEF RangesOutside, OpenFails, Close
    <3>2. ~Sound(file)
      BY <2>6, <3>1 DEF Sound
    <3> QED
      BY <2>1, <3>1, <3>2 DEF OpenInv
  <2> QED
    BY <1>8, <2>7, <2>8
<1> QED
  BY <1>3, <1>4, <1>5, <1>6, <1>7, <1>8 DEF FileStep, FileNext

LEMMA OpenWhileLoading ==
    ASSUME ProgramInv, OpenInv, ModelStep
    PROVE  OpenInv'
<1> USE DEF Ready, WithTokenizer, WithModel, WithBackend
<1>1. CASE LoadWeightFails \/ ExpectFails \/ LoadOutputFails \/ CachesRefused
  BY <1>1, Elsewhere
     DEF LoadWeightFails, ExpectFails, LoadOutputFails, CachesRefused, Loading, LoadFails, fileVars
<1>2. CASE ConfigRefused \/ ReadConfig \/ CountVocabulary \/ Expect \/ TieOutput
  BY <1>2, Elsewhere
     DEF ConfigRefused, ReadConfig, CountVocabulary, Expect, TieOutput, Loading, Goes,
         processVars, fileVars
<1>3. CASE LoadWeight \/ LoadOutput \/ AllocateLayers
  BY <1>3, Elsewhere DEF LoadWeight, LoadOutput, AllocateLayers, LoadInto, Loading, fileVars
<1>4. CASE AllocateCaches \/ CachesFatal \/ LoadFaults
  BY <1>4, Elsewhere DEF AllocateCaches, CachesFatal, LoadFaults, Loading, fileVars
<1> QED
  BY <1>1, <1>2, <1>3, <1>4 DEF ModelStep, ModelNext

LEMMA OpenInMain ==
    ASSUME ProgramInv, OpenInv,
           \/ Answered \/ ParseOptions \/ Inspect \/ NoTokenizer \/ Tokenize \/ TokenizeFails
           \/ NoDeviceTaken \/ BackendRefused \/ Attach \/ AttachFails \/ Session
           \/ EndModel \/ EndFile \/ Return
           \/ InitTokenizer \/ EndTokenizer \/ CreateBackend \/ EndBackend
    PROVE  OpenInv'
<1> USE DEF Ready, WithTokenizer, WithModel, WithBackend
<1>1. CASE Answered
  BY <1>1, Elsewhere DEF Answered, End, fileVars
<1>2. CASE ParseOptions
  BY <1>2, Elsewhere DEF ParseOptions, Go, fileVars
<1>3. CASE Inspect \/ Tokenize
  BY <1>3, Elsewhere DEF Inspect, Tokenize, Go, End, fileVars
<1>4. CASE NoTokenizer \/ TokenizeFails \/ NoDeviceTaken \/ BackendRefused \/ AttachFails
  BY <1>4, Elsewhere
     DEF NoTokenizer, TokenizeFails, NoDeviceTaken, BackendRefused, AttachFails, End, fileVars
<1>5. CASE Attach \/ InitTokenizer \/ CreateBackend
  BY <1>5, Elsewhere DEF Attach, InitTokenizer, CreateBackend, Go, fileVars
<1>6. CASE Session
  <2>1. PICK why \in {"done", "session", "usage"} :
                End(why, <<"model", "backend", "tokenizer", "file">>)
    BY <1>6 DEF Session
  <2> QED
    BY <1>6, <2>1, Elsewhere DEF Session, End, fileVars
<1>7. CASE EndModel \/ EndTokenizer \/ EndBackend \/ Return
  BY <1>7, Elsewhere DEF EndModel, EndTokenizer, EndBackend, Return, Ending, Released, fileVars
<1>8. CASE EndFile
  BY <1>8, Elsewhere DEF EndFile, Ending, Released, Close
<1> QED
  BY <1>1, <1>2, <1>3, <1>4, <1>5, <1>6, <1>7, <1>8

LEMMA InitOpenInv == Init => OpenInv
BY DEF Init, FileInit, OpenInv, Ready, WithTokenizer, WithModel, WithBackend

LEMMA StepOpenInv == ProgramInv /\ OpenInv /\ [Next \/ Exited]_vars => OpenInv'
<1> SUFFICES ASSUME ProgramInv, OpenInv, [Next \/ Exited]_vars PROVE OpenInv'
  OBVIOUS
<1>1. CASE Move
  BY <1>1, OpeningSteps, OpenWhileLoading, OpenInMain DEF Move
<1>2. CASE TokenizerStep \/ BackendStep
  BY <1>2, OpenInMain DEF TokenizerStep, BackendStep
<1>3. CASE UNCHANGED vars
  <2>1. UNCHANGED <<file, stage, cause, fields, todo, cursor>>
    BY <1>3 DEF vars, processVars, fileVars
  <2> QED
    BY <2>1 DEF OpenInv, Reached
<1> QED
  BY <1>1, <1>2, <1>3 DEF Next, Exited

LEMMA OpenInvHolds == Spec => []OpenInv
BY InitOpenInv, StepOpenInv, ProgramInvHolds, InitProgramInv, StepProgramInv, PTL DEF Spec

----------------------------------------------------------------------------
(* What gpt2_load leaves: a slot that no step of the plan will still fill  *)
(* holds what the file says, and one that no step will still compare has   *)
(* the shape the configuration asks for.                                   *)
Fetches(list, slot) ==
    \E k \in DOMAIN list : list[k].do \in {"load", "output"} /\ slot \in list[k].slots
Compares(list, slot) ==
    \E k \in DOMAIN list : list[k].do = "expect" /\ slot \in list[k].slots

(* Whatever is loaded is compared afterwards.                              *)
Followed(list) ==
    \A k \in DOMAIN list : \A slot \in list[k].slots :
        list[k].do \in {"load", "output"} =>
            \E m \in DOMAIN list : m > k /\ list[m].do = "expect" /\ slot \in list[m].slots

Convertible(slot) ==
    /\ Found(file.tensors, slot) /\ Len(Entry(file.tensors, slot).dims) <= 2
    /\ ~Overruns(slot)

FromFile(slot) == Convertible(slot) /\ weights[slot] = Loaded(slot)
Tied(slot) ==
    /\ slot = <<"output", 0>> /\ Convertible(Token)
    /\ weights[slot] = [Loaded(Token) EXCEPT !.owns = FALSE]

Filled(slot) == slot \in DOMAIN weights /\ (FromFile(slot) \/ Tied(slot))

InModel == stage \in {"backend", "attach", "session"}

LoadInv ==
    (stage = "load" /\ plan # <<>>) \/ InModel =>
        /\ \A slot \in Slots(cfg.blocks) :
              /\ Fetches(plan, slot) \/ Filled(slot)
              /\ Compares(plan, slot) \/ (slot \in DOMAIN weights /\ AsExpected(slot))
        /\ Followed(plan)
        /\ Plans("vocab") => \A slot \in Slots(cfg.blocks) : Compares(plan, slot)
        /\ cfg.c = Number(file, "embedding_length") /\ HasU32(file, "embedding_length")
        /\ InModel => /\ plan = <<>> /\ IsConfig(cfg) /\ DOMAIN weights = Slots(cfg.blocks)
                      /\ kv_elements = cfg.blocks * cfg.context * cfg.c

(* The run of the program that the input asks for.                         *)
InputInv ==
    \E input \in Inputs :
        file = input.file /\ options = input.options /\ machine = input.machine

TokenInv == stage \in WithTokenizer => HasTokens /\ vocabulary = ReadVocabulary

DeviceInv ==
    /\ stage \in WithBackend =>
          device = Taken(machine, options.device) /\ device # NoDevice
    /\ cause = "device" => Taken(machine, options.device) = NoDevice

----------------------------------------------------------------------------
(* Every slot is loaded and then compared.                                 *)

LEMMA CoversJoined ==
    ASSUME NEW S, NEW s \in Seq(S), NEW t \in Seq(S)
    PROVE  /\ \A slot : Fetches(s, slot) \/ Fetches(t, slot) => Fetches(s \o t, slot)
           /\ \A slot : Compares(s, slot) \/ Compares(t, slot) => Compares(s \o t, slot)
           /\ Followed(s) /\ Followed(t) => Followed(s \o t)
<1> DEFINE q == s \o t
<1>1. /\ Len(s) \in Nat /\ Len(t) \in Nat
      /\ DOMAIN s = 1 .. Len(s) /\ DOMAIN t = 1 .. Len(t) /\ DOMAIN q = 1 .. Len(s) + Len(t)
      /\ \A k \in 1 .. Len(s) : q[k] = s[k]
      /\ \A k \in 1 .. Len(t) : q[Len(s) + k] = t[k]
      /\ \A k \in 1 .. Len(s) + Len(t) : k \in 1 .. Len(s) \/ k - Len(s) \in 1 .. Len(t)
  BY Joining
<1> HIDE DEF q
<1>2. \A k \in DOMAIN s : k \in DOMAIN q /\ q[k] = s[k]
  BY <1>1
<1>3. \A k \in DOMAIN t : Len(s) + k \in DOMAIN q /\ q[Len(s) + k] = t[k]
  BY <1>1
<1>4. ASSUME NEW slot, Fetches(s, slot) \/ Fetches(t, slot) PROVE Fetches(q, slot)
  BY <1>2, <1>3, <1>4 DEF Fetches
<1>5. ASSUME NEW slot, Compares(s, slot) \/ Compares(t, slot) PROVE Compares(q, slot)
  BY <1>2, <1>3, <1>5 DEF Compares
<1>6. ASSUME Followed(s), Followed(t), NEW k \in DOMAIN q, NEW slot \in q[k].slots,
             q[k].do \in {"load", "output"}
      PROVE  \E m \in DOMAIN q : m > k /\ q[m].do = "expect" /\ slot \in q[m].slots
  <2>1. CASE k \in 1 .. Len(s)
    <3>1. q[k] = s[k] /\ k \in DOMAIN s
      BY <1>1, <2>1
    <3>2. PICK m \in DOMAIN s : m > k /\ s[m].do = "expect" /\ slot \in s[m].slots
      BY <1>6, <3>1 DEF Followed
    <3> QED
      BY <1>2, <3>2
  <2>2. CASE k \notin 1 .. Len(s)
    <3> DEFINE n == k - Len(s)
    <3>1. n \in 1 .. Len(t) /\ Len(s) + n = k
      BY <1>1, <2>2
    <3> HIDE DEF n
    <3>2. q[k] = t[n] /\ n \in DOMAIN t
      BY <1>1, <3>1
    <3>3. PICK m \in DOMAIN t : m > n /\ t[m].do = "expect" /\ slot \in t[m].slots
      BY <1>6, <3>2 DEF Followed
    <3>4. Len(s) + m > k /\ Len(s) + m \in DOMAIN q /\ q[Len(s) + m] = t[m]
      BY <1>1, <3>1, <3>3
    <3> QED
      BY <3>3, <3>4
  <2> QED
    BY <2>1, <2>2
<1> QED
  BY <1>4, <1>5, <1>6 DEF Followed, q

LEMMA LayerPlanCovers ==
    ASSUME NEW b
    PROVE  /\ Followed(LayerPlan(b)) /\ DOMAIN LayerPlan(b) = 1 .. 13
           /\ \A i \in 1 .. 12 : LayerPlan(b)[i] = LoadStep(<<LayerWeights[i], b>>)
           /\ LayerPlan(b)[13] = ExpectStep(LayerSlots(b))
<1> DEFINE loads == [i \in DOMAIN LayerWeights |-> LoadStep(<<LayerWeights[i], b>>)]
           e == ExpectStep(LayerSlots(b))
           q == LayerPlan(b)
           S == {loads[i] : i \in 1 .. 12} \cup {e}
<1>1. q = loads \o <<e>>
  BY DEF LayerPlan
<1>2. \A i \in 1 .. 12 : loads[i] = LoadStep(<<LayerWeights[i], b>>)
  BY LayerWeightNames
<1>3. loads = [i \in 1 .. 12 |-> loads[i]]
  BY LayerWeightNames
<1>4. \A i \in 1 .. 12 : loads[i] \in S
  OBVIOUS
<1>5. e \in S
  OBVIOUS
<1> HIDE DEF loads, e, S
<1>6. loads \in Seq(S) /\ Len(loads) = 12 /\ <<e>> \in Seq(S) /\ Len(<<e>>) = 1 /\ <<e>>[1] = e
  BY <1>3, <1>4, <1>5, FromFunction
<1> HIDE DEF q
<1>7. /\ DOMAIN q = 1 .. 13 /\ \A i \in 1 .. 12 : q[i] = loads[i]
      /\ q[13] = e
  <2> DEFINE t == <<e>>
  <2>1. /\ t \in Seq(S) /\ Len(t) = 1 /\ t[1] = e /\ 1 \in 1 .. Len(t) /\ q = loads \o t
    BY <1>1, <1>6
  <2> HIDE DEF t
  <2>2. /\ q \in Seq(S) /\ Len(q) = Len(loads) + Len(t)
        /\ \A k \in 1 .. Len(loads) : q[k] = loads[k]
        /\ \A k \in 1 .. Len(t) : q[Len(loads) + k] = t[k]
    <3>1. loads \in Seq(S) /\ t \in Seq(S)
      BY <1>6, <2>1
    <3>2. /\ loads \o t \in Seq(S) /\ Len(loads \o t) = Len(loads) + Len(t)
          /\ \A k \in 1 .. Len(loads) : (loads \o t)[k] = loads[k]
          /\ \A k \in 1 .. Len(t) : (loads \o t)[Len(loads) + k] = t[k]
      BY <3>1, Joining
    <3> QED
      BY <2>1, <3>2
  <2>3. Len(q) = 13 /\ q[12 + 1] = t[1] /\ 12 + 1 = 13
    BY <1>6, <2>1, <2>2
  <2>4. DOMAIN q = 1 .. Len(q)
    BY <2>2
  <2> QED
    BY <1>6, <2>1, <2>2, <2>3, <2>4
<1>8. e.do = "expect" /\ e.slots = LayerSlots(b)
  BY DEF e, ExpectStep
<1>9. \A i \in 1 .. 12 : loads[i].slots = {<<LayerWeights[i], b>>} /\ loads[i].slots \subseteq LayerSlots(b)
  BY <1>2, LayerWeightNames DEF LoadStep, LayerSlots
<1>10. ASSUME NEW k \in DOMAIN q, NEW slot \in q[k].slots, q[k].do \in {"load", "output"}
       PROVE  \E m \in DOMAIN q : m > k /\ q[m].do = "expect" /\ slot \in q[m].slots
  <2>1. k \in 1 .. 12
    <3>1. k # 13
      BY <1>7, <1>8, <1>10
    <3> QED
      BY <1>7, <3>1
  <2>2. 13 \in DOMAIN q /\ 13 > k /\ slot \in e.slots
    BY <1>7, <1>8, <1>9, <2>1
  <2> QED
    BY <1>7, <1>8, <2>2
<1> QED
  BY <1>2, <1>7, <1>10 DEF Followed, q, e

LEMMA MiddleCovers ==
    ASSUME NEW blocks \in Nat
    PROVE  LET mid == SX!FlattenSeq([b \in 1 .. blocks |-> LayerPlan(b - 1)])
           IN  /\ Followed(mid)
               /\ \A b \in 0 .. blocks - 1 : \A slot \in LayerSlots(b) :
                     Fetches(mid, slot) /\ Compares(mid, slot)
<1> DEFINE ss == [b \in 1 .. blocks |-> LayerPlan(b - 1)]
           P == Mids(blocks)
           mid == SX!FlattenSeq(ss)
           Good == {s \in Seq(P) : Followed(s)}
<1>1. \A b \in 1 .. blocks : ss[b] = LayerPlan(b - 1) /\ ss[b] \in Seq(P) /\ Followed(ss[b])
  <2> SUFFICES ASSUME NEW b \in 1 .. blocks
               PROVE  ss[b] = LayerPlan(b - 1) /\ ss[b] \in Seq(P) /\ Followed(ss[b])
    OBVIOUS
  <2>1. b - 1 \in 0 .. blocks - 1 /\ ss[b] = LayerPlan(b - 1)
    OBVIOUS
  <2> HIDE DEF ss, P
  <2>2. LayerPlan(b - 1) \in Seq(P)
    BY <2>1, LayerPlanSteps DEF P
  <2> QED
    BY <2>1, <2>2, LayerPlanCovers
<1>2. ss = [b \in 1 .. blocks |-> ss[b]]
  OBVIOUS
<1> HIDE DEF ss, P
<1>3. ss \in Seq(Seq(P)) /\ Len(ss) = blocks
  BY <1>1, <1>2, FromFunction
<1>4. Followed(mid)
  <2>1. Good \in SUBSET Seq(P) /\ <<>> \in Good
    BY DEF Followed
  <2>2. \A i \in 1 .. Len(ss) : ss[i] \in Good /\ \A s \in Good : s \o ss[i] \in Good
    BY <1>1, <1>3, CoversJoined
  <2> HIDE DEF Good
  <2>3. mid \in Good
    BY <1>3, <2>1, <2>2, Flattening
  <2> QED
    BY <2>3 DEF Good
<1>5. \A b \in 1 .. blocks : \A k \in 1 .. 13 : \E m \in DOMAIN mid : mid[m] = LayerPlan(b - 1)[k]
  <2> SUFFICES ASSUME NEW b \in 1 .. blocks, NEW k \in 1 .. 13
               PROVE  \E m \in DOMAIN mid : mid[m] = LayerPlan(b - 1)[k]
    OBVIOUS
  <2>1. DOMAIN ss[b] = 1 .. 13 /\ ss[b] \in Seq(P) /\ ss[b] = LayerPlan(b - 1)
    BY <1>1, LayerPlanCovers
  <2>2. k \in 1 .. Len(ss[b]) /\ b \in 1 .. Len(ss)
    <3>1. k \in DOMAIN ss[b]
      BY <2>1
    <3>2. DOMAIN ss[b] = 1 .. Len(ss[b])
      <4> DEFINE s == ss[b]
      <4>1. s \in Seq(P)
        BY <2>1
      <4> HIDE DEF s
      <4> QED
        BY <4>1 DEF s
    <3> QED
      BY <1>3, <3>1, <3>2
  <2>3. \E m \in DOMAIN mid : mid[m] = ss[b][k]
    BY <1>3, <2>2, FlattenContains
  <2> QED
    BY <2>1, <2>3
<1> HIDE DEF mid
<1>6. ASSUME NEW b \in 0 .. blocks - 1, NEW slot \in LayerSlots(b)
      PROVE  Fetches(mid, slot) /\ Compares(mid, slot)
  <2>1. b + 1 \in 1 .. blocks /\ (b + 1) - 1 = b /\ 13 \in 1 .. 13
    OBVIOUS
  <2>2. PICK i \in 1 .. 12 : slot = <<LayerWeights[i], b>>
    BY LayerWeightNames DEF LayerSlots
  <2>3. PICK m \in DOMAIN mid : mid[m] = LayerPlan(b)[i]
    <3>1. i \in 1 .. 13
      OBVIOUS
    <3> QED
      BY <1>5, <2>1, <3>1
  <2>4. PICK n \in DOMAIN mid : mid[n] = LayerPlan(b)[13]
    BY <1>5, <2>1
  <2>5. mid[m] = LoadStep(slot) /\ mid[n] = ExpectStep(LayerSlots(b))
    BY <2>2, <2>3, <2>4, LayerPlanCovers
  <2>6. mid[m].do = "load" /\ slot \in mid[m].slots /\ mid[n].do = "expect" /\ slot \in mid[n].slots
    BY <2>5 DEF LoadStep, ExpectStep
  <2> QED
    BY <2>6 DEF Fetches, Compares
<1> QED
  BY <1>4, <1>6 DEF mid, ss

LEMMA StepCovers ==
    ASSUME NEW s, NEW k \in DOMAIN s
    PROVE  /\ s[k].do \in {"load", "output"} => \A slot \in s[k].slots : Fetches(s, slot)
           /\ s[k].do = "expect" => \A slot \in s[k].slots : Compares(s, slot)
BY DEF Fetches, Compares

LEMMA PlanCovers ==
    ASSUME NEW blocks \in Nat
    PROVE  /\ Followed(Plan(blocks))
           /\ \A slot \in Slots(blocks) :
                 Fetches(Plan(blocks), slot) /\ Compares(Plan(blocks), slot)
<1> DEFINE Pos == <<"position_embd", 0>>
           Norm == <<"output_norm_w", 0>>
           Bias == <<"output_norm_b", 0>>
           Out == <<"output", 0>>
           a1 == LoadStep(Token)
           a2 == LoadStep(Pos)
           a3 == [do |-> "vocab", slots |-> {Token}]
           a4 == ExpectStep({Token, Pos})
           a5 == [do |-> "layers", slots |-> {}]
           c1 == LoadStep(Norm)
           c2 == LoadStep(Bias)
           c3 == ExpectStep({Norm, Bias})
           c4 == [do |-> "output", slots |-> {Out}]
           c5 == ExpectStep({Out})
           c6 == [do |-> "caches", slots |-> {}]
           a == <<a1, a2, a3, a4, a5>>
           c == <<c1, c2, c3, c4, c5, c6>>
           mid == SX!FlattenSeq([b \in 1 .. blocks |-> LayerPlan(b - 1)])
           S == {a1, a2, a3, a4, a5, c1, c2, c3, c4, c5, c6} \cup Mids(blocks)
<1>1. Plan(blocks) = (a \o mid) \o c
  BY DEF Plan, Token
<1>2. GlobalSlots = {Token, Pos, Norm, Bias, Out}
  BY SlotNames
<1>3. /\ a1.do = "load" /\ a2.do = "load" /\ a3.do = "vocab" /\ a4.do = "expect" /\ a5.do = "layers"
      /\ c1.do = "load" /\ c2.do = "load" /\ c3.do = "expect" /\ c4.do = "output"
      /\ c5.do = "expect" /\ c6.do = "caches"
      /\ a1.slots = {Token} /\ a2.slots = {Pos} /\ c1.slots = {Norm} /\ c2.slots = {Bias}
      /\ c3.slots = {Norm, Bias} /\ c5.slots = {Out} /\ a4.slots = {Token, Pos} /\ c4.slots = {Out}
      /\ a5.slots = {} /\ c6.slots = {}
  BY DEF LoadStep, ExpectStep
<1> HIDE DEF Pos, Norm, Bias, Out, a1, a2, a3, a4, a5, c1, c2, c3, c4, c5, c6
<1>4. a \in Seq(S) /\ c \in Seq(S)
  OBVIOUS
<1>5. mid \in Seq(S)
  BY MiddleSteps
<1>6. /\ DOMAIN a = {1, 2, 3, 4, 5} /\ a[1] = a1 /\ a[2] = a2 /\ a[3] = a3 /\ a[4] = a4 /\ a[5] = a5
      /\ DOMAIN c = {1, 2, 3, 4, 5, 6} /\ c[1] = c1 /\ c[2] = c2 /\ c[3] = c3 /\ c[4] = c4
      /\ c[5] = c5 /\ c[6] = c6
  OBVIOUS
<1> HIDE DEF a, c, mid, S
<1>7. /\ Followed(mid)
      /\ \A b \in 0 .. blocks - 1 : \A slot \in LayerSlots(b) :
            Fetches(mid, slot) /\ Compares(mid, slot)
  BY MiddleCovers DEF mid
<1>8. Followed(a)
  <2>1. ASSUME NEW k \in DOMAIN a, NEW slot \in a[k].slots, a[k].do \in {"load", "output"}
        PROVE  4 \in DOMAIN a /\ 4 > k /\ a[4].do = "expect" /\ slot \in a[4].slots
    BY <1>3, <1>6, <2>1
  <2> QED
    BY <2>1 DEF Followed
<1>9. Followed(c)
  <2>1. ASSUME NEW k \in DOMAIN c, NEW slot \in c[k].slots, c[k].do \in {"load", "output"}
        PROVE  \E m \in DOMAIN c : m > k /\ c[m].do = "expect" /\ slot \in c[m].slots
    <3>1. CASE k \in {1, 2}
      <4>1. 3 \in DOMAIN c /\ 3 > k /\ c[3].do = "expect" /\ slot \in c[3].slots
        BY <1>3, <1>6, <2>1, <3>1
      <4> QED
        BY <4>1
    <3>2. CASE k = 4
      <4>1. 5 \in DOMAIN c /\ 5 > k /\ c[5].do = "expect" /\ slot \in c[5].slots
        BY <1>3, <1>6, <2>1, <3>2
      <4> QED
        BY <4>1
    <3> QED
      BY <1>3, <1>6, <2>1, <3>1, <3>2
  <2> QED
    BY <2>1 DEF Followed
<1>10. /\ Fetches(a, Token) /\ Fetches(a, Pos) /\ Compares(a, Token) /\ Compares(a, Pos)
  <2>1. 1 \in DOMAIN a /\ 2 \in DOMAIN a /\ 4 \in DOMAIN a
    BY <1>6
  <2> QED
    BY <1>3, <1>6, <2>1, StepCovers
<1>11. /\ Fetches(c, Norm) /\ Fetches(c, Bias) /\ Compares(c, Norm) /\ Compares(c, Bias)
       /\ Fetches(c, Out) /\ Compares(c, Out)
  <2>1. {1, 2, 3, 4, 5} \subseteq DOMAIN c
    BY <1>6
  <2>2. Fetches(c, Norm) /\ Fetches(c, Bias) /\ Fetches(c, Out)
    BY <1>3, <1>6, <2>1, StepCovers
  <2>3. Compares(c, Norm) /\ Compares(c, Bias) /\ Compares(c, Out)
    BY <1>3, <1>6, <2>1, StepCovers
  <2> QED
    BY <2>2, <2>3
<1> DEFINE s == a \o mid
<1>12. /\ s \in Seq(S) /\ Followed(s)
       /\ \A slot : Fetches(a, slot) \/ Fetches(mid, slot) => Fetches(s, slot)
       /\ \A slot : Compares(a, slot) \/ Compares(mid, slot) => Compares(s, slot)
  BY <1>4, <1>5, <1>7, <1>8, CoversJoined
<1> HIDE DEF s
<1> DEFINE p == s \o c
<1>13. /\ Followed(p)
       /\ \A slot : Fetches(s, slot) \/ Fetches(c, slot) => Fetches(p, slot)
       /\ \A slot : Compares(s, slot) \/ Compares(c, slot) => Compares(p, slot)
  BY <1>4, <1>9, <1>12, CoversJoined
<1>14. p = Plan(blocks)
  BY <1>1 DEF s
<1> HIDE DEF p
<1>15. ASSUME NEW slot \in Slots(blocks) PROVE Fetches(p, slot) /\ Compares(p, slot)
  <2>1. CASE slot \in GlobalSlots
    BY <1>2, <1>10, <1>11, <1>12, <1>13, <2>1
  <2>2. CASE slot \notin GlobalSlots
    <3>1. PICK b \in 0 .. blocks - 1 : slot \in LayerSlots(b)
      BY <2>2 DEF Slots
    <3> QED
      BY <1>7, <1>12, <1>13, <3>1
  <2> QED
    BY <2>1, <2>2
<1> QED
  BY <1>13, <1>14, <1>15

(* What is left to be done after a step.                                   *)
LEMMA Remaining ==
    ASSUME NEW blocks, NEW p, Planned(p, blocks)
    PROVE  /\ \A slot : Fetches(p, slot) <=>
                  (Head(p).do \in {"load", "output"} /\ slot \in Head(p).slots) \/ Fetches(Tail(p), slot)
           /\ \A slot : Compares(p, slot) <=>
                  (Head(p).do = "expect" /\ slot \in Head(p).slots) \/ Compares(Tail(p), slot)
           /\ Followed(p) => /\ Followed(Tail(p))
                             /\ Head(p).do \in {"load", "output"} =>
                                   \A slot \in Head(p).slots : Compares(Tail(p), slot)
           /\ Followed(p) => \A slot : Fetches(p, slot) => Compares(p, slot)
<1> DEFINE t == Tail(p)
           h == Head(p)
<1>1. /\ Len(p) \in Nat \ {0} /\ h = p[1] /\ DOMAIN p = 1 .. Len(p)
      /\ Len(t) = Len(p) - 1 /\ DOMAIN t = 1 .. Len(t)
      /\ \A k \in 1 .. Len(t) : t[k] = p[k + 1]
  BY DEF Planned
<1> HIDE DEF t, h
<1>2. 1 \in DOMAIN p /\ p[1] = h
  BY <1>1
<1>3. \A k \in DOMAIN p : k = 1 \/ (k - 1 \in DOMAIN t /\ t[k - 1] = p[k])
  <2> SUFFICES ASSUME NEW k \in DOMAIN p, k # 1 PROVE k - 1 \in DOMAIN t /\ t[k - 1] = p[k]
    OBVIOUS
  <2>1. k - 1 \in 1 .. Len(t) /\ (k - 1) + 1 = k
    BY <1>1
  <2> QED
    BY <1>1, <2>1
<1>4. \A k \in DOMAIN t : k + 1 \in DOMAIN p /\ p[k + 1] = t[k] /\ k + 1 > 1
  BY <1>1
<1>5. ASSUME NEW slot
      PROVE  /\ Fetches(p, slot) <=> (h.do \in {"load", "output"} /\ slot \in h.slots) \/ Fetches(t, slot)
             /\ Compares(p, slot) <=> (h.do = "expect" /\ slot \in h.slots) \/ Compares(t, slot)
  <2>1. Fetches(p, slot) => (h.do \in {"load", "output"} /\ slot \in h.slots) \/ Fetches(t, slot)
    BY <1>2, <1>3 DEF Fetches
  <2>2. (h.do \in {"load", "output"} /\ slot \in h.slots) \/ Fetches(t, slot) => Fetches(p, slot)
    BY <1>2, <1>4 DEF Fetches
  <2>3. Compares(p, slot) => (h.do = "expect" /\ slot \in h.slots) \/ Compares(t, slot)
    BY <1>2, <1>3 DEF Compares
  <2>4. (h.do = "expect" /\ slot \in h.slots) \/ Compares(t, slot) => Compares(p, slot)
    BY <1>2, <1>4 DEF Compares
  <2> QED
    BY <2>1, <2>2, <2>3, <2>4
<1>6. ASSUME Followed(p), NEW k \in DOMAIN t, NEW slot \in t[k].slots,
             t[k].do \in {"load", "output"}
      PROVE  \E m \in DOMAIN t : m > k /\ t[m].do = "expect" /\ slot \in t[m].slots
  <2>1. k + 1 \in DOMAIN p /\ p[k + 1] = t[k]
    BY <1>4
  <2>2. PICK m \in DOMAIN p : m > k + 1 /\ p[m].do = "expect" /\ slot \in p[m].slots
    BY <1>6, <2>1 DEF Followed
  <2>3. m # 1 /\ m - 1 > k
    BY <1>1, <2>2
  <2> QED
    BY <1>3, <2>2, <2>3
<1>7. ASSUME Followed(p), h.do \in {"load", "output"}, NEW slot \in h.slots
      PROVE  Compares(t, slot)
  <2>1. PICK m \in DOMAIN p : m > 1 /\ p[m].do = "expect" /\ slot \in p[m].slots
    BY <1>2, <1>7 DEF Followed
  <2> QED
    BY <1>3, <2>1 DEF Compares
<1>8. Followed(p) => \A slot : Fetches(p, slot) => Compares(p, slot)
  BY DEF Followed, Fetches, Compares
<1> QED
  BY <1>5, <1>6, <1>7, <1>8 DEF Followed, t, h

----------------------------------------------------------------------------
(* The steps of gpt2_load keep what is loaded and what is compared.        *)
LEMMA StaysFilled ==
    ASSUME file' = file, NEW slot, Filled(slot), slot \in DOMAIN weights',
           weights'[slot] = weights[slot]
    PROVE  Filled(slot)'
BY DEF Filled, FromFile, Tied, Convertible, Loaded, Overruns

LEMMA StillLoading ==
    ASSUME ProgramInv, LoadInv, stage = "load", plan # <<>>, Head(plan).do # "caches",
           plan' = Tail(plan), UNCHANGED <<file, stage>>,
           cfg'.blocks = cfg.blocks, cfg'.c = cfg.c,
           \A slot \in Slots(cfg.blocks) :
               /\ Fetches(plan', slot) \/ Filled(slot)'
               /\ Compares(plan', slot) \/ (slot \in DOMAIN weights' /\ AsExpected(slot)')
    PROVE  LoadInv'
<1>1. Planned(plan, cfg.blocks)
  BY WhileLoading
<1>2. Followed(plan) /\ (Plans("vocab") => \A slot \in Slots(cfg.blocks) : Compares(plan, slot))
  BY DEF LoadInv
<1>3. Followed(plan')
  BY <1>1, <1>2, Remaining
<1>4. Plans("vocab")' => \A slot \in Slots(cfg.blocks) : Compares(plan', slot)
  <2> SUFFICES ASSUME Plans("vocab")', NEW slot \in Slots(cfg.blocks) PROVE Compares(plan', slot)
    OBVIOUS
  <2>1. Does(Tail(plan), "vocab")
    BY DEF Plans
  <2>2. Plans("vocab")
    BY <1>1, <2>1, Planning DEF Plans
  <2>3. PICK k \in DOMAIN Tail(plan) : Tail(plan)[k].do = "vocab"
    BY <2>1 DEF Does
  <2>4. Head(plan).do # "expect"
    BY <1>1, <2>3, Planning DEF InOrder
  <2> QED
    BY <1>1, <1>2, <2>2, <2>4, Remaining
<1>5. cfg.c = Number(file, "embedding_length") /\ HasU32(file, "embedding_length")
  BY DEF LoadInv
<1> QED
  BY <1>3, <1>4, <1>5 DEF LoadInv, InModel

LEMMA LoadWhenRead ==
    ASSUME ProgramInv, ReadConfig
    PROVE  LoadInv'
<1> DEFINE B == Number(file, "block_count")
<1>1. /\ stage' = "load" /\ ConfigUsable(file) /\ cfg' = Config(file) /\ plan' = Plan(B)
      /\ file' = file
  BY DEF ReadConfig, Goes, processVars
<1>2. ProperFile(file) /\ HasU32(file, "block_count") /\ HasU32(file, "embedding_length")
  BY <1>1 DEF ProgramInv, FileInv, ConfigUsable, Sizes
<1>3. B \in Nat
  BY <1>2, NumberIsNatural DEF HasU32
<1>4. cfg'.blocks = B /\ cfg'.c = Number(file, "embedding_length")
  BY <1>1 DEF Config
<1> HIDE DEF B
<1>5. /\ Followed(Plan(B))
      /\ \A slot \in Slots(B) : Fetches(Plan(B), slot) /\ Compares(Plan(B), slot)
  BY <1>3, PlanCovers
<1> QED
  BY <1>1, <1>2, <1>4, <1>5 DEF LoadInv, InModel

LEMMA LoadWhenLoaded ==
    ASSUME ProgramInv, LoadInv, stage = "load", plan # <<>>, Head(plan).do \in {"load", "output"},
           NEW slot \in DOMAIN weights, Head(plan).slots = {slot}, Loadable(slot), ~Overruns(slot),
           LoadInto(slot)
    PROVE  LoadInv'
<1> DEFINE w == Loaded(slot)
<1>1. Planned(plan, cfg.blocks) /\ DOMAIN weights \subseteq Slots(cfg.blocks)
  BY WhileLoading
<1>2. /\ weights' = [weights EXCEPT ![slot] = w] /\ plan' = Tail(plan)
      /\ UNCHANGED <<file, stage, cfg>>
  BY DEF LoadInto, Advance
<1>3. w' = w /\ Convertible(slot)'
  BY <1>2 DEF Loadable, Loaded, Convertible, Overruns
<1> HIDE DEF w
<1>4. /\ DOMAIN weights' = DOMAIN weights /\ weights'[slot] = w
      /\ \A s \in DOMAIN weights : s # slot => weights'[s] = weights[s]
  BY <1>2
<1>5. Filled(slot)'
  <2>1. FromFile(slot)'
    BY <1>3, <1>4 DEF FromFile, w
  <2> QED
    BY <1>4, <2>1 DEF Filled
<1>6. Compares(plan', slot)
  BY <1>1, <1>2, Remaining DEF LoadInv
<1>7. ASSUME NEW s \in Slots(cfg.blocks), s # slot
      PROVE  /\ Fetches(plan', s) \/ Filled(s)'
             /\ Compares(plan', s) \/ (s \in DOMAIN weights' /\ AsExpected(s)')
  <2>1. /\ Fetches(plan, s) \/ Filled(s)
        /\ Compares(plan, s) \/ (s \in DOMAIN weights /\ AsExpected(s))
    BY DEF LoadInv
  <2>2. Fetches(plan, s) => Fetches(plan', s)
    BY <1>1, <1>2, <1>7, Remaining
  <2>3. Compares(plan, s) => Compares(plan', s)
    BY <1>1, <1>2, Remaining
  <2>4. Filled(s) => Filled(s)'
    <3>1. Filled(s) => s \in DOMAIN weights
      BY DEF Filled
    <3> QED
      BY <1>2, <1>4, <1>7, <3>1, StaysFilled
  <2>5. s \in DOMAIN weights /\ AsExpected(s) => s \in DOMAIN weights' /\ AsExpected(s)'
    BY <1>2, <1>4, <1>7 DEF AsExpected
  <2> QED
    BY <2>1, <2>2, <2>3, <2>4, <2>5
<1>8. \A s \in Slots(cfg.blocks) :
          /\ Fetches(plan', s) \/ Filled(s)'
          /\ Compares(plan', s) \/ (s \in DOMAIN weights' /\ AsExpected(s)')
  BY <1>5, <1>6, <1>7
<1> QED
  BY <1>2, <1>8, StillLoading

LEMMA LoadWhenCounted ==
    ASSUME ProgramInv, LoadInv, CountVocabulary
    PROVE  LoadInv'
<1>1. /\ stage = "load" /\ plan # <<>> /\ Head(plan).do = "vocab" /\ plan' = Tail(plan)
      /\ UNCHANGED <<file, stage, weights>>
      /\ cfg' = [cfg EXCEPT !.vocab = weights[WantedSlot].ne1 % Word32]
  BY DEF CountVocabulary, Loading, Advance, Goes, processVars
<1>2. Planned(plan, cfg.blocks) /\ IsConfig(cfg)
  BY <1>1, WhileLoading
<1>3. cfg'.blocks = cfg.blocks /\ cfg'.c = cfg.c
  BY <1>1, <1>2 DEF IsConfig
<1>4. Plans("vocab")
  BY <1>1, <1>2, Planning DEF Plans
<1>5. ASSUME NEW slot \in Slots(cfg.blocks)
      PROVE  (Fetches(plan', slot) \/ Filled(slot)') /\ Compares(plan', slot)
  <2>1. (Fetches(plan, slot) \/ Filled(slot)) /\ Compares(plan, slot)
    BY <1>1, <1>4 DEF LoadInv
  <2>2. (Fetches(plan, slot) => Fetches(plan', slot)) /\ Compares(plan', slot)
    BY <1>1, <1>2, <2>1, Remaining
  <2>3. Filled(slot) => Filled(slot)'
    BY <1>1, StaysFilled DEF Filled
  <2> QED
    BY <2>1, <2>2, <2>3
<1> QED
  BY <1>1, <1>3, <1>5, StillLoading

LEMMA LoadWhenAllocated ==
    ASSUME ProgramInv, LoadInv, AllocateLayers
    PROVE  LoadInv'
<1> DEFINE D == DOMAIN weights
<1>1. /\ stage = "load" /\ plan # <<>> /\ Head(plan).do = "layers" /\ plan' = Tail(plan)
      /\ UNCHANGED <<file, stage, cfg>>
      /\ weights' = [slot \in Slots(cfg.blocks) |-> IF slot \in D THEN weights[slot] ELSE NoWeight]
  BY DEF AllocateLayers, Loading, Advance
<1>2. Planned(plan, cfg.blocks)
  BY <1>1, WhileLoading
<1> HIDE DEF D
<1>3. /\ DOMAIN weights' = Slots(cfg.blocks)
      /\ \A slot \in Slots(cfg.blocks) : slot \in D => weights'[slot] = weights[slot]
  BY <1>1
<1>4. ASSUME NEW slot \in Slots(cfg.blocks)
      PROVE  /\ Fetches(plan', slot) \/ Filled(slot)'
             /\ Compares(plan', slot) \/ (slot \in DOMAIN weights' /\ AsExpected(slot)')
  <2>1. /\ (Fetches(plan, slot) \/ Filled(slot)) /\ Followed(plan)
        /\ Compares(plan, slot) \/ (slot \in D /\ AsExpected(slot))
    BY <1>1 DEF LoadInv, D
  <2>2. /\ Fetches(plan, slot) => Fetches(plan', slot)
        /\ Compares(plan, slot) => Compares(plan', slot)
    BY <1>1, <1>2, Remaining
  <2>3. Filled(slot) => Filled(slot)'
    <3>1. Filled(slot) => slot \in D
      BY DEF Filled, D
    <3> QED
      BY <1>1, <1>3, <3>1, StaysFilled
  <2>4. slot \in D /\ AsExpected(slot) => AsExpected(slot)'
    BY <1>1, <1>3 DEF AsExpected
  <2> QED
    BY <1>3, <2>1, <2>2, <2>3, <2>4
<1> QED
  BY <1>1, <1>4, StillLoading

LEMMA LoadWhenCompared ==
    ASSUME ProgramInv, LoadInv, Expect
    PROVE  LoadInv'
<1>1. /\ stage = "load" /\ plan # <<>> /\ Head(plan).do = "expect" /\ plan' = Tail(plan)
      /\ UNCHANGED <<file, stage, cfg, weights>> /\ \A slot \in Head(plan).slots : AsExpected(slot)
  BY DEF Expect, Loading, Advance, Goes, processVars, Wanted
<1>2. Planned(plan, cfg.blocks)
  BY <1>1, WhileLoading
<1>3. Planned(Tail(plan), cfg.blocks)
  BY <1>1, <1>2, Planning
<1>4. ASSUME NEW slot \in Slots(cfg.blocks)
      PROVE  /\ Fetches(plan', slot) \/ Filled(slot)'
             /\ Compares(plan', slot) \/ (slot \in DOMAIN weights' /\ AsExpected(slot)')
  <2>1. /\ Fetches(plan, slot) \/ Filled(slot)
        /\ Compares(plan, slot) \/ (slot \in DOMAIN weights /\ AsExpected(slot))
        /\ Followed(plan)
    BY <1>1 DEF LoadInv
  <2>2. /\ Fetches(plan, slot) => Fetches(plan', slot)
        /\ Compares(plan, slot) => AsExpected(slot) \/ Compares(plan', slot)
    BY <1>1, <1>2, Remaining
  <2>3. Followed(Tail(plan))
    BY <1>2, <2>1, Remaining
  <2>4. Fetches(plan', slot) => Compares(plan', slot)
    BY <1>1, <1>3, <2>3, Remaining
  <2>5. Filled(slot) => slot \in DOMAIN weights /\ Filled(slot)'
    BY <1>1, StaysFilled DEF Filled
  <2>6. AsExpected(slot) => AsExpected(slot)'
    BY <1>1 DEF AsExpected
  <2> QED
    BY <1>1, <2>1, <2>2, <2>4, <2>5, <2>6
<1> QED
  BY <1>1, <1>4, StillLoading

LEMMA LoadWhenTied ==
    ASSUME ProgramInv, LoadInv, TieOutput
    PROVE  LoadInv'
<1> DEFINE out == <<"output", 0>>
           w == [weights[Token] EXCEPT !.owns = FALSE]
<1>1. /\ stage = "load" /\ plan # <<>> /\ Head(plan).do = "output" /\ plan' = Tail(plan)
      /\ UNCHANGED <<file, stage, cfg>> /\ weights' = [weights EXCEPT ![WantedSlot] = w]
  BY DEF TieOutput, Loading, Advance, Goes, processVars, Token
<1>2. Planned(plan, cfg.blocks) /\ GlobalSlots \subseteq DOMAIN weights
      /\ DOMAIN weights \subseteq Slots(cfg.blocks)
  BY <1>1, WhileLoading
<1>3. Head(plan).slots = {out} /\ WantedSlot = out
  <2>1. Head(plan) \in Steps(cfg.blocks)
    BY <1>2, Planning
  <2> QED
    BY <1>1, <2>1, StepKinds, OnlySlot DEF Wanted
<1>4. out \in DOMAIN weights /\ Token \in DOMAIN weights /\ Token \in Slots(cfg.blocks) /\ Token # out
  <2>1. Token # out
    BY DEF Token
  <2> QED
    BY <1>2, <2>1, SlotNames
<1>5. ~Fetches(Tail(plan), Token)
  BY <1>1, <1>2, Planning DEF InOrder, Fetches
<1>6. w = [Loaded(Token) EXCEPT !.owns = FALSE] /\ Convertible(Token)
  <2>1. Fetches(plan, Token) \/ Filled(Token)
    BY <1>1, <1>4 DEF LoadInv
  <2>2. ~Fetches(plan, Token)
    BY <1>2, <1>3, <1>4, <1>5, Remaining
  <2> QED
    BY <1>4, <2>1, <2>2 DEF Filled, FromFile, Tied
<1> HIDE DEF w
<1>7. /\ DOMAIN weights' = DOMAIN weights /\ weights'[out] = w
      /\ \A s \in DOMAIN weights : s # out => weights'[s] = weights[s]
  BY <1>1, <1>3, <1>4
<1>8. Filled(out)'
  <2>1. Convertible(Token)' /\ Loaded(Token)' = Loaded(Token)
    BY <1>1, <1>6 DEF Convertible, Loaded, Overruns
  <2>2. Tied(out)'
    BY <1>6, <1>7, <2>1 DEF Tied
  <2> QED
    BY <1>4, <1>7, <2>2 DEF Filled
<1>9. Compares(plan', out)
  BY <1>1, <1>2, <1>3, Remaining DEF LoadInv
<1>10. ASSUME NEW s \in Slots(cfg.blocks), s # out
       PROVE  /\ Fetches(plan', s) \/ Filled(s)'
              /\ Compares(plan', s) \/ (s \in DOMAIN weights' /\ AsExpected(s)')
  <2>1. /\ Fetches(plan, s) \/ Filled(s)
        /\ Compares(plan, s) \/ (s \in DOMAIN weights /\ AsExpected(s))
    BY <1>1 DEF LoadInv
  <2>2. /\ Fetches(plan, s) => Fetches(plan', s)
        /\ Compares(plan, s) => Compares(plan', s)
    BY <1>1, <1>2, <1>3, <1>10, Remaining
  <2>3. Filled(s) => Filled(s)'
    <3>1. Filled(s) => s \in DOMAIN weights
      BY DEF Filled
    <3> QED
      BY <1>1, <1>7, <1>10, <3>1, StaysFilled
  <2>4. s \in DOMAIN weights /\ AsExpected(s) => s \in DOMAIN weights' /\ AsExpected(s)'
    BY <1>1, <1>7, <1>10 DEF AsExpected
  <2> QED
    BY <2>1, <2>2, <2>3, <2>4
<1>11. \A s \in Slots(cfg.blocks) :
          /\ Fetches(plan', s) \/ Filled(s)'
          /\ Compares(plan', s) \/ (s \in DOMAIN weights' /\ AsExpected(s)')
  BY <1>8, <1>9, <1>10
<1> QED
  BY <1>1, <1>11, StillLoading

LEMMA LoadWhenDone ==
    ASSUME ProgramInv, LoadInv, AllocateCaches
    PROVE  LoadInv'
<1>1. /\ stage = "load" /\ plan # <<>> /\ Head(plan).do = "caches" /\ plan' = Tail(plan)
      /\ stage' = "backend" /\ ~CachesTooLarge /\ kv_elements' = CacheElements
      /\ UNCHANGED <<file, cfg, weights>>
  BY DEF AllocateCaches, Loading, Advance
<1>2. /\ Planned(plan, cfg.blocks) /\ IsConfig(cfg)
      /\ Plans("layers") \/ DOMAIN weights = Slots(cfg.blocks)
  BY <1>1, WhileLoading
<1>3. Tail(plan) = <<>> /\ ~Plans("layers")
  <2>1. Tail(plan) = <<>> /\ (Does(plan, "layers") => Does(Tail(plan), "layers"))
    BY <1>1, <1>2, Planning
  <2> QED
    BY <2>1 DEF Plans, Does
<1>4. kv_elements' = cfg.blocks * cfg.context * cfg.c
  <2>1. cfg.blocks \in Nat \ {0} /\ cfg.context \in Nat \ {0} /\ cfg.c \in Nat \ {0}
    BY <1>2 DEF IsConfig
  <2>2. ~(cfg.context > ((Word - 1) \div cfg.blocks) \div cfg.c) /\ Word \in Nat \ {0}
    BY <1>1, InputAssumption DEF CachesTooLarge
  <2>3. (cfg.blocks * cfg.context * cfg.c) % Word = cfg.blocks * cfg.context * cfg.c
    BY <2>1, <2>2, CachesHaveSize
  <2> QED
    BY <1>1, <2>3 DEF CacheElements
<1>5. ASSUME NEW slot \in Slots(cfg.blocks)
      PROVE  Filled(slot)' /\ slot \in DOMAIN weights' /\ AsExpected(slot)'
  <2>1. /\ Fetches(plan, slot) \/ Filled(slot)
        /\ Compares(plan, slot) \/ (slot \in DOMAIN weights /\ AsExpected(slot))
    BY <1>1 DEF LoadInv
  <2>2. ~Fetches(plan, slot) /\ ~Compares(plan, slot)
    <3>1. ~Fetches(Tail(plan), slot) /\ ~Compares(Tail(plan), slot)
      BY <1>3 DEF Fetches, Compares
    <3> QED
      BY <1>1, <1>2, <3>1, Remaining
  <2>3. Filled(slot)'
    BY <1>1, <2>1, <2>2, StaysFilled DEF Filled
  <2> QED
    BY <1>1, <2>1, <2>2, <2>3 DEF AsExpected
<1>6. Followed(plan') /\ ~Plans("vocab")'
  BY <1>1, <1>3 DEF Followed, Plans, Does
<1>7. cfg.c = Number(file, "embedding_length") /\ HasU32(file, "embedding_length")
  BY <1>1 DEF LoadInv
<1>8. IsConfig(cfg)' /\ DOMAIN weights' = Slots(cfg'.blocks) /\ plan' = <<>>
  BY <1>1, <1>2, <1>3 DEF IsConfig
<1> QED
  BY <1>1, <1>4, <1>5, <1>6, <1>7, <1>8 DEF LoadInv

(* Nothing else touches a model that is loaded.                            *)
LEMMA LoadElsewhere ==
    ASSUME LoadInv, stage' = "load" => plan' = <<>>,
           InModel' => InModel /\ UNCHANGED <<file, modelVars>>
    PROVE  LoadInv'
<1>1. CASE ~InModel'
  BY <1>1 DEF LoadInv
<1>2. CASE InModel'
  <2>1. /\ InModel /\ UNCHANGED <<file, cfg, plan, weights, kv_elements>>
    BY <1>2 DEF modelVars
  <2>2. \A slot : (Filled(slot) => Filled(slot)') /\ (AsExpected(slot) => AsExpected(slot)')
    BY <2>1 DEF Filled, FromFile, Tied, Convertible, Loaded, Overruns, AsExpected
  <2>3. IsConfig(cfg) => IsConfig(cfg)'
    BY <2>1 DEF IsConfig
  <2> QED
    BY <1>2, <2>1, <2>2, <2>3 DEF LoadInv, Plans
<1> QED
  BY <1>1, <1>2

LEMMA InitLoadInv == Init => LoadInv
BY DEF Init, LoadInv, InModel

LEMMA StepLoadInv == ProgramInv /\ LoadInv /\ [Next \/ Exited]_vars => LoadInv'
<1> SUFFICES ASSUME ProgramInv, LoadInv, [Next \/ Exited]_vars PROVE LoadInv'
  OBVIOUS
<1> USE DEF InModel
<1>1. CASE ModelStep
  <2>1. CASE LoadWeightFails \/ ExpectFails \/ LoadOutputFails \/ CachesRefused
    BY <2>1, LoadElsewhere
       DEF LoadWeightFails, ExpectFails, LoadOutputFails, CachesRefused, LoadFails
  <2>2. CASE ConfigRefused \/ CachesFatal \/ LoadFaults
    BY <2>2, LoadElsewhere DEF ConfigRefused, CachesFatal, LoadFaults
  <2>3. CASE LoadWeight
    <3>1. /\ stage = "load" /\ plan # <<>> /\ Head(plan).do = "load" /\ Loadable(WantedSlot)
          /\ ~Overruns(WantedSlot) /\ LoadInto(WantedSlot)
      BY <2>3 DEF LoadWeight, Loading
    <3>2. PICK slot \in DOMAIN weights \ {<<"output", 0>>} : Wanted = {slot} /\ WantedSlot = slot
      BY <3>1, KnownSlot
    <3> QED
      BY <3>1, <3>2, LoadWhenLoaded DEF Wanted
  <2>4. CASE LoadOutput
    <3>1. /\ stage = "load" /\ plan # <<>> /\ Head(plan).do = "output" /\ Loadable(WantedSlot)
          /\ ~Overruns(WantedSlot) /\ LoadInto(WantedSlot)
      BY <2>4 DEF LoadOutput, Loading
    <3>2. Planned(plan, cfg.blocks) /\ GlobalSlots \subseteq DOMAIN weights
      BY <3>1, WhileLoading
    <3>3. Head(plan) \in Steps(cfg.blocks)
      BY <3>2, Planning
    <3>4. Head(plan).slots = {<<"output", 0>>} /\ WantedSlot = <<"output", 0>>
      BY <3>1, <3>3, StepKinds, OnlySlot DEF Wanted
    <3>5. <<"output", 0>> \in DOMAIN weights
      BY <3>2, SlotNames
    <3> QED
      BY <3>1, <3>4, <3>5, LoadWhenLoaded
  <2> QED
    BY <1>1, <2>1, <2>2, <2>3, <2>4, LoadWhenRead, LoadWhenCounted, LoadWhenAllocated,
       LoadWhenCompared, LoadWhenTied, LoadWhenDone DEF ModelStep, ModelNext
<1>2. CASE FileStep
  <2>1. stage' \in {"map", "read", "inspect", "exited"}
    BY <1>2 DEF FileStep, FileNext, OpenRefused, Open, MapRefused, MapFile, ReadPiece, ReadFails,
                Opened, RangesOutside, OpenFails
  <2> QED
    BY <2>1, LoadElsewhere
<1>3. CASE Tokenize
  <2>1. NoModel /\ file' = file /\ plan' = plan /\ stage' \in {"ending", "load"}
    <3>1. NoModel
      BY <1>3 DEF Tokenize, ProgramInv, ModelInv, Holds, WithModel, WithBackend
    <3> QED
      BY <1>3, <3>1 DEF Tokenize, modelVars, End, Go
  <2> QED
    BY <2>1, LoadElsewhere DEF NoModel
<1>4. CASE Answered \/ ParseOptions \/ Inspect \/ NoTokenizer \/ TokenizeFails \/ NoDeviceTaken
           \/ BackendRefused \/ AttachFails \/ Session \/ InitTokenizer \/ Return
  <2>1. stage' \in {"ending", "open", "tokenizer", "tokenize", "exited"}
    BY <1>4 DEF Answered, ParseOptions, Inspect, NoTokenizer, TokenizeFails, NoDeviceTaken,
                BackendRefused, AttachFails, Session, InitTokenizer, Return, End, Go
  <2> QED
    BY <2>1, LoadElsewhere
<1>5. CASE Attach \/ CreateBackend
  BY <1>5, LoadElsewhere DEF Attach, CreateBackend, Go
<1>6. CASE EndModel \/ EndFile \/ EndTokenizer \/ EndBackend
  BY <1>6, LoadElsewhere DEF EndModel, EndFile, EndTokenizer, EndBackend, Ending, Released
<1>7. CASE UNCHANGED vars
  <2>1. UNCHANGED <<file, stage, plan, modelVars>>
    BY <1>7 DEF vars, processVars, modelVars
  <2>2. CASE stage = "load" /\ plan # <<>>
    <3>1. UNCHANGED <<cfg, weights, kv_elements>>
      BY <2>1 DEF modelVars
    <3>2. \A slot : (Filled(slot) => Filled(slot)') /\ (AsExpected(slot) => AsExpected(slot)')
      BY <2>1, <3>1 DEF Filled, FromFile, Tied, Convertible, Loaded, Overruns, AsExpected
    <3> QED
      BY <2>1, <2>2, <3>1, <3>2 DEF LoadInv, Plans
  <2> QED
    BY <2>1, <2>2, LoadElsewhere
<1> QED
  BY <1>1, <1>2, <1>3, <1>4, <1>5, <1>6, <1>7 DEF Next, Move, TokenizerStep, BackendStep, Exited

LEMMA LoadInvHolds == Spec => []LoadInv
BY InitLoadInv, StepLoadInv, ProgramInvHolds, PTL DEF Spec

----------------------------------------------------------------------------
(* The tensors of a file that was opened have one to four dimensions and   *)
(* none of them is zero.                                                   *)
LEMMA LayoutEnds ==
    ASSUME NEW f, ProperFile(f)
    PROVE  LET tensors == SX!FlattenSeq([i \in DOMAIN f.tensors |-> TensorPieces(f, i)])
           IN  \A m \in DOMAIN tensors : \E k \in DOMAIN Layout(f) : Layout(f)[k] = tensors[m]
<1> DEFINE m == Piece("metadata", 0, 0, 0, TRUE)
           a == Piece("alignment", 0, 0, 0, PowerOfTwo(Alignment(f)))
           t == Piece("tensors", 0, 0, 0, TRUE)
           entries == SX!FlattenSeq([i \in DOMAIN f.metadata |-> EntryPieces(f, i)])
           tensors == SX!FlattenSeq([i \in DOMAIN f.tensors |-> TensorPieces(f, i)])
           S == Pieces(f) \cup {m, a, t}
           head == Header(f)
<1>1. Layout(f) = (((head \o <<m>>) \o entries) \o <<a, t>>) \o tensors
  BY DEF Layout
<1>2. head \in Seq(Pieces(f)) /\ entries \in Seq(Pieces(f)) /\ tensors \in Seq(Pieces(f))
  BY HeaderOrderly, EntriesOrderly, TensorsOrderly DEF Orderly
<1>3. Pieces(f) \subseteq S /\ m \in S /\ a \in S /\ t \in S
  OBVIOUS
<1> HIDE DEF m, a, t, entries, tensors, S, head
<1>4. head \in Seq(S) /\ entries \in Seq(S) /\ tensors \in Seq(S)
  BY <1>2, <1>3
<1>5. head \o <<m>> \in Seq(S) /\ <<a, t>> \in Seq(S)
  BY <1>3, <1>4
<1>6. (head \o <<m>>) \o entries \in Seq(S)
  BY <1>4, <1>5, Joining
<1> DEFINE s == ((head \o <<m>>) \o entries) \o <<a, t>>
<1>7. s \in Seq(S)
  BY <1>5, <1>6, Joining
<1>8. Layout(f) = s \o tensors
  BY <1>1
<1> HIDE DEF s
<1>9. /\ s \o tensors \in Seq(S) /\ Len(s \o tensors) = Len(s) + Len(tensors)
      /\ \A k \in 1 .. Len(tensors) : (s \o tensors)[Len(s) + k] = tensors[k]
  BY <1>4, <1>7, Joining
<1>10. /\ DOMAIN tensors = 1 .. Len(tensors) /\ Len(s) \in Nat /\ Len(tensors) \in Nat
       /\ DOMAIN (s \o tensors) = 1 .. Len(s) + Len(tensors)
  BY <1>4, <1>7, <1>9
<1>11. ASSUME NEW k \in DOMAIN tensors
       PROVE  \E n \in DOMAIN Layout(f) : Layout(f)[n] = tensors[k]
  <2>1. Len(s) + k \in DOMAIN (s \o tensors) /\ (s \o tensors)[Len(s) + k] = tensors[k]
    BY <1>9, <1>10
  <2> QED
    BY <1>8, <2>1
<1> QED
  BY <1>11 DEF tensors

LEMMA ValidTensors ==
    ASSUME NEW f, ProperFile(f), Sound(f), NEW i \in DOMAIN f.tensors
    PROVE  /\ Len(f.tensors[i].dims) \in 1 .. 4
           /\ \A d \in DOMAIN f.tensors[i].dims : f.tensors[i].dims[d] > 0
<1> DEFINE ss == [j \in DOMAIN f.tensors |-> TensorPieces(f, j)]
           all == SX!FlattenSeq(ss)
           n == Len(f.tensors)
           t == f.tensors[i]
           valid == /\ Len(t.dims) \in 1 .. 4
                    /\ \A d \in DOMAIN t.dims : t.dims[d] > 0
                    /\ Elements(t) < Word
<1>1. n \in Nat /\ DOMAIN f.tensors = 1 .. n
  BY DEF ProperFile, Sequence
<1>2. \A j \in DOMAIN f.tensors : ss[j] = TensorPieces(f, j) /\ ss[j] \in Seq(Pieces(f))
  BY TensorOrderly DEF Orderly
<1>3. ss = [j \in DOMAIN f.tensors |-> ss[j]]
  OBVIOUS
<1>4. TensorPieces(f, i)[2].valid = valid /\ Len(TensorPieces(f, i)) = 2
  BY DEF TensorPieces, Piece
<1> HIDE DEF ss, n, valid
<1>5. ss \in Seq(Seq(Pieces(f))) /\ Len(ss) = n
  <2>1. ss = [j \in 1 .. n |-> ss[j]]
    BY <1>1, <1>3
  <2>2. \A j \in 1 .. n : ss[j] \in Seq(Pieces(f))
    BY <1>1, <1>2
  <2> QED
    BY <1>1, <2>1, <2>2, FromFunction
<1>6. i \in 1 .. Len(ss) /\ 2 \in 1 .. Len(ss[i])
  <2>1. ss[i] = TensorPieces(f, i) /\ i \in 1 .. Len(ss)
    BY <1>1, <1>2, <1>5
  <2>2. Len(ss[i]) = 2
    BY <1>4, <2>1
  <2> QED
    BY <2>1, <2>2
<1>7. PICK m \in DOMAIN all : all[m] = ss[i][2]
  BY <1>5, <1>6, FlattenContains
<1>8. PICK k \in DOMAIN Layout(f) : Layout(f)[k] = all[m]
  BY <1>7, LayoutEnds DEF ss
<1>9. DOMAIN Layout(f) = 1 .. Len(Layout(f))
  BY LayoutPieces
<1>10. Layout(f)[k].valid
  BY <1>8, <1>9 DEF Sound, AllValid
<1>11. valid
  BY <1>2, <1>4, <1>7, <1>8, <1>10
<1> QED
  BY <1>11 DEF valid

(* What weight_load fills has as many elements as the tensor, and memory   *)
(* for all of them unless a count of bytes wraps.                          *)
LEMMA LoadedSize ==
    ASSUME ProperFile(file), Sound(file), NEW slot, Convertible(slot)
    PROVE  /\ Loaded(slot).data = <<"weight", slot, 0>> /\ Loaded(slot).owns
           /\ Loaded(slot).ne0 \in Nat \ {0} /\ Loaded(slot).ne1 \in Nat \ {0}
           /\ \/ Loaded(slot).bytes = 4 * (Loaded(slot).ne0 * Loaded(slot).ne1)
              \/ /\ Entry(file.tensors, slot).type = "f32"
                 /\ 4 * (Loaded(slot).ne0 * Loaded(slot).ne1) >= Word
<1> DEFINE t == Entry(file.tensors, slot)
           first == t.dims[1]
           rows == IF Len(t.dims) > 1 THEN t.dims[2] ELSE 1
<1>1. PICK i \in DOMAIN file.tensors : t = file.tensors[i]
  BY EntryFound DEF ProperFile, Convertible
<1>2. t.dims \in Seq(Nat) /\ Len(t.dims) \in 1 .. 4 /\ \A d \in DOMAIN t.dims : t.dims[d] > 0
  BY <1>1, ValidTensors DEF ProperFile
<1>3. Len(t.dims) \in {1, 2}
  <2> DEFINE l == Len(t.dims)
  <2>1. l <= 2 /\ l \in 1 .. 4
    BY <1>2 DEF Convertible
  <2> HIDE DEF l
  <2>2. l \in {1, 2}
    BY <2>1
  <2> QED
    BY <2>2 DEF l
<1>4. first \in Nat \ {0} /\ rows \in Nat \ {0} /\ Elements(t) = first * rows
  <2> HIDE DEF t
  <2>1. DOMAIN t.dims = 1 .. Len(t.dims)
    <3> DEFINE dims == t.dims
    <3>1. dims \in Seq(Nat)
      BY <1>2
    <3> HIDE DEF dims
    <3> QED
      BY <3>1 DEF dims
  <2>2. CASE Len(t.dims) = 1
    <3>1. Elements(t) = t.dims[1] /\ t.dims[1] \in Nat \ {0} /\ rows = 1
      BY <1>2, <2>1, <2>2, ElementsIs
    <3> QED
      BY <3>1
  <2>3. CASE Len(t.dims) = 2
    <3>1. /\ Elements(t) = t.dims[1] * t.dims[2] /\ t.dims[1] \in Nat \ {0}
          /\ t.dims[2] \in Nat \ {0} /\ rows = t.dims[2]
      BY <1>2, <2>1, <2>3, ElementsIs
    <3> QED
      BY <3>1
  <2> QED
    BY <1>3, <2>2, <2>3
<1> DEFINE all == 4 * (first * rows)
           bytes == all % Word
<1>5. Loaded(slot) = [data |-> <<"weight", slot, 0>>, bytes |-> bytes, owns |-> TRUE,
                      ne0 |-> first, ne1 |-> rows]
  BY <1>4 DEF Loaded
<1>6. all \in Nat
  <2> HIDE DEF first, rows
  <2>1. first * rows \in Nat
    BY <1>4
  <2> QED
    BY <2>1
<1>7. bytes = all \/ (t.type = "f32" /\ all >= Word)
  <2>1. CASE all < Word
    <3> HIDE DEF all
    <3> QED
      BY <1>6, <2>1, SmallRemainder, InputAssumption
  <2>2. CASE all >= Word
    BY <1>4, <2>2 DEF Convertible, Overruns
  <2> QED
    BY <1>6, <2>1, <2>2, InputAssumption
<1> HIDE DEF first, rows, bytes
<1>8. /\ Loaded(slot).data = <<"weight", slot, 0>> /\ Loaded(slot).owns
      /\ Loaded(slot).ne0 = first /\ Loaded(slot).ne1 = rows /\ Loaded(slot).bytes = bytes
  BY <1>5
<1> QED
  BY <1>4, <1>7, <1>8

----------------------------------------------------------------------------
(* The shapes that the forward pass indexes are those that were compared,  *)
(* but for three times the embedding length when it wraps.                 *)
LEMMA ShapeIs ==
    ASSUME NEW blocks, NEW slot \in Slots(blocks), NEW k,
           slot[1] \in {"attn_qkv_w", "attn_qkv_b"} => (3 * k.c) % Word32 = 3 * k.c
    PROVE  Shape(slot[1], k) = <<Width(slot[1], k), Rows(slot[1], k)>>
<1> DEFINE name == slot[1]
<1>1. name \in LayerNames \cup {"token_embd", "position_embd", "output", "output_norm_w", "output_norm_b"}
  <2>1. CASE slot \in GlobalSlots
    BY <2>1 DEF GlobalSlots
  <2>2. CASE slot \notin GlobalSlots
    BY <2>2, SlotNames DEF Slots
  <2> QED
    BY <2>1, <2>2
<1> HIDE DEF name
<1>2. CASE name \in {"attn_norm_w", "attn_norm_b", "attn_out_b", "ffn_norm_w", "ffn_norm_b",
                     "ffn_down_b", "output_norm_w", "output_norm_b"}
  <2>1. Shape(name, k) = <<k.c, 1>> /\ Width(name, k) = k.c /\ Rows(name, k) = 1
    BY <1>2 DEF Shape, Width, Rows
  <2> QED
    BY <2>1 DEF name
<1>3. CASE name = "attn_qkv_b"
  <2>0. (3 * k.c) % Word32 = 3 * k.c
    BY <1>3 DEF name
  <2>1. Shape(name, k) = <<3 * k.c, 1>> /\ Width(name, k) = 3 * k.c /\ Rows(name, k) = 1
    BY <1>3, <2>0 DEF Shape, Width, Rows
  <2> QED
    BY <2>1 DEF name
<1>4. CASE name = "ffn_up_b"
  <2>1. Shape(name, k) = <<k.f, 1>> /\ Width(name, k) = k.f /\ Rows(name, k) = 1
    BY <1>4 DEF Shape, Width, Rows
  <2> QED
    BY <2>1 DEF name
<1>5. CASE name = "attn_qkv_w"
  <2>0. (3 * k.c) % Word32 = 3 * k.c
    BY <1>5 DEF name
  <2>1. Shape(name, k) = <<k.c, 3 * k.c>> /\ Width(name, k) = k.c /\ Rows(name, k) = 3 * k.c
    BY <1>5, <2>0 DEF Shape, Width, Rows
  <2> QED
    BY <2>1 DEF name
<1>6. CASE name = "attn_out_w"
  <2>1. Shape(name, k) = <<k.c, k.c>> /\ Width(name, k) = k.c /\ Rows(name, k) = k.c
    BY <1>6 DEF Shape, Width, Rows
  <2> QED
    BY <2>1 DEF name
<1>7. CASE name = "ffn_up_w"
  <2>1. Shape(name, k) = <<k.c, k.f>> /\ Width(name, k) = k.c /\ Rows(name, k) = k.f
    BY <1>7 DEF Shape, Width, Rows
  <2> QED
    BY <2>1 DEF name
<1>8. CASE name = "ffn_down_w"
  <2>1. Shape(name, k) = <<k.f, k.c>> /\ Width(name, k) = k.f /\ Rows(name, k) = k.c
    BY <1>8 DEF Shape, Width, Rows
  <2> QED
    BY <2>1 DEF name
<1>9. CASE name = "position_embd"
  <2>1. Shape(name, k) = <<k.c, k.context>> /\ Width(name, k) = k.c /\ Rows(name, k) = k.context
    BY <1>9 DEF Shape, Width, Rows
  <2> QED
    BY <2>1 DEF name
<1>10. CASE name \in {"token_embd", "output"}
  <2>1. Shape(name, k) = <<k.c, k.vocab>> /\ Width(name, k) = k.c /\ Rows(name, k) = k.vocab
    BY <1>10 DEF Shape, Width, Rows
  <2> QED
    BY <2>1 DEF name
<1> QED
  BY <1>1, <1>2, <1>3, <1>4, <1>5, <1>6, <1>7, <1>8, <1>9, <1>10 DEF LayerNames

(* The file, the options and the machine do not change.                    *)
LEMMA InputStays ==
    ASSUME [Next \/ Exited]_vars
    PROVE  UNCHANGED <<file, options, machine>>
<1>1. ModelStep => file' = file
  BY DEF ModelStep, ModelNext, ConfigRefused, ReadConfig, LoadWeight, LoadWeightFails,
              CountVocabulary, AllocateLayers, Expect, ExpectFails, LoadOutput, LoadOutputFails,
              TieOutput, AllocateCaches, CachesRefused, CachesFatal, LoadFaults, LoadInto, LoadFails, Goes,
              processVars
<1>2. FileStep => file' = file
  BY DEF FileStep, FileNext, OpenRefused, Open, MapRefused, MapFile, ReadPiece, ReadFails,
              Opened, RangesOutside, OpenFails
<1>3. ASSUME Answered \/ ParseOptions \/ Inspect \/ NoTokenizer \/ Tokenize \/ TokenizeFails
           \/ NoDeviceTaken \/ BackendRefused \/ Attach \/ AttachFails \/ Session
           \/ InitTokenizer \/ CreateBackend
      PROVE  file' = file
  BY <1>3 DEF Answered, ParseOptions, Inspect, NoTokenizer, Tokenize, TokenizeFails,
              NoDeviceTaken, BackendRefused, Attach, AttachFails, Session, InitTokenizer,
              CreateBackend
<1>4. ASSUME EndModel \/ EndFile \/ Return \/ EndTokenizer \/ EndBackend
      PROVE  file' = file
  BY <1>4 DEF EndModel, EndFile, Return, EndTokenizer, EndBackend, Released
<1>5. CASE Next
  <2>1. UNCHANGED <<options, machine>>
    BY <1>5 DEF Next
  <2>2. file' = file
    <3>1. CASE Move
      BY <1>1, <1>2, <1>3, <1>4, <3>1 DEF Move
    <3>2. CASE TokenizerStep \/ BackendStep
      BY <1>3, <1>4, <3>2 DEF TokenizerStep, BackendStep
    <3> QED
      BY <1>5, <3>1, <3>2 DEF Next
  <2> QED
    BY <2>1, <2>2
<1>6. CASE UNCHANGED vars
  BY <1>6 DEF vars, processVars
<1> QED
  BY <1>5, <1>6 DEF Exited

LEMMA InputInvHolds == Spec => []InputInv
<1>1. Init => InputInv
  BY DEF Init, InputInv
<1>2. InputInv /\ [Next \/ Exited]_vars => InputInv'
  BY InputStays DEF InputInv
<1> QED
  BY <1>1, <1>2, PTL DEF Spec

(* gguf_open opens every well-formed file, and no other one but for a      *)
(* tensor whose sum of offsets or of bytes passes 2^64: for every file, of *)
(* any size, number of entries, number of tensors and alignment, with any  *)
(* offsets and dimensions.                                                 *)
THEOREM OpensWellFormedAlways == Spec => []OpensWellFormed
<1>1. ASSUME ProgramInv, OpenInv, InputInv PROVE OpensWellFormed
  <2> DEFINE b == Begins(file)
             t(i) == file.tensors[i]
  <2>1. ProperFile(file) /\ file.size \in Nat /\ 2 * file.size < Word
    BY <1>1, InputAssumption DEF ProgramInv, FileInv, ProperFile, InputInv
  <2>2. b \in Nat /\ FirstMultiple(Declared) = b
    BY <2>1, TotalIs, StartIs
  <2>3. \A i \in DOMAIN file.tensors : t(i).dims \in Seq(Nat) /\ t(i).offset \in Nat
    BY <2>1, InputAssumption DEF ProperFile
  <2>4. ASSUME Sound(file)
        PROVE  /\ PiecesWellFormed
               /\ \A i \in DOMAIN file.tensors :
                     Stored(t(i)) > 0 => InFile(t(i), b) \/ Wraps(t(i), b)
    <3>1. PiecesWellFormed
      BY <2>1, <2>4, StartIs DEF Sound, AllLie
    <3>2. \A i \in DOMAIN file.tensors : Lies(t(i), b, file.size)
      BY <2>4 DEF Sound, AllLie
    <3> QED
      BY <2>1, <2>2, <2>3, <3>1, <3>2, LiesInFile
  <2>5. ASSUME WellFormed PROVE Sound(file)
    <3>1. /\ PiecesWellFormed
          /\ \A i \in DOMAIN file.tensors : Stored(t(i)) > 0 => InFile(t(i), b)
      BY <2>2, <2>5 DEF WellFormed
    <3>2. \A i \in DOMAIN file.tensors : Lies(t(i), b, file.size)
      BY <2>1, <2>2, <2>3, <3>1, InFileLies
    <3> QED
      BY <2>1, <3>1, <3>2, StartIs DEF Sound, AllLie
  <2>6. (IsOpen => Sound(file)) /\ (cause = "file" => ~Sound(file))
    BY <1>1 DEF OpenInv, IsOpen
  <2> HIDE DEF b
  <2> QED
    BY <2>2, <2>4, <2>5, <2>6 DEF OpensWellFormed
<1> QED
  BY <1>1, ProgramInvHolds, OpenInvHolds, InputInvHolds, PTL

LEMMA Positive ==
    ASSUME NEW a \in Nat \ {0}, NEW b \in Nat \ {0}
    PROVE  a * b \in Nat \ {0}
OBVIOUS

(* A model in use is a loaded one.                                         *)
LEMMA InUse ==
    ASSUME ProgramInv, OpenInv, LoadInv, InModel
    PROVE  /\ ProperFile(file) /\ Sound(file) /\ IsConfig(cfg)
           /\ heap = FileHeap(fields) \cup HeldByModel \cup Others
           /\ plan = <<>> /\ DOMAIN weights = Slots(cfg.blocks)
           /\ kv_elements = cfg.blocks * cfg.context * cfg.c
           /\ \A slot \in Slots(cfg.blocks) : Filled(slot) /\ AsExpected(slot)
           /\ cfg.c = Number(file, "embedding_length") /\ HasU32(file, "embedding_length")
<1>1. /\ plan = <<>> /\ IsConfig(cfg) /\ DOMAIN weights = Slots(cfg.blocks)
      /\ kv_elements = cfg.blocks * cfg.context * cfg.c
      /\ cfg.c = Number(file, "embedding_length") /\ HasU32(file, "embedding_length")
  BY DEF LoadInv
<1>2. \A slot : ~Fetches(plan, slot) /\ ~Compares(plan, slot)
  BY <1>1 DEF Fetches, Compares
<1>3. \A slot \in Slots(cfg.blocks) : Filled(slot) /\ AsExpected(slot)
  BY <1>2 DEF LoadInv
<1>4. Sound(file)
  BY DEF OpenInv, Ready, WithTokenizer, WithModel, WithBackend, InModel
<1>5. ProperFile(file) /\ heap = FileHeap(fields) \cup HeldByModel \cup Others
  BY DEF ProgramInv, FileInv, HeapInv, InModel
<1> QED
  BY <1>1, <1>3, <1>4, <1>5

(* Where a weight comes from: a tensor of the file, in memory the model    *)
(* owns.                                                                   *)
LEMMA WeightInUse ==
    ASSUME ProgramInv, OpenInv, LoadInv, InModel, NEW slot \in Slots(cfg.blocks)
    PROVE  LET w == weights[slot]
           IN  /\ w.data \in heap /\ w.ne0 \in Nat \ {0} /\ w.ne1 \in Nat \ {0}
               /\ w.bytes = 4 * (w.ne0 * w.ne1) \/ MemoryWraps(w)
<1> DEFINE w == weights[slot]
<1>1. /\ ProperFile(file) /\ Sound(file) /\ DOMAIN weights = Slots(cfg.blocks)
      /\ HeldByModel \subseteq heap /\ \A s \in Slots(cfg.blocks) : Filled(s)
  BY InUse
<1>2. ASSUME NEW s \in Slots(cfg.blocks), FromFile(s)
      PROVE  /\ weights[s].data \in heap /\ weights[s].data = <<"weight", s, 0>>
             /\ Loaded(s).ne0 \in Nat \ {0} /\ Loaded(s).ne1 \in Nat \ {0}
             /\ weights[s].bytes = 4 * (weights[s].ne0 * weights[s].ne1)
                  \/ MemoryWraps(weights[s])
  <2>1. Convertible(s) /\ weights[s] = Loaded(s)
    BY <1>2 DEF FromFile
  <2>2. /\ Loaded(s).data = <<"weight", s, 0>> /\ Loaded(s).owns
        /\ Loaded(s).ne0 \in Nat \ {0} /\ Loaded(s).ne1 \in Nat \ {0}
        /\ \/ Loaded(s).bytes = 4 * (Loaded(s).ne0 * Loaded(s).ne1)
           \/ /\ Entry(file.tensors, s).type = "f32"
              /\ 4 * (Loaded(s).ne0 * Loaded(s).ne1) >= Word
    BY <1>1, <2>1, LoadedSize
  <2>3. weights[s].data \in OwnedByModel
    BY <1>1, <2>1, <2>2 DEF OwnedByModel
  <2>4. weights[s].data \in heap
    BY <1>1, <2>3 DEF HeldByModel
  <2>5. Loaded(s).data[2] = s
    BY <2>2
  <2> QED
    BY <2>1, <2>2, <2>4, <2>5 DEF MemoryWraps
<1>3. CASE FromFile(slot)
  <2>1. w = Loaded(slot) /\ w.data[2] = slot
    BY <1>2, <1>3 DEF FromFile
  <2> QED
    BY <1>2, <1>3, <2>1
<1>4. CASE ~FromFile(slot)
  <2>1. Tied(slot)
    BY <1>1, <1>4 DEF Filled
  <2>2. Token \in Slots(cfg.blocks) /\ ~Tied(Token)
    BY SlotNames DEF Tied, Token
  <2>3. FromFile(Token) /\ weights[Token] = Loaded(Token)
    BY <1>1, <2>2 DEF Filled, FromFile
  <2>4. IsWeight(Loaded(Token))
    BY <1>1, <2>2, <2>3 DEF Loaded, IsWeight
  <2>5. /\ w.data = Loaded(Token).data /\ w.ne0 = Loaded(Token).ne0 /\ w.ne1 = Loaded(Token).ne1
        /\ w.bytes = Loaded(Token).bytes
    BY <2>1, <2>4 DEF Tied, IsWeight
  <2>6. w.data = <<"weight", Token, 0>> /\ w.data[2] = Token /\ w.data \in heap
    BY <1>2, <2>2, <2>3, <2>5
  <2> QED
    BY <1>2, <2>2, <2>3, <2>5, <2>6 DEF MemoryWraps
<1> QED
  BY <1>3, <1>4

(* The forward pass indexes memory of the size it takes it to have: every  *)
(* weight, the output matrix too when it is the embedding matrix, and both *)
(* caches, for every file gpt2_load accepts and every number of blocks.    *)
(* The exceptions are part of the property: what gpt2.c:172 counts in 32   *)
(* bits and gpt2.c:46 in 64 is less when it wraps, and nothing else is.    *)
THEOREM ModelUsableAlways == Spec => []ModelUsable
<1>1. ASSUME ProgramInv, OpenInv, LoadInv PROVE ModelUsable
  <2> SUFFICES ASSUME InModel PROVE ModelUsable
    BY DEF ModelUsable, InModel
  <2>1. /\ IsConfig(cfg) /\ DOMAIN weights = Slots(cfg.blocks)
        /\ kv_elements = cfg.blocks * cfg.context * cfg.c /\ HeldByModel \subseteq heap
        /\ \A slot \in Slots(cfg.blocks) : AsExpected(slot)
    BY <1>1, InUse
  <2>2. cfg.c \in Nat \ {0} /\ cfg.blocks \in Nat \ {0} /\ cfg.context \in Nat \ {0}
    BY <2>1 DEF IsConfig
  <2>3. ASSUME NEW slot \in Slots(cfg.blocks), ~ShapeWraps(slot)
        PROVE  weights[slot].ne0 = Width(slot[1], cfg) /\ weights[slot].ne1 = Rows(slot[1], cfg)
    <3>1. slot[1] \in {"attn_qkv_w", "attn_qkv_b"} => (3 * cfg.c) % Word32 = 3 * cfg.c
      <4> SUFFICES ASSUME slot[1] \in {"attn_qkv_w", "attn_qkv_b"}
                   PROVE  (3 * cfg.c) % Word32 = 3 * cfg.c
        OBVIOUS
      <4>1. ~(3 * cfg.c >= Word32)
        BY <2>3 DEF ShapeWraps
      <4>2. 3 * cfg.c \in Nat /\ 3 * cfg.c < Word32
        BY <2>2, <4>1, Word32Assumption
      <4> QED
        BY <4>2, SmallRemainder, Word32Assumption
    <3>2. <<weights[slot].ne0, weights[slot].ne1>> = <<Width(slot[1], cfg), Rows(slot[1], cfg)>>
      BY <2>1, <3>1, ShapeIs DEF AsExpected
    <3> QED
      BY <3>2
  <2>4. ASSUME NEW slot \in Slots(cfg.blocks)
        PROVE  /\ weights[slot].data \in heap
               /\ weights[slot].bytes = 4 * (weights[slot].ne0 * weights[slot].ne1)
                    \/ MemoryWraps(weights[slot])
    BY <1>1, WeightInUse
  <2>5. Buffers \subseteq heap
    <3>1. cfg.blocks * cfg.context \in Nat \ {0}
      BY <2>2, Positive
    <3>2. (cfg.blocks * cfg.context) * cfg.c \in Nat \ {0}
      BY <2>2, <3>1, Positive
    <3>3. kv_elements > 0
      BY <2>1, <3>2
    <3> QED
      BY <2>1, <3>3 DEF HeldByModel
  <2> QED
    BY <2>1, <2>3, <2>4, <2>5 DEF ModelUsable
<1> QED
  BY <1>1, ProgramInvHolds, OpenInvHolds, LoadInvHolds, PTL

----------------------------------------------------------------------------
(* What the session finds.                                                 *)
LEMMA TokensElsewhere ==
    ASSUME TokenInv, file' = file, vocabulary' = vocabulary,
           stage' \in WithTokenizer => stage \in WithTokenizer
    PROVE  TokenInv'
BY DEF TokenInv, HasTokens, ReadVocabulary, EosOfFile, EosByName

LEMMA DeviceElsewhere ==
    ASSUME DeviceInv, UNCHANGED <<options, machine, device>>,
           stage' \in WithBackend => stage \in WithBackend,
           cause' = "device" => cause = "device"
    PROVE  DeviceInv'
BY DEF DeviceInv

LEMMA StepTokenInv == TokenInv /\ [Next \/ Exited]_vars => TokenInv'
<1> SUFFICES ASSUME TokenInv, [Next \/ Exited]_vars PROVE TokenInv'
  OBVIOUS
<1> USE InputStays DEF WithTokenizer, WithModel, WithBackend
<1>1. CASE ModelStep /\ vocabulary' = vocabulary
  <2>1. stage = "load"
    BY <1>1 DEF ModelStep, ModelNext, ConfigRefused, ReadConfig, LoadWeight, LoadWeightFails,
                CountVocabulary, AllocateLayers, Expect, ExpectFails, LoadOutput, LoadOutputFails,
                TieOutput, AllocateCaches, CachesRefused, CachesFatal, LoadFaults, Loading
  <2> QED
    BY <1>1, <2>1, TokensElsewhere
<1>2. CASE FileStep /\ vocabulary' = vocabulary
  <2>1. stage' \in {"map", "read", "inspect", "exited"}
    BY <1>2 DEF FileStep, FileNext, OpenRefused, Open, MapRefused, MapFile, ReadPiece, ReadFails,
                Opened, RangesOutside, OpenFails
  <2> QED
    BY <1>2, <2>1, TokensElsewhere
<1>3. CASE /\ \/ Answered \/ ParseOptions \/ Inspect \/ NoTokenizer \/ TokenizeFails
              \/ NoDeviceTaken \/ BackendRefused \/ AttachFails \/ Session \/ Return
           /\ vocabulary' = vocabulary
  <2>1. stage' \in {"ending", "open", "tokenizer", "exited"}
    BY <1>3 DEF Answered, ParseOptions, Inspect, NoTokenizer, TokenizeFails, NoDeviceTaken,
                BackendRefused, AttachFails, Session, Return, End, Go
  <2> QED
    BY <1>3, <2>1, TokensElsewhere
<1>4. CASE (Tokenize \/ Attach \/ CreateBackend) /\ vocabulary' = vocabulary
  <2>1. stage \in WithTokenizer
    BY <1>4 DEF Tokenize, Attach, CreateBackend
  <2> QED
    BY <1>4, <2>1, TokensElsewhere
<1>5. CASE EndModel \/ EndFile \/ EndTokenizer \/ EndBackend
  <2>1. stage' = "ending"
    BY <1>5 DEF EndModel, EndFile, EndTokenizer, EndBackend, Ending, Released
  <2> QED
    BY <2>1 DEF TokenInv
<1>6. CASE InitTokenizer
  <2>1. HasTokens /\ vocabulary' = ReadVocabulary /\ file' = file
    BY <1>6 DEF InitTokenizer
  <2> QED
    BY <2>1 DEF TokenInv, HasTokens, ReadVocabulary, EosOfFile, EosByName
<1>7. CASE UNCHANGED vars
  BY <1>7, TokensElsewhere DEF vars, processVars
<1> QED
  BY <1>1, <1>2, <1>3, <1>4, <1>5, <1>6, <1>7 DEF Next, Move, TokenizerStep, BackendStep, Exited

LEMMA StepDeviceInv == DeviceInv /\ [Next \/ Exited]_vars => DeviceInv'
<1> SUFFICES ASSUME DeviceInv, [Next \/ Exited]_vars PROVE DeviceInv'
  OBVIOUS
<1>0. UNCHANGED <<options, machine>>
  BY InputStays
<1> USE DEF WithBackend
<1>1. CASE ModelStep /\ device' = device
  <2>1. stage' \notin WithBackend /\ (cause' = "device" => cause = "device")
    BY <1>1 DEF ModelStep, ModelNext, ConfigRefused, ReadConfig, LoadWeight, LoadWeightFails,
                CountVocabulary, AllocateLayers, Expect, ExpectFails, LoadOutput, LoadOutputFails,
                TieOutput, AllocateCaches, CachesRefused, CachesFatal, LoadFaults, Loading, LoadInto, LoadFails,
                Goes, processVars
  <2> QED
    BY <1>0, <1>1, <2>1, DeviceElsewhere
<1>2. CASE FileStep /\ device' = device
  <2>1. stage' \notin WithBackend /\ (cause' = "device" => cause = "device")
    BY <1>2 DEF FileStep, FileNext, OpenRefused, Open, MapRefused, MapFile, ReadPiece, ReadFails,
                Opened, RangesOutside, OpenFails
  <2> QED
    BY <1>0, <1>2, <2>1, DeviceElsewhere
<1>3. CASE /\ \/ Answered \/ ParseOptions \/ Inspect \/ NoTokenizer \/ Tokenize \/ TokenizeFails
              \/ BackendRefused \/ AttachFails \/ Session \/ Return
           /\ device' = device
  <2>1. CASE Session
    <3>1. PICK why \in {"done", "session", "usage"} :
                  End(why, <<"model", "backend", "tokenizer", "file">>)
      BY <2>1 DEF Session
    <3> QED
      BY <1>0, <1>3, <3>1, DeviceElsewhere DEF End
  <2>2. Session \/ (stage' \notin WithBackend /\ (cause' = "device" => cause = "device"))
    BY <1>3 DEF Answered, ParseOptions, Inspect, NoTokenizer, Tokenize, TokenizeFails,
                BackendRefused, AttachFails, Return, End, Go
  <2> QED
    BY <1>0, <1>3, <2>1, <2>2, DeviceElsewhere
<1>4. CASE Attach /\ device' = device
  BY <1>0, <1>4, DeviceElsewhere DEF Attach, Go
<1>5. CASE InitTokenizer /\ device' = device
  BY <1>0, <1>5, DeviceElsewhere DEF InitTokenizer, Go
<1>6. CASE NoDeviceTaken /\ device' = device
  <2>1. /\ Taken(machine, options.device) = NoDevice /\ stage' = "ending"
    BY <1>6 DEF NoDeviceTaken, End
  <2> QED
    BY <1>0, <2>1 DEF DeviceInv
<1>7. CASE CreateBackend
  <2>1. /\ Taken(machine, options.device) # NoDevice /\ cause' = cause
        /\ device' = Taken(machine, options.device)
    BY <1>7 DEF CreateBackend, Go
  <2> QED
    BY <1>0, <2>1 DEF DeviceInv
<1>8. CASE EndModel \/ EndFile \/ EndTokenizer \/ EndBackend
  <2>1. stage' = "ending" /\ cause' = cause
    BY <1>8 DEF EndModel, EndFile, EndTokenizer, EndBackend, Ending, Released
  <2> QED
    BY <1>0, <2>1 DEF DeviceInv
<1>9. CASE UNCHANGED vars
  BY <1>9, DeviceElsewhere DEF vars, processVars
<1> QED
  BY <1>1, <1>2, <1>3, <1>4, <1>5, <1>6, <1>7, <1>8, <1>9
     DEF Next, Move, TokenizerStep, BackendStep, Exited

LEMMA TokenInvHolds == Spec => []TokenInv
<1>1. Init => TokenInv
  BY DEF Init, TokenInv, WithTokenizer, WithModel, WithBackend
<1> QED
  BY <1>1, StepTokenInv, PTL DEF Spec

LEMMA DeviceInvHolds == Spec => []DeviceInv
<1>1. Init => DeviceInv
  BY DEF Init, DeviceInv, WithBackend
<1> QED
  BY <1>1, StepDeviceInv, PTL DEF Spec

(* The end of text is a token.                                             *)
LEMMA EosIsToken ==
    ASSUME ProperFile(file), HasTokens
    PROVE  /\ ReadVocabulary.n_tokens \in Nat \ {0}
           /\ ReadVocabulary.has_eos =>
                 ReadVocabulary.eos_id \in 0 .. ReadVocabulary.n_tokens - 1
           /\ Value(file, "tokens").endoftext # {} => ReadVocabulary.has_eos
<1> DEFINE v == Value(file, "tokens")
           n == Len(v.items)
           eos == IF EosOfFile # {} THEN EosOfFile ELSE EosByName
           typed == /\ HasArray(file, "token_type", "int32")
                    /\ Value(file, "token_type").count = n
           found == eos # {}
           id == IF eos = {} THEN 0 ELSE CHOOSE x \in eos : \A k \in eos : x <= k
<1>1. v.type = "array" /\ v.elem = "string" /\ v.items # <<>> /\ Found(file.metadata, "tokens")
  BY DEF HasTokens, HasArray
<1>2. ProperValue(v)
  <2>1. PICK i \in DOMAIN file.metadata : Entry(file.metadata, "tokens") = file.metadata[i]
    BY <1>1, EntryFound DEF ProperFile
  <2>2. v = file.metadata[i].value
    BY <2>1 DEF Value
  <2> QED
    BY <2>2 DEF ProperFile
<1>3. v.items \in Seq(Nat) /\ v.endoftext \subseteq DOMAIN v.items
  BY <1>1, <1>2 DEF ProperValue
<1> HIDE DEF v
<1>4. n \in Nat \ {0} /\ DOMAIN v.items = 1 .. n
  <2> DEFINE items == v.items
  <2>1. items \in Seq(Nat) /\ items # <<>>
    BY <1>1, <1>3
  <2> HIDE DEF items
  <2>2. Len(items) \in Nat \ {0} /\ DOMAIN items = 1 .. Len(items)
    BY <2>1
  <2> QED
    BY <2>2 DEF items
<1> HIDE DEF n
<1>5. EosOfFile \subseteq 0 .. n - 1
  BY <1>4 DEF EosOfFile, n, v
<1>6. EosByName \subseteq 0 .. n - 1 /\ (v.endoftext # {} => EosByName # {})
  <2>1. EosByName = {k - 1 : k \in v.endoftext}
    BY DEF EosByName, v
  <2>2. \A k \in v.endoftext : k \in 1 .. n /\ k - 1 \in 0 .. n - 1
    BY <1>3, <1>4
  <2> QED
    BY <2>1, <2>2
<1>7. eos \subseteq 0 .. n - 1 /\ (v.endoftext # {} => eos # {})
  BY <1>5, <1>6
<1> HIDE DEF eos
<1>8. eos # {} => id \in eos
  <2> SUFFICES ASSUME eos # {} PROVE id \in eos
    OBVIOUS
  <2>1. eos \in SUBSET Nat
    BY <1>4, <1>7
  <2>2. \E x \in eos : \A k \in eos : x <= k
    BY <2>1, LeastNumber
  <2> QED
    BY <2>2
<1>9. ReadVocabulary = [n_tokens |-> n, typed |-> typed, has_eos |-> found, eos_id |-> id]
  BY DEF ReadVocabulary, eos, n, v
<1>10. found <=> eos # {}
  OBVIOUS
<1> HIDE DEF typed, found, id
<1>11. /\ ReadVocabulary.n_tokens = n /\ ReadVocabulary.has_eos = found
       /\ ReadVocabulary.eos_id = id
  BY <1>9
<1>12. n \in Nat \ {0} /\ (found => id \in 0 .. n - 1) /\ (v.endoftext # {} => found)
  BY <1>4, <1>7, <1>8, <1>10
<1> QED
  BY <1>11, <1>12 DEF v

(* Whatever numbers the file gives: no session begins with a size of zero, *)
(* with an end of text that is not a token or on a device nobody asked     *)
(* for, and main reports that there is no device only where none is        *)
(* promised.                                                               *)
THEOREM SessionPreparedAlways == Spec => []SessionPrepared
<1>1. ASSUME ProgramInv, OpenInv, LoadInv, InputInv, TokenInv, DeviceInv PROVE SessionPrepared
  <2>1. ProperMachine(machine) /\ ProperRequest(options.device)
    BY <1>1, RequestAssumption DEF InputInv
  <2>2. cause = "device" /\ machine.build = "acpp" => Promised(machine.devices, options.device) = {}
    BY <1>1, <2>1, TakenIsPromised DEF DeviceInv
  <2>3. stage = "session" => device \in Promised(machine.devices, options.device)
    BY <1>1, <2>1, TakenIsPromised DEF DeviceInv, WithBackend
  <2>4. ASSUME stage = "session" PROVE CompletionAssumed
    <3>1. IsConfig(cfg) /\ ProperFile(file)
      BY <1>1, <2>4, InUse DEF InModel
    <3>2. cfg.context # 0 /\ cfg.blocks # 0
      BY <3>1 DEF IsConfig
    <3>3. cfg.vocab # 0
      <4>1. Token \in Slots(cfg.blocks)
        BY SlotNames
      <4>2. weights[Token].ne1 \in Nat \ {0} /\ AsExpected(Token)
        BY <1>1, <2>4, <4>1, InUse, WeightInUse DEF InModel
      <4>3. Shape("token_embd", cfg) = <<cfg.c, cfg.vocab>>
        BY DEF Shape
      <4>4. <<weights[Token].ne0, weights[Token].ne1>> = <<cfg.c, cfg.vocab>>
        BY <4>2, <4>3 DEF AsExpected, Token
      <4> QED
        BY <4>2, <4>4
    <3>4. HasTokens /\ vocabulary = ReadVocabulary
      BY <1>1, <2>4 DEF TokenInv, WithTokenizer, WithModel, WithBackend
    <3>5. /\ vocabulary.n_tokens \in Nat \ {0}
          /\ vocabulary.has_eos => vocabulary.eos_id \in 0 .. vocabulary.n_tokens - 1
          /\ Value(file, "tokens").endoftext # {} => vocabulary.has_eos
      BY <3>1, <3>4, EosIsToken
    <3> QED
      BY <3>2, <3>3, <3>5 DEF CompletionAssumed
  <2> QED
    BY <2>2, <2>3, <2>4 DEF SessionPrepared
<1> QED
  BY <1>1, ProgramInvHolds, OpenInvHolds, LoadInvHolds, InputInvHolds, TokenInvHolds,
     DeviceInvHolds, PTL
===============================================================================
