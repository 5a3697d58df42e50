------------------------- MODULE TokenizerPartsProofs -------------------------
(***************************************************************************)
(* Proofs about two parts of the tokenizer that work by themselves: the    *)
(* hash tables, for any keys and lists and every hash function, and the    *)
(* pre-tokenizer, for every set of texts.                                  *)
(***************************************************************************)
EXTENDS HashTable, PreTokenizer, FiniteSetTheorems, TLAPS

----------------------------------------------------------------------------
(***************************************************************************)
(* The hash tables.                                                        *)
(***************************************************************************)
Slot == [used : BOOLEAN, key : Keys \cup {NoKey}, id : Nat]

TableTypes ==
    /\ entries \in Seq(Keys \cup {NoKey})
    /\ hash \in [Keys -> 0 .. HashBound - 1]
    /\ capacity \in Nat \ {0}
    /\ next \in 1 .. Len(entries) + 1
    /\ pc \in {"size", "fill", "insert", "ready", "lookup"}
    /\ IF pc = "size" THEN DOMAIN table = {} /\ next = 1
       ELSE table \in [Slots -> Slot] /\ capacity >= Wanted

(* The used slots hold the entries inserted so far, one slot each.         *)
Contents ==
    /\ \A s \in Used :
          /\ table[s].id < next - 1
          /\ table[s].key \in Keys
          /\ table[s].key = entries[table[s].id + 1]
    /\ \A s, t \in Used : table[s].id = table[t].id => s = t
    /\ \A i \in 1 .. next - 1 :
          entries[i] # NoKey => \E s \in Used : table[s].id = i - 1

(* An insertion has passed used slots only, a lookup used slots with other *)
(* keys.                                                                   *)
Inserting ==
    pc = "insert" =>
      /\ next <= Len(entries) /\ entries[next] \in Keys
      /\ slot \in Slots
      /\ \A t \in Slots :
            Distance(Home(entries[next]), t) < Distance(Home(entries[next]), slot)
                => table[t].used

LookingUp ==
    /\ pc \in {"ready", "lookup"} => next = Len(entries) + 1
    /\ IF pc # "lookup" THEN key = NoKey
       ELSE /\ key \in Keys
            /\ slot \in Slots /\ start = Home(key)
            /\ \A t \in Slots :
                  Distance(start, t) < Distance(start, slot) =>
                      table[t].used /\ table[t].key # key

TableInv == TableTypes /\ Contents /\ ProbesUnbroken /\ Inserting /\ LookingUp

----------------------------------------------------------------------------
(* Arithmetic modulo the capacity.                                         *)

LEMMA HomeIsSlot ==
    ASSUME TableTypes, NEW k \in Keys
    PROVE  Home(k) \in Slots
<1>1. hash[k] \in Nat /\ capacity \in Nat \ {0}
  BY HashTableAssumption DEF TableTypes
<1> DEFINE n == hash[k]
<1>2. \A c \in Nat \ {0} : n % c \in 0 .. c - 1
  <2> HIDE DEF n
  <2>1. n \in Nat
    BY <1>1 DEF n
  <2> QED
    BY <2>1
<1> QED
  BY <1>1, <1>2 DEF Home, Slots

LEMMA FollowingIs ==
    ASSUME capacity \in Nat \ {0}, NEW s \in Slots
    PROVE  Following(s) = IF s + 1 = capacity THEN 0 ELSE s + 1
<1>1. \A c \in Nat \ {0}, r \in Nat :
         /\ r + 1 < c => (r + 1) % c = r + 1
         /\ c % c = 0
  OBVIOUS
<1> QED
  BY <1>1 DEF Following, Slots

(* The probe sequence from slot h meets every slot once.                   *)
LEMMA ProbeOrder ==
    ASSUME capacity \in Nat \ {0}, NEW h \in Slots, NEW s \in Slots
    PROVE  /\ Following(s) \in Slots
           /\ Distance(h, h) = 0
           /\ Distance(h, s) \in 0 .. capacity - 1
           /\ \A t \in Slots : Distance(h, s) = Distance(h, t) => s = t
           /\ IF Following(s) = h THEN Distance(h, s) = capacity - 1
              ELSE Distance(h, Following(s)) = Distance(h, s) + 1
BY FollowingIs DEF Slots, Distance

(* So the slots before the next one are the slots before this one, and it. *)
LEMMA ProbeStep ==
    ASSUME capacity \in Nat \ {0}, NEW h \in Slots, NEW s \in Slots, NEW t \in Slots,
           \/ Following(s) = h
           \/ Distance(h, t) < Distance(h, Following(s))
    PROVE  Distance(h, t) < Distance(h, s) \/ t = s
<1>1. Distance(h, t) \in 0 .. capacity - 1
  BY ProbeOrder
<1>2. Distance(h, s) \in 0 .. capacity - 1
  BY ProbeOrder
<1>3. Distance(h, t) <= Distance(h, s)
  BY <1>1, <1>2, ProbeOrder
<1> QED
  BY <1>1, <1>2, <1>3, ProbeOrder

----------------------------------------------------------------------------
LEMMA InitInvariant == TableInit => TableInv
<1> SUFFICES ASSUME TableInit PROVE TableInv
  OBVIOUS
<1>1. TableTypes
  BY HashTableAssumption DEF TableInit, TableTypes
<1>2. Used = {}
  BY DEF TableInit, Used
<1> QED
  BY <1>1, <1>2
  DEF TableInit, TableInv, Contents, ProbesUnbroken, Inserting, LookingUp

(* Steps that leave the slots and what has been inserted alone.            *)
LEMMA SameContents ==
    ASSUME TableInv, UNCHANGED <<listVars, capacity, table, next>>
    PROVE  Contents' /\ ProbesUnbroken'
BY DEF TableInv, Contents, ProbesUnbroken, Used, Distance, Home, listVars

LEMMA Sizing ==
    ASSUME TableInv, Double \/ Allocate
    PROVE  TableInv'
<1>1. Used = {} /\ next = 1
  BY DEF TableInv, TableTypes, Double, Allocate, Used
<1>2. Used' = {}
  BY <1>1 DEF TableInv, TableTypes, Double, Allocate, Used, Slots, EmptySlot
<1>3. TableTypes'
  <2>1. CASE Double
    BY <2>1 DEF TableInv, TableTypes, Double, listVars
  <2>2. CASE Allocate
    <3>1. EmptySlot \in Slot
      BY DEF EmptySlot, Slot
    <3> QED
      BY <2>2, <3>1 DEF TableInv, TableTypes, Allocate, listVars, Slots, Wanted
  <2> QED
    BY <2>1, <2>2
<1>4. next' = 1 /\ pc' \in {"size", "fill"} /\ key' = NoKey
  BY <1>1 DEF TableInv, LookingUp, Double, Allocate, lookupVars
<1> QED
  BY <1>2, <1>3, <1>4
  DEF TableInv, Contents, ProbesUnbroken, Inserting, LookingUp

LEMMA SkippingEntry ==
    ASSUME TableInv, SkipEntry
    PROVE  TableInv'
<1> USE DEF TableInv, SkipEntry
<1>1. TableTypes'
  BY DEF TableTypes, listVars, Slots, Wanted
<1>2. Used' = Used
  BY DEF Used
<1>3. next \in Nat /\ \A s \in Used : table[s].id \in Nat
  BY DEF TableTypes, Used, Slot
<1>4. Contents'
  BY <1>2, <1>3 DEF Contents, listVars
<1>5. ProbesUnbroken'
  BY <1>2 DEF ProbesUnbroken, Distance, Home, listVars
<1> QED
  BY <1>1, <1>4, <1>5 DEF Inserting, LookingUp, lookupVars

LEMMA BeginningInsert ==
    ASSUME TableInv, BeginInsert
    PROVE  TableInv'
<1> USE DEF TableInv, BeginInsert
<1>1. TableTypes'
  BY DEF TableTypes, listVars, Slots, Wanted
<1>2. entries[next] \in Keys
  BY DEF TableTypes
<1>3. Home(entries[next]) \in Slots /\ capacity \in Nat \ {0}
  BY <1>2, HomeIsSlot DEF TableTypes
<1>4. \A t \in Slots : ~(Distance(slot', t) < Distance(slot', slot'))
  BY <1>3, ProbeOrder
<1>5. Inserting'
  BY <1>2, <1>3, <1>4 DEF Inserting, Slots, Distance, Home, listVars
<1> QED
  BY <1>1, <1>5, SameContents DEF LookingUp, lookupVars

LEMMA ProbingInsert ==
    ASSUME TableInv, ProbeInsert
    PROVE  TableInv'
<1> USE DEF TableInv, ProbeInsert
<1> DEFINE h == Home(entries[next])
<1>1. TableTypes'
  BY DEF TableTypes, listVars, Slots, Wanted
<1>2. h \in Slots /\ slot \in Slots /\ capacity \in Nat \ {0} /\ slot' \in Slots
  BY HomeIsSlot, ProbeOrder DEF Inserting, TableTypes
<1>3. ASSUME NEW t \in Slots, Distance(h, t) < Distance(h, slot')
      PROVE  table[t].used
  BY <1>2, <1>3, ProbeStep DEF Inserting
<1>4. Inserting'
  BY <1>2, <1>3 DEF Inserting, Slots, Distance, Home, listVars
<1> QED
  BY <1>1, <1>4, SameContents DEF LookingUp, lookupVars

(* The new slot is the first unused one on the way from its key's home,    *)
(* and its id is larger than all others.                                   *)
LEMMA InsertingEntry ==
    ASSUME TableInv, Insert
    PROVE  TableInv'
<1> USE DEF TableInv, Insert
<1> DEFINE k == entries[next]
           new == [used |-> TRUE, key |-> k, id |-> next - 1]
<1>1. /\ k \in Keys /\ next \in Nat \ {0} /\ next <= Len(entries)
      /\ slot \in Slots /\ slot \notin Used
      /\ table \in [Slots -> Slot] /\ capacity \in Nat \ {0}
      /\ new \in Slot
  BY DEF Inserting, TableTypes, Used, Slot
<1>2. /\ \A s \in Slots : table'[s] = IF s = slot THEN new ELSE table[s]
      /\ table' \in [Slots -> Slot]
      /\ new.used /\ new.key = k /\ new.id = next - 1
  BY <1>1
<1> HIDE DEF new
<1>3. TableTypes'
  <2>1. /\ UNCHANGED <<entries, hash, capacity>> /\ Slots' = Slots /\ Wanted' = Wanted
        /\ next' = next + 1 /\ pc' = "fill" /\ pc # "size"
    BY DEF listVars, Slots, Wanted
  <2>2. TableTypes
    OBVIOUS
  <2> QED
    BY <1>1, <1>2, <2>1, <2>2 DEF TableTypes
<1>4. Used' = Used \cup {slot} /\ Used \subseteq Slots
  BY <1>1, <1>2 DEF Used
<1>5. \A s \in Used : table[s].id \in Nat /\ table[s].id < next - 1 /\ table[s].key \in Keys
  BY <1>1, <1>4 DEF Contents, Slot
<1>6. Contents'
  <2>1. \A s \in Used : s # slot /\ table'[s] = table[s]
    BY <1>1, <1>2, <1>4
  <2>2. table'[slot] = new
    BY <1>1, <1>2
  <2>3. entries' = entries /\ next' = next + 1
    BY DEF listVars
  <2>4. \A s \in Used' : /\ table'[s].id < next' - 1
                         /\ table'[s].key \in Keys
                         /\ table'[s].key = entries[table'[s].id + 1]
    BY <1>1, <1>2, <1>4, <1>5, <2>1, <2>2, <2>3 DEF Contents
  <2>5. \A s, t \in Used' : table'[s].id = table'[t].id => s = t
    BY <1>1, <1>2, <1>4, <1>5, <2>1, <2>2 DEF Contents
  <2>6. ASSUME NEW i \in 1 .. next, k # NoKey, entries[i] # NoKey
        PROVE  \E s \in Used' : table'[s].id = i - 1
    <3>1. CASE i = next
      BY <1>2, <1>4, <2>2, <3>1
    <3>2. CASE i # next
      <4>1. PICK s \in Used : table[s].id = i - 1
        BY <1>1, <2>6, <3>2 DEF Contents
      <4> QED
        BY <1>4, <2>1, <4>1
    <3> QED
      BY <3>1, <3>2
  <2>7. k # NoKey /\ next' - 1 = next
    BY <1>1, <2>3, HashTableAssumption
  <2> QED
    BY <2>3, <2>4, <2>5, <2>6, <2>7 DEF Contents
<1>7. ProbesUnbroken'
  <2> SUFFICES ASSUME NEW s \in Used', NEW t \in Slots,
                      Distance(Home(table'[s].key), t) < Distance(Home(table'[s].key), s)
               PROVE  /\ t \in Used'
                      /\ table'[t].key = table'[s].key => table'[t].id < table'[s].id
    BY <1>2 DEF ProbesUnbroken, Slots, Distance, Home, listVars
  <2>1. s \in Slots /\ Home(table'[s].key) \in Slots
    BY <1>1, <1>2, <1>4, <1>5, HomeIsSlot
  <2>2. t # s
    BY <1>1, <2>1, ProbeOrder
  <2>3. CASE s = slot
    <3>1. t \in Used
      BY <1>1, <1>2, <2>3 DEF Inserting, Used
    <3> QED
      BY <1>1, <1>2, <1>4, <1>5, <2>2, <2>3, <3>1
  <2>4. CASE s # slot
    <3>1. s \in Used /\ table'[s] = table[s]
      BY <1>2, <1>4, <2>1, <2>4
    <3>2. /\ t \in Used
          /\ table[t].key = table[s].key => table[t].id < table[s].id
      BY <1>1, <3>1 DEF ProbesUnbroken
    <3> QED
      BY <1>1, <1>2, <1>4, <3>1, <3>2
  <2> QED
    BY <2>3, <2>4
<1> QED
  BY <1>3, <1>6, <1>7 DEF Inserting, LookingUp, lookupVars

LEMMA Filling ==
    ASSUME TableInv, Filled
    PROVE  TableInv'
<1> USE DEF TableInv, Filled
<1>1. TableTypes' /\ next' = Len(entries') + 1
  BY DEF TableTypes, listVars, Slots, Wanted
<1> QED
  BY <1>1, SameContents DEF Inserting, LookingUp, lookupVars

LEMMA BeginningLookup ==
    ASSUME TableInv, NEW k \in Keys, Lookup(k)
    PROVE  TableInv'
<1> USE DEF TableInv, Lookup
<1>1. TableTypes' /\ next' = Len(entries') + 1
  BY DEF TableTypes, LookingUp, listVars, Slots, Wanted
<1>2. Home(k) \in Slots /\ capacity \in Nat \ {0}
  BY HomeIsSlot DEF TableTypes
<1>3. \A t \in Slots : ~(Distance(start', t) < Distance(start', slot'))
  BY <1>2, ProbeOrder
<1>4. LookingUp'
  BY <1>1, <1>2, <1>3 DEF LookingUp, Slots, Distance, Home, listVars
<1> QED
  BY <1>1, <1>4, SameContents DEF Inserting

LEMMA Answering ==
    ASSUME TableInv, LookupHit \/ LookupMiss
    PROVE  TableInv'
<1> USE DEF TableInv, LookupHit, LookupMiss, Return
<1>1. TableTypes' /\ next' = Len(entries') + 1
  BY DEF TableTypes, LookingUp, listVars, Slots, Wanted
<1> QED
  BY <1>1, SameContents DEF Inserting, LookingUp

LEMMA ProbingLookup ==
    ASSUME TableInv, ProbeLookup
    PROVE  TableInv'
<1> USE DEF TableInv, ProbeLookup
<1>1. TableTypes' /\ next' = Len(entries') + 1
  BY DEF TableTypes, LookingUp, Return, listVars, Slots, Wanted
<1>2. /\ start \in Slots /\ slot \in Slots /\ slot' = Following(slot)
      /\ capacity \in Nat \ {0} /\ slot' \in Slots
  BY HomeIsSlot, ProbeOrder DEF LookingUp, TableTypes
<1>3. CASE slot' = start
  BY <1>1, <1>3, SameContents DEF Inserting, LookingUp, Return
<1>4. CASE slot' # start
  <2>1. ASSUME NEW t \in Slots, Distance(start, t) < Distance(start, slot')
        PROVE  table[t].used /\ table[t].key # key
    BY <1>2, <2>1, ProbeStep DEF LookingUp
  <2>2. LookingUp'
    BY <1>1, <1>2, <1>4, <2>1 DEF LookingUp, Slots, Distance, Home, listVars
  <2> QED
    BY <1>1, <1>4, <2>2, SameContents DEF Inserting
<1> QED
  BY <1>3, <1>4

LEMMA Stuttering ==
    ASSUME TableInv, UNCHANGED tableVars
    PROVE  TableInv'
<1>1. TableTypes' /\ Inserting' /\ LookingUp'
  BY DEF TableInv, TableTypes, Inserting, LookingUp, Slots, Wanted, Distance, Home, tableVars
<1> QED
  BY <1>1, SameContents DEF TableInv, tableVars, listVars

LEMMA TableInvariance == TableSpec => []TableInv
<1>1. TableInv /\ [TableNext]_tableVars => TableInv'
  BY Sizing, SkippingEntry, BeginningInsert, ProbingInsert, InsertingEntry, Filling,
     BeginningLookup, Answering, ProbingLookup, Stuttering DEF TableNext, Step
<1> QED
  BY <1>1, InitInvariant, PTL DEF TableSpec

(* A probe sequence has no holes, and equal keys come in the order of      *)
(* their ids, in tables of every size (tokenizer.c 65-142).                *)
THEOREM ProbesAreUnbroken == TableSpec => []ProbesUnbroken
<1>1. TableInv => ProbesUnbroken
  BY DEF TableInv
<1> QED
  BY <1>1, TableInvariance, PTL

(* next_power_of_two leaves an unused slot, at which insertion, a loop     *)
(* without any other way out, and an unsuccessful lookup stop              *)
(* (tokenizer.c 98-106, 133-141).                                          *)
SlotFree == pc # "size" => \E s \in Slots : ~table[s].used

LEMMA TooManySlots ==
    ASSUME TableInv, pc # "size"
    PROVE  \E s \in Slots : ~table[s].used
<1> SUFFICES ASSUME \A s \in Slots : table[s].used
             PROVE  FALSE
  OBVIOUS
<1> DEFINE ids == 0 .. next - 2
           f == [s \in Slots |-> table[s].id]
<1>1. /\ capacity \in Nat \ {0} /\ capacity >= Wanted
      /\ next \in Nat /\ next - 1 < capacity
      /\ table \in [Slots -> Slot] /\ Used = Slots
  BY DEF TableInv, TableTypes, Wanted, Used
<1>2. f \in [Slots -> ids]
  BY <1>1 DEF TableInv, Contents, Slot
<1>3. IsFiniteSet(Slots) /\ Cardinality(Slots) = capacity
  BY <1>1, FS_Interval DEF Slots
<1>4. IsFiniteSet(ids) /\ Cardinality(ids) < capacity
  <2>1. 0 \in Int /\ next - 2 \in Int
    BY <1>1
  <2>2. /\ IsFiniteSet(ids)
        /\ Cardinality(ids) = IF 0 > next - 2 THEN 0 ELSE next - 2 - 0 + 1
    BY <2>1, FS_Interval
  <2> QED
    BY <1>1, <2>1, <2>2
<1>5. PICK s, t \in Slots : s # t /\ f[s] = f[t]
  <2> HIDE DEF f, ids
  <2> QED
    BY <1>2, <1>3, <1>4, FS_PigeonHole
<1> QED
  BY <1>1, <1>5 DEF TableInv, Contents

THEOREM SlotStaysFree == TableSpec => []SlotFree
<1>1. TableInv => SlotFree
  BY TooManySlots DEF SlotFree
<1> QED
  BY <1>1, TableInvariance, PTL

----------------------------------------------------------------------------
(* Refinement of Dictionary.                                               *)

LEMMA FoundIsFirst ==
    ASSUME TableInv, LookupHit
    PROVE  table[slot].id = Meaning!FirstPosition(key)
<1> DEFINE places == {i \in DOMAIN entries : entries[i] = key}
           first == table[slot].id + 1
<1>1. /\ key \in Keys /\ key # NoKey /\ slot \in Slots /\ start = Home(key)
      /\ start \in Slots /\ capacity \in Nat \ {0}
      /\ table \in [Slots -> Slot] /\ slot \in Used /\ table[slot].key = key
      /\ next = Len(entries) + 1 /\ Len(entries) \in Nat
      /\ DOMAIN entries = 1 .. Len(entries)
      /\ entries \in Seq(Keys \cup {NoKey})
  BY HomeIsSlot, HashTableAssumption DEF TableInv, LookupHit, LookingUp, TableTypes, Used
<1>2. first \in places /\ first \in Nat /\ table[slot].id \in Nat
  BY <1>1 DEF TableInv, Contents, Slot
<1>3. ASSUME NEW i \in places PROVE first <= i
  <2>1. i \in 1 .. next - 1 /\ entries[i] = key
    BY <1>1
  <2>2. PICK s \in Used : table[s].id = i - 1
    BY <1>1, <2>1 DEF TableInv, Contents
  <2>3. table[s].key = key /\ s \in Slots
    BY <1>1, <2>1, <2>2 DEF TableInv, Contents, Used
  <2>4. ~(Distance(start, s) < Distance(start, slot))
    BY <1>1, <2>3 DEF TableInv, LookingUp, LookupHit
  <2>5. CASE s = slot
    BY <2>1, <2>2, <2>5
  <2>6. CASE s # slot
    <3>1. Distance(start, slot) < Distance(start, s)
      <4>1. /\ Distance(start, s) \in 0 .. capacity - 1
            /\ Distance(start, slot) \in 0 .. capacity - 1
            /\ Distance(start, s) # Distance(start, slot)
        BY <1>1, <2>3, <2>6, ProbeOrder
      <4> QED
        BY <2>4, <4>1
    <3>2. table[slot].id < table[s].id
      BY <1>1, <2>2, <2>3, <3>1 DEF TableInv, ProbesUnbroken
    <3> QED
      BY <1>2, <2>1, <2>2, <3>2
  <2> QED
    BY <2>5, <2>6
<1>4. \A i \in places : (\A j \in places : i <= j) => i = first
  BY <1>1, <1>2, <1>3
<1>5. (CHOOSE i \in places : \A j \in places : i <= j) = first
  <2> HIDE DEF places, first
  <2> QED
    BY <1>2, <1>3, <1>4
<1>6. Meaning!FirstPosition(key) = (CHOOSE i \in places : \A j \in places : i <= j) - 1
  <2>1. places # {}
    BY <1>2
  <2> QED
    BY <2>1, Zenon DEF Meaning!FirstPosition
<1>7. first - 1 = table[slot].id
  BY <1>2
<1> HIDE DEF places, first
<1> QED
  BY <1>5, <1>6, <1>7

(* A key whose probe sequence was searched up to slot without success,     *)
(* slot being unused or the last, is in no entry.                          *)
LEMMA MissedIsAbsent ==
    ASSUME TableInv, pc = "lookup",
           \/ ~table[slot].used
           \/ table[slot].key # key /\ Following(slot) = start
    PROVE  Missing = Meaning!FirstPosition(key)
<1>1. /\ key \in Keys /\ key # NoKey /\ slot \in Slots /\ start = Home(key)
      /\ start \in Slots /\ capacity \in Nat \ {0} /\ table \in [Slots -> Slot]
      /\ next = Len(entries) + 1 /\ Len(entries) \in Nat
      /\ DOMAIN entries = 1 .. Len(entries)
  BY HomeIsSlot, HashTableAssumption DEF TableInv, LookingUp, TableTypes
<1>2. ASSUME NEW i \in DOMAIN entries, entries[i] = key
      PROVE  FALSE
  <2>1. PICK s \in Used : table[s].id = i - 1
    BY <1>1, <1>2 DEF TableInv, Contents
  <2>2. table[s].key = key /\ s \in Slots /\ table[s].used
    BY <1>1, <1>2, <2>1 DEF TableInv, Contents, Used
  <2>3. ~(Distance(start, s) < Distance(start, slot)) /\ s # slot
    BY <1>1, <2>2 DEF TableInv, LookingUp
  <2>4. Following(slot) # start
    BY <1>1, <2>2, <2>3, ProbeStep
  <2>5. ~table[slot].used
    BY <2>4
  <2>6. Distance(start, slot) < Distance(start, s)
    <3>1. /\ Distance(start, s) \in 0 .. capacity - 1
          /\ Distance(start, slot) \in 0 .. capacity - 1
          /\ Distance(start, s) # Distance(start, slot)
      BY <1>1, <2>2, <2>3, ProbeOrder
    <3> QED
      BY <2>3, <3>1
  <2>7. slot \in Used
    BY <1>1, <2>1, <2>2, <2>6 DEF TableInv, ProbesUnbroken
  <2> QED
    BY <2>5, <2>7 DEF Used
<1> QED
  BY <1>2 DEF Meaning!FirstPosition

LEMMA RefinementStep ==
    ASSUME TableInv, [TableNext]_tableVars
    PROVE  [Meaning!Next]_Meaning!vars
<1> USE DEF Meaning!vars
<1>1. CASE Double \/ Allocate \/ SkipEntry \/ BeginInsert \/ ProbeInsert \/ Insert
  BY <1>1 DEF Double, Allocate, SkipEntry, BeginInsert, ProbeInsert, Insert,
              listVars, lookupVars
<1>2. CASE Filled
  <2>1. Meaning!TakeIn
    BY <1>2 DEF Filled, Meaning!TakeIn, listVars, lookupVars
  <2> QED
    BY <2>1 DEF Meaning!Next
<1>3. ASSUME NEW k \in Keys, Lookup(k) PROVE Meaning!Next
  <2>1. Meaning!Ask(k)
    BY <1>3 DEF TableInv, LookingUp, Lookup, Meaning!Ask, listVars
  <2> QED
    BY <2>1 DEF Meaning!Next
<1>4. CASE LookupHit \/ LookupMiss \/ (ProbeLookup /\ slot' = start)
  <2>1. key # NoKey /\ pc \in {"ready", "lookup"} /\ pc' = "ready"
    BY <1>4, HashTableAssumption
    DEF TableInv, LookingUp, LookupHit, LookupMiss, ProbeLookup, Return
  <2>2. answer' = Meaning!FirstPosition(key) /\ key' = NoKey /\ entries' = entries
    BY <1>4, FoundIsFirst, MissedIsAbsent
    DEF LookupHit, LookupMiss, ProbeLookup, Return, listVars
  <2>3. Meaning!Reply
    BY <2>1, <2>2 DEF Meaning!Reply
  <2> QED
    BY <2>3 DEF Meaning!Next
<1>5. CASE ProbeLookup /\ slot' # start
  BY <1>5 DEF ProbeLookup, listVars
<1>6. CASE UNCHANGED tableVars
  BY <1>6 DEF tableVars
<1> QED
  BY <1>1, <1>2, <1>3, <1>4, <1>5, <1>6 DEF TableNext, Step

(* Every lookup is answered with the first position of its key in the      *)
(* list, or with a failure when it has none.                               *)
THEOREM RefinesDictionary == TableSpec => DictionarySafety
<1>1. TableInit => Meaning!Init
  BY DEF TableInit, Meaning!Init
<1> QED
  BY <1>1, TableInvariance, RefinementStep, PTL
  DEF TableSpec, DictionarySafety, Meaning!Safety

----------------------------------------------------------------------------
(***************************************************************************)
(* The pre-tokenizer.                                                      *)
(***************************************************************************)
(* The loops' bounds: inside an iteration the piece begun at offset ends   *)
(* at end, the first character of a run always joins it, and a white space *)
(* that is left to the next piece is not the only one.                     *)
Bounds ==
    /\ text \in Seq(Kinds)
    /\ offset \in 0 .. Len(text)
    /\ end \in 0 .. Len(text)
    /\ mode \in {"next", "spaced", "spaces", "run", "done", "failed"}
    /\ pieces \in Seq([from : Nat, to : Nat])
    /\ mode = "done" => offset = Len(text)
    /\ mode = "spaced" => offset < end
    /\ mode = "run" =>
          /\ offset <= end
          /\ offset < Len(text)
          /\ offset = end => ClassAt(offset) = current

SpaceBounds ==
    mode = "spaces" =>
      /\ offset < Len(text)
      /\ ClassAt(offset) = "space"
      /\ whitespace_count \in Nat
      /\ end = offset + whitespace_count
      /\ whitespace_count > 0 => last_whitespace = end - 1

CutInv == Bounds /\ SpaceBounds /\ Tiled

(* What a text is made of stays in Kinds.                                  *)
LEMMA ContractionInside ==
    ASSUME text \in Seq(Kinds), NEW at \in Nat, at < Len(text)
    PROVE  /\ ContractionLength(at) \in Nat
           /\ at + ContractionLength(at) <= Len(text)
BY DEF ContractionLength, Inside

LEMMA EncodeTiles ==
    ASSUME CutInv, NEW to \in Nat, offset < to, to <= Len(text),
           Encode(to), text' = text, UNCHANGED <<current, end, spaceVars>>
    PROVE  CutInv'
<1> USE DEF Encode, CutInv
<1> DEFINE piece == [from |-> offset, to |-> to]
<1>1. /\ piece \in [from : Nat, to : Nat]
      /\ piece.from = offset /\ piece.to = to
  BY DEF Bounds
<1>2. /\ pieces' = Append(pieces, piece)
      /\ pieces \in Seq([from : Nat, to : Nat])
      /\ Len(pieces) \in Nat
      /\ Len(pieces') = Len(pieces) + 1
      /\ pieces'[Len(pieces')] = piece
      /\ \A k \in 1 .. Len(pieces) : pieces'[k] = pieces[k]
      /\ pieces' \in Seq([from : Nat, to : Nat])
      /\ pieces' # <<>>
  <2>1. pieces \in Seq([from : Nat, to : Nat]) /\ pieces' = Append(pieces, piece)
    BY DEF Bounds
  <2> HIDE DEF piece
  <2> QED  BY <2>1, <1>1
<1>3. Bounds'
  BY <1>1, <1>2 DEF Bounds, Inside, Char, ClassAt
<1>4. SpaceBounds'
  BY DEF SpaceBounds
<1>5. Tiled'
  <2>1. offset' = IF pieces' = <<>> THEN 0 ELSE pieces'[Len(pieces')].to
    BY <1>1, <1>2
  <2>2. pieces'[1].from = 0
    <3>1. CASE pieces = <<>>
      BY <3>1, <1>1, <1>2 DEF Tiled
    <3>2. CASE pieces # <<>>
      <4>1. 1 \in 1 .. Len(pieces)
        BY <3>2, <1>2
      <4> QED  BY <3>2, <4>1, <1>2 DEF Tiled
    <3> QED  BY <3>1, <3>2
  <2>3. \A k \in 1 .. Len(pieces') : pieces'[k].from < pieces'[k].to
    <3> TAKE k \in 1 .. Len(pieces')
    <3>1. CASE k \in 1 .. Len(pieces)
      BY <3>1, <1>2 DEF Tiled
    <3>2. CASE k = Len(pieces')
      BY <3>2, <1>1, <1>2
    <3> QED  BY <3>1, <3>2, <1>2
  <2>4. \A k \in 1 .. Len(pieces') - 1 : pieces'[k].to = pieces'[k + 1].from
    <3> TAKE k \in 1 .. Len(pieces') - 1
    <3>1. CASE k + 1 \in 1 .. Len(pieces)
      BY <3>1, <1>2 DEF Tiled
    <3>2. CASE k = Len(pieces)
      BY <3>2, <1>1, <1>2 DEF Tiled
    <3> QED  BY <3>1, <3>2, <1>2
  <2> QED  BY <2>1, <2>2, <2>3, <2>4 DEF Tiled
<1> QED  BY <1>3, <1>4, <1>5

(* The first character of a run is always taken.                           *)
LEMMA RunNotEmpty ==
    ASSUME CutInv, mode \in {"spaced", "run"}, ~RunGoesOn
    PROVE  end \in Nat /\ offset < end /\ end <= Len(text)
BY DEF CutInv, Bounds, RunGoesOn, Inside

LEMMA SpacesNotEmpty ==
    ASSUME CutInv, mode = "spaces", ~SpacesGoOn
    PROVE  /\ SpacesEnd \in Nat
           /\ offset < SpacesEnd
           /\ SpacesEnd <= Len(text)
BY DEF CutInv, Bounds, SpaceBounds, SpacesGoOn, SpacesEnd, Inside

(* The invariant holds of every behaviour.                                 *)
THEOREM CutInvariance == Spec => []CutInv
<1>1. Init => CutInv
  BY TextAssumption DEF Init, CutInv, Bounds, SpaceBounds, Tiled, Kinds
<1>2. CutInv /\ [Next]_vars => CutInv'
  <2> SUFFICES ASSUME CutInv, [Next]_vars PROVE CutInv'
    OBVIOUS
  <2> USE DEF CutInv
  <2>1. CASE Contraction
    <3>1. offset \in Nat /\ offset < Len(text) /\ text \in Seq(Kinds)
      BY <2>1 DEF Contraction, AtNext, Inside, Bounds
    <3> QED  BY <2>1, <3>1, ContractionInside, EncodeTiles
             DEF Contraction, AtNext
  <2>2. CASE BeginSpaced
    BY <2>2 DEF BeginSpaced, AtNext, BlankBeforeRun, Inside, Bounds,
                SpaceBounds, Tiled
  <2>3. CASE BeginSpaces
    BY <2>3 DEF BeginSpaces, AtNext, Inside, Bounds, SpaceBounds, Tiled,
                ClassAt, Char
  <2>4. CASE BeginRun
    BY <2>4 DEF BeginRun, AtNext, Inside, Bounds, SpaceBounds, Tiled,
                ClassAt, Char
  <2>5. CASE ExtendRun
    BY <2>5 DEF ExtendRun, RunGoesOn, Inside, Bounds, SpaceBounds, Tiled,
                ClassAt, Char
  <2>6. CASE EncodeRun
    BY <2>6, RunNotEmpty, EncodeTiles DEF EncodeRun
  <2>7. CASE ExtendSpaces
    <3> USE <2>7 DEF ExtendSpaces
    <3>1. /\ end < Len(text) /\ Len(text) \in Nat
          /\ mode = "spaces" /\ mode' = "spaces"
      BY DEF SpacesGoOn, Inside, Bounds
    <3>2. Bounds'
      BY <3>1 DEF Bounds
    <3>3. SpaceBounds'
      <4>1. /\ whitespace_count \in Nat /\ offset \in Nat
            /\ end = offset + whitespace_count
            /\ offset < Len(text) /\ ClassAt(offset) = "space"
        BY <3>1 DEF Bounds, SpaceBounds
      <4>2. ClassAt(offset)' = "space"
        BY <4>1 DEF ClassAt, Char
      <4> QED  BY <3>1, <4>1, <4>2 DEF SpaceBounds
    <3>4. Tiled'
      BY <3>1 DEF Tiled
    <3> QED  BY <3>2, <3>3, <3>4
  <2>8. CASE EncodeSpaces
    BY <2>8, SpacesNotEmpty, EncodeTiles DEF EncodeSpaces
  <2>9. CASE Finish
    BY <2>9 DEF Finish, Inside, Bounds, SpaceBounds, Tiled
  <2>10. CASE BpeFails
    BY <2>10 DEF BpeFails, Bounds, SpaceBounds, Tiled
  <2>11. CASE UNCHANGED vars
    BY <2>11 DEF vars, Bounds, SpaceBounds, Tiled, ClassAt, Char
  <2> QED
    BY <2>1, <2>2, <2>3, <2>4, <2>5, <2>6, <2>7, <2>8, <2>9, <2>10, <2>11
    DEF Next, Progress
<1> QED
  BY <1>1, <1>2, PTL DEF Spec

(* For every text, the pieces handed to bpe_piece tile what was read of it *)
(* and, at the end, all of it: the encoding of a text is the encoding of   *)
(* its pieces, with nothing lost between them.                             *)
THEOREM PiecesTile == Spec => []Tiled
<1>1. CutInv => Tiled
  BY DEF CutInv
<1> QED
  BY <1>1, CutInvariance, PTL

----------------------------------------------------------------------------
(* What the regular expression matches.                                    *)

LEMMA RunLengthIs ==
    ASSUME text \in Seq(Kinds), NEW at \in 0 .. Len(text), NEW class,
           NEW n \in 0 .. Len(text) - at,
           \A i \in at .. at + n - 1 : ClassAt(i) = class,
           Inside(at + n) => ClassAt(at + n) # class
    PROVE  RunLength(at, class) = n
<1> DEFINE Fits(m) == /\ \A i \in at .. at + m - 1 : ClassAt(i) = class
                      /\ Inside(at + m) => ClassAt(at + m) # class
<1>1. Len(text) \in Nat
  OBVIOUS
<1>2. ASSUME NEW m \in 0 .. Len(text) - at, Fits(m) PROVE m = n
  <2>1. CASE m < n
    <3>1. at + m \in at .. at + n - 1 /\ at + m < Len(text)
      BY <1>1, <2>1
    <3> QED
      BY <1>2, <3>1 DEF Inside
  <2>2. CASE n < m
    <3>1. at + n \in at .. at + m - 1 /\ at + n < Len(text)
      BY <1>1, <2>2
    <3> QED
      BY <1>2, <3>1 DEF Inside
  <2> QED
    BY <1>1, <2>1, <2>2
<1>3. Fits(n)
  OBVIOUS
<1>4. RunLength(at, class) = CHOOSE m \in 0 .. Len(text) - at : Fits(m)
  BY DEF RunLength
<1> HIDE DEF Fits
<1> QED
  BY <1>2, <1>3, <1>4

LEMMA NoRun ==
    ASSUME text \in Seq(Kinds), NEW at \in 0 .. Len(text), NEW class,
           Inside(at) => ClassAt(at) # class
    PROVE  RunLength(at, class) = 0
<1>1. 0 \in 0 .. Len(text) - at /\ at + 0 = at /\ at .. at + 0 - 1 = {}
  OBVIOUS
<1> QED
  BY <1>1, RunLengthIs

(* The first alternative that matches decides.                             *)
LEMMA RegexLengthIs ==
    ASSUME NEW at, NEW k \in 1 .. 6, Alternatives(at)[k] \in Nat \ {0},
           \A j \in 1 .. k - 1 : Alternatives(at)[j] = 0
    PROVE  RegexLength(at) = Alternatives(at)[k]
<1> DEFINE tries == Alternatives(at)
           First(m) == tries[m] > 0 /\ \A j \in 1 .. m - 1 : tries[j] = 0
<1>1. DOMAIN tries = 1 .. 6
  BY DEF Alternatives
<1>2. First(k)
  OBVIOUS
<1>3. ASSUME NEW m \in 1 .. 6, First(m) PROVE m = k
  <2>1. CASE m < k
    BY <1>3, <2>1
  <2>2. CASE k < m
    <3>1. k \in 1 .. m - 1
      BY <2>2
    <3>2. tries[k] = 0
      BY <1>3, <3>1
    <3> QED
      BY <3>2
  <2> QED
    BY <2>1, <2>2
<1>4. RegexLength(at) = tries[CHOOSE m \in DOMAIN tries : First(m)]
  BY DEF RegexLength
<1> HIDE DEF tries, First
<1>5. (CHOOSE m \in DOMAIN tries : First(m)) = k
  BY <1>1, <1>2, <1>3
<1> QED
  BY <1>4, <1>5 DEF tries

LEMMA AlternativesAre ==
    ASSUME NEW at
    PROVE  /\ Alternatives(at)[1] = ContractionLength(at)
           /\ Alternatives(at)[2] = SpacedRunLength(at, "letter")
           /\ Alternatives(at)[3] = SpacedRunLength(at, "digit")
           /\ Alternatives(at)[4] = SpacedRunLength(at, "other")
           /\ Alternatives(at)[5] = SpacesBeforeSpace(at)
           /\ Alternatives(at)[6] = RunLength(at, "space")
BY DEF Alternatives

(* A run of a class that is not white space, with or without a space in    *)
(* front, is what its alternative matches when no contraction is there.    *)
Words == {"letter", "digit", "other"}

LEMMA WordMatches ==
    ASSUME NEW at, NEW class \in Words, ContractionLength(at) = 0,
           SpacedRunLength(at, class) \in Nat \ {0},
           \A other \in Words \ {class} : SpacedRunLength(at, other) = 0
    PROVE  RegexLength(at) = SpacedRunLength(at, class)
<1>1. CASE class = "letter"
  <2>1. \A j \in 1 .. 2 - 1 : Alternatives(at)[j] = 0
    BY AlternativesAre
  <2> QED
    BY <1>1, <2>1, AlternativesAre, RegexLengthIs
<1>2. CASE class = "digit"
  <2>1. SpacedRunLength(at, "letter") = 0
    BY <1>2 DEF Words
  <2>2. \A j \in 1 .. 3 - 1 : Alternatives(at)[j] = 0
    BY <2>1, AlternativesAre
  <2> QED
    BY <1>2, <2>2, AlternativesAre, RegexLengthIs
<1>3. CASE class = "other"
  <2>1. SpacedRunLength(at, "letter") = 0 /\ SpacedRunLength(at, "digit") = 0
    BY <1>3 DEF Words
  <2>2. \A j \in 1 .. 4 - 1 : Alternatives(at)[j] = 0
    BY <2>1, AlternativesAre
  <2> QED
    BY <1>3, <2>2, AlternativesAre, RegexLengthIs
<1> QED
  BY <1>1, <1>2, <1>3 DEF Words

----------------------------------------------------------------------------
(* What each mode says of the characters between offset and end.           *)

AllOf(class, from, to) == \A i \in from .. to - 1 : ClassAt(i) = class

Reading ==
    /\ mode = "spaced" =>
          /\ Char(offset) = "blank" /\ Inside(offset + 1)
          /\ current \in Words /\ ClassAt(offset + 1) = current
          /\ AllOf(current, offset + 1, end)
    /\ mode = "run" =>
          /\ ContractionLength(offset) = 0
          /\ current \in Words /\ ClassAt(offset) = current
          /\ AllOf(current, offset, end)
    /\ mode = "spaces" => ~BlankBeforeRun /\ AllOf("space", offset, end)

Matches(p) ==
    \/ FollowsRegexAt(p)
    \/ ClassAt(p.from) = "other" /\ ContractionLength(p.to) > 0

RegexInv == Reading /\ FollowsRegexButForMarks

LEMMA ClassesAre ==
    ASSUME text \in Seq(Kinds), NEW at \in Nat, Inside(at)
    PROVE  /\ Char(at) \in Kinds
           /\ ClassAt(at) \in Words \cup {"space"}
           /\ ClassAt(at) = "space" <=> Char(at) \in {"blank", "newline"}
           /\ Char(at) = "'" => ClassAt(at) = "other"
<1>1. at + 1 \in 1 .. Len(text) /\ text[at + 1] \in Kinds
  BY DEF Inside
<1> QED
  BY <1>1 DEF Char, ClassAt, Class, Kinds, Words

LEMMA SpacedMatches ==
    ASSUME CutInv, Reading, mode = "spaced", ~RunGoesOn
    PROVE  end - offset = RegexLength(offset)
<1>1. /\ text \in Seq(Kinds) /\ offset \in Nat /\ end \in Nat /\ Len(text) \in Nat
      /\ offset + 1 <= end /\ end <= Len(text) /\ offset + 1 < Len(text)
  BY DEF CutInv, Bounds, Reading, Inside
<1>2. end # offset + 1
  BY <1>1 DEF Reading, RunGoesOn
<1>3. Inside(end) => ClassAt(end) # current
  BY DEF RunGoesOn
<1>4. /\ offset + 1 \in 0 .. Len(text)
      /\ end - (offset + 1) \in 0 .. Len(text) - (offset + 1)
      /\ offset + 1 + (end - (offset + 1)) = end
  BY <1>1
<1>5. RunLength(offset + 1, current) = end - (offset + 1)
  <2>1. \A i \in offset + 1 .. offset + 1 + (end - (offset + 1)) - 1 : ClassAt(i) = current
    BY <1>4 DEF Reading, AllOf
  <2> QED
    BY <1>1, <1>3, <1>4, <2>1, RunLengthIs
<1>6. SpacedRunLength(offset, current) = end - offset
  BY <1>1, <1>2, <1>5 DEF SpacedRunLength, Reading
<1>7. Inside(offset) /\ ClassAt(offset) = "space"
  BY <1>1, ClassesAre DEF Reading, Inside
<1>8. ASSUME NEW class \in Words \ {current} PROVE SpacedRunLength(offset, class) = 0
  <2>1. RunLength(offset + 1, class) = 0
    BY <1>1, <1>4, NoRun DEF Reading
  <2>2. RunLength(offset, class) = 0
    <3>1. offset \in 0 .. Len(text) /\ class # "space"
      BY <1>1 DEF Words
    <3> QED
      BY <1>1, <1>7, <3>1, NoRun
  <2> QED
    BY <2>1, <2>2 DEF SpacedRunLength
<1>9. ContractionLength(offset) = 0
  BY DEF ContractionLength, Reading
<1>10. current \in Words /\ end - offset \in Nat \ {0}
  BY <1>1 DEF Reading
<1> QED
  BY <1>6, <1>8, <1>9, <1>10, WordMatches

LEMMA RunMatches ==
    ASSUME CutInv, Reading, mode = "run", ~RunGoesOn
    PROVE  \/ end - offset = RegexLength(offset)
           \/ ClassAt(offset) = "other" /\ ContractionLength(end) > 0
<1>1. /\ text \in Seq(Kinds) /\ offset \in Nat /\ end \in Nat /\ Len(text) \in Nat
      /\ offset < end /\ end <= Len(text)
  BY RunNotEmpty DEF CutInv, Bounds
<1>2. Inside(offset) /\ ClassAt(offset) = current /\ current \in Words
  BY <1>1 DEF Reading, Inside
<1>3. CASE Inside(end) /\ ClassAt(end) = current
  <2>1. ContractionLength(end) # 0
    BY <1>1, <1>3 DEF RunGoesOn
  <2>2. Char(end) = "'" /\ ContractionLength(end) > 0
    BY <2>1 DEF ContractionLength
  <2>3. ClassAt(end) = "other"
    BY <1>1, <1>3, <2>2, ClassesAre
  <2> QED
    BY <1>2, <1>3, <2>2, <2>3
<1>4. CASE ~(Inside(end) /\ ClassAt(end) = current)
  <2>1. /\ offset \in 0 .. Len(text) /\ end - offset \in 0 .. Len(text) - offset
        /\ offset + (end - offset) = end
    BY <1>1
  <2>2. \A i \in offset .. offset + (end - offset) - 1 : ClassAt(i) = current
    BY <2>1 DEF Reading, AllOf
  <2>3. RunLength(offset, current) = end - offset
    BY <1>1, <1>4, <2>1, <2>2, RunLengthIs
  <2>4. Char(offset) # "blank"
    BY <1>1, <1>2, ClassesAre DEF Words
  <2>5. SpacedRunLength(offset, current) = end - offset
    BY <2>3, <2>4 DEF SpacedRunLength
  <2>6. ASSUME NEW class \in Words \ {current} PROVE SpacedRunLength(offset, class) = 0
    <3>1. RunLength(offset, class) = 0
      BY <1>1, <1>2, <2>1, NoRun
    <3> QED
      BY <2>4, <3>1 DEF SpacedRunLength
  <2>7. ContractionLength(offset) = 0 /\ end - offset \in Nat \ {0}
    BY <1>1 DEF Reading
  <2> QED
    BY <1>2, <2>5, <2>6, <2>7, WordMatches
<1> QED
  BY <1>3, <1>4

LEMMA SpacesMatch ==
    ASSUME CutInv, Reading, mode = "spaces", ~SpacesGoOn
    PROVE  SpacesEnd - offset = RegexLength(offset)
<1> DEFINE n == end - offset
<1>1. /\ text \in Seq(Kinds) /\ offset \in Nat /\ end \in Nat /\ Len(text) \in Nat
      /\ offset < Len(text) /\ offset < end /\ end <= Len(text)
      /\ n = whitespace_count /\ last_whitespace = end - 1
      /\ Inside(offset) /\ ClassAt(offset) = "space"
  BY SpacesNotEmpty DEF CutInv, Bounds, SpaceBounds, SpacesGoOn, SpacesEnd, Inside
<1>2. /\ offset \in 0 .. Len(text) /\ n \in 0 .. Len(text) - offset
      /\ offset + n = end /\ n \in Nat \ {0}
  BY <1>1
<1>3. RunLength(offset, "space") = n
  <2>1. \A i \in offset .. offset + n - 1 : ClassAt(i) = "space"
    BY <1>2 DEF Reading, AllOf
  <2> HIDE DEF n
  <2> QED
    BY <1>1, <1>2, <2>1, RunLengthIs DEF SpacesGoOn
<1>4. ASSUME NEW class \in Words PROVE SpacedRunLength(offset, class) = 0
  <2>1. class # "space"
    BY DEF Words
  <2>2. RunLength(offset, class) = 0
    BY <1>1, <1>2, <2>1, NoRun
  <2>3. CASE Char(offset) = "blank" /\ Inside(offset + 1)
    <3>1. ClassAt(offset + 1) = "space"
      BY <2>3 DEF Reading, BlankBeforeRun
    <3>2. offset + 1 \in 0 .. Len(text)
      BY <1>1
    <3>3. RunLength(offset + 1, class) = 0
      BY <1>1, <2>1, <3>1, <3>2, NoRun
    <3> QED
      BY <2>2, <3>3 DEF SpacedRunLength
  <2> QED
    BY <2>2, <2>3 DEF SpacedRunLength
<1>5. ContractionLength(offset) = 0
  BY <1>1, ClassesAre DEF ContractionLength
<1>6. \A j \in 1 .. 4 : Alternatives(offset)[j] = 0
  BY <1>4, <1>5, AlternativesAre DEF Words
<1>7. SpacesBeforeSpace(offset) = IF ~Inside(end) THEN n ELSE IF n > 1 THEN n - 1 ELSE 0
  BY <1>2, <1>3 DEF SpacesBeforeSpace
<1>8. SpacesEnd = IF Inside(end) /\ n > 1 THEN end - 1 ELSE end
  BY <1>1 DEF SpacesEnd
<1>9. CASE Inside(end) /\ n = 1
  <2>1. SpacesBeforeSpace(offset) = 0
    BY <1>7, <1>9
  <2>2. \A j \in 1 .. 6 - 1 : Alternatives(offset)[j] = 0
    BY <1>6, <2>1, AlternativesAre
  <2>3. RegexLength(offset) = n
    BY <1>2, <1>3, <2>2, AlternativesAre, RegexLengthIs
  <2> QED
    BY <1>1, <1>8, <1>9, <2>3
<1>10. CASE ~(Inside(end) /\ n = 1)
  <2>1. SpacesBeforeSpace(offset) = SpacesEnd - offset /\ SpacesEnd - offset \in Nat \ {0}
    BY <1>1, <1>2, <1>7, <1>8, <1>10
  <2>2. \A j \in 1 .. 5 - 1 : Alternatives(offset)[j] = 0
    BY <1>6
  <2> QED
    BY <2>1, <2>2, AlternativesAre, RegexLengthIs
<1> QED
  BY <1>9, <1>10

LEMMA ContractionMatches ==
    ASSUME NEW at, ContractionLength(at) > 0
    PROVE  ContractionLength(at) = RegexLength(at)
<1>1. ContractionLength(at) \in Nat \ {0}
  BY DEF ContractionLength
<1>2. \A j \in 1 .. 1 - 1 : Alternatives(at)[j] = 0
  OBVIOUS
<1> QED
  BY <1>1, <1>2, AlternativesAre, RegexLengthIs

----------------------------------------------------------------------------
LEMMA SameText ==
    ASSUME text' = text
    PROVE  /\ \A at : ClassAt(at)' = ClassAt(at) /\ Char(at)' = Char(at)
           /\ \A at : Inside(at)' = Inside(at)
           /\ \A at : ContractionLength(at)' = ContractionLength(at)
           /\ \A p : Matches(p)' = Matches(p)
<1>1. \A at : /\ ClassAt(at)' = ClassAt(at) /\ Char(at)' = Char(at)
              /\ Inside(at)' = Inside(at)
              /\ ContractionLength(at)' = ContractionLength(at)
  BY DEF ClassAt, Char, Inside, ContractionLength
<1>2. \A p : Matches(p)' = Matches(p)
  BY DEF Matches, FollowsRegexAt, RegexLength, Alternatives, SpacesBeforeSpace,
         SpacedRunLength, RunLength, ContractionLength, ClassAt, Char, Inside
<1> QED
  BY <1>1, <1>2

LEMMA OldPiecesMatch ==
    ASSUME FollowsRegexButForMarks, text' = text, UNCHANGED pieces
    PROVE  FollowsRegexButForMarks'
BY SameText DEF FollowsRegexButForMarks, Matches

LEMMA EncodeMatches ==
    ASSUME CutInv, RegexInv, NEW to, Encode(to), text' = text,
           Matches([from |-> offset, to |-> to])
    PROVE  RegexInv'
<1>1. Reading'
  BY DEF Encode, Reading
<1>2. pieces \in Seq([from : Nat, to : Nat])
  BY DEF CutInv, Bounds
<1>3. /\ Len(pieces') = Len(pieces) + 1 /\ Len(pieces) \in Nat
      /\ pieces'[Len(pieces) + 1] = [from |-> offset, to |-> to]
      /\ \A k \in 1 .. Len(pieces) : pieces'[k] = pieces[k]
  BY <1>2 DEF Encode
<1>4. ASSUME NEW k \in 1 .. Len(pieces') PROVE Matches(pieces'[k])
  <2>1. CASE k = Len(pieces) + 1
    BY <1>3, <2>1
  <2>2. CASE k # Len(pieces) + 1
    <3>1. k \in 1 .. Len(pieces)
      BY <1>3, <2>2
    <3> QED
      BY <1>3, <3>1 DEF RegexInv, FollowsRegexButForMarks, Matches
  <2> QED
    BY <2>1, <2>2
<1>5. ASSUME NEW k \in 1 .. Len(pieces') PROVE Matches(pieces[k])'
  BY <1>4, SameText
<1>6. FollowsRegexButForMarks'
  BY <1>5 DEF FollowsRegexButForMarks, Matches
<1> QED
  BY <1>1, <1>6 DEF RegexInv

LEMMA StepRegexInv ==
    ASSUME CutInv, RegexInv, [Next]_vars
    PROVE  RegexInv'
<1>1. CASE Contraction
  <2>1. Encode(offset + ContractionLength(offset)) /\ text' = text
    BY <1>1 DEF Contraction
  <2>2. /\ ContractionLength(offset) = RegexLength(offset)
        /\ offset \in Nat /\ ContractionLength(offset) \in Nat
    <3>1. ContractionLength(offset) > 0 /\ offset \in Nat
      BY <1>1 DEF Contraction, CutInv, Bounds
    <3>2. ContractionLength(offset) \in Nat
      BY DEF ContractionLength
    <3> QED
      BY <3>1, <3>2, ContractionMatches
  <2> DEFINE to == offset + ContractionLength(offset)
             p == [from |-> offset, to |-> to]
  <2>3. Matches(p)
    <3>1. to - offset = RegexLength(offset)
      BY <2>2
    <3>2. p.from = offset /\ p.to = to
      OBVIOUS
    <3> QED
      BY <3>1, <3>2 DEF Matches, FollowsRegexAt
  <2> QED
    BY <2>1, <2>3, EncodeMatches
<1>2. CASE BeginSpaced
  <2> USE <1>2 DEF BeginSpaced
  <2>1. offset \in Nat /\ text \in Seq(Kinds)
    BY DEF CutInv, Bounds
  <2>2. ClassAt(offset + 1) \in Words
    BY <2>1, ClassesAre DEF BlankBeforeRun
  <2>3. Reading'
    BY <2>1, <2>2, SameText DEF Reading, BlankBeforeRun, AllOf
  <2> QED
    BY <2>3, OldPiecesMatch DEF RegexInv
<1>3. CASE BeginSpaces
  <2> USE <1>3 DEF BeginSpaces
  <2>1. offset \in Nat /\ text \in Seq(Kinds)
    BY DEF CutInv, Bounds
  <2>2. ~BlankBeforeRun'
    BY <2>1, SameText DEF BlankBeforeRun
  <2>3. Reading'
    BY <2>1, <2>2 DEF Reading, AllOf
  <2> QED
    BY <2>3, OldPiecesMatch DEF RegexInv
<1>4. CASE BeginRun
  <2> USE <1>4 DEF BeginRun
  <2>1. offset \in Nat /\ text \in Seq(Kinds)
    BY DEF CutInv, Bounds
  <2>2. ClassAt(offset) \in Words
    BY <2>1, ClassesAre DEF AtNext
  <2>3. Reading'
    BY <2>1, <2>2, SameText DEF Reading, AllOf
  <2> QED
    BY <2>3, OldPiecesMatch DEF RegexInv
<1>5. CASE ExtendRun
  <2> USE <1>5 DEF ExtendRun
  <2>1. offset \in Nat /\ end \in Nat /\ ClassAt(end) = current
    BY DEF CutInv, Bounds, RunGoesOn
  <2>2. ASSUME NEW from \in Nat, AllOf(current, from, end)
        PROVE  AllOf(current, from, end)'
    <3> SUFFICES ASSUME NEW i \in from .. end PROVE ClassAt(i)' = current
      BY <2>1, SameText DEF AllOf
    <3>1. i = end \/ i \in from .. end - 1
      BY <2>1
    <3> QED
      BY <2>1, <2>2, <3>1, SameText DEF AllOf
  <2>3. mode' = mode /\ current' = current /\ offset' = offset
    OBVIOUS
  <2>4. (mode = "spaced" => AllOf(current, offset + 1, end)')
        /\ (mode = "run" => AllOf(current, offset, end)')
    BY <2>1, <2>2 DEF RegexInv, Reading
  <2>5. Reading'
    <3>1. mode # "spaces"
      OBVIOUS
    <3> QED
      BY <2>3, <2>4, <3>1, SameText DEF RegexInv, Reading, AllOf
  <2> QED
    BY <2>5, OldPiecesMatch DEF RegexInv
<1>6. CASE EncodeRun
  <2>1. Encode(end) /\ text' = text /\ ~RunGoesOn /\ mode \in {"spaced", "run"}
    BY <1>6 DEF EncodeRun
  <2>2. Matches([from |-> offset, to |-> end])
    BY <2>1, SpacedMatches, RunMatches DEF Matches, FollowsRegexAt, RegexInv
  <2> QED
    BY <2>1, <2>2, EncodeMatches
<1>7. CASE ExtendSpaces
  <2> USE <1>7 DEF ExtendSpaces
  <2>1. offset \in Nat /\ end \in Nat /\ ClassAt(end) = "space"
    BY DEF CutInv, Bounds, SpacesGoOn
  <2>2. AllOf("space", offset, end)'
    <3> SUFFICES ASSUME NEW i \in offset .. end PROVE ClassAt(i)' = "space"
      BY <2>1, SameText DEF AllOf
    <3>1. i = end \/ i \in offset .. end - 1
      BY <2>1
    <3> QED
      BY <2>1, <3>1, SameText DEF AllOf, RegexInv, Reading
  <2>3. ~BlankBeforeRun'
    BY SameText DEF BlankBeforeRun, RegexInv, Reading
  <2>4. Reading'
    BY <2>2, <2>3 DEF Reading
  <2> QED
    BY <2>4, OldPiecesMatch DEF RegexInv
<1>8. CASE EncodeSpaces
  <2>1. Encode(SpacesEnd) /\ text' = text /\ ~SpacesGoOn /\ mode = "spaces"
    BY <1>8 DEF EncodeSpaces
  <2>2. Matches([from |-> offset, to |-> SpacesEnd])
    BY <2>1, SpacesMatch DEF Matches, FollowsRegexAt, RegexInv
  <2> QED
    BY <2>1, <2>2, EncodeMatches
<1>9. CASE Finish \/ BpeFails
  <2>1. text' = text /\ pieces' = pieces /\ mode' \in {"done", "failed"}
    BY <1>9 DEF Finish, BpeFails
  <2>2. Reading'
    BY <2>1 DEF Reading
  <2> QED
    BY <2>1, <2>2, OldPiecesMatch DEF RegexInv
<1>10. CASE UNCHANGED vars
  <2>1. /\ text' = text /\ pieces' = pieces /\ mode' = mode /\ offset' = offset
        /\ end' = end /\ current' = current
    BY <1>10 DEF vars
  <2>2. Reading'
    BY <2>1, SameText DEF RegexInv, Reading, AllOf, BlankBeforeRun
  <2> QED
    BY <2>1, <2>2, OldPiecesMatch DEF RegexInv
<1> QED
  BY <1>1, <1>2, <1>3, <1>4, <1>5, <1>6, <1>7, <1>8, <1>9, <1>10 DEF Next, Progress

(* Every piece is what the regular expression of GPT-2 matches at its      *)
(* place, for texts of any length; a run of marks may stop early in front  *)
(* of a contraction, and nothing else differs.                             *)
THEOREM PiecesFollowRegex == Spec => []FollowsRegexButForMarks
<1>1. Init => RegexInv
  BY DEF Init, RegexInv, Reading, FollowsRegexButForMarks
<1>2. RegexInv => FollowsRegexButForMarks
  BY DEF RegexInv
<1>3. CutInv /\ RegexInv /\ [Next]_vars => RegexInv'
  BY StepRegexInv
<1> QED
  BY <1>1, <1>2, <1>3, CutInvariance, PTL DEF Spec
===============================================================================
