------------------------------ MODULE HashTable ------------------------------
(***************************************************************************)
(* The open-addressing hash tables of src/tokenizer.c: vocab_table maps    *)
(* tokens to ids and merge_table maps pairs of symbols to ranks.  Both are *)
(* filled once by tokenizer_init_from_gguf, entry by entry, with linear    *)
(* probing and no deletion, and then only read.  The two differ in nothing *)
(* but their keys.  FNV-1a is any function: the hash of each key is chosen *)
(* in the initial state.                                                   *)
(***************************************************************************)
EXTENDS Naturals, Sequences

CONSTANTS
    Keys,           \* tokens, or pairs of symbols
    Lists,          \* lists of tokens or merges a GGUF file may hold
    NoKey,          \* a merge without a space, which is not inserted
    Missing,        \* what a lookup that returns -1 leaves the caller with
    HashBound       \* hashes are below this

ASSUME HashTableAssumption ==
    /\ NoKey \notin Keys
    /\ Lists \subseteq Seq(Keys \cup {NoKey})
    /\ HashBound \in Nat \ {0}

VARIABLES
    entries, hash,
    capacity,       \* a power of two: & (capacity - 1) is the remainder
    table,          \* slots: [used, key, id]
    next,           \* the entry to insert, counted from 1
    pc,             \* "size", "fill", "insert", "ready" or "lookup"
    key,            \* the key looked up, or NoKey
    slot, start,
    answer

tableVars == <<entries, hash, capacity, table, next, pc, key, slot, start, answer>>

WantedHalf == Len(entries) \div 2                                \* seeded fault
Wanted == 2 * Len(entries) + 1

Slots        == 0 .. capacity - 1
EmptySlot    == [used |-> FALSE, key |-> NoKey, id |-> 0]
Home(k)      == hash[k] % capacity
Following(s) == (s + 1) % capacity

TableInit ==
    /\ entries \in Lists
    /\ hash \in [Keys -> 0 .. HashBound - 1]
    /\ capacity = 1
    /\ table = <<>>
    /\ next = 1
    /\ pc = "size"
    /\ key = NoKey
    /\ slot = 0 /\ start = 0
    /\ answer = Missing

listVars   == <<entries, hash>>
lookupVars == <<key, start, answer>>

----------------------------------------------------------------------------
(* The loops of tokenizer_init_from_gguf, and that of next_power_of_two.   *)

Double ==
    /\ pc = "size" /\ capacity < Wanted
    /\ capacity' = 2 * capacity
    /\ UNCHANGED <<listVars, table, next, pc, slot, lookupVars>>

Allocate ==
    /\ pc = "size" /\ capacity >= Wanted
    /\ table' = [s \in Slots |-> EmptySlot]
    /\ pc' = "fill"
    /\ UNCHANGED <<listVars, capacity, next, slot, lookupVars>>

SkipEntry ==
    /\ pc = "fill" /\ next <= Len(entries)
    /\ entries[next] = NoKey
    /\ next' = next + 1
    /\ UNCHANGED <<listVars, capacity, table, pc, slot, lookupVars>>

BeginInsert ==
    /\ pc = "fill" /\ next <= Len(entries)
    /\ entries[next] # NoKey
    /\ slot' = Home(entries[next])
    /\ pc' = "insert"
    /\ UNCHANGED <<listVars, capacity, table, next, lookupVars>>

ProbeInsertByTwo ==                                             \* seeded fault
    /\ pc = "insert" /\ table[slot].used
    /\ slot' = Following(Following(slot))
    /\ UNCHANGED <<listVars, capacity, table, next, pc, lookupVars>>

ProbeInsert ==
    /\ pc = "insert" /\ table[slot].used
    /\ slot' = Following(slot)
    /\ UNCHANGED <<listVars, capacity, table, next, pc, lookupVars>>

InsertOverDuplicate ==                                          \* seeded fault
    /\ pc = "insert"
    /\ \/ ~table[slot].used
       \/ table[slot].key = entries[next]
    /\ table' = [table EXCEPT ![slot] =
                    [used |-> TRUE, key |-> entries[next], id |-> next - 1]]
    /\ next' = next + 1
    /\ pc' = "fill"
    /\ UNCHANGED <<listVars, capacity, slot, lookupVars>>

Insert ==
    /\ pc = "insert" /\ ~table[slot].used
    /\ table' = [table EXCEPT ![slot] =
                    [used |-> TRUE, key |-> entries[next], id |-> next - 1]]
    /\ next' = next + 1
    /\ pc' = "fill"
    /\ UNCHANGED <<listVars, capacity, slot, lookupVars>>

Filled ==
    /\ pc = "fill" /\ next > Len(entries)
    /\ pc' = "ready"
    /\ UNCHANGED <<listVars, capacity, table, next, slot, lookupVars>>

----------------------------------------------------------------------------
(* vocab_lookup and merge_rank.                                            *)

Lookup(k) ==
    /\ pc = "ready"
    /\ key' = k
    /\ slot' = Home(k) /\ start' = Home(k)
    /\ pc' = "lookup"
    /\ UNCHANGED <<listVars, capacity, table, next, answer>>

Return(value) ==
    /\ answer' = value
    /\ key' = NoKey
    /\ pc' = "ready"

LookupHit ==
    /\ pc = "lookup" /\ table[slot].used
    /\ table[slot].key = key
    /\ Return(table[slot].id)
    /\ UNCHANGED <<listVars, capacity, table, next, slot, start>>

LookupMiss ==
    /\ pc = "lookup" /\ ~table[slot].used
    /\ Return(Missing)
    /\ UNCHANGED <<listVars, capacity, table, next, slot, start>>

(* The end of the loop's body.  A table that is all used would be searched *)
(* once around.                                                            *)
ProbeLookup ==
    /\ pc = "lookup" /\ table[slot].used
    /\ table[slot].key # key
    /\ slot' = Following(slot)
    /\ IF slot' = start THEN Return(Missing)
       ELSE UNCHANGED <<pc, key, answer>>
    /\ UNCHANGED <<listVars, capacity, table, next, start>>

Step ==
    \/ Double \/ Allocate \/ SkipEntry \/ BeginInsert \/ ProbeInsert \/ Insert \/ Filled
    \/ LookupHit \/ LookupMiss \/ ProbeLookup

TableNext == (\E k \in Keys : Lookup(k)) \/ Step

TableSpec == TableInit /\ [][TableNext]_tableVars /\ WF_tableVars(Step)

----------------------------------------------------------------------------
(* Properties.                                                             *)

Used == {s \in DOMAIN table : table[s].used}

(* How many probes lead from slot h to slot s.                             *)
Distance(h, s) == IF s >= h THEN s - h ELSE s + capacity - h

(* A probe sequence has no holes: from the home of a stored key to its     *)
(* slot every slot is used, and no earlier slot holds the same key with a  *)
(* larger id.  A lookup may therefore stop at the first unused slot, and   *)
(* finds the first of equal entries (tokenizer.c 65-142).                  *)
ProbesUnbroken ==
    \A s \in Used : \A t \in DOMAIN table :
        Distance(Home(table[s].key), t) < Distance(Home(table[s].key), s) =>
            /\ t \in Used
            /\ table[t].key = table[s].key => table[t].id < table[s].id

(* The tables answer as the list does, and as at least half of the slots   *)
(* stay free, insertion, which has no other way to stop, finds one: the    *)
(* tables get filled and every lookup returns.                             *)
Meaning == INSTANCE Dictionary WITH
    query <- key,
    ready <- pc \in {"ready", "lookup"}

DictionarySafety == Meaning!Safety
DictionarySpec == Meaning!Spec
===============================================================================
