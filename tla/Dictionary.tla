------------------------------ MODULE Dictionary ------------------------------
(***************************************************************************)
(* What vocab_lookup and merge_rank promise: a key that occurs in the list *)
(* of tokens or merges is answered with its first position, any other key  *)
(* with a failure.  Positions count from 0, as ids and ranks do.  Whatever *)
(* the list, it is taken in, and every question is answered.               *)
(***************************************************************************)
EXTENDS Naturals, Sequences

CONSTANTS
    Keys,           \* strings that may be looked up
    Lists,          \* lists a GGUF file may hold
    NoKey,          \* an entry that holds no key, and no query at all
    Missing         \* the answer for a key that is not in the list

VARIABLES
    entries,        \* the list
    ready,          \* the list has been taken in
    query,          \* the key being looked up, or NoKey
    answer

FirstPosition(k) ==
    LET places == {i \in DOMAIN entries : entries[i] = k}
    IN  IF places = {} THEN Missing
        ELSE (CHOOSE i \in places : \A j \in places : i <= j) - 1

Init == entries \in Lists /\ ready = FALSE /\ query = NoKey /\ answer = Missing

TakeIn ==
    /\ ~ready /\ ready' = TRUE
    /\ UNCHANGED <<entries, query, answer>>

Ask(k) ==
    /\ ready /\ query = NoKey
    /\ query' = k
    /\ UNCHANGED <<entries, ready, answer>>

Reply ==
    /\ query # NoKey
    /\ answer' = FirstPosition(query)
    /\ query' = NoKey
    /\ UNCHANGED <<entries, ready>>

Next == TakeIn \/ (\E k \in Keys : Ask(k)) \/ Reply

vars == <<entries, ready, query, answer>>

Safety == Init /\ [][Next]_vars

Spec == Safety /\ WF_vars(TakeIn) /\ WF_vars(Reply)
===============================================================================
