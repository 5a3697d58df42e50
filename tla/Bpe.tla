--------------------------------- MODULE Bpe ---------------------------------
(***************************************************************************)
(* bpe_piece of src/tokenizer.c: a piece of text starts as one symbol per  *)
(* byte, spelled in the byte alphabet; every pass finds the adjacent pair  *)
(* of the lowest rank and merges its occurrences from left to right, until *)
(* no pair has a rank; then the symbols are looked up in the vocabulary,   *)
(* one after the other, and the first one missing fails the piece.  The    *)
(* ranks and ids are those merge_rank and vocab_lookup answer with (module *)
(* HashTable); an id is represented by its token.  Module Tokenizer calls  *)
(* bpe_piece for the pieces of a text.                                     *)
(***************************************************************************)
EXTENDS ByteUnicode, SequencesExt

CONSTANTS
    MergeLists,     \* lists of merges, as pairs of symbols
    Vocabularies    \* sets of symbols that are tokens

ASSUME BpeAssumption ==
    /\ MergeLists \subseteq Seq(Seq(Byte) \X Seq(Byte))
    /\ \A v \in Vocabularies : v \subseteq Seq(Byte)

VARIABLES
    merges, vocabulary,     \* fixed when the tokenizer is loaded
    pc,                     \* "idle", "merge", "look_up" or "failed"
    piece,
    symbols,
    looked,                 \* how many symbols have been looked up
    output                  \* ids pushed for this piece and those before it

tables  == <<merges, vocabulary>>
bpeVars == <<tables, pc, piece, symbols, looked, output>>

(* merge_rank: the first position of a pair in the list of merges.         *)
Ranked(l, r) == \E k \in DOMAIN merges : merges[k] = <<l, r>>
Rank(l, r) == (CHOOSE k \in DOMAIN merges :
                  /\ merges[k] = <<l, r>>
                  /\ \A j \in 1 .. k - 1 : merges[j] # <<l, r>>) - 1

(* The places where a symbol and the next one have a rank, and the rank of *)
(* the pass.                                                               *)
Places(s) == {i \in 1 .. Len(s) - 1 : Ranked(s[i], s[i + 1])}
PlaceRank(s, i) == Rank(s[i], s[i + 1])
WorstRank(s) == CHOOSE r \in {PlaceRank(s, i) : i \in Places(s)} :  \* seeded fault
                    \A i \in Places(s) : r >= PlaceRank(s, i)

BestRank(s) == CHOOSE r \in {PlaceRank(s, i) : i \in Places(s)} :
                   \A i \in Places(s) : r <= PlaceRank(s, i)

CanMerge(s, i, rank) == i \in Places(s) /\ PlaceRank(s, i) = rank

(* One pass from left to right: i += 2 after a merge, ++i otherwise.       *)
MergedInOverlap(s, rank) ==                                     \* seeded fault
    LET from[i \in 1 .. Len(s) + 2] ==
            IF i > Len(s) THEN <<>>
            ELSE IF CanMerge(s, i, rank)
            THEN <<s[i] \o s[i + 1]>> \o from[i + 1]
            ELSE <<s[i]>> \o from[i + 1]
    IN  from[1]

Merged(s, rank) ==
    LET from[i \in 1 .. Len(s) + 2] ==
            IF i > Len(s) THEN <<>>
            ELSE IF CanMerge(s, i, rank)
            THEN <<s[i] \o s[i + 1]>> \o from[i + 2]
            ELSE <<s[i]>> \o from[i + 1]
    IN  from[1]

Spelled(bytes) ==
    [i \in DOMAIN bytes |-> Utf8Encode(codepoint_for_byte[bytes[i]])]

BpeInit ==
    /\ merges \in MergeLists
    /\ vocabulary \in Vocabularies
    /\ pc = "idle" /\ piece = <<>> /\ symbols = <<>> /\ looked = 0
    /\ output = <<>>

(* The call, for a piece that is never empty.                              *)
BeginPiece(bytes) ==
    /\ pc = "idle"
    /\ piece' = bytes
    /\ symbols' = Spelled(bytes) /\ looked' = 0
    /\ pc' = "merge"
    /\ UNCHANGED <<tables, output>>

MergePass ==
    /\ pc = "merge"
    /\ Places(symbols) # {}
    /\ symbols' = Merged(symbols, BestRank(symbols))
    /\ UNCHANGED <<tables, pc, piece, looked, output>>

NothingToMerge ==
    /\ pc = "merge"
    /\ Places(symbols) = {}
    /\ pc' = "look_up"
    /\ UNCHANGED <<tables, piece, symbols, looked, output>>

NextSymbol == symbols[looked + 1]

LookUp ==
    /\ pc = "look_up" /\ looked < Len(symbols)
    /\ NextSymbol \in vocabulary
    /\ output' = Append(output, NextSymbol)
    /\ looked' = looked + 1
    /\ UNCHANGED <<tables, pc, piece, symbols>>

(* tokenizer_encode then frees the ids pushed so far.                      *)
LookUpFails ==
    /\ pc = "look_up" /\ looked < Len(symbols)
    /\ NextSymbol \notin vocabulary
    /\ pc' = "failed"
    /\ output' = <<>>
    /\ UNCHANGED <<tables, piece, symbols, looked>>

Return ==
    /\ pc = "look_up" /\ looked = Len(symbols)
    /\ pc' = "idle" /\ piece' = <<>> /\ symbols' = <<>> /\ looked' = 0
    /\ UNCHANGED <<tables, output>>

----------------------------------------------------------------------------
(* Properties.                                                             *)

(* Byte-pair encoding as it is defined: apply the merge rules one by one,  *)
(* from the first in the list to the last, each to the leftmost place      *)
(* where it fits, as long as it fits anywhere.                             *)
PlacesOf(s, rule) == {i \in 1 .. Len(s) - 1 : <<s[i], s[i + 1]>> = rule}

MergeAt(s, i) == SubSeq(s, 1, i - 1) \o <<s[i] \o s[i + 1]>>
                                     \o SubSeq(s, i + 2, Len(s))

Applied(s, rule) ==
    IF PlacesOf(s, rule) = {} THEN s ELSE MergeAt(s, Min(PlacesOf(s, rule)))

(* Each time there is one symbol less.                                     *)
Exhaust(s, rule) ==
    LET times[n \in 0 .. Len(s)] ==
            IF n = 0 THEN s ELSE Applied(times[n - 1], rule)
    IN  times[Len(s)]

RuleByRule(p) ==
    LET after[k \in 0 .. Len(merges)] ==
            IF k = 0 THEN Spelled(p)
            ELSE Exhaust(after[k - 1], merges[k])
    IN  after[Len(merges)]

(* The lists a trainer produces: it pairs the symbols it has and makes no  *)
(* symbol that it has, so what a rule takes is made by earlier rules only. *)
Trained ==
    \A j, k \in DOMAIN merges :
        merges[j][1] \o merges[j][2] \in {merges[k][1], merges[k][2]} => j < k

(* With a trained list of merges the passes, which choose the best pair    *)
(* anew each time, end where the rules applied in order end.               *)
AgreesWithRules ==
    pc = "look_up" /\ looked = 0 /\ Trained => symbols = RuleByRule(piece)
==============================================================================
