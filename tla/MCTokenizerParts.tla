-------------------------- MODULE MCTokenizerParts --------------------------
(***************************************************************************)
(* The two parts of the tokenizer that work by themselves, side by side:   *)
(* neither touches what the other keeps.  In a run one of them has every   *)
(* input of the bounds and the other a single small one.                   *)
(*                                                                         *)
(* The tables: every list of up to three entries over two keys and an      *)
(* entry that is skipped, a third key that is in no list, and every hash   *)
(* function onto the slots of the largest table.  The pre-tokenizer: every *)
(* text of up to four characters of every kind, and of five over the kinds *)
(* that take part in contractions.                                         *)
(***************************************************************************)
EXTENDS HashTable, PreTokenizer

CONSTANTS k1, k2, k3

MCKeys  == {k1, k2, k3}
MCLists == UNION {[1 .. n -> {k1, k2, NoKey}] : n \in 0 .. 3}
MCTexts == UNION {[1 .. n -> Kinds] : n \in 0 .. 4}
              \cup [1 .. 5 -> {"blank", "l", "'", "mark"}]

AnyTable == text = <<>> /\ Init /\ TableInit
AnyText  == entries = <<>> /\ hash = [k \in Keys |-> 0] /\ TableInit /\ Init

TablesMove == TableNext /\ UNCHANGED vars
TextMoves  == Next /\ UNCHANGED tableVars

(* The fairness of TableSpec and of Spec.                                  *)
PartsSpec ==
    /\ AnyTable \/ AnyText
    /\ [][TablesMove \/ TextMoves]_<<tableVars, vars>>
    /\ WF_tableVars(Step /\ UNCHANGED vars)
    /\ WF_vars(Progress /\ UNCHANGED tableVars)
=============================================================================
