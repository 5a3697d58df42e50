------------------------------- MODULE MCQuant -------------------------------
(***************************************************************************)
(* Conversions for model checking: tensors of none to three blocks of      *)
(* every type, element counts that break a block, an unknown type, and     *)
(* every half there is.                                                    *)
(***************************************************************************)
EXTENDS Quant

Plain(type, n) == [type |-> type, n |-> n, halves |-> <<>>]

MCCalls ==
    {Plain(type, n * Block[type][1]) : type \in DOMAIN Block \ {"f16"}, n \in 0 .. 3}
        \cup {Plain(type, n) : type \in {"q4_0", "q4_1", "q5_0", "q5_1", "q8_0"}, n \in {31, 33}}
        \cup {Plain(type, n) : type \in {"q4_K", "q5_K", "q6_K"}, n \in {32, 255, 257}}
        \cup {Plain("q8_K", 256)}
        \cup {[type |-> "f16", n |-> 1, halves |-> <<h>>] : h \in 0 .. 65535}
        \cup {[type |-> "f16", n |-> 3, halves |-> <<1, 31743, 32768 + h>>] : h \in {0, 1, 1024}}
==============================================================================
