----------------------------- MODULE MCTokenizer -----------------------------
(***************************************************************************)
(* Sessions for model checking.  Every byte is typed, four in a row; lines *)
(* of up to four bytes over a letter and the space, and of three           *)
(* characters with a contraction and with e-acute, which takes two bytes   *)
(* and may be cut by the buffer of six; several lines, lines of five and   *)
(* six bytes, one that is cut into a part and "exit", and lines with a     *)
(* zero.  The merges are every single one over the letter and the space up *)
(* to three bytes, and lists that build on each other; the vocabulary is   *)
(* complete or lacks a symbol.                                             *)
(***************************************************************************)
EXTENDS Tokenizer

a == 97
b == 32

Strings(n) == UNION {[1 .. m -> {a, b}] : m \in 1 .. n}

Symbol(bytes) == FlattenSeq(Spelled(bytes))
Symbols(n)    == {Symbol(s) : s \in Strings(n)}

Exit == <<101, 120, 105, 116>>

MCInputs ==
    {[k \in 1 .. 4 |-> 4 * n + k - 1] : n \in 0 .. 63} \cup Strings(4)
        \cup {FlattenSeq(s) : s \in [1 .. 3 -> {<<a>>, <<b>>, <<39, 115>>, <<195, 169>>}]}
        \cup {<<a, NL>>, <<NL>>, <<NL, NL, a>>, <<a, NL, b, a, NL>>, <<a, a, b, a, a, NL, a>>,
              <<a, a, a, a, NL, a>>, <<39, 114, 101, 39, 118, 39, 114>>,
              <<a, 49, 50, 194, 160, NL>>, <<a, 0, b, NL, a>>, <<0, NL, a, NL>>,
              <<240, 159, 152, 128, a>>, <<a, 240, 159>>, <<226, 130, 172, NL>>,
              <<a, a, a, a, a>> \o Exit \o <<NL, a>>, Exit \o <<NL, a, NL>>, Exit \o <<b, NL>>,
              <<113, 117, 105, 116>>}

Pairs   == {<<Symbol(p[1]), Symbol(p[2])>> :
               p \in {q \in Strings(2) \X Strings(2) : Len(q[1]) + Len(q[2]) <= 3}}
Singles == Symbols(1) \X Symbols(1)

(* Two rules make one symbol; the list that takes it before the second     *)
(* does is not a trained one.                                              *)
Twice ==
    LET la == Symbol(<<a>>)
        lb == Symbol(<<b>>)
        taking == <<lb \o la \o la, la>>
        second == <<lb, la \o la>>
        start  == <<<<la, la>>, <<lb, la>>, <<lb \o la, la>>>>
    IN  {start \o <<second, taking>>, start \o <<taking, second>>}

MCMergeLists ==
    UNION {[1 .. n -> Pairs] : n \in 0 .. 1}
        \cup {<<p, q>> : p, q \in Singles}
        \cup {<<p, <<p[1] \o p[2], q[1]>>>> : p, q \in Singles}
        \cup {<<<<q[1], p[1] \o p[2]>>, p>> : p, q \in Singles}
        \cup {<<p, q, <<p[1] \o p[2], q[1] \o q[2]>>>> : p, q \in Singles}
        \cup {<<p, <<p[1] \o p[2], q[1]>>, q>> : p, q \in Singles}
        \cup Twice

MCVocabularies ==
    LET complete == Symbols(5) \cup {Symbol(s) : s \in [1 .. 1 -> Byte]}
    IN  {complete, complete \ {Symbol(<<b, a>>)}}

Text(bytes)       == [spelling |-> Symbol(bytes), means |-> bytes]
Special(spelling) == [spelling |-> spelling, means |-> spelling]

(* Text up to longer than the buffer; tokens whose codepoints are not in   *)
(* the alphabet; tokens that are no UTF-8.                                 *)
MCEmitted ==
    {Text(<<b, a, 0, 173>>), Text(<<195, 169, b, a, a>>), Text(<<b, b, b, b, b, b>>),
     Special(<<226, 130, 172, 226, 130, 172>>),
     Special(<<a, 226, 130>>), Special(<<128, 195>>), Special(<<197, 132>>)}

MCWide == [space |-> {160}, digit |-> {}, letter |-> {233, 195}]
==============================================================================
