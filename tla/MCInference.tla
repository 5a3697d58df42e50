---------------------------- MODULE MCInference ----------------------------
(***************************************************************************)
(* Small instances of Inference.  The layers of the network are free       *)
(* terms: two rows, states or logits are equal only when they were         *)
(* computed by the same operations from the same tokens.  A term that was  *)
(* computed from a whole context the right way is abbreviated by that      *)
(* context, every other one is kept in full as "mixed".                    *)
(***************************************************************************)
EXTENDS Inference

MCEmbed(token, at) == <<"embed", token, at>>
MCKeyRow(l, s)     == <<"key", l, s>>
MCValueRow(l, s)   == <<"value", l, s>>

MCHidden(l, s) ==
    IF l = 0 THEN MCEmbed(s[Len(s)], Len(s) - 1) ELSE <<"hidden", l, s>>

(* The token a state or a row was computed from; 0 for a row of zeros.     *)
StateToken(s) ==
    IF s[1] = "embed" THEN s[2]
    ELSE IF s[1] = "hidden" THEN s[3][Len(s[3])] ELSE 0
RowToken(r) == IF r[1] \in {"key", "value"} THEN StateToken(r[3]) ELSE 0

MCAttnBlock(l, s, ks, vs) ==
    LET c == [t \in DOMAIN ks |-> RowToken(ks[t])]
    IN IF /\ s = MCHidden(l, c)
          /\ \A t \in DOMAIN ks :
                /\ ks[t] = MCKeyRow(l, MCHidden(l, Prefix(c, t)))
                /\ vs[t] = MCValueRow(l, MCHidden(l, Prefix(c, t)))
       THEN <<"attn", l, c>>
       ELSE <<"mixed", l, <<s, ks, vs>>>>

MCFeedForward(l, s) ==
    IF s[1] = "attn" /\ s[2] = l THEN <<"hidden", l + 1, s[3]>> ELSE <<"mixed", l, s>>

(* Scores -2, 0 and 2, with ties, from the context's first and last token  *)
(* and its length.                                                         *)
MCLmHead(s) ==
    LET seed == IF s[1] = "hidden"
                THEN s[3][Len(s[3])] + 2 * Len(s[3]) + s[3][1] ELSE 0
    IN [id \in TokenIds |-> 2 * ((seed + 2 * id) % 3) - 2]

MCZeroRow  == <<"zero">>
MCNoLogits == [of |-> <<"uninitialised">>, masked |-> {}]

(* Prompts: none, one token, an exact fit, one too long for the window,    *)
(* one whose id the model does not have.                                   *)
MCPrompts == {<<>>, <<0>>, <<1, 0>>, <<0, 1, 3>>, <<1, 0, 1, 0>>, <<1, 4, 1, 0, 0>>, <<2, 4>>,
              <<0, 0, 1, 1, 0, 1>>}
MCPlainPrompts == {<<>>, <<0>>, <<1>>, <<1, 0>>, <<0, 1, 1, 0, 1, 0>>}

SessionOptions ==
    [temperature |-> 1, top_k |-> 3, top_p |-> 95, repeat_penalty |-> 2, repeat_last_n |-> 2]
Unlimited == [temperature |-> 1, top_k |-> 0, top_p |-> 100,
              repeat_penalty |-> 1, repeat_last_n |-> 64]
=============================================================================
