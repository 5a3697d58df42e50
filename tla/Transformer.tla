---------------------------- MODULE Transformer ----------------------------
(***************************************************************************)
(* What a loaded GPT-2 model computes, as operators on uninterpreted       *)
(* values, and the options that shape one completion.  A vector of floats  *)
(* is one value; the arithmetic inside a layer is a constant operator, so  *)
(* two computations are equal exactly when they used the same inputs in    *)
(* the same order.                                                         *)
(***************************************************************************)
EXTENDS Sampler

CONSTANTS
    VocabSize,      \* rows of the embedding matrix (model->cfg.vocab_size)
    NTokens,        \* entries of the tokenizer's vocabulary (tokenizer->n_tokens)
    ContextLength,  \* model->cfg.context_length
    BlockCount,     \* model->cfg.block_count
    HasEos,         \* tokenizer->has_eos
    EosId,          \* tokenizer->eos_id
    UnusedIds,      \* ids of GGUF token type 5; empty without token_types
    MaxTokens,      \* options->max_tokens
    NextTokenId,    \* options->next_token_id
    Options,        \* options->sampler
    Embed(_, _),    \* token and position embedding of one token
    KeyRow(_, _),   \* the K third of LN + QKV projection of a layer's input
    ValueRow(_, _), \* the V third
    AttnBlock(_, _, _, _),  \* layer, its input, the K rows and V rows it reads
    FeedForward(_, _),      \* layer, the state after its attention block
    LmHead(_),      \* final LN + output projection: the logits of a state
    Hidden(_, _)    \* see HiddenAssumption

TokenIds == 0 .. VocabSize - 1

Contexts == UNION {[1..n -> TokenIds] : n \in 1..ContextLength}

Prefix(s, n) == [i \in 1..n |-> s[i]]

ASSUME SizeAssumption ==
    /\ VocabSize \in Nat \ {0}
    /\ NTokens \in Nat \ {0}
    /\ ContextLength \in Nat \ {0}
    /\ BlockCount \in Nat \ {0}
    /\ MaxTokens \in Nat
    /\ UnusedIds \subseteq Nat
    /\ HasEos \in BOOLEAN
    /\ NextTokenId \in BOOLEAN
    /\ HasEos => EosId \in 0 .. NTokens - 1

(* Hidden(l, s) is the state of the last token of s after l blocks when    *)
(* the whole of s is processed at once, every block attending to all of s: *)
(* the unrolled definition of the transformer, without any cache.          *)
ASSUME HiddenAssumption ==
    \A s \in Contexts :
        /\ Hidden(0, s) = Embed(s[Len(s)], Len(s) - 1)
        /\ \A l \in 0 .. BlockCount - 1 :
              Hidden(l + 1, s) =
                  FeedForward(l, AttnBlock(l, Hidden(l, s),
                      [t \in 1 .. Len(s) |-> KeyRow(l, Hidden(l, Prefix(s, t)))],
                      [t \in 1 .. Len(s) |-> ValueRow(l, Hidden(l, Prefix(s, t)))]))

----------------------------------------------------------------------------

(* sampling_vocab of run_prompt, and the ids below it.                     *)
SamplingVocabOfModel == VocabSize                       \* seeded fault
SamplingVocab == IF VocabSize < NTokens THEN VocabSize ELSE NTokens
SamplingIds == 0 .. SamplingVocab - 1

(* The ids mask_unused_tokens overwrites with -INFINITY.                   *)
Masked == {id \in SamplingIds : id \in UnusedIds /\ ~(HasEos /\ id = EosId)}

(* The contents of the logits buffer: computed from a hidden state, and    *)
(* then possibly masked.                                                   *)
RawLogits(state) == [of |-> state, masked |-> {}]
MaskNothing(logits) == logits                           \* seeded fault
Mask(logits) == [logits EXCEPT !.masked = Masked]

Scores(logits) ==
    [id \in SamplingIds |->
        IF id \in logits.masked THEN NegInf ELSE LmHead(logits.of)[id]]

Sampled(logits, history) == 
    SamplerChoices(Options, Scores(logits), SamplingVocab, history)

(* --next-token-id samples with a copy of the options whose temperature    *)
(* is zero.                                                                *)
SampledGreedily(logits, history) ==
    SamplerChoices([Options EXCEPT !.temperature = 0], Scores(logits), SamplingVocab, history)

(* The part of a prompt that run_prompt keeps: at most context - 1 tokens  *)
(* (one when the context has a single position), the last ones.            *)
MaxPrompt == IF ContextLength > 1 THEN ContextLength - 1 ELSE 1

WindowBeginning(ids) ==                                 \* seeded fault
    [i \in 1 .. (IF Len(ids) > MaxPrompt THEN MaxPrompt ELSE Len(ids)) |-> ids[i]]
Window(ids) ==
    LET drop == IF Len(ids) > MaxPrompt THEN Len(ids) - MaxPrompt ELSE 0
    IN [i \in 1 .. Len(ids) - drop |-> ids[i + drop]]
=============================================================================
