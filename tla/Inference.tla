------------------------------ MODULE Inference ------------------------------
(***************************************************************************)
(* A completion session as src/main.c and src/gpt2.c run it: run_prompt    *)
(* feeds a prompt token by token through gpt2_forward_token, which keeps   *)
(* the keys and values of every position in the KV cache, then samples,    *)
(* prints and feeds back one token at a time.  run_interactive repeats     *)
(* this on the same model, whose cache and buffers survive from prompt to  *)
(* prompt.  Any product of a matrix and a vector may fail in the backend.  *)
(***************************************************************************)
EXTENDS Transformer

CONSTANTS
    Prompts,        \* token sequences tokenizer_encode may return
    Interactive,    \* options->interactive
    ZeroRow,        \* a cache row of zeros
    NoLogits        \* the logits buffer before the first projection

ASSUME PromptAssumption == Prompts \subseteq Seq(0 .. NTokens - 1)

VARIABLES
    pc,             \* where the program is
    history,        \* prompt_ids during prefill, history afterwards
    prompt_count,
    position,       \* prefill's i, then generation's position
    layer,          \* layer_index of gpt2_forward_token
    x,              \* model->x
    k_cache, v_cache,
    logits,
    generated,
    output,         \* ids printed for the current prompt
    cause           \* why the session ended; "none" while it runs, "done" and
                    \* "quit" when main returns 0

vars == <<pc, history, prompt_count, position, layer, x, k_cache, v_cache,
          logits, generated, output, cause>>

cacheVars  == <<k_cache, v_cache>>
promptVars == <<history, prompt_count, generated, output>>

(* A cache holds block_count * context rows of embedding_length floats.    *)
CacheRows == 0 .. BlockCount * ContextLength - 1
RowOverlapping(l, p) == l * (ContextLength - 1) + p     \* seeded fault
Row(l, p) == l * ContextLength + p
ZeroCache == [row \in CacheRows |-> ZeroRow]

Init ==
    /\ pc = "prompt"
    /\ history = <<>> /\ prompt_count = 0 /\ generated = 0 /\ output = <<>>
    /\ position = 0 /\ layer = 0
    /\ x = ZeroRow
    /\ k_cache = ZeroCache /\ v_cache = ZeroCache
    /\ logits = NoLogits
    /\ cause = "none"

----------------------------------------------------------------------------
(* run_interactive and the beginning of run_prompt.                        *)

Exit(why) ==
    /\ pc' = "exited"
    /\ cause' = why

(* End of input, "exit" or "quit".                                         *)
Quit ==
    /\ pc = "prompt" /\ Interactive
    /\ Exit("quit")
    /\ UNCHANGED <<promptVars, position, layer, x, cacheVars, logits>>

(* tokenizer_encode fails.                                                 *)
EncodeFails ==
    /\ pc = "prompt"
    /\ Exit("encode")
    /\ UNCHANGED <<promptVars, position, layer, x, cacheVars, logits>>

EmptyWithoutEos ==
    /\ pc = "prompt"
    /\ <<>> \in Prompts /\ ~HasEos
    /\ Exit("no_eos")
    /\ UNCHANGED <<promptVars, position, layer, x, cacheVars, logits>>

(* The tokens run_prompt feeds for an encoded prompt.                      *)
PromptIds(ids) == Window(IF ids = <<>> THEN <<EosId>> ELSE ids)

OutsideVocab(ids) == \E i \in DOMAIN ids : ids[i] >= VocabSize

RefusePrompt(ids) ==
    /\ pc = "prompt"
    /\ ids = <<>> => HasEos
    /\ OutsideVocab(PromptIds(ids))
    /\ Exit("vocab")
    /\ UNCHANGED <<promptVars, position, layer, x, cacheVars, logits>>

StartPromptWithoutReset(ids) ==                         \* seeded fault
    /\ pc = "prompt"
    /\ ids = <<>> => HasEos
    /\ ~OutsideVocab(PromptIds(ids))
    /\ history' = PromptIds(ids)
    /\ prompt_count' = Len(PromptIds(ids))
    /\ generated' = 0 /\ output' = <<>>
    /\ position' = 0
    /\ logits' = NoLogits
    /\ pc' = "prefill"
    /\ UNCHANGED <<layer, x, cacheVars, cause>>

(* gpt2_reset clears both caches; the logits buffer is fresh.              *)
StartPrompt(ids) ==
    /\ pc = "prompt"
    /\ ids = <<>> => HasEos
    /\ ~OutsideVocab(PromptIds(ids))
    /\ history' = PromptIds(ids)
    /\ prompt_count' = Len(PromptIds(ids))
    /\ generated' = 0 /\ output' = <<>>
    /\ position' = 0
    /\ k_cache' = ZeroCache /\ v_cache' = ZeroCache
    /\ logits' = NoLogits
    /\ pc' = "prefill"
    /\ UNCHANGED <<layer, x, cause>>

----------------------------------------------------------------------------
(* gpt2_forward_token, one action per block of host work between the       *)
(* backend calls that matter to the cache.                                 *)

(* The call itself: the range check, then the embedding.                   *)
Forward(token, at) ==
    IF token >= VocabSize \/ at >= ContextLength
    THEN Exit("range") /\ UNCHANGED <<layer, x>>
    ELSE /\ x' = Embed(token, at)
         /\ layer' = 0
         /\ pc' = "attention"
         /\ UNCHANGED cause

BackendFails ==
    /\ Exit("backend")
    /\ UNCHANGED <<promptVars, position, layer, x, logits>>

WriteRowKeysTwice ==                                    \* seeded fault
    /\ k_cache' = [k_cache EXCEPT ![Row(layer, position)] = KeyRow(layer, x)]
    /\ v_cache' = [v_cache EXCEPT ![Row(layer, position)] = KeyRow(layer, x)]

WriteRow ==
    /\ k_cache' = [k_cache EXCEPT ![Row(layer, position)] = KeyRow(layer, x)]
    /\ v_cache' = [v_cache EXCEPT ![Row(layer, position)] = ValueRow(layer, x)]

Keys   == [t \in 1 .. position + 1 |-> k_cache'[Row(layer, t - 1)]]
Values == [t \in 1 .. position + 1 |-> v_cache'[Row(layer, t - 1)]]

(* QKV projection, attention_incremental, output projection, residual.     *)
Attention ==
    /\ pc = "attention"
    /\ WriteRow
    /\ x' = AttnBlock(layer, x, Keys, Values)
    /\ pc' = "mlp"
    /\ UNCHANGED <<promptVars, position, layer, logits, cause>>

(* The QKV product fails before the row is written, the output projection  *)
(* after it.                                                               *)
AttentionFails ==
    /\ pc = "attention"
    /\ UNCHANGED cacheVars \/ WriteRow
    /\ BackendFails

(* Both products of the MLP block and the second residual.                 *)
Mlp ==
    /\ pc = "mlp"
    /\ x' = FeedForward(layer, x)
    /\ layer' = layer + 1
    /\ pc' = IF layer + 1 < BlockCount THEN "attention" ELSE "head"
    /\ UNCHANGED <<promptVars, position, cacheVars, logits, cause>>

(* During prefill only the last prompt token asks for logits.              *)
WantsLogits == generated > 0 \/ position + 1 = prompt_count

ForwardReturnsInPlace ==                                \* seeded fault
    /\ pc' = IF generated > 0 THEN "generate" ELSE "prefill"
    /\ UNCHANGED <<promptVars, position, layer, x, cacheVars, cause>>

(* Return to the caller's loop, which advances the position.               *)
ForwardReturns ==
    /\ position' = position + 1
    /\ pc' = IF generated > 0 THEN "generate" ELSE "prefill"
    /\ UNCHANGED <<promptVars, layer, x, cacheVars, cause>>

OutputHead ==
    /\ pc = "head"
    /\ logits' = IF WantsLogits THEN RawLogits(x) ELSE logits
    /\ ForwardReturns

ProjectionFails ==
    /\ pc = "mlp" \/ (pc = "head" /\ WantsLogits)
    /\ BackendFails
    /\ UNCHANGED cacheVars

----------------------------------------------------------------------------
(* The two loops of run_prompt.                                            *)

Prefill ==
    /\ pc = "prefill"
    /\ position < prompt_count
    /\ Forward(history[position + 1], position)
    /\ UNCHANGED <<promptVars, position, cacheVars, logits>>

BeginGeneration ==
    /\ pc = "prefill"
    /\ position = prompt_count
    /\ ~NextTokenId
    /\ pc' = "generate"
    /\ UNCHANGED <<promptVars, position, layer, x, cacheVars, logits, cause>>

(* run_prompt returns 0.                                                    *)
FinishPrompt ==
    /\ IF Interactive THEN pc' = "prompt" /\ UNCHANGED cause ELSE Exit("done")
    /\ UNCHANGED <<history, prompt_count, generated, position, layer, x,
                   cacheVars, logits>>

PrintNextTokenSampled ==                                \* seeded fault
    /\ pc = "prefill"
    /\ position = prompt_count
    /\ NextTokenId
    /\ \E id \in Sampled(Mask(logits), history) : output' = <<id>>
    /\ FinishPrompt

PrintNextToken ==
    /\ pc = "prefill"
    /\ position = prompt_count
    /\ NextTokenId
    /\ \E id \in SampledGreedily(Mask(logits), history) : output' = <<id>>
    /\ FinishPrompt

LoopConditionUnbounded == generated < MaxTokens         \* seeded fault
LoopCondition == generated < MaxTokens /\ position < ContextLength

IsEos(id) == HasEos /\ id = EosId

(* Mask, sample, print, append to the history and feed the token back.     *)
Generate ==
    /\ pc = "generate" /\ LoopCondition
    /\ \E next \in Sampled(Mask(logits), history) :
          /\ ~IsEos(next)
          /\ history' = Append(history, next)
          /\ output' = Append(output, next)
          /\ Forward(next, position)
    /\ generated' = generated + 1
    /\ logits' = Mask(logits)
    /\ UNCHANGED <<prompt_count, position, cacheVars>>

StopAtEos ==
    /\ pc = "generate" /\ LoopCondition
    /\ \E next \in Sampled(Mask(logits), history) : IsEos(next)
    /\ FinishPrompt
    /\ UNCHANGED output

StopAtLimit ==
    /\ pc = "generate" /\ ~LoopCondition
    /\ FinishPrompt
    /\ UNCHANGED output

----------------------------------------------------------------------------

(* Steps the program takes by itself, and steps of the user.               *)
ForwardStep == Attention \/ AttentionFails \/ Mlp \/ OutputHead \/ ProjectionFails

LoopStep ==
    \/ Prefill \/ BeginGeneration \/ PrintNextToken
    \/ Generate \/ StopAtEos \/ StopAtLimit

PromptStep ==
    \/ Quit \/ EncodeFails \/ EmptyWithoutEos
    \/ \E ids \in Prompts : RefusePrompt(ids) \/ StartPrompt(ids)

(* main returns.                                                           *)
Exited == pc = "exited" /\ UNCHANGED vars

Next == ForwardStep \/ LoopStep \/ PromptStep \/ Exited

Spec == Init /\ [][Next]_vars /\ WF_vars(ForwardStep \/ LoopStep)

----------------------------------------------------------------------------
(* Properties.                                                             *)

(* The types of the variables; the caches keep their size.                 *)
TypeOK ==
    /\ pc \in {"prompt", "prefill", "attention", "mlp", "head", "generate",
               "exited"}
    /\ history \in Seq(TokenIds)
    /\ prompt_count \in 0 .. ContextLength
    /\ generated \in 0 .. MaxTokens
    /\ position \in 0 .. ContextLength
    /\ layer \in 0 .. BlockCount
    /\ DOMAIN k_cache = CacheRows /\ DOMAIN v_cache = CacheRows
    /\ output \in Seq(SamplingIds)

(* The logits the sampler is about to read are those of the whole history, *)
(* processed at once without a cache (main.c:349 and main.c:317 read what  *)
(* the last of several calls of gpt2_forward_token left).                  *)
LogitsReady == pc = "generate" \/ (pc = "prefill" /\ position = prompt_count)

LogitsExact ==
    LogitsReady => logits = RawLogits(Hidden(BlockCount, history))

(* Row t of block l holds the key and the value of token t as computed     *)
(* from the first t + 1 tokens: for every token already processed, and in  *)
(* the blocks the current token has passed (attention_incremental,         *)
(* gpt2.c:479-487).                                                        *)
InForward == pc \in {"attention", "mlp", "head"}
Active    == InForward \/ pc \in {"prefill", "generate"}

Written(l, t) ==
    \/ t < position
    \/ /\ InForward /\ t = position
       /\ l < layer \/ (l = layer /\ pc = "mlp")

CacheCoherent ==
    Active =>
        \A l \in 0 .. BlockCount - 1, t \in 0 .. ContextLength - 1 :
            Written(l, t) =>
                /\ t < Len(history)
                /\ k_cache[Row(l, t)] = KeyRow(l, Hidden(l, Prefix(history, t + 1)))
                /\ v_cache[Row(l, t)] = ValueRow(l, Hidden(l, Prefix(history, t + 1)))

(* Every other row is still zero, as gpt2_reset left it.                   *)
UnwrittenZero ==
    Active =>
        \A l \in 0 .. BlockCount - 1, t \in 0 .. ContextLength - 1 :
            ~Written(l, t) => /\ k_cache[Row(l, t)] = ZeroRow
                              /\ v_cache[Row(l, t)] = ZeroRow

(* Where the loops and the forward pass stand with respect to the tokens   *)
(* fed so far.                                                             *)
Control ==
    Active =>
        /\ 1 <= prompt_count
        /\ Len(history) = prompt_count + generated
        /\ Len(history) <= ContextLength
        /\ Len(output) = generated
        /\ pc = "generate" \/ generated > 0 => ~NextTokenId
        /\ pc = "prefill" => generated = 0 /\ position <= prompt_count
        /\ pc = "generate" => position = Len(history)
        /\ InForward =>
              /\ position < Len(history)
              /\ generated > 0 => position + 1 = Len(history)
        /\ pc \in {"attention", "mlp"} => layer < BlockCount
        /\ pc = "head" => layer = BlockCount

(* The state travelling through the blocks is that of the current token in *)
(* the context of all the tokens before it.                                *)
Current == Prefix(history, position + 1)

StateExact ==
    /\ pc = "attention" => x = Hidden(layer, Current)
    /\ pc = "mlp" =>
          x = AttnBlock(layer, Hidden(layer, Current),
                [t \in 1 .. position + 1 |-> KeyRow(layer, Hidden(layer, Prefix(history, t)))],
                [t \in 1 .. position + 1 |-> ValueRow(layer, Hidden(layer, Prefix(history, t)))])
    /\ pc = "head" => x = Hidden(BlockCount, Current)

(* Ids printed are in both vocabularies, are never placeholders (the       *)
(* comment at main.c:225: "those IDs must never be sampled") and never the *)
(* end-of-text token, which ends the completion before it is printed.      *)
EmittedUsable ==
    \A i \in DOMAIN output :
        /\ output[i] < VocabSize /\ output[i] < NTokens
        /\ IF HasEos /\ output[i] = EosId
           THEN NextTokenId ELSE output[i] \notin UnusedIds

(* The range check of gpt2_forward_token (gpt2.c:596) never ends a         *)
(* session: the truncation of the prompt, the vocabulary check, the        *)
(* sampling limit and the loop condition together exclude it, for a prompt *)
(* that fills the window as for a completion that fills the context.       *)
RangeNeverFails == cause # "range"

(* The inductive invariant of the safety proofs.                           *)
IInv ==
    /\ TypeOK
    /\ Control
    /\ CacheCoherent
    /\ UnwrittenZero
    /\ StateExact
    /\ LogitsExact
    /\ RangeNeverFails

(* Between two resets every cache row is written at most once: no position *)
(* of any block overwrites the row of another one.                         *)
RowWrittenOnce ==
    [][\A row \in CacheRows :
          k_cache'[row] # k_cache[row] =>
              \/ k_cache[row] = ZeroRow
              \/ pc = "prompt" /\ k_cache'[row] = ZeroRow]_vars

(* Every accepted prompt is answered: the prefill loop and the generation  *)
(* loop end, whatever is sampled and whatever fails, as long as the        *)
(* program itself is scheduled.                                            *)
PromptCompletes == pc = "prefill" ~> pc \in {"prompt", "exited"}

(* The session implements the abstract completion: the loops of run_prompt *)
(* (main.c:295-305, 347-381) print what sampling from the logits of the    *)
(* whole context would print, stop where it would stop, and do not stall.  *)
Abstract == INSTANCE Completion WITH
    status  <- IF pc = "prompt" THEN "ready"
               ELSE IF pc # "exited" THEN "running"
               ELSE IF cause \in {"done", "quit"} THEN "done" ELSE "failed",
    context <- history

CompletionSpec == Abstract!Spec

(* Its safety part alone.                                                  *)
CompletionSafety == Abstract!Safety
=============================================================================
